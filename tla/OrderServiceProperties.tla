----------------------- MODULE OrderServiceProperties -----------------------
(***************************************************************************)
(* What order-service promises those that call it.                         *)
(***************************************************************************)
EXTENDS OrderService

(* README, Outbox Pattern: "events are written atomically with business    *)
(* data".  The tables hold an order with all of its items and its event,   *)
(* or nothing of it, whatever call fails and whenever the process dies.    *)
WholeOrders ==
  \A w \in rows :
    LET sameOrder == {v \in rows : v.order = w.order}
    IN  /\ \A v \in sameOrder : v.by = w.by
        /\ Cardinality(InTable(sameOrder, "orders")) = 1
        /\ Cardinality(InTable(sameOrder, "order_items")) = ItemCount[w.by]
        /\ Cardinality(InTable(sameOrder, "outbox")) = 1

(* Repository.CreateOrder: who is answered 201 has an order of his own in  *)
(* the tables, though its id is only a reading of the clock.               *)
CreatedMeansStored ==
  \A r \in Creators :
    answer[r] = "ok" => \E w \in InTable(rows, "orders") : w.id = orderId[r] /\ w.by = r

(* GetOrder, GetOrders: an order that is shown is shown once and with all  *)
(* of its items, though one reads twice without a transaction and the      *)
(* other groups a join; except for a result set that broke off unnoticed   *)
(* and an id with blanks around it, which finds the order but no items.    *)
ShownWhole ==
  \A r \in Readers : ~broken[r] /\ ~asked[r].padded =>
    /\ \A i \in 1..Len(view[r]) : /\ view[r][i].items = ItemsOf(view[r][i].order)
                                  /\ view[r][i].items # {}
    /\ \A i, j \in 1..Len(view[r]) : i # j => view[r][i].order # view[r][j].order

(* CreateOrder, GetOrder: a request that has begun is answered, unless the *)
(* process dies: neither the keys nor the connections that requests and    *)
(* the relay wait for are kept from them for ever.                         *)
RequestsAreAnswered ==
  \A r \in Requests : Running(r) ~> answer[r] # None \/ ~alive

(* relay.go: an event that is stored is published, although the UPDATE     *)
(* needs a connection while the result set has one, unless the process is  *)
(* told to end: then it stays pending until the process has been replaced. *)
EventsArePublished ==
  \A i \in 1..MaxNow : i \in Pending ~> i \in published \/ signalled
-----------------------------------------------------------------------------
(* Why these hold in every reachable state: the parts of an inductive      *)
(* invariant.                                                              *)

Row == [table : {"orders", "order_items", "outbox"}, id : Nat, order : Nat, by : Creators]
Order == [order : Nat, items : SUBSET Nat]

TypeOK ==
  /\ now \in Nat \ {0}
  /\ rows \subseteq Row /\ IsFiniteSet(rows)
  /\ pc \in [Requests -> {"new", "begin", "tx", "items", "done"}]
  /\ \A r \in Creators : pc[r] # "items"
  /\ \A r \in Readers : pc[r] \notin {"begin", "tx"}
  /\ orderId \in [Creators -> Nat]
  /\ written \in [Creators -> SUBSET Row]
  /\ \A r \in Creators : IsFiniteSet(written[r])
  /\ waiting \in [Creators -> Nat]
  /\ held \in [Creators \cup {Relay} -> Nat]
  /\ answer \in [Requests -> {"ok", "error", None}]
  /\ asked \in [Readers -> [id : Nat, padded : BOOLEAN]]
  /\ view \in [Readers -> Seq(Order)]
  /\ broken \in [Readers -> BOOLEAN]
  /\ sent \in BOOLEAN /\ alive \in BOOLEAN /\ signalled \in BOOLEAN
  /\ faults \in Nat

(* The ids of the order and of its rows are those of the row of orders.    *)
OrdersAreKeyed ==
  \A w \in InTable(rows \cup UNION {written[r] : r \in Creators}, "orders") : w.id = w.order

(* A transaction writes the rows of one order, in the order of Insert.     *)
WrittenInTurn ==
  \A r \in Creators :
    LET W == written[r]
    IN  /\ W # {} => pc[r] = "tx"
        /\ \A w \in W : w.by = r /\ w.order = orderId[r]
        /\ W # {} => Cardinality(InTable(W, "orders")) = 1
        /\ Cardinality(InTable(W, "order_items")) <= ItemCount[r]
        /\ InTable(W, "outbox") # {} =>
             /\ Cardinality(InTable(W, "order_items")) = ItemCount[r]
             /\ Cardinality(InTable(W, "outbox")) = 1

(* What an open transaction has inserted nobody else has: a primary key is *)
(* a lock until the end of the transaction.                                *)
KeysAreLocked ==
  \A r \in Creators : \A w \in written[r] :
    /\ \A v \in rows : ~SameKey(v, w)
    /\ \A s \in Creators \ {r} : \A v \in written[s] : ~SameKey(v, w)

(* Each open transaction holds one connection, and so does the result set  *)
(* of an unfinished cycle; the pool has the others.                        *)
ConnectionsAccounted ==
  /\ \A r \in Creators : held[r] = IF pc[r] = "tx" THEN 1 ELSE 0
  /\ held[Relay] = IF batch = {} THEN 0 ELSE 1
  /\ Free \in 0..PoolSize

(* A request is answered at its end, and one that has found an order finds *)
(* it again.                                                               *)
UnansweredWhileRunning ==
  /\ \A r \in Requests : pc[r] # "done" => answer[r] = None
  /\ \A r \in Readers : pc[r] # "done" => view[r] = << >>
  /\ \A r \in Readers :
       pc[r] = "items" => \E w \in InTable(rows, "orders") : w.id = asked[r].id

ServiceInvariant ==
  /\ TypeOK
  /\ OrdersAreKeyed
  /\ WrittenInTurn
  /\ KeysAreLocked
  /\ ConnectionsAccounted
  /\ UnansweredWhileRunning
  /\ WholeOrders
  /\ CreatedMeansStored
  /\ ShownWhole
=============================================================================
