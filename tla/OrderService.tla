---------------------------- MODULE OrderService ----------------------------
(***************************************************************************)
(* One instance of order-service: HTTP requests that create and read       *)
(* orders statement by statement, the outbox relay, and the pool of        *)
(* database connections that they share.                                   *)
(*                                                                         *)
(* Ids are readings of one clock (time.Now().UnixNano()), which may stand  *)
(* still between two readings.  A primary key that another open            *)
(* transaction has inserted is waited for, with the id that was read       *)
(* before the INSERT; one that is committed makes the INSERT fail.         *)
(*                                                                         *)
(* The two consumers of the service only execute single UPDATEs, which     *)
(* hold no connection while they wait for another one; they are part of    *)
(* OrderSaga and left out here.  The relay is in detail in Relay.          *)
(***************************************************************************)
EXTENDS Integers, Sequences, FiniteSets, SequencesExt

CONSTANTS
  Creators,   \* requests POST /orders
  Readers,    \* requests GET /orders and GET /orders/{id}
  ItemCount,  \* ItemCount[r]: items of the order of creator r
  Precision,  \* readings of the clock that a TIMESTAMP does not tell apart
  PoolSize,   \* connections of the pool
  MaxNow,     \* bound: readings of the clock
  MaxFaults,  \* bound: failed calls, signals and crashes in a behaviour
  None        \* no answer

Requests == Creators \cup Readers

(* pgxpool opens max(4, number of CPUs) connections unless told otherwise. *)
ASSUME ServiceAssumption == /\ IsFiniteSet(Creators)
                            /\ Creators \cap Readers = {}
                            /\ "relay" \notin Creators
                            /\ None \notin {"ok", "error"}
                            /\ ItemCount \in [Creators -> Nat \ {0}]
                            /\ Precision \in Nat \ {0}
                            /\ PoolSize \in Nat /\ PoolSize >= 2
                            /\ MaxNow \in Nat \ {0}
                            /\ MaxFaults \in Nat

VARIABLES
  now,        \* the clock
  rows,       \* committed rows of orders, order_items and outbox
  published,  \* ids of the outbox rows with status published
  pc,         \* pc[r]: where the handler of request r is
  orderId,    \* orderId[r]: id of the order that creator r makes, 0 before
  written,    \* written[r]: rows of the open transaction of creator r
  waiting,    \* waiting[r]: the id of an INSERT of r that waits for its key, or 0
  held,       \* held[a]: connections of request or relay a
  answer,     \* answer[r]: "ok" or "error", None before
  asked,      \* asked[r]: the id that GET /orders/{id} names, and whether padded
  view,       \* view[r]: the orders, with their items, that r is answered
  broken,     \* broken[r]: the result set of r broke off (history)
  batch,      \* ids in the result set that the relay has yet to finish
  sent,       \* the relay has published a row of batch and not marked it
  alive,      \* the process runs
  signalled,  \* it has got SIGTERM, the context of the relay is cancelled
  faults      \* faults so far

Relay == "relay"

dbVars == <<rows, published>>
createVars == <<orderId, written, waiting>>
readVars == <<asked, view, broken>>
relayVars == <<batch, sent>>
processVars == <<alive, signalled>>
vars == <<now, dbVars, pc, answer, createVars, held, readVars, relayVars, processVars, faults>>

Init ==
  /\ now = 1
  /\ rows = {}
  /\ published = {}
  /\ pc = [r \in Requests |-> "new"]
  /\ orderId = [r \in Creators |-> 0]
  /\ written = [r \in Creators |-> {}]
  /\ waiting = [r \in Creators |-> 0]
  /\ held = [a \in Creators \cup {Relay} |-> 0]
  /\ answer = [r \in Requests |-> None]
  /\ asked = [r \in Readers |-> [id |-> 0, padded |-> FALSE]]
  /\ view = [r \in Readers |-> << >>]
  /\ broken = [r \in Readers |-> FALSE]
  /\ batch = {}
  /\ sent = FALSE
  /\ alive = TRUE
  /\ signalled = FALSE
  /\ faults = 0

InTable(R, t) == {w \in R : w.table = t}
ItemsOf(o) == {w.id : w \in {x \in InTable(rows, "order_items") : x.order = o}}

Free == PoolSize - SumFunction(held)

Fault == faults < MaxFaults /\ faults' = faults + 1

Answer(r, a) == /\ pc' = [pc EXCEPT ![r] = "done"]
                /\ answer' = [answer EXCEPT ![r] = a]

Tick == /\ now < MaxNow
        /\ now' = now + 1
        /\ UNCHANGED <<dbVars, pc, answer, createVars, held, readVars, relayVars,
                       processVars, faults>>

-----------------------------------------------------------------------------
(* POST /orders                                                            *)

(* Service.CreateOrder: the order gets its id before there is a            *)
(* connection.                                                             *)
Accept(r) ==
  /\ alive
  /\ pc[r] = "new"
  /\ orderId' = [orderId EXCEPT ![r] = now]
  /\ pc' = [pc EXCEPT ![r] = "begin"]
  /\ UNCHANGED <<now, dbVars, answer, written, waiting, held, readVars, relayVars, processVars,
                 faults>>

Begin(r) ==
  /\ pc[r] = "begin"
  /\ Free > 0
  /\ held' = [held EXCEPT ![r] = 1]
  /\ pc' = [pc EXCEPT ![r] = "tx"]
  /\ UNCHANGED <<now, dbVars, answer, createVars, readVars, relayVars, processVars, faults>>

(* The table of the next INSERT. *)
NextTable(r) ==
  IF InTable(written[r], "orders") = {} THEN "orders"
  ELSE IF Cardinality(InTable(written[r], "order_items")) < ItemCount[r] THEN "order_items"
  ELSE "outbox"

AllWritten(r) == InTable(written[r], "outbox") # {}

(* An INSERT that waits keeps the id it was sent with. *)
NextRow(r) == [table |-> NextTable(r),
               id    |-> IF NextTable(r) = "orders" THEN orderId[r]
                         ELSE IF waiting[r] # 0 THEN waiting[r] ELSE now,
               order |-> orderId[r],
               by    |-> r]

SameKey(v, w) == v.table = w.table /\ v.id = w.id

Duplicate(r) == \E w \in rows \cup written[r] : SameKey(w, NextRow(r))

WaitsForKey(r) == /\ ~Duplicate(r)
                  /\ \E s \in Creators \ {r} : \E w \in written[s] : SameKey(w, NextRow(r))

Wait(r) ==
  /\ pc[r] = "tx"
  /\ ~AllWritten(r)
  /\ waiting[r] = 0
  /\ WaitsForKey(r)
  /\ waiting' = [waiting EXCEPT ![r] = NextRow(r).id]
  /\ UNCHANGED <<now, dbVars, pc, answer, orderId, written, held, readVars, relayVars,
                 processVars, faults>>

(* A bug: the outbox row is inserted through the pool, not the transaction. *)
InsertOutboxThroughPool(r) ==
  IF NextTable(r) = "outbox"
  THEN /\ Free > 0
       /\ rows' = rows \cup {NextRow(r)}
       /\ written' = [written EXCEPT ![r] = @ \cup {NextRow(r)}]
  ELSE /\ written' = [written EXCEPT ![r] = @ \cup {NextRow(r)}]
       /\ UNCHANGED rows

Execute(r) == /\ written' = [written EXCEPT ![r] = @ \cup {NextRow(r)}]
              /\ UNCHANGED rows

Insert(r) ==
  /\ pc[r] = "tx"
  /\ ~AllWritten(r)
  /\ ~Duplicate(r)
  /\ ~WaitsForKey(r)
  /\ Execute(r)
  /\ waiting' = [waiting EXCEPT ![r] = 0]
  /\ UNCHANGED <<now, published, pc, answer, orderId, held, readVars, relayVars, processVars,
                 faults>>

EndTransaction(r) == /\ written' = [written EXCEPT ![r] = {}]
                     /\ waiting' = [waiting EXCEPT ![r] = 0]
                     /\ held' = [held EXCEPT ![r] = 0]

(* A bug: the error path returns without a Rollback. *)
RefuseWithoutRollback(r) == /\ Answer(r, "error")
                            /\ UNCHANGED <<written, waiting, held>>

(* Rollback, and 400. *)
Refuse(r) == EndTransaction(r) /\ Answer(r, "error")

InsertRefused(r) ==
  /\ pc[r] = "tx"
  /\ ~AllWritten(r)
  /\ Duplicate(r)
  /\ Refuse(r)
  /\ UNCHANGED <<now, dbVars, orderId, readVars, relayVars, processVars, faults>>

(* 201, with the order in the body. *)
Commit(r) ==
  /\ pc[r] = "tx"
  /\ AllWritten(r)
  /\ rows' = rows \cup written[r]
  /\ EndTransaction(r)
  /\ Answer(r, "ok")
  /\ UNCHANGED <<now, published, orderId, readVars, relayVars, processVars, faults>>

(* A bug: the error of a call is dropped. *)
CreateFailsUnnoticed(r) ==
  /\ pc[r] \in {"begin", "tx"}
  /\ Fault
  /\ EndTransaction(r)
  /\ Answer(r, "ok")
  /\ UNCHANGED <<now, dbVars, orderId, readVars, relayVars, processVars>>

(* A call fails, or the client goes away and cancels the context; a COMMIT *)
(* that fails may have taken effect.                                       *)
CreateFails(r) ==
  /\ pc[r] \in {"begin", "tx"}
  /\ Fault
  /\ Refuse(r)
  /\ UNCHANGED rows \/ (AllWritten(r) /\ rows' = rows \cup written[r])
  /\ UNCHANGED <<now, published, orderId, readVars, relayVars, processVars>>

-----------------------------------------------------------------------------
(* GET /orders/{id}                                                        *)

(* The order is looked for by the id without blanks. *)
GetOrder(r, id, padded) ==
  /\ alive
  /\ pc[r] = "new"
  /\ Free > 0
  /\ asked' = [asked EXCEPT ![r] = [id |-> id, padded |-> padded]]
  /\ IF \E w \in InTable(rows, "orders") : w.id = id
     THEN pc' = [pc EXCEPT ![r] = "items"] /\ UNCHANGED answer
     ELSE Answer(r, "error")
  /\ UNCHANGED <<now, dbVars, createVars, held, view, broken, relayVars, processVars, faults>>

(* The items are looked for by the id as it is in the path. *)
GetItems(r) ==
  /\ pc[r] = "items"
  /\ Free > 0
  /\ LET id == asked[r].id
     IN  view' = [view EXCEPT ![r] =
                    <<[order |-> id, items |-> IF asked[r].padded THEN {} ELSE ItemsOf(id)]>>]
  /\ Answer(r, "ok")
  /\ UNCHANGED <<now, dbVars, createVars, held, asked, broken, relayVars, processVars, faults>>

(* A query fails; a result set that breaks off is an error here, because   *)
(* GetOrder looks at rows.Err.                                             *)
ReadFails(r) ==
  /\ alive
  /\ pc[r] \in {"new", "items"}
  /\ Fault
  /\ Answer(r, "error")
  /\ UNCHANGED <<now, dbVars, createVars, held, readVars, relayVars, processVars>>

-----------------------------------------------------------------------------
(* GET /orders                                                             *)

(* created_at, read right after the id and kept in microseconds.           *)
CreatedAt(o) == o \div Precision

(* The LEFT JOIN: the items that have an order, and the orders that have   *)
(* no items.                                                               *)
JoinedRows ==
  LET orders == InTable(rows, "orders")
  IN  {w \in InTable(rows, "order_items") : \E o \in orders : o.id = w.order}
        \cup {o \in orders : ItemsOf(o.id) = {}}

(* The latest orders come first; the rows of orders of the same time may   *)
(* be mixed.                                                               *)
Joined == {s \in SetToSeqs(JoinedRows) :
             \A i, j \in 1..Len(s) : i < j => CreatedAt(s[i].order) >= CreatedAt(s[j].order)}

(* The item of a joined row, if it has one. *)
ItemIn(w) == IF w.table = "order_items" THEN {w.id} ELSE {}

(* A bug: a row starts a new order unless it continues the last one. *)
AddToLast(orders, w) ==
  IF orders # << >> /\ Last(orders).order = w.order
  THEN [orders EXCEPT ![Len(orders)].items = @ \cup ItemIn(w)]
  ELSE Append(orders, [order |-> w.order, items |-> ItemIn(w)])

(* Each row goes to its order, which is made when it first occurs. *)
AddRow(orders, w) ==
  IF \E i \in 1..Len(orders) : orders[i].order = w.order
  THEN [i \in 1..Len(orders) |->
          IF orders[i].order = w.order THEN [orders[i] EXCEPT !.items = @ \cup ItemIn(w)]
          ELSE orders[i]]
  ELSE Append(orders, [order |-> w.order, items |-> ItemIn(w)])

GetOrders(r) ==
  /\ alive
  /\ pc[r] = "new"
  /\ Free > 0
  /\ \E s \in Joined :
       \/ /\ view' = [view EXCEPT ![r] = FoldLeft(AddRow, << >>, s)]
          /\ UNCHANGED <<broken, faults>>
       \/ \E n \in 0..(Len(s) - 1) :  \* rows.Err is not looked at
            /\ Fault
            /\ view' = [view EXCEPT ![r] = FoldLeft(AddRow, << >>, SubSeq(s, 1, n))]
            /\ broken' = [broken EXCEPT ![r] = TRUE]
  /\ Answer(r, "ok")
  /\ UNCHANGED <<now, dbVars, createVars, held, asked, relayVars, processVars>>

-----------------------------------------------------------------------------
(* The relay                                                               *)

Pending == {w.id : w \in InTable(rows, "outbox")} \ published

Select ==
  /\ alive /\ ~signalled
  /\ batch = {} /\ Pending # {}
  /\ Free > 0
  /\ held' = [held EXCEPT ![Relay] = @ + 1]
  /\ batch' = Pending
  /\ UNCHANGED <<now, dbVars, pc, answer, createVars, readVars, sent, processVars, faults>>

Publish ==
  /\ ~signalled
  /\ batch # {} /\ ~sent
  /\ sent' = TRUE
  /\ UNCHANGED <<now, dbVars, pc, answer, createVars, held, readVars, batch, processVars, faults>>

(* The UPDATE needs a connection besides that of the result set; the       *)
(* connections go back when the result set is at its end.                  *)
Mark ==
  /\ ~signalled
  /\ sent
  /\ Free > 0
  /\ \E i \in batch : published' = published \cup {i} /\ batch' = batch \ {i}
  /\ sent' = FALSE
  /\ held' = [held EXCEPT ![Relay] = IF batch' = {} THEN @ - 1 ELSE @]
  /\ UNCHANGED <<now, rows, pc, answer, createVars, readVars, processVars, faults>>

(* A bug: the result set is left open. *)
EndCycleOpen == batch' = {} /\ sent' = FALSE /\ UNCHANGED held

EndCycle ==
  /\ batch' = {}
  /\ sent' = FALSE
  /\ held' = [held EXCEPT ![Relay] = IF batch = {} THEN @ ELSE @ - 1]

RelayFails ==
  /\ batch # {}
  /\ Fault
  /\ EndCycle
  /\ UNCHANGED <<now, dbVars, pc, answer, createVars, readVars, processVars>>

-----------------------------------------------------------------------------
(* The process                                                             *)

(* SIGTERM ends the relay: the calls it has begun fail.  The HTTP server   *)
(* goes on.                                                                *)
Terminate ==
  /\ alive /\ ~signalled
  /\ Fault
  /\ signalled' = TRUE
  /\ EndCycle
  /\ UNCHANGED <<now, dbVars, pc, answer, createVars, readVars, alive>>

(* SIGKILL, or a crash.  Requests are cut off, PostgreSQL rolls back. *)
Running(r) == pc[r] \notin {"new", "done"}

Kill ==
  /\ alive
  /\ (signalled /\ UNCHANGED faults) \/ Fault
  /\ alive' = FALSE
  /\ pc' = [r \in Requests |-> IF Running(r) THEN "done" ELSE pc[r]]
  /\ written' = [r \in Creators |-> {}]
  /\ waiting' = [r \in Creators |-> 0]
  /\ batch' = {}
  /\ sent' = FALSE
  /\ held' = [a \in DOMAIN held |-> 0]
  /\ UNCHANGED <<now, dbVars, answer, orderId, readVars, signalled>>

Restart ==
  /\ ~alive
  /\ alive' = TRUE
  /\ signalled' = FALSE
  /\ UNCHANGED <<now, dbVars, pc, answer, createVars, held, readVars, relayVars, faults>>

-----------------------------------------------------------------------------
Create(r) == Begin(r) \/ Wait(r) \/ Insert(r) \/ InsertRefused(r) \/ Commit(r)
Cycle == Select \/ Publish \/ Mark

Next ==
  \/ Tick
  \/ \E r \in Creators : Accept(r) \/ Create(r) \/ CreateFails(r)
  \/ \E r \in Readers : \/ \E id \in 1..MaxNow, padded \in BOOLEAN : GetOrder(r, id, padded)
                        \/ GetItems(r)
                        \/ ReadFails(r)
                        \/ GetOrders(r)
  \/ Cycle \/ RelayFails
  \/ Terminate \/ Kill \/ Restart

Spec == Init /\ [][Next]_vars

(* Goroutines run, calls return, and the pool serves who waits in turn     *)
(* (a semaphore with a queue): an acquire that is possible again and again *)
(* happens.  A process that has died is started again; no request has to   *)
(* arrive, and nobody has to send a signal.                                *)
Fairness == /\ \A r \in Creators : SF_vars(Create(r))
            /\ \A r \in Readers : SF_vars(GetItems(r))
            /\ SF_vars(Cycle)
            /\ WF_vars(Restart)

FairSpec == Spec /\ Fairness
=============================================================================
