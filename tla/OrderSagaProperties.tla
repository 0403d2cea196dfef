------------------------- MODULE OrderSagaProperties -------------------------
(***************************************************************************)
(* What the saga of OrderSaga guarantees, and what the documentation says  *)
(* of it.                                                                  *)
(***************************************************************************)
EXTENDS OrderSaga, Functions

Statuses == {"none", "pending", "confirmed", "failed"}
Outcomes == {"succeeded", "failed"}
Rows     == [event : Topics, order : Orders]

(* The rows of the services' own tables. *)
TablesOK ==
  /\ orders \in [Orders -> Statuses]
  /\ reserved \in [Products -> Int]
  /\ available \in [Products -> Int]
  /\ payments \in [Orders -> Seq(Outcomes)]
  /\ processed \in [{"inventory", "payment"} -> SUBSET Orders]
  /\ breaker \in [state : {"closed", "open", "half-open"}, failureCount : Nat]

(* Outboxes and relays. *)
RelaysOK ==
  /\ outbox \in [Services -> Seq(Rows)]
  /\ sent \in [Services -> Nat]
  /\ inflight \in [Services -> BOOLEAN]
  /\ \A s \in Services : sent[s] <= Len(outbox[s])
  /\ \A s \in Services : inflight[s] => sent[s] < Len(outbox[s])

(* Topics and consumers. *)
ConsumersOK ==
  /\ topic \in [Topics -> Seq(Orders)]
  /\ next \in [Groups -> Nat]
  /\ committed \in [Groups -> Nat]
  /\ attempt \in [Groups -> 0..MaxRetry]
  /\ dlq \in [Groups -> SUBSET Orders]
  /\ dropped \in [Groups -> SUBSET Orders]
  /\ errors \in Nat
  /\ crashes \in Nat
  /\ \A g \in Groups : /\ committed[g] <= next[g]
                       /\ next[g] <= Len(topic[TopicOf(g)])
                       /\ attempt[g] > 0 => next[g] < Len(topic[TopicOf(g)])

(* Every variable of the saga has the shape of the table, log or cursor it *)
(* stands for; a committed offset never passes the consumer's position and *)
(* a relay holds at most one published row that it has not marked.         *)
TypeOK == TablesOK /\ RelaysOK /\ ConsumersOK

-----------------------------------------------------------------------------
(* Observations of the state.                                              *)

(* Service s has committed a transaction that emits event e for order o. *)
Emitted(s, e, o) == \E i \in 1..Len(outbox[s]) : outbox[s][i] = Row(e, o)

(* How often x occurs among the first n entries of a log. *)
Count(log, n, x) == Cardinality({i \in 1..n : log[i] = x})

(* The number of such transactions. *)
Emissions(s, e, o) == Count(outbox[s], Len(outbox[s]), Row(e, o))

(* The number of payment rows of o with the given status. *)
PaymentRows(o, status) == Count(payments[o], Len(payments[o]), status)

(* Some payment row of o has the given status. *)
PaymentIs(o, status) == \E i \in 1..Len(payments[o]) : payments[o][i] = status

GaveUp(g, o) == o \in dlq[g] \/ o \in dropped[g]

(* Event e of order o is still pending in the outbox of s, or lies in its  *)
(* topic beyond the position of group g, or g has given up on it.          *)
OnItsWay(s, e, g, o) ==
  \/ \E i \in (sent[s] + 1)..Len(outbox[s]) : outbox[s][i] = Row(e, o)
  \/ \E k \in (next[g] + 1)..Len(topic[e]) : topic[e][k] = o
  \/ GaveUp(g, o)

Decided(o) == orders[o] \in {"confirmed", "failed"}

-----------------------------------------------------------------------------
(* No event is published and no effect happens without its cause: an order *)
(* is confirmed only if one of its payments succeeded, fails only if one   *)
(* of its payments was declined and its stock given back, is paid for only *)
(* after its stock was reserved, and stock is reserved only for orders     *)
(* that exist -- whatever crashes, is redelivered or is published twice.   *)
NoPhantomOutcome ==
  \A o \in Orders :
    /\ orders[o] = "confirmed" => PaymentIs(o, "succeeded")
    /\ orders[o] = "failed" => /\ PaymentIs(o, "failed")
                               /\ Emitted("inventory", InventoryUnreserved, o)
    /\ payments[o] # << >> => Emitted("inventory", InventoryReserved, o)
    /\ Emitted("inventory", InventoryReserved, o) => orders[o] # "none"

(* No step of the saga is silently lost: when a service has done its part  *)
(* for an order, the next one has done its own, or the event that tells it *)
(* to is still on its way, or its consumer has given up on that event      *)
(* after its last retry.                                                   *)
NoStepLost ==
  \A o \in Orders :
    /\ orders[o] # "none" =>
         \/ Emitted("inventory", InventoryReserved, o)
         \/ OnItsWay("order", OrderCreated, "inventory-service", o)
    /\ Emitted("inventory", InventoryReserved, o) =>
         \/ payments[o] # << >>
         \/ OnItsWay("inventory", InventoryReserved, "payment-service", o)
    /\ PaymentIs(o, "failed") =>
         \/ Emitted("inventory", InventoryUnreserved, o)
         \/ OnItsWay("payment", PaymentFailed, "inventory-service-payment", o)
    /\ PaymentIs(o, "succeeded") =>
         \/ Decided(o)
         \/ OnItsWay("payment", PaymentSucceeded, "order-service-payment", o)
    /\ Emitted("inventory", InventoryUnreserved, o) =>
         \/ Decided(o)
         \/ OnItsWay("inventory", InventoryUnreserved, "order-service-inventory", o)

(* The service whose outbox carries event e. *)
Producer(e) == CASE e = OrderCreated                              -> "order"
                 [] e \in {InventoryReserved, InventoryUnreserved} -> "inventory"
                 [] e \in {PaymentSucceeded, PaymentFailed}        -> "payment"

InTopic(e, o) == \E k \in 1..Len(topic[e]) : topic[e][k] = o

(* Group g has no more to do for order o. *)
Applied(g, o) ==
  CASE g = "inventory-service"         -> Emitted("inventory", InventoryReserved, o)
    [] g = "payment-service"           -> payments[o] # << >>
    [] g = "inventory-service-payment" -> Emitted("inventory", InventoryUnreserved, o)
    [] g \in {"order-service-payment", "order-service-inventory"} -> Decided(o)

OutboxesOfTheirProducers ==
  \A s \in Services : \A i \in 1..Len(outbox[s]) : Producer(outbox[s][i].event) = s

TopicsFromOutboxes ==
  \A e \in Topics : \A k \in 1..Len(topic[e]) : Emitted(Producer(e), e, topic[e][k])

(* A row that is marked, or published and not marked yet, is in its topic. *)
SentRowsInTopics ==
  \A s \in Services : \A i \in 1..Len(outbox[s]) :
    i <= sent[s] \/ (inflight[s] /\ i = sent[s] + 1)
      => InTopic(outbox[s][i].event, outbox[s][i].order)

(* The transactional outbox: a business row and its event come together. *)
RowsWithEvents ==
  \A o \in Orders :
    /\ orders[o] # "none" <=> Emitted("order", OrderCreated, o)
    /\ PaymentIs(o, "succeeded") <=> Emitted("payment", PaymentSucceeded, o)
    /\ PaymentIs(o, "failed") <=> Emitted("payment", PaymentFailed, o)
    /\ Emitted("inventory", InventoryUnreserved, o) => PaymentIs(o, "failed")

(* What a consumer has moved past it has applied, or given up. *)
PassedIsSettled ==
  \A g \in Groups : \A k \in 1..next[g] :
    LET o == topic[TopicOf(g)][k] IN Applied(g, o) \/ GaveUp(g, o)

(* The inductive invariant behind NoPhantomOutcome and NoStepLost: events  *)
(* in topics and outboxes agree with the tables they were written with,    *)
(* and no cursor of a relay or of a consumer is ahead of the work done.    *)
SagaInvariant ==
  /\ TypeOK
  /\ OutboxesOfTheirProducers
  /\ TopicsFromOutboxes
  /\ SentRowsInTopics
  /\ RowsWithEvents
  /\ PassedIsSettled
  /\ NoPhantomOutcome

(* Held(p)[o]: what order o took of product p and has not given back,      *)
(* going by the outbox.                                                    *)
Held(p) == [o \in Orders |-> Demand[o][p] * (Emissions("inventory", InventoryReserved, o)
                                             - Emissions("inventory", InventoryUnreserved, o))]

(* inventory_items and the outbox of inventory-service agree: the reserved *)
(* column is exactly what the emitted inventory.reserved events took minus *)
(* what the inventory.unreserved events gave back, and the available       *)
(* column is the rest of the stock.  A reservation that fails half-way     *)
(* leaves no trace.                                                        *)
StockLedger ==
  \A p \in Products : /\ reserved[p] = SumFunction(Held(p))
                      /\ available[p] = Stock[p] - SumFunction(Held(p))

(* The reservation guard never lets the available column of a product go   *)
(* below zero, in whatever order reservations and releases interleave.     *)
NeverNegative == \A p \in Products : available[p] >= 0

(* While nothing crashes and no call fails, the services apply every event *)
(* once: one reservation per order, at most one successful payment, no     *)
(* more payments than attempts, no more releases than declined payments.   *)
ExactlyOnceWithoutFaults ==
  errors = 0 /\ crashes = 0 =>
    \A o \in Orders :
      /\ Emissions("inventory", InventoryReserved, o) <= 1
      /\ PaymentRows(o, "succeeded") <= 1
      /\ Len(payments[o]) <= MaxRetry
      /\ Emissions("inventory", InventoryUnreserved, o) <= PaymentRows(o, "failed")

(* The rows of s that its relay has published. *)
Published(s) == sent[s] + (IF inflight[s] THEN 1 ELSE 0)

(* The records about o that group g has dealt with. *)
Handled(g, o) == Count(topic[TopicOf(g)], next[g], o)

PublishedOnce ==
  \A e \in Topics, o \in Orders :
    Count(topic[e], Len(topic[e]), o)
      <= Count(outbox[Producer(e)], Published(Producer(e)), Row(e, o))

(* The payments that have been made for o, at most one in each attempt.    *)
PaymentAttempts(o) ==
  LET g == "payment-service" IN
  CASE Handled(g, o) > 0                                       -> MaxRetry
    [] Handled(g, o) = 0 /\ next[g] < Len(topic[TopicOf(g)]) /\ Record(g) = o
                                                               -> attempt[g]
    [] OTHER                                                   -> 0

AppliedOnce ==
  \A o \in Orders :
    /\ Emissions("order", OrderCreated, o) <= IF orders[o] = "none" THEN 0 ELSE 1
    /\ Emissions("inventory", InventoryReserved, o) <= Handled("inventory-service", o)
    /\ Emissions("inventory", InventoryUnreserved, o)
          <= Handled("inventory-service-payment", o)
    /\ Emissions("payment", PaymentFailed, o) <= PaymentRows(o, "failed")
    /\ PaymentRows(o, "succeeded") <= Handled("payment-service", o)
    /\ Len(payments[o]) <= PaymentAttempts(o)

(* The inductive invariant behind ExactlyOnceWithoutFaults: every row is   *)
(* published at most once and every record applied at most once, counted   *)
(* hand-over by hand-over.                                                 *)
NothingTwice == errors = 0 /\ crashes = 0 => PublishedOnce /\ AppliedOnce

NothingUndone ==
  /\ \A g \in Groups : committed'[g] >= committed[g]
  /\ \A s \in Services : sent'[s] >= sent[s]
  /\ \A o \in Orders : Decided(o) => Decided(o)'

(* Offsets committed in Kafka and rows marked as published never go back,  *)
(* and an order never returns to pending, not even across a crash.         *)
NeverUndone == [][NothingUndone]_vars

(* Every order that is placed is eventually confirmed or failed, unless a  *)
(* consumer has given up on one of its events.                             *)
EveryOrderSettles ==
  \A o \in Orders :
    orders[o] = "pending" ~> Decided(o) \/ \E g \in Groups : GaveUp(g, o)

-----------------------------------------------------------------------------
(* The parts that have a model of their own.  What OrderSaga takes each of *)
(* them for is the abstract specification that their models implement.     *)

(* Consumer.Start: from outside, a consumer of the saga is the cursor that *)
(* Consumer implements.                                                    *)
GroupOf(g) == INSTANCE GroupCursor WITH position <- next[g], offset <- committed[g]
ConsumerIsCursor(g) == GroupOf(g)!Spec

(* ReserveInventory, UnreserveInventory: the stock of the saga is the one  *)
(* that the transactions of InventoryTx implement.  In particular nothing  *)
(* is given back that was never reserved.                                  *)
StockEvents == [i \in 1..Len(outbox["inventory"]) |->
                  <<outbox["inventory"][i].event, outbox["inventory"][i].order>>]
AtomicInventory == INSTANCE AtomicStock WITH Quantity <- Demand, outbox <- StockEvents
StockIsAtomic == AtomicInventory!Spec

-----------------------------------------------------------------------------
(* What the documentation says.                                            *)

(* README, Reliability Patterns: "every consumer checks processed_events   *)
(* before handling an event, preventing duplicate processing": stock is    *)
(* reserved once per order.                                                *)
ReservedOnce ==
  \A o \in Orders : Emissions("inventory", InventoryReserved, o) <= 1
=============================================================================
