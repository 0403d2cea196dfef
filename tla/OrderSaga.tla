------------------------------ MODULE OrderSaga ------------------------------
(***************************************************************************)
(* The choreographed saga of an order across order-service,                *)
(* inventory-service and payment-service.                                  *)
(*                                                                         *)
(* Every service commits its business rows and an outbox row in one        *)
(* database transaction; its relay publishes the outbox rows to Kafka and  *)
(* marks them; consumers of the next service handle each record up to      *)
(* MaxRetry times and then dead-letter it.  A handler's transaction is one *)
(* step here, because PostgreSQL commits it atomically; publishing a row   *)
(* and marking it are two steps, because they touch two systems, and so    *)
(* are the handling of a record and the commit of its offset.              *)
(*                                                                         *)
(* Abstracted: an event carries only its order (its items are Demand of    *)
(* the order, copied unchanged from event to event); topics have one       *)
(* partition, the default of the auto-created topics of docker-compose;    *)
(* the breaker's cooldown may or may not have elapsed when it is asked.    *)
(***************************************************************************)
EXTENDS Integers, Sequences, FiniteSets

CONSTANTS
  Orders,            \* identifiers of the orders that may be placed
  Products,          \* rows of inventory_items
  Demand,            \* Demand[o][p]: quantity of p that order o asks for
  Stock,             \* Stock[p]: seeded quantity of p
  MaxRetry,          \* Consumer.maxRetry, 3 in the code
  FailureThreshold,  \* breaker threshold, 3 in the code
  MaxErrors,         \* bound: failed database or broker calls in a behaviour
  MaxCrashes         \* bound: crashes of a service in a behaviour

ASSUME DataAssumption == /\ Demand \in [Orders -> [Products -> Nat]]
                         /\ Stock \in [Products -> Nat]
ASSUME LimitAssumption == /\ MaxRetry \in Nat \ {0}
                          /\ FailureThreshold \in Nat \ {0}
                          /\ MaxErrors \in Nat
                          /\ MaxCrashes \in Nat

-----------------------------------------------------------------------------
(* Event names are also the names of the topics that carry them.           *)
OrderCreated == "order.created"
InventoryReserved == "inventory.reserved"
InventoryUnreserved == "inventory.unreserved"
PaymentSucceeded == "payment.succeeded"
PaymentFailed == "payment.failed"

Topics == {OrderCreated, InventoryReserved, InventoryUnreserved,
           PaymentSucceeded, PaymentFailed}

Services == {"order", "inventory", "payment"}

(* One consumer group per subscription, named as in the cmd/api/main.go    *)
(* files, with the topic it reads and the service it runs in.              *)
Groups == {"order-service-payment", "order-service-inventory",
           "inventory-service", "inventory-service-payment",
           "payment-service"}

TopicOf(g) == CASE g = "order-service-payment"     -> PaymentSucceeded
                [] g = "order-service-inventory"   -> InventoryUnreserved
                [] g = "inventory-service"         -> OrderCreated
                [] g = "inventory-service-payment" -> PaymentFailed
                [] g = "payment-service"           -> InventoryReserved

ServiceOf(g) ==
  CASE g \in {"order-service-payment", "order-service-inventory"} -> "order"
    [] g \in {"inventory-service", "inventory-service-payment"}   -> "inventory"
    [] g = "payment-service"                                      -> "payment"

VARIABLES
  orders,      \* orders.status; "none" while the row does not exist
  reserved,    \* inventory_items.reserved
  available,   \* inventory_items.available
  payments,    \* payments[o]: statuses of the payment rows of o, oldest first
  processed,   \* processed_events of the services that have the table
  breaker,     \* the circuit breaker in the memory of payment-service
  outbox,      \* outbox[s]: rows of the outbox table of s, in insertion order
  sent,        \* sent[s]: the first sent[s] rows of s have status 'published'
  inflight,    \* inflight[s]: the next row is in Kafka but still 'pending'
  topic,       \* topic[t]: the log of topic t
  next,        \* next[g]: records of its topic that g has dealt with
  committed,   \* committed[g]: the offset of g stored in Kafka
  attempt,     \* attempt[g]: failed attempts at the current record
  dlq,         \* dlq[g]: orders whose record g sent to its DLQ topic
  dropped,     \* dropped[g]: orders whose record g failed to send to the DLQ
  errors,      \* failed database or broker calls so far
  crashes      \* crashes so far

inventoryDb == <<reserved, available>>
relayVars   == <<sent, inflight, topic>>
cursorVars  == <<next, attempt>>
deadVars    == <<dlq, dropped>>
vars == <<orders, inventoryDb, payments, processed, breaker, outbox,
          relayVars, cursorVars, committed, deadVars, errors, crashes>>

NewBreaker == [state |-> "closed", failureCount |-> 0]

Init ==
  /\ orders = [o \in Orders |-> "none"]
  /\ reserved = [p \in Products |-> 0]
  /\ available = Stock
  /\ payments = [o \in Orders |-> << >>]
  /\ processed = [s \in {"inventory", "payment"} |-> {}]
  /\ breaker = NewBreaker
  /\ outbox = [s \in Services |-> << >>]
  /\ sent = [s \in Services |-> 0]
  /\ inflight = [s \in Services |-> FALSE]
  /\ topic = [t \in Topics |-> << >>]
  /\ next = [g \in Groups |-> 0]
  /\ committed = [g \in Groups |-> 0]
  /\ attempt = [g \in Groups |-> 0]
  /\ dlq = [g \in Groups |-> {}]
  /\ dropped = [g \in Groups |-> {}]
  /\ errors = 0
  /\ crashes = 0

-----------------------------------------------------------------------------
(* The outbox and its relay.                                               *)

Row(e, o) == [event |-> e, order |-> o]

(* The outbox INSERT of a transaction of service s. *)
Enqueue(s, e, o) == outbox' = [outbox EXCEPT ![s] = Append(@, Row(e, o))]

(* A database or broker call that returns an error, within the bound. *)
CallFails == /\ errors < MaxErrors
             /\ errors' = errors + 1

(* A bug: the error of the publish is ignored, nothing reaches the topic. *)
RelayIgnoresError(s) ==
  /\ ~inflight[s]
  /\ sent[s] < Len(outbox[s])
  /\ inflight' = [inflight EXCEPT ![s] = TRUE]
  /\ UNCHANGED <<orders, inventoryDb, payments, processed, breaker, outbox, sent, topic,
                 cursorVars, committed, deadVars, errors, crashes>>

RelayPublish(s) ==
  /\ ~inflight[s]
  /\ sent[s] < Len(outbox[s])
  /\ LET row == outbox[s][sent[s] + 1]
     IN  topic' = [topic EXCEPT ![row.event] = Append(@, row.order)]
  /\ inflight' = [inflight EXCEPT ![s] = TRUE]
  /\ UNCHANGED <<orders, inventoryDb, payments, processed, breaker, outbox, sent,
                 cursorVars, committed, deadVars, errors, crashes>>

(* A bug: the row is never marked as published. *)
RelayForgetsMark(s) ==
  /\ inflight[s]
  /\ inflight' = [inflight EXCEPT ![s] = FALSE]
  /\ UNCHANGED <<orders, inventoryDb, payments, processed, breaker, outbox, sent, topic,
                 cursorVars, committed, deadVars, errors, crashes>>

RelayMark(s) ==
  /\ inflight[s]
  /\ sent' = [sent EXCEPT ![s] = @ + 1]
  /\ inflight' = [inflight EXCEPT ![s] = FALSE]
  /\ UNCHANGED <<orders, inventoryDb, payments, processed, breaker, outbox, topic,
                 cursorVars, committed, deadVars, errors, crashes>>

(* The publish was stored but reported as failed, or the UPDATE of the row *)
(* failed: the row stays pending and the next cycle publishes it again.    *)
RelayFail(s) ==
  /\ inflight[s]
  /\ CallFails
  /\ inflight' = [inflight EXCEPT ![s] = FALSE]
  /\ UNCHANGED <<orders, inventoryDb, payments, processed, breaker, outbox, sent, topic,
                 cursorVars, committed, deadVars, crashes>>

-----------------------------------------------------------------------------
(* The retry loop of a consumer.                                           *)

Record(g) == topic[TopicOf(g)][next[g] + 1]

CanHandle(g) == /\ next[g] < Len(topic[TopicOf(g)])
                /\ attempt[g] < MaxRetry

(* The handler returned nil: on to the next record. *)
Succeed(g) == /\ next' = [next EXCEPT ![g] = @ + 1]
              /\ attempt' = [attempt EXCEPT ![g] = 0]

(* The handler returned an error. *)
FailAttempt(g) == /\ attempt' = [attempt EXCEPT ![g] = @ + 1]
                  /\ UNCHANGED next

(* One attempt of a handler whose transaction has the given effect: it     *)
(* commits; or it fails, and a failed COMMIT may have taken effect.        *)
Attempt(g, effect, noEffect) ==
  \/ effect /\ Succeed(g) /\ UNCHANGED errors
  \/ CallFails /\ FailAttempt(g) /\ (effect \/ noEffect)

(* After MaxRetry failures the record goes to the DLQ topic; if that fails *)
(* too the error is logged.  Either way the consumer moves on.             *)
DeadLetter(g) ==
  /\ attempt[g] = MaxRetry
  /\ Succeed(g)
  /\ \/ /\ dlq' = [dlq EXCEPT ![g] = @ \cup {Record(g)}]
        /\ UNCHANGED <<dropped, errors>>
     \/ /\ CallFails
        /\ dropped' = [dropped EXCEPT ![g] = @ \cup {Record(g)}]
        /\ UNCHANGED dlq
  /\ UNCHANGED <<orders, inventoryDb, payments, processed, breaker, outbox, relayVars,
                 committed, crashes>>

(* The group's offset is committed in the background; no record is         *)
(* committed before the consumer has moved past it.                        *)
CommitOffset(g) ==
  /\ committed[g] < next[g]
  /\ committed' = [committed EXCEPT ![g] = next[g]]
  /\ UNCHANGED <<orders, inventoryDb, payments, processed, breaker, outbox, relayVars,
                 cursorVars, deadVars, errors, crashes>>

-----------------------------------------------------------------------------
(* order-service.                                                          *)

CreateOrder(o) ==
  /\ orders[o] = "none"
  /\ orders' = [orders EXCEPT ![o] = "pending"]
  /\ Enqueue("order", OrderCreated, o)
  /\ UNCHANGED <<inventoryDb, payments, processed, breaker, relayVars, cursorVars,
                 committed, deadVars, errors, crashes>>

(* A single UPDATE that does not look at the status it overwrites. *)
UpdateOrderStatus(o, status) == orders' = [orders EXCEPT ![o] = status]

HandlePaymentSucceeded ==
  LET g == "order-service-payment" IN
  /\ CanHandle(g)
  /\ Attempt(g, UpdateOrderStatus(Record(g), "confirmed"), UNCHANGED orders)
  /\ UNCHANGED <<inventoryDb, payments, processed, breaker, outbox, relayVars,
                 committed, deadVars, crashes>>

HandleInventoryUnreserved ==
  LET g == "order-service-inventory" IN
  /\ CanHandle(g)
  /\ Attempt(g, UpdateOrderStatus(Record(g), "failed"), UNCHANGED orders)
  /\ UNCHANGED <<inventoryDb, payments, processed, breaker, outbox, relayVars,
                 committed, deadVars, crashes>>

-----------------------------------------------------------------------------
(* inventory-service.                                                      *)

(* Every UPDATE of the transaction finds its row with enough available. *)
Sufficient(o) == \A p \in Products : available[p] >= Demand[o][p]

(* A bug: the transaction forgets the outbox row. *)
ReserveWithoutEvent(o) ==
  /\ reserved' = [p \in Products |-> reserved[p] + Demand[o][p]]
  /\ available' = [p \in Products |-> available[p] - Demand[o][p]]
  /\ processed' = [processed EXCEPT !["inventory"] = @ \cup {o}]
  /\ UNCHANGED outbox

ReserveInventory(o) ==
  /\ reserved' = [p \in Products |-> reserved[p] + Demand[o][p]]
  /\ available' = [p \in Products |-> available[p] - Demand[o][p]]
  /\ processed' = [processed EXCEPT !["inventory"] = @ \cup {o}]
  /\ Enqueue("inventory", InventoryReserved, o)

HandleOrderCreated ==
  LET g == "inventory-service" IN
  /\ CanHandle(g)
  /\ IF Sufficient(Record(g))
     THEN Attempt(g, ReserveInventory(Record(g)),
                     UNCHANGED <<inventoryDb, processed, outbox>>)
     ELSE FailAttempt(g) /\ UNCHANGED <<inventoryDb, processed, outbox, errors>>
  /\ UNCHANGED <<orders, payments, breaker, relayVars, committed, deadVars, crashes>>

(* A bug: the release forgets the available column. *)
UnreserveWithoutRestock(o) ==
  /\ reserved' = [p \in Products |-> reserved[p] - Demand[o][p]]
  /\ UNCHANGED available
  /\ Enqueue("inventory", InventoryUnreserved, o)

(* No guard and no processed_events row: every call gives the stock back. *)
UnreserveInventory(o) ==
  /\ reserved' = [p \in Products |-> reserved[p] - Demand[o][p]]
  /\ available' = [p \in Products |-> available[p] + Demand[o][p]]
  /\ Enqueue("inventory", InventoryUnreserved, o)

HandlePaymentFailed ==
  LET g == "inventory-service-payment" IN
  /\ CanHandle(g)
  /\ Attempt(g, UnreserveInventory(Record(g)), UNCHANGED <<inventoryDb, outbox>>)
  /\ UNCHANGED <<orders, payments, processed, breaker, relayVars, committed,
                 deadVars, crashes>>

-----------------------------------------------------------------------------
(* payment-service.                                                        *)

(* The transaction of ProcessPayment: the payment row, the                 *)
(* processed_events row and the outbox row of its outcome.                 *)
ProcessPayment(o, status) ==
  /\ payments' = [payments EXCEPT ![o] = Append(@, status)]
  /\ processed' = [processed EXCEPT !["payment"] = @ \cup {o}]
  /\ Enqueue("payment", IF status = "succeeded" THEN PaymentSucceeded
                                                ELSE PaymentFailed, o)

(* The breaker state in which a call runs: an open breaker whose cooldown  *)
(* has elapsed becomes half-open first.                                    *)
AdmittedAs == IF breaker.state = "open" THEN "half-open" ELSE breaker.state

OnSuccess == breaker' = IF AdmittedAs = "half-open" THEN NewBreaker ELSE breaker

OnFailure ==
  breaker' = [state |-> IF breaker.failureCount + 1 >= FailureThreshold
                        THEN "open" ELSE AdmittedAs,
              failureCount |-> breaker.failureCount + 1]

(* A declined payment is committed, and then reported to the breaker and   *)
(* to the consumer as an error, which retries it.                          *)
HandleInventoryReserved ==
  LET g == "payment-service"
      o == Record(g)
  IN
  /\ CanHandle(g)
  /\ \/ /\ breaker.state = "open"
        /\ FailAttempt(g)
        /\ UNCHANGED <<payments, processed, outbox, breaker, errors>>
     \/ ProcessPayment(o, "succeeded") /\ OnSuccess /\ Succeed(g) /\ UNCHANGED errors
     \/ ProcessPayment(o, "failed") /\ OnFailure /\ FailAttempt(g) /\ UNCHANGED errors
     \/ /\ CallFails
        /\ OnFailure
        /\ FailAttempt(g)
        /\ \/ \E status \in {"succeeded", "failed"} : ProcessPayment(o, status)
           \/ UNCHANGED <<payments, processed, outbox>>
  /\ UNCHANGED <<orders, inventoryDb, relayVars, committed, deadVars, crashes>>

-----------------------------------------------------------------------------
(* A service crashes and is started again: its consumers resume from their *)
(* committed offsets, its relay from the rows that are still pending, and  *)
(* the breaker is new.                                                     *)
Crash(s) ==
  /\ crashes < MaxCrashes
  /\ crashes' = crashes + 1
  /\ next' = [g \in Groups |-> IF ServiceOf(g) = s THEN committed[g] ELSE next[g]]
  /\ attempt' = [g \in Groups |-> IF ServiceOf(g) = s THEN 0 ELSE attempt[g]]
  /\ inflight' = [inflight EXCEPT ![s] = FALSE]
  /\ breaker' = IF s = "payment" THEN NewBreaker ELSE breaker
  /\ UNCHANGED <<orders, inventoryDb, payments, processed, outbox, sent, topic,
                 committed, deadVars, errors>>

Handle == \/ HandlePaymentSucceeded
          \/ HandleInventoryUnreserved
          \/ HandleOrderCreated
          \/ HandlePaymentFailed
          \/ HandleInventoryReserved

Next ==
  \/ \E o \in Orders : CreateOrder(o)
  \/ \E s \in Services : RelayPublish(s) \/ RelayMark(s) \/ RelayFail(s) \/ Crash(s)
  \/ \E g \in Groups : DeadLetter(g) \/ CommitOffset(g)
  \/ Handle

Spec == Init /\ [][Next]_vars

(* A running relay polls for ever and a running consumer keeps handling    *)
(* records; nobody is obliged to place an order.                           *)
Fairness ==
  /\ \A s \in Services : WF_vars(RelayPublish(s)) /\ WF_vars(RelayMark(s))
  /\ \A g \in Groups : WF_vars(DeadLetter(g))
  /\ WF_vars(HandlePaymentSucceeded)
  /\ WF_vars(HandleInventoryUnreserved)
  /\ WF_vars(HandleOrderCreated)
  /\ WF_vars(HandlePaymentFailed)
  /\ WF_vars(HandleInventoryReserved)

FairSpec == Spec /\ Fairness
=============================================================================
