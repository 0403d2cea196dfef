--------------------------- MODULE OrderSagaProofs ---------------------------
(***************************************************************************)
(* Proofs of the safety of OrderSaga for any orders, products, demands,    *)
(* stock, retry and breaker limits, and any number of errors and crashes.  *)
(***************************************************************************)
EXTENDS OrderSagaProperties, FoldTheorems

-----------------------------------------------------------------------------
(* The static wiring of topics, groups and services.                       *)

LEMMA Wiring ==
  /\ \A g \in Groups : TopicOf(g) \in Topics /\ ServiceOf(g) \in Services
  /\ \A e \in Topics : Producer(e) \in Services
BY DEF Groups, Topics, Services, TopicOf, ServiceOf, Producer, OrderCreated,
       InventoryReserved, InventoryUnreserved, PaymentSucceeded, PaymentFailed

(* Every event belongs to one service. *)
LEMMA Producers ==
  /\ OrderCreated \in Topics /\ Producer(OrderCreated) = "order"
  /\ InventoryReserved \in Topics /\ Producer(InventoryReserved) = "inventory"
  /\ InventoryUnreserved \in Topics /\ Producer(InventoryUnreserved) = "inventory"
  /\ PaymentSucceeded \in Topics /\ Producer(PaymentSucceeded) = "payment"
  /\ PaymentFailed \in Topics /\ Producer(PaymentFailed) = "payment"
BY DEF Topics, Producer, OrderCreated, InventoryReserved, InventoryUnreserved,
       PaymentSucceeded, PaymentFailed

(* The record a consumer is about to handle names an order. *)
LEMMA RecordIsOrder ==
  ASSUME TypeOK, NEW g \in Groups, next[g] < Len(topic[TopicOf(g)])
  PROVE  Record(g) \in Orders
BY Wiring DEF TypeOK, ConsumersOK, Record

-----------------------------------------------------------------------------
(* Types.                                                                  *)

(* A consumer's cursor stays within its log whatever its handler returns.  *)
LEMMA CursorStep ==
  ASSUME TypeOK, NEW g \in Groups, CanHandle(g), Succeed(g) \/ FailAttempt(g),
         UNCHANGED errors \/ CallFails,
         UNCHANGED <<topic, committed, deadVars, crashes>>
  PROVE  ConsumersOK'
<1> USE DEF TypeOK, ConsumersOK
<1>1. next' \in [Groups -> Nat] /\ attempt' \in [Groups -> 0..MaxRetry]
  <2>1. attempt[g] \in 0..MaxRetry /\ attempt[g] < MaxRetry /\ MaxRetry \in Nat
    BY LimitAssumption DEF CanHandle
  <2>2. 0 \in 0..MaxRetry /\ attempt[g] + 1 \in 0..MaxRetry /\ next[g] + 1 \in Nat
    BY <2>1
  <2> QED
    BY <2>2 DEF Succeed, FailAttempt
<1>2. errors' \in Nat /\ crashes' \in Nat
  BY DEF CallFails
<1>3. ASSUME NEW h \in Groups
      PROVE  /\ committed[h]' <= next[h]'
             /\ next[h]' <= Len(topic[TopicOf(h)]')
             /\ attempt[h]' > 0 => next[h]' < Len(topic[TopicOf(h)]')
  <2>1. Len(topic[TopicOf(h)]) \in Nat
    BY Wiring
  <2>2. topic' = topic /\ committed' = committed
    OBVIOUS
  <2>3. CASE h = g
    BY <2>1, <2>2, <2>3, LimitAssumption DEF CanHandle, Succeed, FailAttempt
  <2>4. CASE h # g
    BY <2>1, <2>2, <2>4 DEF Succeed, FailAttempt
  <2> QED
    BY <2>3, <2>4
<1> QED
  BY <1>1, <1>2, <1>3 DEF deadVars

(* Committing a transaction with an outbox row keeps the relays' types. *)
LEMMA EnqueueStep ==
  ASSUME TypeOK, NEW s \in Services, NEW e \in Topics, NEW o \in Orders,
         Enqueue(s, e, o), UNCHANGED <<sent, inflight>>
  PROVE  RelaysOK'
<1>1. Row(e, o) \in Rows
  BY DEF Row, Rows
<1>2. outbox' \in [Services -> Seq(Rows)]
  BY <1>1 DEF TypeOK, RelaysOK, Enqueue
<1>3. \A r \in Services : Len(outbox[r]) \in Nat /\ Len(outbox[r]) <= Len(outbox'[r])
  BY <1>1 DEF TypeOK, RelaysOK, Enqueue
<1> QED
  BY <1>2, <1>3 DEF TypeOK, RelaysOK

LEMMA TypeInit == Init => TypeOK
<1> SUFFICES ASSUME Init PROVE TypeOK
  OBVIOUS
<1>1. \A g \in Groups : topic[TopicOf(g)] = << >>
  BY Wiring DEF Init
<1>2. TablesOK
  BY DataAssumption DEF Init, TablesOK, Statuses, Outcomes, NewBreaker
<1>3. RelaysOK
  BY DEF Init, RelaysOK
<1>4. ConsumersOK
  BY <1>1, LimitAssumption DEF Init, ConsumersOK
<1> QED
  BY <1>2, <1>3, <1>4 DEF TypeOK

(* Every step of the saga keeps the types. *)
LEMMA TypeNext == TypeOK /\ [Next]_vars => TypeOK'
<1> SUFFICES ASSUME TypeOK, [Next]_vars PROVE TypeOK'
  OBVIOUS
<1> USE DEF inventoryDb, relayVars, cursorVars
<1>1. ASSUME NEW o \in Orders, CreateOrder(o) PROVE TypeOK'
  <2>1. TablesOK'
    BY <1>1 DEF CreateOrder, TypeOK, TablesOK, Statuses
  <2>2. RelaysOK'
    BY <1>1, EnqueueStep DEF CreateOrder, Services, Topics
  <2>3. ConsumersOK'
    BY <1>1 DEF CreateOrder, TypeOK, ConsumersOK, deadVars
  <2> QED
    BY <2>1, <2>2, <2>3 DEF TypeOK
<1>2. ASSUME NEW s \in Services, RelayPublish(s) PROVE TypeOK'
  <2>1. TablesOK'
    BY <1>2 DEF RelayPublish, TypeOK, TablesOK
  <2>2. RelaysOK'
    BY <1>2 DEF RelayPublish, TypeOK, RelaysOK
  <2>3. outbox[s][sent[s] + 1] \in Rows
    BY <1>2, SMTT(60) DEF RelayPublish, TypeOK, RelaysOK
  <2>4. /\ topic' \in [Topics -> Seq(Orders)]
        /\ \A t \in Topics : Len(topic[t]) \in Nat /\ Len(topic[t]) <= Len(topic'[t])
    BY <1>2, <2>3, SMTT(60) DEF RelayPublish, TypeOK, ConsumersOK, Rows
  <2>5. ConsumersOK'
    <3>1. UNCHANGED <<next, committed, attempt, deadVars, errors, crashes>>
      BY <1>2 DEF RelayPublish
    <3> QED
      BY <2>4, <3>1, Wiring DEF TypeOK, ConsumersOK, deadVars
  <2> QED
    BY <2>1, <2>2, <2>5 DEF TypeOK
<1>3. ASSUME NEW s \in Services, RelayMark(s) PROVE TypeOK'
  BY <1>3 DEF RelayMark, TypeOK, TablesOK, RelaysOK, ConsumersOK, deadVars
<1>4. ASSUME NEW s \in Services, RelayFail(s) PROVE TypeOK'
  BY <1>4, LimitAssumption
     DEF RelayFail, CallFails, TypeOK, TablesOK, RelaysOK, ConsumersOK, deadVars
<1>5. ASSUME NEW s \in Services, Crash(s) PROVE TypeOK'
  <2>1. TablesOK'
    BY <1>5 DEF Crash, NewBreaker, TypeOK, TablesOK
  <2>2. RelaysOK'
    BY <1>5 DEF Crash, TypeOK, RelaysOK
  <2>3. ConsumersOK'
    BY <1>5, Wiring, LimitAssumption DEF Crash, TypeOK, ConsumersOK, deadVars
  <2> QED
    BY <2>1, <2>2, <2>3 DEF TypeOK
<1>6. ASSUME NEW g \in Groups, DeadLetter(g) PROVE TypeOK'
  <2>1. next[g] < Len(topic[TopicOf(g)])
    BY <1>6, LimitAssumption DEF DeadLetter, TypeOK, ConsumersOK
  <2>2. Record(g) \in Orders
    BY <2>1, RecordIsOrder
  <2>3. TablesOK' /\ RelaysOK'
    BY <1>6 DEF DeadLetter, TypeOK, TablesOK, RelaysOK
  <2>4. dlq' \in [Groups -> SUBSET Orders] /\ dropped' \in [Groups -> SUBSET Orders]
    BY <1>6, <2>2, ZenonT(60) DEF DeadLetter, TypeOK, ConsumersOK
  <2>5. ConsumersOK'
    BY <1>6, <2>1, <2>4, Wiring, LimitAssumption
       DEF DeadLetter, Succeed, CallFails, TypeOK, ConsumersOK
  <2> QED
    BY <2>3, <2>5 DEF TypeOK
<1>7. ASSUME NEW g \in Groups, CommitOffset(g) PROVE TypeOK'
  BY <1>7 DEF CommitOffset, TypeOK, TablesOK, RelaysOK, ConsumersOK, deadVars
<1>8. CASE HandlePaymentSucceeded
  <2> DEFINE g == "order-service-payment"
  <2>1. g \in Groups /\ CanHandle(g) /\ Record(g) \in Orders
    BY <1>8, RecordIsOrder DEF HandlePaymentSucceeded, CanHandle, Groups
  <2>2. TablesOK' /\ RelaysOK'
    BY <1>8, <2>1 DEF HandlePaymentSucceeded, Attempt, UpdateOrderStatus, TypeOK, TablesOK,
         RelaysOK, Statuses
  <2>3. ConsumersOK'
    BY <1>8, <2>1, CursorStep DEF HandlePaymentSucceeded, Attempt
  <2> QED
    BY <2>2, <2>3 DEF TypeOK
<1>9. CASE HandleInventoryUnreserved
  <2> DEFINE g == "order-service-inventory"
  <2>1. g \in Groups /\ CanHandle(g) /\ Record(g) \in Orders
    BY <1>9, RecordIsOrder DEF HandleInventoryUnreserved, CanHandle, Groups
  <2>2. TablesOK' /\ RelaysOK'
    BY <1>9, <2>1 DEF HandleInventoryUnreserved, Attempt, UpdateOrderStatus, TypeOK, TablesOK,
         RelaysOK, Statuses
  <2>3. ConsumersOK'
    BY <1>9, <2>1, CursorStep DEF HandleInventoryUnreserved, Attempt
  <2> QED
    BY <2>2, <2>3 DEF TypeOK
<1>10. CASE HandleOrderCreated
  <2> DEFINE g == "inventory-service"
  <2>1. g \in Groups /\ CanHandle(g) /\ Record(g) \in Orders
    BY <1>10, RecordIsOrder DEF HandleOrderCreated, CanHandle, Groups
  <2>2. ConsumersOK'
    BY <1>10, <2>1, CursorStep DEF HandleOrderCreated, Attempt
  <2>3. CASE ReserveInventory(Record(g))
    <3>1. TablesOK'
      BY <1>10, <2>1, <2>3, DataAssumption
         DEF HandleOrderCreated, ReserveInventory, TypeOK, TablesOK
    <3>2. RelaysOK'
      <4>1. InventoryReserved \in Topics /\ "inventory" \in Services
        BY DEF Topics, Services
      <4> QED
        BY <1>10, <2>1, <2>3, <4>1, EnqueueStep
           DEF HandleOrderCreated, ReserveInventory
    <3> QED
      BY <2>2, <3>1, <3>2 DEF TypeOK
  <2>4. CASE UNCHANGED <<inventoryDb, processed, outbox>>
    BY <1>10, <2>2, <2>4 DEF HandleOrderCreated, TypeOK, TablesOK, RelaysOK
  <2> QED
    BY <1>10, <2>3, <2>4 DEF HandleOrderCreated, Attempt
<1>11. CASE HandlePaymentFailed
  <2> DEFINE g == "inventory-service-payment"
  <2>1. g \in Groups /\ CanHandle(g) /\ Record(g) \in Orders
    BY <1>11, RecordIsOrder DEF HandlePaymentFailed, CanHandle, Groups
  <2>2. ConsumersOK'
    BY <1>11, <2>1, CursorStep DEF HandlePaymentFailed, Attempt
  <2>3. CASE UnreserveInventory(Record(g))
    <3>1. TablesOK'
      BY <1>11, <2>1, <2>3, DataAssumption
         DEF HandlePaymentFailed, UnreserveInventory, TypeOK, TablesOK
    <3>2. RelaysOK'
      <4>1. InventoryUnreserved \in Topics /\ "inventory" \in Services
        BY DEF Topics, Services
      <4> QED
        BY <1>11, <2>1, <2>3, <4>1, EnqueueStep
           DEF HandlePaymentFailed, UnreserveInventory
    <3> QED
      BY <2>2, <3>1, <3>2 DEF TypeOK
  <2>4. CASE UNCHANGED <<inventoryDb, outbox>>
    BY <1>11, <2>2, <2>4 DEF HandlePaymentFailed, TypeOK, TablesOK, RelaysOK
  <2> QED
    BY <1>11, <2>3, <2>4 DEF HandlePaymentFailed, Attempt
<1>12. CASE HandleInventoryReserved
  <2> DEFINE g == "payment-service"
  <2>1. g \in Groups /\ CanHandle(g) /\ Record(g) \in Orders
    BY <1>12, RecordIsOrder DEF HandleInventoryReserved, CanHandle, Groups
  <2>2. breaker' \in [state : {"closed", "open", "half-open"}, failureCount : Nat]
    BY <1>12 DEF HandleInventoryReserved, OnSuccess, OnFailure, AdmittedAs, NewBreaker,
         TypeOK, TablesOK
  <2>3. ASSUME NEW status \in Outcomes, ProcessPayment(Record(g), status)
        PROVE  TablesOK' /\ RelaysOK'
    <3>1. TablesOK'
      BY <1>12, <2>1, <2>2, <2>3 DEF HandleInventoryReserved, ProcessPayment, TypeOK, TablesOK
    <3>2. RelaysOK'
      <4>1. PaymentSucceeded \in Topics /\ PaymentFailed \in Topics /\ "payment" \in Services
        BY DEF Topics, Services
      <4> QED
        BY <1>12, <2>1, <2>3, <4>1, EnqueueStep DEF HandleInventoryReserved, ProcessPayment
    <3> QED
      BY <3>1, <3>2
  <2>4. ConsumersOK'
    <3>1. Succeed(g) \/ FailAttempt(g)
      BY <1>12 DEF HandleInventoryReserved
    <3>2. UNCHANGED errors \/ CallFails
      BY <1>12 DEF HandleInventoryReserved
    <3>3. UNCHANGED <<topic, committed, deadVars, crashes>>
      BY <1>12 DEF HandleInventoryReserved
    <3> QED
      BY <2>1, <3>1, <3>2, <3>3, CursorStep
  <2>5. CASE UNCHANGED <<payments, processed, outbox>>
    BY <1>12, <2>2, <2>4, <2>5 DEF HandleInventoryReserved, TypeOK, TablesOK, RelaysOK
  <2> QED
    BY <1>12, <2>3, <2>4, <2>5 DEF HandleInventoryReserved, Outcomes, TypeOK
<1>13. CASE UNCHANGED vars
  BY <1>13 DEF vars, TypeOK, TablesOK, RelaysOK, ConsumersOK, deadVars
<1> QED
  BY <1>1, <1>2, <1>3, <1>4, <1>5, <1>6, <1>7, <1>8, <1>9, <1>10, <1>11, <1>12, <1>13
     DEF Next, Handle

-----------------------------------------------------------------------------
(* What a step does to the logs.                                           *)

(* What Append does to a sequence. *)
LEMMA AppendedSequence ==
  ASSUME NEW S, NEW s \in Seq(S), NEW e \in S
  PROVE  /\ Len(Append(s, e)) = Len(s) + 1
         /\ \A i \in 1..Len(s) : Append(s, e)[i] = s[i]
         /\ Append(s, e)[Len(s) + 1] = e
         /\ Len(s) \in Nat
         /\ Append(s, e) # << >>
OBVIOUS

(* A committed transaction emits exactly its own event. *)
LEMMA EnqueueEmits ==
  ASSUME TypeOK, NEW s \in Services, NEW e \in Topics, NEW o \in Orders, Enqueue(s, e, o)
  PROVE  \A r \in Services : \A f, q :
           Emitted(r, f, q)' <=> Emitted(r, f, q) \/ (r = s /\ f = e /\ q = o)
<1> SUFFICES ASSUME NEW r \in Services, NEW f, NEW q
             PROVE  Emitted(r, f, q)' <=> Emitted(r, f, q) \/ (r = s /\ f = e /\ q = o)
  OBVIOUS
<1>1. outbox[s] \in Seq(Rows) /\ Row(e, o) \in Rows
  BY DEF TypeOK, RelaysOK, Row, Rows
<1>2. CASE r # s
  BY <1>2 DEF Enqueue, Emitted, TypeOK, RelaysOK
<1>3. CASE r = s
  <2>1. outbox'[r] = Append(outbox[r], Row(e, o))
    BY <1>3 DEF Enqueue, TypeOK, RelaysOK
  <2>2. /\ Len(outbox'[r]) = Len(outbox[r]) + 1
        /\ \A i \in 1..Len(outbox[r]) : outbox'[r][i] = outbox[r][i]
        /\ outbox'[r][Len(outbox[r]) + 1] = Row(e, o)
        /\ Len(outbox[r]) \in Nat
    BY <1>1, <1>3, <2>1, AppendedSequence
  <2>3. Row(f, q) = Row(e, o) <=> f = e /\ q = o
    BY DEF Row
  <2>4. Emitted(r, f, q)' <=> \E i \in 1..(Len(outbox[r]) + 1) : outbox'[r][i] = Row(f, q)
    BY <2>2 DEF Emitted, Row
  <2> QED
    <3>1. (\E i \in 1..(Len(outbox[r]) + 1) : outbox'[r][i] = Row(f, q))
            <=> (\E i \in 1..Len(outbox[r]) : outbox[r][i] = Row(f, q)) \/ Row(f, q) = Row(e, o)
      BY <2>2, SMTT(60)
    <3> QED
      BY <1>3, <2>3, <2>4, <3>1 DEF Emitted
<1> QED
  BY <1>2, <1>3

(* A new payment row changes nothing but the payments of its order. *)
LEMMA PaymentAppends ==
  ASSUME TypeOK, NEW o \in Orders, NEW status \in Outcomes,
         payments' = [payments EXCEPT ![o] = Append(@, status)]
  PROVE  \A q \in Orders :
           /\ \A st : PaymentIs(q, st)' <=> PaymentIs(q, st) \/ (q = o /\ st = status)
           /\ payments'[q] # << >> <=> payments[q] # << >> \/ q = o
<1> SUFFICES ASSUME NEW q \in Orders
             PROVE  /\ \A st : PaymentIs(q, st)' <=>
                                  PaymentIs(q, st) \/ (q = o /\ st = status)
                    /\ payments'[q] # << >> <=> payments[q] # << >> \/ q = o
  OBVIOUS
<1>1. payments[o] \in Seq(Outcomes)
  BY DEF TypeOK, TablesOK
<1>2. CASE q # o
  BY <1>2 DEF PaymentIs, TypeOK, TablesOK
<1>3. CASE q = o
  <2>1. /\ Len(payments'[q]) = Len(payments[q]) + 1
        /\ \A i \in 1..Len(payments[q]) : payments'[q][i] = payments[q][i]
        /\ payments'[q][Len(payments[q]) + 1] = status
        /\ Len(payments[q]) \in Nat
        /\ payments'[q] # << >>
    <3>1. payments'[q] = Append(payments[o], status)
      BY <1>3 DEF TypeOK, TablesOK
    <3> QED
      BY <1>1, <1>3, <3>1, AppendedSequence
  <2> QED
    BY <1>3, <2>1 DEF PaymentIs
<1> QED
  BY <1>2, <1>3

(* The ways a step can touch outboxes, relays and topics. *)
LogUnchanged == UNCHANGED <<outbox, relayVars>>
LogCommits == \E s \in Services, e \in Topics, o \in Orders :
                Producer(e) = s /\ Enqueue(s, e, o) /\ UNCHANGED relayVars
LogForgets == \E s \in Services : /\ inflight' = [inflight EXCEPT ![s] = FALSE]
                                  /\ UNCHANGED <<outbox, sent, topic>>
                                  /\ errors' # errors \/ crashes' # crashes

LEMMA LogStep ==
  ASSUME TypeOK, [Next]_vars
  PROVE  \/ LogUnchanged
         \/ LogCommits
         \/ \E s \in Services : RelayPublish(s) \/ RelayMark(s)
         \/ LogForgets
<1> USE DEF LogUnchanged, LogCommits, LogForgets
<1>1. ASSUME NEW o \in Orders, CreateOrder(o) PROVE LogCommits
  BY <1>1, Producers DEF CreateOrder, Services
<1>2. ASSUME NEW s \in Services, RelayFail(s) \/ Crash(s) PROVE LogForgets
  BY <1>2 DEF RelayFail, Crash, CallFails, TypeOK, ConsumersOK
<1>3. ASSUME NEW g \in Groups, DeadLetter(g) \/ CommitOffset(g) PROVE LogUnchanged
  BY <1>3 DEF DeadLetter, CommitOffset
<1>4. ASSUME HandlePaymentSucceeded \/ HandleInventoryUnreserved PROVE LogUnchanged
  BY <1>4 DEF HandlePaymentSucceeded, HandleInventoryUnreserved
<1>5. ASSUME HandleOrderCreated PROVE LogUnchanged \/ LogCommits
  <2> DEFINE g == "inventory-service"
  <2>1. Record(g) \in Orders
    BY <1>5, RecordIsOrder DEF HandleOrderCreated, CanHandle, Groups
  <2>2. "inventory" \in Services
    BY DEF Services
  <2>3. UNCHANGED relayVars
    BY <1>5 DEF HandleOrderCreated
  <2>4. UNCHANGED outbox \/ Enqueue("inventory", InventoryReserved, Record(g))
    BY <1>5 DEF HandleOrderCreated, Attempt, ReserveInventory
  <2> QED
    BY <2>1, <2>2, <2>3, <2>4, Producers
<1>6. ASSUME HandlePaymentFailed PROVE LogUnchanged \/ LogCommits
  <2> DEFINE g == "inventory-service-payment"
  <2>1. Record(g) \in Orders
    BY <1>6, RecordIsOrder DEF HandlePaymentFailed, CanHandle, Groups
  <2>2. "inventory" \in Services
    BY DEF Services
  <2>3. UNCHANGED relayVars
    BY <1>6 DEF HandlePaymentFailed
  <2>4. UNCHANGED outbox \/ Enqueue("inventory", InventoryUnreserved, Record(g))
    BY <1>6 DEF HandlePaymentFailed, Attempt, UnreserveInventory
  <2> QED
    BY <2>1, <2>2, <2>3, <2>4, Producers
<1>7. ASSUME HandleInventoryReserved PROVE LogUnchanged \/ LogCommits
  <2> DEFINE g == "payment-service"
  <2>1. Record(g) \in Orders
    BY <1>7, RecordIsOrder DEF HandleInventoryReserved, CanHandle, Groups
  <2>2. "payment" \in Services
    BY DEF Services
  <2>3. UNCHANGED relayVars
    BY <1>7 DEF HandleInventoryReserved
  <2>4. \/ UNCHANGED outbox
        \/ Enqueue("payment", PaymentSucceeded, Record(g))
        \/ Enqueue("payment", PaymentFailed, Record(g))
    BY <1>7 DEF HandleInventoryReserved, ProcessPayment
  <2> QED
    BY <2>1, <2>2, <2>3, <2>4, Producers
<1>8. CASE UNCHANGED vars
  BY <1>8 DEF vars
<1> QED
  BY <1>1, <1>2, <1>3, <1>4, <1>5, <1>6, <1>7, <1>8 DEF Next, Handle

(* Logs only grow: what was emitted or published stays so. *)
LEMMA LogsGrow ==
  ASSUME TypeOK, [Next]_vars
  PROVE  /\ \A s \in Services : \A e, o : Emitted(s, e, o) => Emitted(s, e, o)'
         /\ \A e \in Topics : /\ Len(topic[e]) \in Nat /\ Len(topic'[e]) \in Nat
                              /\ Len(topic[e]) <= Len(topic'[e])
                              /\ \A k \in 1..Len(topic[e]) : topic'[e][k] = topic[e][k]
<1>1. CASE UNCHANGED topic
  <2>1. \A e \in Topics : Len(topic[e]) \in Nat
    BY DEF TypeOK, ConsumersOK
  <2>2. CASE UNCHANGED outbox
    BY <1>1, <2>1, <2>2 DEF Emitted
  <2>3. CASE LogCommits
    BY <1>1, <2>1, <2>3, EnqueueEmits DEF LogCommits
  <2> QED
    BY <1>1, <2>2, <2>3, LogStep DEF LogUnchanged, LogForgets, RelayPublish, RelayMark, relayVars
<1>2. ASSUME NEW s \in Services, RelayPublish(s)
      PROVE  /\ UNCHANGED outbox
             /\ \A e \in Topics :
                  /\ Len(topic[e]) \in Nat /\ Len(topic'[e]) \in Nat
                  /\ Len(topic[e]) <= Len(topic'[e])
                  /\ \A k \in 1..Len(topic[e]) : topic'[e][k] = topic[e][k]
  <2>1. outbox[s][sent[s] + 1] \in Rows
    BY <1>2 DEF RelayPublish, TypeOK, RelaysOK
  <2>2. /\ topic \in [Topics -> Seq(Orders)]
        /\ outbox[s][sent[s] + 1].order \in Orders
        /\ topic' = [topic EXCEPT ![outbox[s][sent[s] + 1].event] =
                                     Append(@, outbox[s][sent[s] + 1].order)]
    BY <1>2, <2>1 DEF RelayPublish, TypeOK, ConsumersOK, Rows
  <2>3. UNCHANGED outbox
    BY <1>2, SMTT(30) DEF RelayPublish
  <2>4. ASSUME NEW e \in Topics
        PROVE  /\ Len(topic[e]) \in Nat /\ Len(topic'[e]) \in Nat
               /\ Len(topic[e]) <= Len(topic'[e])
               /\ \A k \in 1..Len(topic[e]) : topic'[e][k] = topic[e][k]
    BY <2>2
  <2> QED
    BY <2>3, <2>4
<1>3. ASSUME NEW s \in Services, RelayPublish(s)
      PROVE  \A r \in Services : \A e, o : Emitted(r, e, o) => Emitted(r, e, o)'
  BY <1>2, <1>3 DEF Emitted
<1> QED
  BY <1>1, <1>2, <1>3, LogStep DEF LogUnchanged, LogCommits, LogForgets, RelayMark, relayVars

LEMMA ProducersPreserved ==
  ASSUME TypeOK, OutboxesOfTheirProducers, [Next]_vars
  PROVE  OutboxesOfTheirProducers'
<1>1. CASE UNCHANGED outbox
  BY <1>1 DEF OutboxesOfTheirProducers, Producer
<1>2. ASSUME NEW s \in Services, NEW e \in Topics, NEW o \in Orders,
             Producer(e) = s, Enqueue(s, e, o)
      PROVE  OutboxesOfTheirProducers'
  <2>1. Row(e, o) \in Rows /\ Row(e, o).event = e
    BY DEF Row, Rows
  <2> QED
    BY <1>2, <2>1 DEF Enqueue, OutboxesOfTheirProducers, TypeOK, RelaysOK
<1> QED
  BY <1>1, <1>2, LogStep DEF LogUnchanged, LogCommits, LogForgets, RelayPublish, RelayMark

LEMMA TopicsPreserved ==
  ASSUME TypeOK, OutboxesOfTheirProducers, TopicsFromOutboxes, [Next]_vars
  PROVE  TopicsFromOutboxes'
<1>1. CASE UNCHANGED topic
  BY <1>1, LogsGrow, Wiring DEF TopicsFromOutboxes
<1>2. ASSUME NEW s \in Services, RelayPublish(s) PROVE TopicsFromOutboxes'
  <2> DEFINE row == outbox[s][sent[s] + 1]
  <2>1. row \in Rows /\ sent[s] + 1 \in 1..Len(outbox[s])
    BY <1>2 DEF RelayPublish, TypeOK, RelaysOK
  <2>2. Producer(row.event) = s /\ Emitted(s, row.event, row.order)
    BY <2>1 DEF OutboxesOfTheirProducers, Emitted, Row, Rows
  <2>3. topic' = [topic EXCEPT ![row.event] = Append(@, row.order)]
    BY <1>2 DEF RelayPublish
  <2>4. ASSUME NEW e \in Topics, NEW k \in 1..Len(topic'[e])
        PROVE  \/ k \in 1..Len(topic[e]) /\ topic'[e][k] = topic[e][k]
               \/ e = row.event /\ topic'[e][k] = row.order
    <3>1. /\ topic \in [Topics -> Seq(Orders)] /\ topic[e] \in Seq(Orders)
          /\ row.order \in Orders
      BY <2>1, <2>4, SMTT(60) DEF TypeOK, ConsumersOK, Rows
    <3>2. CASE e # row.event
      BY <2>3, <2>4, <3>1, <3>2, ZenonT(60)
    <3>3. CASE e = row.event
      <4>1. topic'[e] = Append(topic[e], row.order)
        BY <2>3, <3>1, <3>3
      <4>2. k \in 1..Len(topic[e]) \/ k = Len(topic[e]) + 1
        BY <2>4, <3>1, <4>1, AppendedSequence
      <4> QED
        <5>1. /\ \A i \in 1..Len(topic[e]) : topic'[e][i] = topic[e][i]
              /\ topic'[e][Len(topic[e]) + 1] = row.order
          BY <3>1, <4>1, AppendedSequence, SMTT(30)
        <5> QED
          BY <3>3, <4>2, <5>1
    <3> QED
      BY <3>2, <3>3
  <2>5. ASSUME NEW e \in Topics, NEW k \in 1..Len(topic'[e]), NEW o, o = topic'[e][k]
        PROVE  Emitted(Producer(e), e, o)
    BY <2>2, <2>4, <2>5 DEF TopicsFromOutboxes
  <2>6. \A e \in Topics : \A o : Emitted(Producer(e), e, o) => Emitted(Producer(e), e, o)'
    BY LogsGrow, Wiring
  <2>7. ASSUME NEW e \in Topics, NEW k \in 1..Len(topic'[e]), NEW o, o = topic'[e][k]
        PROVE  Emitted(Producer(e), e, o)'
    BY <2>5, <2>6, <2>7
  <2> QED
    BY <2>7 DEF TopicsFromOutboxes, Emitted
<1> QED
  BY <1>1, <1>2, LogStep DEF LogUnchanged, LogCommits, LogForgets, RelayMark, relayVars

LEMMA SentPreserved ==
  ASSUME TypeOK, SentRowsInTopics, [Next]_vars
  PROVE  SentRowsInTopics'
<1>1. \A e \in Topics : \A o : InTopic(e, o) => InTopic(e, o)'
  BY LogsGrow DEF InTopic
<1>2. \A s \in Services : \A i \in 1..Len(outbox[s]) : outbox[s][i] \in Rows
  BY DEF TypeOK, RelaysOK
<1>3. CASE UNCHANGED outbox /\ sent' = sent
           /\ \A s \in Services : inflight'[s] => inflight[s]
  BY <1>1, <1>2, <1>3 DEF SentRowsInTopics, Rows
<1>4. ASSUME NEW s \in Services, NEW e \in Topics, NEW o \in Orders,
             Enqueue(s, e, o), UNCHANGED relayVars
      PROVE  SentRowsInTopics'
  <2>1. SUFFICES ASSUME NEW r \in Services, NEW i \in 1..Len(outbox'[r]),
                        i <= sent[r] \/ (inflight[r] /\ i = sent[r] + 1),
                        NEW row, row = outbox'[r][i]
                 PROVE  InTopic(row.event, row.order)'
    BY <1>4 DEF SentRowsInTopics, InTopic, relayVars
  <2>2. i \in 1..Len(outbox[r])
    BY <2>1 DEF TypeOK, RelaysOK
  <2>3. row = outbox[r][i]
    BY <1>4, <2>1, <2>2 DEF Enqueue, TypeOK, RelaysOK
  <2> QED
    BY <1>1, <1>2, <2>1, <2>2, <2>3 DEF SentRowsInTopics, Rows
<1>5. ASSUME NEW s \in Services, RelayMark(s) PROVE SentRowsInTopics'
  <2>1. \A r \in Services : \A i \in 1..Len(outbox[r]) :
           i <= sent'[r] \/ (inflight'[r] /\ i = sent'[r] + 1)
             => i <= sent[r] \/ (inflight[r] /\ i = sent[r] + 1)
    BY <1>5 DEF RelayMark, TypeOK, RelaysOK
  <2> QED
    BY <1>1, <1>2, <1>5, <2>1 DEF RelayMark, SentRowsInTopics, Rows
<1>6. ASSUME NEW s \in Services, RelayPublish(s) PROVE SentRowsInTopics'
  <2>1. PICK row : row = outbox[s][sent[s] + 1]
    OBVIOUS
  <2>2. row \in Rows
    BY <1>6, <2>1 DEF RelayPublish, TypeOK, RelaysOK
  <2>3. topic' = [topic EXCEPT ![row.event] = Append(@, row.order)]
    BY <1>6, <2>1 DEF RelayPublish
  <2>4. InTopic(row.event, row.order)'
    <3>1. /\ topic[row.event] \in Seq(Orders) /\ row.order \in Orders
          /\ topic'[row.event] = Append(topic[row.event], row.order)
      BY <2>2, <2>3 DEF TypeOK, ConsumersOK, Rows
    <3>2. /\ Len(topic'[row.event]) \in 1..Len(topic'[row.event])
          /\ topic'[row.event][Len(topic'[row.event])] = row.order
      BY <3>1
    <3> QED
      BY <3>2 DEF InTopic
  <2>5. outbox' = outbox /\ sent' = sent
    BY <1>6 DEF RelayPublish
  <2>6. SUFFICES ASSUME NEW r \in Services, NEW i \in 1..Len(outbox[r]),
                        i <= sent[r] \/ (inflight'[r] /\ i = sent[r] + 1),
                        NEW q, q = outbox[r][i]
                 PROVE  InTopic(q.event, q.order)'
    BY <2>5 DEF SentRowsInTopics, InTopic
  <2>7. CASE r = s /\ i = sent[s] + 1
    BY <2>1, <2>4, <2>6, <2>7
  <2>8. CASE i <= sent[r] \/ (inflight[r] /\ i = sent[r] + 1)
    BY <1>1, <1>2, <2>6, <2>8 DEF SentRowsInTopics, Rows
  <2> QED
    BY <1>6, <2>6, <2>7, <2>8 DEF RelayPublish, TypeOK, RelaysOK
<1> QED
  BY <1>3, <1>4, <1>5, <1>6, LogStep
     DEF LogUnchanged, LogCommits, LogForgets, relayVars, TypeOK, RelaysOK

-----------------------------------------------------------------------------
(* Tables and events.                                                      *)

(* A consumer only sees events that their producer has emitted. *)
LEMMA RecordWasEmitted ==
  ASSUME TypeOK, TopicsFromOutboxes, NEW g \in Groups, CanHandle(g),
         NEW o, o = Record(g)
  PROVE  o \in Orders /\ Emitted(Producer(TopicOf(g)), TopicOf(g), o)
<1>1. next[g] + 1 \in 1..Len(topic[TopicOf(g)])
  BY Wiring DEF CanHandle, TypeOK, ConsumersOK
<1> QED
  BY <1>1, RecordIsOrder, Wiring DEF CanHandle, TopicsFromOutboxes, Record

LEMMA TablesPreserved ==
  ASSUME TypeOK, TopicsFromOutboxes, RowsWithEvents, NoPhantomOutcome, [Next]_vars
  PROVE  RowsWithEvents' /\ NoPhantomOutcome'
<1> USE DEF RowsWithEvents, NoPhantomOutcome, inventoryDb, relayVars, cursorVars, deadVars
<1>a. "order" \in Services /\ "inventory" \in Services /\ "payment" \in Services
  BY DEF Services
<1>b. /\ \A o \in Orders : orders[o] \in Statuses
      /\ orders \in [Orders -> Statuses]
  BY DEF TypeOK, TablesOK
<1>1. CASE UNCHANGED <<orders, payments, outbox>>
  BY <1>1 DEF Emitted, PaymentIs
<1>2. ASSUME NEW o \in Orders, CreateOrder(o)
      PROVE  RowsWithEvents' /\ NoPhantomOutcome'
  <2>1. orders[o] = "none" /\ orders' = [orders EXCEPT ![o] = "pending"] /\ payments' = payments
    BY <1>2 DEF CreateOrder
  <2>2. \A r \in Services : \A f, q :
          Emitted(r, f, q)' <=> Emitted(r, f, q) \/ (r = "order" /\ f = OrderCreated /\ q = o)
    BY <1>2, <1>a, EnqueueEmits, Producers DEF CreateOrder
  <2>3. \A q, st : PaymentIs(q, st)' <=> PaymentIs(q, st)
    BY <2>1 DEF PaymentIs
  <2> QED
    BY <1>a, <1>b, <2>1, <2>2, <2>3
<1>3. ASSUME NEW o \in Orders, NEW status \in {"confirmed", "failed"},
             orders' = [orders EXCEPT ![o] = status], UNCHANGED <<payments, outbox>>,
             orders[o] # "none", PaymentIs(o, "succeeded") \/ status = "failed",
             \/ PaymentIs(o, "failed") /\ Emitted("inventory", InventoryUnreserved, o)
             \/ status = "confirmed"
      PROVE  RowsWithEvents' /\ NoPhantomOutcome'
  <2>1. \A q, st : PaymentIs(q, st)' <=> PaymentIs(q, st)
    BY <1>3 DEF PaymentIs
  <2>2. \A r, f, q : Emitted(r, f, q)' <=> Emitted(r, f, q)
    BY <1>3 DEF Emitted
  <2> QED
    BY <1>b, <1>3, <2>1, <2>2
<1>4. CASE HandlePaymentSucceeded
  <2>1. PICK o : o = Record("order-service-payment")
    OBVIOUS
  <2>2. o \in Orders /\ Emitted("payment", PaymentSucceeded, o)
    BY <1>4, <2>1, RecordWasEmitted, Producers DEF HandlePaymentSucceeded, Groups, TopicOf
  <2>3. PaymentIs(o, "succeeded") /\ orders[o] # "none"
    BY <2>2 DEF PaymentIs, TypeOK, TablesOK
  <2> QED
    BY <1>1, <1>3, <1>4, <2>1, <2>2, <2>3
       DEF HandlePaymentSucceeded, Attempt, UpdateOrderStatus
<1>5. CASE HandleInventoryUnreserved
  <2>1. PICK o : o = Record("order-service-inventory")
    OBVIOUS
  <2>2. o \in Orders /\ Emitted("inventory", InventoryUnreserved, o)
    BY <1>5, <2>1, RecordWasEmitted, Producers DEF HandleInventoryUnreserved, Groups, TopicOf
  <2>3. PaymentIs(o, "failed") /\ orders[o] # "none"
    BY <2>2 DEF PaymentIs, TypeOK, TablesOK
  <2> QED
    BY <1>1, <1>3, <1>5, <2>1, <2>2, <2>3
       DEF HandleInventoryUnreserved, Attempt, UpdateOrderStatus
<1>6. CASE HandleOrderCreated
  <2>1. PICK o : o = Record("inventory-service")
    OBVIOUS
  <2>2. o \in Orders /\ Emitted("order", OrderCreated, o)
    BY <1>6, <2>1, RecordWasEmitted, Producers DEF HandleOrderCreated, Groups, TopicOf
  <2>3. UNCHANGED <<orders, payments>>
    BY <1>6 DEF HandleOrderCreated
  <2>4. CASE Enqueue("inventory", InventoryReserved, o)
    <3>1. \A r \in Services : \A f, q :
            Emitted(r, f, q)' <=>
              Emitted(r, f, q) \/ (r = "inventory" /\ f = InventoryReserved /\ q = o)
      BY <1>a, <2>2, <2>4, EnqueueEmits, Producers
    <3>2. \A q, st : PaymentIs(q, st)' <=> PaymentIs(q, st)
      BY <2>3 DEF PaymentIs
    <3>3. InventoryReserved # InventoryUnreserved
      BY DEF InventoryReserved, InventoryUnreserved
    <3> QED
      BY <1>a, <2>2, <2>3, <3>1, <3>2, <3>3
  <2> QED
    BY <1>1, <1>6, <2>1, <2>3, <2>4 DEF HandleOrderCreated, Attempt, ReserveInventory
<1>7. CASE HandlePaymentFailed
  <2>1. PICK o : o = Record("inventory-service-payment")
    OBVIOUS
  <2>2. o \in Orders /\ Emitted("payment", PaymentFailed, o)
    BY <1>7, <2>1, RecordWasEmitted, Producers DEF HandlePaymentFailed, Groups, TopicOf
  <2>3. UNCHANGED <<orders, payments>>
    BY <1>7 DEF HandlePaymentFailed
  <2>4. CASE Enqueue("inventory", InventoryUnreserved, o)
    <3>1. \A r \in Services : \A f, q :
            Emitted(r, f, q)' <=>
              Emitted(r, f, q) \/ (r = "inventory" /\ f = InventoryUnreserved /\ q = o)
      BY <1>a, <2>2, <2>4, EnqueueEmits, Producers
    <3>2. \A q, st : PaymentIs(q, st)' <=> PaymentIs(q, st)
      BY <2>3 DEF PaymentIs
    <3>3. InventoryReserved # InventoryUnreserved
      BY DEF InventoryReserved, InventoryUnreserved
    <3> QED
      BY <1>a, <2>2, <2>3, <3>1, <3>2, <3>3
  <2> QED
    BY <1>1, <1>7, <2>1, <2>3, <2>4 DEF HandlePaymentFailed, Attempt, UnreserveInventory
<1>8. CASE HandleInventoryReserved
  <2>1. PICK o : o = Record("payment-service")
    OBVIOUS
  <2>2. o \in Orders /\ Emitted("inventory", InventoryReserved, o)
    BY <1>8, <2>1, RecordWasEmitted, Producers DEF HandleInventoryReserved, Groups, TopicOf
  <2>3. UNCHANGED orders
    BY <1>8 DEF HandleInventoryReserved
  <2>4. ASSUME NEW status \in Outcomes, ProcessPayment(o, status)
        PROVE  RowsWithEvents' /\ NoPhantomOutcome'
    <3>1. PICK e : e = IF status = "succeeded" THEN PaymentSucceeded ELSE PaymentFailed
      OBVIOUS
    <3>2. \A r \in Services : \A f, q :
            Emitted(r, f, q)' <=> Emitted(r, f, q) \/ (r = "payment" /\ f = e /\ q = o)
      BY <1>a, <2>2, <2>4, <3>1, EnqueueEmits, Producers DEF ProcessPayment
    <3>3. \A q \in Orders :
            /\ \A st : PaymentIs(q, st)' <=> PaymentIs(q, st) \/ (q = o /\ st = status)
            /\ payments'[q] # << >> <=> payments[q] # << >> \/ q = o
      BY <2>2, <2>4, PaymentAppends DEF ProcessPayment
    <3>4. PaymentSucceeded # PaymentFailed /\ status \in {"succeeded", "failed"}
      BY DEF PaymentSucceeded, PaymentFailed, Outcomes
    <3> QED
      BY <1>a, <2>2, <2>3, <3>1, <3>2, <3>3, <3>4
  <2> QED
    BY <1>1, <1>8, <2>1, <2>3, <2>4 DEF HandleInventoryReserved, Outcomes
<1>9. ASSUME NEW s \in Services, RelayPublish(s) \/ RelayMark(s) \/ RelayFail(s) \/ Crash(s)
      PROVE  UNCHANGED <<orders, payments, outbox>>
  BY <1>9 DEF RelayPublish, RelayMark, RelayFail, Crash
<1>10. ASSUME NEW g \in Groups, DeadLetter(g) \/ CommitOffset(g)
       PROVE  UNCHANGED <<orders, payments, outbox>>
  BY <1>10 DEF DeadLetter, CommitOffset
<1>11. CASE UNCHANGED vars
  BY <1>1, <1>11 DEF vars
<1> QED
  BY <1>1, <1>2, <1>4, <1>5, <1>6, <1>7, <1>8, <1>9, <1>10, <1>11 DEF Next, Handle

-----------------------------------------------------------------------------
(* Cursors.                                                                *)

(* What is applied or given up stays so. *)
LEMMA SettledGrows ==
  ASSUME TypeOK, [Next]_vars
  PROVE  \A g \in Groups, o \in Orders :
           /\ Applied(g, o) => Applied(g, o)'
           /\ GaveUp(g, o) => GaveUp(g, o)'
<1> USE DEF inventoryDb, relayVars, cursorVars, deadVars
<1>1. \A o \in Orders : Decided(o) => Decided(o)'
  <2>1. ASSUME NEW o \in Orders, CreateOrder(o) PROVE \A q \in Orders : Decided(q) => Decided(q)'
    BY <2>1 DEF CreateOrder, Decided, TypeOK, TablesOK
  <2>2. CASE HandlePaymentSucceeded
    BY <2>2 DEF HandlePaymentSucceeded, Attempt, UpdateOrderStatus, Decided, TypeOK, TablesOK
  <2>3. CASE HandleInventoryUnreserved
    BY <2>3 DEF HandleInventoryUnreserved, Attempt, UpdateOrderStatus, Decided, TypeOK, TablesOK
  <2>4. CASE UNCHANGED orders
    BY <2>4 DEF Decided
  <2> QED
    BY <2>1, <2>2, <2>3, <2>4
       DEF Next, Handle, vars, RelayPublish, RelayMark, RelayFail, Crash, DeadLetter,
           CommitOffset, HandleOrderCreated, HandlePaymentFailed, HandleInventoryReserved
<1>2. \A o \in Orders : payments[o] # << >> => payments'[o] # << >>
  <2>1. CASE HandleInventoryReserved
    <3>1. PICK o : o = Record("payment-service")
      OBVIOUS
    <3>2. o \in Orders
      BY <2>1, <3>1, RecordIsOrder DEF HandleInventoryReserved, CanHandle, Groups
    <3>3. ASSUME NEW status \in Outcomes, ProcessPayment(o, status)
          PROVE  \A q \in Orders : payments[q] # << >> => payments'[q] # << >>
      BY <3>2, <3>3, PaymentAppends, SMTT(60) DEF ProcessPayment
    <3> QED
      BY <2>1, <3>1, <3>3 DEF HandleInventoryReserved, Outcomes
  <2>2. CASE UNCHANGED payments
    BY <2>2, ZenonT(60)
  <2> QED
    BY <2>1, <2>2
       DEF Next, Handle, vars, CreateOrder, RelayPublish, RelayMark, RelayFail, Crash, DeadLetter,
           CommitOffset, HandlePaymentSucceeded, HandleInventoryUnreserved, HandleOrderCreated,
           HandlePaymentFailed
<1>3. \A g \in Groups : dlq[g] \subseteq dlq'[g] /\ dropped[g] \subseteq dropped'[g]
  <2>1. ASSUME NEW g \in Groups, DeadLetter(g)
        PROVE  \A h \in Groups : dlq[h] \subseteq dlq'[h] /\ dropped[h] \subseteq dropped'[h]
    BY <2>1 DEF DeadLetter, TypeOK, ConsumersOK
  <2>2. CASE UNCHANGED deadVars
    BY <2>2
  <2> QED
    BY <2>1, <2>2
       DEF Next, Handle, vars, CreateOrder, RelayPublish, RelayMark, RelayFail, Crash,
           CommitOffset, HandlePaymentSucceeded, HandleInventoryUnreserved, HandleOrderCreated,
           HandlePaymentFailed, HandleInventoryReserved
<1>4. \A e, o : Emitted("inventory", e, o) => Emitted("inventory", e, o)'
  BY LogsGrow DEF Services
<1>5. ASSUME NEW g \in Groups, NEW o \in Orders
      PROVE  Applied(g, o) => Applied(g, o)'
  BY <1>1, <1>2, <1>4 DEF Applied, Groups
<1> QED
  BY <1>3, <1>5, ZenonT(60) DEF GaveUp

(* A consumer only moves past a record that it has applied or given up. *)
LEMMA CursorsPreserved ==
  ASSUME TypeOK, PassedIsSettled, [Next]_vars
  PROVE  PassedIsSettled'
<1> USE DEF inventoryDb, relayVars, cursorVars, deadVars
<1> DEFINE Settled(h, o) == Applied(h, o) \/ GaveUp(h, o)
           Moves(h) == \/ next'[h] <= next[h]
                       \/ /\ next'[h] = next[h] + 1
                          /\ next[h] < Len(topic[TopicOf(h)])
                          /\ \A o : o = Record(h) => Settled(h, o)'
<1>1. SUFFICES \A h \in Groups : Moves(h)
  <2>1. SUFFICES ASSUME NEW h \in Groups, NEW k \in 1..next'[h],
                        Moves(h), NEW o, o = topic'[TopicOf(h)][k]
                 PROVE  Settled(h, o)'
    BY <1>1 DEF PassedIsSettled, Applied, GaveUp, Decided, Emitted
  <2>2. /\ next[h] \in Nat /\ next'[h] \in Int /\ next[h] <= Len(topic[TopicOf(h)])
        /\ topic[TopicOf(h)] \in Seq(Orders) /\ TopicOf(h) \in Topics
    BY <2>1, Wiring, TypeNext DEF TypeOK, ConsumersOK
  <2>3. CASE k <= next[h]
    <3>1. o = topic[TopicOf(h)][k] /\ o \in Orders /\ k \in 1..next[h]
      BY <2>1, <2>2, <2>3, LogsGrow
    <3> QED
      BY <3>1, SettledGrows DEF PassedIsSettled
  <2>4. CASE k > next[h]
    <3>1. /\ k = next[h] + 1 /\ next[h] < Len(topic[TopicOf(h)])
          /\ \A q : q = Record(h) => Settled(h, q)'
      BY <2>1, <2>2, <2>4
    <3>2. o = Record(h)
      BY <2>1, <2>2, <3>1, LogsGrow DEF Record
    <3> QED
      BY <3>1, <3>2
  <2> QED
    BY <2>2, <2>3, <2>4
<1>2. CASE \A h \in Groups : next'[h] <= next[h]
  BY <1>2
<1>3. ASSUME NEW g \in Groups, next[g] < Len(topic[TopicOf(g)]), Succeed(g) \/ FailAttempt(g),
             NEW o, o = Record(g), Succeed(g) => Settled(g, o)'
      PROVE  \A h \in Groups : Moves(h)
  <2>1. ASSUME NEW h \in Groups, h # g PROVE next'[h] <= next[h]
    BY <1>3, <2>1 DEF Succeed, FailAttempt, TypeOK, ConsumersOK
  <2>2. CASE FailAttempt(g)
    BY <2>2 DEF FailAttempt, TypeOK, ConsumersOK
  <2>3. CASE Succeed(g)
    <3>1. next'[g] = next[g] + 1
      BY <2>3 DEF Succeed, TypeOK, ConsumersOK
    <3> QED
      BY <1>3, <2>1, <2>3, <3>1
  <2> QED
    BY <1>3, <2>2, <2>3
<1>4. ASSUME NEW g \in Groups, DeadLetter(g) PROVE \A h \in Groups : Moves(h)
  <2>1. next[g] < Len(topic[TopicOf(g)]) /\ Succeed(g)
    BY <1>4, LimitAssumption DEF DeadLetter, TypeOK, ConsumersOK
  <2>2. ASSUME NEW o, o = Record(g) PROVE GaveUp(g, o)'
    BY <1>4, <2>2 DEF DeadLetter, GaveUp, TypeOK, ConsumersOK
  <2> QED
    BY <1>3, <2>1, <2>2
<1>5. CASE HandlePaymentSucceeded
  <2> DEFINE g == "order-service-payment"
  <2>1. g \in Groups /\ CanHandle(g) /\ Record(g) \in Orders
    BY <1>5, RecordIsOrder DEF HandlePaymentSucceeded, CanHandle, Groups
  <2>2. Succeed(g) \/ FailAttempt(g)
    BY <1>5 DEF HandlePaymentSucceeded, Attempt
  <2>3. ASSUME Succeed(g), NEW o, o = Record(g) PROVE Applied(g, o)'
    <3>1. \/ orders' = [orders EXCEPT ![o] = "confirmed"]
          \/ FailAttempt(g)
      BY <1>5, <2>3 DEF HandlePaymentSucceeded, Attempt, UpdateOrderStatus
    <3>2. ~FailAttempt(g)
      BY <2>1, <2>3 DEF Succeed, FailAttempt, TypeOK, ConsumersOK
    <3> QED
      BY <2>1, <2>3, <3>1, <3>2 DEF Applied, Decided, TypeOK, TablesOK
  <2> QED
    BY <1>3, <2>1, <2>2, <2>3 DEF CanHandle
<1>6. CASE HandleInventoryUnreserved
  <2> DEFINE g == "order-service-inventory"
  <2>1. g \in Groups /\ CanHandle(g) /\ Record(g) \in Orders
    BY <1>6, RecordIsOrder DEF HandleInventoryUnreserved, CanHandle, Groups
  <2>2. Succeed(g) \/ FailAttempt(g)
    BY <1>6 DEF HandleInventoryUnreserved, Attempt
  <2>3. ASSUME Succeed(g), NEW o, o = Record(g) PROVE Applied(g, o)'
    <3>1. \/ orders' = [orders EXCEPT ![o] = "failed"]
          \/ FailAttempt(g)
      BY <1>6, <2>3 DEF HandleInventoryUnreserved, Attempt, UpdateOrderStatus
    <3>2. ~FailAttempt(g)
      BY <2>1, <2>3 DEF Succeed, FailAttempt, TypeOK, ConsumersOK
    <3> QED
      BY <2>1, <2>3, <3>1, <3>2 DEF Applied, Decided, TypeOK, TablesOK
  <2> QED
    BY <1>3, <2>1, <2>2, <2>3 DEF CanHandle
<1>7. CASE HandleOrderCreated
  <2> DEFINE g == "inventory-service"
  <2>1. g \in Groups /\ CanHandle(g) /\ Record(g) \in Orders
    BY <1>7, RecordIsOrder DEF HandleOrderCreated, CanHandle, Groups
  <2>2. Succeed(g) \/ FailAttempt(g)
    BY <1>7 DEF HandleOrderCreated, Attempt
  <2>3. ASSUME Succeed(g), NEW o, o = Record(g) PROVE Applied(g, o)'
    <3>1. Enqueue("inventory", InventoryReserved, o) \/ FailAttempt(g)
      BY <1>7, <2>3 DEF HandleOrderCreated, Attempt, ReserveInventory
    <3>2. ~FailAttempt(g)
      BY <2>1, <2>3 DEF Succeed, FailAttempt, TypeOK, ConsumersOK
    <3>3. Emitted("inventory", InventoryReserved, o)'
      BY <2>1, <2>3, <3>1, <3>2, EnqueueEmits, Producers DEF Services
    <3> QED
      BY <3>3 DEF Applied
  <2> QED
    BY <1>3, <2>1, <2>2, <2>3 DEF CanHandle
<1>8. CASE HandlePaymentFailed
  <2> DEFINE g == "inventory-service-payment"
  <2>1. g \in Groups /\ CanHandle(g) /\ Record(g) \in Orders
    BY <1>8, RecordIsOrder DEF HandlePaymentFailed, CanHandle, Groups
  <2>2. Succeed(g) \/ FailAttempt(g)
    BY <1>8 DEF HandlePaymentFailed, Attempt
  <2>3. ASSUME Succeed(g), NEW o, o = Record(g) PROVE Applied(g, o)'
    <3>1. Enqueue("inventory", InventoryUnreserved, o) \/ FailAttempt(g)
      BY <1>8, <2>3 DEF HandlePaymentFailed, Attempt, UnreserveInventory
    <3>2. ~FailAttempt(g)
      BY <2>1, <2>3 DEF Succeed, FailAttempt, TypeOK, ConsumersOK
    <3>3. Emitted("inventory", InventoryUnreserved, o)'
      BY <2>1, <2>3, <3>1, <3>2, EnqueueEmits, Producers DEF Services
    <3> QED
      BY <3>3 DEF Applied
  <2> QED
    BY <1>3, <2>1, <2>2, <2>3 DEF CanHandle
<1>9. CASE HandleInventoryReserved
  <2> DEFINE g == "payment-service"
  <2>1. g \in Groups /\ CanHandle(g) /\ Record(g) \in Orders
    BY <1>9, RecordIsOrder DEF HandleInventoryReserved, CanHandle, Groups
  <2>2. Succeed(g) \/ FailAttempt(g)
    BY <1>9 DEF HandleInventoryReserved
  <2>3. ASSUME Succeed(g), NEW o, o = Record(g) PROVE Applied(g, o)'
    <3>1. ~FailAttempt(g)
      BY <2>1, <2>3 DEF Succeed, FailAttempt, TypeOK, ConsumersOK
    <3>2. ProcessPayment(o, "succeeded")
      BY <1>9, <2>3, <3>1 DEF HandleInventoryReserved
    <3>3. payments'[o] # << >>
      BY <2>1, <2>3, <3>2, PaymentAppends DEF ProcessPayment, Outcomes
    <3> QED
      BY <3>3 DEF Applied
  <2> QED
    BY <1>3, <2>1, <2>2, <2>3 DEF CanHandle
<1>10. ASSUME NEW s \in Services, Crash(s) PROVE \A h \in Groups : next'[h] <= next[h]
  BY <1>10 DEF Crash, TypeOK, ConsumersOK
<1>11. CASE UNCHANGED next
  BY <1>2, <1>11 DEF TypeOK, ConsumersOK
<1> QED
  BY <1>2, <1>4, <1>5, <1>6, <1>7, <1>8, <1>9, <1>10, <1>11
     DEF Next, Handle, vars, CreateOrder, RelayPublish, RelayMark, RelayFail, CommitOffset

-----------------------------------------------------------------------------
(* Theorems.                                                               *)

(* Tables, logs and cursors keep their types; a committed offset never     *)
(* passes the consumer's position and at most one published row per relay  *)
(* is unmarked.                                                            *)
THEOREM TypeCorrectness == Spec => []TypeOK
<1> QED
  BY TypeInit, TypeNext, PTL DEF Spec

LEMMA SagaInit == Init => SagaInvariant
<1> SUFFICES ASSUME Init PROVE SagaInvariant
  OBVIOUS
<1>1. TypeOK
  BY TypeInit
<1>2. /\ \A s \in Services : Len(outbox[s]) = 0
      /\ \A e \in Topics : Len(topic[e]) = 0
      /\ \A o \in Orders : Len(payments[o]) = 0 /\ payments[o] = << >> /\ orders[o] = "none"
      /\ \A g \in Groups : next[g] = 0
  BY DEF Init
<1>3. /\ \A s \in Services : \A e, o : ~Emitted(s, e, o)
      /\ \A o \in Orders : \A st : ~PaymentIs(o, st)
  BY <1>2 DEF Emitted, PaymentIs
<1>4. OutboxesOfTheirProducers /\ TopicsFromOutboxes /\ SentRowsInTopics /\ PassedIsSettled
  BY <1>2 DEF OutboxesOfTheirProducers, TopicsFromOutboxes, SentRowsInTopics, PassedIsSettled
<1>5. RowsWithEvents /\ NoPhantomOutcome
  BY <1>2, <1>3 DEF RowsWithEvents, NoPhantomOutcome, Services
<1> QED
  BY <1>1, <1>4, <1>5 DEF SagaInvariant

(* The invariant of the saga: every event in a topic was emitted by its    *)
(* producer together with the row it reports, every row a relay has marked *)
(* is in its topic, and every record a consumer has passed is applied or   *)
(* given up.                                                               *)
THEOREM SagaInvariance == Spec => []SagaInvariant
<1>1. SagaInvariant /\ [Next]_vars => SagaInvariant'
  BY TypeNext, ProducersPreserved, TopicsPreserved, SentPreserved, TablesPreserved,
     CursorsPreserved DEF SagaInvariant
<1> QED
  BY SagaInit, <1>1, PTL DEF Spec

(* However services crash, calls fail and events are published or          *)
(* delivered twice, no order is confirmed without a successful payment, or *)
(* failed without a declined one and its stock given back, or paid for     *)
(* without a reservation.                                                  *)
THEOREM NoPhantomOutcomes == Spec => []NoPhantomOutcome
<1>1. SagaInvariant => NoPhantomOutcome
  BY DEF SagaInvariant
<1> QED
  BY SagaInvariance, <1>1, PTL

(* An emitted event is pending, unread, applied or given up. *)
LEMMA EmittedIsAccountedFor ==
  ASSUME SagaInvariant, NEW g \in Groups, NEW o \in Orders,
         Emitted(Producer(TopicOf(g)), TopicOf(g), o)
  PROVE  Applied(g, o) \/ OnItsWay(Producer(TopicOf(g)), TopicOf(g), g, o)
<1> DEFINE e == TopicOf(g)
           s == Producer(e)
<1>1. e \in Topics /\ s \in Services
  BY Wiring
<1>2. PICK i \in 1..Len(outbox[s]) : outbox[s][i] = Row(e, o)
  BY DEF Emitted
<1>3. Row(e, o).event = e /\ Row(e, o).order = o
  BY DEF Row
<1>4. sent[s] \in Nat /\ next[g] \in Nat /\ Len(outbox[s]) \in Nat /\ Len(topic[e]) \in Nat
  BY <1>1 DEF SagaInvariant, TypeOK, RelaysOK, ConsumersOK
<1>5. CASE i > sent[s]
  BY <1>2, <1>4, <1>5 DEF OnItsWay
<1>6. CASE i <= sent[s]
  <2>1. PICK k \in 1..Len(topic[e]) : topic[e][k] = o
    BY <1>1, <1>2, <1>3, <1>6 DEF SagaInvariant, SentRowsInTopics, InTopic
  <2>2. CASE k > next[g]
    BY <1>4, <2>1, <2>2 DEF OnItsWay
  <2>3. CASE k <= next[g]
    <3>1. k \in 1..next[g]
      BY <1>4, <2>3
    <3>2. Applied(g, o) \/ GaveUp(g, o)
      BY <2>1, <3>1 DEF SagaInvariant, PassedIsSettled
    <3> QED
      BY <3>2 DEF OnItsWay
  <2> QED
    BY <1>4, <2>2, <2>3
<1> QED
  BY <1>4, <1>5, <1>6

(* Transactional outboxes, at-least-once relays and offsets committed only *)
(* for settled records together lose nothing: when a service has done its  *)
(* part for an order, the next one has too, or the event is on its way, or *)
(* its consumer has given it up.                                           *)
THEOREM NoStepIsLost == Spec => []NoStepLost
<1>1. SagaInvariant => NoStepLost
  <2> SUFFICES ASSUME SagaInvariant, NEW o \in Orders
               PROVE  /\ orders[o] # "none" =>
                           \/ Emitted("inventory", InventoryReserved, o)
                           \/ OnItsWay("order", OrderCreated, "inventory-service", o)
                      /\ Emitted("inventory", InventoryReserved, o) =>
                           \/ payments[o] # << >>
                           \/ OnItsWay("inventory", InventoryReserved, "payment-service", o)
                      /\ PaymentIs(o, "failed") =>
                           \/ Emitted("inventory", InventoryUnreserved, o)
                           \/ OnItsWay("payment", PaymentFailed, "inventory-service-payment", o)
                      /\ PaymentIs(o, "succeeded") =>
                           \/ Decided(o)
                           \/ OnItsWay("payment", PaymentSucceeded, "order-service-payment", o)
                      /\ Emitted("inventory", InventoryUnreserved, o) =>
                           \/ Decided(o)
                           \/ OnItsWay("inventory", InventoryUnreserved,
                                       "order-service-inventory", o)
    BY DEF NoStepLost
  <2>1. /\ orders[o] # "none" => Emitted("order", OrderCreated, o)
        /\ PaymentIs(o, "succeeded") => Emitted("payment", PaymentSucceeded, o)
        /\ PaymentIs(o, "failed") => Emitted("payment", PaymentFailed, o)
    BY DEF SagaInvariant, RowsWithEvents
  <2>2. \A g \in Groups : Emitted(Producer(TopicOf(g)), TopicOf(g), o) =>
          Applied(g, o) \/ OnItsWay(Producer(TopicOf(g)), TopicOf(g), g, o)
    BY EmittedIsAccountedFor
  <2> QED
    BY <2>1, <2>2, Producers DEF Groups, TopicOf, Applied
<1> QED
  BY SagaInvariance, <1>1, PTL

(* Committed offsets, published rows and decisions are never taken back,   *)
(* not even by a crash.                                                    *)
THEOREM NothingIsUndone == Spec => NeverUndone
<1>1. TypeOK /\ [Next]_vars => [NothingUndone]_vars
  <2> SUFFICES ASSUME TypeOK, [Next]_vars PROVE [NothingUndone]_vars
    BY ZenonT(60)
  <2>1. \A g \in Groups : committed'[g] >= committed[g]
    <3>1. ASSUME NEW h \in Groups, CommitOffset(h)
          PROVE  \A g \in Groups : committed'[g] >= committed[g]
      BY <3>1 DEF CommitOffset, TypeOK, ConsumersOK
    <3>2. CASE UNCHANGED committed
      BY <3>2 DEF TypeOK, ConsumersOK
    <3> QED
      BY <3>1, <3>2
         DEF Next, Handle, vars, CreateOrder, RelayPublish, RelayMark, RelayFail, Crash,
             DeadLetter, HandlePaymentSucceeded, HandleInventoryUnreserved, HandleOrderCreated,
             HandlePaymentFailed, HandleInventoryReserved
  <2>2. \A s \in Services : sent'[s] >= sent[s]
    <3>1. ASSUME NEW r \in Services, RelayMark(r)
          PROVE  \A s \in Services : sent'[s] >= sent[s]
      BY <3>1 DEF RelayMark, TypeOK, RelaysOK
    <3>2. CASE UNCHANGED sent
      BY <3>2 DEF TypeOK, RelaysOK
    <3> QED
      BY <3>1, <3>2, LogStep
         DEF LogUnchanged, LogCommits, LogForgets, RelayPublish, relayVars
  <2>3. \A o \in Orders : Decided(o) => Decided(o)'
    <3>1. "order-service-payment" \in Groups
      BY DEF Groups
    <3> QED
      BY <3>1, SettledGrows DEF Applied
  <2> QED
    BY <2>1, <2>2, <2>3 DEF NothingUndone
<1> QED
  BY TypeCorrectness, <1>1, PTL DEF Spec, NeverUndone

(* Reservations and releases, retried or redelivered in any order, never   *)
(* take the available column of a product below zero.                      *)
THEOREM StockNeverNegative == Spec => []NeverNegative
<1>1. Init => NeverNegative
  BY DataAssumption DEF Init, NeverNegative
<1>2. TypeOK /\ NeverNegative /\ [Next]_vars => NeverNegative'
  <2> SUFFICES ASSUME TypeOK, NeverNegative, [Next]_vars PROVE NeverNegative'
    OBVIOUS
  <2> USE DEF inventoryDb
  <2>1. CASE HandleOrderCreated
    <3>1. Record("inventory-service") \in Orders
      BY <2>1, RecordIsOrder DEF HandleOrderCreated, CanHandle, Groups
    <3> QED
      BY <2>1, <3>1, DataAssumption
         DEF HandleOrderCreated, Attempt, ReserveInventory, Sufficient, NeverNegative, TypeOK,
             TablesOK
  <2>2. CASE HandlePaymentFailed
    <3>1. Record("inventory-service-payment") \in Orders
      BY <2>2, RecordIsOrder DEF HandlePaymentFailed, CanHandle, Groups
    <3> QED
      BY <2>2, <3>1, DataAssumption
         DEF HandlePaymentFailed, Attempt, UnreserveInventory, NeverNegative, TypeOK, TablesOK
  <2>3. CASE UNCHANGED available
    BY <2>3 DEF NeverNegative
  <2> QED
    BY <2>1, <2>2, <2>3
       DEF Next, Handle, vars, CreateOrder, RelayPublish, RelayMark, RelayFail, Crash,
           DeadLetter, CommitOffset, HandlePaymentSucceeded, HandleInventoryUnreserved,
           HandleInventoryReserved
<1> QED
  BY <1>1, <1>2, TypeCorrectness, PTL DEF Spec

-----------------------------------------------------------------------------
(* Counting.                                                               *)

LEMMA CountIsNat ==
  ASSUME NEW log, NEW n \in Nat, NEW x
  PROVE  Count(log, n, x) \in Nat /\ IsFiniteSet({i \in 1..n : log[i] = x})
<1>1. IsFiniteSet(1..n) /\ {i \in 1..n : log[i] = x} \subseteq 1..n
  BY FS_Interval
<1>2. IsFiniteSet({i \in 1..n : log[i] = x})
  BY <1>1, FS_Subset
<1> QED
  BY <1>2, FS_CardinalityType DEF Count

LEMMA CountOfNone ==
  ASSUME NEW log, NEW x
  PROVE  Count(log, 0, x) = 0
<1>1. {i \in 1..0 : log[i] = x} = {}
  OBVIOUS
<1> QED
  BY <1>1, FS_EmptySet DEF Count

(* A prefix that is longer by one has one more or as many. *)
LEMMA CountNext ==
  ASSUME NEW log, NEW n \in Nat, NEW x
  PROVE  Count(log, n + 1, x) = Count(log, n, x) + (IF log[n + 1] = x THEN 1 ELSE 0)
<1> DEFINE C == {i \in 1..n : log[i] = x}
           D == {i \in 1..(n + 1) : log[i] = x}
<1>1. IsFiniteSet(C) /\ Cardinality(C) \in Nat
  BY CountIsNat DEF Count
<1>2. CASE log[n + 1] = x
  <2>1. D = C \cup {n + 1} /\ n + 1 \notin C
    BY <1>2
  <2>2. Cardinality(D) = Cardinality(C) + 1
    BY <1>1, <2>1, FS_AddElement
  <2> QED
    BY <1>2, <2>2 DEF Count
<1>3. CASE log[n + 1] # x
  <2>1. D = C
    BY <1>3
  <2> QED
    BY <1>1, <1>3, <2>1 DEF Count
<1> QED
  BY <1>2, <1>3

LEMMA CountGrows ==
  ASSUME NEW log, NEW m \in Nat, NEW n \in Nat, m <= n, NEW x
  PROVE  Count(log, m, x) <= Count(log, n, x)
<1>1. {i \in 1..m : log[i] = x} \subseteq {i \in 1..n : log[i] = x}
  OBVIOUS
<1> QED
  BY <1>1, CountIsNat, FS_Subset DEF Count

(* Append adds its entry behind the old ones. *)
LEMMA CountPrefix ==
  ASSUME NEW S, NEW log \in Seq(S), NEW y \in S, NEW n \in 0..Len(log), NEW x
  PROVE  Count(Append(log, y), n, x) = Count(log, n, x)
<1>1. \A i \in 1..n : Append(log, y)[i] = log[i]
  BY AppendedSequence
<1>2. {i \in 1..n : Append(log, y)[i] = x} = {i \in 1..n : log[i] = x}
  BY <1>1
<1> QED
  BY <1>2 DEF Count

LEMMA CountAppend ==
  ASSUME NEW S, NEW log \in Seq(S), NEW y \in S, NEW x
  PROVE  Count(Append(log, y), Len(Append(log, y)), x)
           = Count(log, Len(log), x) + (IF y = x THEN 1 ELSE 0)
<1>1. PICK new : new = Append(log, y)
  OBVIOUS
<1>2. /\ Len(new) = Len(log) + 1 /\ Len(log) \in Nat
      /\ new[Len(log) + 1] = y
  BY <1>1, AppendedSequence
<1>3. \A n \in Nat : Count(new, n + 1, x)
                       = Count(new, n, x) + (IF new[n + 1] = x THEN 1 ELSE 0)
  BY CountNext
<1>4. Count(new, Len(log), x) = Count(log, Len(log), x)
  <2>1. Len(log) \in 0..Len(log)
    BY <1>2
  <2> QED
    BY <1>1, <2>1, CountPrefix
<1>5. Count(new, Len(new), x) = Count(log, Len(log), x) + (IF y = x THEN 1 ELSE 0)
  BY <1>2, <1>3, <1>4
<1> QED
  BY <1>1, <1>5

-----------------------------------------------------------------------------
(* What a step does to the counts.                                         *)

(* The positions of relays and groups lie in their logs. *)
LEMMA Positions ==
  ASSUME TypeOK
  PROVE  /\ \A s \in Services : /\ outbox[s] \in Seq(Rows) /\ Len(outbox[s]) \in Nat
                                /\ Published(s) \in 0..Len(outbox[s])
         /\ \A e \in Topics : topic[e] \in Seq(Orders) /\ Len(topic[e]) \in Nat
         /\ \A g \in Groups : next[g] \in 0..Len(topic[TopicOf(g)])
         /\ \A o \in Orders : payments[o] \in Seq(Outcomes) /\ Len(payments[o]) \in Nat
BY Wiring DEF TypeOK, TablesOK, RelaysOK, ConsumersOK, Published

(* A step of the saga without faults, so far. *)
LEMMA StillQuiet ==
  ASSUME TypeOK, [Next]_vars, errors' = 0, crashes' = 0
  PROVE  /\ errors = 0 /\ crashes = 0 /\ ~CallFails
         /\ \A s \in Services : ~Crash(s)
         /\ ~LogForgets
<1>1. errors \in Nat /\ crashes \in Nat
  BY DEF TypeOK, ConsumersOK
<1>2. (UNCHANGED errors \/ CallFails) /\ (UNCHANGED crashes \/ \E s \in Services : Crash(s))
  <2> DEFINE Counted == /\ UNCHANGED errors \/ CallFails
                        /\ UNCHANGED crashes \/ \E s \in Services : Crash(s)
  <2>1. ASSUME NEW o \in Orders, CreateOrder(o) PROVE Counted
    BY <2>1, ZenonT(60) DEF CreateOrder
  <2>2. ASSUME NEW s \in Services, RelayPublish(s) \/ RelayMark(s) \/ RelayFail(s) \/ Crash(s)
        PROVE  Counted
    BY <2>2 DEF RelayPublish, RelayMark, RelayFail, Crash
  <2>3. ASSUME NEW g \in Groups, DeadLetter(g) \/ CommitOffset(g) PROVE Counted
    BY <2>3 DEF DeadLetter, CommitOffset
  <2>4. CASE HandlePaymentSucceeded
    BY <2>4 DEF HandlePaymentSucceeded, Attempt
  <2>5. CASE HandleInventoryUnreserved
    BY <2>5 DEF HandleInventoryUnreserved, Attempt
  <2>6. CASE HandleOrderCreated
    BY <2>6 DEF HandleOrderCreated, Attempt
  <2>7. CASE HandlePaymentFailed
    BY <2>7 DEF HandlePaymentFailed, Attempt
  <2>8. CASE HandleInventoryReserved
    BY <2>8 DEF HandleInventoryReserved
  <2>9. CASE UNCHANGED vars
    BY <2>9 DEF vars
  <2> QED
    BY <2>1, <2>2, <2>3, <2>4, <2>5, <2>6, <2>7, <2>8, <2>9 DEF Next, Handle
<1> QED
  BY <1>1, <1>2 DEF CallFails, Crash, LogForgets

(* A committed transaction adds its event to the counts of its outbox. *)
LEMMA EnqueueCounts ==
  ASSUME TypeOK, NEW s \in Services, NEW e \in Topics, NEW o \in Orders, Enqueue(s, e, o)
  PROVE  \A r \in Services : \A f, q :
           /\ \A n \in 0..Len(outbox[r]) :
                Count(outbox'[r], n, Row(f, q)) = Count(outbox[r], n, Row(f, q))
           /\ Emissions(r, f, q)'
                = Emissions(r, f, q) + (IF r = s /\ f = e /\ q = o THEN 1 ELSE 0)
<1>1. Row(e, o) \in Rows
  BY DEF Row, Rows
<1>2. \A f, q : Row(e, o) = Row(f, q) <=> f = e /\ q = o
  BY DEF Row
<1>3. \A r \in Services : \A x :
        Count(outbox[r], Len(outbox[r]), x) \in Nat
  BY Positions, CountIsNat
<1>4. outbox'[s] = Append(outbox[s], Row(e, o)) /\ outbox[s] \in Seq(Rows)
  BY DEF Enqueue, TypeOK, RelaysOK
<1>5. \A r \in Services : r # s => outbox'[r] = outbox[r]
  BY DEF Enqueue, TypeOK, RelaysOK
<1>6. \A n \in 0..Len(outbox[s]) : \A x : Count(outbox'[s], n, x) = Count(outbox[s], n, x)
  BY <1>1, <1>4, CountPrefix
<1>8. \A x : Count(outbox'[s], Len(outbox'[s]), x)
               = Count(outbox[s], Len(outbox[s]), x) + (IF Row(e, o) = x THEN 1 ELSE 0)
  BY <1>1, <1>4, CountAppend
<1>7. \A f, q : Row(f, q)' = Row(f, q)
  BY DEF Row
<1>9. ASSUME NEW r \in Services, NEW f, NEW q, NEW n \in 0..Len(outbox[r])
      PROVE  Count(outbox'[r], n, Row(f, q)) = Count(outbox[r], n, Row(f, q))
  BY <1>5, <1>6, <1>9
<1>10. ASSUME NEW r \in Services, NEW f, NEW q
       PROVE  Emissions(r, f, q)'
                = Emissions(r, f, q) + (IF r = s /\ f = e /\ q = o THEN 1 ELSE 0)
  <2>1. CASE r = s
    <3>1. Emissions(s, f, q)'
            = Emissions(s, f, q) + (IF Row(e, o) = Row(f, q) THEN 1 ELSE 0)
      BY <1>7, <1>8 DEF Emissions
    <3> QED
      BY <1>2, <2>1, <3>1
  <2>2. CASE r # s
    <3>1. Emissions(r, f, q)' = Emissions(r, f, q)
      BY <1>5, <1>7, <2>2 DEF Emissions
    <3>2. Emissions(r, f, q) \in Nat
      BY <1>3 DEF Emissions
    <3> QED
      BY <2>2, <3>1, <3>2
  <2> QED
    BY <2>1, <2>2
<1> QED
  BY <1>9, <1>10

(* A consumer that moves on has dealt with its record once more. *)
LEMMA SucceedCounts ==
  ASSUME TypeOK, NEW g \in Groups, Succeed(g), UNCHANGED topic
  PROVE  \A h \in Groups : \A o :
           Handled(h, o)' = Handled(h, o) + (IF h = g /\ o = Record(g) THEN 1 ELSE 0)
<1> SUFFICES ASSUME NEW h \in Groups, NEW o
             PROVE  Handled(h, o)' = Handled(h, o) + (IF h = g /\ o = Record(g) THEN 1 ELSE 0)
  OBVIOUS
<1>1. next[h] \in Nat /\ Handled(h, o) \in Nat
  BY CountIsNat DEF Handled, TypeOK, ConsumersOK
<1>2. CASE h = g
  <2>1. next'[h] = next[h] + 1
    BY <1>2 DEF Succeed, TypeOK, ConsumersOK
  <2>2. Count(topic[TopicOf(h)], next[h] + 1, o)
          = Count(topic[TopicOf(h)], next[h], o)
              + (IF topic[TopicOf(h)][next[h] + 1] = o THEN 1 ELSE 0)
    BY <1>1, CountNext
  <2> QED
    BY <1>2, <2>1, <2>2 DEF Handled, Record
<1>3. CASE h # g
  <2>1. next'[h] = next[h]
    BY <1>3 DEF Succeed, TypeOK, ConsumersOK
  <2> QED
    BY <1>1, <1>3, <2>1 DEF Handled
<1> QED
  BY <1>2, <1>3

(* A new payment row counts for its order and its status. *)
LEMMA PaymentCounts ==
  ASSUME TypeOK, NEW o \in Orders, NEW status \in Outcomes,
         payments' = [payments EXCEPT ![o] = Append(@, status)]
  PROVE  \A q \in Orders :
           /\ PaymentRows(q, "failed")'
                = PaymentRows(q, "failed") + (IF q = o /\ status = "failed" THEN 1 ELSE 0)
           /\ PaymentRows(q, "succeeded")'
                = PaymentRows(q, "succeeded") + (IF q = o /\ status = "succeeded" THEN 1 ELSE 0)
           /\ Len(payments'[q]) = Len(payments[q]) + (IF q = o THEN 1 ELSE 0)
<1>1. payments'[o] = Append(payments[o], status) /\ payments[o] \in Seq(Outcomes)
  BY DEF TypeOK, TablesOK
<1>2. \A x : Count(payments'[o], Len(payments'[o]), x)
               = Count(payments[o], Len(payments[o]), x) + (IF status = x THEN 1 ELSE 0)
  BY <1>1, CountAppend
<1>3. Len(payments'[o]) = Len(payments[o]) + 1
  BY <1>1, AppendedSequence
<1>4. ASSUME NEW q \in Orders, q # o PROVE payments'[q] = payments[q]
  BY <1>4 DEF TypeOK, TablesOK
<1>5. ASSUME NEW q \in Orders, NEW st
      PROVE  PaymentRows(q, st)'
               = PaymentRows(q, st) + (IF q = o /\ status = st THEN 1 ELSE 0)
  <2>1. CASE q = o
    BY <1>2, <2>1 DEF PaymentRows
  <2>2. CASE q # o
    <3>1. PaymentRows(q, st)' = PaymentRows(q, st)
      BY <1>4, <2>2 DEF PaymentRows
    <3>2. PaymentRows(q, st) \in Nat
      BY Positions, CountIsNat DEF PaymentRows
    <3> QED
      BY <2>2, <3>1, <3>2
  <2> QED
    BY <2>1, <2>2
<1>6. ASSUME NEW q \in Orders
      PROVE  Len(payments'[q]) = Len(payments[q]) + (IF q = o THEN 1 ELSE 0)
  <2>1. CASE q = o
    BY <1>3, <2>1
  <2>2. CASE q # o
    BY <1>4, <2>2, Positions
  <2> QED
    BY <2>1, <2>2
<1> QED
  BY <1>5, <1>6

-----------------------------------------------------------------------------
(* Without faults nothing is done twice.                                   *)

(* What was handled was published, and what was published was emitted.     *)
LEMMA HandledWasEmitted ==
  ASSUME TypeOK, PublishedOnce, NEW g \in Groups, NEW o \in Orders
  PROVE  /\ Handled(g, o) \in Nat
         /\ Count(topic[TopicOf(g)], Len(topic[TopicOf(g)]), o) \in Nat
         /\ Handled(g, o) <= Count(topic[TopicOf(g)], Len(topic[TopicOf(g)]), o)
         /\ Count(topic[TopicOf(g)], Len(topic[TopicOf(g)]), o)
              <= Emissions(Producer(TopicOf(g)), TopicOf(g), o)
         /\ Emissions(Producer(TopicOf(g)), TopicOf(g), o) \in Nat
<1> DEFINE e == TopicOf(g)
           s == Producer(e)
<1>1. e \in Topics /\ s \in Services
  BY Wiring
<1>2. /\ next[g] \in Nat /\ Len(topic[e]) \in Nat /\ next[g] <= Len(topic[e])
      /\ Published(s) \in Nat /\ Len(outbox[s]) \in Nat /\ Published(s) <= Len(outbox[s])
  BY <1>1, Positions
<1>3. /\ Count(topic[e], next[g], o) \in Nat
      /\ Count(topic[e], Len(topic[e]), o) \in Nat
      /\ Count(outbox[s], Published(s), Row(e, o)) \in Nat
      /\ Count(outbox[s], Len(outbox[s]), Row(e, o)) \in Nat
  BY <1>2, CountIsNat
<1>4. Count(topic[e], next[g], o) <= Count(topic[e], Len(topic[e]), o)
  BY <1>2, CountGrows
<1>5. Count(topic[e], Len(topic[e]), o) <= Count(outbox[s], Published(s), Row(e, o))
  BY <1>1 DEF PublishedOnce
<1>6. Count(outbox[s], Published(s), Row(e, o)) <= Count(outbox[s], Len(outbox[s]), Row(e, o))
  BY <1>2, CountGrows
<1> QED
  BY <1>3, <1>4, <1>5, <1>6 DEF Handled, Emissions

(* An order has at most one record in each topic up to the payments.       *)
LEMMA OneRecordPerOrder ==
  ASSUME TypeOK, PublishedOnce, AppliedOnce, NEW o \in Orders
  PROVE  /\ Emissions("inventory", InventoryReserved, o) <= 1
         /\ Handled("payment-service", o) <= 1
         /\ Count(topic[InventoryReserved], Len(topic[InventoryReserved]), o) <= 1
<1> DEFINE a == "inventory-service"
           b == "payment-service"
<1>1. /\ a \in Groups /\ TopicOf(a) = OrderCreated /\ Producer(TopicOf(a)) = "order"
      /\ b \in Groups /\ TopicOf(b) = InventoryReserved /\ Producer(TopicOf(b)) = "inventory"
  BY Producers DEF Groups, TopicOf
<1>2. Handled(a, o) <= Emissions("order", OrderCreated, o) /\ Handled(a, o) \in Nat
      /\ Emissions("order", OrderCreated, o) \in Nat
  <2>1. /\ Handled(a, o) \in Nat
        /\ Count(topic[TopicOf(a)], Len(topic[TopicOf(a)]), o) \in Nat
        /\ Handled(a, o) <= Count(topic[TopicOf(a)], Len(topic[TopicOf(a)]), o)
        /\ Count(topic[TopicOf(a)], Len(topic[TopicOf(a)]), o)
             <= Emissions(Producer(TopicOf(a)), TopicOf(a), o)
        /\ Emissions(Producer(TopicOf(a)), TopicOf(a), o) \in Nat
    BY <1>1, HandledWasEmitted
  <2> QED
    BY <1>1, <2>1
<1>3. Emissions("order", OrderCreated, o) <= 1
  BY <1>2 DEF AppliedOnce
<1>4. Emissions("inventory", InventoryReserved, o) <= Handled(a, o)
  BY DEF AppliedOnce
<1>5. /\ Handled(b, o) \in Nat
      /\ Count(topic[TopicOf(b)], Len(topic[TopicOf(b)]), o) \in Nat
      /\ Handled(b, o) <= Count(topic[TopicOf(b)], Len(topic[TopicOf(b)]), o)
      /\ Count(topic[TopicOf(b)], Len(topic[TopicOf(b)]), o)
           <= Emissions(Producer(TopicOf(b)), TopicOf(b), o)
      /\ Emissions(Producer(TopicOf(b)), TopicOf(b), o) \in Nat
  BY <1>1, HandledWasEmitted
<1> QED
  BY <1>1, <1>2, <1>3, <1>4, <1>5

(* A record that payment-service is about to handle is the first about its *)
(* order, and has been tried at least as often as paid.                    *)
LEMMA FirstRecord ==
  ASSUME TypeOK, PublishedOnce, AppliedOnce, CanHandle("payment-service"),
         NEW o, o = Record("payment-service")
  PROVE  /\ o \in Orders
         /\ Handled("payment-service", o) = 0
         /\ Len(payments[o]) <= attempt["payment-service"]
<1> DEFINE g == "payment-service"
           e == InventoryReserved
<1>1. g \in Groups /\ TopicOf(g) = e
  BY DEF Groups, TopicOf
<1>2. o \in Orders /\ next[g] < Len(topic[e])
  BY <1>1, RecordIsOrder DEF CanHandle
<1>3. next[g] \in Nat /\ Len(topic[e]) \in Nat
  BY <1>1, Positions, Wiring
<1>4. Count(topic[e], next[g] + 1, o) = Count(topic[e], next[g], o) + 1
  <2>1. topic[e][next[g] + 1] = o
    BY <1>1 DEF Record
  <2>2. Count(topic[e], next[g], o) \in Nat
    BY <1>3, CountIsNat
  <2>3. Count(topic[e], next[g] + 1, o)
          = Count(topic[e], next[g], o) + (IF topic[e][next[g] + 1] = o THEN 1 ELSE 0)
    BY <1>3, CountNext
  <2> QED
    BY <2>1, <2>2, <2>3
<1>5. Count(topic[e], next[g] + 1, o) <= Count(topic[e], Len(topic[e]), o)
  BY <1>2, <1>3, CountGrows
<1>6. Count(topic[e], Len(topic[e]), o) <= 1
  BY <1>2, OneRecordPerOrder
<1>7. Handled(g, o) = 0
  <2>1. /\ Count(topic[e], next[g], o) \in Nat
        /\ Count(topic[e], Len(topic[e]), o) \in Nat
    BY <1>3, CountIsNat
  <2> QED
    BY <1>1, <1>4, <1>5, <1>6, <2>1 DEF Handled
<1>8. Len(payments[o]) <= attempt[g]
  BY <1>1, <1>2, <1>7 DEF AppliedOnce, PaymentAttempts
<1> QED
  BY <1>2, <1>7, <1>8

LEMMA PublishedOncePreserved ==
  ASSUME TypeOK, OutboxesOfTheirProducers, PublishedOnce, [Next]_vars, ~LogForgets
  PROVE  PublishedOnce'
<1>1. CASE UNCHANGED <<outbox, topic>> /\ \A s \in Services : Published(s)' = Published(s)
  <2>1. \A e \in Topics : \A o : Row(e, o)' = Row(e, o) /\ Producer(e)' = Producer(e)
    BY DEF Row, Producer
  <2> QED
    BY <1>1, <2>1, Wiring DEF PublishedOnce
<1>2. CASE LogUnchanged
  BY <1>1, <1>2 DEF LogUnchanged, relayVars, Published
<1>3. ASSUME NEW s \in Services, RelayMark(s) PROVE PublishedOnce'
  <2>1. \A r \in Services : Published(r)' = Published(r)
    BY <1>3 DEF RelayMark, Published, TypeOK, RelaysOK
  <2> QED
    BY <1>1, <1>3, <2>1 DEF RelayMark
<1>4. ASSUME NEW s \in Services, NEW e \in Topics, NEW o \in Orders,
             Enqueue(s, e, o), UNCHANGED relayVars
      PROVE  PublishedOnce'
  <2>1. \A r \in Services : Published(r)' = Published(r) /\ Published(r) \in 0..Len(outbox[r])
    BY <1>4, Positions DEF Published, relayVars
  <2>2. \A r \in Services : \A f, q :
          Count(outbox'[r], Published(r)', Row(f, q)) = Count(outbox[r], Published(r), Row(f, q))
    BY <1>4, <2>1, EnqueueCounts
  <2>3. \A f, q : Row(f, q)' = Row(f, q) /\ Producer(f)' = Producer(f)
    BY DEF Row, Producer
  <2> QED
    BY <1>4, <2>2, <2>3, Wiring DEF PublishedOnce, relayVars
<1>5. ASSUME NEW s \in Services, RelayPublish(s) PROVE PublishedOnce'
  <2>1. PICK row : row = outbox[s][sent[s] + 1]
    OBVIOUS
  <2>2. /\ row \in Rows /\ row.event \in Topics /\ row.order \in Orders
        /\ Producer(row.event) = s
        /\ \A f, q : row = Row(f, q) <=> f = row.event /\ q = row.order
    <3>1. row \in Rows /\ sent[s] + 1 \in 1..Len(outbox[s])
      BY <1>5, <2>1 DEF RelayPublish, TypeOK, RelaysOK
    <3> QED
      BY <2>1, <3>1 DEF OutboxesOfTheirProducers, Rows, Row
  <2>3. /\ outbox' = outbox
        /\ topic' = [topic EXCEPT ![row.event] = Append(@, row.order)]
        /\ topic \in [Topics -> Seq(Orders)]
    BY <1>5, <2>1 DEF RelayPublish, TypeOK, ConsumersOK
  <2>4. /\ Published(s) = sent[s] /\ sent[s] \in Nat
        /\ \A r \in Services : Published(r)' = IF r = s THEN sent[s] + 1 ELSE Published(r)
    BY <1>5 DEF RelayPublish, Published, TypeOK, RelaysOK
  <2>5. \A x : Count(outbox[s], sent[s] + 1, x)
                 = Count(outbox[s], sent[s], x) + (IF row = x THEN 1 ELSE 0)
    BY <2>1, <2>4, CountNext
  <2>6. \A r \in Services : \A x : Count(outbox[r], Published(r), x) \in Nat
    <3>1. \A r \in Services : Published(r) \in Nat
      BY Positions
    <3> QED
      BY <3>1, CountIsNat
  <2>7. ASSUME NEW e \in Topics, NEW o \in Orders, NEW r \in Services, r = Producer(e),
               NEW m, m = Published(r), NEW n, n = Published(r)'
        PROVE  Count(topic'[e], Len(topic'[e]), o) <= Count(outbox[r], n, Row(e, o))
    <3>1. IF r = s THEN m = sent[s] /\ n = sent[s] + 1 ELSE n = m
      BY <2>4, <2>7
    <3>2. /\ Count(topic[e], Len(topic[e]), o) <= Count(outbox[r], m, Row(e, o))
          /\ Count(topic[e], Len(topic[e]), o) \in Nat
          /\ Count(outbox[r], m, Row(e, o)) \in Nat
      BY <2>6, <2>7, Positions, CountIsNat DEF PublishedOnce
    <3>3. CASE e = row.event
      <4>1. topic'[e] = Append(topic[e], row.order) /\ topic[e] \in Seq(Orders)
        BY <2>3, <3>3
      <4>2. Count(topic'[e], Len(topic'[e]), o)
              = Count(topic[e], Len(topic[e]), o) + (IF row.order = o THEN 1 ELSE 0)
        BY <2>2, <4>1, CountAppend
      <4>3. r = s
        BY <2>2, <2>7, <3>3
      <4>4. Count(outbox[r], n, Row(e, o))
              = Count(outbox[r], m, Row(e, o)) + (IF row.order = o THEN 1 ELSE 0)
        BY <2>2, <2>5, <3>1, <3>3, <4>3
      <4> QED
        BY <3>2, <4>2, <4>4
    <3>4. CASE e # row.event
      <4>1. topic'[e] = topic[e]
        BY <2>3, <3>4
      <4>2. Count(outbox[r], m, Row(e, o)) <= Count(outbox[r], n, Row(e, o))
            /\ Count(outbox[r], n, Row(e, o)) \in Nat
        BY <2>5, <3>1, <3>2
      <4> QED
        BY <3>2, <4>1, <4>2
    <3> QED
      BY <3>3, <3>4
  <2>8. \A f, q : Row(f, q)' = Row(f, q) /\ Producer(f)' = Producer(f)
    BY DEF Row, Producer
  <2> QED
    BY <2>3, <2>7, <2>8, Wiring DEF PublishedOnce
<1> QED
  BY <1>2, <1>3, <1>4, <1>5, LogStep DEF LogCommits

(* The bound on the payments of an order grows with the attempts.          *)
LEMMA AttemptsGrow ==
  ASSUME TypeOK, TypeOK', NEW o \in Orders, NEW g, g = "payment-service",
         \/ /\ Handled(g, o)' = Handled(g, o)
            /\ next'[g] = next[g] /\ attempt[g] <= attempt'[g]
            /\ next[g] < Len(topic[TopicOf(g)]) =>
                 next[g] < Len(topic'[TopicOf(g)]) /\ Record(g)' = Record(g)
         \/ Handled(g, o)' = Handled(g, o) + (IF o = Record(g) THEN 1 ELSE 0)
  PROVE  PaymentAttempts(o) <= PaymentAttempts(o)'
<1>1. g \in Groups /\ TopicOf(g)' = TopicOf(g)
  BY DEF Groups, TopicOf
<1>2. /\ next[g] \in Nat /\ next'[g] \in Nat
      /\ attempt[g] \in 0..MaxRetry /\ attempt'[g] \in 0..MaxRetry /\ MaxRetry \in Nat
  BY <1>1, LimitAssumption DEF TypeOK, ConsumersOK
<1>3. Handled(g, o) \in Nat /\ Handled(g, o)' \in Nat
  BY <1>2, CountIsNat DEF Handled
<1> QED
  BY <1>1, <1>2, <1>3 DEF PaymentAttempts

(* The counts are numbers. *)
LEMMA CountsAreNat ==
  ASSUME TypeOK, NEW o \in Orders
  PROVE  /\ \A s \in Services : \A e : Emissions(s, e, o) \in Nat
         /\ \A g \in Groups : Handled(g, o) \in Nat
         /\ \A st : PaymentRows(o, st) \in Nat
         /\ PaymentAttempts(o) \in Nat
<1>1. \A s \in Services : \A e : Emissions(s, e, o) \in Nat
  <2>1. \A s \in Services : Len(outbox[s]) \in Nat
    BY Positions
  <2> QED
    BY <2>1, CountIsNat DEF Emissions
<1>2. \A g \in Groups : Handled(g, o) \in Nat
  <2>1. \A g \in Groups : next[g] \in Nat
    BY DEF TypeOK, ConsumersOK
  <2> QED
    BY <2>1, CountIsNat DEF Handled
<1>3. \A st : PaymentRows(o, st) \in Nat
  <2>1. Len(payments[o]) \in Nat
    BY Positions
  <2> QED
    BY <2>1, CountIsNat DEF PaymentRows
<1>4. PaymentAttempts(o) \in Nat
  <2>1. attempt["payment-service"] \in Nat /\ MaxRetry \in Nat
    BY LimitAssumption DEF Groups, TypeOK, ConsumersOK
  <2> QED
    BY <2>1 DEF PaymentAttempts
<1> QED
  BY <1>1, <1>2, <1>3, <1>4

(* Where no transaction commits nothing is counted but handled records.    *)
LEMMA NothingCommitted ==
  ASSUME TypeOK, TypeOK', AppliedOnce, UNCHANGED <<outbox, payments>>,
         \A o \in Orders : orders[o] # "none" => orders'[o] # "none",
         \A g \in Groups, o \in Orders : Handled(g, o) <= Handled(g, o)',
         \A o \in Orders : PaymentAttempts(o) <= PaymentAttempts(o)'
  PROVE  AppliedOnce'
<1> SUFFICES ASSUME NEW o \in Orders
             PROVE  /\ Emissions("order", OrderCreated, o)'
                          <= IF orders'[o] = "none" THEN 0 ELSE 1
                    /\ Emissions("inventory", InventoryReserved, o)'
                          <= Handled("inventory-service", o)'
                    /\ Emissions("inventory", InventoryUnreserved, o)'
                          <= Handled("inventory-service-payment", o)'
                    /\ Emissions("payment", PaymentFailed, o)' <= PaymentRows(o, "failed")'
                    /\ PaymentRows(o, "succeeded")' <= Handled("payment-service", o)'
                    /\ Len(payments'[o]) <= PaymentAttempts(o)'
  BY DEF AppliedOnce, OrderCreated, InventoryReserved, InventoryUnreserved, PaymentFailed
<1>1. /\ Emissions("order", OrderCreated, o)' = Emissions("order", OrderCreated, o)
      /\ Emissions("inventory", InventoryReserved, o)'
           = Emissions("inventory", InventoryReserved, o)
      /\ Emissions("inventory", InventoryUnreserved, o)'
           = Emissions("inventory", InventoryUnreserved, o)
      /\ Emissions("payment", PaymentFailed, o)' = Emissions("payment", PaymentFailed, o)
  BY DEF Emissions, Row, OrderCreated, InventoryReserved, InventoryUnreserved, PaymentFailed
<1>2. \A st : PaymentRows(o, st)' = PaymentRows(o, st)
  BY DEF PaymentRows
<1>3. /\ Emissions("order", OrderCreated, o) <= IF orders[o] = "none" THEN 0 ELSE 1
      /\ Emissions("inventory", InventoryReserved, o) <= Handled("inventory-service", o)
      /\ Emissions("inventory", InventoryUnreserved, o)
            <= Handled("inventory-service-payment", o)
      /\ Emissions("payment", PaymentFailed, o) <= PaymentRows(o, "failed")
      /\ PaymentRows(o, "succeeded") <= Handled("payment-service", o)
      /\ Len(payments[o]) <= PaymentAttempts(o)
  BY DEF AppliedOnce
<1>4. /\ \A s \in Services : \A e : Emissions(s, e, o) \in Nat
      /\ \A g \in Groups : Handled(g, o) \in Nat /\ Handled(g, o)' \in Nat
      /\ \A st : PaymentRows(o, st) \in Nat
      /\ PaymentAttempts(o) \in Nat /\ PaymentAttempts(o)' \in Nat
      /\ Len(payments[o]) \in Nat
  <2>1. \A g \in Groups : Handled(g, o)' \in Nat
    <3>1. \A g \in Groups : next'[g] \in Nat
      BY DEF TypeOK, ConsumersOK
    <3> QED
      BY <3>1, CountIsNat DEF Handled
  <2>2. PaymentAttempts(o)' \in Nat
    <3>1. attempt'["payment-service"] \in Nat /\ MaxRetry \in Nat
      BY LimitAssumption DEF Groups, TypeOK, ConsumersOK
    <3> QED
      BY <3>1 DEF PaymentAttempts
  <2> QED
    BY <2>1, <2>2, CountsAreNat, Positions
<1>5. Emissions("order", OrderCreated, o)' <= IF orders'[o] = "none" THEN 0 ELSE 1
  BY <1>1, <1>3, <1>4 DEF Services
<1>6. Emissions("inventory", InventoryReserved, o)' <= Handled("inventory-service", o)'
  BY <1>1, <1>3, <1>4, SMTT(30) DEF Groups, Services
<1>7. Emissions("inventory", InventoryUnreserved, o)' <= Handled("inventory-service-payment", o)'
  BY <1>1, <1>3, <1>4, SMTT(30) DEF Groups, Services
<1>8. Emissions("payment", PaymentFailed, o)' <= PaymentRows(o, "failed")'
  BY <1>1, <1>2, <1>3
<1>9. PaymentRows(o, "succeeded")' <= Handled("payment-service", o)'
  BY <1>2, <1>3, <1>4 DEF Groups
<1>10. Len(payments'[o]) <= PaymentAttempts(o)'
  BY <1>3, <1>4
<1> QED
  BY <1>5, <1>6, <1>7, <1>8, <1>9, <1>10

(* The counts of the four events after a transaction has committed.        *)
LEMMA CommitCounts ==
  ASSUME TypeOK, NEW s \in Services, NEW e \in Topics, NEW q \in Orders, Enqueue(s, e, q),
         NEW o \in Orders
  PROVE  /\ Emissions("order", OrderCreated, o)'
              = Emissions("order", OrderCreated, o)
                  + (IF s = "order" /\ e = OrderCreated /\ o = q THEN 1 ELSE 0)
         /\ Emissions("inventory", InventoryReserved, o)'
              = Emissions("inventory", InventoryReserved, o)
                  + (IF s = "inventory" /\ e = InventoryReserved /\ o = q THEN 1 ELSE 0)
         /\ Emissions("inventory", InventoryUnreserved, o)'
              = Emissions("inventory", InventoryUnreserved, o)
                  + (IF s = "inventory" /\ e = InventoryUnreserved /\ o = q THEN 1 ELSE 0)
         /\ Emissions("payment", PaymentFailed, o)'
              = Emissions("payment", PaymentFailed, o)
                  + (IF s = "payment" /\ e = PaymentFailed /\ o = q THEN 1 ELSE 0)
<1>1. "order" \in Services /\ "inventory" \in Services /\ "payment" \in Services
  BY DEF Services
<1>2. \A r \in Services : \A f, p :
        Emissions(r, f, p)'
          = Emissions(r, f, p) + (IF r = s /\ f = e /\ p = q THEN 1 ELSE 0)
  BY EnqueueCounts
<1> QED
  BY <1>1, <1>2 DEF OrderCreated, InventoryReserved, InventoryUnreserved, PaymentFailed

(* Records handled and payments allowed do not change with a failed or     *)
(* successful attempt but as they should.                                  *)
LEMMA AttemptCounts ==
  ASSUME TypeOK, TypeOK', NEW g \in Groups, Succeed(g) \/ FailAttempt(g),
         UNCHANGED topic
  PROVE  \A o \in Orders :
           /\ \A h \in Groups : /\ Handled(h, o) <= Handled(h, o)'
                                /\ h = g /\ Succeed(g) /\ o = Record(g)
                                     => Handled(h, o)' = Handled(h, o) + 1
           /\ PaymentAttempts(o) <= PaymentAttempts(o)'
<1> SUFFICES ASSUME NEW o \in Orders
             PROVE  /\ \A h \in Groups : /\ Handled(h, o) <= Handled(h, o)'
                                         /\ h = g /\ Succeed(g) /\ o = Record(g)
                                              => Handled(h, o)' = Handled(h, o) + 1
                    /\ PaymentAttempts(o) <= PaymentAttempts(o)'
  OBVIOUS
<1> DEFINE p == "payment-service"
<1>1. p \in Groups /\ \A h \in Groups : Handled(h, o) \in Nat
  BY CountsAreNat DEF Groups
<1>2. CASE FailAttempt(g)
  <2>1. UNCHANGED next /\ \A h \in Groups : attempt[h] <= attempt'[h]
    BY <1>2 DEF FailAttempt, TypeOK, ConsumersOK
  <2>2. \A h \in Groups : Handled(h, o)' = Handled(h, o)
    BY <2>1 DEF Handled
  <2>3. Record(p)' = Record(p) /\ UNCHANGED topic
    BY <2>1 DEF Record, TopicOf
  <2>4. PaymentAttempts(o) <= PaymentAttempts(o)'
    BY <1>1, <2>1, <2>2, <2>3, AttemptsGrow
  <2>5. ~Succeed(g)
    BY <1>2 DEF Succeed, FailAttempt, TypeOK, ConsumersOK
  <2> QED
    BY <1>1, <2>2, <2>4, <2>5
<1>3. CASE Succeed(g)
  <2>1. \A h \in Groups :
          Handled(h, o)' = Handled(h, o) + (IF h = g /\ o = Record(g) THEN 1 ELSE 0)
    BY <1>3, SucceedCounts
  <2>2. PaymentAttempts(o) <= PaymentAttempts(o)'
    <3>1. CASE g = p
      BY <1>1, <2>1, <3>1, AttemptsGrow
    <3>2. CASE g # p
      <4>1. next'[p] = next[p] /\ attempt[p] <= attempt'[p]
        BY <1>1, <1>3, <3>2 DEF Succeed, TypeOK, ConsumersOK
      <4>2. Handled(p, o)' = Handled(p, o)
        BY <1>1, <2>1, <3>2
      <4>3. Record(p)' = Record(p)
        BY <4>1 DEF Record, TopicOf
      <4> QED
        BY <4>1, <4>2, <4>3, AttemptsGrow
    <3> QED
      BY <3>1, <3>2
  <2> QED
    BY <1>1, <2>1, <2>2
<1> QED
  BY <1>2, <1>3

(* A transaction that commits is counted with its cause.                   *)
LEMMA OneCommitted ==
  ASSUME TypeOK, TypeOK', AppliedOnce,
         NEW s \in Services, NEW e \in Topics, NEW q \in Orders, Enqueue(s, e, q),
         \A o \in Orders : orders[o] # "none" => orders'[o] # "none",
         \A g \in Groups, o \in Orders : Handled(g, o) <= Handled(g, o)',
         \A o \in Orders : /\ PaymentRows(o, "failed") <= PaymentRows(o, "failed")'
                           /\ PaymentRows(o, "succeeded")' <= Handled("payment-service", o)'
                           /\ Len(payments'[o]) <= PaymentAttempts(o)',
         e = OrderCreated => orders[q] = "none" /\ orders'[q] # "none",
         e = InventoryReserved =>
           Handled("inventory-service", q)' = Handled("inventory-service", q) + 1,
         e = InventoryUnreserved =>
           Handled("inventory-service-payment", q)' = Handled("inventory-service-payment", q) + 1,
         e = PaymentFailed =>
           PaymentRows(q, "failed")' = PaymentRows(q, "failed") + 1
  PROVE  AppliedOnce'
<1> SUFFICES ASSUME NEW o \in Orders
             PROVE  /\ Emissions("order", OrderCreated, o)'
                          <= IF orders'[o] = "none" THEN 0 ELSE 1
                    /\ Emissions("inventory", InventoryReserved, o)'
                          <= Handled("inventory-service", o)'
                    /\ Emissions("inventory", InventoryUnreserved, o)'
                          <= Handled("inventory-service-payment", o)'
                    /\ Emissions("payment", PaymentFailed, o)' <= PaymentRows(o, "failed")'
  BY DEF AppliedOnce, OrderCreated, InventoryReserved, InventoryUnreserved, PaymentFailed
<1> DEFINE a == "inventory-service"
           b == "inventory-service-payment"
<1>1. /\ Emissions("order", OrderCreated, o) <= IF orders[o] = "none" THEN 0 ELSE 1
      /\ Emissions("inventory", InventoryReserved, o) <= Handled(a, o)
      /\ Emissions("inventory", InventoryUnreserved, o) <= Handled(b, o)
      /\ Emissions("payment", PaymentFailed, o) <= PaymentRows(o, "failed")
  BY DEF AppliedOnce
<1>2. /\ \A r \in Services : \A f : Emissions(r, f, o) \in Nat
      /\ Handled(a, o) \in Nat /\ Handled(a, o)' \in Nat
      /\ Handled(b, o) \in Nat /\ Handled(b, o)' \in Nat
      /\ PaymentRows(o, "failed") \in Nat /\ PaymentRows(o, "failed")' \in Nat
  <2>1. a \in Groups /\ b \in Groups
    BY DEF Groups
  <2>2. /\ next'[a] \in Nat /\ next'[b] \in Nat /\ Len(payments'[o]) \in Nat
    BY <2>1 DEF TypeOK, TablesOK, ConsumersOK
  <2>3. /\ Handled(a, o)' \in Nat /\ Handled(b, o)' \in Nat
        /\ PaymentRows(o, "failed")' \in Nat
    BY <2>2, CountIsNat DEF Handled, PaymentRows
  <2> QED
    BY <2>1, <2>3, CountsAreNat
<1>3. Handled(a, o) <= Handled(a, o)' /\ Handled(b, o) <= Handled(b, o)'
  BY DEF Groups
<1>4. Emissions("order", OrderCreated, o)' <= IF orders'[o] = "none" THEN 0 ELSE 1
  <2>1. Emissions("order", OrderCreated, o)'
          = Emissions("order", OrderCreated, o)
              + (IF s = "order" /\ e = OrderCreated /\ o = q THEN 1 ELSE 0)
    BY CommitCounts
  <2>2. Emissions("order", OrderCreated, o) \in Nat
    BY <1>2 DEF Services
  <2> QED
    BY <1>1, <2>1, <2>2
<1>5. Emissions("inventory", InventoryReserved, o)' <= Handled(a, o)'
  <2>1. Emissions("inventory", InventoryReserved, o)'
          = Emissions("inventory", InventoryReserved, o)
              + (IF s = "inventory" /\ e = InventoryReserved /\ o = q THEN 1 ELSE 0)
    BY CommitCounts
  <2>2. Emissions("inventory", InventoryReserved, o) \in Nat
    BY <1>2 DEF Services
  <2>3. e = InventoryReserved /\ o = q => Handled(a, o)' = Handled(a, o) + 1
    OBVIOUS
  <2> QED
    BY <1>1, <1>2, <1>3, <2>1, <2>2, <2>3
<1>6. Emissions("inventory", InventoryUnreserved, o)' <= Handled(b, o)'
  <2>1. Emissions("inventory", InventoryUnreserved, o)'
          = Emissions("inventory", InventoryUnreserved, o)
              + (IF s = "inventory" /\ e = InventoryUnreserved /\ o = q THEN 1 ELSE 0)
    BY CommitCounts
  <2>2. Emissions("inventory", InventoryUnreserved, o) \in Nat
    BY <1>2 DEF Services
  <2>3. e = InventoryUnreserved /\ o = q => Handled(b, o)' = Handled(b, o) + 1
    OBVIOUS
  <2> QED
    BY <1>1, <1>2, <1>3, <2>1, <2>2, <2>3
<1>7. Emissions("payment", PaymentFailed, o)' <= PaymentRows(o, "failed")'
  <2>1. Emissions("payment", PaymentFailed, o)'
          = Emissions("payment", PaymentFailed, o)
              + (IF s = "payment" /\ e = PaymentFailed /\ o = q THEN 1 ELSE 0)
    BY CommitCounts
  <2>2. Emissions("payment", PaymentFailed, o) \in Nat
    BY <1>2 DEF Services
  <2>3. e = PaymentFailed /\ o = q => PaymentRows(o, "failed")' = PaymentRows(o, "failed") + 1
    OBVIOUS
  <2>4. PaymentRows(o, "failed") <= PaymentRows(o, "failed")'
    OBVIOUS
  <2> QED
    BY <1>1, <1>2, <2>1, <2>2, <2>3, <2>4
<1> QED
  BY <1>4, <1>5, <1>6, <1>7

LEMMA AppliedOncePreserved ==
  ASSUME TypeOK, PublishedOnce, AppliedOnce, [Next]_vars, errors' = 0, crashes' = 0
  PROVE  AppliedOnce'
<1> USE DEF inventoryDb, relayVars, cursorVars, deadVars
<1>a. TypeOK' /\ ~CallFails
  BY TypeNext, StillQuiet
<1>b. /\ orders \in [Orders -> Statuses]
      /\ "pending" # "none" /\ "confirmed" # "none" /\ "failed" # "none"
  BY DEF TypeOK, TablesOK
<1>c. ASSUME NEW o \in Orders
      PROVE  /\ Emissions("order", OrderCreated, o) <= IF orders[o] = "none" THEN 0 ELSE 1
             /\ Emissions("inventory", InventoryReserved, o) <= Handled("inventory-service", o)
             /\ Emissions("inventory", InventoryUnreserved, o)
                   <= Handled("inventory-service-payment", o)
             /\ Emissions("payment", PaymentFailed, o) <= PaymentRows(o, "failed")
             /\ PaymentRows(o, "succeeded") <= Handled("payment-service", o)
             /\ Len(payments[o]) <= PaymentAttempts(o)
  BY DEF AppliedOnce
<1>d. ASSUME NEW o \in Orders
      PROVE  /\ \A s \in Services : \A e : Emissions(s, e, o) \in Nat
             /\ \A g \in Groups : Handled(g, o) \in Nat /\ Handled(g, o)' \in Nat
             /\ \A st : PaymentRows(o, st) \in Nat
             /\ PaymentAttempts(o) \in Nat
             /\ Len(payments[o]) \in Nat
  <2>1. \A g \in Groups : next'[g] \in Nat
    BY <1>a DEF TypeOK, ConsumersOK
  <2>2. \A g \in Groups : Handled(g, o)' \in Nat
    BY <2>1, CountIsNat DEF Handled
  <2> QED
    BY <2>2, CountsAreNat, Positions
(* Steps of a consumer that commit no transaction.                         *)
<1>1. ASSUME NEW g \in Groups, Succeed(g) \/ FailAttempt(g), UNCHANGED <<topic, outbox, payments>>,
             \A o \in Orders : orders[o] # "none" => orders'[o] # "none"
      PROVE  AppliedOnce'
  BY <1>1, <1>a, AttemptCounts, NothingCommitted
<1>2. ASSUME NEW g \in Groups, DeadLetter(g) PROVE AppliedOnce'
  BY <1>1, <1>2 DEF DeadLetter
<1>3. CASE HandlePaymentSucceeded
  <2> DEFINE g == "order-service-payment"
  <2>1. g \in Groups /\ CanHandle(g) /\ Record(g) \in Orders
    BY <1>3, RecordIsOrder DEF HandlePaymentSucceeded, CanHandle, Groups
  <2>2. UpdateOrderStatus(Record(g), "confirmed") /\ Succeed(g)
    BY <1>3, <1>a DEF HandlePaymentSucceeded, Attempt
  <2> QED
    BY <1>1, <1>3, <1>b, <2>1, <2>2 DEF HandlePaymentSucceeded, UpdateOrderStatus
<1>4. CASE HandleInventoryUnreserved
  <2> DEFINE g == "order-service-inventory"
  <2>1. g \in Groups /\ CanHandle(g) /\ Record(g) \in Orders
    BY <1>4, RecordIsOrder DEF HandleInventoryUnreserved, CanHandle, Groups
  <2>2. UpdateOrderStatus(Record(g), "failed") /\ Succeed(g)
    BY <1>4, <1>a DEF HandleInventoryUnreserved, Attempt
  <2> QED
    BY <1>1, <1>4, <1>b, <2>1, <2>2 DEF HandleInventoryUnreserved, UpdateOrderStatus
(* Steps that touch neither transactions nor consumers.                    *)
<1>5. ASSUME UNCHANGED <<outbox, payments, orders, next, attempt>>,
             \A e \in Topics : /\ Len(topic[e]) <= Len(topic'[e])
                               /\ \A k \in 1..Len(topic[e]) : topic'[e][k] = topic[e][k]
      PROVE  AppliedOnce'
  <2>1. ASSUME NEW g \in Groups, NEW o \in Orders PROVE Handled(g, o)' = Handled(g, o)
    <3>1. /\ \A i \in 1..next[g] : topic'[TopicOf(g)][i] = topic[TopicOf(g)][i]
          /\ next'[g] = next[g] /\ TopicOf(g)' = TopicOf(g)
      <4>1. /\ TopicOf(g) \in Topics /\ next[g] \in Nat
            /\ Len(topic[TopicOf(g)]) \in Nat /\ next[g] <= Len(topic[TopicOf(g)])
        BY Wiring, Positions
      <4>2. \A i \in 1..next[g] : i \in 1..Len(topic[TopicOf(g)])
        BY <4>1
      <4>3. TopicOf(g)' = TopicOf(g)
        BY DEF TopicOf
      <4> QED
        BY <1>5, <4>1, <4>2, <4>3
    <3>2. {i \in 1..next[g] : topic'[TopicOf(g)][i] = o}
            = {i \in 1..next[g] : topic[TopicOf(g)][i] = o}
      BY <3>1
    <3> QED
      BY <3>1, <3>2 DEF Handled, Count
  <2>2. ASSUME NEW o \in Orders PROVE PaymentAttempts(o) <= PaymentAttempts(o)'
    <3> DEFINE p == "payment-service"
    <3>1. p \in Groups /\ TopicOf(p) \in Topics
      BY Wiring DEF Groups
    <3>2. /\ next'[p] = next[p] /\ attempt[p] <= attempt'[p]
          /\ next[p] \in Nat /\ Len(topic[TopicOf(p)]) \in Nat
          /\ Len(topic'[TopicOf(p)]) \in Nat
      BY <1>5, <1>a, <3>1 DEF TypeOK, ConsumersOK
    <3>3. next[p] < Len(topic[TopicOf(p)]) =>
            next[p] < Len(topic'[TopicOf(p)]) /\ Record(p)' = Record(p)
      <4>1. SUFFICES ASSUME next[p] < Len(topic[TopicOf(p)])
                     PROVE  next[p] < Len(topic'[TopicOf(p)]) /\ Record(p)' = Record(p)
        OBVIOUS
      <4>2. next[p] + 1 \in 1..Len(topic[TopicOf(p)])
        BY <3>2, <4>1
      <4> QED
        BY <1>5, <3>1, <3>2, <4>1, <4>2 DEF Record, TopicOf
    <3> QED
      BY <1>a, <2>1, <3>1, <3>2, <3>3, AttemptsGrow
  <2>3. \A g \in Groups, o \in Orders : Handled(g, o) <= Handled(g, o)'
    BY <1>d, <2>1, SMTT(30)
  <2> QED
    BY <1>5, <1>a, <2>2, <2>3, NothingCommitted
<1>6. ASSUME NEW s \in Services, RelayPublish(s) \/ RelayMark(s) PROVE AppliedOnce'
  BY <1>5, <1>6, LogsGrow DEF RelayPublish, RelayMark
<1>7. ASSUME UNCHANGED <<outbox, payments, orders, next, attempt, topic>> PROVE AppliedOnce'
  BY <1>5, <1>7, Positions
(* Steps that commit a transaction.                                        *)
<1>8. ASSUME UNCHANGED payments,
             \A g \in Groups, o \in Orders : Handled(g, o) <= Handled(g, o)',
             \A o \in Orders : PaymentAttempts(o) <= PaymentAttempts(o)',
             NEW o \in Orders
      PROVE  /\ PaymentRows(o, "failed") <= PaymentRows(o, "failed")'
             /\ PaymentRows(o, "succeeded")' <= Handled("payment-service", o)'
             /\ Len(payments'[o]) <= PaymentAttempts(o)'
  <2>1. /\ PaymentRows(o, "failed")' = PaymentRows(o, "failed")
        /\ PaymentRows(o, "succeeded")' = PaymentRows(o, "succeeded")
        /\ payments'[o] = payments[o]
    BY <1>8 DEF PaymentRows
  <2>2. "payment-service" \in Groups
    BY DEF Groups
  <2>3. /\ PaymentAttempts(o)' \in Nat
        /\ PaymentAttempts(o) <= PaymentAttempts(o)'
        /\ Handled("payment-service", o) <= Handled("payment-service", o)'
    <3>1. attempt'["payment-service"] \in Nat /\ MaxRetry \in Nat
      BY <1>a, <2>2, LimitAssumption DEF TypeOK, ConsumersOK
    <3> QED
      BY <1>8, <2>2, <3>1 DEF PaymentAttempts
  <2> QED
    BY <1>c, <1>d, <2>1, <2>2, <2>3
<1>9. ASSUME NEW q \in Orders, CreateOrder(q) PROVE AppliedOnce'
  <2>1. /\ Enqueue("order", OrderCreated, q) /\ orders[q] = "none"
        /\ orders' = [orders EXCEPT ![q] = "pending"]
        /\ UNCHANGED <<payments, topic, next, attempt>>
    BY <1>9 DEF CreateOrder
  <2>2. \A g \in Groups, o \in Orders : Handled(g, o) <= Handled(g, o)'
    BY <1>d, <2>1 DEF Handled
  <2>3. \A o \in Orders : PaymentAttempts(o) <= PaymentAttempts(o)'
    <3>1. "payment-service" \in Groups
      BY DEF Groups
    <3>2. \A o \in Orders : Handled("payment-service", o)' = Handled("payment-service", o)
      BY <2>1 DEF Handled
    <3>3. Record("payment-service")' = Record("payment-service")
      BY <2>1 DEF Record
    <3>4. attempt["payment-service"] <= attempt'["payment-service"]
      BY <2>1, <3>1 DEF TypeOK, ConsumersOK
    <3> QED
      BY <1>a, <2>1, <3>2, <3>3, <3>4, AttemptsGrow
  <2>4. orders'[q] # "none" /\ \A o \in Orders : orders[o] # "none" => orders'[o] # "none"
    BY <1>b, <2>1
  <2>5. /\ "order" \in Services /\ OrderCreated \in Topics
        /\ OrderCreated # InventoryReserved /\ OrderCreated # InventoryUnreserved
        /\ OrderCreated # PaymentFailed
    BY DEF Services, Topics, OrderCreated, InventoryReserved, InventoryUnreserved, PaymentFailed
  <2> QED
    BY <1>a, <1>8, <2>1, <2>2, <2>3, <2>4, <2>5, OneCommitted
<1>10. CASE HandleOrderCreated
  <2> DEFINE g == "inventory-service"
  <2>1. PICK q : q = Record(g)
    OBVIOUS
  <2>2. /\ g \in Groups /\ CanHandle(g) /\ q \in Orders
        /\ UNCHANGED <<orders, payments, topic>>
    BY <1>10, <2>1, RecordIsOrder DEF HandleOrderCreated, CanHandle, Groups
  <2>3. CASE FailAttempt(g) /\ UNCHANGED outbox
    BY <1>1, <2>2, <2>3
  <2>4. CASE ReserveInventory(q) /\ Succeed(g)
    <3>1. /\ "inventory" \in Services /\ InventoryReserved \in Topics
          /\ InventoryReserved # InventoryUnreserved /\ InventoryReserved # OrderCreated
          /\ InventoryReserved # PaymentFailed
      BY DEF Services, Topics, OrderCreated, InventoryReserved, InventoryUnreserved, PaymentFailed
    <3>2. /\ \A h \in Groups, o \in Orders : Handled(h, o) <= Handled(h, o)'
          /\ \A o \in Orders : PaymentAttempts(o) <= PaymentAttempts(o)'
      BY <1>a, <2>2, <2>4, AttemptCounts
    <3>3. Handled(g, q)' = Handled(g, q) + 1
      BY <1>a, <2>1, <2>2, <2>4, AttemptCounts
    <3> QED
      BY <1>a, <1>8, <2>2, <2>4, <3>1, <3>2, <3>3, OneCommitted DEF ReserveInventory
  <2> QED
    BY <1>10, <1>a, <2>1, <2>3, <2>4 DEF HandleOrderCreated, Attempt
<1>11. CASE HandlePaymentFailed
  <2> DEFINE g == "inventory-service-payment"
  <2>1. PICK q : q = Record(g)
    OBVIOUS
  <2>2. /\ g \in Groups /\ CanHandle(g) /\ q \in Orders
        /\ UNCHANGED <<orders, payments, topic>>
    BY <1>11, <2>1, RecordIsOrder DEF HandlePaymentFailed, CanHandle, Groups
  <2>3. CASE FailAttempt(g) /\ UNCHANGED outbox
    BY <1>1, <2>2, <2>3
  <2>4. CASE UnreserveInventory(q) /\ Succeed(g)
    <3>1. /\ "inventory" \in Services /\ InventoryUnreserved \in Topics
          /\ InventoryUnreserved # InventoryReserved /\ InventoryUnreserved # OrderCreated
          /\ InventoryUnreserved # PaymentFailed
      BY DEF Services, Topics, OrderCreated, InventoryReserved, InventoryUnreserved, PaymentFailed
    <3>2. /\ \A h \in Groups, o \in Orders : Handled(h, o) <= Handled(h, o)'
          /\ \A o \in Orders : PaymentAttempts(o) <= PaymentAttempts(o)'
      BY <1>a, <2>2, <2>4, AttemptCounts
    <3>3. Handled(g, q)' = Handled(g, q) + 1
      BY <1>a, <2>1, <2>2, <2>4, AttemptCounts
    <3> QED
      BY <1>a, <1>8, <2>2, <2>4, <3>1, <3>2, <3>3, OneCommitted DEF UnreserveInventory
  <2> QED
    BY <1>11, <1>a, <2>1, <2>3, <2>4 DEF HandlePaymentFailed, Attempt
<1>12. CASE HandleInventoryReserved
  <2> DEFINE g == "payment-service"
  <2>1. PICK q : q = Record(g)
    OBVIOUS
  <2>2. /\ g \in Groups /\ CanHandle(g) /\ UNCHANGED <<orders, topic>>
    BY <1>12 DEF HandleInventoryReserved, Groups
  <2>3. q \in Orders /\ Handled(g, q) = 0 /\ Len(payments[q]) <= attempt[g]
    BY <2>1, <2>2, FirstRecord
  <2>4. /\ "payment" \in Services /\ PaymentSucceeded \in Topics /\ PaymentFailed \in Topics
        /\ PaymentSucceeded # OrderCreated /\ PaymentSucceeded # InventoryReserved
        /\ PaymentSucceeded # InventoryUnreserved /\ PaymentSucceeded # PaymentFailed
        /\ PaymentFailed # OrderCreated /\ PaymentFailed # InventoryReserved
        /\ PaymentFailed # InventoryUnreserved
    BY DEF Services, Topics, OrderCreated, InventoryReserved, InventoryUnreserved,
         PaymentSucceeded, PaymentFailed
  <2>5. CASE FailAttempt(g) /\ UNCHANGED <<payments, outbox>>
    BY <1>1, <2>2, <2>5
  <2>6. ASSUME NEW status \in Outcomes, ProcessPayment(q, status),
               Succeed(g) \/ FailAttempt(g), status = "succeeded" => Succeed(g),
               status = "failed" => FailAttempt(g)
        PROVE  AppliedOnce'
    <3>1. \A o \in Orders :
            /\ PaymentRows(o, "failed")'
                 = PaymentRows(o, "failed") + (IF o = q /\ status = "failed" THEN 1 ELSE 0)
            /\ PaymentRows(o, "succeeded")'
                 = PaymentRows(o, "succeeded") + (IF o = q /\ status = "succeeded" THEN 1 ELSE 0)
            /\ Len(payments'[o]) = Len(payments[o]) + (IF o = q THEN 1 ELSE 0)
      BY <2>3, <2>6, PaymentCounts DEF ProcessPayment
    <3>2. /\ \A h \in Groups, o \in Orders : Handled(h, o) <= Handled(h, o)'
          /\ \A o \in Orders : PaymentAttempts(o) <= PaymentAttempts(o)'
      BY <1>a, <2>2, <2>6, AttemptCounts
    <3>3. status = "succeeded" => Handled(g, q)' = Handled(g, q) + 1
      BY <1>a, <2>1, <2>2, <2>3, <2>6, AttemptCounts
    <3>4. Len(payments[q]) + 1 <= PaymentAttempts(q)'
      <4>1. /\ attempt[g] < MaxRetry /\ attempt[g] \in Nat /\ MaxRetry \in Nat
            /\ Len(payments[q]) \in Nat
        BY <1>d, <2>2, <2>3, LimitAssumption DEF CanHandle, TypeOK, ConsumersOK
      <4>2. CASE status = "succeeded"
        <5>1. Handled(g, q)' = 1
          BY <2>3, <3>3, <4>2
        <5>2. PaymentAttempts(q)' = MaxRetry
          BY <5>1 DEF PaymentAttempts
        <5> QED
          BY <2>3, <4>1, <5>2
      <4>3. CASE status = "failed"
        <5>1. next' = next /\ attempt'[g] = attempt[g] + 1
          BY <2>2, <2>6, <4>3 DEF FailAttempt, TypeOK, ConsumersOK
        <5>2. Handled(g, q)' = 0 /\ Record(g)' = q
          BY <2>1, <2>2, <2>3, <5>1 DEF Handled, Record, TopicOf
        <5>3. next'[g] < Len(topic'[TopicOf(g)])
          BY <2>2, <5>1 DEF CanHandle
        <5>4. PaymentAttempts(q)' = attempt[g] + 1
          BY <5>1, <5>2, <5>3 DEF PaymentAttempts, TopicOf
        <5> QED
          BY <2>3, <4>1, <5>4
      <4> QED
        BY <2>6, <4>2, <4>3 DEF Outcomes
    <3>5. ASSUME NEW o \in Orders
          PROVE  /\ PaymentRows(o, "failed") <= PaymentRows(o, "failed")'
                 /\ PaymentRows(o, "succeeded")' <= Handled(g, o)'
                 /\ Len(payments'[o]) <= PaymentAttempts(o)'
      <4>1. /\ PaymentRows(o, "failed") \in Nat /\ PaymentRows(o, "succeeded") \in Nat
            /\ Handled(g, o) \in Nat /\ Handled(g, o)' \in Nat
            /\ PaymentAttempts(o) \in Nat /\ Len(payments[o]) \in Nat
        BY <1>d, <2>2
      <4>2. PaymentAttempts(o)' \in Nat
        <5>1. attempt'[g] \in Nat /\ MaxRetry \in Nat
          BY <1>a, <2>2, LimitAssumption DEF TypeOK, ConsumersOK
        <5> QED
          BY <5>1 DEF PaymentAttempts
      <4>3. /\ PaymentRows(o, "succeeded") <= Handled(g, o)
            /\ Len(payments[o]) <= PaymentAttempts(o)
        BY <1>c
      <4>4. /\ PaymentRows(o, "failed")'
                 = PaymentRows(o, "failed") + (IF o = q /\ status = "failed" THEN 1 ELSE 0)
            /\ PaymentRows(o, "succeeded")'
                 = PaymentRows(o, "succeeded") + (IF o = q /\ status = "succeeded" THEN 1 ELSE 0)
            /\ Len(payments'[o]) = Len(payments[o]) + (IF o = q THEN 1 ELSE 0)
        BY <3>1
      <4>5. PaymentRows(o, "failed") <= PaymentRows(o, "failed")'
        BY <4>1, <4>4
      <4>6. PaymentRows(o, "succeeded")' <= Handled(g, o)'
        <5>1. CASE o = q /\ status = "succeeded"
          BY <2>3, <3>3, <4>1, <4>3, <4>4, <5>1
        <5>2. CASE ~(o = q /\ status = "succeeded")
          <6>1. PaymentRows(o, "succeeded")' = PaymentRows(o, "succeeded")
            BY <4>1, <4>4, <5>2
          <6>2. Handled(g, o) <= Handled(g, o)'
            BY <2>2, <3>2
          <6> QED
            BY <4>1, <4>3, <6>1, <6>2
        <5> QED
          BY <5>1, <5>2
      <4>7. Len(payments'[o]) <= PaymentAttempts(o)'
        <5>1. CASE o = q
          BY <3>4, <4>4, <5>1
        <5>2. CASE o # q
          <6>1. Len(payments'[o]) = Len(payments[o])
            BY <4>1, <4>4, <5>2
          <6>2. PaymentAttempts(o) <= PaymentAttempts(o)'
            BY <3>2
          <6> QED
            BY <4>1, <4>2, <4>3, <6>1, <6>2
        <5> QED
          BY <5>1, <5>2
      <4> QED
        BY <4>5, <4>6, <4>7
    <3>6. status = "failed" => PaymentRows(q, "failed")' = PaymentRows(q, "failed") + 1
      BY <2>3, <3>1
    <3>7. PICK e \in Topics : /\ e = IF status = "succeeded" THEN PaymentSucceeded
                                                             ELSE PaymentFailed
                              /\ Enqueue("payment", e, q)
      BY <2>4, <2>6 DEF ProcessPayment
    <3>8. /\ e # OrderCreated /\ e # InventoryReserved /\ e # InventoryUnreserved
          /\ e = PaymentFailed => status = "failed"
      BY <2>4, <2>6, <3>7 DEF Outcomes
    <3> QED
      BY <1>a, <2>2, <2>3, <2>4, <3>2, <3>5, <3>6, <3>7, <3>8, OneCommitted
  <2> QED
    BY <1>12, <1>a, <2>1, <2>5, <2>6 DEF HandleInventoryReserved, Outcomes
<1>13. ASSUME NEW s \in Services, RelayFail(s) \/ Crash(s) PROVE FALSE
  BY <1>13, <1>a, StillQuiet DEF RelayFail
<1>14. ASSUME NEW g \in Groups, CommitOffset(g) PROVE AppliedOnce'
  BY <1>7, <1>14 DEF CommitOffset
<1>15. CASE UNCHANGED vars
  BY <1>7, <1>15 DEF vars
<1> QED
  BY <1>2, <1>3, <1>4, <1>6, <1>9, <1>10, <1>11, <1>12, <1>13, <1>14, <1>15 DEF Next, Handle

(* While nothing crashes and no call fails, every row is published and     *)
(* every record applied at most once: an order is reserved for and paid    *)
(* for once, and no stock is given back but for a declined payment.        *)
THEOREM ExactlyOnce == Spec => []ExactlyOnceWithoutFaults
<1>1. Init => NothingTwice
  <2> SUFFICES ASSUME Init PROVE PublishedOnce /\ AppliedOnce
    BY DEF NothingTwice
  <2>1. /\ \A s \in Services : Len(outbox[s]) = 0 /\ Published(s) = 0
        /\ \A e \in Topics : Len(topic[e]) = 0
        /\ \A g \in Groups : next[g] = 0
        /\ \A o \in Orders : Len(payments[o]) = 0 /\ orders[o] = "none"
    BY DEF Init, Published
  <2>2. \A log, x : Count(log, 0, x) = 0
    BY CountOfNone
  <2>3. PublishedOnce
    BY <2>1, <2>2, Wiring DEF PublishedOnce
  <2>4. \A o \in Orders : PaymentAttempts(o) \in Nat
    BY TypeInit, CountsAreNat
  <2>5. AppliedOnce
    BY <2>1, <2>2, <2>4 DEF AppliedOnce, Emissions, Handled, PaymentRows, Groups, Services
  <2> QED
    BY <2>3, <2>5
<1>2. SagaInvariant /\ NothingTwice /\ [Next]_vars => NothingTwice'
  <2> SUFFICES ASSUME SagaInvariant, NothingTwice, [Next]_vars, errors' = 0, crashes' = 0
               PROVE  PublishedOnce' /\ AppliedOnce'
    BY DEF NothingTwice
  <2>1. TypeOK /\ OutboxesOfTheirProducers
    BY DEF SagaInvariant
  <2>2. errors = 0 /\ crashes = 0 /\ ~LogForgets
    BY <2>1, StillQuiet
  <2>3. PublishedOnce /\ AppliedOnce
    BY <2>2 DEF NothingTwice
  <2> QED
    BY <2>1, <2>2, <2>3, PublishedOncePreserved, AppliedOncePreserved
<1>3. SagaInvariant /\ NothingTwice => ExactlyOnceWithoutFaults
  <2> SUFFICES ASSUME TypeOK, PublishedOnce, AppliedOnce, NEW o \in Orders
               PROVE  /\ Emissions("inventory", InventoryReserved, o) <= 1
                      /\ PaymentRows(o, "succeeded") <= 1
                      /\ Len(payments[o]) <= MaxRetry
                      /\ Emissions("inventory", InventoryUnreserved, o)
                            <= PaymentRows(o, "failed")
    BY DEF ExactlyOnceWithoutFaults, NothingTwice, SagaInvariant
  <2> DEFINE b == "inventory-service-payment"
  <2>1. /\ Emissions("inventory", InventoryReserved, o) <= 1
        /\ Handled("payment-service", o) <= 1
    BY OneRecordPerOrder
  <2>2. /\ "payment-service" \in Groups /\ b \in Groups
        /\ TopicOf(b) = PaymentFailed /\ Producer(TopicOf(b)) = "payment"
    BY Producers DEF Groups, TopicOf
  <2>3. /\ PaymentRows(o, "succeeded") \in Nat /\ PaymentRows(o, "failed") \in Nat
        /\ Handled("payment-service", o) \in Nat /\ Handled(b, o) \in Nat
        /\ Emissions("inventory", InventoryUnreserved, o) \in Nat
        /\ Emissions("payment", PaymentFailed, o) \in Nat
    BY <2>2, CountsAreNat DEF Services
  <2>4. PaymentRows(o, "succeeded") <= 1
    BY <2>1, <2>3 DEF AppliedOnce
  <2>5. Len(payments[o]) <= MaxRetry
    <3>1. Len(payments[o]) <= PaymentAttempts(o) /\ Len(payments[o]) \in Nat
      BY Positions DEF AppliedOnce
    <3>2. attempt["payment-service"] \in 0..MaxRetry /\ MaxRetry \in Nat
      BY <2>2, LimitAssumption DEF TypeOK, ConsumersOK
    <3>3. PaymentAttempts(o) \in 0..MaxRetry
      BY <3>2 DEF PaymentAttempts
    <3> QED
      BY <3>1, <3>2, <3>3
  <2>6. Handled(b, o) <= Emissions("payment", PaymentFailed, o)
    <3>1. /\ Handled(b, o) <= Count(topic[TopicOf(b)], Len(topic[TopicOf(b)]), o)
          /\ Count(topic[TopicOf(b)], Len(topic[TopicOf(b)]), o) \in Nat
          /\ Count(topic[TopicOf(b)], Len(topic[TopicOf(b)]), o)
               <= Emissions(Producer(TopicOf(b)), TopicOf(b), o)
      BY <2>2, HandledWasEmitted
    <3> QED
      BY <2>2, <2>3, <3>1
  <2>7. Emissions("inventory", InventoryUnreserved, o) <= PaymentRows(o, "failed")
    BY <2>3, <2>6 DEF AppliedOnce
  <2> QED
    BY <2>1, <2>4, <2>5, <2>7
<1>4. Init /\ [][Next]_vars => []SagaInvariant
  BY SagaInvariance DEF Spec
<1> QED
  BY <1>1, <1>2, <1>3, <1>4, PTL DEF Spec
-----------------------------------------------------------------------------
(* The stock ledger.                                                       *)

LEMMA HeldIsInt ==
  ASSUME TypeOK, NEW p \in Products
  PROVE  /\ Held(p) \in [Orders -> Int]
         /\ \A o \in Orders : /\ Demand[o][p] \in Nat
                              /\ Emissions("inventory", InventoryReserved, o) \in Nat
                              /\ Emissions("inventory", InventoryUnreserved, o) \in Nat
<1>1. \A e, o : Emissions("inventory", e, o) \in Nat
  BY Positions, CountIsNat DEF Emissions, Services
<1>2. \A o \in Orders : Demand[o][p] \in Nat
  BY DataAssumption
<1>3. \A d, m, n \in Nat : d * (m - n) \in Int
  OBVIOUS
<1> QED
  BY <1>1, <1>2, <1>3 DEF Held

(* A reservation (delta 1) or a release (delta -1) of order o that is      *)
(* committed with its event changes the account of o by what the UPDATEs   *)
(* move.                                                                   *)
LEMMA LedgerEntry ==
  ASSUME IsFiniteSet(Orders), TypeOK, TypeOK', StockLedger,
         NEW o \in Orders, NEW e \in {InventoryReserved, InventoryUnreserved},
         Enqueue("inventory", e, o), NEW delta \in {1, -1},
         delta = IF e = InventoryReserved THEN 1 ELSE -1,
         reserved' = [p \in Products |-> reserved[p] + delta * Demand[o][p]],
         available' = [p \in Products |-> available[p] - delta * Demand[o][p]]
  PROVE  StockLedger'
<1> SUFFICES ASSUME NEW p \in Products
             PROVE  /\ reserved'[p] = SumFunction(Held(p)')
                    /\ available'[p] = Stock[p] - SumFunction(Held(p)')
  BY DEF StockLedger
<1> DEFINE R(q) == Emissions("inventory", InventoryReserved, q)
           U(q) == Emissions("inventory", InventoryUnreserved, q)
<1>1. /\ e \in Topics /\ InventoryReserved # InventoryUnreserved
      /\ "inventory" \in Services
  BY DEF Topics, Services, InventoryReserved, InventoryUnreserved
<1>2. \A f, q : Emissions("inventory", f, q)'
                  = Emissions("inventory", f, q) + (IF f = e /\ q = o THEN 1 ELSE 0)
  BY <1>1, EnqueueCounts
<1>3. \A q \in Orders : R(q) \in Nat /\ U(q) \in Nat /\ Demand[q][p] \in Nat
  BY HeldIsInt
<1>4. \A q \in Orders : (R(q) - U(q))' = R(q) - U(q) + (IF q = o THEN delta ELSE 0)
  BY <1>1, <1>2, <1>3
<1>5. Held(p) \in [Orders -> Int] /\ Held(p)' \in [Orders -> Int]
  <2>1. Held(p)' = [q \in Orders |-> Demand[q][p] * (R(q) - U(q))']
    BY DEF Held
  <2>2. \A q \in Orders : (R(q) - U(q))' \in Int
    BY <1>3, <1>4
  <2>3. \A d \in Nat, n \in Int : d * n \in Int
    OBVIOUS
  <2> HIDE DEF R, U
  <2> QED
    BY <1>3, <2>1, <2>2, <2>3, HeldIsInt
<1>6. \A q \in Orders : /\ Held(p)[q] = Demand[q][p] * (R(q) - U(q))
                        /\ Held(p)'[q] = Demand[q][p] * (R(q) - U(q))'
  BY DEF Held
<1> HIDE DEF R, U
<1>7. \A q \in Orders \ {o} : Held(p)'[q] = Held(p)[q]
  BY <1>3, <1>4, <1>6
<1>8. Held(p)'[o] = Held(p)[o] + delta * Demand[o][p]
  <2>1. \A d, m, n \in Nat : d * (m - n + delta) = d * (m - n) + delta * d
    OBVIOUS
  <2> QED
    BY <1>3, <1>4, <1>6, <2>1
<1>9. SumFunction(Held(p)') = SumFunction(Held(p)) + delta * Demand[o][p]
  <2>1. PICK f \in [Orders -> Int] : f = Held(p)
    BY <1>5
  <2>2. PICK h \in [Orders -> Int] : h = Held(p)'
    BY <1>5
  <2>3. \A q \in Orders \ {o} : h[q] = f[q]
    BY <1>7, <2>1, <2>2
  <2>4. SumFunction(h) = SumFunction(f) + h[o] - f[o]
    BY <2>3, SumChange
  <2>5. SumFunction(f) \in Int /\ f[o] \in Int /\ delta * Demand[o][p] \in Int
    BY <1>3, SumIsInt
  <2> QED
    BY <1>8, <2>1, <2>2, <2>4, <2>5
<1>10. /\ reserved[p] = SumFunction(Held(p))
       /\ available[p] = Stock[p] - SumFunction(Held(p))
  BY DEF StockLedger
<1>11. /\ SumFunction(Held(p)) \in Int /\ Stock[p] \in Int
       /\ delta * Demand[o][p] \in Int
  BY <1>3, <1>5, SumIsInt, DataAssumption
<1> QED
  BY <1>9, <1>10, <1>11

(* ReserveInventory, UnreserveInventory: the columns are the balance of    *)
(* the events that the outbox records, whatever call fails and whatever is *)
(* redelivered.                                                            *)
THEOREM StockIsBalanced ==
  ASSUME IsFiniteSet(Orders)
  PROVE  Spec => []StockLedger
<1>1. Init => StockLedger
  <2> SUFFICES ASSUME Init, NEW p \in Products
               PROVE  /\ reserved[p] = SumFunction(Held(p))
                      /\ available[p] = Stock[p] - SumFunction(Held(p))
    BY DEF StockLedger
  <2>1. TypeOK
    BY TypeInit
  <2>2. \A e, o : Emissions("inventory", e, o) = 0
    BY CountOfNone DEF Emissions, Init, Services
  <2>3. \A o \in Orders : Held(p)[o] = 0
    BY <2>1, <2>2, HeldIsInt DEF Held
  <2>4. SumFunction(Held(p)) = 0
    BY <2>1, <2>3, HeldIsInt, SumOfZeros
  <2>5. reserved[p] = 0 /\ available[p] = Stock[p] /\ Stock[p] \in Nat
    BY DataAssumption, ZenonT(60) DEF Init
  <2> QED
    BY <2>4, <2>5
<1>2. TypeOK /\ TypeOK' /\ StockLedger /\ [Next]_vars => StockLedger'
  <2> SUFFICES ASSUME TypeOK, TypeOK', StockLedger, [Next]_vars PROVE StockLedger'
    OBVIOUS
  <2> USE DEF inventoryDb
  <2>1. CASE UNCHANGED <<inventoryDb, outbox>>
    BY <2>1 DEF StockLedger, Held, Emissions, Count, Row
  <2>2. CASE reserved' = reserved /\ available' = available /\ outbox'["inventory"] = outbox["inventory"]
    BY <2>2 DEF StockLedger, Held, Emissions, Count, Row
  <2>3. CASE HandleOrderCreated
    <3> DEFINE o == Record("inventory-service")
    <3>1. o \in Orders
      BY <2>3, RecordIsOrder DEF HandleOrderCreated, CanHandle, Groups
    <3>2. CASE ReserveInventory(o)
      <4>1. /\ reserved' = [p \in Products |-> reserved[p] + 1 * Demand[o][p]]
            /\ available' = [p \in Products |-> available[p] - 1 * Demand[o][p]]
        BY <3>1, <3>2, DataAssumption DEF ReserveInventory
      <4> HIDE DEF o
      <4> QED
        BY <3>1, <3>2, <4>1, LedgerEntry DEF ReserveInventory
    <3> QED
      BY <2>1, <2>3, <3>2 DEF HandleOrderCreated, Attempt
  <2>4. CASE HandlePaymentFailed
    <3> DEFINE o == Record("inventory-service-payment")
    <3>1. o \in Orders
      BY <2>4, RecordIsOrder DEF HandlePaymentFailed, CanHandle, Groups
    <3>2. CASE UnreserveInventory(o)
      <4>1. InventoryReserved # InventoryUnreserved
        BY DEF InventoryReserved, InventoryUnreserved
      <4>2. \A p \in Products : /\ reserved[p] - Demand[o][p] = reserved[p] + (-1) * Demand[o][p]
                                /\ available[p] + Demand[o][p] = available[p] - (-1) * Demand[o][p]
        BY <3>1, DataAssumption DEF TypeOK, TablesOK
      <4>3. /\ reserved' = [p \in Products |-> reserved[p] + (-1) * Demand[o][p]]
            /\ available' = [p \in Products |-> available[p] - (-1) * Demand[o][p]]
        BY <3>2, <4>2 DEF UnreserveInventory
      <4> HIDE DEF o
      <4> QED
        BY <3>1, <3>2, <4>1, <4>3, LedgerEntry DEF UnreserveInventory
    <3> QED
      BY <2>1, <2>4, <3>2 DEF HandlePaymentFailed, Attempt
  <2>5. CASE HandleInventoryReserved
    BY <2>1, <2>2, <2>5 DEF HandleInventoryReserved, ProcessPayment, Enqueue, TypeOK, RelaysOK, Services
  <2>6. ASSUME NEW o \in Orders, CreateOrder(o) PROVE StockLedger'
    BY <2>2, <2>6 DEF CreateOrder, Enqueue, TypeOK, RelaysOK, Services
  <2> QED
    BY <2>1, <2>3, <2>4, <2>5, <2>6
       DEF Next, Handle, vars, RelayPublish, RelayMark, RelayFail, Crash, DeadLetter,
           CommitOffset, HandlePaymentSucceeded, HandleInventoryUnreserved
<1> QED
  BY <1>1, <1>2, TypeCorrectness, PTL DEF Spec
-----------------------------------------------------------------------------
(* The parts of the saga that have a model of their own.                   *)

(* A handled record moves one consumer, by at most one record. *)
LEMMA HandlerMoves ==
  ASSUME TypeOK, NEW h \in Groups, Succeed(h) \/ FailAttempt(h), committed' = committed,
         NEW g \in Groups
  PROVE  next'[g] \in {next[g], next[g] + 1} /\ committed'[g] = committed[g]
BY DEF TypeOK, ConsumersOK, Succeed, FailAttempt

(* Consumer.Start: a consumer of the saga, in all its crashes and          *)
(* redeliveries, moves through its topic only as Consumer was shown to do. *)
THEOREM SagaConsumersAreCursors ==
  ASSUME NEW g \in Groups
  PROVE  Spec => ConsumerIsCursor(g)
<1>1. Init => GroupOf(g)!Init
  BY ZenonT(60) DEF Init, GroupOf!Init
<1>2. TypeOK /\ [Next]_vars => [GroupOf(g)!Next]_(GroupOf(g)!cursor)
  <2> SUFFICES ASSUME TypeOK, [Next]_vars
               PROVE  GroupOf(g)!Next \/ UNCHANGED <<next[g], committed[g]>>
    BY DEF GroupOf!cursor
  <2> USE DEF cursorVars
  <2>1. SUFFICES \/ next'[g] \in {next[g], next[g] + 1} /\ committed'[g] = committed[g]
                 \/ next'[g] = committed[g] /\ committed'[g] = committed[g]
                 \/ next'[g] = next[g] /\ committed'[g] \in (committed[g] + 1)..next[g]
    BY DEF GroupOf!Next, GroupOf!Advance, GroupOf!FallBack, GroupOf!Store
  <2>2. ASSUME NEW h \in Groups, Succeed(h) \/ FailAttempt(h), committed' = committed
        PROVE  next'[g] \in {next[g], next[g] + 1} /\ committed'[g] = committed[g]
    BY <2>2, HandlerMoves
  <2>3. CASE Handle
    BY <2>2, <2>3
       DEF Handle, HandlePaymentSucceeded, HandleInventoryUnreserved, HandleOrderCreated,
           HandlePaymentFailed, HandleInventoryReserved, Attempt, Groups
  <2>4. ASSUME NEW h \in Groups, DeadLetter(h)
        PROVE  next'[g] \in {next[g], next[g] + 1} /\ committed'[g] = committed[g]
    BY <2>2, <2>4 DEF DeadLetter
  <2>5. ASSUME NEW h \in Groups, CommitOffset(h)
        PROVE  /\ next'[g] = next[g]
               /\ \/ committed'[g] = committed[g]
                  \/ committed'[g] \in (committed[g] + 1)..next[g]
    BY <2>5 DEF CommitOffset, TypeOK, ConsumersOK
  <2>6. ASSUME NEW s \in Services, Crash(s)
        PROVE  next'[g] \in {next[g], committed[g]} /\ committed'[g] = committed[g]
    BY <2>6 DEF Crash, TypeOK, ConsumersOK
  <2>7. CASE UNCHANGED <<next, committed>>
    BY <2>7
  <2> QED
    BY <2>3, <2>4, <2>5, <2>6, <2>7
       DEF Next, vars, CreateOrder, RelayPublish, RelayMark, RelayFail
<1> QED
  BY <1>1, <1>2, TypeCorrectness, PTL DEF Spec, ConsumerIsCursor, GroupOf!Spec

(* An outbox row of inventory-service is an event of the atomic stock. *)
LEMMA StockEventsAppend ==
  ASSUME TypeOK, NEW e \in Topics, NEW o \in Orders, Enqueue("inventory", e, o)
  PROVE  StockEvents' = Append(StockEvents, <<e, o>>)
<1> DEFINE s == outbox["inventory"]
<1>1. s \in Seq(Rows) /\ Row(e, o) \in Rows
  BY DEF TypeOK, RelaysOK, Services, Row, Rows
<1>2. outbox'["inventory"] = Append(s, Row(e, o))
  BY DEF Enqueue, TypeOK, RelaysOK, Services
<1>3. /\ Len(outbox'["inventory"]) = Len(s) + 1
      /\ \A i \in 1..Len(s) : outbox'["inventory"][i] = s[i]
      /\ outbox'["inventory"][Len(s) + 1] = Row(e, o)
      /\ Len(s) \in Nat
  BY <1>1, <1>2, AppendedSequence
<1>4. Row(e, o).event = e /\ Row(e, o).order = o
  BY DEF Row
<1>5. /\ StockEvents \in Seq(Topics \X Orders)
      /\ Len(StockEvents) = Len(s)
      /\ \A i \in 1..Len(s) : StockEvents[i] = <<s[i].event, s[i].order>>
  <2>1. ASSUME NEW i \in 1..Len(s)
        PROVE  <<s[i].event, s[i].order>> \in Topics \X Orders
    <3>1. s[i] \in Rows
      BY <1>1
    <3> HIDE DEF s
    <3> QED
      BY <3>1 DEF Rows
  <2>2. StockEvents = [i \in 1..Len(s) |-> <<s[i].event, s[i].order>>]
    BY DEF StockEvents
  <2> HIDE DEF s
  <2> QED
    BY <1>3, <2>1, <2>2
<1>6. \A i \in 1..(Len(s) + 1) :
        Append(StockEvents, <<e, o>>)[i]
          = <<outbox'["inventory"][i].event, outbox'["inventory"][i].order>>
  <2> HIDE DEF s
  <2>1. ASSUME NEW i \in 1..Len(s)
        PROVE  /\ Append(StockEvents, <<e, o>>)[i] = StockEvents[i]
               /\ outbox'["inventory"][i] = s[i]
    BY <1>3, <1>5
  <2>2. Append(StockEvents, <<e, o>>)[Len(s) + 1] = <<e, o>>
    BY <1>3, <1>5
  <2> QED
    BY <1>3, <1>4, <1>5, <2>1, <2>2
<1>7. StockEvents' = [i \in 1..(Len(s) + 1) |->
                        <<outbox'["inventory"][i].event, outbox'["inventory"][i].order>>]
  BY <1>3 DEF StockEvents
<1>8. Append(StockEvents, <<e, o>>)
        = [i \in 1..(Len(s) + 1) |-> Append(StockEvents, <<e, o>>)[i]]
  <2> HIDE DEF s
  <2> QED
    BY <1>3, <1>5
<1> HIDE DEF s
<1> QED
  BY <1>6, <1>7, <1>8

(* What is declined was reserved before. *)
LEMMA ReleasedWasReserved ==
  ASSUME SagaInvariant, CanHandle("inventory-service-payment"),
         NEW o, o = Record("inventory-service-payment")
  PROVE  o \in Orders /\ Emitted("inventory", InventoryReserved, o)
<1>1. TopicOf("inventory-service-payment") = PaymentFailed
  BY DEF TopicOf
<1>2. o \in Orders /\ Emitted("payment", PaymentFailed, o)
  BY <1>1, RecordWasEmitted, Producers DEF SagaInvariant, Groups
<1>3. PaymentIs(o, "failed")
  BY <1>2 DEF SagaInvariant, RowsWithEvents
<1>4. payments[o] # << >>
  BY <1>3 DEF PaymentIs
<1> QED
  BY <1>2, <1>4 DEF SagaInvariant, NoPhantomOutcome

(* ReserveInventory, UnreserveInventory: the stock of the saga takes       *)
(* exactly the steps of AtomicStock, which the row-by-row transactions of  *)
(* InventoryTx implement too: whole reservations with enough available,    *)
(* whole releases of what was reserved before, each with its event.        *)
THEOREM SagaStockIsAtomic == Spec => StockIsAtomic
<1>1. Init => AtomicInventory!Init
  <2> SUFFICES ASSUME Init PROVE AtomicInventory!Init
    OBVIOUS
  <2>1. StockEvents = << >>
    BY SMTT(60) DEF Init, StockEvents, Services
  <2> QED
    BY <2>1 DEF Init, AtomicInventory!Init
<1>2. SagaInvariant /\ [Next]_vars => [AtomicInventory!Next]_(AtomicInventory!stockVars)
  <2> SUFFICES ASSUME SagaInvariant, [Next]_vars
               PROVE  AtomicInventory!Next \/ UNCHANGED <<available, reserved, StockEvents>>
    BY DEF AtomicInventory!stockVars
  <2> USE DEF inventoryDb
  <2>1. TypeOK
    BY DEF SagaInvariant
  <2>2. CASE UNCHANGED inventoryDb /\ outbox'["inventory"] = outbox["inventory"]
    BY <2>2 DEF StockEvents
  <2>3. CASE HandleOrderCreated
    <3> DEFINE o == Record("inventory-service")
    <3>1. o \in Orders
      BY <2>1, <2>3, RecordIsOrder DEF HandleOrderCreated, CanHandle, Groups
    <3>2. CASE Sufficient(o) /\ ReserveInventory(o)
      <4>1. StockEvents' = Append(StockEvents, <<"inventory.reserved", o>>)
        BY <2>1, <3>1, <3>2, StockEventsAppend, Producers
           DEF ReserveInventory, InventoryReserved
      <4>2. \A p \in Products : Demand[o][p] <= available[p]
        BY <2>1, <3>1, <3>2, DataAssumption DEF Sufficient, TypeOK, TablesOK
      <4>3. AtomicInventory!Reserve(o)
        BY <3>2, <4>1, <4>2 DEF ReserveInventory, AtomicInventory!Reserve
      <4> QED
        BY <3>1, <4>3 DEF AtomicInventory!Next
    <3> QED
      BY <2>2, <2>3, <3>2 DEF HandleOrderCreated, Attempt
  <2>4. CASE HandlePaymentFailed
    <3> DEFINE o == Record("inventory-service-payment")
    <3>1. o \in Orders /\ Emitted("inventory", InventoryReserved, o)
      BY <2>4, ReleasedWasReserved DEF HandlePaymentFailed
    <3>2. CASE UnreserveInventory(o)
      <4>1. StockEvents' = Append(StockEvents, <<"inventory.unreserved", o>>)
        BY <2>1, <3>1, <3>2, StockEventsAppend, Producers
           DEF UnreserveInventory, InventoryUnreserved
      <4>2. AtomicInventory!Emitted("inventory.reserved", o)
        <5>1. PICK i \in 1..Len(outbox["inventory"]) :
                     outbox["inventory"][i] = Row(InventoryReserved, o)
          BY <3>1 DEF Emitted
        <5>2. Len(outbox["inventory"]) \in Nat
          BY <2>1 DEF TypeOK, RelaysOK, Services
        <5>3. Len(StockEvents) = Len(outbox["inventory"])
          BY <5>2 DEF StockEvents
        <5>4. StockEvents[i] = <<"inventory.reserved", o>>
          BY <5>1 DEF StockEvents, Row, InventoryReserved
        <5> QED
          BY <5>3, <5>4 DEF AtomicInventory!Emitted
      <4>3. AtomicInventory!Release(o)
        BY <3>2, <4>1, <4>2 DEF UnreserveInventory, AtomicInventory!Release
      <4> QED
        BY <3>1, <4>3 DEF AtomicInventory!Next
    <3> QED
      BY <2>2, <2>4, <3>2 DEF HandlePaymentFailed, Attempt
  <2>5. CASE HandleInventoryReserved
    BY <2>1, <2>2, <2>5
       DEF HandleInventoryReserved, ProcessPayment, Enqueue, TypeOK, RelaysOK, Services
  <2>6. ASSUME NEW o \in Orders, CreateOrder(o)
        PROVE  UNCHANGED inventoryDb /\ outbox'["inventory"] = outbox["inventory"]
    BY <2>1, <2>6 DEF CreateOrder, Enqueue, TypeOK, RelaysOK, Services
  <2> QED
    BY <2>2, <2>3, <2>4, <2>5, <2>6
       DEF Next, Handle, vars, RelayPublish, RelayMark, RelayFail, Crash, DeadLetter,
           CommitOffset, HandlePaymentSucceeded, HandleInventoryUnreserved
<1> QED
  BY <1>1, <1>2, SagaInvariance, PTL DEF Spec, StockIsAtomic, AtomicInventory!Spec
=============================================================================
