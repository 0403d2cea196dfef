--------------------------- MODULE OutboxDelivery ---------------------------
(***************************************************************************)
(* What the transactional outbox of a service promises to the rest of the  *)
(* system, whatever its relay does inside: an event that was committed     *)
(* with its business row is delivered at least once, no other event ever   *)
(* is, and an event is settled -- never delivered again -- only after it   *)
(* has been delivered.                                                     *)
(***************************************************************************)
EXTENDS Naturals, Sequences

CONSTANT Rows  \* the rows that may be written to the outbox

VARIABLES
  accepted,  \* rows whose transaction has committed
  settled,   \* rows that will not be delivered again
  log        \* deliveries to Kafka, oldest first

dvars == <<accepted, settled, log>>

Delivered(r) == \E k \in 1..Len(log) : log[k] = r

Init == accepted = {} /\ settled = {} /\ log = << >>

Accept(r) == /\ r \notin accepted
             /\ accepted' = accepted \cup {r}
             /\ UNCHANGED <<settled, log>>

Deliver(r) == /\ r \in accepted \ settled
              /\ log' = Append(log, r)
              /\ UNCHANGED <<accepted, settled>>

Settle(r) == /\ r \in accepted
             /\ Delivered(r)
             /\ settled' = settled \cup {r}
             /\ UNCHANGED <<accepted, log>>

Next == \E r \in Rows : Accept(r) \/ Deliver(r) \/ Settle(r)

Spec == Init /\ [][Next]_dvars

(* Every accepted event is eventually delivered. *)
AtLeastOnce == \A r \in Rows : r \in accepted ~> Delivered(r)
=============================================================================
