--------------------------- MODULE RelayProperties ---------------------------
(***************************************************************************)
(* What the outbox relays of Relay guarantee.                              *)
(***************************************************************************)
EXTENDS Relay

Visible == {r \in Rows : status[r] \in {"pending", "published"}}

InLog(r) == \E k \in 1..Len(log) : log[k] = r

(* The transaction of a had committed before the one of b began. *)
Precedes(a, b) == visibleAt[a] > 0 /\ visibleAt[a] < createdAt[b]

(* Rows and dates agree: a row is dated when its transaction begins and    *)
(* visible when it has committed, and no two rows have the same date.      *)
TypeOK ==
  /\ status \in [Rows -> {"none", "open", "aborted", "pending", "published"}]
  /\ createdAt \in [Rows -> Nat]
  /\ visibleAt \in [Rows -> Nat]
  /\ clock \in Nat
  /\ batch \in [Relays -> SUBSET Rows]
  /\ stored \in [Relays -> BOOLEAN]
  /\ log \in Seq(Rows)
  /\ errors \in Nat
  /\ crashes \in Nat
  /\ \A r \in Rows : /\ createdAt[r] = 0 <=> status[r] = "none"
                     /\ visibleAt[r] > 0 <=> r \in Visible
                     /\ createdAt[r] <= clock /\ visibleAt[r] <= clock
                     /\ r \in Visible => createdAt[r] < visibleAt[r]
  /\ \A q, r \in Rows : createdAt[q] = createdAt[r] /\ createdAt[r] > 0 => q = r

-----------------------------------------------------------------------------
(* Only events of committed transactions reach Kafka: there is no phantom  *)
(* event without its business row, even if a transaction rolls back while  *)
(* the relay reads the table.                                              *)
OnlyCommittedEvents == \A k \in 1..Len(log) : log[k] \in Visible

(* No event is lost: a row is marked as published only after it was stored *)
(* in Kafka, whatever call failed and whichever instance crashed between.  *)
PublishedIsInLog == \A r \in Rows : status[r] = "published" => InLog(r)

(* Events follow causality although created_at is not the commit order: if *)
(* the transaction of b began after the one of a had committed, b never    *)
(* appears in Kafka before a does -- for any number of relays, with        *)
(* failures, retries and batches that are cut off.                         *)
CausalOrder ==
  \A k \in 1..Len(log) : \A a \in Rows :
    Precedes(a, log[k]) => \E j \in 1..(k - 1) : log[j] = a

(* With one instance every duplicate in Kafka is due to a failed call or a *)
(* crash.                                                                  *)
DuplicatesNeedFaults ==
  Len(log) <= Cardinality({r \in Rows : InLog(r)}) + errors + crashes

(* The outbox of one instance, with relay and table, delivers as promised. *)
Delivery == INSTANCE OutboxDelivery
              WITH accepted <- Visible,
                   settled  <- {r \in Rows : status[r] = "published"}

(* Every step of one relay and of the transactions is a step of the        *)
(* abstract outbox or changes nothing it can see.                          *)
ImplementsDelivery == Delivery!Spec

(* README and ADR-003: no event is lost, those of committed transactions   *)
(* are published once Kafka is available again.                            *)
EveryEventDelivered == Delivery!AtLeastOnce

-----------------------------------------------------------------------------
(* The inductive invariant behind the safety properties.                   *)

BatchesAreVisible == \A i \in Relays : batch[i] \subseteq Visible

StoredIsInLog ==
  \A i \in Relays : stored[i] => \E r \in Rows : Oldest(i, r) /\ InLog(r)

(* What precedes a row of a result set is in it too, or already in Kafka. *)
BatchesAreClosed ==
  \A i \in Relays : \A b \in batch[i] : \A a \in Rows :
    Precedes(a, b) => a \in batch[i] \/ InLog(a)

(* Everything a relay relies on: result sets hold committed rows and are   *)
(* closed under precedence up to Kafka, and marked rows are in Kafka.      *)
RelayInvariant ==
  /\ TypeOK
  /\ OnlyCommittedEvents
  /\ PublishedIsInLog
  /\ BatchesAreVisible
  /\ StoredIsInLog
  /\ BatchesAreClosed
  /\ CausalOrder
=============================================================================
