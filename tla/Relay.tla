------------------------------- MODULE Relay --------------------------------
(***************************************************************************)
(* The outbox table of a service and the relays that publish it: one relay *)
(* goroutine per running instance of the service (relay.go of              *)
(* order-service, inventory-service, payment-service and auth-service).    *)
(*                                                                         *)
(* A row is written by a transaction that stays open for a while; its      *)
(* created_at is the time the transaction began, as DEFAULT NOW() gives    *)
(* it, so rows may become visible in another order than they are dated.    *)
(* A cycle of a relay reads the oldest pending rows, and for each of them  *)
(* produces to Kafka and then updates the row; the first error ends the    *)
(* cycle.  Every statement commits on its own.                             *)
(*                                                                         *)
(* Abstracted: the payload and the topic of a row are the row; dates are   *)
(* distinct (now() has microseconds); rows of one service share one log.   *)
(***************************************************************************)
EXTENDS Integers, Sequences, FiniteSets

CONSTANTS
  Rows,        \* rows that transactions of the service may write
  Poison,      \* rows whose publish is always refused, e.g. as too large
  Relays,      \* running instances of the service
  BatchLimit,  \* LIMIT of the query, 10 in the code
  MaxOpen,     \* bound: transactions open at a time
  MaxErrors,   \* bound: failed database or broker calls in a behaviour
  MaxCrashes   \* bound: crashes of an instance in a behaviour

ASSUME RelayAssumption == /\ Poison \subseteq Rows
                          /\ BatchLimit \in Nat \ {0}
                          /\ MaxOpen \in Nat
                          /\ MaxErrors \in Nat
                          /\ MaxCrashes \in Nat

VARIABLES
  status,    \* outbox.status; "none", "open" and "aborted" are not in the table
  createdAt, \* outbox.created_at, 0 before the transaction begins
  visibleAt, \* history: when the transaction committed, 0 before
  clock,     \* number of dates given out
  batch,     \* batch[i]: rows of the result set that i has yet to finish
  stored,    \* stored[i]: the oldest row of batch[i] is in Kafka, unmarked
  log,       \* records in Kafka, oldest first
  errors,    \* failed database or broker calls so far
  crashes    \* crashes so far

table == <<status, createdAt, visibleAt, clock>>
relays == <<batch, stored>>
vars == <<table, relays, log, errors, crashes>>

Init ==
  /\ status = [r \in Rows |-> "none"]
  /\ createdAt = [r \in Rows |-> 0]
  /\ visibleAt = [r \in Rows |-> 0]
  /\ clock = 0
  /\ batch = [i \in Relays |-> {}]
  /\ stored = [i \in Relays |-> FALSE]
  /\ log = << >>
  /\ errors = 0
  /\ crashes = 0

-----------------------------------------------------------------------------
(* The transactions that write the outbox.                                 *)

Begin(r) ==
  /\ status[r] = "none"
  /\ Cardinality({q \in Rows : status[q] = "open"}) < MaxOpen
  /\ clock' = clock + 1
  /\ createdAt' = [createdAt EXCEPT ![r] = clock + 1]
  /\ status' = [status EXCEPT ![r] = "open"]
  /\ UNCHANGED <<visibleAt, relays, log, errors, crashes>>

Commit(r) ==
  /\ status[r] = "open"
  /\ clock' = clock + 1
  /\ visibleAt' = [visibleAt EXCEPT ![r] = clock + 1]
  /\ status' = [status EXCEPT ![r] = "pending"]
  /\ UNCHANGED <<createdAt, relays, log, errors, crashes>>

Rollback(r) ==
  /\ status[r] = "open"
  /\ status' = [status EXCEPT ![r] = "aborted"]
  /\ UNCHANGED <<createdAt, visibleAt, clock, relays, log, errors, crashes>>

-----------------------------------------------------------------------------
(* A cycle of processOutbox.                                               *)

Pending == {r \in Rows : status[r] = "pending"}

(* A bug: the query has no ORDER BY. *)
SelectsUnordered(S) ==
  /\ S \subseteq Pending
  /\ \/ S = Pending /\ Cardinality(S) <= BatchLimit
     \/ Cardinality(S) = BatchLimit

(* S is what the query may return: the oldest pending rows, up to the limit. *)
Selects(S) ==
  /\ S \subseteq Pending
  /\ \A r \in S, q \in Pending \ S : createdAt[r] < createdAt[q]
  /\ \/ S = Pending /\ Cardinality(S) <= BatchLimit
     \/ Cardinality(S) = BatchLimit

Select(i) ==
  /\ batch[i] = {}
  /\ \E S \in SUBSET Rows \ {{}} : Selects(S) /\ batch' = [batch EXCEPT ![i] = S]
  /\ UNCHANGED <<table, stored, log, errors, crashes>>

(* r is the row that relay i is working on. *)
Oldest(i, r) == r \in batch[i] /\ \A q \in batch[i] : createdAt[r] <= createdAt[q]

CallFails == /\ errors < MaxErrors
             /\ errors' = errors + 1

(* processOutbox returns an error: the rest of the result set is dropped. *)
EndCycle(i) == /\ batch' = [batch EXCEPT ![i] = {}]
               /\ stored' = [stored EXCEPT ![i] = FALSE]

Publish(i, r) ==
  /\ Oldest(i, r)
  /\ ~stored[i]
  /\ r \notin Poison
  /\ log' = Append(log, r)
  /\ \/ stored' = [stored EXCEPT ![i] = TRUE] /\ UNCHANGED <<batch, errors>>
     \/ CallFails /\ EndCycle(i)  \* stored, but the acknowledgement is lost
  /\ UNCHANGED <<table, crashes>>

(* A bug: the error of Publish is ignored. *)
PublishErrorIgnored(i, r) ==
  /\ Oldest(i, r)
  /\ ~stored[i]
  /\ CallFails \/ (r \in Poison /\ UNCHANGED errors)
  /\ stored' = [stored EXCEPT ![i] = TRUE]
  /\ UNCHANGED <<table, batch, log, crashes>>

PublishFails(i, r) ==
  /\ Oldest(i, r)
  /\ ~stored[i]
  /\ CallFails \/ (r \in Poison /\ UNCHANGED errors)
  /\ EndCycle(i)
  /\ UNCHANGED <<table, log, crashes>>

(* A bug: the UPDATE matches no row. *)
MarkMissesRow(r) == r \in Rows /\ UNCHANGED status

MarkPublished(r) == status' = [status EXCEPT ![r] = "published"]

Mark(i, r) ==
  /\ Oldest(i, r)
  /\ stored[i]
  /\ MarkPublished(r)
  /\ \/ /\ batch' = [batch EXCEPT ![i] = @ \ {r}]
        /\ stored' = [stored EXCEPT ![i] = FALSE]
        /\ UNCHANGED errors
     \/ CallFails /\ EndCycle(i)  \* the UPDATE took effect, its reply is lost
  /\ UNCHANGED <<createdAt, visibleAt, clock, log, crashes>>

MarkFails(i, r) ==
  /\ Oldest(i, r)
  /\ stored[i]
  /\ CallFails
  /\ EndCycle(i)
  /\ UNCHANGED <<table, log, crashes>>

(* An instance dies and is started again: its relay starts with a new cycle. *)
Crash(i) ==
  /\ crashes < MaxCrashes
  /\ crashes' = crashes + 1
  /\ EndCycle(i)
  /\ UNCHANGED <<table, log, errors>>

Next ==
  \/ \E r \in Rows : Begin(r) \/ Commit(r) \/ Rollback(r)
  \/ \E i \in Relays : Select(i) \/ Crash(i)
  \/ \E i \in Relays, r \in Rows :
       Publish(i, r) \/ PublishFails(i, r) \/ Mark(i, r) \/ MarkFails(i, r)

Spec == Init /\ [][Next]_vars

(* A relay never stops polling and the calls it makes return; the          *)
(* transactions of the service end one way or the other.                   *)
Cycle(i) ==
  \/ Select(i)
  \/ \E r \in Rows : Publish(i, r) \/ PublishFails(i, r) \/ Mark(i, r)

Fairness == /\ \A i \in Relays : WF_vars(Cycle(i))
            /\ \A r \in Rows : WF_vars(Commit(r) \/ Rollback(r))

FairSpec == Spec /\ Fairness
=============================================================================
