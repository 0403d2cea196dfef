------------------------------ MODULE Consumer ------------------------------
(***************************************************************************)
(* A Kafka consumer of one of the services (consumer.go, dlq.go): the loop *)
(* of Start, its retries and its dead-letter topic, with the process it    *)
(* runs in and the offset commits the client library makes in the          *)
(* background.                                                             *)
(*                                                                         *)
(* A poll returns some records; each is handed to the handler up to        *)
(* MaxRetry times, without a pause, and then sent to the DLQ topic; an     *)
(* error of that send is only logged.  A poll that returns errors, or is   *)
(* cancelled by SIGTERM, ends Start.  In payment-service, in               *)
(* notification-service and for the payment.failed consumer of             *)
(* inventory-service that ends the process (log.Fatal); order-service and  *)
(* the order.created consumer of inventory-service run Start as a          *)
(* goroutine and ignore its result, so the process lives on.               *)
(*                                                                         *)
(* Abstracted: one partition and one member per group.  External: the      *)
(* client library commits, in the background, the offsets of the polls     *)
(* before the last one, as its default auto-commit does.                   *)
(***************************************************************************)
EXTENDS Integers, Sequences, FiniteSets

CONSTANTS
  N,              \* records that may be published
  Poison,         \* offsets whose handler never returns nil
  MaxRetry,       \* Consumer.maxRetry, 3 in the code
  FatalOnReturn,  \* whether the process ends when Start returns
  MaxErrors,      \* bound: failed calls and fetches in a behaviour
  MaxStops        \* bound: crashes and SIGTERMs in a behaviour

ASSUME ConsumerAssumption == /\ N \in Nat
                             /\ Poison \subseteq 1..N
                             /\ MaxRetry \in Nat \ {0}
                             /\ FatalOnReturn \in BOOLEAN
                             /\ MaxErrors \in Nat
                             /\ MaxStops \in Nat

VARIABLES
  end,          \* records in the topic: offsets 1..end
  mode,         \* "running", "stopping" (SIGTERM), "returned" or "dead"
  next,         \* records this process has dealt with, counted from offset 1
  fetched,      \* last record of the current poll
  attempt,      \* failed attempts at record next + 1
  committable,  \* offset the client library may commit
  committed,    \* offset stored in Kafka
  runs,         \* history: runs[k] is how often the handler ran on record k
  handled,      \* history: records for which the handler returned nil
  dlq,          \* records sent to the DLQ topic
  dropped,      \* records whose send to the DLQ topic failed
  restarts,     \* history: restarts of the process
  errors,       \* failed calls and fetches so far
  stops         \* crashes and SIGTERMs so far

outcome == <<runs, handled, dlq, dropped>>
budget == <<restarts, errors, stops>>
vars == <<end, mode, next, fetched, attempt, committable, committed, outcome, budget>>

Init ==
  /\ end = 0
  /\ mode = "running"
  /\ next = 0
  /\ fetched = 0
  /\ attempt = 0
  /\ committable = 0
  /\ committed = 0
  /\ runs = [k \in 1..N |-> 0]
  /\ handled = {}
  /\ dlq = {}
  /\ dropped = {}
  /\ restarts = 0
  /\ errors = 0
  /\ stops = 0

CallFails == /\ errors < MaxErrors
             /\ errors' = errors + 1

Looping == mode \in {"running", "stopping"}

(* A relay of another service publishes a record. *)
Produce ==
  /\ end < N
  /\ end' = end + 1
  /\ UNCHANGED <<mode, next, fetched, attempt, committable, committed, outcome, budget>>

-----------------------------------------------------------------------------
(* The loop of Start.                                                      *)

BatchDone == next = fetched

(* Plausible bug: the client is told to commit the records it just handed out. *)
PollCommitsFetched ==
  /\ Looping
  /\ BatchDone
  /\ fetched' \in (next + 1)..end
  /\ committable' = fetched'
  /\ UNCHANGED <<end, mode, next, attempt, committed, outcome, budget>>

(* The next poll; the records of the one before may now be committed.      *)
(* After a SIGTERM a poll still returns what the client has buffered.      *)
Poll ==
  /\ Looping
  /\ BatchDone
  /\ fetched' \in (next + 1)..end
  /\ committable' = next
  /\ UNCHANGED <<end, mode, next, attempt, committed, outcome, budget>>

(* Plausible bug: Start is run as a goroutine whose result nobody reads. *)
ResultIgnored == mode' = "returned"

(* What becomes of the process when Start has returned. *)
AfterReturn == mode' = IF FatalOnReturn THEN "dead" ELSE "returned"

(* The poll returned errors. *)
FetchError ==
  /\ mode = "running"
  /\ BatchDone
  /\ CallFails
  /\ committable' = next
  /\ AfterReturn
  /\ UNCHANGED <<end, next, fetched, attempt, committed, outcome, restarts, stops>>

(* The poll returned the cancellation of the context. *)
ReturnCancelled ==
  /\ mode = "stopping"
  /\ BatchDone
  /\ committable' = next
  /\ AfterReturn
  /\ UNCHANGED <<end, next, fetched, attempt, committed, outcome, budget>>

(* Plausible bug: for attempt := 0; attempt <= c.maxRetry. *)
CanHandleOnceMore == Looping /\ next < fetched /\ attempt <= MaxRetry

(* The for loop over the attempts at the current record. *)
CanHandle == Looping /\ next < fetched /\ attempt < MaxRetry

Run == runs' = [runs EXCEPT ![next + 1] = @ + 1]

MoveOn == next' = next + 1 /\ attempt' = 0

HandlerSucceeds ==
  /\ CanHandle
  /\ next + 1 \notin Poison
  /\ Run
  /\ handled' = handled \cup {next + 1}
  /\ MoveOn
  /\ UNCHANGED <<end, mode, fetched, committable, committed, dlq, dropped, budget>>

HandlerFails ==
  /\ CanHandle
  /\ CallFails \/ (next + 1 \in Poison /\ UNCHANGED errors)
  /\ Run
  /\ attempt' = attempt + 1
  /\ UNCHANGED <<end, mode, next, fetched, committable, committed, handled, dlq, dropped,
                 restarts, stops>>

(* Plausible bug: the first failure is taken for a permanent one. *)
SendToDlqAtOnce ==
  /\ Looping
  /\ attempt >= 1
  /\ dlq' = dlq \cup {next + 1}
  /\ MoveOn
  /\ UNCHANGED <<end, mode, fetched, committable, committed, runs, handled, dropped, budget>>

(* Every attempt failed: the record goes to the DLQ topic and is done. *)
SendToDlq ==
  /\ Looping
  /\ attempt = MaxRetry
  /\ dlq' = dlq \cup {next + 1}
  /\ MoveOn
  /\ UNCHANGED <<end, mode, fetched, committable, committed, runs, handled, dropped, budget>>

(* The send fails -- after a SIGTERM because its context is cancelled --    *)
(* and the error is logged.                                                *)
DlqFails ==
  /\ Looping
  /\ attempt = MaxRetry
  /\ CallFails \/ (mode = "stopping" /\ UNCHANGED errors)
  /\ dropped' = dropped \cup {next + 1}
  /\ MoveOn
  /\ UNCHANGED <<end, mode, fetched, committable, committed, runs, handled, dlq,
                 restarts, stops>>

-----------------------------------------------------------------------------
(* The process and the client library.                                     *)

(* The client library stores what may be committed, also for a process     *)
(* whose Start has returned.                                               *)
AutoCommit ==
  /\ mode # "dead"
  /\ committed < committable
  /\ committed' = committable
  /\ UNCHANGED <<end, mode, next, fetched, attempt, committable, outcome, budget>>

Stop == stops < MaxStops /\ stops' = stops + 1

Sigterm ==
  /\ mode = "running"
  /\ Stop
  /\ mode' = "stopping"
  /\ UNCHANGED <<end, next, fetched, attempt, committable, committed, outcome, restarts, errors>>

Crash ==
  /\ mode # "dead"
  /\ Stop
  /\ mode' = "dead"
  /\ UNCHANGED <<end, next, fetched, attempt, committable, committed, outcome, restarts, errors>>

(* Plausible bug: the consumer starts at the beginning of the topic. *)
RestartFromStart ==
  /\ mode = "dead"
  /\ mode' = "running"
  /\ next' = 0
  /\ fetched' = 0
  /\ attempt' = 0
  /\ committable' = committed
  /\ restarts' = restarts + 1
  /\ UNCHANGED <<end, committed, outcome, errors, stops>>

(* A new process joins the group and resumes from the stored offset. *)
Restart ==
  /\ mode = "dead"
  /\ mode' = "running"
  /\ next' = committed
  /\ fetched' = committed
  /\ attempt' = 0
  /\ committable' = committed
  /\ restarts' = restarts + 1
  /\ UNCHANGED <<end, committed, outcome, errors, stops>>

Loop == Poll \/ ReturnCancelled \/ HandlerSucceeds \/ HandlerFails \/ SendToDlq \/ DlqFails

Next == Produce \/ Loop \/ FetchError \/ AutoCommit \/ Sigterm \/ Crash \/ Restart

Spec == Init /\ [][Next]_vars

(* The goroutine of Start runs, its calls return, and whoever operates the *)
(* service starts a process that has ended again.                          *)
Fairness == WF_vars(Loop) /\ WF_vars(Restart)

FairSpec == Spec /\ Fairness
=============================================================================
