-------------------------- MODULE ReliabilityProofs --------------------------
(***************************************************************************)
(* Proofs about the reliability patterns of the README: the consumer with  *)
(* its retries and dead-letter queue, the circuit breaker, and the rate    *)
(* limiter.  They are independent of each other.                           *)
(*                                                                         *)
(* Consumer: any number of records, any retry limit, any set of poison     *)
(* records and any number of failures, crashes and restarts, and the       *)
(* refinement of GroupCursor.  Breaker: any number of concurrent callers,  *)
(* any threshold and cooldown.  RateLimiter: any clients, requests, bucket *)
(* size and delays.                                                        *)
(***************************************************************************)
EXTENDS ConsumerProperties, BreakerProperties, RateLimiterProperties, FiniteSetTheorems, TLAPS

-----------------------------------------------------------------------------
(* The Kafka consumer.                                                     *)

(* Multiplication, as far as it is needed.                                 *)

LEMMA OneMoreLife ==
  ASSUME NEW r \in Nat
  PROVE  /\ MaxRetry * r \in Nat
         /\ MaxRetry * (r + 1) = MaxRetry * r + MaxRetry
BY ConsumerAssumption

-----------------------------------------------------------------------------
(* Types and the order of the positions.                                   *)

LEMMA TypeInit == Init => TypeOK
BY ConsumerAssumption DEF Init, TypeOK, Offsets

LEMMA TypeNext == TypeOK /\ [Next]_vars => TypeOK'
<1> SUFFICES ASSUME TypeOK, [Next]_vars PROVE TypeOK'
  OBVIOUS
<1> USE ConsumerAssumption DEF TypeOK, Offsets, outcome, budget
<1>1. CASE Produce
  BY <1>1 DEF Produce
<1>2. CASE Poll
  BY <1>2 DEF Poll, BatchDone
<1>3. CASE ReturnCancelled
  BY <1>3 DEF ReturnCancelled, BatchDone, AfterReturn
<1>4. CASE HandlerSucceeds
  BY <1>4 DEF HandlerSucceeds, CanHandle, Looping, Run, MoveOn
<1>5. CASE HandlerFails
  BY <1>5 DEF HandlerFails, CanHandle, Looping, Run, CallFails
<1>6. CASE SendToDlq
  BY <1>6 DEF SendToDlq, Looping, MoveOn
<1>7. CASE DlqFails
  BY <1>7 DEF DlqFails, Looping, MoveOn, CallFails
<1>8. CASE FetchError
  BY <1>8 DEF FetchError, BatchDone, CallFails, AfterReturn
<1>9. CASE AutoCommit
  BY <1>9 DEF AutoCommit
<1>10. CASE Sigterm \/ Crash
  <2>1. stops' \in Nat /\ mode' \in {"stopping", "dead"}
    BY <1>10 DEF Sigterm, Crash, Stop
  <2>2. UNCHANGED <<end, next, fetched, attempt, committable, committed, outcome, restarts, errors>>
    BY <1>10 DEF Sigterm, Crash
  <2> QED
    BY <2>1, <2>2
<1>11. CASE Restart
  BY <1>11 DEF Restart
<1>12. CASE UNCHANGED vars
  BY <1>12 DEF vars
<1> QED
  BY <1>1, <1>2, <1>3, <1>4, <1>5, <1>6, <1>7, <1>8, <1>9, <1>10, <1>11, <1>12
     DEF Next, Loop

-----------------------------------------------------------------------------
(* The conjuncts of the invariant.                                         *)

(* The position advances only past the record it settles. *)
LEMMA PassedNext ==
  ASSUME TypeOK, PassedIsSettled, [Next]_vars
  PROVE  PassedIsSettled'
<1> USE ConsumerAssumption DEF TypeOK, PassedIsSettled, Settled, outcome, budget
<1>1. CASE HandlerSucceeds
  BY <1>1 DEF HandlerSucceeds, CanHandle, MoveOn
<1>2. CASE SendToDlq
  BY <1>2 DEF SendToDlq, MoveOn
<1>3. CASE DlqFails
  BY <1>3 DEF DlqFails, MoveOn
<1>4. CASE Restart
  BY <1>4 DEF Restart
<1>5. CASE UNCHANGED <<next, handled, dlq, dropped>>
  BY <1>5
<1> QED
  BY <1>1, <1>2, <1>3, <1>4, <1>5
     DEF Next, Loop, Produce, Poll, ReturnCancelled, HandlerFails, FetchError, AutoCommit,
         Sigterm, Crash, vars

(* A run uses up an attempt; a restart grants every record new ones. *)
LEMMA AccountsNext ==
  ASSUME TypeOK, RunsAreAccountedFor, [Next]_vars
  PROVE  RunsAreAccountedFor'
<1> USE ConsumerAssumption DEF outcome, budget
<1> DEFINE life == MaxRetry * restarts
<1>1. life \in Nat /\ MaxRetry * (restarts + 1) = life + MaxRetry
  BY OneMoreLife DEF TypeOK
<1> HIDE DEF life
<1> SUFFICES ASSUME NEW k \in Offsets
             PROVE  runs'[k] <= MaxRetry * restarts'
                      + (IF k <= next' THEN MaxRetry
                         ELSE IF k = next' + 1 THEN attempt' ELSE 0)
  BY DEF RunsAreAccountedFor
<1>2. runs[k] <= life + (IF k <= next THEN MaxRetry ELSE IF k = next + 1 THEN attempt ELSE 0)
  BY DEF RunsAreAccountedFor, life
<1>3. k \in Nat /\ runs[k] \in Nat /\ next \in Nat /\ attempt \in 0..MaxRetry
  BY DEF TypeOK, Offsets
<1>4. CASE HandlerSucceeds
  <2>1. restarts' = restarts /\ next' = next + 1 /\ attempt' = 0 /\ attempt < MaxRetry
    BY <1>4 DEF HandlerSucceeds, MoveOn, CanHandle
  <2>2. runs'[k] = IF k = next + 1 THEN runs[k] + 1 ELSE runs[k]
    BY <1>4 DEF HandlerSucceeds, Run, TypeOK
  <2>3. MaxRetry * restarts' = life
    BY <2>1 DEF life
  <2> QED
    BY <1>1, <1>2, <1>3, <2>1, <2>2, <2>3
<1>5. CASE HandlerFails
  <2>1. restarts' = restarts /\ next' = next /\ attempt' = attempt + 1 /\ attempt < MaxRetry
    BY <1>5 DEF HandlerFails, CanHandle
  <2>2. runs'[k] = IF k = next + 1 THEN runs[k] + 1 ELSE runs[k]
    BY <1>5 DEF HandlerFails, Run, TypeOK
  <2>3. MaxRetry * restarts' = life
    BY <2>1 DEF life
  <2> QED
    BY <1>1, <1>2, <1>3, <2>1, <2>2, <2>3
<1>6. CASE SendToDlq \/ DlqFails
  <2>1. restarts' = restarts /\ next' = next + 1 /\ attempt' = 0 /\ runs' = runs
    BY <1>6 DEF SendToDlq, DlqFails, MoveOn
  <2>2. MaxRetry * restarts' = life
    BY <2>1 DEF life
  <2> QED
    BY <1>1, <1>2, <1>3, <2>1, <2>2
<1>7. CASE Restart
  <2>1. restarts' = restarts + 1 /\ attempt' = 0 /\ runs' = runs /\ next' \in Nat
    BY <1>7 DEF Restart, TypeOK
  <2>2. MaxRetry * restarts' = life + MaxRetry
    BY <1>1, <2>1
  <2> QED
    BY <1>1, <1>2, <1>3, <2>1, <2>2
<1>8. CASE UNCHANGED <<runs, restarts, next, attempt>>
  <2>1. MaxRetry * restarts' = life
    BY <1>8 DEF life
  <2> QED
    BY <1>2, <1>8, <2>1
<1> QED
  BY <1>4, <1>5, <1>6, <1>7, <1>8
     DEF Next, Loop, Produce, Poll, ReturnCancelled, FetchError, AutoCommit, Sigterm, Crash, vars

(* A failed attempt is a run, and a run is never taken back. *)
LEMMA AttemptsNext ==
  ASSUME TypeOK, AttemptsAreRuns, [Next]_vars
  PROVE  AttemptsAreRuns'
<1> USE ConsumerAssumption DEF TypeOK, AttemptsAreRuns, outcome, budget
<1>1. CASE HandlerFails
  BY <1>1 DEF HandlerFails, CanHandle, Run, Offsets
<1>2. CASE HandlerSucceeds \/ SendToDlq \/ DlqFails \/ Restart
  BY <1>2 DEF HandlerSucceeds, SendToDlq, DlqFails, MoveOn, Restart
<1>3. CASE UNCHANGED <<runs, next, attempt>>
  BY <1>3
<1> QED
  BY <1>1, <1>2, <1>3
     DEF Next, Loop, Produce, Poll, ReturnCancelled, FetchError, AutoCommit, Sigterm, Crash, vars

LEMMA RunsGrow ==
  ASSUME TypeOK, [Next]_vars, NEW k \in Offsets
  PROVE  runs[k] \in Nat /\ runs'[k] \in Nat /\ runs'[k] >= runs[k]
<1> USE DEF outcome, budget
<1>1. CASE HandlerSucceeds \/ HandlerFails
  BY <1>1 DEF HandlerSucceeds, HandlerFails, Run, TypeOK
<1>2. CASE UNCHANGED runs
  BY <1>2 DEF TypeOK
<1> QED
  BY <1>1, <1>2
     DEF Next, Loop, Produce, Poll, ReturnCancelled, SendToDlq, DlqFails, FetchError, AutoCommit,
         Sigterm, Crash, Restart, vars

(* Only the record with MaxRetry failed attempts is given up. *)
LEMMA GivenUpNext ==
  ASSUME TypeOK, AttemptsAreRuns, GivenUpOnlyAfterRetries, [Next]_vars
  PROVE  GivenUpOnlyAfterRetries'
<1> USE ConsumerAssumption DEF GivenUpOnlyAfterRetries, outcome, budget
<1>1. CASE SendToDlq \/ DlqFails
  <2>1. runs[next + 1] >= MaxRetry
    BY <1>1 DEF SendToDlq, DlqFails, AttemptsAreRuns
  <2>2. runs' = runs /\ (dlq \cup dropped)' = dlq \cup dropped \cup {next + 1}
    BY <1>1 DEF SendToDlq, DlqFails
  <2> QED
    BY <2>1, <2>2
<1>2. CASE UNCHANGED <<dlq, dropped>>
  <2>1. \A k \in dlq \cup dropped : runs'[k] \in Nat /\ runs[k] \in Nat /\ runs'[k] >= runs[k]
    BY RunsGrow DEF TypeOK
  <2> QED
    BY <1>2, <2>1
<1> QED
  BY <1>1, <1>2
     DEF Next, Loop, Produce, Poll, ReturnCancelled, HandlerSucceeds, HandlerFails, FetchError,
         AutoCommit, Sigterm, Crash, Restart, vars

-----------------------------------------------------------------------------
(* The invariant and what follows from it.                                 *)

LEMMA InvariantInit == Init => ConsumerInvariant
<1> SUFFICES ASSUME Init PROVE ConsumerInvariant
  OBVIOUS
<1>1. TypeOK
  BY TypeInit
<1>2. MaxRetry * restarts \in Nat
  BY OneMoreLife, <1>1 DEF TypeOK
<1>3. RunsAreAccountedFor
  BY <1>2, ConsumerAssumption DEF Init, RunsAreAccountedFor, Offsets
<1> QED
  BY <1>1, <1>3
     DEF Init, ConsumerInvariant, PassedIsSettled, AttemptsAreRuns, GivenUpOnlyAfterRetries

LEMMA InvariantNext == ConsumerInvariant /\ [Next]_vars => ConsumerInvariant'
BY TypeNext, PassedNext, AccountsNext, AttemptsNext, GivenUpNext DEF ConsumerInvariant

(* Consumer.Start: what was passed is settled, runs are bounded by the     *)
(* attempts of each life, and only exhausted records are given up.         *)
THEOREM ConsumerInvariance == Spec => []ConsumerInvariant
BY InvariantInit, InvariantNext, PTL DEF Spec

(* Consumer.Start: the positions stay ordered and typed. *)
THEOREM TypeCorrectness == Spec => []TypeOK
<1>1. ConsumerInvariant => TypeOK
  BY DEF ConsumerInvariant
<1> QED
  BY <1>1, ConsumerInvariance, PTL

(* At least once: a stored offset never covers a record that was neither   *)
(* handled nor given up, whatever crashes, fetch errors and SIGTERMs do.   *)
THEOREM CommittedOffsetsAreSettled == Spec => []CommittedIsSettled
<1>1. ConsumerInvariant => CommittedIsSettled
  BY DEF ConsumerInvariant, PassedIsSettled, CommittedIsSettled, TypeOK
<1> QED
  BY <1>1, ConsumerInvariance, PTL

(* A record is handled at most MaxRetry times per life of the process. *)
THEOREM RetriesAreBounded == Spec => []RetryBudget
<1>1. ConsumerInvariant => RetryBudget
  <2> SUFFICES ASSUME ConsumerInvariant, NEW k \in Offsets
               PROVE  runs[k] <= MaxRetry * (restarts + 1)
    BY DEF RetryBudget
  <2>1. MaxRetry * restarts \in Nat /\ MaxRetry * (restarts + 1) = MaxRetry * restarts + MaxRetry
    BY OneMoreLife DEF ConsumerInvariant, TypeOK
  <2> DEFINE life == MaxRetry * restarts
  <2>2. runs[k] <= life + (IF k <= next THEN MaxRetry ELSE IF k = next + 1 THEN attempt ELSE 0)
    BY DEF ConsumerInvariant, RunsAreAccountedFor
  <2>3. runs[k] \in Nat /\ attempt \in 0..MaxRetry /\ MaxRetry \in Nat
    BY ConsumerAssumption DEF ConsumerInvariant, TypeOK
  <2>4. life \in Nat /\ MaxRetry * (restarts + 1) = life + MaxRetry
    BY <2>1
  <2> HIDE DEF life
  <2> QED
    BY <2>2, <2>3, <2>4
<1> QED
  BY <1>1, ConsumerInvariance, PTL

(* A record reaches the DLQ, or is dropped, only after MaxRetry runs. *)
THEOREM OnlyExhaustedRecordsAreGivenUp == Spec => []GivenUpOnlyAfterRetries
<1>1. ConsumerInvariant => GivenUpOnlyAfterRetries
  BY DEF ConsumerInvariant
<1> QED
  BY <1>1, ConsumerInvariance, PTL

(* The handler never runs again on a record whose offset is stored. *)
THEOREM CommittedRecordsAreNotRunAgain == Spec => NoRunAfterCommit
<1>1. ConsumerInvariant /\ [Next]_vars => [RunsOnCommitted]_vars
  <2> SUFFICES ASSUME ConsumerInvariant, [Next]_vars, NEW k \in 1..committed
               PROVE  runs'[k] = runs[k]
    BY DEF RunsOnCommitted
  <2> USE DEF outcome, budget
  <2>1. k # next + 1
    BY DEF ConsumerInvariant, TypeOK
  <2>2. CASE HandlerSucceeds \/ HandlerFails
    <3>1. Run
      BY <2>2 DEF HandlerSucceeds, HandlerFails
    <3>2. k \in Offsets /\ runs \in [Offsets -> Nat]
      BY ConsumerAssumption DEF ConsumerInvariant, TypeOK, Offsets
    <3>3. runs' = [runs EXCEPT ![next + 1] = runs[next + 1] + 1]
      BY <3>1 DEF Run
    <3> QED
      BY <2>1, <3>2, <3>3
  <2>3. CASE UNCHANGED runs
    BY <2>3
  <2> QED
    BY <2>2, <2>3
       DEF Next, Loop, Produce, Poll, ReturnCancelled, SendToDlq, DlqFails, FetchError, AutoCommit,
           Sigterm, Crash, Restart, vars
<1> QED
  BY <1>1, ConsumerInvariance, PTL DEF Spec, NoRunAfterCommit

-----------------------------------------------------------------------------
(* Refinement of the cursor.                                               *)

LEMMA CursorStep ==
  ASSUME TypeOK, [Next]_vars
  PROVE  [Cursor!Next]_<<next, committed>>
<1> USE DEF Cursor!Next, Cursor!Advance, Cursor!Store, Cursor!FallBack, outcome, budget
<1>1. CASE HandlerSucceeds \/ SendToDlq \/ DlqFails
  BY <1>1 DEF HandlerSucceeds, SendToDlq, DlqFails, MoveOn
<1>2. CASE AutoCommit
  BY <1>2 DEF AutoCommit, TypeOK
<1>3. CASE Restart
  BY <1>3 DEF Restart
<1>4. CASE UNCHANGED <<next, committed>>
  BY <1>4
<1> QED
  BY <1>1, <1>2, <1>3, <1>4
     DEF Next, Loop, Produce, Poll, ReturnCancelled, HandlerFails, FetchError, Sigterm, Crash, vars

(* Consumer.Start with the commits of the client library is the cursor     *)
(* that the saga's consumers are modelled by.                              *)
THEOREM ConsumerImplementsCursor == Spec => ImplementsCursor
<1>1. Init => Cursor!Init
  BY DEF Init, Cursor!Init
<1>2. TypeOK /\ [Next]_vars => [Cursor!Next]_Cursor!cursor
  BY CursorStep DEF Cursor!cursor
<1> QED
  BY <1>1, <1>2, TypeCorrectness, PTL DEF Spec, ImplementsCursor, Cursor!Spec

-----------------------------------------------------------------------------
(* The circuit breaker.                                                    *)

LEMMA BreakerInvariantInit == BreakerInit => BreakerInvariant
BY BreakerAssumption
   DEF BreakerInit, BreakerInvariant, BreakerTypeOK, CountDecidesState, CooledDown

LEMMA BreakerInvariantNext == BreakerInvariant /\ [BreakerNext]_breakerVars => BreakerInvariant'
<1> SUFFICES ASSUME BreakerInvariant, [BreakerNext]_breakerVars PROVE BreakerInvariant'
  OBVIOUS
<1> USE BreakerAssumption
    DEF BreakerInvariant, BreakerTypeOK, CountDecidesState, CooledDown
<1>1. CASE Cool
  BY <1>1 DEF Cool
<1>2. CASE NewProcess
  BY <1>2 DEF NewProcess
<1>3. ASSUME NEW c \in Callers, Enter(c) PROVE BreakerInvariant'
  BY <1>3 DEF Enter
<1>4. ASSUME NEW c \in Callers, Fail(c) PROVE BreakerInvariant'
  <2>1. CASE failureCount + 1 >= Threshold
    BY <1>4, <2>1 DEF Fail
  <2>2. CASE failureCount + 1 < Threshold
    BY <1>4, <2>2 DEF Fail
  <2> QED
    BY <2>1, <2>2
<1>5. ASSUME NEW c \in Callers, Succeed(c) PROVE BreakerInvariant'
  BY <1>5 DEF Succeed
<1>6. CASE UNCHANGED breakerVars
  BY <1>6 DEF breakerVars
<1> QED
  BY <1>1, <1>2, <1>3, <1>4, <1>5, <1>6 DEF BreakerNext, Return

(* Breaker.Execute: state, count and time keep their relation. *)
THEOREM BreakerInvariance == BreakerSpec => []BreakerInvariant
BY BreakerInvariantInit, BreakerInvariantNext, PTL DEF BreakerSpec

(* Breaker.Execute: types. *)
THEOREM BreakerTypeCorrectness == BreakerSpec => []BreakerTypeOK
<1>1. BreakerInvariant => BreakerTypeOK
  BY DEF BreakerInvariant
<1> QED
  BY <1>1, BreakerInvariance, PTL

(* Breaker.Execute: after Threshold failures in a row, the breaker is not  *)
(* closed, for any overlap of calls.                                       *)
THEOREM OutagesAreNoticed == BreakerSpec => []OutageIsNoticed
<1>1. BreakerInvariant => OutageIsNoticed
  BY BreakerAssumption
     DEF BreakerInvariant, BreakerTypeOK, CountDecidesState, OutageIsNoticed
<1> QED
  BY <1>1, BreakerInvariance, PTL

(* Breaker.Execute: unless it is closed, a call starts only a whole        *)
(* cooldown after the last failure.                                        *)
THEOREM TrialsWaitForCooldown == BreakerSpec => TrialsArePaused
<1>1. BreakerInvariant /\ [BreakerNext]_breakerVars => [PausedBeforeTrial]_breakerVars
  <2> SUFFICES ASSUME BreakerInvariant, [BreakerNext]_breakerVars, CallStarts, state # "closed"
               PROVE  CooledDown
    BY DEF PausedBeforeTrial
  <2>1. PICK c \in Callers : Enter(c)
    BY DEF CallStarts, BreakerNext, Cool, NewProcess, Return, Fail, Succeed, breakerVars
  <2> QED
    BY <2>1 DEF Enter, BreakerInvariant, BreakerTypeOK
<1> QED
  BY <1>1, BreakerInvariance, PTL DEF BreakerSpec, TrialsArePaused

-----------------------------------------------------------------------------
(* With one caller, as in payment-service.                                 *)

(* The breaker opens when the only call has returned, and a call that      *)
(* starts leaves it closed or half-open.                                   *)
THEOREM NoCallWhileOpen ==
  ASSUME Cardinality(Callers) = 1
  PROVE  BreakerSpec => []QuietWhileOpen
<1>1. PICK only : Callers = {only}
  BY FS_Singleton, BreakerAssumption
<1>2. BreakerInit => QuietWhileOpen
  BY DEF BreakerInit, QuietWhileOpen
<1>3. BreakerTypeOK /\ QuietWhileOpen /\ [BreakerNext]_breakerVars => QuietWhileOpen'
  <2> SUFFICES ASSUME BreakerTypeOK, QuietWhileOpen, [BreakerNext]_breakerVars PROVE QuietWhileOpen'
    OBVIOUS
  <2> USE DEF QuietWhileOpen, BreakerTypeOK
  <2>1. CASE Cool \/ NewProcess
    BY <2>1 DEF Cool, NewProcess
  <2>2. ASSUME NEW c \in Callers, Enter(c) PROVE QuietWhileOpen'
    BY <2>2 DEF Enter
  <2>3. ASSUME NEW c \in Callers, Return(c) PROVE QuietWhileOpen'
    BY <1>1, <2>3 DEF Return, Fail, Succeed
  <2>4. CASE UNCHANGED breakerVars
    BY <2>4 DEF breakerVars
  <2> QED
    BY <2>1, <2>2, <2>3, <2>4 DEF BreakerNext
<1> QED
  BY <1>2, <1>3, BreakerTypeCorrectness, PTL DEF BreakerSpec

-----------------------------------------------------------------------------
(* The rate limiter.                                                       *)

(* The constants are what their declarations say. *)
LEMMA ConstantFacts ==
  /\ Full \in Nat /\ Cost \in Nat /\ Cost > 0 /\ Cost <= Full
  /\ Grace \in Nat /\ IdleTTL \in Nat /\ Full + Grace <= IdleTTL
  /\ None \notin Clients /\ None \notin Buckets
BY LimiterAssumption

(* What AtMost returns. *)
LEMMA AtMostFacts ==
  ASSUME NEW limit \in Int, NEW n \in Int
  PROVE  /\ AtMost(limit, n) \in Int
         /\ AtMost(limit, n) <= limit /\ AtMost(limit, n) <= n
         /\ AtMost(limit, n) = limit \/ AtMost(limit, n) = n
BY DEF AtMost

(* The worth of a bucket is within its limits, and rises by a tick. *)
LEMMA RefilledFacts ==
  ASSUME LimiterTypeOK, NEW b \in Buckets
  PROVE  /\ tokens[b] \in 0..Full /\ elapsed[b] \in 0..Full
         /\ Refilled(b) \in 0..Full
         /\ Refilled(b) = AtMost(Full, tokens[b] + elapsed[b])
BY ConstantFacts DEF LimiterTypeOK, Refilled, AtMost

(* A free request has no bucket, any other one a bucket and a client. *)
LEMMA PendingFacts ==
  ASSUME LimiterTypeOK, OwnBucket, NEW r \in Requests, pending[r] # None
  PROVE  pending[r] \in Buckets /\ client[r] \in Clients /\ age[r] \in 0..(Grace + 1)
BY DEF LimiterTypeOK, OwnBucket

-----------------------------------------------------------------------------
(* Every client has a full bucket. *)
LEMMA InitInvariant == LimiterInit => LimiterInvariant
<1> SUFFICES ASSUME LimiterInit PROVE LimiterInvariant
  OBVIOUS
<1> USE DEF LimiterInit
<1>1. LimiterTypeOK
  <2>1. /\ 0 \in 0..(IdleTTL + 1) /\ 0 \in 0..(Grace + 1)
        /\ Full \in 0..Full /\ 0 \in 0..Full /\ Full \in Int
    BY ConstantFacts
  <2> QED
    BY <2>1 DEF LimiterTypeOK
<1>2. OwnBucket
  BY DEF OwnBucket
<1>3. YoungRequestsKeepTheirBucket
  BY DEF YoungRequestsKeepTheirBucket
<1>4. DoomedAreIdle
  BY DEF DoomedAreIdle
<1>5. BucketsHoldCredit
  BY ConstantFacts DEF BucketsHoldCredit, AtMost
<1> QED
  BY <1>1, <1>2, <1>3, <1>4, <1>5 DEF LimiterInvariant

-----------------------------------------------------------------------------
(* getLimiter *)
LEMMA GetLimiterStep ==
  ASSUME LimiterInvariant, NEW r \in Requests, NEW c \in Clients, GetLimiter(r, c)
  PROVE  LimiterInvariant'
<1> USE DEF LimiterInvariant
<1>1. PICK b \in Buckets : Entry(c, b) /\ pending' = [pending EXCEPT ![r] = b]
  BY DEF GetLimiter
<1>2. /\ pending[r] = None
      /\ idle' = [idle EXCEPT ![c] = 0]
      /\ doomed' = doomed \ {c}
      /\ client' = [client EXCEPT ![r] = c]
      /\ age' = [age EXCEPT ![r] = 0]
      /\ sweeping' = sweeping /\ credit' = credit /\ slow' = slow
  BY DEF GetLimiter, Seen, historyVars
<1>3. /\ limiters' \in [Clients -> Buckets \cup {None}]
      /\ limiters'[c] = b
      /\ \A d \in Clients : d # c => limiters'[d] = limiters[d]
      /\ \A d \in Clients : limiters[d] # None => limiters'[d] = limiters[d]
  BY <1>1, ConstantFacts DEF Entry, LimiterTypeOK
<1>4. /\ tokens' \in [Buckets -> 0..Full]
      /\ elapsed' \in [Buckets -> 0..Full]
  BY <1>1, ConstantFacts DEF Entry, LimiterTypeOK, NewRateLimiter, bucketVars
<1>5. LimiterTypeOK'
  <2>1. 0 \in 0..(IdleTTL + 1) /\ 0 \in 0..(Grace + 1)
    BY ConstantFacts
  <2> QED
    BY <1>1, <1>2, <1>3, <1>4, <2>1 DEF LimiterTypeOK
<1>6. /\ \A d \in Clients : d # c => limiters[d] # b
      /\ \A s \in Requests : pending[s] = b => client[s] = c
  BY <1>1, ConstantFacts DEF Entry, Unused, OwnBucket
<1>7. OwnBucket'
  <2>1. \A s \in Requests : pending'[s] = None <=> client'[s] = None
    BY <1>1, <1>2, ConstantFacts DEF OwnBucket, LimiterTypeOK
  <2>2. \A d, e \in Clients : d # e /\ limiters'[d] # None => limiters'[d] # limiters'[e]
    BY <1>3, <1>6 DEF OwnBucket
  <2>3. \A s \in Requests : s # r => pending'[s] = pending[s] /\ client'[s] = client[s]
    BY <1>1, <1>2 DEF LimiterTypeOK
  <2>4. pending'[r] = b /\ client'[r] = c
    BY <1>1, <1>2 DEF LimiterTypeOK
  <2>5. \A s \in Requests, d \in Clients :
          pending'[s] # None /\ pending'[s] = limiters'[d] => client'[s] = d
    BY <1>3, <1>6, <2>3, <2>4 DEF OwnBucket
  <2>6. \A s, t \in Requests :
          pending'[s] # None /\ pending'[s] = pending'[t] => client'[s] = client'[t]
    BY <1>6, <2>3, <2>4 DEF OwnBucket
  <2> QED
    BY <2>1, <2>2, <2>5, <2>6 DEF OwnBucket
<1>8. YoungRequestsKeepTheirBucket'
  <2> SUFFICES ASSUME NEW s \in Requests, pending'[s] # None
               PROVE  /\ age'[s] >= AtMost(Grace + 1, idle'[client'[s]])
                      /\ age'[s] <= Grace => pending'[s] = limiters'[client'[s]]
    BY DEF YoungRequestsKeepTheirBucket, AtMost
  <2>1. CASE s = r
    <3>1. pending'[s] = b /\ client'[s] = c /\ age'[s] = 0 /\ idle'[c] = 0
      BY <1>1, <1>2, <2>1 DEF LimiterTypeOK
    <3> QED
      BY <1>3, <3>1, ConstantFacts DEF AtMost
  <2>2. CASE s # r
    <3>1. pending'[s] = pending[s] /\ client'[s] = client[s] /\ age'[s] = age[s]
      BY <1>1, <1>2, <2>2 DEF LimiterTypeOK
    <3>2. client[s] \in Clients /\ age[s] \in 0..(Grace + 1)
      BY <3>1, PendingFacts
    <3>3. idle'[client[s]] = idle[client[s]] \/ idle'[client[s]] = 0
      BY <1>2, <3>2 DEF LimiterTypeOK
    <3>4. age[s] >= AtMost(Grace + 1, idle'[client[s]])
      BY <3>1, <3>2, <3>3, ConstantFacts DEF YoungRequestsKeepTheirBucket, AtMost
    <3>5. age[s] <= Grace => pending[s] = limiters'[client[s]]
      BY <1>3, <3>1, <3>2 DEF YoungRequestsKeepTheirBucket
    <3> QED
      BY <3>1, <3>4, <3>5
  <2> QED
    BY <2>1, <2>2
<1>9. DoomedAreIdle'
  BY <1>2, <1>3 DEF DoomedAreIdle, LimiterTypeOK
<1>10. BucketsHoldCredit'
  <2> DEFINE New(x) == AtMost(Full, tokens'[x] + elapsed'[x])
  <2>1. ASSUME NEW x \in Buckets, x # b \/ limiters[c] # None
        PROVE  New(x) = Refilled(x)
    BY <1>1, <2>1, ConstantFacts DEF Entry, NewRateLimiter, bucketVars, Refilled, LimiterTypeOK
  <2>2. limiters[c] = None => New(b) = Full
    BY <1>1, ConstantFacts DEF Entry, NewRateLimiter, Refilled, LimiterTypeOK, AtMost
  <2>3. ASSUME NEW d \in Clients
        PROVE  IF d \in slow' THEN credit'[d] = 0
               ELSE /\ credit'[d] \in 0..Full
                    /\ credit'[d] >= AtMost(Full, idle'[d] - Grace)
                    /\ IF limiters'[d] = None THEN credit'[d] = Full
                       ELSE credit'[d] = New(limiters'[d])
    <3>1. CASE d \in slow
      BY <1>2, <3>1 DEF BucketsHoldCredit
    <3>2. CASE d \notin slow
      <4>1. /\ credit[d] \in 0..Full
            /\ credit[d] >= AtMost(Full, idle[d] - Grace)
            /\ IF limiters[d] = None THEN credit[d] = Full
               ELSE credit[d] = Refilled(limiters[d])
        BY <3>2 DEF BucketsHoldCredit
      <4>2. idle'[d] = idle[d] \/ idle'[d] = 0
        BY <1>2 DEF LimiterTypeOK
      <4>3. credit[d] >= AtMost(Full, idle'[d] - Grace)
        BY <4>1, <4>2, ConstantFacts DEF AtMost
      <4>4. IF limiters'[d] = None THEN credit[d] = Full
            ELSE credit[d] = New(limiters'[d])
        <5>1. CASE d = c
          BY <1>1, <1>3, <2>1, <2>2, <4>1, <5>1, ConstantFacts DEF Entry
        <5>2. CASE d # c
          <6>1. limiters'[d] = limiters[d] /\ limiters[d] # b /\ limiters[d] \in Buckets \cup {None}
            BY <1>3, <1>6, <5>2 DEF LimiterTypeOK
          <6> QED
            BY <2>1, <4>1, <6>1
        <5> QED
          BY <5>1, <5>2
      <4> QED
        BY <1>2, <3>2, <4>1, <4>3, <4>4
    <3> QED
      BY <3>1, <3>2
  <2>4. ASSUME NEW s \in Requests, pending'[s] # None
        PROVE  credit'[client'[s]] <= New(pending'[s])
    <3>1. CASE s = r
      <4>1. pending'[s] = b /\ client'[s] = c /\ limiters'[c] = b /\ b # None
        BY <1>1, <1>2, <1>3, <3>1, ConstantFacts DEF LimiterTypeOK
      <4>2. tokens'[b] \in 0..Full /\ elapsed'[b] \in 0..Full
        BY <1>4
      <4>3. New(b) \in 0..Full
        BY <4>2, ConstantFacts DEF AtMost
      <4> QED
        BY <2>3, <4>1, <4>3, ConstantFacts
    <3>2. CASE s # r
      <4>1. pending'[s] = pending[s] /\ client'[s] = client[s]
        BY <1>1, <1>2, <3>2 DEF LimiterTypeOK
      <4>2. pending[s] \in Buckets
        BY <2>4, <4>1, PendingFacts
      <4>3. credit[client[s]] <= Refilled(pending[s])
        BY <2>4, <4>1 DEF BucketsHoldCredit
      <4>4. limiters[c] = None => pending[s] # b
        BY <1>1, <4>1, ConstantFacts DEF Entry, Unused
      <4> QED
        BY <1>2, <2>1, <4>1, <4>2, <4>3, <4>4
    <3> QED
      BY <3>1, <3>2
  <2> QED
    BY <2>3, <2>4 DEF BucketsHoldCredit, Refilled
<1> QED
  BY <1>5, <1>7, <1>8, <1>9, <1>10
-----------------------------------------------------------------------------
(* Allow *)

(* When Allow takes n, only its own bucket is worth less, by n.            *)
LEMMA DrawFacts ==
  ASSUME LimiterTypeOK, NEW b \in Buckets, NEW n \in Nat, n <= Refilled(b), Draw(b, n)
  PROVE  /\ tokens' \in [Buckets -> 0..Full]
         /\ elapsed' \in [Buckets -> 0..Full]
         /\ AtMost(Full, tokens'[b] + elapsed'[b]) = Refilled(b) - n
         /\ \A x \in Buckets : x # b => AtMost(Full, tokens'[x] + elapsed'[x]) = Refilled(x)
<1>1. Refilled(b) \in 0..Full
  BY RefilledFacts
<1>2. /\ tokens' = [tokens EXCEPT ![b] = Refilled(b) - n]
      /\ elapsed' = [elapsed EXCEPT ![b] = 0]
  BY DEF Draw
<1>3. Refilled(b) - n \in 0..Full /\ 0 \in 0..Full
  BY <1>1, ConstantFacts
<1>4. tokens'[b] = Refilled(b) - n /\ elapsed'[b] = 0
  BY <1>2 DEF LimiterTypeOK
<1>5. \A x \in Buckets : x # b => tokens'[x] = tokens[x] /\ elapsed'[x] = elapsed[x]
  BY <1>2 DEF LimiterTypeOK
<1>6. AtMost(Full, tokens'[b] + elapsed'[b]) = Refilled(b) - n
  BY <1>3, <1>4, ConstantFacts DEF AtMost
<1> QED
  BY <1>2, <1>3, <1>5, <1>6 DEF LimiterTypeOK, Refilled

(* The end of a request touches neither the entries nor other requests.    *)
LEMMA DoneFacts ==
  ASSUME LimiterInvariant, NEW r \in Requests, Done(r),
         limiters' = limiters, idle' = idle, doomed' = doomed
  PROVE  /\ pending' \in [Requests -> Buckets \cup {None}]
         /\ client' \in [Requests -> Clients \cup {None}]
         /\ age' \in [Requests -> 0..(Grace + 1)]
         /\ \A s \in Requests : pending'[s] # None =>
              s # r /\ pending'[s] = pending[s] /\ client'[s] = client[s] /\ age'[s] = age[s]
         /\ OwnBucket'
         /\ YoungRequestsKeepTheirBucket'
         /\ DoomedAreIdle'
<1> USE DEF LimiterInvariant
<1>1. /\ client' = [client EXCEPT ![r] = None]
      /\ pending' = [pending EXCEPT ![r] = None]
      /\ age' = [age EXCEPT ![r] = 0]
  BY DEF Done
<1>2. 0 \in 0..(Grace + 1)
  BY ConstantFacts
<1>3. /\ pending' \in [Requests -> Buckets \cup {None}]
      /\ client' \in [Requests -> Clients \cup {None}]
      /\ age' \in [Requests -> 0..(Grace + 1)]
  BY <1>1, <1>2 DEF LimiterTypeOK
<1>4. \A s \in Requests : pending'[s] # None =>
        s # r /\ pending'[s] = pending[s] /\ client'[s] = client[s] /\ age'[s] = age[s]
  BY <1>1 DEF LimiterTypeOK
<1>5. \A s \in Requests : pending'[s] = None <=> client'[s] = None
  BY <1>1 DEF LimiterTypeOK, OwnBucket
<1>6. OwnBucket'
  BY <1>4, <1>5 DEF OwnBucket
<1>7. YoungRequestsKeepTheirBucket'
  BY <1>4 DEF YoungRequestsKeepTheirBucket, AtMost
<1>8. DoomedAreIdle'
  BY DEF DoomedAreIdle
<1> QED
  BY <1>3, <1>4, <1>6, <1>7, <1>8

LEMMA RejectStep ==
  ASSUME LimiterInvariant, NEW r \in Requests, Reject(r)
  PROVE  LimiterInvariant'
<1> USE DEF LimiterInvariant
<1> DEFINE New(x) == AtMost(Full, tokens'[x] + elapsed'[x])
<1>1. /\ pending[r] # None /\ Draw(pending[r], 0) /\ Done(r)
      /\ limiters' = limiters /\ idle' = idle
      /\ doomed' = doomed /\ sweeping' = sweeping
      /\ credit' = credit /\ slow' = slow
  BY DEF Reject, entryVars, sweepVars, historyVars
<1>2. pending[r] \in Buckets /\ Refilled(pending[r]) \in 0..Full
  BY <1>1, PendingFacts, RefilledFacts
<1>3. /\ tokens' \in [Buckets -> 0..Full]
      /\ elapsed' \in [Buckets -> 0..Full]
      /\ \A x \in Buckets : New(x) = Refilled(x)
  <2>1. 0 \in Nat /\ 0 <= Refilled(pending[r]) /\ Refilled(pending[r]) - 0 = Refilled(pending[r])
    BY <1>2, ConstantFacts
  <2> QED
    BY <1>1, <1>2, <2>1, DrawFacts
<1>4. /\ pending' \in [Requests -> Buckets \cup {None}]
      /\ client' \in [Requests -> Clients \cup {None}]
      /\ age' \in [Requests -> 0..(Grace + 1)]
      /\ \A s \in Requests : pending'[s] # None =>
           pending'[s] = pending[s] /\ client'[s] = client[s]
      /\ OwnBucket' /\ YoungRequestsKeepTheirBucket' /\ DoomedAreIdle'
  BY <1>1, DoneFacts
<1>5. LimiterTypeOK'
  BY <1>1, <1>3, <1>4 DEF LimiterTypeOK
<1>6. BucketsHoldCredit'
  <2>1. \A c \in Clients : limiters[c] # None => New(limiters[c]) = Refilled(limiters[c])
    BY <1>3 DEF LimiterTypeOK
  <2>2. \A s \in Requests : pending'[s] # None => New(pending'[s]) = Refilled(pending[s])
    BY <1>3, <1>4 DEF LimiterTypeOK
  <2> QED
    BY <1>1, <1>4, <2>1, <2>2 DEF BucketsHoldCredit, Refilled
<1> QED
  BY <1>4, <1>5, <1>6

LEMMA AdmitStep ==
  ASSUME LimiterInvariant, NEW r \in Requests, Admit(r)
  PROVE  LimiterInvariant'
<1> USE DEF LimiterInvariant
<1> DEFINE New(x) == AtMost(Full, tokens'[x] + elapsed'[x])
           b == pending[r]
           c == client[r]
<1>1. /\ b # None /\ Refilled(b) >= Cost /\ Draw(b, Cost) /\ Done(r)
      /\ limiters' = limiters /\ idle' = idle
      /\ doomed' = doomed /\ sweeping' = sweeping
      /\ slow' = IF age[r] > Grace THEN slow \cup {c} ELSE slow
      /\ credit' = [credit EXCEPT ![c] = IF c \in slow' THEN 0 ELSE @ - Cost]
  BY DEF Admit, entryVars, sweepVars
<1>2. b \in Buckets /\ c \in Clients /\ age[r] \in 0..(Grace + 1)
  BY <1>1, PendingFacts
<1>3. Refilled(b) \in 0..Full
  BY <1>2, RefilledFacts
<1>4. /\ tokens' \in [Buckets -> 0..Full]
      /\ elapsed' \in [Buckets -> 0..Full]
      /\ New(b) = Refilled(b) - Cost
      /\ \A x \in Buckets : x # b => New(x) = Refilled(x)
  <2>1. Cost \in Nat /\ Cost <= Refilled(b)
    BY <1>1, <1>3, ConstantFacts
  <2> QED
    BY <1>1, <1>2, <2>1, DrawFacts
<1>5. /\ pending' \in [Requests -> Buckets \cup {None}]
      /\ client' \in [Requests -> Clients \cup {None}]
      /\ age' \in [Requests -> 0..(Grace + 1)]
      /\ \A s \in Requests : pending'[s] # None =>
           pending'[s] = pending[s] /\ client'[s] = client[s]
      /\ OwnBucket' /\ YoungRequestsKeepTheirBucket' /\ DoomedAreIdle'
  BY <1>1, DoneFacts
<1>6. /\ credit'[c] = IF c \in slow' THEN 0 ELSE credit[c] - Cost
      /\ \A d \in Clients : d # c => credit'[d] = credit[d] /\ (d \in slow' <=> d \in slow)
      /\ slow' \subseteq Clients
      /\ credit[c] \in Int
  BY <1>1, <1>2 DEF LimiterTypeOK
<1>7. credit' \in [Clients -> Int]
  <2>1. (IF c \in slow' THEN 0 ELSE credit[c] - Cost) \in Int
    BY <1>6, ConstantFacts
  <2> QED
    BY <1>1, <1>2, <2>1 DEF LimiterTypeOK
<1>8. LimiterTypeOK'
  BY <1>1, <1>4, <1>5, <1>6, <1>7 DEF LimiterTypeOK
<1>9. \A d \in Clients : d # c /\ limiters[d] # None =>
        limiters[d] \in Buckets /\ limiters[d] # b
  BY <1>1, <1>2 DEF OwnBucket, LimiterTypeOK
(* A request that is not held up draws from the bucket of its client.      *)
<1>10. ASSUME c \notin slow'
       PROVE  /\ limiters[c] = b
              /\ credit[c] = Refilled(b)
              /\ idle[c] <= Grace
              /\ c \notin slow
  <2>1. age[r] <= Grace /\ c \notin slow
    BY <1>1, <1>2, <1>10, ConstantFacts
  <2>2. limiters[c] = b /\ age[r] >= AtMost(Grace + 1, idle[c])
    BY <1>1, <2>1 DEF YoungRequestsKeepTheirBucket
  <2>3. idle[c] <= Grace
    BY <1>2, <2>1, <2>2, ConstantFacts DEF AtMost, LimiterTypeOK
  <2> QED
    BY <1>1, <1>2, <2>1, <2>2, <2>3 DEF BucketsHoldCredit
<1>11. ASSUME NEW d \in Clients
       PROVE  IF d \in slow' THEN credit'[d] = 0
              ELSE /\ credit'[d] \in 0..Full
                   /\ credit'[d] >= AtMost(Full, idle[d] - Grace)
                   /\ IF limiters[d] = None THEN credit'[d] = Full
                      ELSE credit'[d] = New(limiters[d])
  <2>1. CASE d # c
    <3>1. limiters[d] # None => New(limiters[d]) = Refilled(limiters[d])
      BY <1>4, <1>9, <2>1
    <3> QED
      BY <1>6, <2>1, <3>1 DEF BucketsHoldCredit
  <2>2. CASE d = c /\ c \in slow'
    BY <1>6, <2>2
  <2>3. CASE d = c /\ c \notin slow'
    <3>1. credit'[c] = New(b) /\ credit'[c] \in 0..Full
      BY <1>1, <1>3, <1>4, <1>6, <1>10, <2>3, ConstantFacts
    <3>2. idle[c] \in Int /\ idle[c] - Grace <= 0
      BY <1>2, <1>10, <2>3, ConstantFacts DEF LimiterTypeOK
    <3>3. AtMost(Full, idle[c] - Grace) <= 0
      BY <3>2, ConstantFacts DEF AtMost
    <3>4. credit'[c] >= AtMost(Full, idle[c] - Grace)
      BY <3>1, <3>2, <3>3, AtMostFacts, ConstantFacts
    <3> QED
      BY <1>1, <1>10, <2>3, <3>1, <3>4
  <2> QED
    BY <2>1, <2>2, <2>3
<1>12. ASSUME NEW s \in Requests, pending'[s] # None
       PROVE  credit'[client'[s]] <= New(pending'[s])
  <2>1. /\ pending'[s] = pending[s] /\ client'[s] = client[s]
        /\ pending[s] \in Buckets /\ client[s] \in Clients
    <3>1. pending'[s] = pending[s] /\ client'[s] = client[s]
      BY <1>5, <1>12
    <3> QED
      BY <1>12, <3>1, PendingFacts
  <2>2. credit[client[s]] <= Refilled(pending[s])
    BY <1>12, <2>1 DEF BucketsHoldCredit
  <2>3. New(pending[s]) \in 0..Full
    <3>1. tokens'[pending[s]] \in 0..Full /\ elapsed'[pending[s]] \in 0..Full
      BY <1>4, <2>1
    <3> QED
      BY <3>1, ConstantFacts DEF AtMost
  <2>4. CASE client[s] # c
    <3>1. pending[s] # b
      BY <1>1, <1>12, <2>1, <2>4 DEF OwnBucket
    <3> QED
      BY <1>4, <1>6, <2>1, <2>2, <2>4, <3>1
  <2>5. CASE client[s] = c /\ c \in slow'
    BY <1>6, <2>1, <2>3, <2>5, ConstantFacts
  <2>6. CASE client[s] = c /\ c \notin slow'
    <3>1. credit'[c] = credit[c] - Cost
      BY <1>6, <2>6
    <3>2. New(pending[s]) >= Refilled(pending[s]) - Cost
      <4>1. Refilled(pending[s]) \in 0..Full
        BY <2>1, RefilledFacts
      <4> QED
        BY <1>3, <1>4, <2>1, <4>1, ConstantFacts
    <3>3. Refilled(pending[s]) \in 0..Full
      BY <2>1, RefilledFacts
    <3> QED
      BY <1>6, <2>1, <2>2, <2>3, <2>6, <3>1, <3>2, <3>3, ConstantFacts
  <2> QED
    BY <2>4, <2>5, <2>6
<1>13. BucketsHoldCredit'
  BY <1>1, <1>11, <1>12 DEF BucketsHoldCredit, Refilled
<1> QED
  BY <1>5, <1>8, <1>13

-----------------------------------------------------------------------------
(* cleanupLoop and the passing of time *)

LEMMA CutoffStep ==
  ASSUME LimiterInvariant, Cutoff
  PROVE  LimiterInvariant'
<1> USE DEF LimiterInvariant
<1>1. /\ sweeping' = TRUE /\ doomed' = {c \in Clients : BeforeCutoff(c)}
      /\ limiters' = limiters /\ idle' = idle /\ tokens' = tokens /\ elapsed' = elapsed
      /\ client' = client /\ pending' = pending /\ age' = age
      /\ credit' = credit /\ slow' = slow
  BY DEF Cutoff, entryVars, bucketVars, requestVars, historyVars
<1>2. LimiterTypeOK'
  BY <1>1 DEF LimiterTypeOK
<1>3. OwnBucket'
  BY <1>1 DEF OwnBucket
<1>4. YoungRequestsKeepTheirBucket'
  BY <1>1 DEF YoungRequestsKeepTheirBucket
<1>5. DoomedAreIdle'
  BY <1>1 DEF DoomedAreIdle, BeforeCutoff
<1>6. BucketsHoldCredit'
  BY <1>1 DEF BucketsHoldCredit, Refilled
<1> QED
  BY <1>2, <1>3, <1>4, <1>5, <1>6

(* Who has been idle for longer than IdleTTL has a full bucket, and no     *)
(* request that is still young.                                            *)
LEMMA DoomedFacts ==
  ASSUME LimiterInvariant, NEW c \in doomed
  PROVE  /\ c \in Clients
         /\ c \notin slow => credit[c] = Full
         /\ \A r \in Requests : pending[r] # None /\ client[r] = c => age[r] > Grace
<1> USE DEF LimiterInvariant
<1>1. c \in Clients /\ idle[c] > IdleTTL /\ idle[c] \in Int
  BY DEF DoomedAreIdle, LimiterTypeOK
<1>2. idle[c] - Grace >= Full /\ idle[c] >= Grace + 1
  BY <1>1, ConstantFacts
<1>3. c \notin slow => credit[c] = Full
  BY <1>1, <1>2, ConstantFacts DEF BucketsHoldCredit, AtMost
<1>4. ASSUME NEW r \in Requests, pending[r] # None, client[r] = c
      PROVE  age[r] > Grace
  <2>1. age[r] >= AtMost(Grace + 1, idle[c]) /\ age[r] \in 0..(Grace + 1)
    BY <1>4, PendingFacts DEF YoungRequestsKeepTheirBucket
  <2> QED
    BY <1>1, <1>2, <2>1, ConstantFacts DEF AtMost
<1> QED
  BY <1>1, <1>3, <1>4

LEMMA SweepStep ==
  ASSUME LimiterInvariant, Sweep
  PROVE  LimiterInvariant'
<1> USE DEF LimiterInvariant
<1>1. /\ sweeping' = FALSE /\ doomed' = {}
      /\ limiters' = [c \in Clients |-> IF c \in doomed THEN None ELSE limiters[c]]
      /\ idle' = idle /\ tokens' = tokens /\ elapsed' = elapsed
      /\ client' = client /\ pending' = pending /\ age' = age
      /\ credit' = credit /\ slow' = slow
  BY DEF Sweep, bucketVars, requestVars, historyVars
<1>2. LimiterTypeOK'
  BY <1>1 DEF LimiterTypeOK
<1>3. OwnBucket'
  BY <1>1, ConstantFacts DEF OwnBucket, LimiterTypeOK
<1>4. YoungRequestsKeepTheirBucket'
  <2> SUFFICES ASSUME NEW r \in Requests, pending[r] # None
               PROVE  /\ age[r] >= AtMost(Grace + 1, idle[client[r]])
                      /\ age[r] <= Grace => pending[r] = limiters'[client[r]]
    BY <1>1 DEF YoungRequestsKeepTheirBucket
  <2>1. client[r] \in Clients /\ age[r] \in 0..(Grace + 1)
    BY PendingFacts
  <2>2. client[r] \in doomed => age[r] > Grace
    BY DoomedFacts
  <2>3. age[r] <= Grace => client[r] \notin doomed
    BY <2>1, <2>2, ConstantFacts
  <2> QED
    BY <1>1, <2>1, <2>3 DEF YoungRequestsKeepTheirBucket
<1>5. DoomedAreIdle'
  BY <1>1 DEF DoomedAreIdle
<1>6. BucketsHoldCredit'
  <2>1. \A c \in Clients : limiters'[c] = IF c \in doomed THEN None ELSE limiters[c]
    BY <1>1
  <2>2. \A c \in doomed : c \notin slow => credit[c] = Full
    BY DoomedFacts
  <2> QED
    BY <1>1, <2>1, <2>2, ConstantFacts DEF BucketsHoldCredit, Refilled, LimiterTypeOK
<1> QED
  BY <1>2, <1>3, <1>4, <1>5, <1>6

LEMMA TickStep ==
  ASSUME LimiterInvariant, Tick
  PROVE  LimiterInvariant'
<1> USE DEF LimiterInvariant
<1> DEFINE New(x) == AtMost(Full, tokens'[x] + elapsed'[x])
<1>1. /\ idle' = [c \in Clients |-> AtMost(IdleTTL + 1, idle[c] + 1)]
      /\ elapsed' = [b \in Buckets |-> AtMost(Full, elapsed[b] + 1)]
      /\ age' = [r \in Requests |-> IF pending[r] = None THEN 0
                                    ELSE AtMost(Grace + 1, age[r] + 1)]
      /\ credit' = [c \in Clients |-> IF c \in slow THEN 0 ELSE AtMost(Full, credit[c] + 1)]
      /\ limiters' = limiters /\ tokens' = tokens /\ doomed' = doomed /\ sweeping' = sweeping
      /\ client' = client /\ pending' = pending /\ slow' = slow
  BY DEF Tick, sweepVars
<1>2. LimiterTypeOK'
  <2>1. \A c \in Clients : AtMost(IdleTTL + 1, idle[c] + 1) \in 0..(IdleTTL + 1)
    BY ConstantFacts DEF LimiterTypeOK, AtMost
  <2>2. \A b \in Buckets : AtMost(Full, elapsed[b] + 1) \in 0..Full
    BY ConstantFacts DEF LimiterTypeOK, AtMost
  <2>3. \A r \in Requests : AtMost(Grace + 1, age[r] + 1) \in 0..(Grace + 1)
    BY ConstantFacts DEF LimiterTypeOK, AtMost
  <2>4. 0 \in 0..(Grace + 1) /\ 0 \in Int
    BY ConstantFacts
  <2>5. \A c \in Clients : AtMost(Full, credit[c] + 1) \in Int
    BY ConstantFacts DEF LimiterTypeOK, AtMost
  <2>6. age' \in [Requests -> 0..(Grace + 1)] /\ credit' \in [Clients -> Int]
    BY <1>1, <2>3, <2>4, <2>5
  <2> QED
    BY <1>1, <2>1, <2>2, <2>6 DEF LimiterTypeOK
<1>3. OwnBucket'
  BY <1>1 DEF OwnBucket
<1>4. YoungRequestsKeepTheirBucket'
  <2> SUFFICES ASSUME NEW r \in Requests, pending[r] # None
               PROVE  /\ age'[r] >= AtMost(Grace + 1, idle'[client[r]])
                      /\ age'[r] <= Grace => pending[r] = limiters[client[r]]
    BY <1>1 DEF YoungRequestsKeepTheirBucket
  <2>1. client[r] \in Clients /\ age[r] \in 0..(Grace + 1)
    BY PendingFacts
  <2>2. idle[client[r]] \in Int
    BY <2>1 DEF LimiterTypeOK
  <2>3. /\ age'[r] = AtMost(Grace + 1, age[r] + 1)
        /\ idle'[client[r]] = AtMost(IdleTTL + 1, idle[client[r]] + 1)
    BY <1>1, <2>1
  <2>4. /\ age[r] >= AtMost(Grace + 1, idle[client[r]])
        /\ age[r] <= Grace => pending[r] = limiters[client[r]]
    BY DEF YoungRequestsKeepTheirBucket
  <2>5. age'[r] >= AtMost(Grace + 1, idle'[client[r]])
    BY <2>1, <2>2, <2>3, <2>4, ConstantFacts DEF AtMost
  <2>6. age'[r] <= Grace => age[r] <= Grace
    BY <2>1, <2>3, ConstantFacts DEF AtMost
  <2> QED
    BY <2>4, <2>5, <2>6
<1>5. DoomedAreIdle'
  <2> SUFFICES ASSUME NEW c \in doomed PROVE limiters[c] # None /\ idle'[c] > IdleTTL
    BY <1>1 DEF DoomedAreIdle
  <2>1. c \in Clients /\ limiters[c] # None /\ idle[c] > IdleTTL /\ idle[c] \in Int
    BY DEF DoomedAreIdle, LimiterTypeOK
  <2> QED
    BY <1>1, <2>1, ConstantFacts DEF AtMost
<1>6. ASSUME NEW b \in Buckets PROVE New(b) = AtMost(Full, Refilled(b) + 1)
  <2>1. tokens[b] \in 0..Full /\ elapsed[b] \in 0..Full
    BY RefilledFacts
  <2>2. tokens'[b] = tokens[b] /\ elapsed'[b] = AtMost(Full, elapsed[b] + 1)
    BY <1>1
  <2> QED
    BY <2>1, <2>2, ConstantFacts DEF Refilled, AtMost
<1>7. ASSUME NEW c \in Clients, c \notin slow
      PROVE  /\ credit'[c] \in 0..Full
             /\ credit'[c] >= AtMost(Full, idle'[c] - Grace)
             /\ IF limiters[c] = None THEN credit'[c] = Full
                ELSE credit'[c] = New(limiters[c])
  <2>1. /\ credit[c] \in 0..Full
        /\ credit[c] >= AtMost(Full, idle[c] - Grace)
        /\ IF limiters[c] = None THEN credit[c] = Full
           ELSE credit[c] = Refilled(limiters[c])
    BY <1>7 DEF BucketsHoldCredit
  <2>2. /\ credit'[c] = AtMost(Full, credit[c] + 1)
        /\ idle'[c] = AtMost(IdleTTL + 1, idle[c] + 1)
    BY <1>1, <1>7
  <2>3. idle[c] \in Int
    BY DEF LimiterTypeOK
  <2>4. credit'[c] \in 0..Full
    BY <2>1, <2>2, ConstantFacts DEF AtMost
  <2>5. credit'[c] >= AtMost(Full, idle'[c] - Grace)
    BY <2>1, <2>2, <2>3, ConstantFacts DEF AtMost
  <2>6. limiters[c] = None => credit'[c] = Full
    BY <2>1, <2>2, ConstantFacts DEF AtMost
  <2>7. limiters[c] # None => credit'[c] = New(limiters[c])
    BY <1>6, <2>1, <2>2 DEF LimiterTypeOK
  <2> QED
    BY <2>4, <2>5, <2>6, <2>7
<1>8. ASSUME NEW r \in Requests, pending[r] # None
      PROVE  credit'[client[r]] <= New(pending[r])
  <2>1. pending[r] \in Buckets /\ client[r] \in Clients
    BY <1>8, PendingFacts
  <2>2. Refilled(pending[r]) \in 0..Full /\ credit[client[r]] <= Refilled(pending[r])
    BY <1>8, <2>1, RefilledFacts DEF BucketsHoldCredit
  <2>3. New(pending[r]) = AtMost(Full, Refilled(pending[r]) + 1)
    BY <1>6, <2>1
  <2>4. CASE client[r] \in slow
    BY <1>1, <2>1, <2>2, <2>3, <2>4, ConstantFacts DEF AtMost
  <2>5. CASE client[r] \notin slow
    <3>1. credit'[client[r]] = AtMost(Full, credit[client[r]] + 1) /\ credit[client[r]] \in Int
      BY <1>1, <2>1, <2>5 DEF LimiterTypeOK
    <3> QED
      BY <2>2, <2>3, <3>1, ConstantFacts DEF AtMost
  <2> QED
    BY <2>4, <2>5
<1>9. BucketsHoldCredit'
  <2>1. \A c \in Clients : c \in slow => credit'[c] = 0
    BY <1>1
  <2> QED
    BY <1>1, <1>7, <1>8, <2>1 DEF BucketsHoldCredit, Refilled
<1> QED
  BY <1>2, <1>3, <1>4, <1>5, <1>9

-----------------------------------------------------------------------------
(* getLimiter, Allow and cleanupLoop keep LimiterInvariant.                *)
THEOREM LimiterInvariance == LimiterSpec => []LimiterInvariant
<1>1. LimiterInvariant /\ [LimiterNext]_limiterVars => LimiterInvariant'
  <2> SUFFICES ASSUME LimiterInvariant, [LimiterNext]_limiterVars
               PROVE  LimiterInvariant'
    OBVIOUS
  <2>1. CASE \E r \in Requests : \/ \E c \in Clients : GetLimiter(r, c)
                                 \/ Admit(r)
                                 \/ Reject(r)
    BY <2>1, GetLimiterStep, AdmitStep, RejectStep
  <2>2. CASE Cutoff
    BY <2>2, CutoffStep
  <2>3. CASE Sweep
    BY <2>3, SweepStep
  <2>4. CASE Tick
    BY <2>4, TickStep
  <2>5. CASE UNCHANGED limiterVars
    <3>1. /\ limiters' = limiters /\ idle' = idle /\ tokens' = tokens /\ elapsed' = elapsed
          /\ doomed' = doomed /\ sweeping' = sweeping /\ client' = client
          /\ pending' = pending /\ age' = age /\ credit' = credit /\ slow' = slow
      BY <2>5 DEF limiterVars, entryVars, bucketVars, sweepVars, requestVars, historyVars
    <3>2. LimiterTypeOK'
      BY <3>1 DEF LimiterInvariant, LimiterTypeOK
    <3>3. OwnBucket' /\ YoungRequestsKeepTheirBucket' /\ DoomedAreIdle'
      BY <3>1 DEF LimiterInvariant, OwnBucket, YoungRequestsKeepTheirBucket, DoomedAreIdle
    <3>4. BucketsHoldCredit'
      BY <3>1 DEF LimiterInvariant, BucketsHoldCredit, Refilled
    <3> QED
      BY <3>2, <3>3, <3>4 DEF LimiterInvariant
  <2> QED
    BY <2>1, <2>2, <2>3, <2>4, <2>5 DEF LimiterNext
<1> QED
  BY InitInvariant, <1>1, PTL DEF LimiterSpec

(* Allow: what is admitted of a client stays within one bucket and its     *)
(* refill, for any number of clients, requests and clean-ups.              *)
THEOREM TheLimitHolds == LimiterSpec => []LimitHolds
<1>1. LimiterInvariant => LimitHolds
  BY ConstantFacts DEF LimiterInvariant, BucketsHoldCredit, LimitHolds
<1> QED
  BY <1>1, LimiterInvariance, PTL

(* Allow: whoever is rejected has no credit left, for any number of        *)
(* clients, requests and clean-ups.                                        *)
THEOREM OnlyTheLimitRejects == LimiterSpec => NobodyIsRejectedEarly
<1>1. LimiterInvariant => [RejectsOnlyOverLimit]_limiterVars
  <2> SUFFICES ASSUME LimiterInvariant, NEW r \in Requests, Reject(r)
               PROVE  credit[client[r]] < Cost
    BY DEF RejectsOnlyOverLimit
  <2>1. pending[r] # None /\ Refilled(pending[r]) < Cost
    BY DEF Reject
  <2>2. pending[r] \in Buckets /\ client[r] \in Clients
    BY <2>1, PendingFacts DEF LimiterInvariant
  <2>3. Refilled(pending[r]) \in Int /\ credit[client[r]] \in Int
    BY <2>2, RefilledFacts, ConstantFacts DEF LimiterInvariant, LimiterTypeOK
  <2>4. credit[client[r]] <= Refilled(pending[r])
    BY <2>1 DEF LimiterInvariant, BucketsHoldCredit
  <2> QED
    BY <2>1, <2>3, <2>4, ConstantFacts
<1> QED
  BY <1>1, LimiterInvariance, PTL DEF NobodyIsRejectedEarly
=============================================================================
