------------------------------- MODULE Signup -------------------------------
(***************************************************************************)
(* POST /auth/signup of auth-service: the transaction that writes a user   *)
(* and the event that announces it (CreateUser of handler, service and     *)
(* repository of internal/auth).                                           *)
(*                                                                         *)
(* Every request makes its user a fresh ULID, so the request and the user  *)
(* it may become are one value here.  Two requests may carry one address,  *)
(* spelled alike or not; the UNIQUE constraint on users.email makes the    *)
(* INSERT wait for an open transaction with the same key, and fail when    *)
(* the key is committed.                                                   *)
(*                                                                         *)
(* Abstracted: names, passwords and validation, which reject a request     *)
(* before anything happens; the e-mail rule lets no blanks through, so     *)
(* spellings differ in upper and lower case only.                          *)
(***************************************************************************)
EXTENDS Naturals

CONSTANTS
  Users,      \* sign-up requests, and the users they make
  Addresses,  \* e-mail addresses, in lower case
  Spellings,  \* ways to spell an address
  None        \* no answer

VARIABLES
  email,      \* email[u]: users.email of u, from the time its request arrives
  stage,      \* stage[u]: where the handler is
  answer,     \* answer[u]: the status u is answered, None before
  written,    \* written[u]: what the open transaction of u has inserted
  accounts,   \* rows of users
  announced   \* users with a user.registered row in the outbox

vars == <<email, stage, answer, written, accounts, announced>>

Init ==
  /\ email = [u \in Users |-> None]
  /\ stage = [u \in Users |-> "new"]
  /\ answer = [u \in Users |-> None]
  /\ written = [u \in Users |-> {}]
  /\ accounts = {}
  /\ announced = {}

normalizeEmail(address, spelling) == <<address, CHOOSE s \in Spellings : TRUE>>

Arrive(u) ==
  /\ stage[u] = "new"
  /\ \E a \in Addresses, s \in Spellings : email' = [email EXCEPT ![u] = normalizeEmail(a, s)]
  /\ stage' = [stage EXCEPT ![u] = "begin"]
  /\ UNCHANGED <<answer, written, accounts, announced>>

Goto(u, s) == /\ stage' = [stage EXCEPT ![u] = s]
              /\ UNCHANGED <<email, answer>>

Begin(u) == /\ stage[u] = "begin"
            /\ Goto(u, "user")
            /\ UNCHANGED <<written, accounts, announced>>

(* An INSERT of the transaction: nobody else sees the row before COMMIT. *)
Insert(u, row) == /\ written' = [written EXCEPT ![u] = @ \cup {row}]
                  /\ UNCHANGED <<accounts, announced>>

(* Plausible bug: an open transaction with the same key is not waited for. *)
OpenIgnored(u) == u \notin Users

Taken(u) == \E v \in accounts : email[v] = email[u]
OpenElsewhere(u) == \E v \in Users \ {u} : "user" \in written[v] /\ email[v] = email[u]

InsertUser(u) ==
  /\ stage[u] = "user"
  /\ ~Taken(u)
  /\ ~OpenElsewhere(u)
  /\ Insert(u, "user")
  /\ Goto(u, "event")

(* The transaction is over, one way or the other. *)
Answer(u, a) == /\ stage' = [stage EXCEPT ![u] = "done"]
                /\ answer' = [answer EXCEPT ![u] = a]
                /\ written' = [written EXCEPT ![u] = {}]
                /\ UNCHANGED email

(* 409: the unique violation, known by its code. *)
EmailExists(u) ==
  /\ stage[u] = "user"
  /\ Taken(u)
  /\ Answer(u, "conflict")
  /\ UNCHANGED <<accounts, announced>>

(* Plausible bug: the INSERT runs on the pool instead of the transaction. *)
InsertEventThroughPool(u) ==
  /\ stage[u] = "event"
  /\ announced' = announced \cup {u}
  /\ Goto(u, "commit")
  /\ UNCHANGED <<written, accounts>>

InsertEvent(u) ==
  /\ stage[u] = "event"
  /\ Insert(u, "event")
  /\ Goto(u, "commit")

(* What the transaction has inserted comes into the tables. *)
Committed(u) ==
  /\ accounts' = IF "user" \in written[u] THEN accounts \cup {u} ELSE accounts
  /\ announced' = IF "event" \in written[u] THEN announced \cup {u} ELSE announced

Commit(u) == stage[u] = "commit" /\ Committed(u) /\ Answer(u, "created")

(* Plausible bug: any error of the INSERT is taken for a unique violation. *)
FailsAsConflict(u) ==
  /\ stage[u] \in {"begin", "user", "event", "commit"}
  /\ Answer(u, "conflict")
  /\ UNCHANGED <<accounts, announced>>

(* 500: a call fails; a COMMIT that fails may have taken effect. *)
Fails(u) ==
  /\ stage[u] \in {"begin", "user", "event", "commit"}
  /\ Answer(u, "error")
  /\ UNCHANGED <<accounts, announced>> \/ (stage[u] = "commit" /\ Committed(u))

(* The process dies: PostgreSQL rolls back, nobody is answered. *)
Crash ==
  /\ stage' = [u \in Users |-> IF stage[u] = "new" THEN "new" ELSE "done"]
  /\ written' = [u \in Users |-> {}]
  /\ UNCHANGED <<email, answer, accounts, announced>>

Step(u) == \/ Arrive(u) \/ InsertUser(u) \/ EmailExists(u) \/ InsertEvent(u)
           \/ Commit(u) \/ Fails(u)
=============================================================================
