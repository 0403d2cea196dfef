---------------------------- MODULE RefreshTokens ----------------------------
(***************************************************************************)
(* The refresh tokens of auth-service: login issues one, refresh exchanges *)
(* one for another, logout revokes all of the user's (service.go and       *)
(* repository.go of internal/auth).                                        *)
(*                                                                         *)
(* RefreshAccessToken reads the token, decides, and rotates it in a        *)
(* transaction that does not look at the row again, so requests of the     *)
(* same user interleave between the two.  GetRefreshToken looks the token  *)
(* up without its surrounding blanks; RotateRefreshToken does not strip    *)
(* them.  Logout runs its UPDATE with Query and never closes the rows it   *)
(* gets back, so every logout keeps a connection of the pool for ever.     *)
(*                                                                         *)
(* Abstracted: access tokens, which are not stored; passwords; the user    *)
(* rows, which nothing deletes; other users of the connection pool, which  *)
(* give back what they take.                                               *)
(***************************************************************************)
EXTENDS Integers, FiniteSets

CONSTANTS
  Users,
  Tokens,      \* values of refresh tokens; their number bounds a behaviour
  Requests,    \* refresh requests the HTTP server handles at a time
  PoolSize,    \* connections of the pool
  MaxErrors,   \* bound: rotations that fail in a behaviour
  None         \* no user, no token

ASSUME RefreshTokensAssumption ==
  /\ IsFiniteSet(Tokens) /\ IsFiniteSet(Requests)
  /\ PoolSize \in Nat \ {0}
  /\ MaxErrors \in Nat
  /\ None \notin Users /\ None \notin Tokens

(* How a token may be presented: as it was issued, or with blanks about it. *)
Forms == {"exact", "padded"}

VARIABLES
  userOf,      \* refresh_tokens.user_id, None where there is no row
  from,        \* from[t]: the token that t was exchanged for (history)
  revoked,     \* refresh_tokens.revoked
  exchanges,   \* exchanges[t]: exchanges of t, from the first one on that
               \* presented it as it was issued (history)
  expired,     \* tokens whose expires_at has passed
  loggedOut,   \* tokens that a logout revoked (history)
  reading,     \* reading[r]: the token request r has found to be valid
  form,        \* form[r]: how request r presents it, "exact" if it has none
  leaving,     \* users whose logout request is being handled
  leaked,      \* connections that finished logouts hold
  errors       \* failed rotations so far

tableVars   == <<userOf, from, revoked, exchanges>>
requestVars == <<reading, form>>
logoutVars  == <<loggedOut, leaving, leaked>>
vars == <<tableVars, expired, requestVars, logoutVars, errors>>

Init ==
  /\ userOf = [t \in Tokens |-> None]
  /\ from = [t \in Tokens |-> None]
  /\ revoked = {}
  /\ exchanges = [t \in Tokens |-> 0]
  /\ expired = {}
  /\ loggedOut = {}
  /\ reading = [r \in Requests |-> None]
  /\ form = [r \in Requests |-> "exact"]
  /\ leaving = {}
  /\ leaked = 0
  /\ errors = 0

Issued == {t \in Tokens : userOf[t] # None}

(* Any other query waits until the pool has a connection. *)
HasConnection == leaked < PoolSize

(* INSERT of the fresh random token t of user u. *)
Insert(t, u, old) ==
  /\ t \notin Issued
  /\ userOf' = [userOf EXCEPT ![t] = u]
  /\ from' = [from EXCEPT ![t] = old]

(* A failed login leaves nothing, or a row whose token nobody was told. *)
Login(u) ==
  /\ HasConnection
  /\ \E t \in Tokens : Insert(t, u, None)
  /\ UNCHANGED <<revoked, exchanges, expired, requestVars, logoutVars, errors>>

-----------------------------------------------------------------------------
(* POST /auth/refresh                                                      *)

(* Plausible bug: the revoked column is not looked at. *)
ValidUnlessExpired(t) == t \in Issued /\ t \notin expired

Valid(t) == t \in Issued /\ t \notin revoked /\ t \notin expired

(* GetRefreshToken and the checks on its result; a rejected request        *)
(* changes nothing.                                                        *)
GetRefreshToken(r, t, f) ==
  /\ reading[r] = None
  /\ HasConnection
  /\ Valid(t)
  /\ reading' = [reading EXCEPT ![r] = t]
  /\ form' = [form EXCEPT ![r] = f]
  /\ UNCHANGED <<tableVars, expired, logoutVars, errors>>

(* The UPDATE looks for the token as it was presented, and the number of   *)
(* rows it found is not looked at.                                         *)
Revoke(t, f) == revoked' = IF f = "exact" THEN revoked \cup {t} ELSE revoked

Answer(r) == /\ reading' = [reading EXCEPT ![r] = None]
             /\ form' = [form EXCEPT ![r] = "exact"]

(* The transaction that revokes the old token and inserts the new one. *)
Rotated(t, f) ==
  /\ Revoke(t, f)
  /\ \E n \in Tokens : Insert(n, userOf[t], t)
  /\ exchanges' = IF f = "exact" \/ exchanges[t] > 0
                  THEN [exchanges EXCEPT ![t] = @ + 1]
                  ELSE exchanges

(* It commits; or it fails, and a failed COMMIT may have taken effect. *)
RotateRefreshToken(r) ==
  /\ reading[r] # None
  /\ HasConnection
  /\ \/ Rotated(reading[r], form[r]) /\ UNCHANGED errors
     \/ /\ errors < MaxErrors
        /\ errors' = errors + 1
        /\ Rotated(reading[r], form[r]) \/ UNCHANGED tableVars
  /\ Answer(r)
  /\ UNCHANGED <<expired, logoutVars>>

-----------------------------------------------------------------------------
(* POST /auth/logout                                                       *)

LogoutArrives(u) ==
  /\ u \notin leaving
  /\ leaving' = leaving \cup {u}
  /\ UNCHANGED <<tableVars, expired, requestVars, loggedOut, leaked, errors>>

(* UpdateRefreshTokenToExpired: the rows of its Query are never closed. *)
Logout(u) ==
  /\ u \in leaving
  /\ HasConnection
  /\ LET own == {t \in Tokens : userOf[t] = u}
     IN  revoked' = revoked \cup own /\ loggedOut' = loggedOut \cup own
  /\ leaving' = leaving \ {u}
  /\ leaked' = leaked + 1
  /\ UNCHANGED <<userOf, from, exchanges, expired, requestVars, errors>>

-----------------------------------------------------------------------------
Expire(t) ==
  /\ t \in Issued \ expired
  /\ expired' = expired \cup {t}
  /\ UNCHANGED <<tableVars, requestVars, logoutVars, errors>>

(* auth-service dies and is started again: the requests it handled are     *)
(* gone, and so are its connections.                                       *)
Crash ==
  /\ reading' = [r \in Requests |-> None]
  /\ form' = [r \in Requests |-> "exact"]
  /\ leaving' = {}
  /\ leaked' = 0
  /\ UNCHANGED <<tableVars, expired, loggedOut, errors>>

Next ==
  \/ \E u \in Users : Login(u) \/ LogoutArrives(u) \/ Logout(u)
  \/ \E r \in Requests, t \in Tokens, f \in Forms : GetRefreshToken(r, t, f)
  \/ \E r \in Requests : RotateRefreshToken(r)
  \/ \E t \in Tokens : Expire(t)
  \/ Crash

Spec == Init /\ [][Next]_vars

(* The goroutines of the requests that have arrived run. *)
Fairness == /\ \A u \in Users : WF_vars(Logout(u))
            /\ \A r \in Requests : WF_vars(RotateRefreshToken(r))

FairSpec == Spec /\ Fairness
=============================================================================
