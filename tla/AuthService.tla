----------------------------- MODULE AuthService -----------------------------
(***************************************************************************)
(* The state of auth-service as a whole: sign-up makes the users that log  *)
(* in and keep refresh tokens.  Both share the process, which may crash,   *)
(* and the connection pool, which logouts use up.                          *)
(***************************************************************************)
EXTENDS RefreshTokensProperties

CONSTANTS Addresses, Spellings

ASSUME AnswersAssumption == None \notin {"created", "conflict", "error"}

VARIABLES email, stage, answer, written, accounts, announced

SU == INSTANCE Signup

signupVars == <<email, stage, answer, written, accounts, announced>>
allVars == <<vars, signupVars>>

AuthInit == Init /\ SU!Init

(* GetUserByEmail: a login finds an account whose transaction is committed. *)
LoginOfAccount(u) == u \in accounts /\ Login(u)

TokenStep ==
  /\ \/ \E u \in Users : LoginOfAccount(u) \/ LogoutArrives(u) \/ Logout(u)
     \/ \E r \in Requests, t \in Tokens, f \in Forms : GetRefreshToken(r, t, f)
     \/ \E r \in Requests : RotateRefreshToken(r)
     \/ \E t \in Tokens : Expire(t)
  /\ UNCHANGED signupVars

SignupStep ==
  /\ \E u \in Users : SU!Step(u) \/ (HasConnection /\ SU!Begin(u))
  /\ UNCHANGED vars

AuthNext == TokenStep \/ SignupStep \/ (Crash /\ SU!Crash)

AuthSpec == AuthInit /\ [][AuthNext]_allVars

-----------------------------------------------------------------------------
(* README, Outbox Pattern: "events are written atomically with business    *)
(* data": a user exists exactly if user.registered is on its way, although *)
(* the two are inserted one after the other, whatever call fails between   *)
(* them and whenever the process dies.                                     *)
AccountsAreAnnounced == accounts = announced

(* users.email is UNIQUE: one address has one account, however it is       *)
(* spelled and however many sign-ups of it run at a time.                  *)
OneAccountPerAddress ==
  \A u, v \in accounts : u # v => email[u][1] # email[v][1]

(* Handler.Signup: 201 is answered for an account that exists, 409 only    *)
(* when somebody else's sign-up has taken the address.                     *)
AnswersAreTrue ==
  \A u \in Users :
    /\ answer[u] = "created" => u \in accounts
    /\ answer[u] = "conflict" => /\ u \notin accounts
                                 /\ \E v \in accounts : email[v][1] = email[u][1]

=============================================================================
