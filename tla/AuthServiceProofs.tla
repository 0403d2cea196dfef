-------------------------- MODULE AuthServiceProofs --------------------------
(***************************************************************************)
(* Proofs about auth-service for any number of users, tokens and           *)
(* concurrent requests: the exchange of refresh tokens, however they are   *)
(* presented, signing out, and sign-up.                                    *)
(***************************************************************************)
EXTENDS AuthService, FiniteSetTheorems, TLAPS

-----------------------------------------------------------------------------
(* Types.                                                                  *)

LEMMA TypeInit == Init => TypeOK
BY RefreshTokensAssumption DEF Init, TypeOK, Issued, Forms

(* The INSERT keeps the table in shape, if the new row belongs to the user *)
(* of the token it replaces.                                               *)
LEMMA InsertTable ==
  ASSUME TypeOK, NEW t \in Tokens, NEW u \in Users, NEW old \in Issued \cup {None},
         old # None => userOf[old] = u, Insert(t, u, old)
  PROVE  /\ userOf' \in [Tokens -> Users \cup {None}]
         /\ from' \in [Tokens -> Tokens \cup {None}]
         /\ Issued' = Issued \cup {t}
         /\ \A n \in Tokens : from'[n] # None => /\ n \in Issued' /\ from'[n] \in Issued'
                                                 /\ userOf'[n] = userOf'[from'[n]]
<1>1. /\ userOf' = [userOf EXCEPT ![t] = u] /\ from' = [from EXCEPT ![t] = old]
      /\ t \notin Issued
  BY DEF Insert
<1>2. /\ userOf' \in [Tokens -> Users \cup {None}]
      /\ from' \in [Tokens -> Tokens \cup {None}]
  BY <1>1 DEF TypeOK, Issued
<1>3. Issued' = Issued \cup {t}
  BY <1>1, RefreshTokensAssumption DEF TypeOK, Issued
<1>4. ASSUME NEW n \in Tokens, from'[n] # None
      PROVE  n \in Issued' /\ from'[n] \in Issued' /\ userOf'[n] = userOf'[from'[n]]
  <2>1. CASE n = t
    BY <1>1, <1>3, <1>4, <2>1 DEF TypeOK, Issued
  <2>2. CASE n # t
    BY <1>1, <1>3, <1>4, <2>2 DEF TypeOK
  <2> QED
    BY <2>1, <2>2
<1> QED
  BY <1>2, <1>3, <1>4

LEMMA TypeNext == TypeOK /\ [Next]_vars => TypeOK'
<1> SUFFICES ASSUME TypeOK, [Next]_vars PROVE TypeOK'
  OBVIOUS
<1> USE RefreshTokensAssumption DEF tableVars, requestVars, logoutVars
<1>1. ASSUME NEW u \in Users, Login(u) PROVE TypeOK'
  <2>1. PICK t \in Tokens : Insert(t, u, None)
    BY <1>1 DEF Login
  <2>2. UNCHANGED <<revoked, exchanges, expired, requestVars, logoutVars, errors>>
    BY <1>1 DEF Login
  <2>3. Issued \subseteq Issued'
    BY <2>1, InsertTable
  <2> QED
    BY <2>1, <2>2, <2>3, InsertTable DEF TypeOK
<1>2. ASSUME NEW r \in Requests, NEW t \in Tokens, NEW f \in Forms, GetRefreshToken(r, t, f)
      PROVE  TypeOK'
  BY <1>2 DEF GetRefreshToken, Valid, TypeOK, Issued
<1>3. ASSUME NEW r \in Requests, RotateRefreshToken(r) PROVE TypeOK'
  <2>1. reading[r] \in Issued /\ form[r] \in Forms /\ userOf[reading[r]] \in Users
    BY <1>3 DEF RotateRefreshToken, TypeOK, Issued
  <2>2. /\ reading' = [reading EXCEPT ![r] = None]
        /\ form' \in [Requests -> Forms]
        /\ UNCHANGED <<expired, logoutVars>>
        /\ errors' \in Nat
    BY <1>3 DEF RotateRefreshToken, Answer, TypeOK, Forms
  <2>3. CASE Rotated(reading[r], form[r])
    <3>1. PICK n \in Tokens : Insert(n, userOf[reading[r]], reading[r])
      BY <2>3 DEF Rotated
    <3>2. revoked' \subseteq revoked \cup {reading[r]} /\ revoked \subseteq revoked'
      BY <2>3 DEF Rotated, Revoke
    <3>3. /\ userOf' \in [Tokens -> Users \cup {None}]
          /\ from' \in [Tokens -> Tokens \cup {None}]
          /\ Issued' = Issued \cup {n}
          /\ \A t \in Tokens : from'[t] # None => /\ t \in Issued' /\ from'[t] \in Issued'
                                                  /\ userOf'[t] = userOf'[from'[t]]
      BY <2>1, <3>1, InsertTable
    <3>4. /\ revoked' \subseteq Issued' /\ expired' \subseteq Issued'
          /\ loggedOut' \subseteq revoked'
      BY <2>1, <2>2, <3>2, <3>3 DEF TypeOK
    <3>5. reading' \in [Requests -> Issued' \cup {None}]
      BY <2>2, <3>3 DEF TypeOK
    <3>6. exchanges' \in [Tokens -> Nat]
      BY <2>1, <2>3 DEF Rotated, TypeOK, Issued
    <3> QED
      BY <2>2, <3>3, <3>4, <3>5, <3>6 DEF TypeOK
  <2>4. CASE UNCHANGED tableVars
    BY <2>2, <2>4 DEF TypeOK, Issued
  <2> QED
    BY <1>3, <2>3, <2>4 DEF RotateRefreshToken
<1>4. ASSUME NEW u \in Users, LogoutArrives(u) PROVE TypeOK'
  BY <1>4 DEF LogoutArrives, TypeOK, Issued
<1>5. ASSUME NEW u \in Users, Logout(u) PROVE TypeOK'
  <2>1. /\ revoked' = revoked \cup {t \in Tokens : userOf[t] = u}
        /\ loggedOut' = loggedOut \cup {t \in Tokens : userOf[t] = u}
        /\ leaving' = leaving \ {u} /\ leaked' = leaked + 1 /\ leaked < PoolSize
        /\ UNCHANGED <<userOf, from, exchanges, expired, requestVars, errors>>
    BY <1>5 DEF Logout, HasConnection
  <2>2. Issued' = Issued
    BY <2>1 DEF Issued
  <2>3. revoked' \subseteq Issued /\ loggedOut' \subseteq revoked'
    BY <2>1 DEF TypeOK, Issued
  <2> QED
    BY <2>1, <2>2, <2>3 DEF TypeOK
<1>6. ASSUME NEW t \in Tokens, Expire(t) PROVE TypeOK'
  BY <1>6 DEF Expire, TypeOK, Issued
<1>7. CASE Crash
  BY <1>7 DEF Crash, TypeOK, Issued, Forms
<1>8. CASE UNCHANGED vars
  BY <1>8 DEF vars, TypeOK, Issued
<1> QED
  BY <1>1, <1>2, <1>3, <1>4, <1>5, <1>6, <1>7, <1>8 DEF Next

-----------------------------------------------------------------------------
(* Exchanges.                                                              *)

(* What one exchange of a token does to its row and to its count. *)
LEMMA ExchangeOfOne ==
  ASSUME TypeOK, NEW r \in Requests, reading[r] # None, Rotated(reading[r], form[r]),
         NEW t \in Tokens
  PROVE  /\ revoked \subseteq revoked'
         /\ t # reading[r] => exchanges'[t] = exchanges[t]
         /\ t = reading[r] => \/ exchanges[t] = 0 /\ exchanges'[t] = 0
                              \/ exchanges[t] > 0 /\ exchanges'[t] = exchanges[t] + 1
                              \/ exchanges[t] = 0 /\ exchanges'[t] = 1 /\ t \in revoked'
<1>1. revoked \subseteq revoked'
  BY DEF Rotated, Revoke
<1>2. reading[r] \in Tokens /\ form[r] \in Forms /\ exchanges \in [Tokens -> Nat]
  BY DEF TypeOK, Issued
<1>3. CASE form[r] = "exact" \/ exchanges[reading[r]] > 0
  <2>1. exchanges' = [exchanges EXCEPT ![reading[r]] = @ + 1]
    BY <1>3 DEF Rotated
  <2>2. form[r] = "exact" => reading[r] \in revoked'
    BY DEF Rotated, Revoke
  <2> QED
    BY <1>1, <1>2, <1>3, <2>1, <2>2
<1>4. CASE ~(form[r] = "exact" \/ exchanges[reading[r]] > 0)
  <2>1. exchanges' = exchanges
    BY <1>4 DEF Rotated
  <2> QED
    BY <1>1, <1>2, <1>4, <2>1
<1> QED
  BY <1>3, <1>4

(* A token that has been exchanged as it was issued gains no readers, and  *)
(* each exchange from that one on takes away one of those it has.          *)
LEMMA ExchangeStep ==
  ASSUME TypeOK, ExchangedIsRevoked, [Next]_vars, NEW t \in Tokens
  PROVE  /\ exchanges'[t] > 0 => t \in revoked'
         /\ \/ exchanges'[t] = 0
            \/ /\ exchanges[t] > 0 /\ exchanges'[t] = exchanges[t]
               /\ Readers(t)' \subseteq Readers(t)
            \/ \E r \in Readers(t) : /\ exchanges'[t] = exchanges[t] + 1
                                     /\ Readers(t)' \subseteq Readers(t) \ {r}
<1> USE RefreshTokensAssumption DEF tableVars, requestVars, logoutVars
<1> DEFINE G == /\ exchanges'[t] > 0 => t \in revoked'
                /\ \/ exchanges'[t] = 0
                   \/ /\ exchanges[t] > 0 /\ exchanges'[t] = exchanges[t]
                      /\ Readers(t)' \subseteq Readers(t)
                   \/ \E r \in Readers(t) : /\ exchanges'[t] = exchanges[t] + 1
                                            /\ Readers(t)' \subseteq Readers(t) \ {r}
<1>1. exchanges[t] \in Nat
  BY DEF TypeOK
<1>2. ASSUME exchanges' = exchanges, revoked \subseteq revoked',
             \A r \in Requests : reading'[r] = t => reading[r] = t \/ t \notin revoked
      PROVE  G
  <2>1. exchanges[t] > 0 => t \in revoked
    BY DEF ExchangedIsRevoked
  <2>2. exchanges[t] > 0 => Readers(t)' \subseteq Readers(t)
    BY <1>2, <2>1 DEF Readers
  <2> QED
    BY <1>1, <1>2, <2>1, <2>2
<1>3. ASSUME NEW r \in Requests, NEW s \in Tokens, NEW f \in Forms, GetRefreshToken(r, s, f)
      PROVE  G
  <2>1. /\ s \notin revoked /\ UNCHANGED <<revoked, exchanges>>
        /\ reading' = [reading EXCEPT ![r] = s]
    BY <1>3 DEF GetRefreshToken, Valid
  <2> QED
    BY <1>2, <2>1 DEF TypeOK
<1>4. ASSUME NEW r \in Requests, RotateRefreshToken(r) PROVE G
  <2>1. reading' = [reading EXCEPT ![r] = None] /\ reading[r] \in Tokens /\ reading[r] # None
    BY <1>4 DEF RotateRefreshToken, Answer, TypeOK, Issued
  <2>2. Readers(t)' \subseteq Readers(t) \ {r}
    BY <2>1 DEF Readers, TypeOK
  <2>3. CASE UNCHANGED tableVars
    BY <1>2, <2>1, <2>3 DEF TypeOK
  <2>4. CASE Rotated(reading[r], form[r])
    <3>1. /\ revoked \subseteq revoked'
          /\ t # reading[r] => exchanges'[t] = exchanges[t]
          /\ t = reading[r] => \/ exchanges[t] = 0 /\ exchanges'[t] = 0
                               \/ exchanges[t] > 0 /\ exchanges'[t] = exchanges[t] + 1
                               \/ exchanges[t] = 0 /\ exchanges'[t] = 1 /\ t \in revoked'
      BY <2>1, <2>4, ExchangeOfOne
    <3>2. exchanges[t] > 0 => t \in revoked'
      BY <3>1 DEF ExchangedIsRevoked
    <3>3. CASE t = reading[r]
      <4>1. r \in Readers(t)
        BY <3>3 DEF Readers
      <4> QED
        BY <1>1, <2>2, <3>1, <3>2, <3>3, <4>1
    <3>4. CASE t # reading[r]
      BY <1>1, <2>2, <3>1, <3>2, <3>4
    <3> QED
      BY <3>3, <3>4
  <2> QED
    BY <1>4, <2>3, <2>4 DEF RotateRefreshToken
<1>5. ASSUME NEW u \in Users, Login(u) \/ LogoutArrives(u) \/ Logout(u) PROVE G
  BY <1>2, <1>5 DEF Login, LogoutArrives, Logout
<1>6. ASSUME NEW s \in Tokens, Expire(s) PROVE G
  BY <1>2, <1>6 DEF Expire
<1>7. CASE Crash
  BY <1>2, <1>7 DEF Crash
<1>8. CASE UNCHANGED vars
  BY <1>2, <1>8 DEF vars
<1> QED
  BY <1>3, <1>4, <1>5, <1>6, <1>7, <1>8 DEF Next

LEMMA ExchangesNext ==
  ASSUME TypeOK, ExchangedIsRevoked, ExchangesBounded, [Next]_vars
  PROVE  ExchangesBounded'
<1> SUFFICES ASSUME NEW t \in Tokens, exchanges'[t] > 0
             PROVE  exchanges'[t] + Cardinality(Readers(t)') <= Cardinality(Requests)
  BY DEF ExchangesBounded
<1> DEFINE R == Readers(t)
           R1 == Readers(t)'
           e == exchanges[t]
           e1 == exchanges'[t]
<1>1. R \subseteq Requests /\ R1 \subseteq Requests
  BY DEF Readers
<1>2. IsFiniteSet(R) /\ IsFiniteSet(R1) /\ IsFiniteSet(Requests)
  BY <1>1, FS_Subset, RefreshTokensAssumption
<1>3. /\ Cardinality(R) \in Nat /\ Cardinality(R1) \in Nat /\ Cardinality(Requests) \in Nat
      /\ e \in Nat
  BY <1>2, FS_CardinalityType DEF TypeOK
<1>4. e > 0 => e + Cardinality(R) <= Cardinality(Requests)
  BY DEF ExchangesBounded
<1>5. R1 \subseteq R => Cardinality(R1) <= Cardinality(R)
  BY <1>2, FS_Subset
<1>6. Cardinality(R) <= Cardinality(Requests)
  BY <1>1, <1>2, FS_Subset
<1>7. ASSUME NEW r \in R, R1 \subseteq R \ {r} PROVE Cardinality(R1) + 1 <= Cardinality(R)
  <2>1. IsFiniteSet(R \ {r}) /\ Cardinality(R \ {r}) = Cardinality(R) - 1
    BY <1>2, <1>7, FS_RemoveElement
  <2>2. Cardinality(R1) <= Cardinality(R \ {r})
    BY <1>7, <2>1, FS_Subset
  <2> QED
    BY <1>3, <2>1, <2>2
<1>8. \/ e > 0 /\ e1 = e /\ R1 \subseteq R
      \/ \E r \in R : e1 = e + 1 /\ R1 \subseteq R \ {r}
  BY ExchangeStep
<1> HIDE DEF R, R1, e, e1
<1>9. e1 + Cardinality(R1) <= Cardinality(Requests)
  BY <1>3, <1>4, <1>5, <1>6, <1>7, <1>8
<1> QED
  BY <1>9 DEF R1, e1

-----------------------------------------------------------------------------
(* The invariant and what follows from it.                                 *)

LEMMA InvariantInit == Init => RefreshInvariant
<1> SUFFICES ASSUME Init PROVE RefreshInvariant
  OBVIOUS
<1>1. TypeOK
  BY TypeInit
<1>2. \A t \in Tokens : exchanges[t] = 0
  BY DEF Init
<1> QED
  BY <1>1, <1>2 DEF RefreshInvariant, ExchangedIsRevoked, ExchangesBounded

LEMMA InvariantNext == RefreshInvariant /\ [Next]_vars => RefreshInvariant'
<1> SUFFICES ASSUME RefreshInvariant, [Next]_vars PROVE RefreshInvariant'
  OBVIOUS
<1>1. TypeOK /\ ExchangedIsRevoked /\ ExchangesBounded
  BY DEF RefreshInvariant
<1>2. ExchangedIsRevoked'
  BY <1>1, ExchangeStep DEF ExchangedIsRevoked
<1> QED
  BY <1>1, <1>2, TypeNext, ExchangesNext DEF RefreshInvariant

(* Types. *)
THEOREM TypeCorrectness == Spec => []TypeOK
BY TypeInit, TypeNext, PTL DEF Spec

(* RefreshAccessToken: from the first exchange of a token as it was issued *)
(* on, there is at most one exchange per request that is handled at the    *)
(* same time, however the token is presented.                              *)
THEOREM ExchangesAreBounded == Spec => []ExchangesBounded
<1>1. RefreshInvariant => ExchangesBounded
  BY DEF RefreshInvariant
<1> QED
  BY <1>1, InvariantInit, InvariantNext, PTL DEF Spec

-----------------------------------------------------------------------------
(* Signing out.                                                            *)

(* A row of a user without a valid token is inserted by a login only.      *)
LEMMA InsertSignedOut ==
  ASSUME TypeOK, NEW u \in Users, SignedOut(u), NEW t \in Tokens, NEW v \in Users,
         NEW old \in Tokens \cup {None}, Insert(t, v, old), v = u => old = None,
         revoked \subseteq revoked', expired' = expired,
         \A r \in Requests : reading'[r] # None => reading'[r] = reading[r]
  PROVE  /\ \A n \in ValidTokens(u)' : from'[n] = None
         /\ \A r \in Requests : reading'[r] # None => userOf'[reading'[r]] # u
<1>1. /\ userOf' = [userOf EXCEPT ![t] = v] /\ from' = [from EXCEPT ![t] = old]
      /\ userOf[t] = None
  BY DEF Insert, Issued
<1>2. ASSUME NEW n \in ValidTokens(u)' PROVE from'[n] = None
  <2>1. n \in Tokens /\ userOf'[n] = u /\ n \notin revoked \cup expired
    BY <1>2 DEF ValidTokens
  <2>2. n = t
    BY <1>1, <2>1 DEF TypeOK, SignedOut, ValidTokens
  <2> QED
    BY <1>1, <2>1, <2>2 DEF TypeOK
<1>3. ASSUME NEW r \in Requests, reading'[r] # None PROVE userOf'[reading'[r]] # u
  <2>1. reading'[r] = reading[r] /\ reading[r] \in Issued /\ userOf[reading[r]] # u
    BY <1>3 DEF TypeOK, SignedOut
  <2>2. reading[r] # t
    BY <1>1, <2>1 DEF Issued
  <2> QED
    BY <1>1, <2>1, <2>2 DEF TypeOK, Issued
<1> QED
  BY <1>2, <1>3

LEMMA SignedOutStep == TypeOK /\ [Next]_vars => [RefreshNeedsValidToken]_vars
<1> SUFFICES ASSUME TypeOK, Next, NEW u \in Users, SignedOut(u)
             PROVE  /\ \A t \in ValidTokens(u)' : from'[t] = None
                    /\ \A r \in Requests : reading'[r] # None => userOf'[reading'[r]] # u
  BY DEF RefreshNeedsValidToken
<1> DEFINE G == /\ \A t \in ValidTokens(u)' : from'[t] = None
                /\ \A r \in Requests : reading'[r] # None => userOf'[reading'[r]] # u
<1> USE RefreshTokensAssumption DEF tableVars, requestVars, logoutVars
<1>1. ASSUME NEW v \in Users, Login(v) PROVE G
  <2>1. PICK t \in Tokens : Insert(t, v, None)
    BY <1>1 DEF Login
  <2>2. revoked' = revoked /\ expired' = expired /\ reading' = reading
    BY <1>1 DEF Login
  <2> QED
    BY <2>1, <2>2, InsertSignedOut
<1>2. ASSUME userOf' = userOf, revoked \subseteq revoked', expired \subseteq expired',
             \A r \in Requests : reading'[r] # None =>
               reading'[r] = reading[r] \/ Valid(reading'[r])
      PROVE  G
  <2>1. ValidTokens(u)' = {}
    BY <1>2 DEF SignedOut, ValidTokens
  <2>2. ASSUME NEW r \in Requests, reading'[r] # None PROVE userOf'[reading'[r]] # u
    BY <1>2, <2>2 DEF SignedOut, ValidTokens, Valid, Issued
  <2> QED
    BY <2>1, <2>2
<1>3. ASSUME NEW r \in Requests, NEW t \in Tokens, NEW f \in Forms, GetRefreshToken(r, t, f)
      PROVE  G
  <2>1. /\ userOf' = userOf /\ revoked' = revoked /\ expired' = expired
        /\ Valid(t) /\ reading' = [reading EXCEPT ![r] = t]
    BY <1>3 DEF GetRefreshToken
  <2> QED
    BY <1>2, <2>1 DEF TypeOK
<1>4. ASSUME NEW r \in Requests, RotateRefreshToken(r) PROVE G
  <2>1. /\ reading[r] \in Issued /\ reading' = [reading EXCEPT ![r] = None]
        /\ expired' = expired
    BY <1>4 DEF RotateRefreshToken, Answer, TypeOK
  <2>2. \A s \in Requests : reading'[s] # None => reading'[s] = reading[s]
    BY <2>1 DEF TypeOK
  <2>3. CASE UNCHANGED tableVars
    BY <1>2, <2>1, <2>2, <2>3
  <2>4. CASE Rotated(reading[r], form[r])
    <3>1. PICK n \in Tokens : Insert(n, userOf[reading[r]], reading[r])
      BY <2>4 DEF Rotated
    <3>2. revoked \subseteq revoked'
      BY <2>4 DEF Rotated, Revoke
    <3>3. userOf[reading[r]] \in Users /\ userOf[reading[r]] # u /\ reading[r] \in Tokens
      BY <2>1 DEF TypeOK, Issued, SignedOut
    <3> QED
      BY <2>1, <2>2, <3>1, <3>2, <3>3, InsertSignedOut
  <2> QED
    BY <1>4, <2>3, <2>4 DEF RotateRefreshToken
<1>5. ASSUME NEW v \in Users, LogoutArrives(v) \/ Logout(v) PROVE G
  BY <1>2, <1>5 DEF LogoutArrives, Logout
<1>6. ASSUME NEW t \in Tokens, Expire(t) PROVE G
  BY <1>2, <1>6 DEF Expire
<1>7. CASE Crash
  BY <1>2, <1>7 DEF Crash
<1> QED
  BY <1>1, <1>3, <1>4, <1>5, <1>6, <1>7 DEF Next

(* README, POST /auth/logout: a user without a valid token and without a   *)
(* refresh under way gets one by a login only, however tokens are          *)
(* presented.                                                              *)
THEOREM SignedOutStays == Spec => SignedOutUntilLogin
BY TypeInit, TypeNext, SignedOutStep, PTL DEF Spec, SignedOutUntilLogin
-----------------------------------------------------------------------------
(* Sign-up.                                                                *)

Emails == {SU!normalizeEmail(a, s) : a \in Addresses, s \in Spellings}
Open   == {u \in Users : stage[u] \in {"event", "commit"}}

SignupTypeOK ==
  /\ email \in [Users -> Emails \cup {None}]
  /\ stage \in [Users -> {"new", "begin", "user", "event", "commit", "done"}]
  /\ answer \in [Users -> {None, "created", "conflict", "error"}]
  /\ accounts \subseteq Users
  /\ \A u \in Users : stage[u] # "new" => email[u] \in Emails

(* A transaction inserts the user first and the event after it, and ends   *)
(* with its request.                                                       *)
Inserted(s) == IF s = "event" THEN {"user"}
               ELSE IF s = "commit" THEN {"user", "event"} ELSE {}

InsertsInOrder == written = [u \in Users |-> Inserted(stage[u])]

(* A user is written at the end of its own request, which is answered then *)
(* at the earliest.                                                        *)
WrittenLast ==
  /\ \A u \in accounts : stage[u] = "done"
  /\ \A u \in Users : stage[u] # "done" => answer[u] = None

(* An open transaction holds the key of its address in the UNIQUE index,   *)
(* which no account and no other open transaction has.                     *)
KeysAreHeld ==
  \A u \in Open, v \in Open \cup accounts : u # v => email[u] # email[v]

AccountsDiffer == \A u, v \in accounts : u # v => email[u] # email[v]

SignupInvariant ==
  /\ SignupTypeOK
  /\ InsertsInOrder
  /\ WrittenLast
  /\ KeysAreHeld
  /\ AccountsDiffer
  /\ AccountsAreAnnounced
  /\ AnswersAreTrue

(* Spellings of one address are stored alike.                              *)
LEMMA EmailsAreLowerCase ==
  ASSUME NEW e \in Emails, NEW f \in Emails, e # f
  PROVE  e[1] # f[1]
<1> DEFINE c == CHOOSE s \in Spellings : TRUE
<1>1. PICK a \in Addresses, b \in Addresses : e = <<a, c>> /\ f = <<b, c>>
  BY DEF Emails, SU!normalizeEmail
<1> HIDE DEF c
<1>2. e[1] = a /\ f[1] = b
  BY <1>1
<1> QED
  BY <1>1, <1>2

LEMMA SignupInit == SU!Init => SignupInvariant
BY AnswersAssumption
   DEF SU!Init, SignupInvariant, SignupTypeOK, InsertsInOrder, Inserted, WrittenLast, KeysAreHeld, Open,
       AccountsDiffer, AccountsAreAnnounced, AnswersAreTrue

(* A request that goes on, or is answered, without writing its user.  It    *)
(* opens no transaction, or its key is free.                               *)
LEMMA NothingWritten ==
  ASSUME SignupInvariant, NEW u \in Users, stage[u] \notin {"new", "done"},
         NEW s \in {"user", "event", "commit", "done"}, stage' = [stage EXCEPT ![u] = s],
         written' = [written EXCEPT ![u] = Inserted(s)],
         s \in {"event", "commit"} =>
           u \in Open \/ (\A v \in Open \cup accounts : v # u => email[u] # email[v]),
         \/ answer' = answer
         \/ s = "done" /\ answer' = [answer EXCEPT ![u] = "error"]
         \/ /\ s = "done" /\ answer' = [answer EXCEPT ![u] = "conflict"]
            /\ \E v \in accounts : email[v] = email[u],
         UNCHANGED <<email, accounts, announced>>
  PROVE  SignupInvariant'
<1>1. u \notin accounts
  BY DEF SignupInvariant, WrittenLast
<1>2. SignupTypeOK' /\ InsertsInOrder'
  BY DEF SignupInvariant, SignupTypeOK, InsertsInOrder, Emails, SU!normalizeEmail
<1>3. WrittenLast'
  BY <1>1 DEF SignupInvariant, SignupTypeOK, WrittenLast
<1>4. KeysAreHeld'
  BY <1>1 DEF SignupInvariant, SignupTypeOK, KeysAreHeld, Open
<1>5. AccountsDiffer' /\ AccountsAreAnnounced'
  BY DEF SignupInvariant, AccountsDiffer, AccountsAreAnnounced
<1>6. AnswersAreTrue'
  BY <1>1, AnswersAssumption
     DEF SignupInvariant, SignupTypeOK, WrittenLast, AnswersAreTrue
<1> QED
  BY <1>2, <1>3, <1>4, <1>5, <1>6 DEF SignupInvariant

(* COMMIT: the user and its event are written together, and answered with  *)
(* 201, or with 500 when the answer of the COMMIT is lost.                 *)
LEMMA UserWritten ==
  ASSUME SignupInvariant, NEW u \in Users, stage[u] = "commit", SU!Committed(u),
         NEW a \in {"created", "error"}, SU!Answer(u, a)
  PROVE  SignupInvariant'
<1>1. /\ accounts' = accounts \cup {u} /\ announced' = announced \cup {u}
      /\ stage' = [stage EXCEPT ![u] = "done"]
      /\ answer' = [answer EXCEPT ![u] = a]
      /\ email' = email
      /\ written' = [written EXCEPT ![u] = Inserted("done")]
  BY DEF SU!Committed, SU!Answer, SignupInvariant, InsertsInOrder, Inserted
<1>2. u \in Open
  BY DEF Open
<1>3. SignupTypeOK' /\ InsertsInOrder'
  BY <1>1 DEF SignupInvariant, SignupTypeOK, InsertsInOrder, Emails, SU!normalizeEmail
<1>4. WrittenLast'
  BY <1>1 DEF SignupInvariant, SignupTypeOK, WrittenLast
<1>5. KeysAreHeld'
  BY <1>1, <1>2 DEF SignupInvariant, SignupTypeOK, KeysAreHeld, Open
<1>6. AccountsDiffer' /\ AccountsAreAnnounced'
  BY <1>1, <1>2
     DEF SignupInvariant, KeysAreHeld, AccountsDiffer, AccountsAreAnnounced
<1>7. AnswersAreTrue'
  BY <1>1, AnswersAssumption
     DEF SignupInvariant, SignupTypeOK, WrittenLast, AnswersAreTrue
<1> QED
  BY <1>3, <1>4, <1>5, <1>6, <1>7 DEF SignupInvariant

LEMMA SignupArrive ==
  ASSUME SignupInvariant, NEW u \in Users, SU!Arrive(u)
  PROVE  SignupInvariant'
<1>1. PICK e \in Emails : email' = [email EXCEPT ![u] = e]
  <2>1. PICK a \in Addresses, s \in Spellings :
          email' = [email EXCEPT ![u] = SU!normalizeEmail(a, s)]
    BY DEF SU!Arrive
  <2>2. SU!normalizeEmail(a, s) \in Emails
    BY DEF Emails
  <2> QED
    BY <2>1, <2>2
<1>2. /\ stage[u] = "new" /\ stage' = [stage EXCEPT ![u] = "begin"]
      /\ answer' = answer /\ written' = written
      /\ accounts' = accounts /\ announced' = announced
  BY DEF SU!Arrive
<1>3. u \notin accounts /\ u \notin Open /\ answer[u] = None
  BY <1>2 DEF SignupInvariant, WrittenLast, Open
<1>4. SignupTypeOK' /\ InsertsInOrder'
  BY <1>1, <1>2 DEF SignupInvariant, SignupTypeOK, InsertsInOrder, Inserted, Emails,
                    SU!normalizeEmail
<1>5. WrittenLast'
  BY <1>1, <1>2, <1>3 DEF SignupInvariant, SignupTypeOK, WrittenLast
<1>6. KeysAreHeld'
  BY <1>1, <1>2, <1>3 DEF SignupInvariant, SignupTypeOK, KeysAreHeld, Open
<1>7. AccountsDiffer' /\ AccountsAreAnnounced'
  BY <1>1, <1>2, <1>3
     DEF SignupInvariant, SignupTypeOK, AccountsDiffer, AccountsAreAnnounced
<1>8. AnswersAreTrue'
  BY <1>1, <1>2, <1>3, AnswersAssumption
     DEF SignupInvariant, SignupTypeOK, AnswersAreTrue
<1> QED
  BY <1>4, <1>5, <1>6, <1>7, <1>8 DEF SignupInvariant

LEMMA SignupCrash == SignupInvariant /\ SU!Crash => SignupInvariant'
<1> SUFFICES ASSUME SignupInvariant, SU!Crash PROVE SignupInvariant'
  OBVIOUS
<1>1. /\ stage' = [u \in Users |-> IF stage[u] = "new" THEN "new" ELSE "done"]
      /\ email' = email /\ answer' = answer /\ written' = [u \in Users |-> {}]
      /\ accounts' = accounts /\ announced' = announced
  BY DEF SU!Crash
<1>2. SignupTypeOK' /\ InsertsInOrder'
  BY <1>1 DEF SignupInvariant, SignupTypeOK, InsertsInOrder, Inserted, Emails,
              SU!normalizeEmail
<1>3. WrittenLast'
  BY <1>1 DEF SignupInvariant, SignupTypeOK, WrittenLast
<1>4. KeysAreHeld'
  BY <1>1 DEF KeysAreHeld, Open
<1>5. AccountsDiffer' /\ AccountsAreAnnounced' /\ AnswersAreTrue'
  BY <1>1 DEF SignupInvariant, AccountsDiffer, AccountsAreAnnounced, AnswersAreTrue
<1> QED
  BY <1>2, <1>3, <1>4, <1>5 DEF SignupInvariant

LEMMA SignupNext == SignupInvariant /\ [AuthNext]_allVars => SignupInvariant'
<1> SUFFICES ASSUME SignupInvariant, [AuthNext]_allVars PROVE SignupInvariant'
  OBVIOUS
<1> USE DEF Inserted
<1>0. SignupTypeOK /\ InsertsInOrder
  BY DEF SignupInvariant
<1>1. ASSUME NEW u \in Users, SU!Begin(u) \/ SU!InsertEvent(u) PROVE SignupInvariant'
  <2>1. CASE SU!Begin(u)
    <3>1. written' = [written EXCEPT ![u] = Inserted("user")]
      BY <1>0, <2>1 DEF SU!Begin, InsertsInOrder
    <3> QED
      BY <2>1, <3>1, NothingWritten DEF SU!Begin, SU!Goto
  <2>2. CASE SU!InsertEvent(u)
    <3>1. written[u] \cup {"event"} = Inserted("commit")
      BY <1>0, <2>2 DEF SU!InsertEvent, InsertsInOrder
    <3>2. written' = [written EXCEPT ![u] = Inserted("commit")]
      BY <2>2, <3>1 DEF SU!InsertEvent, SU!Insert
    <3> QED
      BY <2>2, <3>2, NothingWritten DEF SU!InsertEvent, SU!Insert, SU!Goto, Open
  <2> QED
    BY <1>1, <2>1, <2>2
<1>2. ASSUME NEW u \in Users, SU!InsertUser(u) PROVE SignupInvariant'
  <2>1. \A v \in Open \cup accounts : v # u => email[u] # email[v]
    BY <1>0, <1>2
       DEF SU!InsertUser, SU!Taken, SU!OpenElsewhere, InsertsInOrder, SignupInvariant,
           WrittenLast, Open
  <2>2. written[u] \cup {"user"} = Inserted("event")
    BY <1>0, <1>2 DEF SU!InsertUser, InsertsInOrder
  <2>3. written' = [written EXCEPT ![u] = Inserted("event")]
    BY <1>2, <2>2 DEF SU!InsertUser, SU!Insert
  <2> QED
    BY <1>2, <2>1, <2>3, NothingWritten DEF SU!InsertUser, SU!Insert, SU!Goto
<1>3. ASSUME NEW u \in Users, SU!EmailExists(u) PROVE SignupInvariant'
  BY <1>3, NothingWritten DEF SU!EmailExists, SU!Answer, SU!Taken
<1>4. ASSUME NEW u \in Users, SU!Commit(u) PROVE SignupInvariant'
  BY <1>4, UserWritten DEF SU!Commit
<1>5. ASSUME NEW u \in Users, SU!Fails(u) PROVE SignupInvariant'
  <2>1. CASE UNCHANGED <<accounts, announced>>
    BY <1>5, <2>1, NothingWritten DEF SU!Fails, SU!Answer
  <2>2. CASE stage[u] = "commit" /\ SU!Committed(u)
    BY <1>5, <2>2, UserWritten DEF SU!Fails
  <2> QED
    BY <1>5, <2>1, <2>2 DEF SU!Fails
<1>6. CASE SignupStep
  BY <1>1, <1>2, <1>3, <1>4, <1>5, <1>6, SignupArrive DEF SignupStep, SU!Step
<1>7. CASE UNCHANGED signupVars
  BY <1>7 DEF signupVars, SignupInvariant, SignupTypeOK, InsertsInOrder, WrittenLast, KeysAreHeld, Open,
              Emails, SU!normalizeEmail, AccountsDiffer, AccountsAreAnnounced, AnswersAreTrue
<1> QED
  BY <1>6, <1>7, SignupCrash DEF AuthNext, TokenStep, allVars

(* POST /auth/signup: sign-ups that run at a time, fail or are interrupted *)
(* leave users with their events, whose addresses differ in the index that *)
(* keeps them apart.                                                       *)
THEOREM SignupInvariance == AuthSpec => []SignupInvariant
BY SignupInit, SignupNext, PTL DEF AuthSpec, AuthInit

(* A user exists exactly if its user.registered event is in the outbox.    *)
THEOREM AccountsAnnounced == AuthSpec => []AccountsAreAnnounced
<1>1. SignupInvariant => AccountsAreAnnounced
  BY DEF SignupInvariant
<1> QED
  BY <1>1, SignupInvariance, PTL

(* However addresses are spelled, no two accounts share one.               *)
THEOREM AddressesAreUnique == AuthSpec => []OneAccountPerAddress
<1>1. SignupInvariant => OneAccountPerAddress
  <2> SUFFICES ASSUME SignupInvariant, NEW u \in accounts, NEW v \in accounts, u # v
               PROVE  email[u][1] # email[v][1]
    BY DEF OneAccountPerAddress
  <2>1. email[u] \in Emails /\ email[v] \in Emails /\ email[u] # email[v]
    BY DEF SignupInvariant, SignupTypeOK, WrittenLast, AccountsDiffer
  <2> QED
    BY <2>1, EmailsAreLowerCase
<1> QED
  BY <1>1, SignupInvariance, PTL

(* 201 and 409 tell the truth.                                             *)
THEOREM AnswersTellTheTruth == AuthSpec => []AnswersAreTrue
<1>1. SignupInvariant => AnswersAreTrue
  BY DEF SignupInvariant
<1> QED
  BY <1>1, SignupInvariance, PTL

-----------------------------------------------------------------------------
(* The composition.                                                        *)

(* A step of auth-service is one of its tokens or leaves them alone.       *)
LEMMA AuthStepIsTokenStep == [AuthNext]_allVars => [Next]_vars
<1> SUFFICES ASSUME AuthNext PROVE [Next]_vars
  BY DEF allVars
<1>1. CASE TokenStep
  BY <1>1 DEF TokenStep, LoginOfAccount, Next
<1>2. CASE SignupStep
  BY <1>2 DEF SignupStep
<1>3. CASE Crash
  BY <1>3 DEF Next
<1> QED
  BY <1>1, <1>2, <1>3 DEF AuthNext

(* auth-service keeps what is proved of its refresh tokens, whatever       *)
(* sign-ups run beside them.                                               *)
THEOREM AuthServiceKeepsTokens == AuthSpec => Spec
BY AuthStepIsTokenStep, PTL DEF AuthSpec, AuthInit, Spec
=============================================================================
