----------------------- MODULE RefreshTokensProperties -----------------------
(***************************************************************************)
(* What refresh-token rotation guarantees, and what the documentation says *)
(* of it.                                                                  *)
(***************************************************************************)
EXTENDS RefreshTokens, TLC

(* The table and the requests have their shapes; only rows are revoked,    *)
(* expire, are exchanged or are read, and a token and the one it was       *)
(* exchanged for belong to the same user.                                  *)
TypeOK ==
  /\ userOf \in [Tokens -> Users \cup {None}]
  /\ from \in [Tokens -> Tokens \cup {None}]
  /\ exchanges \in [Tokens -> Nat]
  /\ revoked \subseteq Issued /\ expired \subseteq Issued /\ loggedOut \subseteq revoked
  /\ reading \in [Requests -> Issued \cup {None}]
  /\ form \in [Requests -> Forms]
  /\ leaving \subseteq Users
  /\ leaked \in 0..PoolSize
  /\ errors \in Nat
  /\ \A t \in Tokens : from[t] # None => /\ t \in Issued /\ from[t] \in Issued
                                         /\ userOf[t] = userOf[from[t]]

-----------------------------------------------------------------------------
(* The tokens that t was exchanged for, and the requests about to do so.   *)
Successors(t) == {n \in Tokens : from[n] = t}
Readers(t)    == {r \in Requests : reading[r] = t}

(* README, POST /auth/refresh: "the old one is revoked".  Once a token was *)
(* exchanged as it was issued, nobody new gets to exchange it, in whatever *)
(* form: that first exchange, those of the requests that had checked it    *)
(* before and those still to come are no more than one for each request    *)
(* that is handled at a time, although the check and the rotation are two  *)
(* calls and a COMMIT may fail in doubt.                                   *)
ExchangesBounded ==
  \A t \in Tokens :
    exchanges[t] > 0 => exchanges[t] + Cardinality(Readers(t)) <= Cardinality(Requests)

(* README, POST /auth/logout: "revokes all refresh tokens for the          *)
(* authenticated user".  That holds unless a refresh is between its check  *)
(* and its rotation: once a user has no valid token and no such request,   *)
(* only a login gives him a token again.                                   *)
ValidTokens(u) == {t \in Tokens : userOf[t] = u} \ (revoked \cup expired)

SignedOut(u) == /\ ValidTokens(u) = {}
                /\ \A r \in Requests : reading[r] # None => userOf[reading[r]] # u

RefreshNeedsValidToken ==
  \A u \in Users : SignedOut(u) =>
    /\ \A t \in ValidTokens(u)' : from'[t] = None
    /\ \A r \in Requests : reading'[r] # None => userOf'[reading'[r]] # u

SignedOutUntilLogin == [][RefreshNeedsValidToken]_vars

(* The inductive invariant behind the first two: what has been exchanged   *)
(* as it was issued is revoked.                                            *)
ExchangedIsRevoked == \A t \in Tokens : exchanges[t] > 0 => t \in revoked

RefreshInvariant == TypeOK /\ ExchangedIsRevoked /\ ExchangesBounded

-----------------------------------------------------------------------------
(* README, POST /auth/refresh: a refresh token "is only usable once".  Two *)
(* requests at a time refute it, and one whose token has blanks about it.  *)
UsableOnce == \A t \in Tokens : Cardinality(Successors(t)) <= 1

(* README, POST /auth/logout: a logout request is eventually carried out.  *)
LogoutCompletes == \A u \in Users : u \in leaving ~> u \notin leaving

Symmetry == Permutations(Tokens) \cup Permutations(Requests) \cup Permutations(Users)
=============================================================================
