---------------------------- MODULE MCAuthService ----------------------------
(* Bounds for the TLC run of AuthService.  Sign-ups and tokens meet in the *)
(* pool of connections only, and so do the tokens of different users.      *)
EXTENDS AuthService

(* Nothing tells addresses apart either. *)
AuthSymmetry == Symmetry \cup Permutations(Addresses)

(* Tokens are issued before a sign-up or after it, to one of the users,    *)
(* who is also the one to log out then.                                    *)
NoSignupBesideTokens == Issued # {} => \A u \in Users : stage[u] \in {"new", "done"}
OneOwner == \A t \in Issued : /\ \A n \in Issued : userOf[n] = userOf[t]
                             /\ leaving \subseteq {userOf[t]}

(* At most one token expires. *)
OneExpires == Cardinality(expired) <= 1
=============================================================================
