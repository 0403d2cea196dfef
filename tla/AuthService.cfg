\* Two sign-ups, and refresh requests at the same time, whose tokens are
\* presented as issued or with blanks.
CONSTANTS
  Users = {u1, u2}
  Addresses = {a1, a2}
  Spellings = {"lower", "mixed"}
  Tokens = {t1, t2, t3}
  Requests = {r1, r2}
  PoolSize = 2
  MaxErrors = 1
  None = None
SPECIFICATION AuthSpec
CONSTRAINTS NoSignupBesideTokens OneOwner OneExpires
SYMMETRY AuthSymmetry
INVARIANTS
  ExchangesBounded
  AccountsAreAnnounced
  OneAccountPerAddress
  AnswersAreTrue
PROPERTIES
  SignedOutUntilLogin
\* With every connection kept, the service really stops.
CHECK_DEADLOCK FALSE
