\* Two requests at once over two accounts; no two of them are to change one.
SPECIFICATION Spec
CONSTANTS
  a1 = a1
  a2 = a2
  a3 = a3
  r1 = r1
  r2 = r2
  Account = {a1, a2}
  Session = {r1, r2}
  Offered = {"admin", "receptionist"}
  TypedEmail <- MCTypedEmail
  SentEmail = {"X"}
  Lower <- MCLower
  MaxVersion = 2
  MaxKey = 1
  MaxTokens = 3
CONSTRAINT TargetsApart
SYMMETRY Symmetries
INVARIANTS
  TypeOK
  AnAdminRemains
  EmailsUnique
PROPERTIES
  RevokedStaysRevoked
CHECK_DEADLOCK FALSE
