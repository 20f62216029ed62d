CONSTANTS
  Req = {r1, r2}
  User = {u1, u2}
SPECIFICATION Spec
SYMMETRY Symmetry
INVARIANTS AnswerTrue DefaultRoleUnlessRevoked
\* Without an admin nobody can change roles.
CHECK_DEADLOCK FALSE
