CONSTANTS
  e1 = e1
  e2 = e2
  E2 = E2
  Req = {r1}
  UserId = {u1, u2}
  Email = {e1, e2, E2}
  Lower <- TwoSpellings
  Password = {p1}
  Jti = {j1, j2}
  Scopes <- Resets
  Flow = {f1, f2}
  Identity = {i1, i2}
  State = {s1}
SPECIFICATION OAuthSpec
SYMMETRY Symmetry
INVARIANT PasswordCanBeSet
\* No client need call, and nothing else may be left to do.
CHECK_DEADLOCK FALSE
