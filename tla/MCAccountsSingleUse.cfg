CONSTANTS
  Req = {r1, r2}
  UserId = {u1}
  Email = {e1}
  Lower <- Same
  Password = {p1, p2, p3}
  Jti = {j1}
  Scopes <- Resets
SPECIFICATION Spec
INVARIANT SingleUse
\* No client need call, and nothing else may be left to do.
CHECK_DEADLOCK FALSE
