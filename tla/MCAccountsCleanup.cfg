CONSTANTS
  Req = {r1}
  UserId = {u1, u2}
  Email = {e1}
  Lower <- Same
  Password = {p1}
  Jti = {j1}
  Scopes <- Signup
SPECIFICATION FairSpec
PROPERTY UnverifiedEventuallyGone
