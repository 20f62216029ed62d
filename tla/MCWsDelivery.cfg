CONSTANTS
  u1 = u1
  Worker = {w1, w2}
  User = {u1, u2}
  Conn = {c1, c2}
  Msg = {m1}
  Owner <- OwnerOf
SPECIFICATION FairSpec
INVARIANTS AtMostOnce RaisesOnlyForGonePeer
PROPERTIES DeliveredUnlessFault ListenerRecovers GoneIsForgotten
