-------------------------- MODULE WsDeliveryProofs --------------------------
(***************************************************************************)
(* Delivery to sockets, for any number of workers, users, sockets and      *)
(* messages.                                                               *)
(*                                                                         *)
(* A message has two ways to a socket: send_local of publish_to_user, and  *)
(* the listener of the socket's worker.  That it takes only one of them is *)
(* split up: before the publish no listener has it (Inboxes) and no socket *)
(* that is still to be served has got it (Unsent); after the publish each  *)
(* listener has it once, and serves the sockets of its own worker only     *)
(* (Placed, Inboxes).                                                      *)
(***************************************************************************)
EXTENDS WsDelivery, TLAPS

\* A socket is accepted by one worker and registered with no other.
Placed ==
  \A c \in Conn : /\ sock[c].status = "new" <=> sock[c].at = "none"
                  /\ \A w \in Worker : c \in registered[w] => sock[c].at = w

\* A call of publish_to_user has its parameters, is made on the worker of the
\* endpoint that makes it, and serves sockets that this worker has accepted for
\* the recipient.
Called ==
  \A m \in Msg :
    /\ push[m].pc # "new" => /\ push[m].at \in Worker /\ push[m].to \in User
                             /\ push[m].by # "none"
                             /\ push[m].by \in Conn => sock[push[m].by].at = push[m].at
    /\ push[m].pc # "sending" => push[m].todo = {}
    /\ \A c \in push[m].todo : Owner[c] = push[m].to /\ sock[c].at = push[m].at

\* Nothing was put on a socket before it was accepted, nor by a call that has
\* not come to this socket yet.
Unsent ==
  \A m \in Msg, c \in Conn :
    (\/ sock[c].at = "none"
     \/ push[m].pc \in {"new", "publish"}
     \/ push[m].pc = "sending" /\ c \in push[m].todo) => got[m][c] = 0

\* What a listener has received was published, and is there once.
Received(w) ==
  LET inbox == listener[w].inbox IN
  \A i \in 1..Len(inbox) :
    /\ push[inbox[i]].pc = "done"
    /\ \A k \in 1..Len(inbox) : inbox[i] = inbox[k] => i = k

\* It has not got to any socket of its worker, but for what is being forwarded.
Undelivered(w) ==
  LET inbox == listener[w].inbox IN
  \A i \in 1..Len(inbox), c \in Conn :
    (i > 1 \/ listener[w].pc # "forwarding") /\ sock[c].at = w => got[inbox[i]][c] = 0

\* What is being forwarded has not got to the sockets that are left.
Forwarding(w) ==
  listener[w].pc = "forwarding" =>
    /\ listener[w].inbox # <<>>
    /\ \A c \in listener[w].todo : sock[c].at = w /\ got[listener[w].inbox[1]][c] = 0

Inboxes == \A w \in Worker : Received(w) /\ Undelivered(w) /\ Forwarding(w)

Inv ==
  /\ TypeOK
  /\ Placed /\ Called /\ Unsent /\ Inboxes
  /\ AtMostOnce /\ RaisesOnlyForGonePeer

\* Before any worker has started.
LEMMA InvInit == Init => Inv
<1> SUFFICES ASSUME Init PROVE Inv
    OBVIOUS
<1>1. TypeOK
  BY AddressAssumption DEF Init, TypeOK, Sock, Push, Listener
<1>2. Placed /\ Called /\ Unsent
  BY AddressAssumption DEF Init, Placed, Called, Unsent
<1>3. Inboxes
  <2>1. \A w \in Worker : listener[w].inbox = <<>> /\ listener[w].pc = "stopped"
    BY DEF Init
  <2>2. 1..Len(<<>>) = {}
    OBVIOUS
  <2> QED BY <2>1, <2>2 DEF Inboxes, Received, Undelivered, Forwarding
<1>4. AtMostOnce /\ RaisesOnlyForGonePeer
  BY DEF Init, AtMostOnce, RaisesOnlyForGonePeer
<1> QED BY <1>1, <1>2, <1>3, <1>4 DEF Inv

\* Append and Tail, index by index.
LEMMA Appended ==
  ASSUME NEW s \in Seq(Msg), NEW m \in Msg
  PROVE  /\ Append(s, m) \in Seq(Msg) /\ Len(Append(s, m)) = Len(s) + 1
         /\ \A i \in 1..Len(s) : Append(s, m)[i] = s[i]
         /\ Append(s, m)[Len(s) + 1] = m
OBVIOUS

LEMMA Taken ==
  ASSUME NEW s \in Seq(Msg), s # <<>>
  PROVE  /\ Tail(s) \in Seq(Msg) /\ Len(Tail(s)) = Len(s) - 1
         /\ \A i \in 1..Len(Tail(s)) : Tail(s)[i] = s[i + 1] /\ i + 1 \in 1..Len(s)
         /\ Head(s) = s[1] /\ 1 \in 1..Len(s) /\ Len(s) \in Nat /\ s[1] \in Msg
OBVIOUS

\* The endpoint that ends leaves the manager, and its socket stays where it was.
LEMMA Closing ==
  ASSUME TypeOK, NEW c \in Conn, CloseSocket(c)
  PROVE  /\ sock' \in [Conn -> Sock] /\ registered' \in [Worker -> SUBSET Conn]
         /\ \A d \in Conn : sock'[d].at = sock[d].at
         /\ \A d \in Conn : sock'[d].status = IF d = c THEN "closed" ELSE sock[d].status
         /\ \A w \in Worker : registered'[w] \subseteq registered[w]
<1> DEFINE next == [sock[c] EXCEPT !.status = "closed"]
<1>1. next \in Sock /\ next.at = sock[c].at /\ next.status = "closed"
  BY DEF TypeOK, Sock
<1>2. sock' = [sock EXCEPT ![c] = next]
  BY DEF CloseSocket
<1>3. registered' \in [Worker -> SUBSET Conn]
  BY DEF CloseSocket, TypeOK
<1>4. \A w \in Worker : registered'[w] \subseteq registered[w]
  BY DEF CloseSocket, TypeOK
<1> HIDE DEF next
<1>5. sock' \in [Conn -> Sock]
  BY <1>1, <1>2 DEF TypeOK
<1> QED BY <1>1, <1>2, <1>3, <1>4, <1>5 DEF TypeOK

\* One write of a message that the socket has not got yet.
LEMMA Writing ==
  ASSUME TypeOK, NEW m \in Msg, NEW c \in Conn, Write(m, c), got[m][c] = 0
  PROVE  /\ got' \in [Msg -> [Conn -> 0..2]]
         /\ \A n \in Msg, d \in Conn : (n # m \/ d # c) => got'[n][d] = got[n][d]
         /\ got'[m][c] <= 1
<1>1. CASE got' = [got EXCEPT ![m][c] = IF @ < 2 THEN @ + 1 ELSE 2]
  <2>1. got' = [got EXCEPT ![m] = [got[m] EXCEPT ![c] = 1]]
    BY <1>1 DEF TypeOK
  <2>2. [got[m] EXCEPT ![c] = 1] \in [Conn -> 0..2]
    BY DEF TypeOK
  <2>3. got' \in [Msg -> [Conn -> 0..2]]
    BY <2>1, <2>2 DEF TypeOK
  <2> QED BY <2>1, <2>3 DEF TypeOK
<1>2. CASE UNCHANGED got
  BY <1>2 DEF TypeOK
<1> QED BY <1>1, <1>2 DEF Write

\* A call that goes on: what changes is how far it is.
LEMMA PushGoesOn ==
  ASSUME TypeOK, NEW m \in Msg, NEW pc \in {"sending", "done", "raised"},
         NEW todo \in SUBSET Conn,
         push' = [push EXCEPT ![m] = [push[m] EXCEPT !.pc = pc, !.todo = todo]]
  PROVE  /\ push' \in [Msg -> Push]
         /\ \A n \in Msg : n # m => push'[n] = push[n]
         /\ push'[m].pc = pc /\ push'[m].todo = todo
         /\ push'[m].at = push[m].at /\ push'[m].by = push[m].by
         /\ push'[m].to = push[m].to
<1> DEFINE next == [push[m] EXCEPT !.pc = pc, !.todo = todo]
<1>1. /\ next \in Push
      /\ next.pc = pc /\ next.todo = todo
      /\ next.at = push[m].at /\ next.by = push[m].by /\ next.to = push[m].to
  BY DEF TypeOK, Push
<1> HIDE DEF next
<1>2. push' = [push EXCEPT ![m] = next]
  BY DEF next
<1>3. push' \in [Msg -> Push]
  BY <1>1, <1>2 DEF TypeOK
<1> QED BY <1>1, <1>2, <1>3 DEF TypeOK

\* A listener that goes on: what changes is where it is, not what it holds.
LEMMA ListenerTurns ==
  ASSUME TypeOK, NEW w \in Worker, NEW pc \in {"connecting", "listening"},
         listener' = [listener EXCEPT ![w].pc = pc]
  PROVE  /\ listener' \in [Worker -> Listener]
         /\ \A v \in Worker : v # w => listener'[v] = listener[v]
         /\ listener'[w].pc = pc /\ listener'[w].inbox = listener[w].inbox
         /\ listener'[w].todo = listener[w].todo
<1> DEFINE next == [listener[w] EXCEPT !.pc = pc]
<1>1. /\ next \in Listener
      /\ next.pc = pc /\ next.todo = listener[w].todo /\ next.inbox = listener[w].inbox
  BY DEF TypeOK, Listener
<1>2. listener' = [listener EXCEPT ![w] = next]
  OBVIOUS
<1> HIDE DEF next
<1>3. listener' \in [Worker -> Listener]
  BY <1>1, <1>2 DEF TypeOK
<1> QED BY <1>1, <1>2, <1>3 DEF TypeOK

\* What the listener does with the sockets it has left to serve.
LEMMA Forwards ==
  ASSUME TypeOK, NEW w \in Worker, NEW todo \in SUBSET Conn, Forwarded(w, todo),
         listener[w].inbox # <<>>
  PROVE  /\ listener' \in [Worker -> Listener]
         /\ \A v \in Worker : v # w => listener'[v] = listener[v]
         /\ todo = {} => /\ listener'[w].pc = "listening" /\ listener'[w].todo = {}
                         /\ listener'[w].inbox = Tail(listener[w].inbox)
         /\ todo # {} => /\ listener'[w].pc = "forwarding" /\ listener'[w].todo = todo
                         /\ listener'[w].inbox = listener[w].inbox
<1> DEFINE idle == [pc |-> "listening", inbox |-> Tail(listener[w].inbox), todo |-> {}]
           serving == [listener[w] EXCEPT !.pc = "forwarding", !.todo = todo]
           next == IF todo = {} THEN idle ELSE serving
<1>1. listener[w] \in Listener /\ listener[w].inbox \in Seq(Msg)
  BY DEF TypeOK, Listener
<1>2. /\ idle \in Listener /\ idle.pc = "listening" /\ idle.todo = {}
      /\ idle.inbox = Tail(listener[w].inbox)
  BY <1>1, Taken DEF Listener
<1>3. /\ serving \in Listener /\ serving.pc = "forwarding" /\ serving.todo = todo
      /\ serving.inbox = listener[w].inbox
  BY <1>1 DEF Listener
<1>4. listener' = [listener EXCEPT ![w] = next]
  BY DEF Forwarded
<1> HIDE DEF idle, serving
<1>5. next \in Listener
  BY <1>2, <1>3
<1>6. listener'[w] = next /\ \A v \in Worker : v # w => listener'[v] = listener[v]
  BY <1>4 DEF TypeOK
<1>7. listener' \in [Worker -> Listener]
  BY <1>4, <1>5 DEF TypeOK
<1> QED BY <1>2, <1>3, <1>6, <1>7

\* Listeners are not concerned with what happens to messages that are not yet
\* published, nor to a socket that stays where it is.
LEMMA InboxesKept ==
  ASSUME TypeOK, Inboxes, UNCHANGED listener,
         \A m \in Msg : push[m].pc = "done" => push'[m].pc = "done",
         \A c \in Conn : sock'[c].at = sock[c].at,
         \A m \in Msg, c \in Conn : push[m].pc = "done" => got'[m][c] = got[m][c]
  PROVE  Inboxes'
<1> SUFFICES ASSUME NEW w \in Worker PROVE (Received(w) /\ Undelivered(w) /\ Forwarding(w))'
  BY DEF Inboxes
<1>1. /\ listener[w].inbox \in Seq(Msg) /\ listener[w].todo \subseteq Conn
      /\ \A i \in 1..Len(listener[w].inbox) : listener[w].inbox[i] \in Msg
      /\ listener[w].inbox # <<>> => 1 \in 1..Len(listener[w].inbox)
  BY DEF TypeOK, Listener
<1>2. Received(w) /\ Undelivered(w) /\ Forwarding(w)
  BY DEF Inboxes
<1>3. Received(w)'
  BY <1>1, <1>2 DEF Received
<1>4. Undelivered(w)'
  BY <1>1, <1>2 DEF Received, Undelivered
<1>5. Forwarding(w)'
  BY <1>1, <1>2 DEF Received, Forwarding
<1> QED BY <1>3, <1>4, <1>5

\* Sockets, calls, listeners and workers preserve the invariant with every step.
LEMMA InvNext == Inv /\ [Next]_vars => Inv'
<1> SUFFICES ASSUME Inv, [Next]_vars PROVE Inv'
    OBVIOUS
<1> USE AddressAssumption DEF Inv
<1>1. ASSUME NEW c \in Conn, PeerGone(c) PROVE Inv'
  <2>1. TypeOK'
    BY <1>1 DEF PeerGone, Fault, TypeOK, Sock, Push, Listener
  <2>2. Placed'
    BY <1>1 DEF PeerGone, Fault, TypeOK, Sock, Push, Listener, Placed
  <2>3. Called'
    BY <1>1 DEF PeerGone, Fault, TypeOK, Sock, Push, Listener, Called
  <2>4. Unsent'
    BY <1>1 DEF PeerGone, Fault, TypeOK, Sock, Push, Listener, Unsent
  <2>5. Inboxes'
    BY <1>1 DEF PeerGone, Fault, TypeOK, Sock, Push, Listener, Inboxes, Received,
       Undelivered, Forwarding
  <2>6. AtMostOnce'
    BY <1>1 DEF PeerGone, Fault, TypeOK, Sock, Push, Listener, AtMostOnce
  <2>7. RaisesOnlyForGonePeer'
    BY <1>1 DEF PeerGone, Fault, TypeOK, Sock, Push, Listener, RaisesOnlyForGonePeer
  <2> QED BY <2>1, <2>2, <2>3, <2>4, <2>5, <2>6, <2>7
<1>2. ASSUME NEW c \in Conn, Disconnect(c) PROVE Inv'
  <2>0. CloseSocket(c) /\ sock[c].at \in Worker /\ UNCHANGED <<push, listener, got>>
    BY <1>2 DEF Disconnect, TypeOK, Sock, Placed
  <2> DEFINE Closed ==
        /\ sock' \in [Conn -> Sock] /\ registered' \in [Worker -> SUBSET Conn]
        /\ \A d \in Conn : sock'[d].at = sock[d].at
        /\ \A d \in Conn : sock'[d].status = IF d = c THEN "closed" ELSE sock[d].status
        /\ \A w \in Worker : registered'[w] \subseteq registered[w]
  <2>1. Closed
    BY <2>0, Closing
  <2>2. TypeOK'
    BY <1>2, <2>0, <2>1 DEF Disconnect, Fault, TypeOK
  <2>3. Placed'
    BY <2>0, <2>1 DEF Placed, TypeOK
  <2>4. Called' /\ RaisesOnlyForGonePeer'
    BY <2>0, <2>1 DEF Called, RaisesOnlyForGonePeer, TypeOK, Push
  <2>5. Unsent' /\ AtMostOnce'
    BY <2>0, <2>1 DEF Unsent, AtMostOnce
  <2>6. Inboxes'
    BY <2>0, <2>1, InboxesKept
  <2> QED BY <2>2, <2>3, <2>4, <2>5, <2>6
<1>3. ASSUME NEW c \in Conn, MalformedText(c) PROVE Inv'
  <2>0. CloseSocket(c) /\ sock[c].at \in Worker /\ UNCHANGED <<push, listener, got>>
    BY <1>3 DEF MalformedText, TypeOK, Sock, Placed
  <2> DEFINE Closed ==
        /\ sock' \in [Conn -> Sock] /\ registered' \in [Worker -> SUBSET Conn]
        /\ \A d \in Conn : sock'[d].at = sock[d].at
        /\ \A d \in Conn : sock'[d].status = IF d = c THEN "closed" ELSE sock[d].status
        /\ \A w \in Worker : registered'[w] \subseteq registered[w]
  <2>1. Closed
    BY <2>0, Closing
  <2>2. TypeOK'
    BY <1>3, <2>0, <2>1 DEF MalformedText, Fault, TypeOK
  <2>3. Placed'
    BY <2>0, <2>1 DEF Placed, TypeOK
  <2>4. Called' /\ RaisesOnlyForGonePeer'
    BY <2>0, <2>1 DEF Called, RaisesOnlyForGonePeer, TypeOK, Push
  <2>5. Unsent' /\ AtMostOnce'
    BY <2>0, <2>1 DEF Unsent, AtMostOnce
  <2>6. Inboxes'
    BY <2>0, <2>1, InboxesKept
  <2> QED BY <2>2, <2>3, <2>4, <2>5, <2>6
<1>4. ASSUME NEW c \in Conn, NEW w \in Worker, Connect(c, w) PROVE Inv'
  <2>1. TypeOK'
    BY <1>4 DEF Connect, TypeOK, Sock, Push, Listener
  <2>2. /\ \A d \in Conn : d # c => sock'[d] = sock[d]
        /\ sock[c].at = "none" /\ sock'[c].at = w /\ sock'[c].status = "open"
        /\ UNCHANGED <<push, listener, got>>
    BY <1>4 DEF Connect, TypeOK, Placed
  <2>3. Placed'
    BY <1>4 DEF Connect, TypeOK, Sock, Placed
  <2>4. \A m \in Msg : push[m].pc # "new" => push[m].at # "none"
    BY DEF Called
  <2>5. \A m \in Msg : \A d \in push[m].todo : d # c
    BY <2>2, <2>4 DEF Called
  <2>6. Called'
    <3>1. \A m \in Msg : push[m].pc # "new" => push[m].by # c
      BY <2>2, <2>4 DEF Called
    <3>2. \A m \in Msg : push[m].todo \subseteq Conn
      BY DEF TypeOK, Push
    <3> SUFFICES ASSUME NEW m \in Msg PROVE Called!(m)'
      BY DEF Called
    <3>3. push[m].pc # "new" => /\ push[m].at \in Worker /\ push[m].to \in User
                                /\ push[m].by # "none"
                                /\ push[m].by \in Conn => sock'[push[m].by].at = push[m].at
      BY <2>2, <3>1 DEF Called
    <3>4. \A d \in push[m].todo : Owner[d] = push[m].to /\ sock'[d].at = push[m].at
      BY <2>2, <2>5, <3>2 DEF Called
    <3> QED BY <2>2, <3>3, <3>4 DEF Called
  <2>7. Unsent' /\ AtMostOnce'
    BY <2>2 DEF Unsent, AtMostOnce
  <2>8. Inboxes'
    BY <1>4 DEF Connect, TypeOK, Sock, Push, Listener, Inboxes, Received, Undelivered,
       Forwarding, Unsent, Placed
  <2>9. RaisesOnlyForGonePeer'
    BY <2>2, <2>4 DEF RaisesOnlyForGonePeer
  <2> QED BY <2>1, <2>3, <2>6, <2>7, <2>8, <2>9
<1>5. ASSUME NEW m \in Msg, NEW c \in Conn, PushWrite(m, c) PROVE Inv'
  <2> DEFINE pc == IF push[m].todo = {c} THEN "done" ELSE "sending"
             todo == push[m].todo \ {c}
  <2>1. /\ push[m].pc = "sending" /\ c \in push[m].todo /\ got[m][c] = 0 /\ Write(m, c)
        /\ UNCHANGED <<sock, registered, listener, owed>>
    BY <1>5 DEF PushWrite, Unsent
  <2>2. push' = [push EXCEPT ![m] = [push[m] EXCEPT !.pc = pc, !.todo = todo]]
    BY <1>5 DEF PushWrite, TypeOK, Push
  <2>3. pc \in {"sending", "done", "raised"} /\ todo \in SUBSET Conn
    BY DEF TypeOK, Push
  <2>4. pc # "sending" => todo = {}
    OBVIOUS
  <2> HIDE DEF pc, todo
  <2>5. /\ push' \in [Msg -> Push]
        /\ \A n \in Msg : n # m => push'[n] = push[n]
        /\ push'[m].pc = pc /\ push'[m].todo = todo
        /\ push'[m].at = push[m].at /\ push'[m].by = push[m].by /\ push'[m].to = push[m].to
    BY <2>2, <2>3, PushGoesOn
  <2>6. /\ got' \in [Msg -> [Conn -> 0..2]]
        /\ \A n \in Msg, d \in Conn : (n # m \/ d # c) => got'[n][d] = got[n][d]
        /\ got'[m][c] <= 1
    BY <2>1, Writing
  <2>7. TypeOK'
    BY <2>1, <2>5, <2>6 DEF TypeOK
  <2>8. Placed' /\ RaisesOnlyForGonePeer'
    BY <2>1, <2>3, <2>5 DEF Placed, RaisesOnlyForGonePeer, pc
  <2>9. Called'
    BY <2>1, <2>4, <2>5 DEF Called, todo
  <2>10. Unsent'
    BY <2>1, <2>5, <2>6 DEF Unsent, Called, todo, pc
  <2>11. AtMostOnce'
    BY <2>6 DEF AtMostOnce
  <2>12. Inboxes'
    BY <2>1, <2>5, <2>6, InboxesKept
  <2> QED BY <2>7, <2>8, <2>9, <2>10, <2>11, <2>12
<1>6. ASSUME NEW m \in Msg, NEW c \in Conn, PushRaises(m, c) PROVE Inv'
  <2>1. /\ push[m].pc = "sending" /\ c \in push[m].todo /\ sock[c].status # "open"
        /\ push' = [push EXCEPT ![m] = [push[m] EXCEPT !.pc = "raised", !.todo = {}]]
        /\ UNCHANGED <<listener, got>>
    BY <1>6 DEF PushRaises, Raises, TypeOK, Push
  <2>2. /\ push' \in [Msg -> Push]
        /\ \A n \in Msg : n # m => push'[n] = push[n]
        /\ push'[m].pc = "raised" /\ push'[m].todo = {}
        /\ push'[m].at = push[m].at /\ push'[m].by = push[m].by /\ push'[m].to = push[m].to
    <3>1. "raised" \in {"sending", "done", "raised"} /\ {} \in SUBSET Conn
      OBVIOUS
    <3> QED BY <2>1, <3>1, PushGoesOn
  <2> DEFINE Closed ==
        /\ sock' \in [Conn -> Sock] /\ registered' \in [Worker -> SUBSET Conn]
        /\ \A d \in Conn : /\ sock'[d].at = sock[d].at
                           /\ sock'[d].status = "new" <=> sock[d].status = "new"
                           /\ sock'[d].status = "open" => sock[d].status = "open"
        /\ \A w \in Worker : registered'[w] \subseteq registered[w]
  <2>3. Closed
    <3>1. CASE push[m].by = "handler"
      BY <1>6, <3>1 DEF PushRaises, TypeOK
    <3>2. CASE push[m].by # "handler"
      <4>1. push[m].by \in Conn /\ sock[push[m].by].at = push[m].at /\ push[m].at \in Worker
        BY <2>1, <3>2 DEF TypeOK, Push, Called
      <4>2. CloseSocket(push[m].by)
        BY <1>6, <3>2 DEF PushRaises
      <4>3. sock[push[m].by].status # "new"
        BY <4>1 DEF Placed
      <4> QED BY <4>1, <4>2, <4>3, Closing
    <3> QED BY <3>1, <3>2
  <2>4. TypeOK'
    BY <1>6, <2>1, <2>2, <2>3 DEF PushRaises, Fault, TypeOK
  <2>5. Placed'
    BY <2>3 DEF Placed, TypeOK
  <2>6. Called'
    BY <2>1, <2>2, <2>3 DEF Called, TypeOK, Push
  <2>7. Unsent' /\ AtMostOnce'
    BY <2>1, <2>2, <2>3 DEF Unsent, AtMostOnce
  <2>8. Inboxes'
    BY <2>1, <2>2, <2>3, InboxesKept
  <2>9. RaisesOnlyForGonePeer'
    <3>1. c \in Conn /\ Owner[c] = push[m].to /\ sock[c].at = push[m].at
      BY <2>1 DEF Called
    <3> QED BY <2>1, <2>2, <2>3, <3>1 DEF RaisesOnlyForGonePeer
  <2> QED BY <2>4, <2>5, <2>6, <2>7, <2>8, <2>9
<1>7. ASSUME NEW m \in Msg, Publish(m) PROVE Inv'
  <2>1. /\ push[m].pc = "publish" /\ push[m].todo = {}
        /\ UNCHANGED <<sock, registered, got, owed>>
    BY <1>7 DEF Publish, Called
  <2>2. push' = [push EXCEPT ![m] = [push[m] EXCEPT !.pc = "done", !.todo = {}]]
    BY <1>7, <2>1 DEF Publish, TypeOK, Push
  <2>3. /\ push' \in [Msg -> Push]
        /\ \A n \in Msg : n # m => push'[n] = push[n]
        /\ push'[m].pc = "done" /\ push'[m].todo = {}
        /\ push'[m].at = push[m].at /\ push'[m].by = push[m].by /\ push'[m].to = push[m].to
    <3>1. "done" \in {"sending", "done", "raised"} /\ {} \in SUBSET Conn
      OBVIOUS
    <3> QED BY <2>2, <3>1, PushGoesOn
  <2> DEFINE next(w) == [listener[w] EXCEPT !.inbox = Append(listener[w].inbox, m)]
  <2>4. ASSUME NEW w \in Worker
        PROVE  /\ listener[w] \in Listener /\ listener[w].inbox \in Seq(Msg)
               /\ next(w) \in Listener /\ next(w).inbox = Append(listener[w].inbox, m)
               /\ next(w).pc = listener[w].pc /\ next(w).todo = listener[w].todo
    <3>1. listener[w] \in Listener /\ listener[w].inbox \in Seq(Msg)
      BY DEF TypeOK, Listener
    <3>2. Append(listener[w].inbox, m) \in Seq(Msg)
      BY <3>1, Appended
    <3> QED BY <3>1, <3>2 DEF Listener
  <2>5. /\ listener' = [w \in Worker |-> listener'[w]]
        /\ \A w \in Worker : listener'[w] = next(w) \/ listener'[w] = listener[w]
    BY <1>7 DEF Publish
  <2> HIDE DEF next
  <2>6. TypeOK'
    <3>1. \A w \in Worker : listener'[w] \in Listener
      BY <2>4, <2>5
    <3> QED BY <2>1, <2>3, <2>5, <3>1 DEF TypeOK
  <2>7. Placed' /\ Called' /\ RaisesOnlyForGonePeer'
    BY <2>1, <2>3 DEF Placed, Called, RaisesOnlyForGonePeer
  <2>8. Unsent' /\ AtMostOnce'
    BY <2>1, <2>3 DEF Unsent, AtMostOnce
  <2>9. ASSUME NEW w \in Worker
        PROVE  (Received(w) /\ Undelivered(w) /\ Forwarding(w))'
    <3> DEFINE s == listener[w].inbox
    <3>1. /\ \A i \in 1..Len(s) : s[i] # m /\ s[i] \in Msg
          /\ \A c \in Conn : got[m][c] = 0
          /\ Len(s) \in Nat /\ (s # <<>> => 1 \in 1..Len(s))
          /\ Received(w) /\ Undelivered(w) /\ Forwarding(w)
      BY <2>1, <2>4 DEF Inboxes, Received, Unsent
    <3>2. CASE listener'[w] = listener[w]
      BY <2>1, <2>3, <2>4, <3>1, <3>2 DEF Received, Undelivered, Forwarding
    <3>3. CASE listener'[w] = next(w)
      <4> DEFINE t == Append(s, m)
      <4>1. /\ listener'[w].inbox = t /\ listener'[w].pc = listener[w].pc
            /\ listener'[w].todo = listener[w].todo
        BY <2>4, <3>3
      <4>2. /\ Len(t) = Len(s) + 1 /\ t \in Seq(Msg)
            /\ \A i \in 1..Len(s) : t[i] = s[i]
            /\ t[Len(s) + 1] = m
        BY <2>4, Appended
      <4> HIDE DEF t
      <4>3. t # <<>> /\ \A i \in 1..Len(t) : i = Len(s) + 1 \/ i \in 1..Len(s)
        BY <3>1, <4>2
      <4> HIDE DEF s
      <4>4. Received(w)'
        <5>1. \A i \in 1..Len(t) : push'[t[i]].pc = "done"
          <6> SUFFICES ASSUME NEW i \in 1..Len(t) PROVE push'[t[i]].pc = "done"
            OBVIOUS
          <6>1. CASE i = Len(s) + 1
            BY <2>3, <4>2, <6>1
          <6>2. CASE i \in 1..Len(s)
            <7>1. push[s[i]].pc = "done" /\ s[i] \in Msg /\ s[i] # m /\ t[i] = s[i]
              BY <3>1, <4>2, <6>2 DEF Received, s
            <7> QED BY <2>3, <7>1
          <6> QED BY <4>3, <6>1, <6>2
        <5>2. ASSUME NEW i \in 1..Len(t), NEW k \in 1..Len(t), t[i] = t[k] PROVE i = k
          BY <3>1, <4>2, <4>3, <5>2 DEF Received, s
        <5> QED BY <4>1, <5>1, <5>2 DEF Received
      <4>5. Undelivered(w)'
        BY <2>1, <3>1, <4>1, <4>2, <4>3 DEF Undelivered, s
      <4>6. Forwarding(w)'
        BY <2>1, <3>1, <4>1, <4>2, <4>3 DEF Forwarding, s
      <4> QED BY <4>4, <4>5, <4>6
    <3> QED BY <2>5, <3>2, <3>3
  <2>10. Inboxes'
    BY <2>9 DEF Inboxes
  <2> QED BY <2>6, <2>7, <2>8, <2>10
<1>8. ASSUME NEW m \in Msg, PublishFails(m) PROVE Inv'
  <2>1. /\ push[m].pc = "publish" /\ push[m].todo = {}
        /\ UNCHANGED <<sock, registered, listener, got>>
    BY <1>8 DEF PublishFails, Called
  <2>2. push' = [push EXCEPT ![m] = [push[m] EXCEPT !.pc = "done", !.todo = {}]]
    BY <1>8, <2>1 DEF PublishFails, TypeOK, Push
  <2>3. /\ push' \in [Msg -> Push]
        /\ \A n \in Msg : n # m => push'[n] = push[n]
        /\ push'[m].pc = "done" /\ push'[m].todo = {}
        /\ push'[m].at = push[m].at /\ push'[m].by = push[m].by /\ push'[m].to = push[m].to
    <3>1. "done" \in {"sending", "done", "raised"} /\ {} \in SUBSET Conn
      OBVIOUS
    <3> QED BY <2>2, <3>1, PushGoesOn
  <2>4. TypeOK'
    BY <1>8, <2>1, <2>3 DEF PublishFails, Fault, TypeOK
  <2>5. Placed' /\ Called' /\ RaisesOnlyForGonePeer'
    BY <2>1, <2>3 DEF Placed, Called, RaisesOnlyForGonePeer
  <2>6. Unsent' /\ AtMostOnce'
    BY <2>1, <2>3 DEF Unsent, AtMostOnce
  <2>7. Inboxes'
    BY <2>1, <2>3, InboxesKept
  <2> QED BY <2>4, <2>5, <2>6, <2>7
<1>9. ASSUME NEW m \in Msg, NEW w \in Worker, NEW by \in Conn \cup {"handler"}, NEW to \in
   User, StartPush(m, w, by, to) PROVE Inv'
  <2>1. TypeOK'
    BY <1>9 DEF StartPush, Local, Owed, TypeOK, Sock, Push, Listener
  <2>2. Placed'
    BY <1>9 DEF StartPush, Local, Owed, TypeOK, Sock, Push, Listener, Placed
  <2>3. Called'
    BY <1>9 DEF StartPush, Local, Owed, TypeOK, Sock, Push, Listener, Called, Placed
  <2>4. Unsent'
    BY <1>9 DEF StartPush, Local, Owed, TypeOK, Sock, Push, Listener, Unsent
  <2>5. Inboxes'
    BY <1>9 DEF StartPush, Local, Owed, TypeOK, Sock, Push, Listener, Inboxes, Received,
       Undelivered, Forwarding
  <2>6. AtMostOnce'
    BY <1>9 DEF StartPush, Local, Owed, TypeOK, Sock, Push, Listener, AtMostOnce
  <2>7. RaisesOnlyForGonePeer'
    BY <1>9 DEF StartPush, Local, Owed, TypeOK, Sock, Push, Listener,
       RaisesOnlyForGonePeer
  <2> QED BY <2>1, <2>2, <2>3, <2>4, <2>5, <2>6, <2>7
<1>10. ASSUME NEW w \in Worker, Take(w) PROVE Inv'
  <2> DEFINE todo == Local(w, push[Head(listener[w].inbox)].to)
  <2>1. /\ listener[w].pc = "listening" /\ listener[w].inbox # <<>>
        /\ listener[w].inbox \in Seq(Msg) /\ Forwarded(w, todo)
        /\ UNCHANGED <<sock, registered, push, got, owed>>
    BY <1>10 DEF Take, TypeOK, Listener
  <2>2. todo \in SUBSET Conn /\ \A c \in todo : c \in Conn /\ sock[c].at = w
    BY DEF Local, TypeOK, Placed
  <2> HIDE DEF todo
  <2>3. /\ listener' \in [Worker -> Listener]
        /\ \A v \in Worker : v # w => listener'[v] = listener[v]
        /\ todo = {} => /\ listener'[w].pc = "listening" /\ listener'[w].todo = {}
                        /\ listener'[w].inbox = Tail(listener[w].inbox)
        /\ todo # {} => /\ listener'[w].pc = "forwarding" /\ listener'[w].todo = todo
                        /\ listener'[w].inbox = listener[w].inbox
    BY <2>1, <2>2, Forwards
  <2>4. TypeOK' /\ Placed' /\ Called'
    BY <2>1, <2>3 DEF TypeOK, Placed, Called
  <2>5. Unsent' /\ AtMostOnce' /\ RaisesOnlyForGonePeer'
    BY <2>1 DEF Unsent, AtMostOnce, RaisesOnlyForGonePeer
  <2>6. ASSUME NEW v \in Worker
        PROVE  (Received(v) /\ Undelivered(v) /\ Forwarding(v))'
    <3> USE DEF Received, Undelivered, Forwarding
    <3>1. CASE v # w
      BY <2>1, <2>3, <3>1 DEF Inboxes
    <3> DEFINE s == listener[w].inbox
    <3>2. /\ Len(Tail(s)) = Len(s) - 1 /\ Len(s) \in Nat /\ 1 \in 1..Len(s)
          /\ \A i \in 1..Len(Tail(s)) : Tail(s)[i] = s[i + 1] /\ i + 1 \in 1..Len(s)
      BY <2>1, Taken
    <3>3. CASE v = w /\ todo = {}
      <4> DEFINE t == Tail(s)
      <4>1. listener'[w].inbox = t /\ listener'[w].pc = "listening"
        BY <2>3, <3>3
      <4>2. /\ \A i \in 1..Len(t) : t[i] = s[i + 1] /\ i + 1 \in 1..Len(s)
            /\ \A i \in 1..Len(t) : i + 1 > 1
            /\ \A i, k \in 1..Len(t) : i + 1 = k + 1 => i = k
        BY <3>2
      <4> HIDE DEF t
      <4>3. Received(w)'
        BY <2>1, <4>1, <4>2 DEF Inboxes
      <4>4. Undelivered(w)' /\ Forwarding(w)'
        <5>1. ASSUME NEW i \in 1..Len(t), NEW c \in Conn, sock[c].at = w
              PROVE  got[t[i]][c] = 0
          <6>1. Undelivered(w) /\ t[i] = s[i + 1] /\ i + 1 \in 1..Len(s)
            BY <4>2 DEF Inboxes
          <6> QED BY <2>1, <5>1, <6>1
        <5> QED BY <2>1, <4>1, <5>1
      <4> QED BY <3>3, <4>3, <4>4
    <3>4. CASE v = w /\ todo # {}
      BY <2>1, <2>2, <2>3, <3>2, <3>4 DEF Inboxes
    <3> QED BY <3>1, <3>3, <3>4
  <2>7. Inboxes'
    BY <2>6 DEF Inboxes
  <2> QED BY <2>4, <2>5, <2>7
<1>11. ASSUME NEW w \in Worker, Retry(w) PROVE Inv'
  <2>1. listener[w].pc = "sleeping" /\ UNCHANGED <<sock, registered, push, got, owed>>
    BY <1>11 DEF Retry
  <2>2. /\ listener' \in [Worker -> Listener]
        /\ \A v \in Worker : v # w => listener'[v] = listener[v]
        /\ listener'[w].pc = "connecting" /\ listener'[w].inbox = listener[w].inbox
        /\ listener'[w].todo = listener[w].todo
    BY <1>11, ListenerTurns DEF Retry
  <2>3. TypeOK' /\ Placed' /\ Called'
    BY <2>1, <2>2 DEF TypeOK, Placed, Called
  <2>4. Unsent' /\ AtMostOnce' /\ RaisesOnlyForGonePeer'
    BY <2>1 DEF Unsent, AtMostOnce, RaisesOnlyForGonePeer
  <2>5. Inboxes'
    BY <2>1, <2>2 DEF Inboxes, Received, Undelivered, Forwarding
  <2> QED BY <2>3, <2>4, <2>5
<1>12. ASSUME NEW w \in Worker, NEW c \in Conn, ForwardWrite(w, c) PROVE Inv'
  <2> DEFINE s == listener[w].inbox
             m == s[1]
             todo == listener[w].todo \ {c}
  <2>1. /\ listener[w].pc = "forwarding" /\ s # <<>> /\ s \in Seq(Msg)
        /\ c \in listener[w].todo /\ sock[c].at = w
        /\ \A d \in listener[w].todo : sock[d].at = w /\ got[m][d] = 0
        /\ UNCHANGED <<sock, registered, push, owed>>
    BY <1>12 DEF ForwardWrite, TypeOK, Listener, Inboxes, Forwarding
  <2>2. /\ Len(Tail(s)) = Len(s) - 1 /\ Len(s) \in Nat /\ 1 \in 1..Len(s)
        /\ \A i \in 1..Len(Tail(s)) : Tail(s)[i] = s[i + 1] /\ i + 1 \in 1..Len(s)
        /\ Head(s) = m /\ m \in Msg
    BY <2>1, Taken
  <2>3. /\ got' \in [Msg -> [Conn -> 0..2]]
        /\ \A n \in Msg, d \in Conn : (n # m \/ d # c) => got'[n][d] = got[n][d]
        /\ got'[m][c] <= 1
    BY <1>12, <2>1, <2>2, Writing DEF ForwardWrite
  <2>4. todo \in SUBSET Conn /\ Forwarded(w, todo)
    BY <1>12 DEF ForwardWrite, TypeOK, Listener
  <2>5. /\ listener' \in [Worker -> Listener]
        /\ \A v \in Worker : v # w => listener'[v] = listener[v]
        /\ todo = {} => /\ listener'[w].pc = "listening" /\ listener'[w].todo = {}
                        /\ listener'[w].inbox = Tail(s)
        /\ todo # {} => /\ listener'[w].pc = "forwarding" /\ listener'[w].todo = todo
                        /\ listener'[w].inbox = s
    BY <2>1, <2>4, Forwards
  <2>6. push[m].pc = "done" /\ \A i \in 1..Len(s) : s[i] \in Msg /\ (s[i] = m => i = 1)
    BY <2>1, <2>2 DEF Inboxes, Received
  <2>7. TypeOK' /\ Placed' /\ Called' /\ RaisesOnlyForGonePeer'
    BY <2>1, <2>3, <2>5 DEF TypeOK, Placed, Called, RaisesOnlyForGonePeer
  <2>8. AtMostOnce'
    BY <2>3 DEF AtMostOnce
  <2>9. Unsent'
    BY <2>1, <2>2, <2>3, <2>6 DEF Unsent
  <2>10. ASSUME NEW v \in Worker
         PROVE  (Received(v) /\ Undelivered(v) /\ Forwarding(v))'
    <3>1. /\ Received(v) /\ Undelivered(v) /\ Forwarding(v)
          /\ \A i \in 1..Len(listener[v].inbox) : listener[v].inbox[i] \in Msg
          /\ listener[v].inbox # <<>> => listener[v].inbox[1] \in Msg
          /\ \A d \in listener[v].todo : d \in Conn
      BY DEF Inboxes, TypeOK, Listener
    <3>2. CASE v # w
      BY <2>1, <2>3, <2>5, <3>1, <3>2 DEF Received, Undelivered, Forwarding
    <3> HIDE DEF m
    <3>3. CASE v = w /\ todo = {}
      <4> DEFINE t == Tail(s)
      <4>1. listener'[w].inbox = t /\ listener'[w].pc = "listening"
        BY <2>5, <3>3
      <4>2. /\ \A i \in 1..Len(t) : /\ t[i] = s[i + 1] /\ i + 1 \in 1..Len(s)
                                    /\ i + 1 > 1 /\ i + 1 # 1
            /\ \A i, k \in 1..Len(t) : i + 1 = k + 1 => i = k
        BY <2>2
      <4>3. \A i \in 1..Len(t) : t[i] \in Msg /\ t[i] # m
        BY <2>6, <4>2
      <4> HIDE DEF t
      <4>4. Received(w)'
        BY <2>1, <3>1, <3>3, <4>1, <4>2 DEF Received
      <4>5. Undelivered(w)'
        <5>1. ASSUME NEW i \in 1..Len(t), NEW d \in Conn, sock[d].at = w
              PROVE  got'[t[i]][d] = 0
          <6>1. got[s[i + 1]][d] = 0
            BY <3>1, <3>3, <4>2, <5>1 DEF Undelivered
          <6> QED BY <2>3, <4>2, <4>3, <6>1
        <5> QED BY <2>1, <4>1, <5>1 DEF Undelivered
      <4>6. Forwarding(w)'
        BY <4>1 DEF Forwarding
      <4> QED BY <3>3, <4>4, <4>5, <4>6
    <3>4. CASE v = w /\ todo # {}
      <4>1. Received(w)'
        BY <2>1, <2>5, <3>1, <3>4 DEF Received
      <4>2. Undelivered(w)'
        BY <2>1, <2>2, <2>3, <2>5, <2>6, <3>1, <3>4 DEF Undelivered
      <4>3. Forwarding(w)'
        BY <2>1, <2>2, <2>3, <2>5, <3>1, <3>4 DEF Forwarding, m
      <4> QED BY <3>4, <4>1, <4>2, <4>3
    <3> QED BY <3>2, <3>3, <3>4
  <2>11. Inboxes'
    BY <2>10 DEF Inboxes
  <2> QED BY <2>7, <2>8, <2>9, <2>11
<1>13. ASSUME NEW w \in Worker, NEW c \in Conn, ForwardRaises(w, c) PROVE Inv'
  <2>1. TypeOK'
    BY <1>13 DEF ForwardRaises, Sleep, Fault, TypeOK, Sock, Push, Listener
  <2>2. Placed'
    BY <1>13 DEF ForwardRaises, Sleep, Fault, TypeOK, Sock, Push, Listener, Placed
  <2>3. Called'
    BY <1>13 DEF ForwardRaises, Sleep, Fault, TypeOK, Sock, Push, Listener, Called
  <2>4. Unsent'
    BY <1>13 DEF ForwardRaises, Sleep, Fault, TypeOK, Sock, Push, Listener, Unsent
  <2>5. Inboxes'
    BY <1>13 DEF ForwardRaises, Sleep, Fault, TypeOK, Sock, Push, Listener, Inboxes,
       Received, Undelivered, Forwarding
  <2>6. AtMostOnce'
    BY <1>13 DEF ForwardRaises, Sleep, Fault, TypeOK, Sock, Push, Listener, AtMostOnce
  <2>7. RaisesOnlyForGonePeer'
    BY <1>13 DEF ForwardRaises, Sleep, Fault, TypeOK, Sock, Push, Listener,
       RaisesOnlyForGonePeer
  <2> QED BY <2>1, <2>2, <2>3, <2>4, <2>5, <2>6, <2>7
<1>14. ASSUME NEW w \in Worker, Subscribe(w) PROVE Inv'
  <2>1. listener[w].pc = "connecting" /\ UNCHANGED <<sock, registered, push, got, owed>>
    BY <1>14 DEF Subscribe
  <2>2. /\ listener' \in [Worker -> Listener]
        /\ \A v \in Worker : v # w => listener'[v] = listener[v]
        /\ listener'[w].pc = "listening" /\ listener'[w].inbox = listener[w].inbox
        /\ listener'[w].todo = listener[w].todo
    BY <1>14, ListenerTurns DEF Subscribe
  <2>3. TypeOK' /\ Placed' /\ Called'
    BY <2>1, <2>2 DEF TypeOK, Placed, Called
  <2>4. Unsent' /\ AtMostOnce' /\ RaisesOnlyForGonePeer'
    BY <2>1 DEF Unsent, AtMostOnce, RaisesOnlyForGonePeer
  <2>5. Inboxes'
    BY <2>1, <2>2 DEF Inboxes, Received, Undelivered, Forwarding
  <2> QED BY <2>3, <2>4, <2>5
<1>15. ASSUME NEW w \in Worker, RedisLost(w) PROVE Inv'
  <2>1. TypeOK'
    BY <1>15 DEF RedisLost, Sleep, Fault, TypeOK, Sock, Push, Listener
  <2>2. Placed'
    BY <1>15 DEF RedisLost, Sleep, Fault, TypeOK, Sock, Push, Listener, Placed
  <2>3. Called'
    BY <1>15 DEF RedisLost, Sleep, Fault, TypeOK, Sock, Push, Listener, Called
  <2>4. Unsent'
    BY <1>15 DEF RedisLost, Sleep, Fault, TypeOK, Sock, Push, Listener, Unsent
  <2>5. Inboxes'
    BY <1>15 DEF RedisLost, Sleep, Fault, TypeOK, Sock, Push, Listener, Inboxes,
       Received, Undelivered, Forwarding
  <2>6. AtMostOnce'
    BY <1>15 DEF RedisLost, Sleep, Fault, TypeOK, Sock, Push, Listener, AtMostOnce
  <2>7. RaisesOnlyForGonePeer'
    BY <1>15 DEF RedisLost, Sleep, Fault, TypeOK, Sock, Push, Listener,
       RaisesOnlyForGonePeer
  <2> QED BY <2>1, <2>2, <2>3, <2>4, <2>5, <2>6, <2>7
<1>16. ASSUME NEW w \in Worker, Shutdown(w) PROVE Inv'
  <2>1. /\ \A v \in Worker : v # w => listener'[v] = listener[v]
        /\ listener'[w].pc = "stopped" /\ listener'[w].inbox = <<>> /\ listener'[w].todo = {}
        /\ listener' \in [Worker -> Listener]
    <3>1. [pc |-> "stopped", inbox |-> <<>>, todo |-> {}] \in Listener
      BY DEF Listener
    <3> QED BY <1>16, <3>1 DEF Shutdown, TypeOK
  <2>2. ASSUME NEW c \in Conn
        PROVE  /\ sock'[c] \in Sock /\ sock'[c].at = sock[c].at
               /\ sock'[c].status = "new" <=> sock[c].status = "new"
               /\ sock'[c].status = "open" => sock[c].status = "open"
    <3>1. sock'[c] = IF sock[c].at = w THEN [sock[c] EXCEPT !.status = "closed"] ELSE sock[c]
      BY <1>16 DEF Shutdown
    <3> QED BY <3>1 DEF TypeOK, Sock, Placed
  <2>3. ASSUME NEW m \in Msg
        PROVE  /\ push'[m] \in Push
               /\ push'[m].at = push[m].at /\ push'[m].by = push[m].by
               /\ push'[m].to = push[m].to
               /\ \/ push'[m].pc = push[m].pc /\ push'[m].todo = push[m].todo
                  \/ /\ push[m].pc \in {"sending", "publish"}
                     /\ push'[m].pc = "done" /\ push'[m].todo = {}
    <3> DEFINE next == [push[m] EXCEPT !.pc = "done", !.todo = {}]
    <3>1. /\ next \in Push /\ next.pc = "done" /\ next.todo = {}
          /\ next.at = push[m].at /\ next.by = push[m].by /\ next.to = push[m].to
      BY DEF TypeOK, Push
    <3>2. push'[m] = IF push[m].at = w /\ push[m].pc \in {"sending", "publish"}
                     THEN next ELSE push[m]
      BY <1>16 DEF Shutdown
    <3> HIDE DEF next
    <3> QED BY <3>1, <3>2 DEF TypeOK
  <2>4. /\ \A v \in Worker : registered'[v] \subseteq registered[v]
        /\ registered' \in [Worker -> SUBSET Conn] /\ UNCHANGED got
    BY <1>16 DEF Shutdown, TypeOK
  <2>5. TypeOK'
    <3>1. sock' \in [Conn -> Sock]
      BY <1>16, <2>2 DEF Shutdown
    <3>2. push' \in [Msg -> Push]
      BY <1>16, <2>3 DEF Shutdown
    <3>3. owed' \in [Msg -> SUBSET Conn]
      BY <1>16 DEF Shutdown, Fault
    <3> QED BY <2>1, <2>4, <3>1, <3>2, <3>3 DEF TypeOK
  <2>6. Placed'
    BY <2>2, <2>4 DEF Placed, TypeOK
  <2>7. Called'
    <3>1. \A m \in Msg : push[m].todo \subseteq Conn
      BY DEF TypeOK, Push
    <3> QED BY <2>2, <2>3, <3>1 DEF Called
  <2>8. Unsent' /\ AtMostOnce'
    BY <2>2, <2>3, <2>4 DEF Unsent, AtMostOnce
  <2>9. RaisesOnlyForGonePeer'
    BY <2>2, <2>3 DEF RaisesOnlyForGonePeer
  <2>10. ASSUME NEW v \in Worker
         PROVE  (Received(v) /\ Undelivered(v) /\ Forwarding(v))'
    <3>1. CASE v = w
      <4>1. 1..Len(<<>>) = {}
        OBVIOUS
      <4> QED BY <2>1, <3>1, <4>1 DEF Received, Undelivered, Forwarding
    <3>2. CASE v # w
      <4>1. /\ \A i \in 1..Len(listener[v].inbox) : listener[v].inbox[i] \in Msg
            /\ \A c \in listener[v].todo : c \in Conn
            /\ listener'[v] = listener[v]
            /\ Received(v) /\ Undelivered(v) /\ Forwarding(v)
        BY <2>1, <3>2 DEF TypeOK, Listener, Inboxes
      <4>2. Received(v)'
        BY <2>3, <4>1 DEF Received
      <4>3. Undelivered(v)' /\ Forwarding(v)'
        BY <2>2, <2>4, <4>1 DEF Undelivered, Forwarding
      <4> QED BY <4>2, <4>3
    <3> QED BY <3>1, <3>2
  <2>11. Inboxes'
    BY <2>10 DEF Inboxes
  <2> QED BY <2>5, <2>6, <2>7, <2>8, <2>9, <2>11
<1>17. ASSUME NEW w \in Worker, Startup(w) PROVE Inv'
  <2>1. listener[w].pc = "stopped" /\ UNCHANGED <<sock, registered, push, got, owed>>
    BY <1>17 DEF Startup
  <2>2. /\ listener' \in [Worker -> Listener]
        /\ \A v \in Worker : v # w => listener'[v] = listener[v]
        /\ listener'[w].pc = "connecting" /\ listener'[w].inbox = listener[w].inbox
        /\ listener'[w].todo = listener[w].todo
    BY <1>17, ListenerTurns DEF Startup
  <2>3. TypeOK' /\ Placed' /\ Called'
    BY <2>1, <2>2 DEF TypeOK, Placed, Called
  <2>4. Unsent' /\ AtMostOnce' /\ RaisesOnlyForGonePeer'
    BY <2>1 DEF Unsent, AtMostOnce, RaisesOnlyForGonePeer
  <2>5. Inboxes'
    BY <2>1, <2>2 DEF Inboxes, Received, Undelivered, Forwarding
  <2> QED BY <2>3, <2>4, <2>5
<1>18. CASE UNCHANGED vars
  BY <1>18 DEF vars, TypeOK, Placed, Called, Unsent, Inboxes, AtMostOnce,
     RaisesOnlyForGonePeer, Received, Undelivered, Forwarding
<1> QED BY <1>1, <1>2, <1>3, <1>4, <1>5, <1>6, <1>7, <1>8, <1>9, <1>10, <1>11, <1>12,
   <1>13, <1>14, <1>15, <1>16, <1>17, <1>18 DEF Next, PushStep, ListenerStep

\* The invariant holds throughout.
THEOREM Invariance == Spec => []Inv
  BY InvInit, InvNext, PTL DEF Spec

\* The state of sockets, calls and listeners stays well formed.
THEOREM TypeCorrect == Spec => []TypeOK
  BY Invariance, PTL DEF Inv

\* No socket gets a message twice, by whatever way.
THEOREM NoDuplicates == Spec => []AtMostOnce
  BY Invariance, PTL DEF Inv

\* publish_to_user raises into its caller only for a socket of the recipient
\* that has gone.
THEOREM RaisesAreExplained == Spec => []RaisesOnlyForGonePeer
  BY Invariance, PTL DEF Inv
=============================================================================
