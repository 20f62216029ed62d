----------------------------- MODULE WsDelivery -----------------------------
(***************************************************************************)
(* Delivery of messages and notifications over WebSockets: the endpoint    *)
(* (app/api/websocket.py), the sockets each worker process keeps in memory *)
(* (services/connection_manager.py) and the Redis pub/sub bridge between   *)
(* workers (services/ws_pubsub.py), started by the lifespan of app/main.py.*)
(*                                                                         *)
(* A worker runs one event loop: a step is what happens between two        *)
(* awaits.  Redis and the network are not under src/; they are modelled by *)
(* what the code expects and handles of them.                              *)
(***************************************************************************)
EXTENDS Naturals, Sequences

CONSTANTS
  Worker, User, Conn, Msg,
  Owner         \* the user a socket was authenticated as (get_current_user_ws)

ASSUME AddressAssumption ==
  /\ Owner \in [Conn -> User]
  /\ "handler" \notin Conn /\ "none" \notin Worker \cup Conn \cup User

VARIABLES
  sock,         \* the sockets
  registered,   \* manager._connections of each worker
  push,         \* the calls of publish_to_user, one for each message
  listener,     \* run_pubsub_listener of each worker
  (* history *)
  got,          \* how often a message was put on a socket, up to 2
  owed          \* sockets a message must reach if nothing fails on the way

vars == <<sock, registered, push, listener, got, owed>>

\* broken: the peer has gone, and the endpoint has not noticed.
Sock == [status : {"new", "open", "broken", "closed"}, at : Worker \cup {"none"}]

\* by: an HTTP handler (assign_role) or the socket whose message this is;
\* to: the user it is for; todo: the sockets send_local has yet to write to.
Push == [pc : {"new", "sending", "publish", "done", "raised"}, at : Worker \cup {"none"},
         by : Conn \cup {"handler", "none"}, to : User \cup {"none"}, todo : SUBSET Conn]

Listener == [pc : {"connecting", "listening", "forwarding", "sleeping", "stopped"},
             inbox : Seq(Msg), todo : SUBSET Conn]

TypeOK ==
  /\ sock \in [Conn -> Sock]
  /\ registered \in [Worker -> SUBSET Conn]
  /\ push \in [Msg -> Push]
  /\ listener \in [Worker -> Listener]
  /\ got \in [Msg -> [Conn -> 0..2]]
  /\ owed \in [Msg -> SUBSET Conn]

-----------------------------------------------------------------------------
(* ConnectionManager *)

\* Mutated form: every socket of the worker.
Local_Everyone(w, u) == registered[w]

Local(w, u) == {c \in registered[w] : Owner[c] = u}

\* The endpoint of c is inside publish_to_user and not reading.
Busy(c) == \E m \in Msg : push[m].by = c /\ push[m].pc \in {"sending", "publish"}

Subscribed(w) == listener[w].pc \in {"listening", "forwarding"}

Fault == owed' = [m \in Msg |-> {}]

Connect(c, w) ==
  /\ sock[c].status = "new" /\ listener[w].pc # "stopped"
  /\ sock' = [sock EXCEPT ![c] = [status |-> "open", at |-> w]]
  /\ registered' = [registered EXCEPT ![w] = @ \cup {c}]
  /\ UNCHANGED <<push, listener, got, owed>>

PeerGone(c) ==
  /\ sock[c].status = "open"
  /\ sock' = [sock EXCEPT ![c].status = "broken"]
  /\ Fault
  /\ UNCHANGED <<registered, push, listener, got>>

\* Mutated form: the socket is not taken out of the manager.
CloseSocket_Leak(c) ==
  /\ sock' = [sock EXCEPT ![c].status = "closed"]
  /\ UNCHANGED registered

\* The endpoint returns: its finally clause calls manager.disconnect.
CloseSocket(c) ==
  /\ sock' = [sock EXCEPT ![c].status = "closed"]
  /\ registered' = [registered EXCEPT ![sock[c].at] = @ \ {c}]

\* receive_json raises WebSocketDisconnect.
Disconnect(c) ==
  /\ sock[c].status = "broken" /\ ~Busy(c)
  /\ CloseSocket(c)
  /\ UNCHANGED <<push, listener, got, owed>>

\* receive_json raises on a text that is not JSON, which nothing catches.
MalformedText(c) ==
  /\ sock[c].status = "open" /\ ~Busy(c)
  /\ CloseSocket(c)
  /\ Fault
  /\ UNCHANGED <<push, listener, got>>

\* send_json to c as part of sending m: it gets there, or is lost on its way
\* to a peer that has gone.
Write(m, c) ==
  \/ /\ sock[c].status = "open"
     /\ got' = [got EXCEPT ![m][c] = IF @ < 2 THEN @ + 1 ELSE 2]
  \/ sock[c].status = "broken" /\ UNCHANGED got

\* send_json raises when the peer has gone or the socket has been closed.
Raises(c) == sock[c].status # "open"

-----------------------------------------------------------------------------
(* publish_to_user, called by assign_role or by the sender's endpoint *)

\* What a push must reach: all sockets of the user, if they are on one
\* worker and the bridge is up.
Owed(u) ==
  LET all == {c \in Conn : Owner[c] = u /\ \E w \in Worker : c \in registered[w]} IN
  IF /\ \A w \in Worker : Subscribed(w)
     /\ \A c, d \in all : sock[c].status = "open" /\ sock[c].at = sock[d].at
  THEN all ELSE {}

StartPush(m, w, by, to) ==
  LET todo == Local(w, to) IN
  /\ push[m].pc = "new"
  /\ listener[w].pc # "stopped"
  /\ by # "handler" => by \in registered[w] /\ ~Busy(by)
  /\ push' = [push EXCEPT ![m] = [pc |-> IF todo = {} THEN "publish" ELSE "sending",
                                  at |-> w, by |-> by, to |-> to, todo |-> todo]]
  /\ owed' = [owed EXCEPT ![m] = Owed(to)]
  /\ UNCHANGED <<sock, registered, listener, got>>

\* Mutated form: a message that was delivered locally is published as well.
PushWrite_AlsoPublish(m, c) ==
  /\ push[m].pc = "sending" /\ c \in push[m].todo
  /\ Write(m, c)
  /\ push' = [push EXCEPT ![m].todo = @ \ {c},
                          ![m].pc = IF push[m].todo = {c} THEN "publish" ELSE @]
  /\ UNCHANGED <<sock, registered, listener, owed>>

\* Mutated form: send_local returns after the first socket.
PushWrite_First(m, c) ==
  /\ push[m].pc = "sending" /\ c \in push[m].todo
  /\ Write(m, c)
  /\ push' = [push EXCEPT ![m].todo = {}, ![m].pc = "done"]
  /\ UNCHANGED <<sock, registered, listener, owed>>

\* One turn of the loop of send_local over its copy of the set.
PushWrite(m, c) ==
  /\ push[m].pc = "sending" /\ c \in push[m].todo
  /\ Write(m, c)
  /\ push' = [push EXCEPT ![m].todo = @ \ {c},
                          ![m].pc = IF push[m].todo = {c} THEN "done" ELSE @]
  /\ UNCHANGED <<sock, registered, listener, owed>>

\* Nothing in publish_to_user catches what send_local raises.  In a handler
\* it becomes a 500; in an endpoint it ends the sender's own connection.
PushRaises(m, c) ==
  /\ push[m].pc = "sending" /\ c \in push[m].todo
  /\ Raises(c)
  /\ push' = [push EXCEPT ![m].pc = "raised", ![m].todo = {}]
  /\ IF push[m].by = "handler" THEN UNCHANGED <<sock, registered>> ELSE CloseSocket(push[m].by)
  /\ Fault
  /\ UNCHANGED <<listener, got>>

\* Redis passes the message to every worker that is subscribed now.
Publish(m) ==
  /\ push[m].pc = "publish"
  /\ push' = [push EXCEPT ![m].pc = "done"]
  /\ listener' = [w \in Worker |-> IF Subscribed(w)
                                   THEN [listener[w] EXCEPT !.inbox = Append(@, m)]
                                   ELSE listener[w]]
  /\ UNCHANGED <<sock, registered, got, owed>>

\* An error of the publish is logged and the message dropped.
PublishFails(m) ==
  /\ push[m].pc = "publish"
  /\ push' = [push EXCEPT ![m].pc = "done"]
  /\ Fault
  /\ UNCHANGED <<sock, registered, listener, got>>

-----------------------------------------------------------------------------
(* run_pubsub_listener *)

Subscribe(w) ==
  /\ listener[w].pc = "connecting"
  /\ listener' = [listener EXCEPT ![w].pc = "listening"]
  /\ UNCHANGED <<sock, registered, push, got, owed>>

Forwarded(w, todo) ==
  listener' = [listener EXCEPT ![w] =
                 IF todo = {}
                 THEN [pc |-> "listening", inbox |-> Tail(@.inbox), todo |-> {}]
                 ELSE [@ EXCEPT !.pc = "forwarding", !.todo = todo]]

Take(w) ==
  /\ listener[w].pc = "listening" /\ listener[w].inbox # <<>>
  /\ Forwarded(w, Local(w, push[Head(listener[w].inbox)].to))
  /\ UNCHANGED <<sock, registered, push, got, owed>>

ForwardWrite(w, c) ==
  /\ listener[w].pc = "forwarding" /\ c \in listener[w].todo
  /\ Write(Head(listener[w].inbox), c)
  /\ Forwarded(w, listener[w].todo \ {c})
  /\ UNCHANGED <<sock, registered, push, owed>>

\* The subscription is closed, and what it had received goes with it.
Sleep(w) == listener' = [listener EXCEPT ![w] = [pc |-> "sleeping", inbox |-> <<>>, todo |-> {}]]

ForwardRaises(w, c) ==
  /\ listener[w].pc = "forwarding" /\ c \in listener[w].todo
  /\ Raises(c)
  /\ Sleep(w)
  /\ Fault
  /\ UNCHANGED <<sock, registered, push, got>>

RedisLost(w) ==
  /\ listener[w].pc \in {"connecting", "listening"}
  /\ Sleep(w)
  /\ Fault
  /\ UNCHANGED <<sock, registered, push, got>>

\* Mutated form: an exception ends the listener for good.
Retry_Never(w) == FALSE /\ UNCHANGED vars

\* Five seconds later.
Retry(w) ==
  /\ listener[w].pc = "sleeping"
  /\ listener' = [listener EXCEPT ![w].pc = "connecting"]
  /\ UNCHANGED <<sock, registered, push, got, owed>>

-----------------------------------------------------------------------------
(* lifespan: the listener is cancelled; with the process go its sockets and *)
(* the calls it was running.                                                *)

Shutdown(w) ==
  /\ listener[w].pc # "stopped"
  /\ listener' = [listener EXCEPT ![w] = [pc |-> "stopped", inbox |-> <<>>, todo |-> {}]]
  /\ sock' = [c \in Conn |-> IF sock[c].at = w THEN [sock[c] EXCEPT !.status = "closed"]
                                               ELSE sock[c]]
  /\ registered' = [registered EXCEPT ![w] = {}]
  /\ push' = [m \in Msg |-> IF push[m].at = w /\ push[m].pc \in {"sending", "publish"}
                            THEN [push[m] EXCEPT !.pc = "done", !.todo = {}] ELSE push[m]]
  /\ Fault
  /\ UNCHANGED got

Startup(w) ==
  /\ listener[w].pc = "stopped"
  /\ listener' = [listener EXCEPT ![w].pc = "connecting"]
  /\ UNCHANGED <<sock, registered, push, got, owed>>

-----------------------------------------------------------------------------

Init ==
  /\ sock = [c \in Conn |-> [status |-> "new", at |-> "none"]]
  /\ registered = [w \in Worker |-> {}]
  /\ push = [m \in Msg |-> [pc |-> "new", at |-> "none", by |-> "none",
                         to |-> "none", todo |-> {}]]
  /\ listener = [w \in Worker |-> [pc |-> "stopped", inbox |-> <<>>, todo |-> {}]]
  /\ got = [m \in Msg |-> [c \in Conn |-> 0]]
  /\ owed = [m \in Msg |-> {}]

PushStep(m) ==
  \/ \E c \in Conn : PushWrite(m, c) \/ PushRaises(m, c)
  \/ Publish(m) \/ PublishFails(m)

ListenerStep(w) ==
  \/ Take(w) \/ Retry(w)
  \/ \E c \in Conn : ForwardWrite(w, c) \/ ForwardRaises(w, c)

Next ==
  \/ \E c \in Conn : \/ PeerGone(c) \/ Disconnect(c) \/ MalformedText(c)
                     \/ \E w \in Worker : Connect(c, w)
  \/ \E m \in Msg : \/ PushStep(m)
                    \/ \E w \in Worker, by \in Conn \cup {"handler"}, to \in User :
                         StartPush(m, w, by, to)
  \/ \E w \in Worker : \/ ListenerStep(w) \/ Subscribe(w) \/ RedisLost(w)
                       \/ Shutdown(w) \/ Startup(w)

Spec == Init /\ [][Next]_vars

\* The event loop goes on with every task that can go on; an endpoint notices
\* in the end that its peer has gone; Redis is not unreachable for ever.
FairSpec ==
  /\ Spec
  /\ \A m \in Msg : WF_vars(PushStep(m))
  /\ \A w \in Worker : WF_vars(ListenerStep(w)) /\ SF_vars(Subscribe(w))
  /\ \A c \in Conn : WF_vars(Disconnect(c))

-----------------------------------------------------------------------------
(* Properties *)

\* A message is put on a socket at most once, though publish_to_user may send
\* it directly and the listener of the same worker may receive it too.
AtMostOnce == \A m \in Msg, c \in Conn : got[m][c] <= 1

\* If no socket, worker or Redis fails meanwhile, a message for a user whose
\* sockets are all on one worker reaches every one of them, from any worker.
DeliveredUnlessFault ==
  \A m \in Msg, c \in Conn :
    (c \in owed[m]) ~> (got[m][c] > 0 \/ c \notin owed[m])

\* run_pubsub_listener: "Retries indefinitely if Redis is briefly unreachable
\* rather than dying on the first connection error".
ListenerRecovers ==
  \A w \in Worker : listener[w].pc = "sleeping" ~> listener[w].pc \in {"listening", "stopped"}

\* A socket whose peer has gone, or whose endpoint has ended, is dropped from
\* the manager in the end: also when the endpoint was in the middle of sending
\* to someone else, and when it ended by a text that is not JSON or by a push
\* that raised, and not by a disconnect.
GoneIsForgotten ==
  \A c \in Conn :
    sock[c].status \in {"broken", "closed"} ~> \A w \in Worker : c \notin registered[w]

\* README, WebSockets: delivery "never raises" and "doesn't fail the request
\* that triggered it".  publish_to_user raises into its caller only when a
\* socket of the very user the message is for, on the caller's own worker, has
\* gone or been closed; nobody else's socket and no Redis error can do that.
RaisesOnlyForGonePeer ==
  \A m \in Msg : push[m].pc = "raised" =>
    \E c \in Conn : /\ Owner[c] = push[m].to /\ sock[c].at = push[m].at
                    /\ sock[c].status # "open"
=============================================================================
