---------------------------- MODULE MCWsDelivery ----------------------------
(* WsDelivery with the sockets of one user; another has none. *)
EXTENDS WsDelivery

CONSTANT u1

OwnerOf == [c \in Conn |-> u1]
=============================================================================
