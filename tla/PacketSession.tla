--------------------------- MODULE PacketSession ---------------------------
(***************************************************************************)
(* What the proxy promises a client, packet by packet: requests are        *)
(* answered in order, and once a login is let through the client has, byte *)
(* for byte, sent the server its login handshake and everything from the   *)
(* login start on.  How the bytes are cut up on the way does not matter.   *)
(***************************************************************************)
EXTENDS PacketStream

CONSTANT Scripts   \* the packets a client may send, in order

VARIABLES
    todo,      \* packets not yet handled
    mode,      \* handshake, status, login, joined or closed
    owed,      \* bytes that belong to the server
    replies    \* what the client was answered

Init ==
    /\ todo \in Scripts /\ mode = "handshake"
    /\ owed = <<>> /\ replies = <<>>

\* The next packet has one of these ids, in this mode.
Upcoming(in, ids) ==
    mode = in /\ todo # <<>> /\ IsPacket(Head(todo)) /\ PacketId(Head(todo)) \in ids

Handshake ==
    /\ Upcoming("handshake", {0})
    /\ Known(PacketData(Head(todo)))
    /\ mode' = FromId(PacketData(Head(todo)))
    /\ owed' = IF mode' = "login" THEN Encode(Head(todo)) ELSE owed
    /\ todo' = Tail(todo)
    /\ UNCHANGED replies

Answer ==
    /\ \/ Upcoming("status", {0}) /\ replies' = Append(replies, "status")
       \/ Upcoming("status", {1}) /\ replies' = Append(replies, "pong")
    /\ todo' = Tail(todo)
    /\ UNCHANGED <<mode, owed>>

\* The rest of the stream goes to the server as it is.
LogIn ==
    /\ Upcoming("login", {0})
    /\ owed' = owed \o EncodeAll(todo)
    /\ mode' = "joined" /\ todo' = <<>>
    /\ UNCHANGED replies

\* A packet that means nothing in this mode.
Skip ==
    /\ \/ Upcoming("handshake", Nat \ {0}) \/ Upcoming("login", Nat \ {0})
       \/ Upcoming("status", Nat \ {0, 1})
    /\ todo' = Tail(todo)
    /\ UNCHANGED <<mode, owed, replies>>

\* Either side may end it; a client in login is told why, or just dropped.
Close ==
    /\ mode # "closed"
    /\ mode' = "closed" /\ todo' = <<>> /\ owed' = <<>>
    /\ \/ UNCHANGED replies
       \/ mode \in {"login", "joined"} /\ replies' = Append(replies, "kick")

Next == Handshake \/ Answer \/ LogIn \/ Skip \/ Close

Spec == Init /\ [][Next]_<<todo, mode, owed, replies>>
=============================================================================
