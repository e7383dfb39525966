--------------------------- MODULE ClientSession ---------------------------
(***************************************************************************)
(* One connection from its first byte to its last: status.rs reads packets *)
(* from the stream and answers them until a login starts, the join methods *)
(* keep the client, and proxy.rs relays what was read ahead and then       *)
(* everything else, both ways.  TCP keeps the order of bytes and cuts them *)
(* as it likes; either side may close or break the connection.             *)
(***************************************************************************)
EXTENDS PacketStream

CONSTANTS
    Scripts,     \* the payloads a client may send, in order
    ServerBytes, \* how many bytes the server sends once connected
    BufSize      \* how much one read may return

ASSUME BufSizeIsPositive == BufSize \in Nat \ {0}
ASSUME ServerBytesTyped  == ServerBytes \in Nat
ASSUME ScriptsTyped      == Scripts \subseteq Seq(Seq(Byte))

VARIABLES
    script,       \* what the client sends, fixed
    wire,         \* bytes of the client that nobody read yet
    at,           \* read, occupied, queue, relay or closed
    client_state, \* the ClientState
    buf,          \* serve's BytesMut
    inbound_history,
    handled,      \* history: how many frames were taken off the stream
    replies,      \* what serve and kick wrote to the client
    outbound,     \* what was written to the server
    down,         \* how many of the server's bytes reached the client
    up_shut,      \* wo.shutdown() was called
    down_shut,    \* wi.shutdown() was called
    hung_up,      \* the client has closed its sending side
    server_done,  \* the server has closed its sending side
    broken        \* a read or write failed, or the server was not reached

serveVars == <<client_state, buf, inbound_history, handled>>
relayVars == <<outbound, down, up_shut, down_shut>>
peerVars  == <<hung_up, server_done, broken>>
vars == <<script, wire, at, serveVars, replies, relayVars, peerVars>>

Init ==
    /\ script \in Scripts /\ wire = EncodeAll(script)
    /\ at = "read" /\ client_state = "handshake"
    /\ buf = <<>> /\ inbound_history = <<>> /\ handled = 0
    /\ replies = <<>>
    /\ outbound = <<>> /\ down = 0 /\ up_shut = FALSE /\ down_shut = FALSE
    /\ hung_up = FALSE /\ server_done = FALSE /\ broken = FALSE

-----------------------------------------------------------------------------
(* read_packet.                                                            *)

Chunks == {k \in 1 .. BufSize : k <= Len(wire)}

ReadMore ==
    /\ at = "read" /\ Incomplete(buf)
    /\ \E k \in Chunks : buf' = buf \o Take(wire, k) /\ wire' = Drop(wire, k)
    /\ UNCHANGED <<at, client_state, inbound_history, handled, replies>>

\* End of stream, whatever is in the buffer.
ReadNothing ==
    /\ at = "read" /\ Incomplete(buf)
    /\ wire = <<>> /\ hung_up
    /\ at' = "closed"
    /\ UNCHANGED <<wire, serveVars, replies>>

RefuseLength ==
    /\ at = "read" /\ BadLength(buf)
    /\ at' = "closed"
    /\ UNCHANGED <<wire, serveVars, replies>>

Ready == at = "read" /\ ~Incomplete(buf) /\ ~BadLength(buf)

Raw  == Take(buf, FrameLen(buf))
Rest == Drop(buf, FrameLen(buf))
Body == Payload(Raw)

TakeFrame == buf' = Rest /\ handled' = handled + 1

\* A frame that holds no packet: "Closing connection, error occurred".
RefuseFrame ==
    /\ Ready /\ ~IsPacket(Body)
    /\ TakeFrame
    /\ at' = "closed"
    /\ UNCHANGED <<wire, client_state, inbound_history, replies>>

-----------------------------------------------------------------------------
(* serve.                                                                  *)

Got(state, ids) ==
    Ready /\ IsPacket(Body) /\ client_state = state /\ PacketId(Body) \in ids

Handshake ==
    /\ Got("handshake", {0}) /\ Known(PacketData(Body))
    /\ client_state' = FromId(PacketData(Body))
    /\ inbound_history' = IF client_state' = "login" THEN inbound_history \o Raw
                          ELSE inbound_history
    /\ TakeFrame
    /\ UNCHANGED <<wire, at, replies>>

\* Malformed, or a switch into an unknown protocol state.
BadHandshake ==
    /\ Got("handshake", {0}) /\ ~Known(PacketData(Body))
    /\ TakeFrame
    /\ at' = "closed"
    /\ UNCHANGED <<wire, client_state, inbound_history, replies>>

Reply(id, what) ==
    /\ Got("status", {id})
    /\ TakeFrame
    /\ replies' = Append(replies, what)
    /\ UNCHANGED <<wire, at, client_state, inbound_history>>

\* Lockout, a ban or the whitelist: kicked, and no server is woken.
LoginRefused ==
    /\ Got("login", {0})
    /\ TakeFrame
    /\ replies' = Append(replies, "kick")
    /\ at' = "closed"
    /\ UNCHANGED <<wire, client_state, inbound_history>>

\* Mutant of Login: what was read ahead of the login is dropped.
LoginAlone ==
    /\ Got("login", {0})
    /\ TakeFrame
    /\ inbound_history' = inbound_history \o Raw
    /\ at' = "occupied"
    /\ UNCHANGED <<wire, client_state, replies>>

\* Server::start, and on to the join methods with all that was read so far.
Login ==
    /\ Got("login", {0})
    /\ inbound_history' = inbound_history \o Raw \o Rest
    /\ buf' = <<>> /\ handled' = handled + 1
    /\ at' = "occupied"
    /\ UNCHANGED <<wire, client_state, replies>>

Unhandled ==
    /\ \/ Got("handshake", Nat \ {0}) \/ Got("login", Nat \ {0})
       \/ Got("status", Nat \ {0, 1})
    /\ TakeFrame
    /\ UNCHANGED <<wire, at, client_state, inbound_history, replies>>

Serve ==
    /\ \/ ReadMore \/ ReadNothing \/ RefuseLength \/ RefuseFrame
       \/ Handshake \/ BadHandshake
       \/ Reply(0, "status") \/ Reply(1, "pong")
       \/ LoginRefused \/ Login \/ Unhandled
    /\ UNCHANGED <<script, relayVars, peerVars>>

-----------------------------------------------------------------------------
(* The join methods, as far as the stream goes.                            *)

\* kick, or no method left to occupy the client.
Dismissed ==
    /\ at = "occupied"
    /\ at' = "closed"
    /\ replies' = Append(replies, "kick") \/ UNCHANGED replies
    /\ UNCHANGED <<script, wire, serveVars, relayVars, peerVars>>

\* hold and forward hand the stream and its history to the proxy.
Connected ==
    /\ at = "occupied"
    /\ at' = "queue"
    /\ UNCHANGED <<script, wire, serveVars, replies, relayVars, peerVars>>

-----------------------------------------------------------------------------
(* proxy_with_queue.                                                       *)

Queue ==
    /\ at = "queue"
    /\ outbound' = inbound_history
    /\ at' = "relay"
    /\ UNCHANGED <<wire, down, up_shut, down_shut>>

CopyUp ==
    /\ at = "relay" /\ ~up_shut
    /\ \E k \in Chunks :
          outbound' = outbound \o Take(wire, k) /\ wire' = Drop(wire, k)
    /\ UNCHANGED <<at, down, up_shut, down_shut>>

ShutUp ==
    /\ at = "relay" /\ ~up_shut
    /\ wire = <<>> /\ hung_up
    /\ up_shut' = TRUE
    /\ UNCHANGED <<wire, at, outbound, down, down_shut>>

CopyDown ==
    /\ at = "relay" /\ ~down_shut
    /\ \E k \in 1 .. BufSize : down + k <= ServerBytes /\ down' = down + k
    /\ UNCHANGED <<wire, at, outbound, up_shut, down_shut>>

ShutDown ==
    /\ at = "relay" /\ ~down_shut
    /\ down = ServerBytes /\ server_done
    /\ down_shut' = TRUE
    /\ UNCHANGED <<wire, at, outbound, down, up_shut>>

\* Mutant of Joined: one finished direction ends the other.
JoinedEither ==
    /\ at = "relay" /\ (up_shut \/ down_shut)
    /\ at' = "closed"
    /\ UNCHANGED <<wire, relayVars>>

\* try_join! of two finished directions.
Joined ==
    /\ at = "relay" /\ up_shut /\ down_shut
    /\ at' = "closed"
    /\ UNCHANGED <<wire, relayVars>>

Up     == (Queue \/ CopyUp \/ ShutUp) /\ UNCHANGED <<script, serveVars, replies, peerVars>>
Down   == (CopyDown \/ ShutDown) /\ UNCHANGED <<script, serveVars, replies, peerVars>>
Finish == Joined /\ UNCHANGED <<script, serveVars, replies, peerVars>>

-----------------------------------------------------------------------------
(* The two peers.  What was sent before a side closes still arrives; one   *)
(* that stops in the middle of a frame counts as a break.                  *)

HangUp ==
    /\ at # "closed" /\ ~hung_up
    /\ hung_up' = TRUE
    /\ UNCHANGED <<script, wire, at, serveVars, replies, relayVars, server_done, broken>>

ServerCloses ==
    /\ at = "relay" /\ ~server_done
    /\ server_done' = TRUE
    /\ UNCHANGED <<script, wire, at, serveVars, replies, relayVars, hung_up, broken>>

\* A read, a write or the connection to the server fails: all is dropped.
Breaks ==
    /\ at # "closed"
    /\ at' = "closed" /\ broken' = TRUE
    /\ UNCHANGED <<script, wire, serveVars, replies, relayVars, hung_up, server_done>>

Next ==
    \/ Serve \/ Dismissed \/ Connected \/ Up \/ Down \/ Finish
    \/ HangUp \/ ServerCloses \/ Breaks

Spec == Init /\ [][Next]_vars

\* tokio polls a task that has something to read or room to write; nothing is
\* assumed of the peers, or of how long a client is kept occupied.
FairSpec ==
    Spec /\ WF_vars(Serve) /\ WF_vars(Up) /\ WF_vars(Down) /\ WF_vars(Finish)

-----------------------------------------------------------------------------
(* serve, the join methods and the proxy, for all the ways the stream may  *)
(* be cut, do what PacketSession says of whole packets: no byte is lost,   *)
(* repeated or reordered between the buffer of serve, the history it hands *)
(* on and the stream that the proxy goes on copying.                       *)

Mode ==
    CASE at = "closed" -> "closed"
      [] at = "read"   -> client_state
      [] OTHER         -> "joined"

Todo == IF at = "read" THEN SubSeq(script, handled + 1, Len(script)) ELSE <<>>

Owed ==
    CASE at = "read"                  -> inbound_history
      [] at \in {"occupied", "queue"} -> inbound_history \o wire
      [] at = "relay"                 -> outbound \o wire
      [] OTHER                        -> <<>>

Session == INSTANCE PacketSession WITH mode <- Mode, todo <- Todo, owed <- Owed

ImplementsPacketSession == Session!Spec

\* serve never sits on a packet that has arrived in full, however its bytes
\* were cut up, waiting for more of the client (read_packet's two loops).  The
\* one frame it does sit on holds no packet: a last one with nothing but its
\* length of 0, since the first loop waits for a second byte.
AllHandled ==
    (at = "read") ~> (at # "read" \/ Todo = <<>> \/ Todo = << <<>> >>)

\* What both sides sent reaches the other side, also when one of them closes
\* its direction first (proxy_inbound_outbound_with_queue).
RelayComplete ==
    (at = "relay") ~> (broken \/ (wire = <<>> /\ down = ServerBytes))
=============================================================================
