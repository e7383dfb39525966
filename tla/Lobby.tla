------------------------------- MODULE Lobby -------------------------------
(***************************************************************************)
(* The lobby join method (join/lobby.rs, lobby.rs): a client that logs in  *)
(* while the server starts is let into a world of the proxy's own, after   *)
(* the Forge login that the probe recorded has been replayed to it.  When  *)
(* the server is up the proxy logs in there in its name, waits for the     *)
(* join game packet, moves the client over with a respawn, throws away     *)
(* what the client sent to the lobby, and relays from then on.             *)
(*                                                                         *)
(* One client, beside the probe.  A frame of the server is one element of  *)
(* its stream; the client answers plugin requests with "response", sends   *)
(* "stray" packets in its login that answer nothing, and packets of the    *)
(* game in two halves, between which TCP may cut.                          *)
(***************************************************************************)
EXTENDS Probe

CONSTANT MaxHalves   \* how many halves of packets the client sends

ASSUME MaxHalvesTyped == MaxHalves \in Nat

VARIABLES
    at,         \* where the client's task is
    compression, \* the compression of the client, and of connect_to_server's
                 \* tmp_client
    asked,      \* plugin requests the client has yet to answer
    count,      \* drain_forge_responses: answers still expected
    inbox,      \* what the client sent and nobody read
    halves,     \* how many halves it has sent
    outbound,   \* what was relayed to the server
    script,     \* what the server sends on the connection made for the client
    sock,       \* the part of it that was not read yet
    server_buf, \* the part that was read and not handled
    shown,      \* the frames that were sent to the client
    hung_up     \* the client has closed its side

clientVars == <<asked, inbox, halves, hung_up>>
serverVars == <<script, sock, server_buf>>
lobbyVars  == <<at, compression, count, outbound, shown, clientVars, serverVars>>
vars == <<config, channelVars, probeVars, lobbyVars>>

Init ==
    /\ ProbeInit
    /\ at = "occupy" /\ compression = [client |-> -1, server |-> -1]
    /\ asked = 0 /\ count = 0 /\ inbox = <<>> /\ halves = 0 /\ hung_up = FALSE
    /\ outbound = <<>>
    /\ script = <<>> /\ sock = <<>> /\ server_buf = <<>>
    /\ shown = <<>>

-----------------------------------------------------------------------------
(* Into the lobby.                                                         *)

\* must_still_probe: a Forge server that was not probed yet.
Occupy ==
    /\ at = "occupy"
    /\ at' = IF ~config.forge THEN "enter" ELSE IF probed_join_game THEN "replay" ELSE "next"
    /\ UNCHANGED <<channelVars, compression, count, outbound, shown, clientVars, serverVars>>

\* The payload is read once to be sent ...
Replay ==
    /\ at = "replay" /\ at' = "count"
    /\ asked' = asked + Len(forge_payload)
    /\ shown' = shown \o forge_payload
    /\ UNCHANGED <<channelVars, compression, count, outbound, inbox, halves, hung_up, serverVars>>

\* Mutant of Count: the answer to the last request is not waited for.
CountButLast ==
    /\ at = "count" /\ at' = "responses"
    /\ count' = Len(forge_payload) - 1
    /\ UNCHANGED <<channelVars, compression, outbound, shown, clientVars, serverVars>>

\* ... and once more to count the answers.
Count ==
    /\ at = "count" /\ at' = "responses"
    /\ count' = Len(forge_payload)
    /\ UNCHANGED <<channelVars, compression, outbound, shown, clientVars, serverVars>>

\* Only an answer counts; whatever else comes is read and ignored.
Response ==
    /\ at = "responses" /\ count > 0 /\ inbox # <<>>
    /\ count' = IF Head(inbox) = "response" THEN count - 1 ELSE count
    /\ inbox' = Tail(inbox)
    /\ UNCHANGED <<channelVars, at, compression, outbound, shown, asked, halves, hung_up, serverVars>>

Replayed ==
    /\ at = "responses" /\ count = 0 /\ at' = "enter"
    /\ UNCHANGED <<channelVars, compression, count, outbound, shown, clientVars, serverVars>>

ClientGone ==
    /\ at = "responses" /\ count > 0 /\ inbox = <<>> /\ hung_up
    /\ at' = "closed"
    /\ UNCHANGED <<channelVars, compression, count, outbound, shown, clientVars, serverVars>>

\* One packet below the threshold, one at it, one above it.
Success == [id |-> "success", size |-> COMPRESSION_THRESHOLD - 1]
Respawn == [id |-> "respawn", size |-> COMPRESSION_THRESHOLD]
World   == [id |-> "lobby", size |-> COMPRESSION_THRESHOLD + 1]

Write(limit, packet) == Encode(limit, packet.id, packet.size)

Compresses == COMPRESSION_THRESHOLD >= 0

\* Mutant of Announced: compression is on before the client is told.
AnnouncedLate == IF Compresses THEN <<Encode(COMPRESSION_THRESHOLD, "compress", 1)>> ELSE <<>>

\* respond_set_compression, before set_compression.
Announced == IF Compresses THEN <<Encode(compression.client, "compress", 1)>> ELSE <<>>

\* Set compression, login success, and the packets of the lobby world.
Enter ==
    /\ at = "enter" /\ at' = "subscribe"
    /\ compression' = [compression EXCEPT !.client = IF Compresses THEN COMPRESSION_THRESHOLD ELSE @]
    /\ shown' = shown \o Announced
                 \o <<Write(compression'.client, Success), Write(compression'.client, World)>>
    /\ UNCHANGED <<channelVars, count, outbound, clientVars, serverVars>>

-----------------------------------------------------------------------------
(* wait_for_server.  Unlike hold, it does not look at the state itself.    *)

Wait ==
    /\ at = "subscribe" /\ at' = "wait"
    /\ Subscribe("lobby")
    /\ UNCHANGED <<compression, count, outbound, shown, clientVars, serverVars>>

WaitWoken ==
    /\ at = "wait" /\ Woken("lobby")
    /\ at' = Outcome("wait", "connect", "closed")
    /\ UNCHANGED <<compression, count, outbound, shown, clientVars, serverVars>>

-----------------------------------------------------------------------------
(* The connection to the server.                                           *)

Connect ==
    /\ at = "connect" /\ at' = "login"
    /\ script' \in {Wire(s) : s \in Sayable} /\ sock' = script'
    /\ UNCHANGED <<channelVars, compression, count, outbound, shown, clientVars, server_buf>>

\* read_packet takes what has arrived, which may be several packets.
ReadServer ==
    /\ at \in {"login", "join"} /\ server_buf = <<>>
    /\ \E n \in 1 .. Len(sock) :
          /\ server_buf' = SubSeq(sock, 1, n)
          /\ sock' = SubSeq(sock, n + 1, Len(sock))
    /\ UNCHANGED <<channelVars, at, compression, count, outbound, shown, clientVars, script>>

\* What read_packet hands out of the next frame; one that cannot be decoded
\* ends the visit (TimesOut).
Got == server_buf # <<>> /\ Decodes(compression.server, Head(server_buf))

\* SetCompression of the server is obeyed, whatever its threshold.
ServerCompresses ==
    /\ at = "login" /\ Got /\ Head(server_buf).id = "compress"
    /\ server_buf' = Tail(server_buf)
    /\ compression' = [compression EXCEPT !.server = config.threshold]
    /\ UNCHANGED <<channelVars, at, count, outbound, shown, clientVars, script, sock>>

\* connect_to_server: plugin requests are answered on the client's behalf.
ServerLogin ==
    /\ at = "login" /\ Got /\ Head(server_buf).id # "compress"
    /\ server_buf' = Tail(server_buf)
    /\ at' = CASE Head(server_buf).id = "success"                   -> "join"
               [] Head(server_buf).id \in {"encrypt", "disconnect"} -> "closed"
               [] OTHER                                             -> "login"
    /\ UNCHANGED <<channelVars, compression, count, outbound, shown, clientVars, script, sock>>

\* wait_for_server_join_game: what comes before it is left out.
ServerJoinGame ==
    /\ at = "join" /\ Got
    /\ server_buf' = Tail(server_buf)
    /\ at' = IF Head(server_buf).id = "join" THEN "ready" ELSE "join"
    /\ UNCHANGED <<channelVars, compression, count, outbound, shown, clientVars, script, sock>>

-----------------------------------------------------------------------------
(* Into the server's world.                                                *)

\* Title, sound, a second of warm-up, and the respawn.
Moves ==
    /\ at = "ready" /\ at' = "drain"
    /\ shown' = Append(shown, Write(compression.client, Respawn))
    /\ UNCHANGED <<channelVars, compression, count, outbound, clientVars, serverVars>>

\* drain_stream reads until there is nothing to read at the moment.
Drain ==
    /\ at = "drain"
    /\ IF inbox # <<>> THEN inbox' = <<>> /\ UNCHANGED at
                       ELSE at' = "route" /\ UNCHANGED inbox
    /\ UNCHANGED <<channelVars, compression, count, outbound, shown, asked, halves, hung_up, serverVars>>

\* Mutant of RouteProxy: what was read ahead from the server is dropped.
RouteWithoutQueue ==
    /\ at = "route" /\ at' = "relay"
    /\ server_buf' = <<>>
    /\ UNCHANGED <<channelVars, compression, count, outbound, shown, clientVars, script, sock>>

\* The queue of proxy_inbound_outbound_with_queue goes to the client first.
RouteProxy ==
    /\ at = "route" /\ at' = "relay"
    /\ shown' = shown \o server_buf
    /\ server_buf' = <<>>
    /\ UNCHANGED <<channelVars, compression, count, outbound, clientVars, script, sock>>

RelayDown ==
    /\ at = "relay" /\ sock # <<>>
    /\ shown' = Append(shown, Head(sock)) /\ sock' = Tail(sock)
    /\ UNCHANGED <<channelVars, at, compression, count, outbound, clientVars, script, server_buf>>

RelayUp ==
    /\ at = "relay" /\ inbox # <<>>
    /\ outbound' = Append(outbound, Head(inbox)) /\ inbox' = Tail(inbox)
    /\ UNCHANGED <<channelVars, at, compression, count, shown, asked, halves, hung_up, serverVars>>

\* Mutant of TimesOut: the client's answers are waited for without a limit.
TimesOutButForge ==
    /\ at \in {"wait", "connect", "login", "join"} /\ at' = "closed"
    /\ unseen' = unseen \ {"lobby"}
    /\ UNCHANGED <<watch, ever_sent, compression, count, outbound, shown, clientVars, serverVars>>

\* CLIENT_DRAIN_FORGE_TIMEOUT goes on regardless, and starts afresh with every
\* packet that was read; the timeouts of the lobby, SERVER_CONNECT_TIMEOUT and
\* SERVER_JOIN_GAME_TIMEOUT end it, as does a connection to the server that
\* fails, ends or sends something malformed.
TimesOut ==
    /\ \/ at = "responses" /\ count > 0 /\ inbox = <<>> /\ at' = "enter"
       \/ at \in {"wait", "connect", "login", "join"} /\ at' = "closed"
    /\ unseen' = unseen \ {"lobby"}
    /\ UNCHANGED <<watch, ever_sent, compression, count, outbound, shown, clientVars, serverVars>>

LobbySteps ==
    \/ Occupy \/ Replay \/ Count \/ Response \/ Replayed \/ ClientGone \/ Enter
    \/ Wait \/ WaitWoken
    \/ Connect \/ ReadServer \/ ServerCompresses \/ ServerLogin \/ ServerJoinGame
    \/ Moves \/ Drain \/ RouteProxy \/ RelayDown \/ RelayUp

-----------------------------------------------------------------------------
(* The rest of the world.                                                  *)

NamesOf(frames) == [n \in DOMAIN frames |-> frames[n].id]

\* The worlds, and the packets of the server, that the client was shown.
Seen ==
    LET worlds == {n \in DOMAIN shown : shown[n].id = "lobby"} IN
    IF worlds = {} THEN <<>>
    ELSE NamesOf(SubSeq(shown, CHOOSE n \in worlds : TRUE, Len(shown)))

\* Some task goes through update_state_from.
Announce ==
    /\ watch' \in States /\ ever_sent' = TRUE
    /\ unseen' = unseen \cup {w \in {"probe", "lobby"} :
                                 IF w = "probe" THEN probe = "wait" ELSE at = "wait"}
    /\ UNCHANGED <<config, probeVars, lobbyVars>>

Answer ==
    /\ asked > 0 /\ ~hung_up
    /\ asked' = asked - 1 /\ inbox' = Append(inbox, "response")
    /\ UNCHANGED <<config, channelVars, probeVars, at, compression, count, outbound, shown,
                   halves, hung_up, serverVars>>

\* Anything else that a client may send while its answers are waited for, as
\* often as it likes; one at a time is unread.
Strays ==
    /\ at = "responses" /\ ~hung_up
    /\ \A n \in DOMAIN inbox : inbox[n] # "stray"
    /\ inbox' = Append(inbox, "stray")
    /\ UNCHANGED <<config, channelVars, probeVars, at, compression, count, outbound, shown,
                   asked, halves, hung_up, serverVars>>

\* A client plays once it has seen a world.
Plays ==
    /\ Seen # <<>> /\ asked = 0 /\ ~hung_up /\ halves < MaxHalves
    /\ halves' = halves + 1
    /\ inbox' = Append(inbox, IF halves % 2 = 0 THEN "front" ELSE "back")
    /\ UNCHANGED <<config, channelVars, probeVars, at, compression, count, outbound, shown,
                   asked, hung_up, serverVars>>

HangsUp ==
    /\ ~hung_up /\ hung_up' = TRUE
    /\ UNCHANGED <<config, channelVars, probeVars, at, compression, count, outbound, shown,
                   asked, inbox, halves, serverVars>>

\* A read or a write fails, and all is dropped.
Breaks ==
    /\ at \notin {"next", "closed"} /\ at' = "closed"
    /\ unseen' = unseen \ {"lobby"}
    /\ UNCHANGED <<config, watch, ever_sent, probeVars, compression, count, outbound, shown,
                   clientVars, serverVars>>

Next ==
    \/ ProbeSteps /\ UNCHANGED <<config, lobbyVars>>
    \/ (LobbySteps \/ TimesOut) /\ UNCHANGED <<config, probeVars>>
    \/ Announce \/ Answer \/ Strays \/ Plays \/ HangsUp \/ Breaks

Spec == Init /\ [][Next]_vars

\* The task is polled when it can go on, and its timers fire.  Nothing is
\* assumed of the client, the probe, the server or its state.
FairSpec ==
    /\ Spec
    /\ WF_vars(LobbySteps /\ UNCHANGED <<config, probeVars>>)
    /\ WF_vars(TimesOut /\ UNCHANGED <<config, probeVars>>)

-----------------------------------------------------------------------------
Ats == {"occupy", "replay", "count", "responses", "enter", "subscribe", "wait",
        "connect", "login", "join", "ready", "drain", "route", "relay", "next", "closed"}

\* Every variable has its type; count is a usize, and does not wrap.
TypeOK ==
    /\ watch \in States /\ unseen \subseteq {"probe", "lobby"}
    /\ at \in Ats
    /\ asked \in Nat /\ count \in Nat /\ halves \in 0 .. MaxHalves
    /\ compression \in [client: Int, server: Int]
    /\ {sock, server_buf, shown, forge_payload} \subseteq Seq(Frames)

Place ==
    CASE at \in {"occupy", "replay", "count", "responses", "enter"}        -> "login"
      [] at \in {"subscribe", "wait", "connect", "login", "join", "ready"} -> "lobby"
      [] at \in {"drain", "route", "relay"}                                -> "game"
      [] OTHER                                                             -> "gone"

Owed == IF Place = "game" THEN NamesOf(server_buf \o sock) ELSE <<>>

\* The client of a starting server is moved over as LobbyVisit says, however
\* much of the server's stream was read ahead with the login and the join game
\* (lobby.rs, three readers of one server_buf, and route_proxy).
Visit == INSTANCE LobbyVisit WITH
    Scripts <- {NamesOf(s) : s \in Scripts},
    place <- Place, script <- NamesOf(script), owed <- Owed, shown <- Seen

ImplementsLobbyVisit == Visit!Spec

\* What a client that was shown some frames has been told.
Limit(frames) ==
    IF \E n \in DOMAIN frames : frames[n].id = "compress" THEN COMPRESSION_THRESHOLD ELSE -1

\* Two connections become one, and nobody decodes what passes from then on.
\* The client can still read every frame it is sent, the recorded Forge login,
\* the lobby's own and the server's, unless the server compresses more than the
\* client was told, or does not compress at all ("this may cause errors",
\* "this will cause errors"); and the proxy can read what the server says to it
\* on either connection, whatever the server's threshold (lobby.rs, probe.rs).
FramesReadable ==
    /\ config.threshold >= COMPRESSION_THRESHOLD =>
          \A n \in DOMAIN shown : Reads(Limit(SubSeq(shown, 1, n - 1)), shown[n])
    /\ at \in {"login", "join"} /\ server_buf # <<>> =>
          Decodes(compression.server, Head(server_buf))
    /\ probe \in {"login", "play"} /\ coming # <<>> =>
          Decodes(probe_compression, Head(coming))

\* No client is kept in the lobby for ever: not by a server that does not
\* start, answer or let it join, and not by a replay that raced the probe and
\* waits for answers to requests it has never sent.  Only the client itself can
\* stay: each packet it sends that answers nothing starts the timeout of
\* drain_forge_responses afresh.
VisitEnds == <>(at \in {"relay", "next", "closed"}) \/ []<><<Strays>>_vars
=============================================================================
