----------------------------- MODULE StatusPoll -----------------------------
(***************************************************************************)
(* poll_server of monitor.rs: one poll of the Minecraft server, with a     *)
(* status request and, for a started server, a ping on a connection of its *)
(* own.  It is what FetchOk, FetchFail and Ping of Monitor sum up.  The    *)
(* server sends frames, TCP cuts them as it likes, and either may stop or  *)
(* break at any time.                                                      *)
(***************************************************************************)
EXTENDS PacketStream

CONSTANTS
    Answers, \* the payloads a server may send on a connection, in order
    BufSize, \* how much one read may return
    Token    \* the number that send_ping made up

ASSUME BufSizeIsPositive == BufSize \in Nat \ {0}
ASSUME TokenTyped        == Token \in Byte
ASSUME AnswersTyped      == Answers \subseteq Seq(Seq(Byte))

CLIENT_STATUS == 0
CLIENT_PING   == 1

VARIABLES
    started,     \* server.state() == State::Started, at the one place it is read
    at,          \* connect or wait, for the status or for the ping, or done
    answer,      \* what the server sends on this connection
    wire,        \* the bytes of it that were not read yet
    buf,         \* the BytesMut of wait_for_status and wait_for_ping
    outcome,     \* what wait_for_status, and then wait_for_ping, returned
    interrupted  \* history: a connection ended before it was read to its end

vars == <<started, at, answer, wire, buf, outcome, interrupted>>

Waits == {"wait.status", "wait.ping"}

Init ==
    /\ started \in BOOLEAN
    /\ at = "connect.status"
    /\ answer = <<>> /\ wire = <<>> /\ buf = <<>>
    /\ outcome = "none" /\ interrupted = FALSE

\* poll_server goes from a failed status to the ping, or returns Err.
AfterStatus == IF started THEN "connect.ping" ELSE "done"

Fails ==
    /\ outcome' = "error"
    /\ at' = IF at \in {"connect.status", "wait.status"} THEN AfterStatus ELSE "done"

-----------------------------------------------------------------------------
(* Up to the request: connect, handshake, status request or ping.          *)

Connect ==
    /\ \/ at = "connect.status" /\ at' = "wait.status"
       \/ at = "connect.ping" /\ at' = "wait.ping"
    /\ answer' \in Answers /\ wire' = EncodeAll(answer') /\ buf' = <<>>
    /\ UNCHANGED <<started, outcome, interrupted>>

CannotConnect ==
    /\ at \in {"connect.status", "connect.ping"}
    /\ Fails
    /\ interrupted' = TRUE
    /\ UNCHANGED <<started, answer, wire, buf>>

-----------------------------------------------------------------------------
(* read_packet, inside the timeout.  The timeout and the end of the stream *)
(* are noticed where the task waits for bytes, and nowhere else.           *)

Waiting == at \in Waits /\ Incomplete(buf)

ReadMore ==
    /\ Waiting
    /\ \E k \in 1 .. BufSize :
          k <= Len(wire) /\ buf' = buf \o Take(wire, k) /\ wire' = Drop(wire, k)
    /\ UNCHANGED <<started, at, answer, outcome, interrupted>>

\* The server closes or resets the connection: Ok(None).
EndOfStream ==
    /\ Waiting
    /\ Fails
    /\ interrupted' = (interrupted \/ wire # <<>>)
    /\ UNCHANGED <<started, answer, wire, buf>>

\* Mutant of TimesOut: only the ping has a time limit.
TimesOutOnPing ==
    /\ Waiting /\ at = "wait.ping"
    /\ Fails
    /\ interrupted' = (interrupted \/ wire # <<>>)
    /\ UNCHANGED <<started, answer, wire, buf>>

\* STATUS_TIMEOUT and PING_TIMEOUT.
TimesOut ==
    /\ Waiting
    /\ Fails
    /\ interrupted' = (interrupted \/ wire # <<>>)
    /\ UNCHANGED <<started, answer, wire, buf>>

-----------------------------------------------------------------------------
(* wait_for_status and wait_for_ping.                                      *)

\* With a length that cannot be read, read_packet returns Err without waiting
\* for anything and leaves the buffer as it was, and the loop goes round: a
\* step that changes nothing, and after which nothing else is enabled.
Ready == at \in Waits /\ ~Incomplete(buf) /\ ~BadLength(buf)

Body == Payload(Take(buf, FrameLen(buf)))

TakeFrame == buf' = Drop(buf, FrameLen(buf)) /\ UNCHANGED <<started, answer, wire, interrupted>>

IsStatus(payload) == IsPacket(payload) /\ PacketId(payload) = CLIENT_STATUS
IsPing(payload)   == IsPacket(payload) /\ PacketId(payload) = CLIENT_PING

\* Whether the data can be decoded: some status, or a number of one byte.
Decodes(payload) == PacketData(payload) # <<>>
Matches(payload) == Decodes(payload) /\ PacketData(payload)[1] = Token

GetStatus ==
    /\ Ready /\ at = "wait.status" /\ IsStatus(Body)
    /\ TakeFrame
    /\ IF Decodes(Body) THEN outcome' = "status" /\ at' = "done" ELSE Fails

GetPong ==
    /\ Ready /\ at = "wait.ping" /\ IsPing(Body)
    /\ TakeFrame
    /\ CASE Matches(Body)  -> outcome' = "pong" /\ at' = "done"
         [] ~Decodes(Body) -> Fails
         [] OTHER          -> UNCHANGED <<outcome, at>>

\* Mutant of Skip: a frame that is no packet ends the wait.
SkipOrGiveUp ==
    /\ Ready
    /\ IF at = "wait.status" THEN ~IsStatus(Body) ELSE ~IsPing(Body)
    /\ TakeFrame
    /\ IF IsPacket(Body) THEN UNCHANGED <<outcome, at>> ELSE Fails

\* Another packet, or a frame that is none: on to the next.
Skip ==
    /\ Ready
    /\ IF at = "wait.status" THEN ~IsStatus(Body) ELSE ~IsPing(Body)
    /\ TakeFrame
    /\ UNCHANGED <<outcome, at>>

Handle == GetStatus \/ GetPong \/ Skip

Next ==
    \/ Connect \/ CannotConnect
    \/ ReadMore \/ EndOfStream \/ TimesOut
    \/ Handle

Spec == Init /\ [][Next]_vars

\* The runtime polls a task that can go on, connecting on the loopback ends one
\* way or the other, and timers fire; nothing is assumed of the server.
FairSpec ==
    /\ Spec
    /\ WF_vars(Connect \/ CannotConnect) /\ WF_vars(Handle) /\ WF_vars(TimesOut)

-----------------------------------------------------------------------------
\* A server that never answers, or answers anything, cannot hold the monitor:
\* the poll ends, and the kill deadline is looked at again (STATUS_TIMEOUT,
\* PING_TIMEOUT around loops that go on after every error).
PollEnds == <>(at = "done")

\* The first status that the server sends decides, whatever comes before it.
HasStatus(payloads) ==
    \E n \in DOMAIN payloads :
        /\ IsStatus(payloads[n]) /\ Decodes(payloads[n])
        /\ \A m \in 1 .. n - 1 : ~IsStatus(payloads[m])

\* The first pong with the token of this poll does.
HasPong(payloads) ==
    \E n \in DOMAIN payloads :
        /\ IsPing(payloads[n]) /\ Matches(payloads[n])
        /\ \A m \in 1 .. n - 1 : IsPing(payloads[m]) => Decodes(payloads[m])

\* A poll believes a server that answers, and no other: however the answer is
\* cut up and whatever other frames surround it, a status that was sent, or a
\* pong with this poll's own token, is found unless the connection ended or
\* the time ran out before all of it was there; and no packet passes for one
\* unless the low eight bits of its id are those of one (wait_for_status,
\* wait_for_ping).
PollIsTruthful ==
    /\ outcome = "status" => HasStatus(answer)
    /\ outcome = "pong" => HasPong(answer)
    /\ outcome = "error" /\ ~interrupted =>
          /\ at = "connect.ping" => ~HasStatus(answer)
          /\ at = "done" => IF started THEN ~HasPong(answer) ELSE ~HasStatus(answer)
=============================================================================
