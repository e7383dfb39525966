------------------------ MODULE ClientSessionProofs ------------------------
(***************************************************************************)
(* The session implements PacketSession for any packets, however the bytes *)
(* are cut up: every step of serve, of the join methods and of the proxy   *)
(* is one step of the promise, or none of it.                              *)
(***************************************************************************)
EXTENDS ClientSession, PacketStreamProofs

-----------------------------------------------------------------------------
(* Both modules read packets alike.                                        *)

LEMMA SameCode ==
    ASSUME NEW p
    PROVE  /\ Session!IsPacket(p) = IsPacket(p)
           /\ Session!PacketId(p) = PacketId(p)
           /\ Session!PacketData(p) = PacketData(p)
           /\ Session!Known(p) = Known(p)
           /\ Session!FromId(p) = FromId(p)
           /\ Session!Encode(p) = Encode(p)
           /\ Session!EncodeAll(p) = EncodeAll(p)
<1>1. Session!HasVarInt(p) = HasVarInt(p) /\ Session!VarIntLen(p) = VarIntLen(p)
    BY DEF Session!HasVarInt, HasVarInt, Session!VarIntLen, VarIntLen, Session!VarIntEnds, VarIntEnds
<1>2. Session!VarIntVal(p) = VarIntVal(p)
    BY <1>1 DEF Session!VarIntVal, VarIntVal
<1>3. Session!EncodeVarInt = EncodeVarInt
    BY DEF Session!EncodeVarInt, EncodeVarInt
<1>4. \A q : Session!Encode(q) = Encode(q)
    BY <1>3 DEF Session!Encode, Encode
<1>5. Session!EncodeAll(p) = EncodeAll(p)
    BY <1>4 DEF Session!EncodeAll, EncodeAll, Session!EncodeFrom, EncodeFrom
<1> QED
    BY <1>1, <1>2, <1>4, <1>5
       DEF Session!IsPacket, IsPacket, Session!PacketId, PacketId, Session!PacketData, PacketData,
           Session!Drop, Drop, Session!Known, Known, Session!FromId, FromId,
           Session!ClientStates, ClientStates

-----------------------------------------------------------------------------
(* What is left of the stream.                                             *)

SessionTypes ==
    /\ script \in Seq(Seq(Byte)) /\ wire \in Seq(Byte)
    /\ buf \in Seq(Byte) /\ inbound_history \in Seq(Byte) /\ outbound \in Seq(Byte)
    /\ at \in {"read", "occupied", "queue", "relay", "closed"}
    /\ client_state \in {"handshake", "status", "login"}

\* serve has taken whole frames off the stream, and what it has read ahead of
\* the next belongs to that; nothing is kept for the server before a login.
SessionInv ==
    /\ SessionTypes
    /\ at = "read" =>
          /\ handled \in 0 .. Len(script)
          /\ buf \o wire = EncodeFrom(script)[handled]
          /\ client_state = "handshake" => inbound_history = <<>>

\* The bytes of what remains after some packets are what remains of the bytes.
LEMMA SuffixBytes ==
    ASSUME NEW payloads \in Seq(Seq(Byte)), NEW h \in 0 .. Len(payloads)
    PROVE  EncodeAll(SubSeq(payloads, h + 1, Len(payloads))) = EncodeFrom(payloads)[h]
<1> DEFINE s == SubSeq(payloads, h + 1, Len(payloads))
<1> DEFINE N == Len(s)
<1>1. /\ s \in Seq(Seq(Byte)) /\ N = Len(payloads) - h /\ N \in Nat
      /\ \A k \in 1 .. N : s[k] = payloads[h + k]
    OBVIOUS
<1> HIDE DEF s
<1> DEFINE T == {k \in 0 .. N : EncodeFrom(s)[k] = EncodeFrom(payloads)[h + k]}
<1>2. N \in T
    <2>1. h + N = Len(payloads) /\ N \in 0 .. N
        BY <1>1
    <2>2. EncodeFrom(s)[N] = <<>> /\ EncodeFrom(payloads)[Len(payloads)] = <<>>
        BY <1>1, EncodeFromDef
    <2> QED
        BY <2>1, <2>2
<1>3. ASSUME NEW k \in 0 .. N - 1, k + 1 \in T PROVE k \in T
    <2>1. /\ h + k \in 0 .. Len(payloads) - 1 /\ (h + k) + 1 = h + (k + 1)
          /\ k + 1 \in 1 .. N /\ k \in 0 .. N
        BY <1>1
    <2>2. EncodeFrom(s)[k] = Encode(s[k + 1]) \o EncodeFrom(s)[k + 1]
        BY <1>1, EncodeFromDef
    <2>3. EncodeFrom(payloads)[h + k]
             = Encode(payloads[(h + k) + 1]) \o EncodeFrom(payloads)[(h + k) + 1]
        BY <2>1, EncodeFromDef
    <2>4. s[k + 1] = payloads[h + (k + 1)]
        BY <1>1, <2>1
    <2> QED
        BY <1>3, <2>1, <2>2, <2>3, <2>4
<1>4. 0 .. N \subseteq T
    <2> HIDE DEF T
    <2> QED
        BY <1>1, <1>2, <1>3, DownTo0
<1>5. EncodeFrom(s)[0] = EncodeFrom(payloads)[h + 0] /\ h + 0 = h
    <2>1. 0 \in 0 .. N
        BY <1>1
    <2> QED
        BY <1>4, <2>1
<1> QED
    BY <1>5 DEF EncodeAll, s

LEMMA ScriptFacts ==
    ASSUME NEW payloads \in Seq(Seq(Byte)), NEW h \in 0 .. Len(payloads)
    PROVE  /\ Len(payloads) \in Nat /\ EncodeFrom(payloads)[h] \in Seq(Byte)
           /\ EncodeFrom(payloads)[Len(payloads)] = <<>>
           /\ h # Len(payloads) =>
                 /\ h + 1 \in 0 .. Len(payloads) /\ payloads[h + 1] \in Seq(Byte)
                 /\ EncodeFrom(payloads)[h]
                       = Encode(payloads[h + 1]) \o EncodeFrom(payloads)[h + 1]
                 /\ EncodeFrom(payloads)[h + 1] \in Seq(Byte)
                 /\ SubSeq(payloads, h + 1, Len(payloads)) # <<>>
                 /\ Head(SubSeq(payloads, h + 1, Len(payloads))) = payloads[h + 1]
                 /\ Tail(SubSeq(payloads, h + 1, Len(payloads)))
                       = SubSeq(payloads, (h + 1) + 1, Len(payloads))
<1>1. Len(payloads) \in Nat
    OBVIOUS
<1>2. EncodeFrom(payloads)[h] \in Seq(Byte) /\ EncodeFrom(payloads)[Len(payloads)] = <<>>
    BY EncodeFromDef
<1>3. ASSUME h # Len(payloads)
      PROVE  h \in 0 .. Len(payloads) - 1 /\ h + 1 \in 0 .. Len(payloads)
    BY <1>1, <1>3
<1>4. ASSUME h # Len(payloads)
      PROVE  /\ EncodeFrom(payloads)[h]
                    = Encode(payloads[h + 1]) \o EncodeFrom(payloads)[h + 1]
             /\ EncodeFrom(payloads)[h + 1] \in Seq(Byte)
    BY <1>3, <1>4, EncodeFromDef
<1>5. ASSUME h # Len(payloads)
      PROVE  /\ payloads[h + 1] \in Seq(Byte)
             /\ SubSeq(payloads, h + 1, Len(payloads)) # <<>>
             /\ Head(SubSeq(payloads, h + 1, Len(payloads))) = payloads[h + 1]
             /\ Tail(SubSeq(payloads, h + 1, Len(payloads)))
                    = SubSeq(payloads, (h + 1) + 1, Len(payloads))
    <2> DEFINE s == SubSeq(payloads, h + 1, Len(payloads))
    <2>1. payloads[h + 1] \in Seq(Byte)
        BY <1>3, <1>5
    <2>2. Len(s) = Len(payloads) - h /\ s \in Seq(Seq(Byte)) /\ Len(payloads) - h > 0
        BY <1>1, <1>3, <1>5
    <2>3. s # <<>>
        <3> HIDE DEF s
        <3> QED
            BY <2>2
    <2>4. Head(s) = payloads[h + 1]
        BY <1>1, <1>3, <1>5
    <2>5. Tail(s) = SubSeq(payloads, h + 2, Len(payloads)) /\ (h + 1) + 1 = h + 2
        BY <1>1, <1>3, <1>5
    <2> QED
        BY <2>1, <2>3, <2>4, <2>5
<1> QED
    BY <1>1, <1>2, <1>3, <1>4, <1>5

\* The frame that serve takes is the next packet of the client.
LEMMA NextPacket ==
    ASSUME SessionInv, Ready
    PROVE  /\ at = "read" /\ handled + 1 \in 0 .. Len(script)
           /\ Body = script[handled + 1] /\ Raw = Encode(Body)
           /\ Raw \in Seq(Byte) /\ Rest \in Seq(Byte) /\ buf = Raw \o Rest
           /\ Rest \o wire = EncodeFrom(script)[handled + 1]
           /\ Todo # <<>> /\ Head(Todo) = Body
           /\ Tail(Todo) = SubSeq(script, (handled + 1) + 1, Len(script))
<1>1. /\ at = "read" /\ ~Incomplete(buf) /\ ~BadLength(buf)
      /\ script \in Seq(Seq(Byte)) /\ buf \in Seq(Byte) /\ wire \in Seq(Byte)
      /\ handled \in 0 .. Len(script) /\ buf \o wire = EncodeFrom(script)[handled]
    BY DEF SessionInv, SessionTypes, Ready
<1>2. handled # Len(script)
    <2>1. Len(buf) \in Nat /\ ~(Len(buf) < 2)
        BY <1>1 DEF Incomplete
    <2>2. Len(buf \o wire) >= Len(buf)
        BY <1>1
    <2>3. Len(<<>>) = 0
        OBVIOUS
    <2>4. EncodeFrom(script)[Len(script)] = <<>>
        BY <1>1, ScriptFacts
    <2>5. SUFFICES ASSUME handled = Len(script) PROVE FALSE
        OBVIOUS
    <2>6. buf \o wire = <<>>
        BY <1>1, <2>4, <2>5
    <2>7. Len(buf \o wire) = 0
        BY <2>3, <2>6
    <2> QED
        BY <2>1, <2>2, <2>7
<1> DEFINE p == script[handled + 1]
<1> DEFINE r == EncodeFrom(script)[handled + 1]
<1>3. p \in Seq(Byte) /\ r \in Seq(Byte) /\ buf \o wire = Encode(p) \o r
    BY <1>1, <1>2, ScriptFacts
<1> HIDE DEF p, r
<1>4. FirstOff(buf, p, wire, r)
    BY <1>1, <1>3, FirstFrame
<1>5. /\ Body = p /\ Raw = Encode(p) /\ Rest \in Seq(Byte)
      /\ Rest \o wire = r /\ buf = Raw \o Rest
    BY <1>4 DEF FirstOff, Body, Raw, Rest
<1>6. Raw \in Seq(Byte)
    BY <1>3, <1>5, EncodeTyped
<1> QED
    BY <1>1, <1>2, <1>5, <1>6, ScriptFacts DEF p, r, Todo

-----------------------------------------------------------------------------
(* The invariant.                                                          *)

LEMMA SessionInit == Init => SessionInv
<1> SUFFICES ASSUME Init PROVE SessionInv
    OBVIOUS
<1>1. script \in Seq(Seq(Byte)) /\ wire = EncodeFrom(script)[0] /\ buf = <<>> /\ handled = 0
    BY ScriptsTyped DEF Init, EncodeAll
<1>2. 0 \in 0 .. Len(script)
    BY <1>1
<1>3. wire \in Seq(Byte)
    BY <1>1, <1>2, ScriptFacts
<1>4. <<>> \in Seq(Byte) /\ <<>> \o wire = wire
    BY <1>3
<1>5. SessionTypes
    BY <1>1, <1>3, <1>4 DEF SessionTypes, Init
<1> QED
    BY <1>1, <1>2, <1>4, <1>5 DEF SessionInv, Init

\* Some of the bytes on the wire are moved behind others.
LEMMA Moved ==
    ASSUME NEW a \in Seq(Byte), NEW w \in Seq(Byte), NEW k \in 1 .. BufSize, k <= Len(w)
    PROVE  /\ a \o Take(w, k) \in Seq(Byte) /\ Drop(w, k) \in Seq(Byte)
           /\ (a \o Take(w, k)) \o Drop(w, k) = a \o w
<1> DEFINE x == SubSeq(w, 1, k)
<1> DEFINE y == SubSeq(w, k + 1, Len(w))
<1>1. k \in 1 .. Len(w)
    BY BufSizeIsPositive
<1>2. x \in Seq(Byte) /\ y \in Seq(Byte)
    BY <1>1
<1>3. x \o y = w
    <2>1. 1 \in 1 .. Len(w) + 1 /\ k \in 1 - 1 .. Len(w) /\ Len(w) \in k .. Len(w)
        BY <1>1
    <2>2. x \o y = SubSeq(w, 1, Len(w))
        BY <2>1, ConcatAdjacentSubSeq, Zenon
    <2> QED
        BY <2>2
<1> HIDE DEF x, y
<1>4. a \o x \in Seq(Byte)
    BY <1>2
<1>5. (a \o x) \o y = a \o (x \o y)
    BY <1>2, Regroup
<1> QED
    BY <1>2, <1>3, <1>4, <1>5 DEF Take, Drop, x, y

-----------------------------------------------------------------------------
(* The steps.                                                              *)

Promised == Session!Next \/ UNCHANGED <<Todo, Mode, Owed, replies>>

\* Closing, with the kick that a client in login or beyond may get.
LEMMA Closes ==
    ASSUME SessionInv, at # "closed", at' = "closed",
           UNCHANGED <<script, client_state, inbound_history>>,
           wire' \in Seq(Byte), buf' \in Seq(Byte), outbound' \in Seq(Byte),
           UNCHANGED replies \/ (Mode \in {"login", "joined"} /\ replies' = Append(replies, "kick"))
    PROVE  SessionInv' /\ Promised
<1>1. SessionInv'
    BY DEF SessionInv, SessionTypes
<1>2. Mode # "closed" /\ Mode' = "closed" /\ Todo' = <<>> /\ Owed' = <<>>
    BY DEF SessionInv, SessionTypes, Mode, Todo, Owed
<1>3. Session!Close
    BY <1>2 DEF Session!Close
<1> QED
    BY <1>1, <1>3 DEF Promised, Session!Next

LEMMA TypesOf ==
    ASSUME SessionInv
    PROVE  /\ buf \in Seq(Byte) /\ wire \in Seq(Byte) /\ outbound \in Seq(Byte)
           /\ inbound_history \in Seq(Byte) /\ script \in Seq(Seq(Byte))
BY DEF SessionInv, SessionTypes

\* read_packet waits for more, or gives up.
LEMMA ReadSteps ==
    ASSUME SessionInv, ReadMore \/ ReadNothing \/ RefuseLength, UNCHANGED <<script, relayVars, peerVars>>
    PROVE  SessionInv' /\ Promised
<1>1. CASE ReadMore
    <2>1. PICK k \in 1 .. BufSize :
             k <= Len(wire) /\ buf' = buf \o Take(wire, k) /\ wire' = Drop(wire, k)
        BY <1>1 DEF ReadMore, Chunks
    <2>2. UNCHANGED <<script, at, client_state, inbound_history, handled, replies, outbound>>
          /\ at = "read"
        BY <1>1 DEF ReadMore, relayVars
    <2>3. buf' \in Seq(Byte) /\ wire' \in Seq(Byte) /\ buf' \o wire' = buf \o wire
        BY <2>1, Moved, TypesOf
    <2>4. SessionInv'
        BY <2>2, <2>3 DEF SessionInv, SessionTypes
    <2>5. UNCHANGED <<Todo, Mode, Owed, replies>>
        BY <2>2 DEF Todo, Mode, Owed
    <2> QED
        BY <2>4, <2>5 DEF Promised
<1>2. CASE ReadNothing \/ RefuseLength
    BY <1>2, Closes, TypesOf DEF ReadNothing, RefuseLength, serveVars, relayVars
<1> QED
    BY <1>1, <1>2

\* A frame that ends the connection.
LEMMA RefuseSteps ==
    ASSUME SessionInv, RefuseFrame \/ BadHandshake \/ LoginRefused,
           UNCHANGED <<script, relayVars, peerVars>>
    PROVE  SessionInv' /\ Promised
<1>1. Ready /\ TakeFrame /\ at' = "closed" /\ UNCHANGED <<wire, client_state, inbound_history>>
    BY DEF RefuseFrame, BadHandshake, LoginRefused, Got
<1>2. at # "closed" /\ buf' \in Seq(Byte)
    BY <1>1, NextPacket DEF TakeFrame
<1>3. UNCHANGED replies \/ (Mode \in {"login", "joined"} /\ replies' = Append(replies, "kick"))
    BY DEF RefuseFrame, BadHandshake, LoginRefused, Got, Ready, Mode
<1> QED
    BY <1>1, <1>2, <1>3, Closes, TypesOf DEF relayVars

\* A frame after which serve goes on to the next.
LEMMA TakesOne ==
    ASSUME SessionInv, Ready, TakeFrame, UNCHANGED <<script, wire, at, outbound>>,
           client_state' \in {"handshake", "status", "login"}, inbound_history' \in Seq(Byte),
           client_state' = "handshake" => inbound_history' = <<>>
    PROVE  /\ SessionInv' /\ Todo # <<>> /\ Head(Todo) = Body /\ Todo' = Tail(Todo)
           /\ Mode = client_state /\ Mode' = client_state'
           /\ Owed = inbound_history /\ Owed' = inbound_history'
<1>1. /\ at = "read" /\ handled' = handled + 1 /\ buf' = Rest
      /\ handled + 1 \in 0 .. Len(script) /\ Rest \in Seq(Byte)
      /\ Rest \o wire = EncodeFrom(script)[handled + 1]
      /\ Todo # <<>> /\ Head(Todo) = Body
      /\ Tail(Todo) = SubSeq(script, (handled + 1) + 1, Len(script))
    BY NextPacket DEF TakeFrame
<1>2. SessionInv'
    BY <1>1, TypesOf DEF SessionInv, SessionTypes
<1>3. Todo' = Tail(Todo)
    BY <1>1 DEF Todo
<1>4. /\ Mode = client_state /\ Mode' = client_state'
      /\ Owed = inbound_history /\ Owed' = inbound_history'
    BY <1>1 DEF Mode, Owed
<1> QED
    BY <1>1, <1>2, <1>3, <1>4

LEMMA HandshakeStep ==
    ASSUME SessionInv, Handshake, UNCHANGED <<script, relayVars, peerVars>>
    PROVE  SessionInv' /\ Promised
<1>1. /\ Ready /\ TakeFrame /\ UNCHANGED <<script, wire, at, outbound, replies>>
      /\ IsPacket(Body) /\ client_state = "handshake" /\ PacketId(Body) = 0
      /\ Known(PacketData(Body)) /\ client_state' = FromId(PacketData(Body))
      /\ inbound_history' = IF client_state' = "login" THEN inbound_history \o Raw
                            ELSE inbound_history
    BY DEF Handshake, Got, relayVars
<1>2. client_state' \in {"handshake", "status", "login"}
    <2>1. DOMAIN ClientStates = 1 .. 3
        BY DEF ClientStates
    <2>2. \A i \in 1 .. 3 : ClientStates[i] \in {"handshake", "status", "login"}
        BY DEF ClientStates
    <2> QED
        BY <1>1, <2>1, <2>2 DEF Known, FromId
<1>3. inbound_history = <<>> /\ Raw = Encode(Body) /\ Raw \in Seq(Byte)
    BY <1>1, NextPacket DEF SessionInv, Ready
<1>4. inbound_history' = IF client_state' = "login" THEN Encode(Body) ELSE <<>>
    <2>1. <<>> \o Raw = Raw
        BY <1>3
    <2> QED
        BY <1>1, <1>3, <2>1
<1>5. inbound_history' \in Seq(Byte) /\ (client_state' = "handshake" => inbound_history' = <<>>)
    <2>1. <<>> \in Seq(Byte)
        OBVIOUS
    <2> QED
        BY <1>3, <1>4, <2>1
<1>6. /\ SessionInv' /\ Todo # <<>> /\ Head(Todo) = Body /\ Todo' = Tail(Todo)
      /\ Mode = client_state /\ Mode' = client_state'
      /\ Owed = inbound_history /\ Owed' = inbound_history'
    BY <1>1, <1>2, <1>5, TakesOne
<1>7. Session!Handshake
    <2>1. Session!Upcoming("handshake", {0})
        BY <1>1, <1>6, SameCode DEF Session!Upcoming
    <2>2. Session!Known(Session!PacketData(Head(Todo)))
        BY <1>1, <1>6, SameCode
    <2>3. Mode' = Session!FromId(Session!PacketData(Head(Todo)))
        BY <1>1, <1>6, SameCode
    <2>4. Owed' = IF Mode' = "login" THEN Session!Encode(Head(Todo)) ELSE Owed
        BY <1>3, <1>4, <1>6, SameCode
    <2> QED
        BY <1>1, <1>6, <2>1, <2>2, <2>3, <2>4 DEF Session!Handshake
<1> QED
    BY <1>6, <1>7 DEF Promised, Session!Next

LEMMA AnswerSteps ==
    ASSUME SessionInv, Reply(0, "status") \/ Reply(1, "pong") \/ Unhandled,
           UNCHANGED <<script, relayVars, peerVars>>
    PROVE  SessionInv' /\ Promised
<1>1. /\ Ready /\ TakeFrame
      /\ UNCHANGED <<script, wire, at, outbound, client_state, inbound_history>>
    BY DEF Reply, Unhandled, Got, relayVars
<1>2. at = "read"
    BY <1>1 DEF Ready
<1>3. /\ client_state' \in {"handshake", "status", "login"} /\ inbound_history' \in Seq(Byte)
      /\ client_state' = "handshake" => inbound_history' = <<>>
    BY <1>1, <1>2 DEF SessionInv, SessionTypes
<1>4. /\ SessionInv' /\ Todo # <<>> /\ Head(Todo) = Body /\ Todo' = Tail(Todo)
      /\ Mode = client_state /\ UNCHANGED <<Mode, Owed>>
    <2>1. /\ SessionInv' /\ Todo # <<>> /\ Head(Todo) = Body /\ Todo' = Tail(Todo)
          /\ Mode = client_state /\ Mode' = client_state'
          /\ Owed = inbound_history /\ Owed' = inbound_history'
        BY <1>1, <1>3, TakesOne
    <2> QED
        BY <1>1, <2>1
<1>5. \A state, ids : Got(state, ids) => Session!Upcoming(state, ids)
    BY <1>4, SameCode DEF Got, Session!Upcoming
<1>6. CASE Reply(0, "status") \/ Reply(1, "pong")
    <2>1. Session!Answer
        BY <1>4, <1>5, <1>6 DEF Session!Answer, Reply
    <2> QED
        BY <1>4, <2>1 DEF Promised, Session!Next
<1>7. CASE Unhandled
    <2>1. Session!Skip
        BY <1>4, <1>5, <1>7 DEF Session!Skip, Unhandled
    <2> QED
        BY <1>4, <2>1 DEF Promised, Session!Next
<1> QED
    BY <1>6, <1>7

\* The login frame and all that was read ahead goes into the history.
LEMMA LoginStep ==
    ASSUME SessionInv, Login, UNCHANGED <<script, relayVars, peerVars>>
    PROVE  SessionInv' /\ Promised
<1>1. /\ Ready /\ IsPacket(Body) /\ client_state = "login" /\ PacketId(Body) = 0
      /\ inbound_history' = (inbound_history \o Raw) \o Rest
      /\ buf' = <<>> /\ at' = "occupied" /\ UNCHANGED <<script, wire, outbound, client_state, replies>>
    BY DEF Login, Got, relayVars
<1>2. /\ at = "read" /\ Raw \in Seq(Byte) /\ Rest \in Seq(Byte) /\ buf = Raw \o Rest
      /\ Todo # <<>> /\ Head(Todo) = Body
    BY <1>1, NextPacket
<1>3. /\ inbound_history \in Seq(Byte) /\ wire \in Seq(Byte) /\ script \in Seq(Seq(Byte))
      /\ buf \in Seq(Byte)
    BY TypesOf
<1>4. inbound_history' = inbound_history \o buf /\ inbound_history' \in Seq(Byte)
    <2>1. (inbound_history \o Raw) \o Rest = inbound_history \o (Raw \o Rest)
        BY <1>2, <1>3, Regroup
    <2>2. inbound_history \o buf \in Seq(Byte)
        BY <1>3
    <2> QED
        BY <1>1, <1>2, <2>1, <2>2
<1>5. SessionInv'
    <2>1. <<>> \in Seq(Byte)
        OBVIOUS
    <2> QED
        BY <1>1, <1>4, <2>1 DEF SessionInv, SessionTypes
<1>6. /\ Mode = "login" /\ Mode' = "joined" /\ Todo' = <<>>
      /\ Owed = inbound_history /\ Owed' = inbound_history' \o wire'
    BY <1>1, <1>2 DEF Mode, Todo, Owed
<1>7. Owed' = Owed \o EncodeAll(Todo)
    <2>1. (inbound_history \o buf) \o wire = inbound_history \o (buf \o wire)
        BY <1>3, Regroup
    <2>2. buf \o wire = EncodeFrom(script)[handled] /\ handled \in 0 .. Len(script)
        BY <1>2 DEF SessionInv
    <2>3. EncodeAll(Todo) = EncodeFrom(script)[handled]
        BY <1>2, <1>3, <2>2, SuffixBytes DEF Todo
    <2> QED
        BY <1>1, <1>4, <1>6, <2>1, <2>2, <2>3
<1>8. Session!LogIn
    <2>1. Session!Upcoming("login", {0})
        BY <1>1, <1>2, <1>6, SameCode DEF Session!Upcoming
    <2>2. Session!EncodeAll(Todo) = EncodeAll(Todo)
        BY SameCode
    <2> QED
        BY <1>1, <1>6, <1>7, <2>1, <2>2 DEF Session!LogIn
<1> QED
    BY <1>5, <1>8 DEF Promised, Session!Next

\* The join methods and the relay move the stream on, or end it.
LEMMA RelaySteps ==
    ASSUME SessionInv, Connected \/ Up \/ Down
    PROVE  SessionInv' /\ Promised
<1>1. CASE Connected \/ Down \/ (ShutUp /\ Up)
    <2>1. /\ UNCHANGED <<script, wire, buf, inbound_history, outbound, client_state, handled, replies>>
          /\ \/ at = "occupied" /\ at' = "queue"
             \/ at = "relay" /\ UNCHANGED at
        <3>1. CASE Connected
            BY <3>1 DEF Connected, serveVars, relayVars
        <3>2. CASE Down
            <4>1. at = "relay" /\ UNCHANGED <<wire, at, outbound>>
                BY <3>2 DEF Down, CopyDown, ShutDown
            <4>2. UNCHANGED <<script, serveVars, replies>>
                BY <3>2 DEF Down
            <4> QED
                BY <4>1, <4>2 DEF serveVars
        <3>3. CASE ShutUp /\ Up
            BY <3>3 DEF ShutUp, Up, serveVars
        <3> QED
            BY <1>1, <3>1, <3>2, <3>3
    <2>2. SessionInv'
        BY <2>1 DEF SessionInv, SessionTypes
    <2>3. UNCHANGED <<Todo, Mode, Owed, replies>>
        BY <2>1 DEF Todo, Mode, Owed
    <2> QED
        BY <2>2, <2>3 DEF Promised
<1>2. CASE Queue /\ Up
    <2>1. /\ UNCHANGED <<script, wire, buf, inbound_history, client_state, replies>>
          /\ at = "queue" /\ at' = "relay" /\ outbound' = inbound_history
        BY <1>2 DEF Queue, Up, serveVars
    <2>2. SessionInv'
        BY <2>1 DEF SessionInv, SessionTypes
    <2>3. UNCHANGED <<Todo, Mode, Owed, replies>>
        BY <2>1 DEF Todo, Mode, Owed
    <2> QED
        BY <2>2, <2>3 DEF Promised
<1>3. CASE CopyUp /\ Up
    <2>1. PICK k \in 1 .. BufSize :
             k <= Len(wire) /\ outbound' = outbound \o Take(wire, k) /\ wire' = Drop(wire, k)
        BY <1>3 DEF CopyUp, Chunks
    <2>2. /\ UNCHANGED <<script, buf, inbound_history, client_state, replies, at>>
          /\ at = "relay"
        BY <1>3 DEF CopyUp, Up, serveVars
    <2>3. outbound' \in Seq(Byte) /\ wire' \in Seq(Byte) /\ outbound' \o wire' = outbound \o wire
        BY <2>1, Moved, TypesOf
    <2>4. SessionInv'
        BY <2>2, <2>3 DEF SessionInv, SessionTypes
    <2>5. UNCHANGED <<Todo, Mode, Owed, replies>>
        BY <2>2, <2>3 DEF Todo, Mode, Owed
    <2> QED
        BY <2>4, <2>5 DEF Promised
<1> QED
    BY <1>1, <1>2, <1>3 DEF Up

LEMMA EndSteps ==
    ASSUME SessionInv, Dismissed \/ Finish \/ Breaks
    PROVE  SessionInv' /\ Promised
<1>1. /\ at # "closed" /\ at' = "closed"
      /\ UNCHANGED <<script, client_state, inbound_history, wire, buf, outbound>>
    BY DEF Dismissed, Finish, Joined, Breaks, serveVars, relayVars
<1>2. UNCHANGED replies \/ (Mode \in {"login", "joined"} /\ replies' = Append(replies, "kick"))
    BY DEF Dismissed, Finish, Breaks, Mode
<1> QED
    BY <1>1, <1>2, Closes, TypesOf

LEMMA PeerSteps ==
    ASSUME SessionInv, HangUp \/ ServerCloses \/ UNCHANGED vars
    PROVE  SessionInv' /\ Promised
<1>1. UNCHANGED <<script, wire, at, buf, inbound_history, outbound, client_state, handled, replies>>
    BY DEF HangUp, ServerCloses, vars, serveVars, relayVars
<1>2. SessionInv'
    BY <1>1 DEF SessionInv, SessionTypes
<1>3. UNCHANGED <<Todo, Mode, Owed, replies>>
    BY <1>1 DEF Todo, Mode, Owed
<1> QED
    BY <1>2, <1>3 DEF Promised

LEMMA SessionStep == SessionInv /\ [Next]_vars => SessionInv' /\ Promised
<1> SUFFICES ASSUME SessionInv, [Next]_vars PROVE SessionInv' /\ Promised
    OBVIOUS
<1>1. CASE Serve
    <2>1. UNCHANGED <<script, relayVars, peerVars>>
        BY <1>1 DEF Serve
    <2>2. \/ ReadMore \/ ReadNothing \/ RefuseLength \/ RefuseFrame
          \/ Handshake \/ BadHandshake
          \/ Reply(0, "status") \/ Reply(1, "pong")
          \/ LoginRefused \/ Login \/ Unhandled
        BY <1>1 DEF Serve
    <2> QED
        BY <2>1, <2>2, ReadSteps, RefuseSteps, HandshakeStep, AnswerSteps, LoginStep
<1>2. CASE Dismissed \/ Connected \/ Up \/ Down \/ Finish \/ Breaks
    BY <1>2, RelaySteps, EndSteps
<1>3. CASE HangUp \/ ServerCloses \/ UNCHANGED vars
    BY <1>3, PeerSteps
<1> QED
    BY <1>1, <1>2, <1>3 DEF Next

LEMMA SessionStarts == Init => Session!Init
<1> SUFFICES ASSUME Init PROVE Session!Init
    OBVIOUS
<1>1. at = "read" /\ handled = 0 /\ script \in Seq(Seq(Byte)) /\ script \in Scripts
    BY ScriptsTyped DEF Init
<1>2. SubSeq(script, 0 + 1, Len(script)) = script
    BY <1>1
<1>3. Todo = script /\ Mode = "handshake" /\ Owed = <<>> /\ replies = <<>>
    BY <1>1, <1>2 DEF Init, Todo, Mode, Owed
<1> QED
    BY <1>1, <1>3 DEF Session!Init

\* However the client's bytes are cut up, however many are read ahead of a
\* login, and whichever side ends it when: packets are answered in order, and
\* the server gets the client's bytes, all of them, once and in order, from the
\* login handshake on (status.rs, join/mod.rs, proxy.rs).
THEOREM SessionIsImplemented == Spec => ImplementsPacketSession
<1>1. Init => Session!Init
    BY SessionStarts
<1>2. SessionInv /\ [Next]_vars => [Session!Next]_<<Todo, Mode, Owed, replies>>
    BY SessionStep DEF Promised
<1>3. Spec => []SessionInv
    BY SessionInit, SessionStep, PTL DEF Spec
<1> QED
    BY <1>1, <1>2, <1>3, PTL DEF Spec, ImplementsPacketSession, Session!Spec
=============================================================================
