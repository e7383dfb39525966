-------------------------- MODULE StatusPollProofs --------------------------
(***************************************************************************)
(* A poll believes what the server sent, and nothing else, for any frames, *)
(* however they are cut up and wherever the stream ends.                   *)
(***************************************************************************)
EXTENDS StatusPoll, PacketStreamProofs

\* The first n frames were read and were not what the poll waits for.
Passed(n) ==
    \A m \in 1 .. n :
        /\ at = "wait.status" => ~IsStatus(answer[m])
        /\ at = "wait.ping" /\ IsPing(answer[m]) => Decodes(answer[m]) /\ ~Matches(answer[m])

\* What is left of the stream begins with a frame.
Position ==
    at \in Waits => \E n \in 0 .. Len(answer) :
        buf \o wire = EncodeFrom(answer)[n] /\ Passed(n)

PollTypes ==
    /\ started \in BOOLEAN /\ interrupted \in BOOLEAN
    /\ at \in Waits \cup {"connect.status", "connect.ping", "done"}
    /\ answer \in Seq(Seq(Byte)) /\ wire \in Seq(Byte) /\ buf \in Seq(Byte)
    /\ outcome \in {"none", "error", "status", "pong"}

\* The status comes first, and the ping only after it failed.
Phases ==
    /\ at \in {"connect.status", "wait.status"} => outcome = "none"
    /\ at \in {"connect.ping", "wait.ping"} => outcome = "error" /\ started
    /\ outcome \in {"status", "pong"} => at = "done"

PollInv == PollTypes /\ Position /\ Phases /\ PollIsTruthful

-----------------------------------------------------------------------------
(* What the stream still holds.                                            *)

LEMMA AnswerFacts ==
    ASSUME PollInv
    PROVE  /\ Len(answer) \in Nat
           /\ \A n \in 0 .. Len(answer) : EncodeFrom(answer)[n] \in Seq(Byte)
           /\ EncodeFrom(answer)[Len(answer)] = <<>>
           /\ \A n \in 0 .. Len(answer) - 1 :
                 /\ n + 1 \in 1 .. Len(answer) /\ answer[n + 1] \in Seq(Byte)
                 /\ EncodeFrom(answer)[n] = Encode(answer[n + 1]) \o EncodeFrom(answer)[n + 1]
<1>1. answer \in Seq(Seq(Byte))
    BY DEF PollInv, PollTypes
<1>2. Len(answer) \in Nat /\ \A n \in 0 .. Len(answer) - 1 :
          n + 1 \in 1 .. Len(answer) /\ answer[n + 1] \in Seq(Byte)
    BY <1>1
<1> QED
    BY <1>1, <1>2, EncodeFromDef

\* A frame without a payload is neither a status nor a pong.
LEMMA EmptyFrame == ~IsStatus(<<>>) /\ ~IsPing(<<>>)
<1>1. ~HasVarInt(<<>>)
    BY DEF HasVarInt, VarIntEnds
<1> QED
    BY <1>1 DEF IsStatus, IsPing, IsPacket

\* The frame that is taken off the buffer is the first of those that are left.
LEMMA NextFrame ==
    ASSUME PollInv, Ready, NEW n \in 0 .. Len(answer),
           buf \o wire = EncodeFrom(answer)[n]
    PROVE  /\ n + 1 \in 1 .. Len(answer) /\ Body = answer[n + 1]
           /\ Drop(buf, FrameLen(buf)) \in Seq(Byte)
           /\ Drop(buf, FrameLen(buf)) \o wire = EncodeFrom(answer)[n + 1]
<1>1. buf \in Seq(Byte) /\ wire \in Seq(Byte) /\ ~Incomplete(buf) /\ ~BadLength(buf)
    BY DEF PollInv, PollTypes, Ready
<1>2. n # Len(answer)
    <2>1. Len(buf) \in Nat /\ ~(Len(buf) < 2)
        BY <1>1 DEF Incomplete
    <2>2. Len(buf \o wire) >= Len(buf)
        BY <1>1
    <2>3. Len(<<>>) = 0
        OBVIOUS
    <2> QED
        BY <2>1, <2>2, <2>3, AnswerFacts
<1>3. n \in 0 .. Len(answer) - 1 /\ n + 1 \in 0 .. Len(answer)
    BY <1>2, AnswerFacts
<1> DEFINE p == answer[n + 1]
<1> DEFINE r == EncodeFrom(answer)[n + 1]
<1>4. p \in Seq(Byte) /\ r \in Seq(Byte) /\ buf \o wire = Encode(p) \o r
    BY <1>3, AnswerFacts
<1> HIDE DEF p, r
<1>5. FirstOff(buf, p, wire, r)
    BY <1>1, <1>4, FirstFrame
<1> QED
    BY <1>3, <1>5, AnswerFacts DEF p, r, Body, FirstOff

\* When all was read and the rest is no frame, no frame was missed.
LEMMA NoneMissed ==
    ASSUME PollInv, Waiting, wire = <<>>
    PROVE  /\ at = "wait.status" => \A m \in 1 .. Len(answer) : ~IsStatus(answer[m])
           /\ at = "wait.ping" =>
                 \A m \in 1 .. Len(answer) : IsPing(answer[m]) => ~Matches(answer[m])
<1>1. PICK n \in 0 .. Len(answer) : buf \o wire = EncodeFrom(answer)[n] /\ Passed(n)
    BY DEF PollInv, Position, Waiting
<1>2. buf \in Seq(Byte) /\ Incomplete(buf)
    BY DEF PollInv, PollTypes, Waiting
<1>3. buf = EncodeFrom(answer)[n]
    BY <1>1, <1>2
<1>4. CASE n = Len(answer)
    BY <1>1, <1>4 DEF Passed
<1>5. CASE n # Len(answer)
    <2>1. n \in 0 .. Len(answer) - 1 /\ n + 1 \in 0 .. Len(answer)
        BY <1>5, AnswerFacts
    <2> DEFINE p == answer[n + 1]
    <2> DEFINE r == EncodeFrom(answer)[n + 1]
    <2>2. p \in Seq(Byte) /\ r \in Seq(Byte) /\ buf = Encode(p) \o r
        BY <1>3, <2>1, AnswerFacts
    <2> HIDE DEF p, r
    <2>3. p = <<>> /\ r = <<>>
        BY <1>2, <2>2, NothingLeft
    <2>4. n + 1 = Len(answer)
        <3>1. SUFFICES ASSUME n + 1 # Len(answer) PROVE FALSE
            OBVIOUS
        <3> DEFINE q == answer[n + 2]
        <3> DEFINE t == EncodeFrom(answer)[n + 2]
        <3>2. n + 1 \in 0 .. Len(answer) - 1 /\ (n + 1) + 1 = n + 2 /\ n + 2 \in 0 .. Len(answer)
            BY <2>1, <3>1, AnswerFacts
        <3>3. q \in Seq(Byte) /\ t \in Seq(Byte) /\ r = Encode(q) \o t
            BY <3>2, AnswerFacts DEF r
        <3> HIDE DEF q, t
        <3>4. Encode(q) \in Seq(Byte) /\ Len(Encode(q)) > 0
            BY <3>3, EncodeTyped
        <3> DEFINE e == Encode(q)
        <3>5. e \o t = <<>> /\ e \in Seq(Byte) /\ Len(e) > 0
            BY <2>3, <3>3, <3>4
        <3> HIDE DEF e
        <3>6. Len(e \o t) = Len(e) + Len(t) /\ Len(e) \in Nat /\ Len(t) \in Nat
            BY <3>3, <3>5
        <3>7. Len(<<>>) = 0
            OBVIOUS
        <3> QED
            BY <3>5, <3>6, <3>7
    <2>5. ASSUME NEW m \in 1 .. Len(answer) PROVE m \in 1 .. n \/ answer[m] = <<>>
        BY <2>3, <2>4 DEF p
    <2> QED
        BY <1>1, <2>5, EmptyFrame DEF Passed
<1> QED
    BY <1>4, <1>5

-----------------------------------------------------------------------------
(* The steps of a poll.                                                    *)

LEMMA PollInit == Init => PollInv
<1> SUFFICES ASSUME Init PROVE PollInv
    OBVIOUS
<1>1. <<>> \in Seq(Seq(Byte)) /\ <<>> \in Seq(Byte)
    OBVIOUS
<1>2. PollTypes
    BY <1>1 DEF Init, PollTypes, Waits
<1>3. Position /\ Phases /\ PollIsTruthful
    BY DEF Init, Position, Phases, PollIsTruthful, Waits
<1> QED
    BY <1>2, <1>3 DEF PollInv

\* A new connection: all of the answer is to come.
LEMMA ConnectStep == ASSUME PollInv, Connect PROVE PollInv'
<1>1. at \in {"connect.status", "connect.ping"} /\ at' \in Waits
    BY DEF Connect, Waits
<1>2. answer' \in Seq(Seq(Byte)) /\ buf' = <<>> /\ wire' = EncodeAll(answer')
    BY AnswersTyped DEF Connect
<1>3. /\ EncodeFrom(answer')[0] \in Seq(Byte) /\ wire' = EncodeFrom(answer')[0]
      /\ 0 \in 0 .. Len(answer')
    <2>1. Len(answer') \in Nat
        BY <1>2
    <2>2. 0 \in 0 .. Len(answer')
        BY <2>1
    <2>3. \A n \in 0 .. Len(answer') : EncodeFrom(answer')[n] \in Seq(Byte)
        BY <1>2, EncodeFromDef
    <2> QED
        BY <1>2, <2>2, <2>3 DEF EncodeAll
<1>4. PollTypes'
    <2>1. <<>> \in Seq(Byte)
        OBVIOUS
    <2> QED
        BY <1>1, <1>2, <1>3, <2>1 DEF Connect, PollInv, PollTypes
<1>5. Position'
    <2>1. buf' \o wire' = EncodeFrom(answer')[0]
        BY <1>2, <1>3
    <2>2. Passed(0)'
        BY DEF Passed
    <2> QED
        BY <1>3, <2>1, <2>2 DEF Position
<1>6. Phases'
    BY DEF Connect, PollInv, PollTypes, Phases, Waits
<1>7. PollIsTruthful'
    BY DEF Connect, PollInv, Phases, PollIsTruthful
<1> QED
    BY <1>4, <1>5, <1>6, <1>7 DEF PollInv

LEMMA FailsPhases ==
    ASSUME PollInv, Fails, at # "done", UNCHANGED started
    PROVE  /\ at' \in {"connect.ping", "done"} /\ outcome' = "error"
           /\ Phases' /\ Position'
           /\ at' = "connect.ping" => started /\ at \in {"connect.status", "wait.status"}
           /\ at' = "done" /\ started => at \in {"connect.ping", "wait.ping"}
           /\ at' = "done" /\ ~started => at \in {"connect.status", "wait.status"}
BY DEF PollInv, PollTypes, Phases, Position, Fails, AfterStatus, Waits

LEMMA CannotConnectStep == ASSUME PollInv, CannotConnect PROVE PollInv'
<1>1. Fails /\ at # "done" /\ UNCHANGED <<started, answer, wire, buf>> /\ interrupted' = TRUE
    BY DEF CannotConnect
<1>2. at' \in {"connect.ping", "done"} /\ outcome' = "error" /\ Phases' /\ Position'
    BY <1>1, FailsPhases
<1>3. PollTypes'
    BY <1>1, <1>2 DEF PollInv, PollTypes
<1>4. PollIsTruthful'
    BY <1>1, <1>2 DEF PollIsTruthful
<1> QED
    BY <1>2, <1>3, <1>4 DEF PollInv

LEMMA ReadMoreStep == ASSUME PollInv, ReadMore PROVE PollInv'
<1>1. PICK k \in 1 .. BufSize :
         k <= Len(wire) /\ buf' = buf \o Take(wire, k) /\ wire' = Drop(wire, k)
    BY DEF ReadMore
<1>2. UNCHANGED <<started, at, answer, outcome, interrupted>>
    BY DEF ReadMore
<1>3. buf \in Seq(Byte) /\ wire \in Seq(Byte)
    BY DEF PollInv, PollTypes
<1> DEFINE a == SubSeq(wire, 1, k)
<1> DEFINE b == SubSeq(wire, k + 1, Len(wire))
<1>4. k \in 1 .. Len(wire)
    BY <1>1, <1>3, BufSizeIsPositive
<1>5. a \in Seq(Byte) /\ b \in Seq(Byte) /\ a \o b = wire
    <2>1. a \in Seq(Byte) /\ b \in Seq(Byte)
        BY <1>3, <1>4
    <2>2. a \o b = SubSeq(wire, 1, Len(wire))
        <3>1. 1 \in 1 .. Len(wire) + 1 /\ k \in 1 - 1 .. Len(wire) /\ Len(wire) \in k .. Len(wire)
            BY <1>3, <1>4
        <3> QED
            BY <1>3, <3>1, ConcatAdjacentSubSeq, Zenon
    <2>3. SubSeq(wire, 1, Len(wire)) = wire
        BY <1>3, SubSeqFull, Zenon
    <2> QED
        BY <2>1, <2>2, <2>3
<1>6. buf' = buf \o a /\ wire' = b
    BY <1>1 DEF Take, Drop
<1> HIDE DEF a, b
<1>7. buf' \in Seq(Byte) /\ wire' \in Seq(Byte) /\ buf' \o wire' = buf \o wire
    <2>1. (buf \o a) \o b = buf \o (a \o b)
        <3>1. buf \in Seq(Byte) /\ a \in Seq(Byte) /\ b \in Seq(Byte)
            BY <1>3, <1>5
        <3> QED
            BY <3>1, Regroup
    <2>2. buf \o a \in Seq(Byte)
        BY <1>3, <1>5
    <2> QED
        BY <1>5, <1>6, <2>1, <2>2
<1>8. PollTypes'
    BY <1>2, <1>7 DEF PollInv, PollTypes
<1>9. Position'
    BY <1>2, <1>7 DEF PollInv, Position, Passed
<1>10. Phases' /\ PollIsTruthful'
    BY <1>2 DEF PollInv, Phases, PollIsTruthful
<1> QED
    BY <1>8, <1>9, <1>10 DEF PollInv

\* The stream ends, or the time is up: what was read is all that was sent, or
\* the connection counts as interrupted.
LEMMA EndStep == ASSUME PollInv, EndOfStream \/ TimesOut PROVE PollInv'
<1>1. /\ Waiting /\ Fails /\ at \in Waits /\ UNCHANGED <<started, answer, wire, buf>>
      /\ interrupted' = (interrupted \/ wire # <<>>)
    BY DEF EndOfStream, TimesOut, Waiting
<1>2. at # "done" /\ at \in {"wait.status", "wait.ping"}
    BY <1>1 DEF Waits
<1>3. /\ at' \in {"connect.ping", "done"} /\ outcome' = "error" /\ Phases' /\ Position'
      /\ at' = "connect.ping" => at = "wait.status"
      /\ at' = "done" /\ started => at = "wait.ping"
      /\ at' = "done" /\ ~started => at = "wait.status"
    BY <1>1, <1>2, FailsPhases
<1>4. PollTypes'
    BY <1>1, <1>3 DEF PollInv, PollTypes
<1>5. ASSUME wire = <<>>
      PROVE  /\ at = "wait.status" => ~HasStatus(answer)
             /\ at = "wait.ping" => ~HasPong(answer)
    <2>1. DOMAIN answer = 1 .. Len(answer)
        BY DEF PollInv, PollTypes
    <2> QED
        BY <1>1, <1>5, <2>1, NoneMissed DEF HasStatus, HasPong
<1>6. PollIsTruthful'
    <2>1. CASE interrupted'
        BY <1>3, <2>1 DEF PollIsTruthful
    <2>2. CASE ~interrupted'
        <3>1. wire = <<>>
            BY <1>1, <2>2
        <3> QED
            BY <1>1, <1>3, <1>5, <3>1 DEF PollIsTruthful
    <2> QED
        BY <2>1, <2>2
<1> QED
    BY <1>3, <1>4, <1>6 DEF PollInv

LEMMA Taken ==
    ASSUME PollInv, Ready, TakeFrame
    PROVE  \E n \in 0 .. Len(answer) :
              /\ n + 1 \in 1 .. Len(answer) /\ Passed(n) /\ Body = answer[n + 1]
              /\ buf' \in Seq(Byte) /\ UNCHANGED <<started, answer, wire, interrupted>>
              /\ buf' \o wire' = EncodeFrom(answer)[n + 1]
<1>1. PICK n \in 0 .. Len(answer) : buf \o wire = EncodeFrom(answer)[n] /\ Passed(n)
    BY DEF PollInv, Position, Ready
<1> QED
    BY <1>1, NextFrame DEF TakeFrame

LEMMA GetStatusStep == ASSUME PollInv, GetStatus PROVE PollInv'
<1>1. Ready /\ at = "wait.status" /\ IsStatus(Body) /\ TakeFrame
    BY DEF GetStatus
<1>2. PICK n \in 0 .. Len(answer) :
              /\ n + 1 \in 1 .. Len(answer) /\ Passed(n) /\ Body = answer[n + 1]
              /\ buf' \in Seq(Byte) /\ UNCHANGED <<started, answer, wire, interrupted>>
    BY <1>1, Taken
<1>3. DOMAIN answer = 1 .. Len(answer) /\ Len(answer) \in Nat
    BY DEF PollInv, PollTypes
<1>4. \A m \in 1 .. n : ~IsStatus(answer[m])
    BY <1>1, <1>2 DEF Passed
<1>5. CASE Decodes(Body)
    <2>1. outcome' = "status" /\ at' = "done"
        BY <1>5 DEF GetStatus
    <2>2. HasStatus(answer)
        <3>1. (n + 1) - 1 = n
            OBVIOUS
        <3> QED
            BY <1>1, <1>2, <1>3, <1>4, <1>5, <3>1 DEF HasStatus
    <2>3. PollTypes'
        BY <1>2, <2>1 DEF PollInv, PollTypes
    <2>4. Position' /\ Phases' /\ PollIsTruthful'
        BY <1>2, <2>1, <2>2 DEF Position, Phases, PollIsTruthful, Waits
    <2> QED
        BY <2>3, <2>4 DEF PollInv
<1>6. CASE ~Decodes(Body)
    <2>1. Fails
        BY <1>6 DEF GetStatus
    <2>2. /\ at' \in {"connect.ping", "done"} /\ outcome' = "error" /\ Phases' /\ Position'
          /\ at' = "done" => ~started
        BY <1>1, <1>2, <2>1, FailsPhases
    <2>3. ~HasStatus(answer)
        <3>1. SUFFICES ASSUME NEW k \in 1 .. Len(answer), IsStatus(answer[k]), Decodes(answer[k]),
                              \A m \in 1 .. k - 1 : ~IsStatus(answer[m])
                       PROVE  FALSE
            BY <1>3 DEF HasStatus
        <3>2. k \notin 1 .. n /\ n + 1 \notin 1 .. k - 1 /\ k # n + 1
            BY <1>1, <1>2, <1>4, <1>6, <3>1
        <3> QED
            BY <1>2, <1>3, <3>2
    <2>4. PollTypes'
        BY <1>2, <2>2 DEF PollInv, PollTypes
    <2>5. PollIsTruthful'
        BY <1>2, <2>2, <2>3 DEF PollIsTruthful
    <2> QED
        BY <2>2, <2>4, <2>5 DEF PollInv
<1> QED
    BY <1>5, <1>6

\* Going on to the next frame.
LEMMA GoOn ==
    ASSUME PollInv, Ready, TakeFrame, UNCHANGED <<outcome, at>>,
           at = "wait.status" => ~IsStatus(Body),
           at = "wait.ping" /\ IsPing(Body) => Decodes(Body) /\ ~Matches(Body)
    PROVE  PollInv'
<1>1. PICK n \in 0 .. Len(answer) :
              /\ n + 1 \in 1 .. Len(answer) /\ Passed(n) /\ Body = answer[n + 1]
              /\ buf' \in Seq(Byte) /\ UNCHANGED <<started, answer, wire, interrupted>>
              /\ buf' \o wire' = EncodeFrom(answer)[n + 1]
    BY Taken
<1>2. Len(answer) \in Nat
    BY DEF PollInv, PollTypes
<1>3. PollTypes'
    BY <1>1 DEF PollInv, PollTypes
<1>4. Passed(n + 1)'
    <2>1. \A m \in 1 .. n + 1 : m \in 1 .. n \/ m = n + 1
        OBVIOUS
    <2> QED
        BY <1>1, <2>1 DEF Passed
<1>5. Position'
    <2>1. n + 1 \in 0 .. Len(answer')
        BY <1>1, <1>2
    <2>2. buf' \o wire' = EncodeFrom(answer')[n + 1]
        BY <1>1
    <2> QED
        BY <1>4, <2>1, <2>2 DEF Position
<1>6. Phases' /\ PollIsTruthful'
    BY <1>1 DEF PollInv, Phases, PollIsTruthful
<1> QED
    BY <1>3, <1>5, <1>6 DEF PollInv

LEMMA GetPongStep == ASSUME PollInv, GetPong PROVE PollInv'
<1>1. Ready /\ at = "wait.ping" /\ IsPing(Body) /\ TakeFrame
    BY DEF GetPong
<1>2. PICK n \in 0 .. Len(answer) :
              /\ n + 1 \in 1 .. Len(answer) /\ Passed(n) /\ Body = answer[n + 1]
              /\ buf' \in Seq(Byte) /\ UNCHANGED <<started, answer, wire, interrupted>>
    BY <1>1, Taken
<1>3. DOMAIN answer = 1 .. Len(answer) /\ Len(answer) \in Nat
    BY DEF PollInv, PollTypes
<1>4. \A m \in 1 .. n : IsPing(answer[m]) => Decodes(answer[m]) /\ ~Matches(answer[m])
    BY <1>1, <1>2 DEF Passed
<1>5. CASE Matches(Body)
    <2>1. outcome' = "pong" /\ at' = "done"
        BY <1>5 DEF GetPong, Matches
    <2>2. HasPong(answer)
        <3>1. (n + 1) - 1 = n
            OBVIOUS
        <3> QED
            BY <1>1, <1>2, <1>3, <1>4, <1>5, <3>1 DEF HasPong
    <2>3. PollTypes'
        BY <1>2, <2>1 DEF PollInv, PollTypes
    <2>4. Position' /\ Phases' /\ PollIsTruthful'
        BY <1>2, <2>1, <2>2 DEF Position, Phases, PollIsTruthful, Waits
    <2> QED
        BY <2>3, <2>4 DEF PollInv
<1>6. CASE ~Decodes(Body)
    <2>1. Fails
        BY <1>6 DEF GetPong, Matches
    <2>2. /\ at' = "done" /\ outcome' = "error" /\ Phases' /\ Position'
        BY <1>1, <1>2, <2>1, FailsPhases
    <2>3. started
        BY <1>1 DEF PollInv, Phases
    <2>4. ~HasPong(answer)
        <3>1. SUFFICES ASSUME NEW k \in 1 .. Len(answer), IsPing(answer[k]), Matches(answer[k]),
                              \A m \in 1 .. k - 1 : IsPing(answer[m]) => Decodes(answer[m])
                       PROVE  FALSE
            BY <1>3 DEF HasPong
        <3>2. k \notin 1 .. n /\ n + 1 \notin 1 .. k - 1 /\ k # n + 1
            BY <1>1, <1>2, <1>4, <1>6, <3>1 DEF Matches
        <3> QED
            BY <1>2, <1>3, <3>2
    <2>5. PollTypes'
        BY <1>2, <2>2 DEF PollInv, PollTypes
    <2>6. PollIsTruthful'
        BY <1>2, <2>2, <2>3, <2>4 DEF PollIsTruthful
    <2> QED
        BY <2>2, <2>5, <2>6 DEF PollInv
<1>7. CASE Decodes(Body) /\ ~Matches(Body)
    <2>1. UNCHANGED <<outcome, at>>
        BY <1>7 DEF GetPong
    <2> QED
        BY <1>1, <1>7, <2>1, GoOn
<1> QED
    BY <1>5, <1>6, <1>7

LEMMA SkipStep == ASSUME PollInv, Skip PROVE PollInv'
<1>1. /\ Ready /\ TakeFrame /\ UNCHANGED <<outcome, at>>
      /\ at = "wait.status" => ~IsStatus(Body)
      /\ at = "wait.ping" => ~IsPing(Body)
    BY DEF Skip, Ready, Waits
<1> QED
    BY <1>1, GoOn

THEOREM PollInvariant == Spec => []PollInv
<1>1. ASSUME PollInv, [Next]_vars PROVE PollInv'
    <2>1. CASE UNCHANGED vars
        <3>1. UNCHANGED <<started, at, answer, wire, buf, outcome, interrupted>>
            BY <2>1 DEF vars
        <3>2. PollTypes'
            BY <1>1, <3>1 DEF PollInv, PollTypes
        <3>3. Position'
            BY <1>1, <3>1 DEF PollInv, Position, Passed
        <3>4. Phases' /\ PollIsTruthful'
            BY <1>1, <3>1 DEF PollInv, Phases, PollIsTruthful
        <3> QED
            BY <3>2, <3>3, <3>4 DEF PollInv
    <2> QED
        BY <1>1, <2>1, ConnectStep, CannotConnectStep, ReadMoreStep, EndStep,
           GetStatusStep, GetPongStep, SkipStep DEF Next, Handle
<1> QED
    BY <1>1, PollInit, PTL DEF Spec

\* Whatever frames the server sends, however TCP cuts them and whenever it
\* stops: the poll finds the status or the pong that is there, unless it was
\* cut off before, and takes nothing else for one (poll_server).
THEOREM PollBelievesTheServer == Spec => []PollIsTruthful
<1>1. PollInv => PollIsTruthful
    BY DEF PollInv
<1> QED
    BY <1>1, PollInvariant, PTL
=============================================================================
