----------------------------- MODULE LobbyProofs -----------------------------
(***************************************************************************)
(* The lobby and the probe, for every server, threshold and number of      *)
(* packets: their types, that a client is moved over as LobbyVisit says,   *)
(* and that every frame can be read where it arrives.                      *)
(***************************************************************************)
EXTENDS Lobby, SequenceTheorems, TLAPS

(* Sequences.                                                              *)

LEMMA SplitSeq ==
    ASSUME NEW S, NEW s \in Seq(S), NEW n \in 0 .. Len(s)
    PROVE  /\ SubSeq(s, 1, n) \in Seq(S) /\ SubSeq(s, n + 1, Len(s)) \in Seq(S)
           /\ Len(SubSeq(s, 1, n)) = n
           /\ SubSeq(s, 1, n) \o SubSeq(s, n + 1, Len(s)) = s
<1>1. 1 \in 1 .. Len(s) + 1 /\ n \in 1 - 1 .. Len(s) /\ Len(s) \in n .. Len(s)
    OBVIOUS
<1>2. SubSeq(s, 1, n) \o SubSeq(s, n + 1, Len(s)) = SubSeq(s, 1, Len(s))
    BY <1>1, ConcatAdjacentSubSeq, Zenon
<1>3. SubSeq(s, 1, Len(s)) = s
    BY SubSeqFull
<1>4. SubSeq(s, 1, n) \in Seq(S) /\ SubSeq(s, n + 1, Len(s)) \in Seq(S) /\ Len(SubSeq(s, 1, n)) = n
    OBVIOUS
<1> QED
    BY <1>2, <1>3, <1>4

LEMMA TailOfConcat ==
    ASSUME NEW S, NEW s \in Seq(S), NEW t \in Seq(S), s # <<>>
    PROVE  /\ Tail(s) \in Seq(S) /\ s \o t # <<>>
           /\ Tail(s) \o t = Tail(s \o t) /\ Head(s \o t) = Head(s)
OBVIOUS

LEMMA SuffixStep ==
    ASSUME NEW S, NEW s \in Seq(S), NEW d \in 0 .. Len(s),
           NEW r, r = SubSeq(s, d + 1, Len(s)), r # <<>>
    PROVE  /\ d + 1 \in 1 .. Len(s)
           /\ Head(r) = s[d + 1] /\ Tail(r) = SubSeq(s, d + 2, Len(s))
           /\ Len(r) = Len(s) - d
OBVIOUS

LEMMA SuffixElements ==
    ASSUME NEW S, NEW s \in Seq(S), NEW d \in 0 .. Len(s)
    PROVE  /\ Len(SubSeq(s, d + 1, Len(s))) = Len(s) - d
           /\ \A n \in 1 .. Len(s) - d : SubSeq(s, d + 1, Len(s))[n] = s[d + n]
OBVIOUS

-----------------------------------------------------------------------------
(* What a server says.                                                     *)

LEMMA WireFacts ==
    ASSUME config.threshold \in Int, NEW s \in Sayable
    PROVE  /\ Wire(s) \in Seq(Frames) /\ Len(Wire(s)) = Len(s)
           /\ s \in Seq(Packets) /\ s \in Scripts
           /\ \A n \in 1 .. Len(s) :
                 /\ Wire(s)[n].id = s[n].id /\ s[n].id \in Ids
                 /\ Wire(s)[n].size \in Nat
                 /\ IF \E k \in 1 .. n - 1 : s[k].id = "compress"
                    THEN Wire(s)[n].form # "plain" /\ Reads(config.threshold, Wire(s)[n])
                    ELSE Wire(s)[n].form = "plain"
<1>1. s \in Seq(Packets) /\ s \in Scripts
    BY ScriptsTyped DEF Sayable
<1>2. DOMAIN s = 1 .. Len(s) /\ Len(s) \in Nat
    BY <1>1
<1>3. ASSUME NEW n \in 1 .. Len(s)
      PROVE  /\ s[n].id \in Ids /\ s[n].size \in Nat
             /\ Wire(s)[n].id = s[n].id
             /\ Wire(s)[n].size = s[n].size
             /\ Wire(s)[n] \in Frames
             /\ IF \E k \in 1 .. n - 1 : s[k].id = "compress"
                THEN Wire(s)[n].form # "plain" /\ Reads(config.threshold, Wire(s)[n])
                ELSE Wire(s)[n].form = "plain"
    <2>1. s[n] \in Packets
        BY <1>1
    <2>2. s[n].id \in Ids /\ s[n].size \in Nat
        BY <2>1 DEF Packets
    <2>3. CASE \E k \in 1 .. n - 1 : s[k].id = "compress"
        <3>1. config.threshold >= 0
            BY <1>2, <2>3 DEF Sayable, Says
        <3>2. Wire(s)[n] = Sends(config.threshold, s[n].id, s[n].size)
            BY <1>2, <2>3 DEF Wire
        <3> QED
            BY <2>2, <2>3, <3>1, <3>2 DEF Sends, Reads, Frames, Forms
    <2>4. CASE ~ \E k \in 1 .. n - 1 : s[k].id = "compress"
        <3>1. Wire(s)[n] = Sends(-1, s[n].id, s[n].size)
            BY <1>2, <2>4 DEF Wire
        <3> QED
            BY <2>2, <2>4, <3>1 DEF Sends, Frames, Forms
    <2> QED
        BY <2>3, <2>4
<1>4. Wire(s) \in Seq(Frames) /\ Len(Wire(s)) = Len(s)
    <2>1. DOMAIN Wire(s) = 1 .. Len(s)
        BY <1>2 DEF Wire
    <2>2. Wire(s) = [n \in 1 .. Len(s) |-> Wire(s)[n]]
        BY <1>2 DEF Wire
    <2> QED
        BY <1>2, <1>3, <2>1, <2>2
<1> QED
    BY <1>1, <1>3, <1>4

-----------------------------------------------------------------------------
(* The invariants.                                                         *)

Early       == {"occupy", "replay", "count", "responses", "enter"}
Unconnected == Early \cup {"subscribe", "wait", "connect"}
Connected   == {"login", "join", "ready", "drain", "route", "relay"}

Sent == {"response", "stray", "front", "back"}

Types ==
    /\ TypeOK
    /\ config \in [forge: BOOLEAN, probe_on_start: BOOLEAN, threshold: Thresholds]
    /\ coming \in Seq(Frames) /\ recorded \in Seq(Frames) /\ script \in Seq(Frames)
    /\ inbox \in Seq(Sent) /\ outbound \in Seq(Sent)
    /\ probe_compression \in Int

\* Only Forge's requests are recorded, and the lobby is shown once.
Payloads ==
    /\ \A n \in 1 .. Len(recorded) : recorded[n].id = "plugin"
    /\ \A n \in 1 .. Len(forge_payload) : forge_payload[n].id = "plugin"

Worlds ==
    /\ at \in Early => \A n \in 1 .. Len(shown) : shown[n].id = "plugin"
    /\ at \in (Unconnected \cup Connected) \ Early =>
          \E m \in 1 .. Len(shown) :
             \A n \in 1 .. Len(shown) : shown[n].id = "lobby" <=> n = m
    /\ coming # <<>> => \A n \in 1 .. Len(coming) : coming[n].id \in Ids

\* What the task has yet to handle is a tail of what the server sends.
Rest    == server_buf \o sock
Handled == Len(script) - Len(Rest)

Accepted(n) == \E k \in 1 .. n : script[k].id = "success"
Joined(n)   == \E i \in 1 .. n : script[i].id = "join" /\ Accepted(i - 1)

Stream ==
    /\ script = <<>> \/ \E s \in Sayable : script = Wire(s)
    /\ Handled \in 0 .. Len(script)
    /\ Rest = SubSeq(script, Handled + 1, Len(script))
    /\ at \in Unconnected => script = <<>>
    /\ at = "login" => ~Accepted(Handled)
    /\ at = "join" => Accepted(Handled) /\ ~Joined(Handled)
    /\ at = "ready" => Joined(Handled) /\ ~Joined(Handled - 1)
    /\ at \in {"drain", "route", "relay"} => Accepted(Handled)
    /\ at = "relay" => server_buf = <<>>

LobbyInv == Types /\ Payloads /\ Worlds /\ Stream

-----------------------------------------------------------------------------
LEMMA LobbyInit == Init => LobbyInv
<1> SUFFICES ASSUME Init PROVE LobbyInv
    OBVIOUS
<1>1. Types
    BY MaxHalvesTyped DEF Init, ProbeInit, Types, TypeOK, States, Ats
<1>2. Payloads /\ Worlds
    BY DEF Init, ProbeInit, Payloads, Worlds, Early, Unconnected, Connected
<1>3. Stream
    BY DEF Init, Stream, Rest, Handled, Unconnected
<1> QED
    BY <1>1, <1>2, <1>3 DEF LobbyInv

\* The steps of the probe.
LEMMA ProbeTypes ==
    ASSUME Types, ProbeSteps, UNCHANGED <<config, lobbyVars>>
    PROVE  Types'
<1> USE DEF Types, TypeOK, lobbyVars, clientVars, serverVars
<1>0. config.threshold \in Int /\ config' = config
    BY ThresholdsTyped
<1>1. CASE ProbeConnects
    <2>1. coming' \in Seq(Frames)
        BY <1>0, <1>1, WireFacts DEF ProbeConnects
    <2> QED
        BY <1>1, <2>1 DEF ProbeConnects, channelVars
<1>2. ASSUME NEW id, ProbeGot(id)
      PROVE  Head(coming) \in Frames /\ coming' \in Seq(Frames)
    BY <1>2 DEF ProbeGot
<1>3. CASE ProbeCompresses \/ ProbeLogin \/ ProbeJoinGame
    <2>1. coming' \in Seq(Frames) /\ probe_compression' \in Int
          /\ UNCHANGED <<channelVars, recorded, forge_payload>>
        BY <1>0, <1>2, <1>3 DEF ProbeCompresses, ProbeLogin, ProbeJoinGame
    <2> QED
        BY <2>1 DEF channelVars
<1>4. CASE ProbeRecords
    <2>1. coming' \in Seq(Frames) /\ recorded' \in Seq(Frames)
          /\ UNCHANGED <<channelVars, probe_compression, forge_payload>>
        BY <1>2, <1>4 DEF ProbeRecords
    <2> QED
        BY <2>1 DEF channelVars
<1>5. CASE ProbeStarts \/ ProbeWoken
    BY <1>5 DEF ProbeStarts, ProbeWoken, Subscribe, Woken
<1>6. CASE ProbeStores
    BY <1>6 DEF ProbeStores, channelVars
<1>7. CASE ProbeCloses
    BY <1>7 DEF ProbeCloses, channelVars
<1>8. CASE ProbeFails
    BY <1>8 DEF ProbeFails
<1> QED
    BY <1>1, <1>3, <1>4, <1>5, <1>6, <1>7, <1>8 DEF ProbeSteps

LEMMA ProbeStep ==
    ASSUME LobbyInv, ProbeSteps, UNCHANGED <<config, lobbyVars>>
    PROVE  LobbyInv'
<1> USE DEF lobbyVars, clientVars, serverVars
<1>0. config.threshold \in Int /\ config' = config
    BY ThresholdsTyped DEF LobbyInv, Types
<1>1. Types'
    BY ProbeTypes DEF LobbyInv
<1>2. coming' # <<>> => \A n \in 1 .. Len(coming') : coming'[n].id \in Ids
    <2>1. CASE ProbeConnects
        BY <1>0, <2>1, WireFacts DEF ProbeConnects
    <2>2. ASSUME NEW id, ProbeGot(id)
          PROVE  \A n \in 1 .. Len(coming') : coming'[n].id \in Ids
        BY <2>2 DEF ProbeGot, LobbyInv, Types, Worlds
    <2>3. CASE ProbeCompresses \/ ProbeRecords \/ ProbeLogin \/ ProbeJoinGame
        BY <2>2, <2>3 DEF ProbeCompresses, ProbeRecords, ProbeLogin, ProbeJoinGame
    <2>4. CASE ProbeStarts \/ ProbeWoken \/ ProbeCloses \/ ProbeStores \/ ProbeFails
        BY <2>4 DEF ProbeStarts, ProbeWoken, ProbeCloses, ProbeStores, ProbeFails, LobbyInv, Worlds
    <2> QED
        BY <2>1, <2>3, <2>4 DEF ProbeSteps
<1>3. Payloads'
    <2>1. CASE ProbeRecords
        BY <2>1 DEF ProbeRecords, ProbeGot, LobbyInv, Types, Payloads
    <2>2. CASE ~ProbeRecords
        BY <2>2 DEF ProbeSteps, ProbeStarts, ProbeWoken, ProbeConnects, ProbeCompresses,
            ProbeLogin, ProbeJoinGame, ProbeCloses, ProbeStores, ProbeFails, LobbyInv, Payloads
    <2> QED
        BY <2>1, <2>2
<1>4. Worlds'
    BY <1>2 DEF LobbyInv, Worlds
<1>5. Stream'
    BY <1>0 DEF LobbyInv, Stream, Handled, Rest, Accepted, Joined, Sayable, Wire
<1> QED
    BY <1>1, <1>3, <1>4, <1>5 DEF LobbyInv

-----------------------------------------------------------------------------
(* The steps of the client's task.                                         *)

\* One that leaves the server's stream alone keeps Stream if its label allows.
LEMMA StreamKept ==
    ASSUME Stream, UNCHANGED <<config, serverVars>>,
           \/ at' = at
           \/ at \in Unconnected /\ at' \in Unconnected
           \/ at = "ready" /\ at' = "drain"
           \/ at = "drain" /\ at' = "route"
           \/ at' \in {"next", "closed"},
           Handled \in Nat
    PROVE  Stream'
<1> USE DEF serverVars
<1>1. UNCHANGED <<Rest, Handled>>
    BY DEF Rest, Handled
<1>2. /\ script' = <<>> \/ \E s \in Sayable' : script' = Wire(s)'
      /\ Handled' \in 0 .. Len(script') /\ Rest' = SubSeq(script', Handled' + 1, Len(script'))
    BY <1>1 DEF Stream, Sayable, Wire
<1>3. \A n : Accepted(n)' = Accepted(n) /\ Joined(n)' = Joined(n)
    BY DEF Accepted, Joined
<1>4. Joined(Handled) => Accepted(Handled)
    BY DEF Accepted, Joined
<1> QED
    BY <1>1, <1>2, <1>3, <1>4 DEF Stream, Unconnected, Early

\* The sequences the variables hold.
LEMMA SeqsTyped ==
    ASSUME Types
    PROVE  /\ shown \in Seq(Frames) /\ script \in Seq(Frames)
           /\ server_buf \in Seq(Frames) /\ sock \in Seq(Frames)
BY DEF Types, TypeOK

LEMMA RestTyped == ASSUME Types PROVE Rest \in Seq(Frames)
<1>1. server_buf \in Seq(Frames) /\ sock \in Seq(Frames)
    BY SeqsTyped
<1> QED
    BY <1>1, ConcatProperties DEF Rest

LEMMA PayloadsKept == ASSUME Payloads, UNCHANGED probeVars PROVE Payloads'
BY DEF Payloads, probeVars

\* Up to the lobby world.
LEMMA EarlySteps ==
    ASSUME LobbyInv, UNCHANGED <<config, probeVars>>,
           Occupy \/ Replay \/ Count \/ Response \/ Replayed \/ ClientGone \/ Wait \/ WaitWoken
    PROVE  LobbyInv'
<1> USE DEF LobbyInv, clientVars
<1>1. Payloads'
    BY PayloadsKept
<1>2. Types'
    <2> USE DEF Types, TypeOK, serverVars, probeVars
    <2>1. CASE Occupy
        BY <2>1 DEF Occupy, channelVars, Ats
    <2>2. CASE Replay
        BY <2>2 DEF Replay, channelVars, Ats
    <2>3. CASE Count
        BY <2>3 DEF Count, channelVars, Ats
    <2>4. CASE Response
        BY <2>4 DEF Response, channelVars
    <2>5. CASE Replayed \/ ClientGone
        BY <2>5 DEF Replayed, ClientGone, channelVars, Ats
    <2>6. CASE Wait
        BY <2>6 DEF Wait, Subscribe, Ats
    <2>7. CASE WaitWoken
        BY <2>7 DEF WaitWoken, Woken, Outcome, Ats
    <2> QED
        BY <2>1, <2>2, <2>3, <2>4, <2>5, <2>6, <2>7
<1>3. Stream'
    <2>1. Handled \in Nat
        BY DEF Stream
    <2>2. /\ UNCHANGED serverVars
          /\ \/ at' = at
             \/ at \in Unconnected /\ at' \in Unconnected
             \/ at' \in {"next", "closed"}
        BY DEF Occupy, Replay, Count, Response, Replayed, ClientGone, Wait, WaitWoken,
               Outcome, Unconnected, Early
    <2> QED
        BY <2>1, <2>2, StreamKept
<1>4. Worlds'
    <2>1. CASE Replay
        <3>1. shown' = shown \o forge_payload /\ at = "replay" /\ at' = "count" /\ coming' = coming
            BY <2>1 DEF Replay, probeVars
        <3>2. \A n \in 1 .. Len(shown') : shown'[n].id = "plugin"
            <4>1. shown \in Seq(Frames) /\ forge_payload \in Seq(Frames)
                BY DEF Types, TypeOK
            <4>2. /\ \A n \in 1 .. Len(shown) : shown[n].id = "plugin"
                  /\ \A n \in 1 .. Len(forge_payload) : forge_payload[n].id = "plugin"
                BY <3>1 DEF Worlds, Early, Payloads
            <4>3. /\ Len(shown) \in Nat /\ Len(forge_payload) \in Nat
                  /\ Len(shown \o forge_payload) = Len(shown) + Len(forge_payload)
                  /\ \A n \in 1 .. Len(shown) + Len(forge_payload) :
                        (shown \o forge_payload)[n]
                           = IF n <= Len(shown) THEN shown[n] ELSE forge_payload[n - Len(shown)]
                BY <4>1, ConcatProperties, LenProperties
            <4>4. ASSUME NEW n \in 1 .. Len(shown) + Len(forge_payload)
                  PROVE  (shown \o forge_payload)[n].id = "plugin"
                <5>1. CASE n <= Len(shown)
                    <6>1. n \in 1 .. Len(shown)
                        BY <4>3, <5>1
                    <6> QED
                        BY <4>2, <4>3, <5>1, <6>1
                <5>2. CASE ~(n <= Len(shown))
                    <6>1. n - Len(shown) \in 1 .. Len(forge_payload)
                        BY <4>3, <5>2
                    <6> QED
                        BY <4>2, <4>3, <5>2, <6>1
                <5> QED
                    BY <5>1, <5>2
            <4> QED
                BY <3>1, <4>3, <4>4
        <3> QED
            BY <3>1, <3>2 DEF Worlds, Early
    <2>2. CASE ~Replay
        <3>1. /\ shown' = shown /\ coming' = coming
              /\ \/ at' = at
                 \/ at \in Early /\ at' \in Early
                 \/ at \in Unconnected \ Early /\ at' \in Unconnected \ Early
                 \/ at' \in {"next", "closed"}
            BY <2>2 DEF Occupy, Count, Response, Replayed, ClientGone, Wait, WaitWoken,
                        Outcome, Unconnected, Early, probeVars
        <3> QED
            BY <3>1 DEF Worlds, Unconnected, Connected, Early
    <2> QED
        BY <2>1, <2>2
<1> QED
    BY <1>1, <1>2, <1>3, <1>4

\* Where the elements of two joined sequences are.
LEMMA ConcatElements ==
    ASSUME NEW S, NEW r \in Seq(S), NEW p \in Seq(S)
    PROVE  /\ r \o p \in Seq(S) /\ Len(r \o p) = Len(r) + Len(p)
           /\ \A n \in 1 .. Len(r) : (r \o p)[n] = r[n]
           /\ \A n \in 1 .. Len(p) : (r \o p)[Len(r) + n] = p[n]
    OBVIOUS

\* A sequence with one element and then two more after it.
LEMMA ThreeMore ==
    ASSUME NEW S, NEW s \in Seq(S), NEW x \in S, NEW y \in S, NEW z \in S
    PROVE  LET t == s \o <<x>> \o <<y, z>>
           IN  /\ t \in Seq(S) /\ Len(t) = Len(s) + 3
               /\ \A n \in 1 .. Len(s) : t[n] = s[n]
               /\ t[Len(s) + 1] = x /\ t[Len(s) + 2] = y /\ t[Len(s) + 3] = z
<1> DEFINE r == s \o <<x>>
<1>1. /\ r \in Seq(S) /\ Len(r) = Len(s) + 1 /\ r[Len(s) + 1] = x
      /\ \A n \in 1 .. Len(s) : r[n] = s[n]
    OBVIOUS
<1>2. Len(s) \in Nat
    OBVIOUS
<1> HIDE DEF r
<1> DEFINE p == <<y, z>>
<1>3. p \in Seq(S) /\ Len(p) = 2 /\ p[1] = y /\ p[2] = z
    OBVIOUS
<1> HIDE DEF p
<1>4. /\ r \o p \in Seq(S) /\ Len(r \o p) = Len(r) + Len(p)
      /\ \A n \in 1 .. Len(r) : (r \o p)[n] = r[n]
      /\ \A n \in 1 .. Len(p) : (r \o p)[Len(r) + n] = p[n]
    <2>1. r \in Seq(S) /\ p \in Seq(S)
        BY <1>1, <1>3
    <2> QED
        BY <2>1, ConcatElements
<1> DEFINE t == r \o p
<1>5. s \o <<x>> \o <<y, z>> = t
    BY DEF r, p
<1>6. /\ t \in Seq(S) /\ Len(t) = Len(s) + 3
      /\ \A n \in 1 .. Len(s) : t[n] = s[n]
      /\ t[Len(s) + 1] = x
    BY <1>1, <1>2, <1>3, <1>4
<1>7. t[Len(s) + 2] = y /\ t[Len(s) + 3] = z
    <2>1. t[Len(r) + 1] = p[1] /\ t[Len(r) + 2] = p[2]
        BY <1>3, <1>4
    <2>2. Len(r) + 1 = Len(s) + 2 /\ Len(r) + 2 = Len(s) + 3
        BY <1>1, <1>2
    <2> QED
        BY <1>3, <2>1, <2>2
<1> HIDE DEF t
<1> QED
    BY <1>5, <1>6, <1>7

\* What Enter sends.
LEMMA EnterShows ==
    ASSUME Types, Enter
    PROVE  /\ shown' \in Seq(Frames) /\ compression' \in [client: Int, server: Int]
           /\ compression'.client = COMPRESSION_THRESHOLD
           /\ Len(shown') = Len(shown) + 3
           /\ \A n \in 1 .. Len(shown) : shown'[n] = shown[n]
           /\ shown'[Len(shown) + 1] = Encode(compression.client, "compress", 1)
           /\ shown'[Len(shown) + 2] = Write(COMPRESSION_THRESHOLD, Success)
           /\ shown'[Len(shown) + 3] = Write(COMPRESSION_THRESHOLD, World)
<1> DEFINE a == Encode(compression.client, "compress", 1)
           b == Write(COMPRESSION_THRESHOLD, Success)
           c == Write(COMPRESSION_THRESHOLD, World)
<1>0. Compresses
    BY ThresholdIsPositive DEF Compresses
<1>1. compression' \in [client: Int, server: Int] /\ compression'.client = COMPRESSION_THRESHOLD
    <2>1. compression' = [compression EXCEPT !.client = COMPRESSION_THRESHOLD]
        BY <1>0 DEF Enter
    <2>2. compression \in [client: Int, server: Int] /\ COMPRESSION_THRESHOLD \in Int
        BY ThresholdIsPositive DEF Types, TypeOK
    <2> HIDE DEF a, b, c
    <2>3. compression' = [client |-> COMPRESSION_THRESHOLD, server |-> compression.server]
        BY <2>1, <2>2
    <2> QED
        BY <2>2, <2>3
<1>2. a \in Frames /\ b \in Frames /\ c \in Frames
    <2>1. COMPRESSION_THRESHOLD - 1 \in Nat /\ COMPRESSION_THRESHOLD + 1 \in Nat
        BY ThresholdIsPositive
    <2>2. \A limit, size : Form(limit, size) \in Forms
        BY DEF Form, Forms
    <2> QED
        BY <2>1, <2>2 DEF Encode, Write, Success, World, Frames, Ids
<1>3. shown' = shown \o <<a>> \o <<b, c>>
    <2>1. Announced = <<a>>
        BY <1>0 DEF Announced
    <2> QED
        BY <1>1, <2>1 DEF Enter
<1>4. shown \in Seq(Frames)
    BY DEF Types, TypeOK
<1> HIDE DEF a, b, c
<1>5. /\ shown' \in Seq(Frames) /\ Len(shown') = Len(shown) + 3
      /\ \A n \in 1 .. Len(shown) : shown'[n] = shown[n]
      /\ shown'[Len(shown) + 1] = a /\ shown'[Len(shown) + 2] = b /\ shown'[Len(shown) + 3] = c
    BY <1>2, <1>3, <1>4, ThreeMore
<1> QED
    BY <1>1, <1>5 DEF a, b, c

LEMMA EnterStep ==
    ASSUME LobbyInv, UNCHANGED <<config, probeVars>>, Enter
    PROVE  LobbyInv'
<1> USE DEF LobbyInv, clientVars
<1>0. /\ at = "enter" /\ at' = "subscribe"
      /\ UNCHANGED <<channelVars, count, outbound, clientVars, serverVars>>
    BY DEF Enter
<1>1. Payloads'
    BY PayloadsKept
<1>9. Len(shown) \in Nat /\ Len(shown') = Len(shown) + 3
    <2>1. Len(shown) \in Nat
        BY DEF Types, TypeOK
    <2> QED
        BY <2>1, EnterShows
<1>2. Types'
    <2>1. shown' \in Seq(Frames) /\ compression' \in [client: Int, server: Int]
        BY EnterShows
    <2> QED
        BY <1>0, <2>1 DEF Types, TypeOK, serverVars, probeVars, channelVars, Ats
<1>3. Stream'
    BY <1>0, StreamKept DEF Stream, Unconnected, Early
<1>4. Worlds'
    <2>1. \A n \in 1 .. Len(shown) : shown[n].id = "plugin"
        BY <1>0 DEF Worlds, Early
    <2>2. \A n \in 1 .. Len(shown') : shown'[n].id = "lobby" <=> n = Len(shown) + 3
        <3>1. /\ shown'[Len(shown) + 1].id # "lobby" /\ shown'[Len(shown) + 2].id # "lobby"
              /\ shown'[Len(shown) + 3].id = "lobby"
            BY EnterShows DEF Encode, Write, Success, World
        <3>3. \A n \in 1 .. Len(shown) : shown'[n].id # "lobby"
            BY <2>1, EnterShows
        <3>4. \A n \in 1 .. Len(shown') :
                 n \in 1 .. Len(shown) \/ n \in {Len(shown) + 1, Len(shown) + 2, Len(shown) + 3}
            BY <1>9
        <3> QED
            BY <1>9, <3>1, <3>3, <3>4
    <2>3. Len(shown) + 3 \in 1 .. Len(shown')
        BY <1>9
    <2> QED
        BY <1>0, <2>2, <2>3 DEF Worlds, Early, Unconnected, probeVars
<1> QED
    BY <1>1, <1>2, <1>3, <1>4

\* Nothing that is shown after the lobby is a lobby: Worlds is kept.
LEMMA WorldsKept ==
    ASSUME Types, Worlds, NEW t \in Seq(Frames), shown' = shown \o t, coming' = coming,
           \A n \in 1 .. Len(t) : t[n].id # "lobby",
           at \notin Early, at' \notin Early,
           at \in Unconnected \cup Connected
    PROVE  Worlds'
<1>1. PICK m \in 1 .. Len(shown) : \A n \in 1 .. Len(shown) : shown[n].id = "lobby" <=> n = m
    BY DEF Worlds
<1>2. /\ m \in 1 .. Len(shown')
      /\ \A n \in 1 .. Len(shown') : shown'[n].id = "lobby" <=> n = m
    <2>1. shown \in Seq(Frames)
        BY SeqsTyped
    <2>2. /\ Len(shown) \in Nat /\ Len(t) \in Nat /\ Len(shown') = Len(shown) + Len(t)
          /\ \A n \in 1 .. Len(shown) : shown'[n] = shown[n]
          /\ \A n \in 1 .. Len(t) : shown'[Len(shown) + n] = t[n]
        BY <2>1, ConcatElements
    <2>3. m \in 1 .. Len(shown')
        BY <2>2
    <2>4. ASSUME NEW n \in 1 .. Len(shown')
          PROVE  shown'[n].id = "lobby" <=> n = m
        <3>1. CASE n <= Len(shown)
            BY <1>1, <2>2, <3>1
        <3>2. CASE n > Len(shown)
            <4>1. n - Len(shown) \in 1 .. Len(t) /\ n = Len(shown) + (n - Len(shown)) /\ n # m
                BY <2>2, <3>2
            <4>2. shown'[n] = t[n - Len(shown)]
                BY <2>2, <4>1
            <4> QED
                BY <4>1, <4>2
        <3> QED
            BY <2>2, <3>1, <3>2
    <2> QED
        BY <2>3, <2>4
<1> QED
    BY <1>2 DEF Worlds

-----------------------------------------------------------------------------
(* The connection to the server.                                           *)

\* No packet of the server is a lobby or a respawn of the proxy.
LEMMA ScriptIds ==
    ASSUME Types, Stream
    PROVE  /\ \A n \in 1 .. Len(script) : script[n].id \in Ids
           /\ \A n \in 1 .. Len(Rest) : Rest[n] = script[Handled + n] /\ Rest[n].id \in Ids
           /\ Rest \in Seq(Frames) /\ Len(Rest) = Len(script) - Handled
<1>0. config.threshold \in Int
    BY ThresholdsTyped DEF Types
<1>1. \A n \in 1 .. Len(script) : script[n].id \in Ids
    <2>1. CASE script = <<>>
        BY <2>1
    <2>2. ASSUME NEW s \in Sayable, script = Wire(s)
          PROVE  \A n \in 1 .. Len(script) : script[n].id \in Ids
        BY <1>0, <2>2, WireFacts
    <2> QED
        BY <2>1, <2>2 DEF Stream
<1>2. Rest \in Seq(Frames)
    BY RestTyped
<1>3. /\ Handled \in 0 .. Len(script) /\ script \in Seq(Frames)
      /\ Rest = SubSeq(script, Handled + 1, Len(script))
    BY SeqsTyped DEF Stream
<1>4. /\ Len(Rest) = Len(script) - Handled
      /\ \A n \in 1 .. Len(script) - Handled : Rest[n] = script[Handled + n]
    BY <1>3, SuffixElements
<1>5. \A n \in 1 .. Len(Rest) : Handled + n \in 1 .. Len(script)
    <2>1. Len(script) \in Nat
        BY <1>3
    <2> QED
        BY <1>3, <1>4, <2>1
<1> QED
    BY <1>1, <1>2, <1>4, <1>5

LEMMA ConnectStep ==
    ASSUME LobbyInv, UNCHANGED <<config, probeVars>>, Connect
    PROVE  LobbyInv' /\ Handled' = 0
<1> USE DEF LobbyInv, clientVars
<1>0. /\ at = "connect" /\ at' = "login" /\ sock' = script'
      /\ UNCHANGED <<channelVars, compression, count, outbound, shown, clientVars, server_buf>>
      /\ config.threshold \in Int /\ config' = config
    BY ThresholdsTyped DEF Connect, Types
<1>1. PICK s \in Sayable : script' = Wire(s)
    BY DEF Connect
<1>2. script' \in Seq(Frames)
    BY <1>0, <1>1, WireFacts
<1>3. Types' /\ Payloads'
    BY <1>0, <1>2, PayloadsKept DEF Types, TypeOK, probeVars, channelVars, Ats
<1>4. Worlds'
    BY <1>0 DEF Worlds, Unconnected, Connected, Early, probeVars
<1>5. server_buf = <<>>
    <2>1. Rest = <<>>
        BY <1>0 DEF Stream, Unconnected, Early
    <2> QED
        BY <2>1 DEF Rest, Types, TypeOK
<1>6. Rest' = script'
    BY <1>0, <1>2, <1>5 DEF Rest
<1>7. Handled' = 0
    BY <1>2, <1>6 DEF Handled
<1>8. s \in Sayable' /\ Wire(s)' = Wire(s)
    BY <1>0 DEF Sayable, Wire
<1>9. Rest' = SubSeq(script', 1, Len(script'))
    BY <1>2, <1>6, SubSeqFull
<1>10. Stream'
    BY <1>0, <1>1, <1>2, <1>7, <1>8, <1>9 DEF Stream, Unconnected, Early, Accepted
<1> QED
    BY <1>3, <1>4, <1>7, <1>10

\* One more frame is handled.
LEMMA HandleOne ==
    ASSUME Types, Stream, Rest # <<>>, script' = script, Rest' = Tail(Rest)
    PROVE  /\ Handled' = Handled + 1 /\ Handled + 1 \in 1 .. Len(script)
           /\ Head(Rest) = script[Handled + 1]
           /\ Rest' = SubSeq(script', Handled' + 1, Len(script'))
           /\ Accepted(Handled + 1) <=> Accepted(Handled) \/ Head(Rest).id = "success"
           /\ Joined(Handled + 1) <=>
                 Joined(Handled) \/ (Head(Rest).id = "join" /\ Accepted(Handled))
           /\ \A n : Accepted(n)' = Accepted(n) /\ Joined(n)' = Joined(n)
<1>1. Handled \in 0 .. Len(script) /\ script \in Seq(Frames) /\ Len(script) \in Nat
      /\ Rest = SubSeq(script, Handled + 1, Len(script))
    BY DEF Stream, Types
<1>2. /\ Handled + 1 \in 1 .. Len(script) /\ Head(Rest) = script[Handled + 1]
      /\ Tail(Rest) = SubSeq(script, Handled + 2, Len(script))
      /\ Len(Rest) = Len(script) - Handled
    BY <1>1, SuffixStep
<1>3. Handled' = Handled + 1
    <2>1. Rest \in Seq(Frames)
        BY ScriptIds
    <2>2. Len(Tail(Rest)) = Len(Rest) - 1
        BY <2>1
    <2>3. Handled' = Len(script) - Len(Tail(Rest))
        BY DEF Handled
    <2> QED
        BY <1>1, <1>2, <2>2, <2>3
<1>4. Rest' = SubSeq(script', Handled' + 1, Len(script'))
    <2>1. Handled' + 1 = Handled + 2
        BY <1>1, <1>3
    <2> QED
        BY <1>2, <2>1
<1>5. Accepted(Handled + 1) <=> Accepted(Handled) \/ Head(Rest).id = "success"
    BY <1>1, <1>2 DEF Accepted
<1>6. Joined(Handled + 1) <=> Joined(Handled) \/ (Head(Rest).id = "join" /\ Accepted(Handled))
    <2>1. (Handled + 1) - 1 = Handled
        BY <1>1
    <2>2. \A i : i \in 1 .. Handled + 1 <=> i \in 1 .. Handled \/ i = Handled + 1
        BY <1>1
    <2> QED
        BY <1>1, <1>2, <2>1, <2>2 DEF Joined
<1>7. \A n : Accepted(n)' = Accepted(n) /\ Joined(n)' = Joined(n)
    BY DEF Accepted, Joined
<1> QED
    BY <1>2, <1>3, <1>4, <1>5, <1>6, <1>7

\* Stream after it, but for what its new label asks for.
LEMMA StreamHandled ==
    ASSUME Types, Stream, Rest # <<>>, UNCHANGED <<config, script>>, Rest' = Tail(Rest),
           at \in Connected, at' \in Connected \cup {"closed"},
           at' = "login"  => ~Accepted(Handled + 1),
           at' = "join"   => Accepted(Handled + 1) /\ ~Joined(Handled + 1),
           at' = "ready"  => Joined(Handled + 1) /\ ~Joined(Handled),
           at' \in {"drain", "route", "relay"} => Accepted(Handled + 1),
           at' = "relay" => server_buf' = <<>>
    PROVE  Stream'
<1>1. /\ script' = <<>> \/ \E s \in Sayable' : script' = Wire(s)'
    BY DEF Stream, Sayable, Wire
<1>2. Handled' = Handled + 1 /\ Handled' - 1 = Handled /\ Handled' \in 0 .. Len(script')
    BY HandleOne DEF Stream
<1>3. at' \notin Unconnected
    BY DEF Unconnected, Early, Connected
<1> QED
    BY <1>1, <1>2, <1>3, HandleOne DEF Stream

LEMMA ReadStep ==
    ASSUME LobbyInv, UNCHANGED <<config, probeVars>>, ReadServer
    PROVE  LobbyInv' /\ Rest' = Rest
<1> USE DEF LobbyInv, clientVars
<1>0. PICK n \in 1 .. Len(sock) :
          /\ server_buf' = SubSeq(sock, 1, n) /\ sock' = SubSeq(sock, n + 1, Len(sock))
    BY DEF ReadServer
<1>1. /\ at \in {"login", "join"} /\ server_buf = <<>>
      /\ UNCHANGED <<channelVars, at, compression, count, outbound, shown, clientVars, script>>
    BY DEF ReadServer
<1>2. sock' \in Seq(Frames) /\ server_buf' \in Seq(Frames) /\ server_buf' \o sock' = sock
    BY <1>0, SplitSeq, SeqsTyped
<1>3. Rest' = Rest
    <2>1. <<>> \o sock = sock
        BY SeqsTyped, ConcatEmptySeq
    <2> QED
        BY <1>1, <1>2, <2>1 DEF Rest
<1>4. Types' /\ Payloads'
    BY <1>1, <1>2, PayloadsKept DEF Types, TypeOK, probeVars, channelVars
<1>5. Worlds'
    BY <1>1 DEF Worlds, probeVars
<1>6. Stream'
    <2>1. Handled' = Handled /\ script' = script /\ at' = at
        BY <1>1, <1>3 DEF Handled
    <2>2. script' = <<>> \/ \E s \in Sayable' : script' = Wire(s)'
        BY <2>1 DEF Stream, Sayable, Wire
    <2>3. \A k : Accepted(k)' = Accepted(k) /\ Joined(k)' = Joined(k)
        BY <2>1 DEF Accepted, Joined
    <2>4. at # "relay" /\ at \notin Unconnected
        BY <1>1 DEF Unconnected, Early
    <2> QED
        BY <1>3, <2>1, <2>2, <2>3, <2>4 DEF Stream
<1> QED
    BY <1>3, <1>4, <1>5, <1>6

LEMMA ServerStep ==
    ASSUME LobbyInv, UNCHANGED <<config, probeVars>>,
           ServerCompresses \/ ServerLogin \/ ServerJoinGame
    PROVE  /\ LobbyInv'
           /\ Rest # <<>> /\ Rest' = Tail(Rest) /\ Head(Rest) = Head(server_buf)
<1> USE DEF LobbyInv, clientVars
<1>0. /\ server_buf # <<>> /\ server_buf' = Tail(server_buf)
      /\ UNCHANGED <<channelVars, count, outbound, shown, clientVars, script, sock>>
      /\ compression' \in [client: Int, server: Int]
    BY ThresholdsTyped DEF ServerCompresses, ServerLogin, ServerJoinGame, Got, Types, TypeOK
<1>1. Rest # <<>> /\ Rest' = Tail(Rest) /\ server_buf' \in Seq(Frames)
      /\ Head(Rest) = Head(server_buf)
    <2>1. server_buf \in Seq(Frames) /\ sock \in Seq(Frames)
        BY SeqsTyped
    <2>2. Rest' = Tail(server_buf) \o sock
        BY <1>0 DEF Rest
    <2> QED
        BY <1>0, <2>1, <2>2, TailOfConcat DEF Rest
<1>2. /\ at \in {"login", "join"} /\ at' \in {"login", "join", "ready", "closed"}
    BY DEF ServerCompresses, ServerLogin, ServerJoinGame
<1>3. Types' /\ Payloads'
    <2>1. {sock', server_buf', shown', forge_payload'} \subseteq Seq(Frames)
        BY <1>0, <1>1 DEF Types, TypeOK, probeVars
    <2>2. TypeOK'
        BY <1>0, <1>2, <2>1 DEF Types, TypeOK, probeVars, channelVars, Ats
    <2>3. Types'
        BY <1>0, <2>2 DEF Types, probeVars, channelVars
    <2> QED
        BY <2>3, PayloadsKept
<1>4. Worlds'
    BY <1>0, <1>2 DEF Worlds, Unconnected, Connected, Early, probeVars
<1>5. Stream'
    <2>1. /\ at' = "login" => ~Accepted(Handled + 1)
          /\ at' = "join"  => Accepted(Handled + 1) /\ ~Joined(Handled + 1)
          /\ at' = "ready" => Joined(Handled + 1) /\ ~Joined(Handled)
        <3>1. CASE ServerCompresses
            BY <1>0, <1>1, <3>1, HandleOne DEF ServerCompresses, Stream
        <3>2. CASE ServerLogin
            <4>1. ~Accepted(Handled) /\ ~Joined(Handled)
                BY <3>2 DEF ServerLogin, Stream, Accepted, Joined
            <4> QED
                BY <1>0, <1>1, <3>2, <4>1, HandleOne DEF ServerLogin
        <3>3. CASE ServerJoinGame
            BY <1>0, <1>1, <3>3, HandleOne DEF ServerJoinGame, Stream
        <3> QED
            BY <3>1, <3>2, <3>3
    <2> QED
        BY <1>0, <1>1, <1>2, <2>1, StreamHandled DEF Connected
<1> QED
    BY <1>1, <1>3, <1>4, <1>5

-----------------------------------------------------------------------------
(* Into the server's world.                                                *)

\* t is what is left of s without its first d elements.
Remains(s, d, t) == t = SubSeq(s, d + 1, Len(s))

LEMMA RemainsFacts ==
    ASSUME NEW S, NEW s \in Seq(S), NEW d \in 0 .. Len(s), NEW t, Remains(s, d, t)
    PROVE  Len(t) = Len(s) - d /\ \A n \in 1 .. Len(s) - d : t[n] = s[d + n]
<1>1. t = SubSeq(s, d + 1, Len(s))
    BY DEF Remains
<1> QED
    BY <1>1, SuffixElements

LEMMA RemainsIf ==
    ASSUME NEW S, NEW s \in Seq(S), NEW d \in 0 .. Len(s), NEW t \in Seq(S),
           Len(t) = Len(s) - d, \A n \in 1 .. Len(t) : t[n] = s[d + n]
    PROVE  Remains(s, d, t)
<1> DEFINE r == SubSeq(s, d + 1, Len(s))
<1>1. r \in Seq(S)
    OBVIOUS
<1>2. Len(r) = Len(s) - d /\ \A n \in 1 .. Len(s) - d : r[n] = s[d + n]
    BY SuffixElements
<1> HIDE DEF r
<1>3. t = r
    BY <1>1, <1>2, SeqEqual
<1> QED
    BY <1>3 DEF Remains, r

LEMMA SuffixOfSuffix ==
    ASSUME NEW S, NEW s \in Seq(S), NEW d \in 0 .. Len(s), NEW a \in Seq(S), NEW b \in Seq(S),
           Remains(s, d, a \o b)
    PROVE  Len(s) - Len(b) \in d .. Len(s) /\ Remains(s, Len(s) - Len(b), b)
<1> DEFINE e == Len(s) - Len(b)
<1>1. Len(a) + Len(b) = Len(s) - d /\ Len(a) \in Nat /\ Len(b) \in Nat /\ Len(s) \in Nat
    <2>1. Len(a \o b) = Len(a) + Len(b) /\ Len(a) \in Nat /\ Len(b) \in Nat /\ Len(s) \in Nat
        BY ConcatProperties, LenProperties
    <2>2. Len(a \o b) = Len(s) - d
        BY RemainsFacts
    <2> QED
        BY <2>1, <2>2
<1>2. e \in d .. Len(s) /\ e \in 0 .. Len(s) /\ e = d + Len(a) /\ Len(b) = Len(s) - e
    BY <1>1
<1>3. ASSUME NEW n \in 1 .. Len(b)
      PROVE  b[n] = s[e + n]
    <2> DEFINE la == Len(a)
               lb == Len(b)
               ls == Len(s)
    <2> HIDE DEF la, lb, ls, e
    <2>0. la + lb = ls - d /\ la \in Nat /\ lb \in Nat /\ ls \in Nat /\ e = d + la /\ n \in 1 .. lb
          /\ d \in 0 .. ls
        BY <1>1, <1>2 DEF la, lb, ls
    <2>1. Len(a) + n \in 1 .. Len(s) - d /\ d + (Len(a) + n) = e + n
        <3>1. la + n \in 1 .. ls - d /\ d + (la + n) = e + n
            BY <2>0
        <3> QED
            BY <3>1 DEF la, ls
    <2>2. (a \o b)[Len(a) + n] = s[d + (Len(a) + n)]
        <3>1. \A m \in 1 .. Len(s) - d : (a \o b)[m] = s[d + m]
            BY RemainsFacts
        <3> QED
            BY <2>1, <3>1, Zenon
    <2>3. (a \o b)[Len(a) + n] = b[n]
        BY ConcatElements
    <2> QED
        BY <2>1, <2>2, <2>3
<1> HIDE DEF e
<1>4. Remains(s, e, b)
    BY <1>2, <1>3, RemainsIf
<1> QED
    BY <1>2, <1>4 DEF e

LEMMA LateSteps ==
    ASSUME LobbyInv, UNCHANGED <<config, probeVars>>,
           Moves \/ Drain \/ RelayUp \/ TimesOut
    PROVE  LobbyInv'
<1> USE DEF LobbyInv, clientVars
<1>1. Types'
    <2> USE DEF Types, TypeOK, probeVars, serverVars
    <2>1. CASE Moves
        <3>1. Write(compression.client, Respawn) \in Frames
            BY ThresholdIsPositive DEF Write, Encode, Form, Respawn, Frames, Forms
        <3>2. shown' \in Seq(Frames)
            BY <2>1, <3>1 DEF Moves
        <3> QED
            BY <2>1, <3>2 DEF Moves, channelVars, Ats
    <2>2. CASE Drain
        <3>1. inbox' \in Seq(Sent) /\ at' \in Ats
            <4>1. CASE inbox = <<>>
                BY <2>2, <4>1 DEF Drain, Ats
            <4>2. CASE inbox # <<>>
                BY <2>2, <4>2 DEF Drain
            <4> QED
                BY <4>1, <4>2
        <3> QED
            BY <2>2, <3>1 DEF Drain, channelVars
    <2>3. CASE RelayUp
        BY <2>3 DEF RelayUp, channelVars
    <2>4. CASE TimesOut
        <3>1. at' \in Ats /\ unseen' \subseteq {"probe", "lobby"}
            BY <2>4 DEF TimesOut, Ats
        <3> QED
            BY <2>4, <3>1 DEF TimesOut
    <2> QED
        BY <2>1, <2>2, <2>3, <2>4
<1>2. Payloads'
    BY PayloadsKept
<1>3. Worlds'
    <2>1. CASE Moves
        <3> DEFINE t == <<Write(compression.client, Respawn)>>
        <3>1. /\ at = "ready" /\ at' = "drain" /\ coming' = coming
              /\ shown' = Append(shown, Write(compression.client, Respawn))
            BY <2>1 DEF Moves, probeVars
        <3>2. Write(compression.client, Respawn) \in Frames /\ Write(compression.client, Respawn).id = "respawn"
            BY ThresholdIsPositive DEF Write, Encode, Form, Respawn, Frames, Forms
        <3>3. t \in Seq(Frames) /\ \A n \in 1 .. Len(t) : t[n].id # "lobby"
            BY <3>2
        <3>4. shown' = shown \o t
            BY <3>1, <3>2 DEF Types, TypeOK
        <3> HIDE DEF t
        <3> QED
            BY <3>1, <3>3, <3>4, WorldsKept DEF Early, Connected
    <2>2. CASE ~Moves
        <3>1. /\ shown' = shown /\ coming' = coming
              /\ \/ at' = at
                 \/ at \in Early /\ at' \in Early
                 \/ at = "drain" /\ at' = "route"
                 \/ at' = "closed"
            BY <2>2 DEF Drain, RelayUp, TimesOut, Early, probeVars
        <3> QED
            BY <3>1 DEF Worlds, Unconnected, Connected, Early
    <2> QED
        BY <2>1, <2>2
<1>4. Stream'
    <2>1. Handled \in Nat
        BY DEF Stream
    <2>2. /\ UNCHANGED serverVars
          /\ \/ at' = at
             \/ at \in Unconnected /\ at' \in Unconnected
             \/ at = "ready" /\ at' = "drain"
             \/ at = "drain" /\ at' = "route"
             \/ at' \in {"next", "closed"}
        BY DEF Moves, Drain, RelayUp, TimesOut, Unconnected, Early
    <2> QED
        BY <2>1, <2>2, StreamKept
<1> QED
    BY <1>1, <1>2, <1>3, <1>4

LEMMA RouteStep ==
    ASSUME LobbyInv, UNCHANGED <<config, probeVars>>, RouteProxy
    PROVE  LobbyInv'
<1> USE DEF LobbyInv, clientVars
<1>0. /\ at = "route" /\ at' = "relay" /\ server_buf' = <<>> /\ shown' = shown \o server_buf
      /\ UNCHANGED <<channelVars, compression, count, outbound, clientVars, script, sock>>
      /\ server_buf \in Seq(Frames) /\ sock \in Seq(Frames) /\ shown \in Seq(Frames)
      /\ script \in Seq(Frames)
    BY DEF RouteProxy, Types, TypeOK
<1>1. shown' \in Seq(Frames)
    BY <1>0
<1>2. Types' /\ Payloads'
    BY <1>0, <1>1, PayloadsKept DEF Types, TypeOK, probeVars, channelVars, Ats
<1>3. Worlds'
    <2>1. \A n \in 1 .. Len(server_buf) : server_buf[n].id # "lobby"
        <3>1. \A n \in 1 .. Len(Rest) : Rest[n].id # "lobby"
            BY ScriptIds DEF Ids
        <3> QED
            BY <1>0, <3>1 DEF Rest
    <2> QED
        BY <1>0, <2>1, WorldsKept DEF Early, Connected, probeVars
<1>4. Stream'
    <2>1. Rest' = sock /\ Handled' = Len(script) - Len(sock)
        BY <1>0 DEF Rest, Handled
    <2>2. /\ Handled \in 0 .. Len(script)
          /\ server_buf \o sock = SubSeq(script, Handled + 1, Len(script))
        BY DEF Stream, Rest
    <2>3. Handled' \in Handled .. Len(script) /\ Rest' = SubSeq(script', Handled' + 1, Len(script'))
        <3>1. script \in Seq(Frames) /\ server_buf \in Seq(Frames) /\ sock \in Seq(Frames)
            BY SeqsTyped
        <3>2. Remains(script, Handled, server_buf \o sock)
            BY <2>2 DEF Remains
        <3> HIDE DEF Handled
        <3>3. /\ Len(script) - Len(sock) \in Handled .. Len(script)
              /\ Remains(script, Len(script) - Len(sock), sock)
            BY <2>2, <3>1, <3>2, SuffixOfSuffix
        <3> QED
            BY <1>0, <2>1, <3>3 DEF Remains
    <2>4. \E k \in 1 .. Handled' : script'[k].id = "success"
        BY <1>0, <2>2, <2>3 DEF Stream, Accepted
    <2>5. Handled' \in 0 .. Len(script')
        BY <1>0, <2>2, <2>3
    <2>6. script' = <<>> \/ \E s \in Sayable' : script' = Wire(s)'
        BY <1>0 DEF Stream, Sayable, Wire
    <2> QED
        BY <1>0, <2>3, <2>4, <2>5, <2>6 DEF Stream, Unconnected, Early, Accepted
<1> QED
    BY <1>2, <1>3, <1>4

LEMMA RelayDownStep ==
    ASSUME LobbyInv, UNCHANGED <<config, probeVars>>, RelayDown
    PROVE  LobbyInv'
<1> USE DEF LobbyInv, clientVars
<1>0. /\ at = "relay" /\ sock # <<>> /\ shown' = Append(shown, Head(sock)) /\ sock' = Tail(sock)
      /\ UNCHANGED <<channelVars, at, compression, count, outbound, clientVars, script, server_buf>>
      /\ server_buf = <<>> /\ sock \in Seq(Frames) /\ shown \in Seq(Frames)
    BY DEF RelayDown, Types, TypeOK, Stream
<1>1. Rest = sock /\ Rest' = Tail(Rest)
    BY <1>0 DEF Rest
<1>2. shown' \in Seq(Frames) /\ shown' = shown \o <<Head(sock)>> /\ sock' \in Seq(Frames)
    BY <1>0
<1>3. Types' /\ Payloads'
    BY <1>0, <1>2, PayloadsKept DEF Types, TypeOK, probeVars, channelVars
<1>4. Worlds'
    <2>1. Head(sock).id \in Ids /\ Head(sock) \in Frames
        BY <1>0, <1>1, ScriptIds
    <2>2. <<Head(sock)>> \in Seq(Frames) /\ \A n \in 1 .. Len(<<Head(sock)>>) : <<Head(sock)>>[n].id # "lobby"
        BY <2>1 DEF Ids
    <2> QED
        BY <1>0, <1>2, <2>2, WorldsKept DEF Early, Connected, probeVars
<1>5. Stream'
    <2>1. Accepted(Handled)
        BY <1>0 DEF Stream
    <2> QED
        BY <1>0, <1>1, <2>1, HandleOne, StreamHandled DEF Connected
<1> QED
    BY <1>3, <1>4, <1>5

-----------------------------------------------------------------------------
LEMMA LobbyNext ==
    ASSUME LobbyInv, [Next]_vars
    PROVE  LobbyInv'
<1>1. CASE ProbeSteps /\ UNCHANGED <<config, lobbyVars>>
    BY <1>1, ProbeStep
<1>2. CASE (LobbySteps \/ TimesOut) /\ UNCHANGED <<config, probeVars>>
    BY <1>2, EarlySteps, EnterStep, ConnectStep, ReadStep, ServerStep, LateSteps, RouteStep,
       RelayDownStep DEF LobbySteps
<1>3. CASE Announce \/ Answer \/ Strays \/ Plays \/ HangsUp \/ Breaks \/ UNCHANGED vars
    <2>1. /\ UNCHANGED <<config, probeVars, serverVars, compression, count, shown, outbound>>
          /\ at' = at \/ at' = "closed"
        BY <1>3 DEF Announce, Answer, Strays, Plays, HangsUp, Breaks, vars, lobbyVars, serverVars
    <2>2. Types'
        <3> USE DEF LobbyInv, Types, TypeOK, clientVars
        <3>1. CASE Announce
            BY <3>1 DEF Announce, lobbyVars, probeVars, serverVars
        <3>2. CASE Answer
            BY <3>2 DEF Answer, channelVars, probeVars, serverVars, Sent
        <3>3. CASE Strays
            <4>1. inbox' \in Seq(Sent)
                BY <3>3 DEF Strays, Sent
            <4> QED
                BY <3>3, <4>1 DEF Strays, channelVars, probeVars, serverVars
        <3>4. CASE Plays
            <4>1. halves' \in 0 .. MaxHalves
                BY <3>4, MaxHalvesTyped DEF Plays
            <4>2. inbox' \in Seq(Sent)
                BY <3>4 DEF Plays, Sent
            <4> QED
                BY <3>4, <4>1, <4>2 DEF Plays, channelVars, probeVars, serverVars
        <3>5. CASE HangsUp \/ UNCHANGED vars
            BY <3>5 DEF HangsUp, channelVars, probeVars, serverVars, vars, lobbyVars
        <3>6. CASE Breaks
            BY <3>6 DEF Breaks, probeVars, serverVars, Ats
        <3> QED
            BY <1>3, <3>1, <3>2, <3>3, <3>4, <3>5, <3>6
    <2>3. Payloads'
        BY <2>1, PayloadsKept DEF LobbyInv
    <2>4. Worlds'
        BY <2>1 DEF LobbyInv, Worlds, Unconnected, Connected, Early, probeVars
    <2>5. Stream'
        BY <2>1, StreamKept DEF LobbyInv, Stream
    <2> QED
        BY <2>2, <2>3, <2>4, <2>5 DEF LobbyInv
<1> QED
    BY <1>1, <1>2, <1>3 DEF Next

THEOREM LobbyInvariant == Spec => []LobbyInv
BY LobbyInit, LobbyNext, PTL DEF Spec

\* Every variable of the lobby and of the probe has its type in every reachable
\* state; the count of expected answers does not go below zero (forge.rs).
THEOREM LobbyTypeCorrect == Spec => []TypeOK
<1>1. LobbyInv => TypeOK
    BY DEF LobbyInv, Types
<1> QED
    BY <1>1, LobbyInvariant, PTL

-----------------------------------------------------------------------------
(* Compression.                                                            *)

\* A server says once what it compresses: after all that it asks for and
\* before it lets the client in, as Minecraft and Forge do.
AsksFirst ==
    \A s \in Scripts : \A i, k \in DOMAIN s :
        s[k].id = "compress" => (s[i].id = "plugin" => i < k) /\ (s[i].id = "success" => k < i)

\* The threshold that a reader of the first n frames was told.
Told(frames, n) ==
    IF \E k \in 1 .. n : frames[k].id = "compress" THEN config.threshold ELSE -1

ProbeReads ==
    /\ probe \in {"off", "start", "wait", "connect"} => probe_compression = -1
    /\ probe \in {"login", "play"} =>
          \E s \in Sayable : \E d \in 0 .. Len(s) :
             /\ coming = SubSeq(Wire(s), d + 1, Len(s))
             /\ probe_compression = Told(Wire(s), d)
             /\ probe = "play" => \E k \in 1 .. d : s[k].id = "success"

PlainPayloads ==
    /\ \A n \in 1 .. Len(recorded) : recorded[n].form = "plain"
    /\ \A n \in 1 .. Len(forge_payload) : forge_payload[n].form = "plain"

ServerReads ==
    /\ at \in Unconnected => compression.server = -1
    /\ at \in {"login", "join"} => compression.server = Told(script, Handled)

IsTold(frames, n) == \E m \in 1 .. n : frames[m].id = "compress"

ClientReads ==
    /\ at \in Early =>
          /\ compression.client = -1
          /\ \A n \in 1 .. Len(shown) : shown[n].form = "plain"
    /\ at \in (Unconnected \cup Connected) \ Early =>
          compression.client = COMPRESSION_THRESHOLD /\ IsTold(shown, Len(shown))
    /\ config.threshold >= COMPRESSION_THRESHOLD =>
          \A n \in 1 .. Len(shown) :
             IF IsTold(shown, n - 1) THEN Reads(COMPRESSION_THRESHOLD, shown[n])
             ELSE shown[n].form = "plain"

ReadInv == ProbeReads /\ PlainPayloads /\ ServerReads /\ ClientReads

-----------------------------------------------------------------------------
LEMMA WireTold ==
    ASSUME AsksFirst, config.threshold \in Int, NEW s \in Sayable, NEW d \in 0 .. Len(s) - 1
    PROVE  /\ Decodes(Told(Wire(s), d), Wire(s)[d + 1])
           /\ Told(Wire(s), d + 1) =
                 IF Wire(s)[d + 1].id = "compress" THEN config.threshold ELSE Told(Wire(s), d)
           /\ Wire(s)[d + 1].id = "plugin" => Wire(s)[d + 1].form = "plain"
           /\ (\E k \in 1 .. d : s[k].id = "success") =>
                 /\ Wire(s)[d + 1].id # "compress"
                 /\ config.threshold >= 0 => Reads(config.threshold, Wire(s)[d + 1])
<1>1. /\ Len(s) \in Nat /\ d + 1 \in 1 .. Len(s) /\ (d + 1) - 1 = d /\ DOMAIN s = 1 .. Len(s)
      /\ s \in Scripts /\ \A n \in 1 .. d + 1 : Wire(s)[n].id = s[n].id
    BY WireFacts
<1>2. Told(Wire(s), d) = IF \E k \in 1 .. d : s[k].id = "compress" THEN config.threshold ELSE -1
    <2>1. (\E k \in 1 .. d : Wire(s)[k].id = "compress") <=> \E k \in 1 .. d : s[k].id = "compress"
        BY <1>1
    <2> QED
        BY <2>1 DEF Told
<1>3. IF \E k \in 1 .. d : s[k].id = "compress"
      THEN Wire(s)[d + 1].form # "plain" /\ Reads(config.threshold, Wire(s)[d + 1])
      ELSE Wire(s)[d + 1].form = "plain"
    BY <1>1, WireFacts
<1>4. (\E k \in 1 .. Len(s) : s[k].id = "compress") => config.threshold >= 0
    BY <1>1 DEF Sayable, Says
<1>5. Decodes(Told(Wire(s), d), Wire(s)[d + 1])
    BY <1>1, <1>2, <1>3, <1>4 DEF Decodes
<1>6. Told(Wire(s), d + 1) =
          IF Wire(s)[d + 1].id = "compress" THEN config.threshold ELSE Told(Wire(s), d)
    <2>1. \A k : k \in 1 .. d + 1 <=> k \in 1 .. d \/ k = d + 1
        BY <1>1
    <2> QED
        BY <1>1, <2>1 DEF Told
<1>7. s[d + 1].id = "plugin" => ~ \E k \in 1 .. d : s[k].id = "compress"
    BY <1>1 DEF AsksFirst
<1>8. ASSUME NEW j \in 1 .. d, s[j].id = "success"
      PROVE  /\ s[d + 1].id # "compress"
             /\ config.threshold >= 0 => \E k \in 1 .. d : s[k].id = "compress"
    <2>1. j \in 1 .. Len(s) /\ j < d + 1
        BY <1>1
    <2>2. config.threshold >= 0 => \E k \in 1 .. Len(s) : s[k].id = "compress"
        BY <1>1, <1>8, <2>1 DEF Sayable, Says
    <2> QED
        BY <1>1, <1>8, <2>1, <2>2 DEF AsksFirst
<1> QED
    BY <1>1, <1>3, <1>5, <1>6, <1>7, <1>8

LEMMA ReadInit == ASSUME Init PROVE ReadInv
BY DEF Init, ProbeInit, ReadInv, ProbeReads, PlainPayloads, ServerReads, ClientReads, Early,
       Unconnected, Connected

\* Sayable, Wire and Told look at nothing but the configuration.
LEMMA ReadersKept ==
    ASSUME config' = config
    PROVE  /\ Sayable' = Sayable
           /\ \A s : Wire(s)' = Wire(s)
           /\ \A f, n : Told(f, n)' = Told(f, n)
BY DEF Sayable, Wire, Told

LEMMA ProbeReadsStep ==
    ASSUME AsksFirst, LobbyInv, ReadInv, ProbeSteps, UNCHANGED <<config, lobbyVars>>
    PROVE  ProbeReads' /\ PlainPayloads'
<1>0. config.threshold \in Int /\ config' = config /\ coming \in Seq(Frames)
      /\ recorded \in Seq(Frames)
    BY ThresholdsTyped DEF LobbyInv, Types
<1>1. CASE ProbeStarts \/ ProbeWoken \/ ProbeCloses \/ ProbeStores \/ ProbeFails
    BY <1>1 DEF ProbeStarts, ProbeWoken, ProbeCloses, ProbeStores, ProbeFails, Outcome,
        ReadInv, ProbeReads, PlainPayloads
<1>2. CASE ProbeConnects
    <2>1. PICK s \in Sayable : coming' = Wire(s)
        BY <1>2 DEF ProbeConnects
    <2>2. coming' = SubSeq(Wire(s), 0 + 1, Len(s)) /\ Len(s) \in Nat
        BY <1>0, <2>1, WireFacts, SubSeqFull
    <2>3. probe_compression' = Told(Wire(s), 0)
        BY <1>2 DEF ProbeConnects, ReadInv, ProbeReads, Told
    <2>4. probe' = "login" /\ UNCHANGED <<recorded, forge_payload>>
        BY <1>2 DEF ProbeConnects
    <2>5. s \in Sayable' /\ Wire(s)' = Wire(s) /\ Told(Wire(s), 0)' = Told(Wire(s), 0)
        BY <1>0, ReadersKept
    <2>6. 0 \in 0 .. Len(s)
        BY <2>2
    <2>7. ProbeReads'
        BY <1>0, <2>2, <2>3, <2>4, <2>5, <2>6, ReadersKept DEF ProbeReads
    <2> QED
        BY <2>4, <2>7 DEF ReadInv, PlainPayloads
<1>3. CASE ProbeCompresses \/ ProbeRecords \/ ProbeLogin \/ ProbeJoinGame
    <2>1. probe \in {"login", "play"}
        BY <1>3 DEF ProbeCompresses, ProbeRecords, ProbeLogin, ProbeJoinGame
    <2>0. PICK s \in Sayable : \E d \in 0 .. Len(s) :
             /\ coming = SubSeq(Wire(s), d + 1, Len(s))
             /\ probe_compression = Told(Wire(s), d)
             /\ probe = "play" => \E k \in 1 .. d : s[k].id = "success"
        BY <2>1 DEF ReadInv, ProbeReads
    <2>2. PICK d \in 0 .. Len(s) :
             /\ coming = SubSeq(Wire(s), d + 1, Len(s))
             /\ probe_compression = Told(Wire(s), d)
             /\ probe = "play" => \E k \in 1 .. d : s[k].id = "success"
        BY <2>0
    <2>3. coming # <<>> /\ coming' = Tail(coming)
        BY <1>3 DEF ProbeCompresses, ProbeRecords, ProbeLogin, ProbeJoinGame, ProbeGot
    <2>4. /\ d + 1 \in 1 .. Len(s) /\ Head(coming) = Wire(s)[d + 1]
          /\ coming' = SubSeq(Wire(s), (d + 1) + 1, Len(s)) /\ d \in 0 .. Len(s) - 1
          /\ Wire(s)[d + 1].id = s[d + 1].id
        <3>1. Len(Wire(s)) = Len(s) /\ Wire(s) \in Seq(Frames) /\ Len(s) \in Nat
            BY <1>0, WireFacts
        <3>2. /\ d + 1 \in 1 .. Len(Wire(s))
              /\ Head(coming) = Wire(s)[d + 1] /\ Tail(coming) = SubSeq(Wire(s), d + 2, Len(Wire(s)))
            BY <2>2, <2>3, <3>1, SuffixStep
        <3>3. (d + 1) + 1 = d + 2 /\ d \in 0 .. Len(s) - 1
            BY <3>1, <3>2
        <3>4. Wire(s)[d + 1].id = s[d + 1].id
            BY <1>0, <3>1, <3>2, WireFacts
        <3> QED
            BY <2>3, <3>1, <3>2, <3>3, <3>4
    <2>5. /\ probe_compression' = Told(Wire(s), d + 1)
          /\ probe' \in {"login", "play", "close"}
          /\ probe' = "play" => \E k \in 1 .. d + 1 : s[k].id = "success"
        <3>1. CASE ProbeCompresses
            BY <2>2, <2>4, <3>1, <1>0, WireTold DEF ProbeCompresses, ProbeGot
        <3>2. CASE ProbeRecords
            BY <2>2, <2>4, <3>2, <1>0, WireTold DEF ProbeRecords, ProbeGot
        <3>3. CASE ProbeLogin
            BY <2>2, <2>4, <3>3, <1>0, WireTold DEF ProbeLogin, ProbeGot
        <3>4. CASE ProbeJoinGame
            BY <2>2, <2>4, <3>4, <1>0, WireTold DEF ProbeJoinGame, ProbeGot
        <3> QED
            BY <1>3, <3>1, <3>2, <3>3, <3>4
    <2>6. ProbeReads'
        <3>0. Told(Wire(s), d + 1)' = Told(Wire(s), d + 1)
            BY <1>0 DEF Told, Wire
        <3>1. s \in Sayable' /\ Wire(s)' = Wire(s)
            BY <1>0, ReadersKept
        <3>2. d + 1 \in 0 .. Len(s)
            BY <2>4
        <3>3. coming' = SubSeq(Wire(s)', (d + 1) + 1, Len(s))
            BY <2>4, <3>1
        <3> QED
            BY <2>5, <3>0, <3>1, <3>2, <3>3 DEF ProbeReads
    <2>7. PlainPayloads'
        <3>1. CASE ProbeRecords
            <4>1. Head(coming).form = "plain" /\ forge_payload' = forge_payload
                  /\ recorded' \in {recorded, Append(recorded, Head(coming))}
                BY <1>0, <2>4, <3>1, WireTold DEF ProbeRecords, ProbeGot
            <4> QED
                BY <1>0, <4>1 DEF ReadInv, PlainPayloads
        <3>2. CASE ~ProbeRecords
            BY <1>3, <3>2 DEF ProbeCompresses, ProbeLogin, ProbeJoinGame, ReadInv, PlainPayloads
        <3> QED
            BY <3>1, <3>2
    <2> QED
        BY <2>6, <2>7
<1> QED
    BY <1>1, <1>2, <1>3 DEF ProbeSteps

\* Frames that are sent to the client keep what the last part of ClientReads says.
LEMMA ShownReads ==
    ASSUME NEW f \in Seq(Frames), NEW t \in Seq(Frames),
           \A n \in 1 .. Len(f) :
              IF IsTold(f, n - 1) THEN Reads(COMPRESSION_THRESHOLD, f[n]) ELSE f[n].form = "plain",
           \A n \in 1 .. Len(t) :
              IF IsTold(f, Len(f)) \/ IsTold(t, n - 1) THEN Reads(COMPRESSION_THRESHOLD, t[n])
              ELSE t[n].form = "plain"
    PROVE  \A n \in 1 .. Len(f \o t) :
              IF IsTold(f \o t, n - 1) THEN Reads(COMPRESSION_THRESHOLD, (f \o t)[n])
              ELSE (f \o t)[n].form = "plain"
<1> SUFFICES ASSUME NEW n \in 1 .. Len(f \o t)
             PROVE  IF IsTold(f \o t, n - 1) THEN Reads(COMPRESSION_THRESHOLD, (f \o t)[n])
                    ELSE (f \o t)[n].form = "plain"
    OBVIOUS
<1>1. /\ Len(f \o t) = Len(f) + Len(t) /\ Len(f) \in Nat /\ Len(t) \in Nat
      /\ \A i \in 1 .. Len(f) + Len(t) :
            (f \o t)[i] = IF i <= Len(f) THEN f[i] ELSE t[i - Len(f)]
    BY ConcatProperties
<1>2. CASE n \in 1 .. Len(f)
    <2>1. IsTold(f \o t, n - 1) <=> IsTold(f, n - 1)
        BY <1>1, <1>2 DEF IsTold
    <2> QED
        BY <1>1, <1>2, <2>1
<1>3. CASE n \notin 1 .. Len(f)
    <2>1. n - Len(f) \in 1 .. Len(t) /\ (f \o t)[n] = t[n - Len(f)]
        BY <1>1, <1>3
    <2>2. IsTold(f \o t, n - 1) <=> IsTold(f, Len(f)) \/ IsTold(t, n - Len(f) - 1)
        <3>1. ASSUME NEW m \in 1 .. n - 1, (f \o t)[m].id = "compress"
              PROVE  IsTold(f, Len(f)) \/ IsTold(t, n - Len(f) - 1)
            <4>1. CASE m <= Len(f)
                BY <1>1, <2>1, <3>1, <4>1 DEF IsTold
            <4>2. CASE ~(m <= Len(f))
                <5>1. m - Len(f) \in 1 .. n - Len(f) - 1 /\ (f \o t)[m] = t[m - Len(f)]
                    BY <1>1, <2>1, <3>1, <4>2
                <5> QED
                    BY <3>1, <5>1 DEF IsTold
            <4> QED
                BY <4>1, <4>2
        <3>2. ASSUME NEW m \in 1 .. Len(f), f[m].id = "compress"
              PROVE  IsTold(f \o t, n - 1)
            BY <1>1, <1>3, <3>2 DEF IsTold
        <3>3. ASSUME NEW m \in 1 .. n - Len(f) - 1, t[m].id = "compress"
              PROVE  IsTold(f \o t, n - 1)
            <4>1. m + Len(f) \in 1 .. n - 1 /\ (f \o t)[m + Len(f)] = t[m]
                BY <1>1, <2>1, <3>3
            <4> QED
                BY <3>3, <4>1 DEF IsTold
        <3> QED
            BY <3>1, <3>2, <3>3 DEF IsTold
    <2> QED
        BY <2>1, <2>2
<1> QED
    BY <1>2, <1>3

\* What the server sends once it has let the proxy in.
LEMMA LateFrames ==
    ASSUME AsksFirst, LobbyInv, Accepted(Handled),
           config.threshold >= COMPRESSION_THRESHOLD, NEW n \in 1 .. Len(Rest)
    PROVE  Reads(COMPRESSION_THRESHOLD, Rest[n])
<1>0. config.threshold \in Int /\ config.threshold >= 0 /\ script \in Seq(Frames)
    <2>1. config.threshold \in Int /\ script \in Seq(Frames)
        BY ThresholdsTyped DEF LobbyInv, Types
    <2> QED
        BY <2>1, ThresholdIsPositive
<1>1. Handled + n \in 1 .. Len(script) /\ Rest[n] = script[Handled + n] /\ Handled \in Nat
    BY ScriptIds DEF LobbyInv, Stream, Types
<1>2. PICK s \in Sayable : script = Wire(s)
    BY <1>1 DEF LobbyInv, Stream
<1>3. Handled + n - 1 \in 0 .. Len(s) - 1 /\ (Handled + n - 1) + 1 = Handled + n
    <2>1. Len(s) = Len(script)
        BY <1>0, <1>2, WireFacts, Zenon
    <2>2. Len(script) \in Nat
        BY <1>0
    <2> QED
        BY <1>1, <2>1, <2>2
<1>4. \E k \in 1 .. Handled + n - 1 : s[k].id = "success"
    BY <1>0, <1>1, <1>2, <1>3, WireFacts DEF Accepted
<1>5. Reads(config.threshold, script[Handled + n])
    <2> DEFINE d == Handled + n - 1
    <2>1. d \in 0 .. Len(s) - 1 /\ d + 1 = Handled + n
        BY <1>3
    <2>2. \E k \in 1 .. d : s[k].id = "success"
        BY <1>4
    <2> HIDE DEF d
    <2>3. Reads(config.threshold, Wire(s)[d + 1])
        BY <1>0, <2>1, <2>2, WireTold, Zenon
    <2> QED
        BY <1>2, <2>1, <2>3, Zenon
<1>6. Rest[n] \in Frames
    BY ScriptIds DEF LobbyInv
<1> QED
    BY <1>0, <1>1, <1>5, <1>6, ThresholdIsPositive DEF Reads, Frames

LEMMA ProbeReadsKept ==
    ASSUME ReadInv, UNCHANGED <<config, probeVars>>
    PROVE  ProbeReads' /\ PlainPayloads'
BY DEF ReadInv, ProbeReads, PlainPayloads, Sayable, Wire, Told, probeVars

\* The compression of the connection to the server is what was announced.
LEMMA ServerReadsStep ==
    ASSUME AsksFirst, LobbyInv, ReadInv, (LobbySteps \/ TimesOut) /\ UNCHANGED <<config, probeVars>>
    PROVE  ServerReads'
<1>0. config.threshold \in Int /\ config' = config /\ compression \in [client: Int, server: Int]
      /\ script \in Seq(Frames) /\ Handled \in 0 .. Len(script) /\ Types /\ Stream
    BY ThresholdsTyped DEF LobbyInv, Types, TypeOK, Stream
<1>1. CASE Connect
    <2>1. Handled' = 0 /\ at = "connect" /\ at' = "login" /\ compression' = compression
        BY <1>1, ConnectStep DEF Connect
    <2> QED
        BY <2>1 DEF ReadInv, ServerReads, Told, Unconnected, Early
<1>2. CASE ReadServer
    <2>1. /\ Rest' = Rest
          /\ UNCHANGED <<script, at, compression>>
        BY <1>2, ReadStep DEF ReadServer
    <2>2. Handled' = Handled
        BY <2>1 DEF Handled
    <2> QED
        BY <1>0, <2>1, <2>2 DEF ReadInv, ServerReads, Told
<1>3. CASE ServerCompresses \/ ServerLogin \/ ServerJoinGame
    <2>1. /\ Rest # <<>> /\ Rest' = Tail(Rest) /\ Head(Rest) = Head(server_buf)
          /\ script' = script
          /\ at \in {"login", "join"} /\ at' \notin Unconnected
        BY <1>3, ServerStep DEF ServerCompresses, ServerLogin, ServerJoinGame, Unconnected, Early
    <2>2. /\ Handled' = Handled + 1 /\ Handled + 1 \in 1 .. Len(script)
          /\ Head(server_buf) = script[Handled + 1]
        BY <1>0, <2>1, HandleOne
    <2>3. PICK s \in Sayable : script = Wire(s)
        BY <1>0, <2>2 DEF Stream
    <2>4. Handled \in 0 .. Len(s) - 1
        BY <1>0, <2>2, <2>3, WireFacts
    <2>5. /\ Told(script, Handled + 1) =
                IF Head(server_buf).id = "compress" THEN config.threshold
                ELSE Told(script, Handled)
          /\ Accepted(Handled) => Head(server_buf).id # "compress"
        <3>1. Accepted(Handled) => \E k \in 1 .. Handled : s[k].id = "success"
            <4>1. Len(s) \in Nat /\ \A k \in 1 .. Len(s) : script[k].id = s[k].id
                BY <1>0, <2>3, WireFacts
            <4>2. \A k \in 1 .. Handled : script[k].id = s[k].id
                BY <2>4, <4>1
            <4> QED
                BY <4>2 DEF Accepted
        <3> QED
            BY <1>0, <2>2, <2>3, <2>4, <3>1, WireTold
    <2>6. compression'.server = Told(script, Handled + 1)
        <3>1. CASE ServerCompresses
            BY <1>0, <2>5, <3>1 DEF ServerCompresses
        <3>2. CASE ServerLogin
            BY <2>5, <3>2 DEF ServerLogin, ReadInv, ServerReads
        <3>3. CASE ServerJoinGame
            BY <1>0, <2>5, <3>3 DEF ServerJoinGame, ReadInv, ServerReads, Stream
        <3> QED
            BY <1>3, <3>1, <3>2, <3>3
    <2>7. Told(script, Handled)' = Told(script, Handled + 1)
        BY <1>0, <2>1, <2>2 DEF Told
    <2> QED
        BY <2>1, <2>6, <2>7 DEF ServerReads
<1>4. CASE Enter
    <2>1. at = "enter" /\ at' = "subscribe" /\ compression'.server = compression.server
        BY <1>0, <1>4 DEF Enter
    <2> QED
        BY <2>1 DEF ReadInv, ServerReads, Unconnected, Early
<1>5. CASE \/ Occupy \/ Replay \/ Count \/ Response \/ Replayed \/ ClientGone \/ Wait \/ WaitWoken
           \/ Moves \/ Drain \/ RouteProxy \/ RelayDown \/ RelayUp \/ TimesOut
    <2>1. /\ compression' = compression /\ at' \notin {"login", "join"}
          /\ at' \in Unconnected => at \in Unconnected
        BY <1>5 DEF Occupy, Replay, Count, Response, Replayed, ClientGone, Wait, WaitWoken,
            Moves, Drain, RouteProxy, RelayDown, RelayUp, TimesOut, Outcome, Unconnected, Early
    <2> QED
        BY <2>1 DEF ReadInv, ServerReads
<1> QED
    BY <1>1, <1>2, <1>3, <1>4, <1>5 DEF LobbySteps

\* Frames for the client that can be read where they arrive.
LEMMA ClientShown ==
    ASSUME ReadInv, shown \in Seq(Frames), config' = config,
           NEW t \in Seq(Frames), shown' = shown \o t,
           config.threshold >= COMPRESSION_THRESHOLD =>
              \A n \in 1 .. Len(t) :
                 IF IsTold(shown, Len(shown)) \/ IsTold(t, n - 1)
                 THEN Reads(COMPRESSION_THRESHOLD, t[n])
                 ELSE t[n].form = "plain",
           IsTold(shown, Len(shown)) \/ IsTold(t, Len(t)),
           compression'.client = COMPRESSION_THRESHOLD,
           at' \notin Early
    PROVE  ClientReads'
<1>1. config.threshold >= COMPRESSION_THRESHOLD =>
          \A n \in 1 .. Len(shown') :
             IF IsTold(shown', n - 1) THEN Reads(COMPRESSION_THRESHOLD, shown'[n])
             ELSE shown'[n].form = "plain"
    BY ShownReads DEF ReadInv, ClientReads
<1>2. IsTold(shown', Len(shown'))
    <2>0. /\ Len(shown') = Len(shown) + Len(t) /\ Len(shown) \in Nat /\ Len(t) \in Nat
          /\ \A i \in 1 .. Len(shown) : shown'[i] = shown[i]
          /\ \A i \in 1 .. Len(t) : shown'[Len(shown) + i] = t[i]
        OBVIOUS
    <2>1. CASE IsTold(shown, Len(shown))
        BY <2>0, <2>1 DEF IsTold
    <2>2. ASSUME NEW m \in 1 .. Len(t), t[m].id = "compress"
          PROVE  IsTold(shown', Len(shown'))
        <3>1. Len(shown) + m \in 1 .. Len(shown') /\ shown'[Len(shown) + m].id = "compress"
            BY <2>0, <2>2
        <3> QED
            BY <3>1 DEF IsTold
    <2> QED
        BY <2>1, <2>2 DEF IsTold
<1> QED
    BY <1>1, <1>2 DEF ClientReads

LEMMA ClientShownOne ==
    ASSUME ReadInv, shown \in Seq(Frames), config' = config,
           NEW f \in Frames, shown' = Append(shown, f),
           config.threshold >= COMPRESSION_THRESHOLD => Reads(COMPRESSION_THRESHOLD, f),
           IsTold(shown, Len(shown)),
           compression'.client = COMPRESSION_THRESHOLD,
           at' \notin Early
    PROVE  ClientReads'
<1> DEFINE t == <<f>>
<1>1. t \in Seq(Frames) /\ Len(t) = 1 /\ t[1] = f /\ shown' = shown \o t
    BY AppendIsConcat
<1>2. \A n \in 1 .. Len(t) : t[n] = f
    BY <1>1
<1> HIDE DEF t
<1> QED
    BY <1>1, <1>2, ClientShown

\* What is told stays told while nothing is shown.
LEMMA ClientKept ==
    ASSUME ReadInv, UNCHANGED <<config, shown>>, compression'.client = compression.client,
           \/ at' = at \/ at' \in {"next", "closed"}
           \/ at \in Early /\ at' \in Early
           \/ at \in (Unconnected \cup Connected) \ Early /\ at' \notin Early
    PROVE  ClientReads'
BY DEF ReadInv, ClientReads, Unconnected, Connected, Early, IsTold

LEMMA ClientReadsStep ==
    ASSUME AsksFirst, LobbyInv, ReadInv, (LobbySteps \/ TimesOut) /\ UNCHANGED <<config, probeVars>>
    PROVE  ClientReads'
<1>0. /\ config.threshold \in Int /\ config' = config
      /\ compression \in [client: Int, server: Int]
      /\ shown \in Seq(Frames) /\ server_buf \in Seq(Frames) /\ sock \in Seq(Frames)
      /\ forge_payload \in Seq(Frames)
    BY ThresholdsTyped DEF LobbyInv, Types, TypeOK
<1>1. CASE Replay
    <2>1. at = "replay" /\ at' = "count" /\ shown' = shown \o forge_payload /\ compression' = compression
        BY <1>1 DEF Replay
    <2>2. /\ \A n \in 1 .. Len(shown) : shown[n].id = "plugin" /\ shown[n].form = "plain"
          /\ \A n \in 1 .. Len(forge_payload) :
                forge_payload[n].id = "plugin" /\ forge_payload[n].form = "plain"
          /\ compression.client = -1
        BY <2>1 DEF LobbyInv, Worlds, Payloads, ReadInv, ClientReads, PlainPayloads, Early
    <2>3. \A n \in 1 .. Len(shown') : shown'[n].id = "plugin" /\ shown'[n].form = "plain"
        BY <1>0, <2>1, <2>2
    <2>4. \A n \in 1 .. Len(shown') : ~IsTold(shown', n - 1)
        BY <1>0, <2>1, <2>3 DEF IsTold
    <2> QED
        BY <2>1, <2>2, <2>3, <2>4 DEF ClientReads, Early
<1>2. CASE Enter
    <2> DEFINE a == Encode(compression.client, "compress", 1)
               b == Write(COMPRESSION_THRESHOLD, Success)
               c == Write(COMPRESSION_THRESHOLD, World)
               t == <<a, b, c>>
    <2>1. at = "enter" /\ at' = "subscribe"
        BY <1>2 DEF Enter
    <2>2. compression.client = -1 /\ ~IsTold(shown, Len(shown))
        BY <2>1 DEF LobbyInv, Worlds, ReadInv, ClientReads, IsTold, Early
    <2>3. /\ a \in Frames /\ a.form = "plain" /\ a.id = "compress"
          /\ b \in Frames /\ Reads(COMPRESSION_THRESHOLD, b)
          /\ c \in Frames /\ Reads(COMPRESSION_THRESHOLD, c)
        BY <2>2, ThresholdIsPositive
           DEF Encode, Write, Success, World, Form, Frames, Forms, Ids, Reads
    <2> HIDE DEF a, b, c
    <2>4. t \in Seq(Frames) /\ Len(t) = 3 /\ t[1] = a /\ t[2] = b /\ t[3] = c
        BY <2>3
    <2>5. shown' = shown \o t
        <3>1. /\ Len(shown \o t) = Len(shown) + 3 /\ Len(shown) \in Nat /\ shown \o t \in Seq(Frames)
              /\ \A i \in 1 .. Len(shown) : (shown \o t)[i] = shown[i]
              /\ (shown \o t)[Len(shown) + 1] = a
              /\ (shown \o t)[Len(shown) + 2] = b
              /\ (shown \o t)[Len(shown) + 3] = c
            BY <1>0, <2>4
        <3>2. /\ Len(shown') = Len(shown) + 3 /\ shown' \in Seq(Frames)
              /\ \A i \in 1 .. Len(shown) : shown'[i] = shown[i]
              /\ shown'[Len(shown) + 1] = a
              /\ shown'[Len(shown) + 2] = b
              /\ shown'[Len(shown) + 3] = c
            BY <1>2, EnterShows DEF a, b, c, LobbyInv
        <3>3. \A i \in 1 .. Len(shown') :
                 i \in 1 .. Len(shown) \/ i \in {Len(shown) + 1, Len(shown) + 2, Len(shown) + 3}
            BY <3>1, <3>2
        <3>4. \A i \in 1 .. Len(shown') : shown'[i] = (shown \o t)[i]
            BY <3>1, <3>2, <3>3
        <3> QED
            BY <3>1, <3>2, <3>4, SeqEqual
    <2>6. ~IsTold(t, 0) /\ IsTold(t, 1) /\ IsTold(t, 2) /\ IsTold(t, 3)
        BY <2>3, <2>4 DEF IsTold
    <2>7. \A n \in 1 .. Len(t) :
             IF IsTold(shown, Len(shown)) \/ IsTold(t, n - 1)
             THEN Reads(COMPRESSION_THRESHOLD, t[n])
             ELSE t[n].form = "plain"
        BY <2>2, <2>3, <2>4, <2>6
    <2>8. compression'.client = COMPRESSION_THRESHOLD
        BY <1>2, EnterShows DEF LobbyInv
    <2> HIDE DEF t
    <2> QED
        BY <1>0, <2>1, <2>4, <2>5, <2>6, <2>7, <2>8, ClientShown DEF Early
<1>3. CASE Moves
    <2> DEFINE b == Write(compression.client, Respawn)
    <2>1. /\ at = "ready" /\ at' = "drain" /\ shown' = Append(shown, b) /\ compression' = compression
        BY <1>3 DEF Moves
    <2>2. compression.client = COMPRESSION_THRESHOLD /\ IsTold(shown, Len(shown))
        BY <2>1 DEF ReadInv, ClientReads, Early, Connected
    <2>3. b \in Frames /\ Reads(COMPRESSION_THRESHOLD, b)
        BY <2>2, ThresholdIsPositive DEF Encode, Write, Respawn, Form, Frames, Forms, Reads
    <2> HIDE DEF b
    <2> QED
        BY <1>0, <2>1, <2>2, <2>3, ClientShownOne DEF Early
<1>4. CASE RouteProxy \/ RelayDown
    <2>1. /\ at \in {"route", "relay"} /\ at' = "relay" /\ compression' = compression
        BY <1>4 DEF RouteProxy, RelayDown
    <2>2. compression.client = COMPRESSION_THRESHOLD /\ IsTold(shown, Len(shown))
          /\ Accepted(Handled)
        BY <2>1 DEF ReadInv, ClientReads, Early, Connected, LobbyInv, Stream
    <2>3. \A n \in 1 .. Len(Rest) :
             config.threshold >= COMPRESSION_THRESHOLD => Reads(COMPRESSION_THRESHOLD, Rest[n])
        BY <2>2, LateFrames
    <2>4. CASE RouteProxy
        <3>1. \A n \in 1 .. Len(server_buf) :
                 config.threshold >= COMPRESSION_THRESHOLD =>
                    Reads(COMPRESSION_THRESHOLD, server_buf[n])
            <4>1. \A n \in 1 .. Len(server_buf) : n \in 1 .. Len(Rest) /\ Rest[n] = server_buf[n]
                BY <1>0 DEF Rest
            <4> QED
                BY <2>3, <4>1
        <3>2. shown' = shown \o server_buf
            BY <2>4 DEF RouteProxy
        <3> QED
            BY <1>0, <2>1, <2>2, <3>1, <3>2, ClientShown DEF Early
    <2>5. CASE RelayDown
        <3> DEFINE b == Head(sock)
        <3>1. sock # <<>> /\ shown' = Append(shown, b) /\ server_buf = <<>>
            BY <2>5 DEF RelayDown, LobbyInv, Stream
        <3>2. b \in Frames /\ b = Rest[1] /\ 1 \in 1 .. Len(Rest)
            BY <1>0, <3>1 DEF Rest
        <3>3. config.threshold >= COMPRESSION_THRESHOLD => Reads(COMPRESSION_THRESHOLD, b)
            BY <2>3, <3>2
        <3> HIDE DEF b
        <3> QED
            BY <1>0, <2>1, <2>2, <3>1, <3>2, <3>3, ClientShownOne DEF Early
    <2> QED
        BY <1>4, <2>4, <2>5
<1>5. CASE ServerCompresses
    <2>1. compression'.client = compression.client /\ UNCHANGED <<shown, at>>
        BY <1>0, <1>5 DEF ServerCompresses
    <2> QED
        BY <1>0, <2>1, ClientKept
<1>6. CASE \/ Occupy \/ Count \/ Response \/ Replayed \/ ClientGone \/ Wait \/ WaitWoken
           \/ Connect \/ ReadServer \/ ServerLogin \/ ServerJoinGame
           \/ Drain \/ RelayUp \/ TimesOut
    <2>1. /\ compression' = compression /\ shown' = shown
          /\ \/ at' = at \/ at' \in {"next", "closed"}
             \/ at \in Early /\ at' \in Early
             \/ at \in (Unconnected \cup Connected) \ Early /\ at' \notin Early
        BY <1>6 DEF Occupy, Count, Response, Replayed, ClientGone, Wait, WaitWoken, Connect,
            ReadServer, ServerLogin, ServerJoinGame, Drain, RelayUp, TimesOut, Outcome,
            Unconnected, Connected, Early
    <2> QED
        BY <1>0, <2>1, ClientKept
<1> QED
    BY <1>1, <1>2, <1>3, <1>4, <1>5, <1>6 DEF LobbySteps

LEMMA ReadNext ==
    ASSUME AsksFirst, LobbyInv, ReadInv, [Next]_vars
    PROVE  ReadInv'
<1>1. CASE ProbeSteps /\ UNCHANGED <<config, lobbyVars>>
    <2>1. ServerReads' /\ ClientReads'
        BY <1>1 DEF ReadInv, ServerReads, ClientReads, Told, Handled, Rest, IsTold,
            lobbyVars, serverVars
    <2> QED
        BY <1>1, <2>1, ProbeReadsStep DEF ReadInv
<1>2. CASE (LobbySteps \/ TimesOut) /\ UNCHANGED <<config, probeVars>>
    BY <1>2, ProbeReadsKept, ServerReadsStep, ClientReadsStep DEF ReadInv
<1>3. CASE Announce \/ Answer \/ Strays \/ Plays \/ HangsUp \/ Breaks \/ UNCHANGED vars
    <2>1. /\ UNCHANGED <<config, probeVars, script, sock, server_buf, compression, shown>>
          /\ at' = at \/ at' = "closed"
        BY <1>3 DEF Announce, Answer, Strays, Plays, HangsUp, Breaks, vars, lobbyVars, serverVars
    <2>2. ServerReads' /\ ClientReads'
        BY <2>1 DEF ReadInv, ServerReads, ClientReads, Told, Handled, Rest, IsTold,
            Unconnected, Connected, Early
    <2> QED
        BY <2>1, <2>2, ProbeReadsKept DEF ReadInv
<1> QED
    BY <1>1, <1>2, <1>3 DEF Next

\* What ReadInv says is what FramesReadable promises.
LEMMA ReadableFollows == AsksFirst /\ LobbyInv /\ ReadInv => FramesReadable
<1> SUFFICES ASSUME AsksFirst, LobbyInv, ReadInv PROVE FramesReadable
    OBVIOUS
<1>0. /\ config.threshold \in Int /\ shown \in Seq(Frames) /\ script \in Seq(Frames)
      /\ server_buf \in Seq(Frames) /\ sock \in Seq(Frames)
    BY ThresholdsTyped DEF LobbyInv, Types, TypeOK
<1>1. ASSUME config.threshold >= COMPRESSION_THRESHOLD, NEW n \in DOMAIN shown
      PROVE  Reads(Limit(SubSeq(shown, 1, n - 1)), shown[n])
    <2>1. n \in 1 .. Len(shown) /\ n - 1 \in Nat
        BY <1>0, <1>1
    <2>2. /\ DOMAIN SubSeq(shown, 1, n - 1) = 1 .. n - 1
          /\ \A m \in 1 .. n - 1 : SubSeq(shown, 1, n - 1)[m] = shown[m]
        BY <1>0, <2>1
    <2>3. Limit(SubSeq(shown, 1, n - 1)) =
             IF IsTold(shown, n - 1) THEN COMPRESSION_THRESHOLD ELSE -1
        BY <2>2 DEF Limit, IsTold
    <2> QED
        BY <1>1, <2>1, <2>3 DEF ReadInv, ClientReads, Reads
<1>2. ASSUME at \in {"login", "join"}, server_buf # <<>>
      PROVE  Decodes(compression.server, Head(server_buf))
    <2>1. Rest # <<>> /\ Head(Rest) = Head(server_buf)
        BY <1>0, <1>2, TailOfConcat DEF Rest
    <2>2. /\ Handled \in 0 .. Len(script) /\ Rest = SubSeq(script, Handled + 1, Len(script))
        BY DEF LobbyInv, Stream
    <2>3. Handled + 1 \in 1 .. Len(script) /\ Head(Rest) = script[Handled + 1]
        BY <1>0, <2>1, <2>2, SuffixStep
    <2>4. PICK s \in Sayable : script = Wire(s)
        BY <1>0, <2>3 DEF LobbyInv, Stream
    <2>5. Handled \in 0 .. Len(s) - 1
        BY <1>0, <2>2, <2>3, <2>4, WireFacts
    <2> QED
        BY <1>0, <1>2, <2>1, <2>3, <2>4, <2>5, WireTold DEF ReadInv, ServerReads
<1>3. ASSUME probe \in {"login", "play"}, coming # <<>>
      PROVE  Decodes(probe_compression, Head(coming))
    <2>1. PICK s \in Sayable : \E d \in 0 .. Len(s) :
             /\ coming = SubSeq(Wire(s), d + 1, Len(s)) /\ probe_compression = Told(Wire(s), d)
        BY <1>3 DEF ReadInv, ProbeReads
    <2>2. PICK d \in 0 .. Len(s) :
             /\ coming = SubSeq(Wire(s), d + 1, Len(s)) /\ probe_compression = Told(Wire(s), d)
        BY <2>1
    <2>3. Wire(s) \in Seq(Frames) /\ Len(Wire(s)) = Len(s) /\ Len(s) \in Nat
        BY <1>0, WireFacts
    <2>4. d + 1 \in 1 .. Len(Wire(s)) /\ Head(coming) = Wire(s)[d + 1]
        BY <1>3, <2>2, <2>3, SuffixStep
    <2>5. d \in 0 .. Len(s) - 1
        BY <2>3, <2>4
    <2> QED
        BY <1>0, <2>2, <2>4, <2>5, WireTold
<1> QED
    BY <1>1, <1>2, <1>3 DEF FramesReadable

\* From servers that announce their compression in time, every frame can be
\* read by whom it reaches: by the client, whatever was recorded, replayed,
\* read ahead or relayed, if the server compresses no more than the client was
\* told; and by the proxy on either of its connections (lobby.rs, probe.rs).
THEOREM FramesAreReadable == ASSUME AsksFirst PROVE Spec => []FramesReadable
<1>1. Init => ReadInv
    BY ReadInit
<1>2. LobbyInv /\ ReadInv /\ [Next]_vars => ReadInv'
    BY ReadNext
<1>3. LobbyInv /\ ReadInv => FramesReadable
    BY ReadableFollows
<1> QED
    BY <1>1, <1>2, <1>3, LobbyInvariant, PTL DEF Spec

-----------------------------------------------------------------------------
(* The lobby implements LobbyVisit: every step of the client's task, of    *)
(* the probe and of the world is one step of the visit, or none of it.     *)

Names == Ids \cup {"lobby", "respawn"}

LEMMA NamesFacts ==
    ASSUME NEW f \in Seq(Frames)
    PROVE  /\ NamesOf(f) \in Seq(Names) /\ Len(NamesOf(f)) = Len(f)
           /\ \A n \in 1 .. Len(f) : NamesOf(f)[n] = f[n].id
<1>1. DOMAIN f = 1 .. Len(f) /\ Len(f) \in Nat
    OBVIOUS
<1>2. \A n \in 1 .. Len(f) : f[n].id \in Names
    <2>1. \A n \in 1 .. Len(f) : f[n] \in Frames
        OBVIOUS
    <2>2. \A x \in Frames : x.id \in Names
        BY DEF Frames, Names
    <2> QED
        BY <2>1, <2>2
<1>3. NamesOf(f) = [n \in 1 .. Len(f) |-> f[n].id]
    BY <1>1 DEF NamesOf
<1> QED
    BY <1>1, <1>2, <1>3

LEMMA NamesOfConcat ==
    ASSUME NEW f \in Seq(Frames), NEW g \in Seq(Frames)
    PROVE  NamesOf(f \o g) = NamesOf(f) \o NamesOf(g)
<1>1. f \o g \in Seq(Frames) /\ Len(f \o g) = Len(f) + Len(g) /\ Len(f) \in Nat /\ Len(g) \in Nat
    OBVIOUS
<1>2. /\ NamesOf(f) \in Seq(Names) /\ NamesOf(g) \in Seq(Names) /\ NamesOf(f \o g) \in Seq(Names)
      /\ Len(NamesOf(f)) = Len(f) /\ Len(NamesOf(g)) = Len(g)
      /\ Len(NamesOf(f \o g)) = Len(f) + Len(g)
    BY <1>1, NamesFacts
<1>3. /\ NamesOf(f) \o NamesOf(g) \in Seq(Names)
      /\ Len(NamesOf(f) \o NamesOf(g)) = Len(f) + Len(g)
    <2>1. /\ NamesOf(f) \o NamesOf(g) \in Seq(Names)
          /\ Len(NamesOf(f) \o NamesOf(g)) = Len(NamesOf(f)) + Len(NamesOf(g))
        BY <1>2, ConcatProperties, Zenon
    <2> QED
        BY <1>2, <2>1
<1>4. ASSUME NEW n \in 1 .. Len(f) + Len(g)
      PROVE  NamesOf(f \o g)[n] = (NamesOf(f) \o NamesOf(g))[n]
    <2>1. CASE n <= Len(f)
        <3>1. n \in 1 .. Len(f)
            BY <1>1, <1>4, <2>1
        <3>2. (f \o g)[n] = f[n] /\ (NamesOf(f) \o NamesOf(g))[n] = NamesOf(f)[n]
            BY <1>1, <1>2, <1>4, <3>1
        <3> QED
            BY <1>1, <1>4, <3>1, <3>2, NamesFacts
    <2>2. CASE ~(n <= Len(f))
        <3>1. n - Len(f) \in 1 .. Len(g)
            BY <1>1, <1>4, <2>2
        <3>2. (f \o g)[n] = g[n - Len(f)]
              /\ (NamesOf(f) \o NamesOf(g))[n] = NamesOf(g)[n - Len(f)]
            BY <1>1, <1>2, <1>4, <2>2
        <3> QED
            BY <1>1, <3>1, <3>2, NamesFacts
    <2> QED
        BY <2>1, <2>2
<1> QED
    BY <1>2, <1>3, <1>4, SeqEqual

LEMMA NamesOfSuffix ==
    ASSUME NEW f \in Seq(Frames), NEW d \in 0 .. Len(f)
    PROVE  NamesOf(SubSeq(f, d + 1, Len(f))) = SubSeq(NamesOf(f), d + 1, Len(f))
<1>1. /\ SubSeq(f, d + 1, Len(f)) \in Seq(Frames) /\ Len(SubSeq(f, d + 1, Len(f))) = Len(f) - d
      /\ \A n \in 1 .. Len(f) - d : SubSeq(f, d + 1, Len(f))[n] = f[d + n]
    BY SplitSeq, SuffixElements
<1>2. /\ NamesOf(f) \in Seq(Names) /\ Len(NamesOf(f)) = Len(f)
      /\ \A n \in 1 .. Len(f) : NamesOf(f)[n] = f[n].id
    BY NamesFacts
<1>3. /\ SubSeq(NamesOf(f), d + 1, Len(f)) \in Seq(Names)
      /\ Len(SubSeq(NamesOf(f), d + 1, Len(f))) = Len(f) - d
      /\ \A n \in 1 .. Len(f) - d : SubSeq(NamesOf(f), d + 1, Len(f))[n] = NamesOf(f)[d + n]
    BY <1>2, SplitSeq, SuffixElements
<1>4. /\ NamesOf(SubSeq(f, d + 1, Len(f))) \in Seq(Names)
      /\ Len(NamesOf(SubSeq(f, d + 1, Len(f)))) = Len(f) - d
      /\ \A n \in 1 .. Len(f) - d : NamesOf(SubSeq(f, d + 1, Len(f)))[n] = f[d + n].id
    BY <1>1, NamesFacts
<1>5. ASSUME NEW n \in 1 .. Len(f) - d
      PROVE  NamesOf(SubSeq(f, d + 1, Len(f)))[n] = SubSeq(NamesOf(f), d + 1, Len(f))[n]
    <2>1. d + n \in 1 .. Len(f)
        OBVIOUS
    <2> QED
        BY <1>2, <1>3, <1>4, <2>1
<1> QED
    BY <1>3, <1>4, <1>5, SeqEqual

LEMMA SeqSplits ==
    ASSUME NEW S, NEW a \in Seq(S), NEW b \in Seq(S)
    PROVE  /\ SubSeq(a \o b, 1, Len(a)) = a
           /\ SubSeq(a \o b, Len(a) + 1, Len(a \o b)) = b
<1>1. /\ a \o b \in Seq(S) /\ Len(a \o b) = Len(a) + Len(b) /\ Len(a) \in Nat /\ Len(b) \in Nat
      /\ \A i \in 1 .. Len(a) + Len(b) : (a \o b)[i] = IF i <= Len(a) THEN a[i] ELSE b[i - Len(a)]
    OBVIOUS
<1> DEFINE c == SubSeq(a \o b, 1, Len(a))
           d == SubSeq(a \o b, Len(a) + 1, Len(a \o b))
<1>2. c \in Seq(S) /\ Len(c) = Len(a) /\ \A i \in 1 .. Len(a) : c[i] = (a \o b)[i]
    BY <1>1
<1>3. d \in Seq(S) /\ Len(d) = Len(b) /\ \A i \in 1 .. Len(b) : d[i] = (a \o b)[Len(a) + i]
    BY <1>1, SuffixElements
<1> HIDE DEF c, d
<1>4. \A i \in 1 .. Len(a) : c[i] = a[i]
    BY <1>1, <1>2
<1>5. \A i \in 1 .. Len(b) : d[i] = b[i]
    BY <1>1, <1>3
<1>6. c = a /\ d = b
    BY <1>2, <1>3, <1>4, <1>5, SeqEqual
<1> QED
    BY <1>6 DEF c, d

-----------------------------------------------------------------------------
(* What the client has seen.                                               *)

\* Seen, of any sequence of frames.
SeenIn(frames) ==
    LET worlds == {n \in DOMAIN frames : frames[n].id = "lobby"} IN
    IF worlds = {} THEN <<>>
    ELSE NamesOf(SubSeq(frames, CHOOSE n \in worlds : TRUE, Len(frames)))

LEMMA SeenIsSeenIn == Seen = SeenIn(shown) /\ Seen' = SeenIn(shown')
BY DEF Seen, SeenIn

LEMMA SeenNothing ==
    ASSUME NEW f \in Seq(Frames), \A n \in 1 .. Len(f) : f[n].id # "lobby"
    PROVE  SeenIn(f) = <<>>
BY DEF SeenIn

LEMMA SeenSince ==
    ASSUME NEW f \in Seq(Frames), NEW m \in 1 .. Len(f),
           \A n \in 1 .. Len(f) : f[n].id = "lobby" <=> n = m
    PROVE  SeenIn(f) = NamesOf(SubSeq(f, m, Len(f)))
<1>1. {n \in DOMAIN f : f[n].id = "lobby"} = {m}
    OBVIOUS
<1> QED
    BY <1>1 DEF SeenIn

LEMMA SuffixGrows ==
    ASSUME NEW S, NEW f \in Seq(S), NEW t \in Seq(S), NEW m \in 1 .. Len(f)
    PROVE  SubSeq(f \o t, m, Len(f \o t)) = SubSeq(f, m, Len(f)) \o t
<1>1. /\ f \o t \in Seq(S) /\ Len(f \o t) = Len(f) + Len(t) /\ Len(f) \in Nat /\ Len(t) \in Nat
      /\ \A i \in 1 .. Len(f) + Len(t) : (f \o t)[i] = IF i <= Len(f) THEN f[i] ELSE t[i - Len(f)]
    OBVIOUS
<1> DEFINE a == SubSeq(f \o t, m, Len(f \o t))
           s == SubSeq(f, m, Len(f))
           b == s \o t
<1>2. /\ a \in Seq(S) /\ Len(a) = Len(f) + Len(t) - m + 1
      /\ \A n \in 1 .. Len(f) + Len(t) - m + 1 : a[n] = (f \o t)[m + n - 1]
    BY <1>1
<1>3. s \in Seq(S) /\ Len(s) = Len(f) - m + 1 /\ \A n \in 1 .. Len(f) - m + 1 : s[n] = f[m + n - 1]
    OBVIOUS
<1> HIDE DEF s
<1>4. /\ b \in Seq(S) /\ Len(b) = Len(s) + Len(t)
      /\ \A i \in 1 .. Len(s) + Len(t) : b[i] = IF i <= Len(s) THEN s[i] ELSE t[i - Len(s)]
    BY <1>3, ConcatProperties, Zenon
<1> HIDE DEF a, b
<1>5. ASSUME NEW n \in 1 .. Len(f) + Len(t) - m + 1
      PROVE  a[n] = b[n]
    <2>1. m + n - 1 \in 1 .. Len(f) + Len(t) /\ n \in 1 .. Len(s) + Len(t)
        BY <1>1, <1>3
    <2>2. CASE n <= Len(s)
        <3>1. n \in 1 .. Len(f) - m + 1 /\ m + n - 1 <= Len(f)
            BY <1>1, <1>3, <2>2
        <3> QED
            BY <1>1, <1>2, <1>3, <1>4, <2>1, <2>2, <3>1
    <2>3. CASE ~(n <= Len(s))
        <3>1. ~(m + n - 1 <= Len(f)) /\ (m + n - 1) - Len(f) = n - Len(s)
            BY <1>1, <1>3, <2>3
        <3> QED
            BY <1>1, <1>2, <1>4, <2>1, <2>3, <3>1
    <2> QED
        BY <2>2, <2>3
<1>6. a = b
    <2>1. Len(b) = Len(f) + Len(t) - m + 1 /\ a \in Seq(S) /\ b \in Seq(S)
        BY <1>1, <1>2, <1>3, <1>4
    <2>2. Len(a) = Len(b) /\ \A n \in 1 .. Len(a) : a[n] = b[n]
        BY <1>2, <1>5, <2>1
    <2> QED
        BY <2>1, <2>2, SeqEqual
<1> QED
    BY <1>6 DEF a, b, s

\* What is shown after the lobby is seen.
LEMMA SeenGrows ==
    ASSUME shown \in Seq(Frames), Worlds, at \in (Unconnected \cup Connected) \ Early,
           NEW t \in Seq(Frames), shown' = shown \o t,
           \A n \in 1 .. Len(t) : t[n].id # "lobby"
    PROVE  Seen' = Seen \o NamesOf(t)
<1>1. PICK m \in 1 .. Len(shown) : \A n \in 1 .. Len(shown) : shown[n].id = "lobby" <=> n = m
    BY DEF Worlds
<1>2. /\ m \in 1 .. Len(shown') /\ shown' \in Seq(Frames) /\ m \in Nat /\ Len(shown) \in Nat
      /\ \A n \in 1 .. Len(shown') : shown'[n].id = "lobby" <=> n = m
    BY <1>1
<1>3. Seen = NamesOf(SubSeq(shown, m, Len(shown)))
    BY <1>1, SeenSince, SeenIsSeenIn
<1>4. Seen' = NamesOf(SubSeq(shown', m, Len(shown')))
    BY <1>2, SeenSince, SeenIsSeenIn
<1>5. SubSeq(shown', m, Len(shown')) = SubSeq(shown, m, Len(shown)) \o t
    BY <1>1, SuffixGrows
<1>6. SubSeq(shown, m, Len(shown)) \in Seq(Frames)
    BY <1>1
<1> QED
    BY <1>3, <1>4, <1>5, <1>6, NamesOfConcat

-----------------------------------------------------------------------------
(* Steps of the visit.                                                     *)

LEMMA Stutters ==
    ASSUME script' = script, Seen' = Seen, Place' = Place,
           Place = "game" => UNCHANGED <<sock, server_buf>>
    PROVE  UNCHANGED Visit!vars
BY DEF Visit!vars, Owed

LEMMA Leaves ==
    ASSUME script' = script, Seen' = Seen, Place # "gone", Place' = "gone"
    PROVE  Visit!Leave
BY DEF Visit!Leave, Owed

\* The client is shown a part of what is owed to it.
LEMMA Shows ==
    ASSUME LobbyInv, Place = "game", Place' = "game", script' = script,
           NEW a \in Seq(Frames), NEW b \in Seq(Frames), a # <<>>,
           Rest = a \o b, Rest' = b, shown' = shown \o a
    PROVE  Visit!Show
<1>0. at \in Connected /\ at \notin Early
    BY DEF Place, Connected, Early
<1>1. \A n \in 1 .. Len(a) : a[n].id # "lobby"
    <2>1. \A n \in 1 .. Len(Rest) : Rest[n].id # "lobby"
        BY ScriptIds DEF LobbyInv, Ids
    <2> QED
        BY <2>1
<1>2. Seen' = Seen \o NamesOf(a)
    BY <1>0, <1>1, SeenGrows DEF LobbyInv, Types, TypeOK
<1>3. /\ NamesOf(a) \in Seq(Names) /\ NamesOf(b) \in Seq(Names)
      /\ Len(NamesOf(a)) = Len(a) /\ Len(a) \in Nat /\ Len(a) > 0
    BY NamesFacts
<1>4. Owed = NamesOf(a) \o NamesOf(b) /\ Owed' = NamesOf(b)
    BY NamesOfConcat DEF Owed, Rest
<1>5. Len(a) \in 1 .. Len(Owed)
    BY <1>3, <1>4
<1>6. SubSeq(Owed, 1, Len(a)) = NamesOf(a) /\ SubSeq(Owed, Len(a) + 1, Len(Owed)) = NamesOf(b)
    BY <1>3, <1>4, SeqSplits
<1> QED
    BY <1>2, <1>4, <1>5, <1>6 DEF Visit!Show

-----------------------------------------------------------------------------
(* Every step is one of the visit's, or none.                              *)

LEMMA VisitInit == Init => Visit!Init
<1> SUFFICES ASSUME Init PROVE Visit!Init
    OBVIOUS
<1>1. Place = "login" /\ Owed = <<>>
    BY DEF Init, Place, Owed
<1>2. NamesOf(script) = <<>>
    BY DEF Init, NamesOf
<1>3. Seen = <<>>
    BY DEF Init, Seen
<1> QED
    BY <1>1, <1>2, <1>3 DEF Visit!Init

\* A task that hands nothing of the server to the client.
LEMMA TaskStays ==
    ASSUME LobbyInv, UNCHANGED <<script, shown>>, Place' = Place,
           Place = "game" => UNCHANGED <<sock, server_buf>>
    PROVE  UNCHANGED Visit!vars
BY SeenIsSeenIn, Stutters

LEMMA TaskLeaves ==
    ASSUME LobbyInv, UNCHANGED <<script, shown>>, Place # "gone", Place' = "gone"
    PROVE  Visit!Leave
BY SeenIsSeenIn, Leaves

LEMMA VisitEarly ==
    ASSUME LobbyInv, Occupy \/ Count \/ Response \/ Replayed \/ ClientGone \/ Wait \/ WaitWoken
    PROVE  [Visit!Next]_(Visit!vars)
<1>1. UNCHANGED <<script, shown, sock, server_buf>>
    BY DEF Occupy, Count, Response, Replayed, ClientGone, Wait, WaitWoken, serverVars
<1>2. Place # "gone" /\ (Place' = Place \/ Place' = "gone")
    BY DEF Occupy, Count, Response, Replayed, ClientGone, Wait, WaitWoken, Outcome, Place
<1> QED
    BY <1>1, <1>2, TaskStays, TaskLeaves DEF Visit!Next

LEMMA VisitReplay == ASSUME LobbyInv, Replay PROVE UNCHANGED Visit!vars
<1>1. at = "replay" /\ at' = "count" /\ shown' = shown \o forge_payload /\ script' = script
    BY DEF Replay, serverVars
<1>2. Place = "login" /\ Place' = "login"
    BY <1>1 DEF Place
<1>3. shown \in Seq(Frames) /\ \A n \in 1 .. Len(shown) : shown[n].id # "lobby"
    BY <1>1 DEF LobbyInv, Types, TypeOK, Worlds, Early
<1>4. shown' \in Seq(Frames) /\ \A n \in 1 .. Len(shown') : shown'[n].id # "lobby"
    <2>1. /\ forge_payload \in Seq(Frames)
          /\ \A n \in 1 .. Len(forge_payload) : forge_payload[n].id # "lobby"
        BY DEF LobbyInv, Types, TypeOK, Payloads
    <2> QED
        BY <1>1, <1>3, <2>1
<1>5. Seen' = Seen
    BY <1>3, <1>4, SeenNothing, SeenIsSeenIn
<1> QED
    BY <1>1, <1>2, <1>5, Stutters

LEMMA VisitEnter == ASSUME LobbyInv, Enter PROVE Visit!Enter
<1>1. at = "enter" /\ at' = "subscribe" /\ script' = script
    BY DEF Enter, serverVars
<1>2. Place = "login" /\ Place' = "lobby" /\ Owed' = Owed
    BY <1>1 DEF Place, Owed
<1>3. Types
    BY DEF LobbyInv
<1> DEFINE m == Len(shown) + 3
<1>4. /\ shown' \in Seq(Frames) /\ Len(shown') = m /\ m \in 1 .. m
      /\ shown'[m].id = "lobby"
      /\ \A n \in 1 .. m : shown'[n].id = "lobby" <=> n = m
    <2>1. shown'[Len(shown) + 1].id # "lobby" /\ shown'[Len(shown) + 2].id # "lobby"
          /\ shown'[m].id = "lobby"
        BY <1>3, EnterShows DEF Encode, Write, Success, World
    <2>2. Len(shown) \in Nat /\ Len(shown') = m /\ shown' \in Seq(Frames)
        BY <1>3, EnterShows DEF Types, TypeOK
    <2>3. \A n \in 1 .. Len(shown) : shown'[n].id # "lobby"
        BY <1>1, <1>3, EnterShows DEF LobbyInv, Worlds, Early
    <2>4. \A n \in 1 .. m : n \in 1 .. Len(shown) \/ n \in {Len(shown) + 1, Len(shown) + 2, m}
        BY <2>2
    <2> QED
        BY <2>1, <2>2, <2>3, <2>4
<1>5. Seen' = NamesOf(SubSeq(shown', m, m))
    BY <1>4, SeenSince, SeenIsSeenIn
<1>6. SubSeq(shown', m, m) = <<shown'[m]>>
    <2>1. /\ SubSeq(shown', m, m) \in Seq(Frames) /\ <<shown'[m]>> \in Seq(Frames)
          /\ Len(SubSeq(shown', m, m)) = 1 /\ SubSeq(shown', m, m)[1] = shown'[m]
        BY <1>4
    <2>2. Len(<<shown'[m]>>) = 1 /\ <<shown'[m]>>[1] = shown'[m] /\ \A n \in 1 .. 1 : n = 1
        OBVIOUS
    <2>3. \A n \in 1 .. Len(SubSeq(shown', m, m)) : SubSeq(shown', m, m)[n] = <<shown'[m]>>[n]
        BY <2>1, <2>2
    <2> QED
        BY <2>1, <2>2, <2>3, SeqEqual, Zenon
<1>7. Seen' = <<"lobby">>
    BY <1>4, <1>5, <1>6 DEF NamesOf
<1> QED
    BY <1>1, <1>2, <1>7 DEF Visit!Enter

LEMMA VisitConnect == ASSUME LobbyInv, Connect PROVE Visit!Connect
<1>1. at = "connect" /\ at' = "login" /\ shown' = shown
    BY DEF Connect
<1>2. Place = "lobby" /\ Place' = "lobby" /\ Owed' = Owed
    BY <1>1 DEF Place, Owed
<1>3. script = <<>>
    BY <1>1 DEF LobbyInv, Stream, Unconnected
<1>4. PICK s \in Sayable : script' = Wire(s)
    BY DEF Connect
<1>5. /\ Wire(s) \in Seq(Frames) /\ Len(Wire(s)) = Len(s) /\ s \in Seq(Packets) /\ s \in Scripts
      /\ \A n \in 1 .. Len(s) : Wire(s)[n].id = s[n].id
    BY ThresholdsTyped, WireFacts DEF LobbyInv, Types
<1>6. NamesOf(Wire(s)) = NamesOf(s)
    BY <1>5 DEF NamesOf
<1>7. NamesOf(script) = <<>>
    BY <1>3 DEF NamesOf
<1>8. NamesOf(script)' = NamesOf(s)
    BY <1>4, <1>6 DEF NamesOf
<1>9. Seen' = Seen
    BY <1>1, SeenIsSeenIn
<1> QED
    BY <1>2, <1>5, <1>7, <1>8, <1>9 DEF Visit!Connect

LEMMA VisitServer ==
    ASSUME LobbyInv, ReadServer \/ ServerCompresses \/ ServerLogin \/ ServerJoinGame
    PROVE  [Visit!Next]_(Visit!vars)
<1>1. UNCHANGED <<script, shown>>
    BY DEF ReadServer, ServerCompresses, ServerLogin, ServerJoinGame
<1>2. Place = "lobby" /\ (Place' = "lobby" \/ Place' = "gone")
    BY DEF ReadServer, ServerCompresses, ServerLogin, ServerJoinGame, Place
<1> QED
    BY <1>1, <1>2, TaskStays, TaskLeaves DEF Visit!Next

\* The join game that was handled last is the server's first.
LEMMA FirstJoin ==
    ASSUME LobbyInv, at = "ready"
    PROVE  /\ Visit!Joins(NamesOf(script)) # {}
           /\ Visit!AfterJoin(NamesOf(script)) = NamesOf(Rest)
<1> DEFINE s == NamesOf(script)
<1>1. /\ script \in Seq(Frames) /\ Len(script) \in Nat
      /\ s \in Seq(Names) /\ Len(s) = Len(script) /\ DOMAIN s = 1 .. Len(script)
      /\ \A n \in 1 .. Len(script) : s[n] = script[n].id
    BY NamesFacts DEF LobbyInv, Types
<1>2. /\ Handled \in 0 .. Len(script) /\ Joined(Handled) /\ ~Joined(Handled - 1)
      /\ Rest = SubSeq(script, Handled + 1, Len(script))
    BY DEF LobbyInv, Stream
<1> HIDE DEF s
<1>3. \A i \in 1 .. Len(script) : i \in Visit!Joins(s) <=> script[i].id = "join" /\ Accepted(i - 1)
    BY <1>1 DEF Visit!Joins, Accepted
<1>4. Visit!Joins(s) \subseteq 1 .. Len(script)
    BY <1>1 DEF Visit!Joins
<1>5. Handled \in Visit!Joins(s)
    BY <1>2, <1>3 DEF Joined
<1>6. \A k \in Visit!Joins(s) : Handled <= k
    BY <1>2, <1>3, <1>4 DEF Joined
<1>7. \A i \in Visit!Joins(s) : (\A k \in Visit!Joins(s) : i <= k) => i = Handled
    BY <1>2, <1>4, <1>5, <1>6
<1>8. (CHOOSE i \in Visit!Joins(s) : \A k \in Visit!Joins(s) : i <= k) = Handled
    BY <1>5, <1>6, <1>7
<1>9. Visit!AfterJoin(s) = SubSeq(s, Handled + 1, Len(script))
    BY <1>1, <1>8 DEF Visit!AfterJoin
<1>10. NamesOf(Rest) = SubSeq(NamesOf(script), Handled + 1, Len(script))
    BY <1>1, <1>2, NamesOfSuffix
<1> QED
    BY <1>5, <1>9, <1>10 DEF s

LEMMA VisitMoves == ASSUME LobbyInv, Moves PROVE Visit!Move
<1> DEFINE respawn == Write(compression.client, Respawn)
<1>1. /\ at = "ready" /\ at' = "drain" /\ UNCHANGED <<script, sock, server_buf>>
      /\ shown' = Append(shown, respawn)
    BY DEF Moves, serverVars
<1>2. Place = "lobby" /\ Place' = "game" /\ Owed' = NamesOf(Rest)
    BY <1>1 DEF Place, Owed, Rest
<1>3. respawn \in Frames /\ respawn.id = "respawn"
    BY ThresholdIsPositive DEF Write, Encode, Form, Respawn, Frames, Forms, LobbyInv, Types, TypeOK
<1> HIDE DEF respawn
<1>4. /\ <<respawn>> \in Seq(Frames) /\ shown' = shown \o <<respawn>>
      /\ \A n \in 1 .. Len(<<respawn>>) : <<respawn>>[n].id # "lobby"
      /\ NamesOf(<<respawn>>) = <<"respawn">>
    BY <1>1, <1>3 DEF LobbyInv, Types, TypeOK, NamesOf
<1>5. Seen' = Seen \o <<"respawn">>
    BY <1>1, <1>4, SeenGrows DEF LobbyInv, Types, TypeOK, Connected, Early
<1>6. Seen' = Append(Seen, "respawn")
    BY <1>5
<1> QED
    BY <1>1, <1>2, <1>6, FirstJoin DEF Visit!Move

LEMMA VisitRoute == ASSUME LobbyInv, RouteProxy PROVE [Visit!Next]_(Visit!vars)
<1>1. /\ at = "route" /\ at' = "relay" /\ UNCHANGED <<script, sock>> /\ server_buf' = <<>>
      /\ shown' = shown \o server_buf
      /\ server_buf \in Seq(Frames) /\ sock \in Seq(Frames) /\ shown \in Seq(Frames)
    BY DEF RouteProxy, LobbyInv, Types, TypeOK
<1>2. Place = "game" /\ Place' = "game"
    BY <1>1 DEF Place
<1>3. Rest = server_buf \o sock /\ Rest' = sock
    BY <1>1 DEF Rest
<1>4. CASE server_buf = <<>>
    BY <1>1, <1>2, <1>4, TaskStays
<1>5. CASE server_buf # <<>>
    BY <1>1, <1>2, <1>3, <1>5, Shows DEF Visit!Next
<1> QED
    BY <1>4, <1>5

LEMMA VisitRelayDown == ASSUME LobbyInv, RelayDown PROVE Visit!Show
<1>1. /\ at = "relay" /\ at' = "relay" /\ sock # <<>> /\ UNCHANGED <<script, server_buf>>
      /\ shown' = Append(shown, Head(sock)) /\ sock' = Tail(sock)
      /\ sock \in Seq(Frames) /\ shown \in Seq(Frames) /\ server_buf = <<>>
    BY DEF RelayDown, LobbyInv, Types, TypeOK, Stream
<1>2. Place = "game" /\ Place' = "game"
    BY <1>1 DEF Place
<1>3. /\ <<Head(sock)>> \in Seq(Frames) /\ sock' \in Seq(Frames) /\ <<Head(sock)>> # <<>>
      /\ sock = <<Head(sock)>> \o sock' /\ shown' = shown \o <<Head(sock)>>
    BY <1>1
<1>4. Rest = <<Head(sock)>> \o sock' /\ Rest' = sock'
    BY <1>1, <1>3 DEF Rest
<1> QED
    BY <1>1, <1>2, <1>3, <1>4, Shows

LEMMA VisitRest ==
    ASSUME LobbyInv, Drain \/ RelayUp \/ TimesOut \/ Breaks
    PROVE  [Visit!Next]_(Visit!vars)
<1>1. UNCHANGED <<script, shown, sock, server_buf>>
    BY DEF Drain, RelayUp, TimesOut, Breaks, serverVars
<1>2. at \in Ats
    BY DEF LobbyInv, Types, TypeOK
<1>3. Place # "gone" /\ (Place' = Place \/ Place' = "gone")
    BY <1>2 DEF Drain, RelayUp, TimesOut, Breaks, Place, Ats
<1> QED
    BY <1>1, <1>3, TaskStays, TaskLeaves DEF Visit!Next

LEMMA VisitNext == LobbyInv /\ [Next]_vars => [Visit!Next]_(Visit!vars)
<1> SUFFICES ASSUME LobbyInv, [Next]_vars PROVE [Visit!Next]_(Visit!vars)
    OBVIOUS
<1>1. CASE UNCHANGED lobbyVars
    BY <1>1, TaskStays DEF lobbyVars, serverVars, Place
<1>2. CASE Answer \/ Strays \/ Plays \/ HangsUp
    <2>1. UNCHANGED <<script, shown, sock, server_buf, at>>
        BY <1>2 DEF Answer, Strays, Plays, HangsUp, serverVars
    <2> QED
        BY <2>1, TaskStays DEF Place
<1>3. CASE LobbySteps
    BY <1>3, VisitEarly, VisitReplay, VisitEnter, VisitConnect, VisitServer, VisitMoves,
       VisitRoute, VisitRelayDown, VisitRest DEF LobbySteps, Visit!Next
<1>4. CASE TimesOut \/ Breaks
    BY <1>4, VisitRest
<1> QED
    BY <1>1, <1>2, <1>3, <1>4 DEF Next, vars, Announce

\* The client of a starting server is shown the lobby, moved over once, by a
\* respawn that follows the server's first join game, and shown everything the
\* server sent after it, in order and once, whatever the server says, however
\* it is cut, and however much of it was read ahead (lobby.rs, join/lobby.rs).
THEOREM LobbyVisitIsImplemented == Spec => ImplementsLobbyVisit
<1>1. Init => Visit!Init
    BY VisitInit
<1>2. LobbyInv /\ [Next]_vars => [Visit!Next]_(Visit!vars)
    BY VisitNext
<1> QED
    BY <1>1, <1>2, LobbyInvariant, PTL DEF Spec, ImplementsLobbyVisit, Visit!Spec
=============================================================================
