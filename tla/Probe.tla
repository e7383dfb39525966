------------------------------- MODULE Probe -------------------------------
(***************************************************************************)
(* The watch channel as its receivers see it, and the probe: a task that   *)
(* logs in to the Minecraft server as a client of its own, once, and       *)
(* leaves what it saw in the Server object for the lobby to replay         *)
(* (probe.rs, service/probe.rs).                                           *)
(***************************************************************************)
EXTENDS Compression

CONSTANTS
    Scripts,    \* what the Minecraft server may send to one that logs in
    Thresholds  \* what network-compression-threshold may be in server.properties

Ids     == {"compress", "plugin", "encrypt", "disconnect", "success", "join", "play"}
Packets == [id: Ids, size: Nat]
Frames  == [id: Ids \cup {"lobby", "respawn"}, size: Nat, form: Forms]

ASSUME ScriptsTyped    == Scripts \subseteq Seq(Packets)
ASSUME ThresholdsTyped == Thresholds \subseteq Int

VARIABLES
    config,           \* server.forge, server.probe_on_start, and the server's
                      \* own compression threshold
    watch,            \* the value in the watch channel
    ever_sent,        \* whether the channel's version ever moved
    unseen,           \* waiting tasks whose receiver has an unseen version
    probe,            \* where the probe is
    coming,           \* packets of the probe's connection not yet handled
    probe_compression, \* the compression of its tmp_client
    recorded,         \* its local forge_payload
    probed_join_game, \* whether the Server has one
    forge_payload     \* the Server's

States == {"Stopped", "Starting", "Started", "Stopping"}

channelVars == <<watch, ever_sent, unseen>>
probeVars   == <<probe, coming, probe_compression, recorded, probed_join_game, forge_payload>>

ProbeInit ==
    /\ config \in [forge: BOOLEAN, probe_on_start: BOOLEAN, threshold: Thresholds]
    /\ watch = "Stopped" /\ ever_sent = FALSE /\ unseen = {}
    /\ probe = IF config.forge \/ config.probe_on_start THEN "start" ELSE "off"
    /\ coming = <<>> /\ probe_compression = -1 /\ recorded = <<>>
    /\ probed_join_game = FALSE /\ forge_payload = <<>>

Says(script, id) == \E n \in DOMAIN script : script[n].id = id

\* A server announces its threshold to everyone it lets in, if it has one.
Sayable ==
    {s \in Scripts :
        IF config.threshold < 0 THEN ~Says(s, "compress")
        ELSE Says(s, "success") => Says(s, "compress")}

\* The frames of a script: the server keeps to what it has announced.
Wire(script) ==
    LET On(n) == \E k \in 1 .. n - 1 : script[k].id = "compress" IN
    [n \in DOMAIN script |->
        Sends(IF On(n) THEN config.threshold ELSE -1, script[n].id, script[n].size)]

\* state_receiver(): a clone of a receiver that has never seen a thing.
Subscribe(task) ==
    /\ unseen' = IF ever_sent THEN unseen \cup {task} ELSE unseen
    /\ UNCHANGED <<watch, ever_sent>>

\* changed().await, and what the two waiting loops make of the value.
Woken(task) ==
    /\ task \in unseen
    /\ unseen' = unseen \ {task}
    /\ UNCHANGED <<watch, ever_sent>>

Outcome(longer, ready, gone) ==
    CASE watch = "Starting" -> longer
      [] watch = "Started"  -> ready
      [] OTHER              -> gone

-----------------------------------------------------------------------------
\* Server::start has returned, whether or not it started anything.
ProbeStarts ==
    /\ probe = "start" /\ probe' = "wait"
    /\ Subscribe("probe")
    /\ UNCHANGED <<coming, probe_compression, recorded, probed_join_game, forge_payload>>

ProbeWoken ==
    /\ probe = "wait" /\ Woken("probe")
    /\ probe' = Outcome("wait", "connect", "failed")
    /\ UNCHANGED <<coming, probe_compression, recorded, probed_join_game, forge_payload>>

ProbeConnects ==
    /\ probe = "connect" /\ probe' = "login"
    /\ coming' \in {Wire(s) : s \in Sayable}
    /\ UNCHANGED <<channelVars, probe_compression, recorded, probed_join_game, forge_payload>>

\* What read_packet hands out of the next frame; one that cannot be decoded is
\* left to ProbeFails.
ProbeGot(id) ==
    /\ coming # <<>> /\ Decodes(probe_compression, Head(coming)) /\ Head(coming).id = id
    /\ coming' = Tail(coming)

ProbeCompresses ==
    /\ probe = "login" /\ ProbeGot("compress")
    /\ probe_compression' = config.threshold
    /\ UNCHANGED <<channelVars, probe, recorded, probed_join_game, forge_payload>>

\* Forge's login requests are recorded as they came, and acknowledged.
ProbeRecords ==
    /\ probe = "login" /\ ProbeGot("plugin")
    /\ recorded' = IF config.forge THEN Append(recorded, Head(coming)) ELSE recorded
    /\ UNCHANGED <<channelVars, probe, probe_compression, probed_join_game, forge_payload>>

ProbeLogin ==
    /\ probe = "login"
    /\ \/ ProbeGot("success") /\ probe' = "play"
       \/ /\ \E id \in Ids \ {"compress", "plugin", "success"} : ProbeGot(id)
          /\ UNCHANGED probe
    /\ UNCHANGED <<channelVars, probe_compression, recorded, probed_join_game, forge_payload>>

ProbeJoinGame ==
    /\ probe = "play"
    /\ \/ ProbeGot("join") /\ probe' = "close" /\ probed_join_game' = TRUE
       \/ /\ \E id \in Ids \ {"join"} : ProbeGot(id)
          /\ UNCHANGED <<probe, probed_join_game>>
    /\ UNCHANGED <<channelVars, probe_compression, recorded, forge_payload>>

\* The connection is closed before the payload reaches the Server.
ProbeCloses ==
    /\ probe = "close" /\ probe' = "store"
    /\ coming' = <<>>
    /\ UNCHANGED <<channelVars, probe_compression, recorded, probed_join_game, forge_payload>>

ProbeStores ==
    /\ probe = "store" /\ probe' = "done"
    /\ forge_payload' = recorded
    /\ UNCHANGED <<channelVars, coming, probe_compression, recorded, probed_join_game>>

\* A timeout, a connection that fails or ends, a packet that is malformed.
ProbeFails ==
    /\ probe \in {"wait", "connect", "login", "play"} /\ probe' = "failed"
    /\ unseen' = unseen \ {"probe"} /\ coming' = <<>>
    /\ UNCHANGED <<watch, ever_sent, probe_compression, recorded, probed_join_game, forge_payload>>

ProbeSteps ==
    \/ ProbeStarts \/ ProbeWoken \/ ProbeConnects
    \/ ProbeCompresses \/ ProbeRecords \/ ProbeLogin \/ ProbeJoinGame
    \/ ProbeCloses \/ ProbeStores \/ ProbeFails
=============================================================================
