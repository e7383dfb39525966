------------------------------ MODULE Monitor ------------------------------
(***************************************************************************)
(* monitor_server: poll the server, bring the state in line with the       *)
(* answer, put an idle server to sleep, kill one that took too long.       *)
(***************************************************************************)
EXTENDS StopServer

\* A server answers once it is online, and may still answer while it closes.
Answers == {p \in Procs : proc[p] \in {"online", "closing"}}

\* Nothing that must answer is there.
NoAnswer == "mute" \in Faults \/ \A p \in Procs : proc[p] # "online"

\* fetch_status succeeds, with or without players online.
FetchOk ==
    /\ At(Mon, "tick")
    /\ Answers # {}
    /\ \E players \in {"empty", "busy"} :
          /\ poll' = players
          /\ quiet' = IF players = "busy" THEN 0 ELSE quiet
    /\ Goto(Mon, "apply")
    /\ UNCHANGED <<config, cellVars, timerVars, status, pid, rconVars, copied,
                   method, procVars, quit, up_time, rcon_age>>

\* fetch_status fails: a started server is tried with a ping next.
FetchFail ==
    /\ At(Mon, "tick")
    /\ NoAnswer
    /\ IF state = "Started"
       THEN Goto(Mon, "ping") /\ UNCHANGED poll
       ELSE Goto(Mon, "apply") /\ poll' = "error"
    /\ UNCHANGED <<config, cellVars, timerVars, status, pid, rconVars, copied,
                   method, procVars, quit, histVars>>

\* poll_server returns Err(()) whether do_ping succeeds or not; "pong" keeps
\* apart the poll whose ping was answered, and no action looks at it.
Ping ==
    /\ At(Mon, "ping")
    /\ \/ NoAnswer /\ poll' = "error"
       \/ Answers # {} /\ poll' = "pong"
    /\ Goto(Mon, "apply")
    /\ UNCHANGED <<config, cellVars, timerVars, status, pid, rconVars, copied,
                   method, procVars, quit, histVars>>

Reached == poll \in {"empty", "busy"}

-----------------------------------------------------------------------------
(* update_status: the state is read first and overwritten afterwards.      *)

ReadState ==
    /\ At(Mon, "apply")
    /\ Goto(Mon, CASE state \in {"Stopped", "Starting"} /\ Reached -> "to_started"
                   [] state = "Started" /\ ~Reached                -> "to_stopped"
                   [] OTHER                                        -> "store")
    /\ UNCHANGED <<config, cellVars, timerVars, status, pid, rconVars, copied,
                   poll, method, procVars, quit, histVars>>

ToStarted ==
    /\ At(Mon, "to_started")
    /\ Swap(Mon, "Started")
    /\ up_time' = 0 /\ quiet' = 0
    /\ Goto(Mon, "store")
    /\ UNCHANGED <<config, watch, ever_sent, unseen, timerVars, status, pid,
                   rconVars, copied, poll, method, procVars, quit, rcon_age>>

ToStopped ==
    /\ At(Mon, "to_stopped")
    /\ Swap(Mon, "Stopped")
    /\ Goto(Mon, "store")
    /\ UNCHANGED <<config, watch, ever_sent, unseen, timerVars, status, pid,
                   rconVars, copied, poll, method, procVars, quit, histVars>>

\* Mutant of StoreStatus: a failed poll is stored as well.
StoreAnything ==
    /\ At(Mon, "store")
    /\ status' = poll
    /\ last_active' = IF poll = "busy" THEN 0 ELSE last_active
    /\ poll' = "none"
    /\ Goto(Mon, "should_sleep")
    /\ UNCHANGED <<config, cellVars, kill_at, keep_online, pid, rconVars,
                   copied, method, procVars, quit, histVars>>

\* Mutant of StoreStatus: any answered poll counts as activity.
StoreActive ==
    /\ At(Mon, "store")
    /\ status' = IF Reached THEN poll ELSE status
    /\ last_active' = IF Reached THEN 0 ELSE last_active
    /\ poll' = "none"
    /\ Goto(Mon, "should_sleep")
    /\ UNCHANGED <<config, cellVars, kill_at, keep_online, pid, rconVars,
                   copied, method, procVars, quit, histVars>>

StoreStatus ==
    /\ At(Mon, "store")
    /\ status' = IF Reached THEN poll ELSE status
    /\ last_active' = IF poll = "busy" THEN 0 ELSE last_active
    /\ poll' = "none"
    /\ Goto(Mon, "should_sleep")
    /\ UNCHANGED <<config, cellVars, kill_at, keep_online, pid, rconVars,
                   copied, method, procVars, quit, histVars>>

-----------------------------------------------------------------------------
(* should_sleep and should_kill.                                           *)

IdleLongEnough ==
    /\ status # "busy"
    /\ keep_online = -1
    /\ last_active # -1 /\ last_active >= config.sleep_after

ShouldSleep ==
    /\ At(Mon, "should_sleep")
    /\ Goto(Mon, IF state = "Started" /\ IdleLongEnough
                 THEN "stop" ELSE "should_kill")
    /\ UNCHANGED <<config, cellVars, timerVars, status, pid, rconVars, copied,
                   poll, method, procVars, quit, histVars>>

ShouldKill ==
    /\ At(Mon, "should_kill")
    /\ Goto(Mon, IF kill_at = 0 THEN "force_kill" ELSE "tick")
    /\ UNCHANGED <<config, cellVars, timerVars, status, pid, rconVars, copied,
                   poll, method, procVars, quit, histVars>>

\* Mutant of ForceKill: SIGTERM, which a hung process may ignore.
ForceTerm ==
    /\ At(Mon, "force_kill")
    /\ IF pid = NoPid THEN UNCHANGED proc ELSE Signal(pid, SigTerm)
    /\ Goto(Mon, "tick")
    /\ UNCHANGED <<config, cellVars, timerVars, status, pid, rconVars, copied,
                   poll, method, crashed, quit, histVars>>

\* force_kill: the signal is sent under the pid lock.
ForceKill ==
    /\ At(Mon, "force_kill")
    /\ IF pid = NoPid THEN UNCHANGED proc ELSE Signal(pid, SigKill)
    /\ Goto(Mon, "tick")
    /\ UNCHANGED <<config, cellVars, timerVars, status, pid, rconVars, copied,
                   poll, method, crashed, quit, histVars>>

MonitorServer ==
    \/ FetchOk \/ FetchFail \/ Ping
    \/ ReadState \/ ToStarted \/ ToStopped \/ StoreStatus
    \/ ShouldSleep \/ ShouldKill \/ ForceKill
=============================================================================
