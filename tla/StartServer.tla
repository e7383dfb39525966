---------------------------- MODULE StartServer ----------------------------
(***************************************************************************)
(* Server::start, invoke_server_cmd and the Minecraft process it runs.     *)
(*                                                                         *)
(* The boot task (wake_on_start), every client that logs in and the task   *)
(* of a crashed process (wake_on_crash) call start; the compare-exchange   *)
(* decides who spawns.                                                     *)
(***************************************************************************)
EXTENDS StopServer

\* start has returned: a client goes on to be occupied, the others are done.
StartReturn(t) ==
    IF t \in Clients
    THEN Goto(t, "occupy") /\ method' = [method EXCEPT ![t] = 1]
    ELSE Goto(t, "idle") /\ UNCHANGED method

\* Mutant of StartWon: the outcome of the compare-exchange is not looked at.
StartAnyway(t) ==
    /\ At(t, "start")
    /\ CompareExchange(t, "Stopped", "Starting",
                       IF Freezes THEN "thaw.pid" ELSE "spawn")
    /\ UNCHANGED <<config, watch, ever_sent, unseen, timerVars, status, pid,
                   rconVars, copied, poll, method, procVars, quit, histVars>>

StartWon(t) ==
    /\ At(t, "start") /\ state = "Stopped"
    /\ CompareExchange(t, "Stopped", "Starting",
                       IF Freezes THEN "thaw.pid" ELSE "spawn")
    /\ UNCHANGED <<config, watch, ever_sent, unseen, timerVars, status, pid,
                   rconVars, copied, poll, method, procVars, quit, histVars>>

StartLost(t) ==
    /\ At(t, "start") /\ state # "Stopped"
    /\ StartReturn(t)
    /\ UNCHANGED <<config, cellVars, timerVars, status, pid, rconVars, copied,
                   poll, procVars, quit, histVars>>

ThawPid(t) ==
    /\ At(t, "thaw.pid")
    /\ CopyPid(t, "spawn", "thaw")
    /\ UNCHANGED <<config, cellVars, timerVars, status, pid, rconVars, poll,
                   method, procVars, quit, histVars>>

\* A failed SIGCONT is only logged: the server counts as starting.
Thaw(t) ==
    /\ At(t, "thaw")
    /\ Signal(copied[t], SigCont)
    /\ copied' = [copied EXCEPT ![t] = NoPid]
    /\ Goto(t, "thaw.stopping")
    /\ UNCHANGED <<config, cellVars, timerVars, status, pid, rconVars, poll,
                   method, crashed, quit, histVars>>

ThawStopping(t) ==
    /\ At(t, "thaw.stopping")
    /\ CompareExchange(t, "Stopping", "Starting", "thaw.stopped")
    /\ UNCHANGED <<config, watch, ever_sent, unseen, timerVars, status, pid,
                   rconVars, copied, poll, method, procVars, quit, histVars>>

ThawStopped(t) ==
    /\ At(t, "thaw.stopped")
    /\ CompareExchange(t, "Stopped", "Starting", "started")
    /\ UNCHANGED <<config, watch, ever_sent, unseen, timerVars, status, pid,
                   rconVars, copied, poll, method, procVars, quit, histVars>>

ThawReturn(t) ==
    /\ At(t, "started")
    /\ StartReturn(t)
    /\ UNCHANGED <<config, cellVars, timerVars, status, pid, rconVars, copied,
                   poll, procVars, quit, histVars>>

\* A slot whose last process, task and pid are all gone.
Unused(p) ==
    /\ At(p, "idle") /\ proc[p] = "none"
    /\ pid # p /\ \A t \in Tasks : copied[t] # p

\* tokio::spawn(invoke_server_cmd(..)): the new task runs later.
Spawn(t) ==
    /\ At(t, "spawn")
    /\ \E p \in Procs :
          /\ Unused(p)
          /\ IF t \in Clients
             THEN /\ pc' = [pc EXCEPT ![t] = "occupy", ![p] = "exec"]
                  /\ method' = [method EXCEPT ![t] = 1]
             ELSE /\ pc' = [pc EXCEPT ![t] = "idle", ![p] = "exec"]
                  /\ UNCHANGED method
    /\ UNCHANGED <<config, cellVars, timerVars, status, pid, rconVars, copied,
                   poll, procVars, quit, histVars>>

Start(t) ==
    \/ StartWon(t) \/ StartLost(t)
    \/ ThawPid(t) \/ Thaw(t) \/ ThawStopping(t) \/ ThawStopped(t) \/ ThawReturn(t)
    \/ Spawn(t)

-----------------------------------------------------------------------------
(* invoke_server_cmd: the task of process p.                               *)

Exec(p) ==
    /\ At(p, "exec")
    /\ Goto(p, "register")
    /\ proc' = [proc EXCEPT ![p] = "booting"]
    /\ UNCHANGED <<config, cellVars, timerVars, status, pid, rconVars, copied,
                   poll, method, crashed, quit, histVars>>

\* The error ends the task; nobody looks at its result.
ExecFail(p) ==
    /\ "spawnfail" \in Faults
    /\ At(p, "exec")
    /\ Goto(p, "idle")
    /\ UNCHANGED <<config, cellVars, timerVars, status, pid, rconVars, copied,
                   poll, method, procVars, quit, histVars>>

Register(p) ==
    /\ At(p, "register")
    /\ pid' = p
    /\ Goto(p, "wait")
    /\ UNCHANGED <<config, cellVars, timerVars, status, rconVars, copied, poll,
                   method, procVars, quit, histVars>>

\* child.wait(): an exit code that is not allowed, or death by a signal, is a
\* crash when the server counts as started.
Reap(p) ==
    /\ At(p, "wait") /\ proc[p] = "exited"
    /\ proc' = [proc EXCEPT ![p] = "none"]
    /\ \E bad \in BOOLEAN :
          crashed' = [crashed EXCEPT ![p] = bad /\ state = "Started"]
    /\ Goto(p, "take")
    /\ UNCHANGED <<config, cellVars, timerVars, status, pid, rconVars, copied,
                   poll, method, quit, histVars>>

\* Mutant of Take: the pid of the reaped process stays registered.
TakeNothing(p) ==
    /\ At(p, "take")
    /\ Goto(p, "cool")
    /\ UNCHANGED <<config, cellVars, timerVars, status, pid, rconVars, copied,
                   poll, method, procVars, quit, histVars>>

\* pid.take(), whosever pid it is by now.
Take(p) ==
    /\ At(p, "take")
    /\ pid' = NoPid
    /\ Goto(p, "cool")
    /\ UNCHANGED <<config, cellVars, timerVars, status, rconVars, copied, poll,
                   method, procVars, quit, histVars>>

\* After the cooldown the state is overwritten, whatever it was.
Cool(p) ==
    /\ At(p, "cool") /\ Settled
    /\ Swap(p, "Stopped")
    /\ Goto(p, IF crashed[p] /\ config.wake_on_crash THEN "start" ELSE "idle")
    /\ crashed' = [crashed EXCEPT ![p] = FALSE]
    /\ UNCHANGED <<config, watch, ever_sent, unseen, timerVars, status, pid,
                   rconVars, copied, poll, method, proc, quit, histVars>>

InvokeServerCmd(p) ==
    Exec(p) \/ ExecFail(p) \/ Register(p) \/ Reap(p) \/ Take(p) \/ Cool(p)

-----------------------------------------------------------------------------
(* The Minecraft server itself, which is not part of this repository.      *)

\* Booting takes longer than registering a pid.
Boots(p) ==
    /\ proc[p] = "booting"
    /\ pc[p] = "wait" \/ "stall" \in Faults
    /\ proc' = [proc EXCEPT ![p] = "online"]
    /\ UNCHANGED <<config, cellVars, timerVars, status, pid, rconVars, pc,
                   copied, poll, method, crashed, quit, histVars>>

Shuts(p) ==
    /\ proc[p] = "closing"
    /\ proc' = [proc EXCEPT ![p] = "exited"]
    /\ UNCHANGED <<config, cellVars, timerVars, status, pid, rconVars, pc,
                   copied, poll, method, crashed, quit, histVars>>

\* A crash, or the /stop command of a player in the game.
Ends(p) ==
    /\ "exit" \in Faults
    /\ \/ proc[p] \in {"booting", "online"} /\ Signal(p, SigKill)
       \/ proc[p] = "online" /\ Signal(p, SigTerm)
    /\ UNCHANGED <<config, cellVars, timerVars, status, pid, rconVars, pc,
                   copied, poll, method, crashed, quit, histVars>>

Minecraft(p) == Boots(p) \/ Shuts(p) \/ Ends(p)
=============================================================================
