----------------------------- MODULE StopServer -----------------------------
(***************************************************************************)
(* Server::stop and what it tries in turn: freezing the process, the RCON  *)
(* `stop` command, SIGTERM.  The monitor calls it when the server has been *)
(* idle, the ctrl-c handler when the operator asks.  Also the signals      *)
(* themselves, as os/mod.rs sends them.                                    *)
(***************************************************************************)
EXTENDS ServerCell

\* What each signal does to a process.  One that was reaped ("none") gets no
\* signal, and one that ended ("exited") ignores it.
SigStop(s) == CASE s \in {"booting", "online"} -> "frozen"
                [] s = "closing" -> "condemned"
                [] OTHER -> s

SigCont(s) == CASE s = "frozen" -> "booting"
                [] s = "condemned" -> "closing"
                [] OTHER -> s

SigTerm(s) == CASE s \in {"booting", "online"} -> "closing"
                [] s = "frozen" -> "condemned"
                [] OTHER -> s

SigKill(s) == IF s = "none" THEN s ELSE "exited"

Signal(p, Effect(_)) == proc' = [proc EXCEPT ![p] = Effect(proc[p])]

Freezes == config.unix /\ config.freeze_process

-----------------------------------------------------------------------------
\* What the two callers do with the answer of stop: the monitor ignores it,
\* the ctrl-c handler quits when there was no way to stop the server.
StopReturn(t, stopping) ==
    IF t = Mon
    THEN Goto(t, "should_kill") /\ UNCHANGED quit
    ELSE Goto(t, "idle") /\ quit' = ~stopping

\* Mutant of WithoutRcon: with RCON enabled there is no other way.
NothingWithoutRcon(t) ==
    IF config.unix /\ ~config.rcon THEN Goto(t, "term.pid") /\ UNCHANGED quit
                                   ELSE StopReturn(t, FALSE)

\* Past RCON: the signal on unix, nothing at all elsewhere.
WithoutRcon(t) ==
    IF config.unix THEN Goto(t, "term.pid") /\ UNCHANGED quit
                   ELSE StopReturn(t, FALSE)

\* The pid is copied out of the lock and used after it is released.
CopyPid(t, otherwise, label) ==
    IF pid = NoPid
    THEN Goto(t, otherwise) /\ UNCHANGED copied
    ELSE Goto(t, label) /\ copied' = [copied EXCEPT ![t] = pid]

FreezePid(t) ==
    /\ At(t, "stop") /\ Freezes
    /\ CopyPid(t, "stop.rcon", "freeze")
    /\ UNCHANGED <<config, cellVars, timerVars, status, pid, rconVars, poll,
                   method, procVars, quit, histVars>>

\* A failed SIGSTOP is only logged.
Freeze(t) ==
    /\ At(t, "freeze")
    /\ Signal(copied[t], SigStop)
    /\ copied' = [copied EXCEPT ![t] = NoPid]
    /\ Goto(t, "freeze.starting")
    /\ UNCHANGED <<config, cellVars, timerVars, status, pid, rconVars, poll,
                   method, crashed, quit, histVars>>

FreezeStarting(t) ==
    /\ At(t, "freeze.starting")
    /\ CompareExchange(t, "Starting", "Stopped", "freeze.started")
    /\ UNCHANGED <<config, watch, ever_sent, unseen, timerVars, status, pid,
                   rconVars, copied, poll, method, procVars, quit, histVars>>

FreezeStarted(t) ==
    /\ At(t, "freeze.started")
    /\ CompareExchange(t, "Started", "Stopped", "stopped")
    /\ UNCHANGED <<config, watch, ever_sent, unseen, timerVars, status, pid,
                   rconVars, copied, poll, method, procVars, quit, histVars>>

-----------------------------------------------------------------------------
(* RCON.                                                                   *)

ChooseRcon(t) ==
    /\ At(t, "stop.rcon") \/ (At(t, "stop") /\ ~Freezes)
    /\ IF state = "Started" /\ config.rcon
       THEN Goto(t, "rcon") /\ UNCHANGED quit
       ELSE WithoutRcon(t)
    /\ UNCHANGED <<config, cellVars, timerVars, status, pid, rconVars, copied,
                   poll, method, procVars, histVars>>

\* Mutant of RconAcquire: the cooldown is not looked at.
RconAcquireHot(t) ==
    /\ At(t, "rcon") /\ rcon_lock = "free"
    /\ rcon_lock' = t /\ Goto(t, "rcon.stop")
    /\ UNCHANGED <<config, cellVars, timerVars, status, pid, rcon_wait, copied,
                   poll, method, procVars, quit, histVars>>

\* The semaphore is kept only when the last `stop` has cooled down.
RconAcquire(t) ==
    /\ At(t, "rcon") /\ rcon_lock = "free"
    /\ IF rcon_wait = 0
       THEN rcon_lock' = t /\ Goto(t, "rcon.stop") /\ UNCHANGED quit
       ELSE WithoutRcon(t) /\ UNCHANGED rcon_lock
    /\ UNCHANGED <<config, cellVars, timerVars, status, pid, rcon_wait, copied,
                   poll, method, procVars, histVars>>

\* The command reaches whichever server has the RCON port, and is answered.
RconStop(t) ==
    /\ At(t, "rcon.stop")
    /\ \E p \in Procs : proc[p] = "online" /\ Signal(p, SigTerm)
    /\ rcon_age' = 0
    /\ Goto(t, "rcon.mark")
    /\ UNCHANGED <<config, cellVars, timerVars, status, pid, rconVars, copied,
                   poll, method, crashed, quit, up_time, quiet>>

\* It reaches the server, but the answer is lost: no cooldown, no new state.
RconLost(t) ==
    /\ "rconfail" \in Faults
    /\ At(t, "rcon.stop")
    /\ \E p \in Procs : proc[p] = "online" /\ Signal(p, SigTerm)
    /\ rcon_lock' = "free"
    /\ WithoutRcon(t)
    /\ UNCHANGED <<config, cellVars, timerVars, status, pid, rcon_wait, copied,
                   poll, method, crashed, histVars>>

\* No connection, or the command never arrives.
RconFail(t) ==
    /\ At(t, "rcon.stop")
    /\ "rconfail" \in Faults \/ \A p \in Procs : proc[p] # "online"
    /\ rcon_lock' = "free"
    /\ WithoutRcon(t)
    /\ UNCHANGED <<config, cellVars, timerVars, status, pid, rcon_wait, copied,
                   poll, method, procVars, histVars>>

\* The cooldown starts and the state is overwritten, whatever it was.
RconMark(t) ==
    /\ At(t, "rcon.mark")
    /\ rcon_wait' = RconCooldown
    /\ Swap(t, "Stopping")
    /\ Goto(t, "rcon.close")
    /\ UNCHANGED <<config, watch, ever_sent, unseen, timerVars, status, pid,
                   rcon_lock, copied, poll, method, procVars, quit, histVars>>

RconClose(t) ==
    /\ At(t, "rcon.close")
    /\ rcon_lock' = "free"
    /\ StopReturn(t, TRUE)
    /\ UNCHANGED <<config, cellVars, timerVars, status, pid, rcon_wait, copied,
                   poll, method, procVars, histVars>>

-----------------------------------------------------------------------------
(* SIGTERM.                                                                *)

TermPid(t) ==
    /\ At(t, "term.pid")
    /\ IF pid = NoPid
       THEN StopReturn(t, FALSE) /\ UNCHANGED copied
       ELSE /\ Goto(t, "term")
            /\ copied' = [copied EXCEPT ![t] = pid]
            /\ UNCHANGED quit
    /\ UNCHANGED <<config, cellVars, timerVars, status, pid, rconVars, poll,
                   method, procVars, histVars>>

\* kill_gracefully fails on a process that was reaped meanwhile.  The signal
\* goes out before the state says so.
Term(t) ==
    /\ At(t, "term")
    /\ Signal(copied[t], SigTerm)
    /\ IF proc[copied[t]] = "none"
       THEN StopReturn(t, FALSE)
       ELSE Goto(t, "term.starting") /\ UNCHANGED quit
    /\ copied' = [copied EXCEPT ![t] = NoPid]
    /\ UNCHANGED <<config, cellVars, timerVars, status, pid, rconVars, poll,
                   method, crashed, histVars>>

TermStarting(t) ==
    /\ At(t, "term.starting")
    /\ CompareExchange(t, "Starting", "Stopping", "term.started")
    /\ UNCHANGED <<config, watch, ever_sent, unseen, timerVars, status, pid,
                   rconVars, copied, poll, method, procVars, quit, histVars>>

\* Mutant of TermStarted: a started server is not marked as stopping.
TermStartedLost(t) ==
    /\ At(t, "term.started")
    /\ Goto(t, "stopped")
    /\ UNCHANGED <<config, cellVars, timerVars, status, pid, rconVars, copied,
                   poll, method, procVars, quit, histVars>>

TermStarted(t) ==
    /\ At(t, "term.started")
    /\ CompareExchange(t, "Started", "Stopping", "stopped")
    /\ UNCHANGED <<config, watch, ever_sent, unseen, timerVars, status, pid,
                   rconVars, copied, poll, method, procVars, quit, histVars>>

\* stop returns true once the last update has run to its end.
Stopped(t) ==
    /\ At(t, "stopped")
    /\ StopReturn(t, TRUE)
    /\ UNCHANGED <<config, cellVars, timerVars, status, pid, rconVars, copied,
                   poll, method, procVars, histVars>>

Stop(t) ==
    \/ FreezePid(t) \/ Freeze(t) \/ FreezeStarting(t) \/ FreezeStarted(t)
    \/ ChooseRcon(t)
    \/ RconAcquire(t) \/ RconStop(t) \/ RconLost(t) \/ RconFail(t)
    \/ RconMark(t) \/ RconClose(t)
    \/ TermPid(t) \/ Term(t) \/ TermStarting(t) \/ TermStarted(t)
    \/ Stopped(t)

-----------------------------------------------------------------------------
(* The ctrl-c handler: service/signal.rs.  A ctrl-c while it is inside     *)
(* stop is not listened for.                                               *)

CtrlC ==
    /\ "sigint" \in Faults
    /\ At(Sig, "idle")
    /\ IF state = "Stopped"
       THEN quit' = TRUE /\ UNCHANGED pc
       ELSE Goto(Sig, "stop") /\ UNCHANGED quit
    /\ UNCHANGED <<config, cellVars, timerVars, status, pid, rconVars, copied,
                   poll, method, procVars, histVars>>
=============================================================================
