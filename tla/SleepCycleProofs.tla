-------------------------- MODULE SleepCycleProofs --------------------------
(***************************************************************************)
(* What holds when nothing fails, for every number of clients and process  *)
(* slots and all settings: one process at a time, no stale deadline,       *)
(* nobody held for nothing, and the abstract sleep cycle.                  *)
(*                                                                         *)
(* They all rest on one inductive invariant, CycleInv: what the tasks and  *)
(* the process may be doing in each of the four states.                    *)
(***************************************************************************)
EXTENDS PlexPaperProofs, FiniteSetTheorems

(***************************************************************************)
(* Nothing fails but, perhaps, a spawn.  Config::runtime sets sleep_after  *)
(* to five minutes.                                                        *)
(***************************************************************************)
NothingFails ==
    /\ Faults \subseteq {"spawnfail"}
    /\ \A cfg \in Configs : cfg.sleep_after > 0

\* A starter that won the compare-exchange, before and after it sends SIGCONT.
Thawed    == {"thaw.stopping", "thaw.stopped", "started"}
Committed == {"spawn", "thaw.pid", "thaw"} \cup Thawed

\* A process task, from spawn to the end of its cooldown.
RunLabels == {"exec", "register", "wait", "take", "cool"}

\* The monitor inside stop: before the state is changed, and of these, after
\* the process was frozen, or told to stop.
StopsStarted == StopLabels \ {"rcon.close", "stopped"}
JustFrozen   == {"freeze.starting", "freeze.started"}
JustTold     == {"rcon.mark", "term.starting", "term.started"}

\* t is inside an update to s.
Pending(t, s) == upd[t].at # "idle" /\ upd[t].new = s

-----------------------------------------------------------------------------
\* Nobody but the monitor stops the server.
Undisturbed == pc[Sig] = "idle" /\ Free(Sig)

\* At most one task has won the right to start the server, at most one
\* process task is unfinished, ...
OneStarter ==
    \A t, u \in Starters : pc[t] \in Committed /\ pc[u] \in Committed => t = u

OneRun == \A p, q \in Procs : pc[p] \in RunLabels /\ pc[q] \in RunLabels => p = q

\* ... and what the latter is at fits its process and the registered pid.
RunShape ==
    \A p \in Procs :
        /\ pc[p] = "register" => proc[p] = "booting"
        /\ pc[p] = "wait" => proc[p] # "none"
        /\ pc[p] \notin {"register", "wait"} => proc[p] = "none"
        /\ pc[p] \in {"wait", "take"} => pid = p
        /\ proc[p] # "condemned"

\* Whoever is starting the server finds either no process, or a frozen one.
StarterPhase ==
    \A t \in Starters :
        /\ pc[t] = "spawn" =>
              state = "Starting" /\ \A p \in Procs : pc[p] \notin RunLabels
        /\ pc[t] = "thaw.pid" =>
              /\ state = "Starting"
              /\ \A p \in Procs : pc[p] \in RunLabels => proc[p] = "frozen"
        /\ pc[t] = "thaw" =>
              /\ state = "Starting"
              /\ copied[t] \in Procs /\ proc[copied[t]] = "frozen"
        /\ pc[t] \in Thawed =>
              /\ state = "Starting" \/ (state = "Started" /\ up_time = 0)
              /\ \E p \in Procs : pc[p] \in Attending

\* A process is frozen only while the server sleeps, from the signal on and
\* until somebody who wakes it sends the other signal.
FrozenPhase ==
    \A p \in Procs : proc[p] = "frozen" =>
        /\ Freezes
        /\ kill_at # 0 /\ pc[Mon] # "force_kill"
        /\ \/ state = "Stopped"
           \/ /\ state = "Starting"
              /\ \E t \in Starters : pc[t] \in {"thaw.pid", "thaw"}
           \/ state = "Started" /\ pc[Mon] \in JustFrozen

\* Nobody but a stop under way makes a server close.
ClosingPhase ==
    \A p \in Procs : proc[p] = "closing" =>
        \/ state = "Stopping"
        \/ state = "Started" /\ pc[Mon] \in JustTold

\* Asleep: no process, but for a frozen one.  Started: it is online, unless
\* the monitor has just told it otherwise.
StatePhase ==
    /\ state = "Stopped" =>
          \A p \in Procs : pc[p] \in RunLabels => proc[p] = "frozen"
    /\ state = "Started" /\ pc[Mon] \notin JustFrozen \cup JustTold =>
          \E p \in Procs : proc[p] = "online"
    /\ state = "Started" /\ pc[Mon] \in JustFrozen =>
          \E p \in Procs : proc[p] = "frozen"
    /\ state \in {"Started", "Stopping"} => \E p \in Procs : pc[p] \in Attending

\* What the monitor read is still true when it acts on it.
MonitorPhase ==
    /\ pc[Mon] \notin {"ping", "to_stopped"}
    /\ pc[Mon] = "apply" =>
          IF Reached
          THEN /\ state # "Stopped"
               /\ state = "Starting" => \E p \in Procs : proc[p] = "online"
          ELSE state # "Started"
    /\ pc[Mon] = "to_started" =>
          state = "Starting" /\ \E p \in Procs : proc[p] = "online"
    /\ pc[Mon] \in StopsStarted => state = "Started" /\ up_time > 0
    /\ pc[Mon] \in {"freeze"} \cup JustFrozen => Freezes
    /\ pc[Mon] \in {"freeze", "term"} =>
          copied[Mon] \in Procs /\ proc[copied[Mon]] = "online"
    /\ pc[Mon] = "force_kill" => state # "Started"

\* An update under way is to the present state, or to "Stopped".
UpdatePhase ==
    \A t \in Tasks :
        /\ Pending(t, "Starting") =>
              state = "Starting" /\ t \in Starters /\ pc[t] \in {"spawn", "thaw.pid"}
        /\ Pending(t, "Started")  => state = "Started" /\ t = Mon
        /\ Pending(t, "Stopping") => state = "Stopping" /\ t = Mon

\* A deadline in a state that has none is about to be cleared.
DeadlinePhase ==
    /\ state = "Started" /\ kill_at # -1 => Pending(Mon, "Started")
    /\ state = "Stopped" /\ kill_at # -1 => \E t \in Tasks : Pending(t, "Stopped")

\* Receivers that were told "Starting" too late are about to be told more.
WatchPhase ==
    watch = "Starting" /\ state # "Starting" =>
        \E t \in Tasks : upd[t].at = "send" /\ upd[t].new # "Starting"

CycleInv ==
    /\ Undisturbed /\ OneStarter /\ OneRun /\ RunShape
    /\ StarterPhase /\ FrozenPhase /\ ClosingPhase /\ StatePhase
    /\ MonitorPhase /\ UpdatePhase /\ DeadlinePhase /\ WatchPhase

-----------------------------------------------------------------------------
LEMMA CycleSend ==
    ASSUME TypeOK, CycleInv, NEW t \in Tasks, Send(t)
    PROVE  CycleInv'
<1> USE TaskNames DEF TypeOK, Send, Updates, timerVars, procVars, histVars, Pending
<1>1. Undisturbed' /\ OneStarter' /\ OneRun' /\ RunShape' /\ StarterPhase'
    BY DEF CycleInv, Undisturbed, OneStarter, OneRun, RunShape, StarterPhase, Free
<1>2. FrozenPhase' /\ ClosingPhase' /\ StatePhase' /\ MonitorPhase'
    BY DEF CycleInv, FrozenPhase, ClosingPhase, StatePhase, MonitorPhase, Reached, Freezes
<1>3. UpdatePhase' /\ DeadlinePhase'
    BY DEF CycleInv, UpdatePhase, DeadlinePhase
<1>4. WatchPhase'
    BY DEF CycleInv, UpdatePhase, WatchPhase
<1> QED
    BY <1>1, <1>2, <1>3, <1>4 DEF CycleInv

LEMMA CycleArm ==
    ASSUME TypeOK, CycleInv, NEW t \in Tasks, Arm(t)
    PROVE  CycleInv'
<1> USE TaskNames DEF TypeOK, Arm, Updates, NoUpdate, procVars, histVars, Pending
<1>1. Undisturbed' /\ OneStarter' /\ OneRun' /\ RunShape' /\ StarterPhase'
    BY DEF CycleInv, Undisturbed, OneStarter, OneRun, RunShape, StarterPhase, Free
<1>2. ClosingPhase' /\ StatePhase' /\ MonitorPhase'
    BY DEF CycleInv, ClosingPhase, StatePhase, MonitorPhase, Reached, Freezes
<1>3. FrozenPhase'
    BY DEF CycleInv, FrozenPhase, DeadlineOf, Deadline, Freezes
<1>4. UpdatePhase' /\ DeadlinePhase'
    BY DEF CycleInv, UpdatePhase, DeadlinePhase, DeadlineOf, Deadline
<1>5. WatchPhase'
    BY DEF CycleInv, UpdatePhase, WatchPhase
<1> QED
    BY <1>1, <1>2, <1>3, <1>4, <1>5 DEF CycleInv

\* A step that moves starters only among labels the invariant does not
\* mention, or out of a finished start, and leaves the server alone.
Idling == Labels \ (RunLabels \cup Committed)

LEMMA CycleQuiet ==
    ASSUME TypeOK, CycleInv,
           UNCHANGED <<config, state, watch, upd, kill_at, pid, proc, copied,
                       poll, up_time>>,
           pc' \in [Tasks -> Labels],
           \A t \in Tasks :
              \/ pc'[t] = pc[t]
              \/ t \in Starters /\ pc[t] \in Idling \cup {"started"} /\ pc'[t] \in Idling
    PROVE  CycleInv'
<1> USE TaskNames DEF Idling, RunLabels, Committed, Thawed, Attending
<1>1. Undisturbed' /\ OneStarter' /\ OneRun'
    BY DEF CycleInv, Undisturbed, OneStarter, OneRun, Free
<1>2. RunShape' /\ StarterPhase'
    BY DEF CycleInv, RunShape, StarterPhase
<1>3. FrozenPhase' /\ ClosingPhase' /\ StatePhase' /\ MonitorPhase'
    BY DEF CycleInv, FrozenPhase, ClosingPhase, StatePhase, MonitorPhase, Reached, Freezes
<1>4. UpdatePhase' /\ DeadlinePhase' /\ WatchPhase'
    BY DEF CycleInv, UpdatePhase, DeadlinePhase, WatchPhase, Pending
<1> QED
    BY <1>1, <1>2, <1>3, <1>4 DEF CycleInv

LEMMA CycleJoin ==
    ASSUME TypeOK, CycleInv, NEW c \in Clients, Join(c)
    PROVE  CycleInv'
<1>1. TypeOK'
    BY JoinType
<1>2. /\ Free(c) /\ pc[c] \in JoinLabels
      /\ \/ UNCHANGED pc
         \/ \E l \in JoinLabels \cup {"start"} : Goto(c, l)
      /\ UNCHANGED <<config, state, watch, upd, pid, poll, up_time>>
    BY JoinSummary DEF MonitorOwn
<1>3. UNCHANGED <<kill_at, proc, copied>>
    BY DEF Join, Route, Dismiss, TryHold, Subscribe, HoldLonger, HoldReady,
           HoldGivesUp, HoldTimeout, timerVars, procVars
<1>4. \A t \in Tasks :
         \/ pc'[t] = pc[t]
         \/ t \in Starters /\ pc[t] \in Idling \cup {"started"} /\ pc'[t] \in Idling
    BY <1>2, TaskNames DEF TypeOK, Goto, Idling, Labels, JoinLabels, RunLabels,
                           Committed, Thawed
<1> QED
    BY <1>1, <1>2, <1>3, <1>4, CycleQuiet DEF TypeOK

LEMMA CycleTick ==
    ASSUME TypeOK, CycleInv, NothingFails, Tick
    PROVE  CycleInv'
<1> USE TaskNames
<1>1. \A t \in Tasks : Free(t) /\ pc[t] \in Waits
    BY DEF Tick, Settled, NothingFails
<1>2. UNCHANGED <<config, state, watch, upd, pid, proc, copied, poll, pc>>
    BY DEF Tick, cellVars, procVars
<1>3. kill_at = -1 => kill_at' = -1
    BY DEF Tick, Nearer
<1>4. up_time > 0 => up_time' > 0
    BY DEF Tick, Older, TypeOK
<1>5. Undisturbed' /\ OneStarter' /\ OneRun' /\ RunShape'
    BY <1>2 DEF CycleInv, Undisturbed, OneStarter, OneRun, RunShape, Free
<1>6. StarterPhase'
    BY <1>1, <1>2 DEF CycleInv, StarterPhase, Thawed, Waits
<1>7. ClosingPhase' /\ StatePhase' /\ MonitorPhase' /\ UpdatePhase' /\ WatchPhase'
    BY <1>2, <1>4 DEF CycleInv, ClosingPhase, StatePhase, MonitorPhase, UpdatePhase,
                WatchPhase, Reached, Freezes, Pending
<1>8. DeadlinePhase'
    BY <1>1, <1>2, <1>3 DEF CycleInv, DeadlinePhase, Pending, Free
<1>9. FrozenPhase'
    BY <1>1, <1>2, <1>3 DEF CycleInv, FrozenPhase, DeadlinePhase, Pending, Free,
           Waits, JustFrozen, Freezes
<1> QED
    BY <1>5, <1>6, <1>7, <1>8, <1>9 DEF CycleInv

LEMMA CycleMinecraft ==
    ASSUME TypeOK, CycleInv, NothingFails, NEW p \in Procs, Minecraft(p)
    PROVE  CycleInv'
<1> USE TaskNames DEF TypeOK
<1>1. UNCHANGED <<config, state, watch, upd, kill_at, pid, copied, poll, pc, up_time>>
    BY DEF Minecraft, Boots, Shuts, Ends, cellVars, timerVars, histVars
<1>2. \/ proc[p] = "booting" /\ pc[p] = "wait" /\ proc' = [proc EXCEPT ![p] = "online"]
      \/ proc[p] = "closing" /\ proc' = [proc EXCEPT ![p] = "exited"]
    BY DEF Minecraft, Boots, Shuts, Ends, NothingFails
<1>3. Undisturbed' /\ OneStarter' /\ OneRun' /\ RunShape'
    BY <1>1, <1>2 DEF CycleInv, Undisturbed, OneStarter, OneRun, RunShape, Free
<1>4. StarterPhase'
    BY <1>1, <1>2 DEF CycleInv, StarterPhase
<1>5. FrozenPhase' /\ ClosingPhase'
    BY <1>1, <1>2 DEF CycleInv, FrozenPhase, ClosingPhase, Freezes
<1>6. StatePhase'
    BY <1>1, <1>2 DEF CycleInv, StatePhase
<1>7. MonitorPhase'
    BY <1>1, <1>2 DEF CycleInv, MonitorPhase, Reached, Freezes
<1>8. UpdatePhase' /\ DeadlinePhase' /\ WatchPhase'
    BY <1>1 DEF CycleInv, UpdatePhase, DeadlinePhase, WatchPhase, Pending
<1> QED
    BY <1>3, <1>4, <1>5, <1>6, <1>7, <1>8 DEF CycleInv

-----------------------------------------------------------------------------
(* Server::start.                                                          *)

LEMMA CycleStartWon ==
    ASSUME TypeOK, CycleInv, NEW t \in Starters, StartWon(t)
    PROVE  CycleInv'
<1> USE TaskNames DEF TypeOK, At, Free
<1>1. /\ state = "Stopped" /\ state' = "Starting"
      /\ upd' = [upd EXCEPT ![t] = [at |-> "send", new |-> "Starting"]]
      /\ pc' = [pc EXCEPT ![t] = IF Freezes THEN "thaw.pid" ELSE "spawn"]
      /\ UNCHANGED <<config, watch, kill_at, pid, copied, proc, poll, up_time>>
      /\ pc[t] = "start" /\ upd[t].at = "idle"
    BY DEF StartWon, CompareExchange, Swap, Goto, timerVars, procVars, histVars
<1>2. \A u \in Starters : pc[u] \notin Committed
    BY <1>1 DEF CycleInv, StarterPhase, Committed, Thawed
<1>3. \A p \in Procs : pc[p] \in RunLabels => proc[p] = "frozen" /\ Freezes
    BY <1>1 DEF CycleInv, StatePhase, FrozenPhase
<1>4. Undisturbed' /\ OneStarter' /\ OneRun' /\ RunShape'
    BY <1>1, <1>2 DEF CycleInv, Undisturbed, OneStarter, OneRun, RunShape,
                      Committed, Thawed, RunLabels
<1>5. StarterPhase'
    BY <1>1, <1>2, <1>3 DEF StarterPhase, Committed, Thawed, RunLabels
<1>6. FrozenPhase' /\ ClosingPhase' /\ StatePhase' /\ MonitorPhase'
    BY <1>1, <1>3 DEF CycleInv, FrozenPhase, ClosingPhase, StatePhase, MonitorPhase,
           RunShape, RunLabels, Reached, Freezes, StopsStarted, JustFrozen, JustTold, StopLabels
<1>7. UpdatePhase' /\ DeadlinePhase' /\ WatchPhase'
    BY <1>1 DEF CycleInv, UpdatePhase, DeadlinePhase, WatchPhase, Pending
<1> QED
    BY <1>4, <1>5, <1>6, <1>7 DEF CycleInv

LEMMA CycleSpawn ==
    ASSUME TypeOK, CycleInv, NEW t \in Starters, Spawn(t)
    PROVE  CycleInv'
<1> USE TaskNames DEF TypeOK, At, Free
<1>1. PICK q \in Procs :
         /\ Unused(q)
         /\ \E l \in {"occupy", "idle"} :
               pc' = [pc EXCEPT ![t] = l, ![q] = "exec"]
    BY DEF Spawn
<1>2. /\ pc[t] = "spawn" /\ upd[t].at = "idle"
      /\ pc[q] = "idle" /\ proc[q] = "none" /\ upd[q].at = "idle"
      /\ UNCHANGED <<config, state, watch, upd, kill_at, pid, copied, proc,
                     poll, up_time>>
    BY <1>1 DEF Spawn, Unused, cellVars, timerVars, procVars, histVars
<1>3. /\ state = "Starting"
      /\ \A p \in Procs : pc[p] \notin RunLabels /\ proc[p] = "none"
      /\ \A u \in Starters : u # t => pc[u] \notin Committed
    BY <1>2 DEF CycleInv, StarterPhase, OneStarter, RunShape, RunLabels, Committed
<1>4. Undisturbed' /\ OneStarter' /\ OneRun' /\ RunShape'
    BY <1>1, <1>2, <1>3
       DEF CycleInv, Undisturbed, OneStarter, OneRun, RunShape, Committed, Thawed, RunLabels
<1>5. StarterPhase'
    BY <1>1, <1>2, <1>3 DEF StarterPhase, Committed, Thawed
<1>6. FrozenPhase' /\ ClosingPhase' /\ StatePhase' /\ MonitorPhase'
    BY <1>1, <1>2, <1>3 DEF CycleInv, FrozenPhase, ClosingPhase, StatePhase,
           MonitorPhase, Reached, Freezes
<1>7. UpdatePhase' /\ DeadlinePhase' /\ WatchPhase'
    BY <1>1, <1>2 DEF CycleInv, UpdatePhase, DeadlinePhase, WatchPhase, Pending
<1> QED
    BY <1>4, <1>5, <1>6, <1>7 DEF CycleInv

LEMMA CycleThaw ==
    ASSUME TypeOK, CycleInv, PidOwned, NEW t \in Starters,
           ThawPid(t) \/ Thaw(t) \/ ThawStopping(t) \/ ThawStopped(t)
    PROVE  CycleInv'
<1> USE TaskNames, NoPidIsNoProc
    DEF TypeOK, At, Free, Goto, timerVars, procVars, histVars, cellVars
<1>0. \A u \in Starters : u # t => pc[u] \notin Committed
    BY DEF CycleInv, OneStarter, Committed, Thawed, ThawPid, Thaw, ThawStopping, ThawStopped
<1>1. CASE ThawPid(t)
    <2>1. /\ state = "Starting" /\ pc[t] = "thaw.pid" /\ upd[t].at = "idle"
          /\ UNCHANGED <<config, state, watch, upd, kill_at, pid, proc, poll, up_time>>
          /\ \A p \in Procs : pc[p] \in RunLabels => proc[p] = "frozen"
        BY <1>1 DEF ThawPid, CycleInv, StarterPhase
    <2>2. \/ /\ pc' = [pc EXCEPT ![t] = "spawn"] /\ UNCHANGED copied
             /\ \A p \in Procs : pc[p] \notin RunLabels
          \/ /\ pc' = [pc EXCEPT ![t] = "thaw"]
             /\ copied' = [copied EXCEPT ![t] = pid]
             /\ pid \in Procs /\ proc[pid] = "frozen"
        BY <1>1, <2>1 DEF ThawPid, CopyPid, CycleInv, RunShape, PidOwned, RunLabels
    <2>3. Undisturbed' /\ OneStarter' /\ OneRun' /\ RunShape'
        BY <1>0, <2>1, <2>2 DEF CycleInv, Undisturbed, OneStarter, OneRun, RunShape,
                                Committed, Thawed, RunLabels
    <2>4. StarterPhase'
        BY <1>0, <2>1, <2>2 DEF StarterPhase, Committed, Thawed, RunLabels
    <2>5. FrozenPhase' /\ ClosingPhase' /\ StatePhase' /\ MonitorPhase'
        BY <2>1, <2>2 DEF CycleInv, FrozenPhase, ClosingPhase, StatePhase,
           MonitorPhase, RunShape, RunLabels, Reached, Freezes
    <2>6. UpdatePhase' /\ DeadlinePhase' /\ WatchPhase'
        BY <2>1, <2>2 DEF CycleInv, UpdatePhase, DeadlinePhase, WatchPhase, Pending
    <2> QED
        BY <2>3, <2>4, <2>5, <2>6 DEF CycleInv
<1>2. CASE Thaw(t)
    <2> DEFINE p == copied[t]
    <2>1. /\ state = "Starting" /\ pc[t] = "thaw" /\ upd[t].at = "idle"
          /\ p \in Procs /\ proc[p] = "frozen" /\ pc[p] = "wait"
          /\ UNCHANGED <<config, state, watch, upd, kill_at, pid, poll, up_time>>
          /\ proc' = [proc EXCEPT ![p] = "booting"]
          /\ pc' = [pc EXCEPT ![t] = "thaw.stopping"]
          /\ copied' = [copied EXCEPT ![t] = NoPid]
        BY <1>2 DEF Thaw, CycleInv, StarterPhase, RunShape, Signal, SigCont
    <2>2. \A q \in Procs : pc[q] \in RunLabels => q = p
        BY <2>1 DEF CycleInv, OneRun, RunLabels
    <2>3. Undisturbed' /\ OneStarter' /\ OneRun' /\ RunShape'
        BY <1>0, <2>1 DEF CycleInv, Undisturbed, OneStarter, OneRun, RunShape,
                                Committed, Thawed, RunLabels
    <2>4. StarterPhase'
        BY <1>0, <2>1 DEF StarterPhase, Committed, Thawed, RunLabels, Attending
    <2>5. FrozenPhase' /\ ClosingPhase' /\ StatePhase' /\ MonitorPhase'
        BY <2>1, <2>2 DEF CycleInv, FrozenPhase, ClosingPhase, StatePhase,
           MonitorPhase, RunShape, RunLabels, Reached, Freezes, StopsStarted, StopLabels
    <2>6. UpdatePhase' /\ DeadlinePhase' /\ WatchPhase'
        BY <2>1 DEF CycleInv, UpdatePhase, DeadlinePhase, WatchPhase, Pending
    <2> QED
        BY <2>3, <2>4, <2>5, <2>6 DEF CycleInv
<1>3. CASE ThawStopping(t) \/ ThawStopped(t)
    <2>1. /\ state \in {"Starting", "Started"} /\ pc[t] \in Thawed /\ upd[t].at = "idle"
          /\ state = "Started" => up_time = 0
          /\ \E p \in Procs : pc[p] \in Attending
        BY <1>3 DEF ThawStopping, ThawStopped, CycleInv, StarterPhase, Thawed
    <2>2. /\ UNCHANGED <<config, state, watch, upd, kill_at, pid, poll, up_time,
                         copied, proc>>
          /\ \E l \in Thawed : pc' = [pc EXCEPT ![t] = l]
        BY <1>3, <2>1 DEF ThawStopping, ThawStopped, CompareExchange, Thawed
    <2>3. Undisturbed' /\ OneStarter' /\ OneRun' /\ RunShape'
        BY <1>0, <2>1, <2>2 DEF CycleInv, Undisturbed, OneStarter, OneRun, RunShape,
                                Committed, Thawed, RunLabels
    <2>4. StarterPhase'
        BY <1>0, <2>1, <2>2 DEF StarterPhase, Committed, Thawed, RunLabels, Attending
    <2>5. FrozenPhase' /\ ClosingPhase' /\ StatePhase' /\ MonitorPhase'
        BY <2>1, <2>2 DEF CycleInv, FrozenPhase, ClosingPhase, StatePhase,
           MonitorPhase, RunShape, RunLabels, Reached, Freezes, Thawed, Attending
    <2>6. UpdatePhase' /\ DeadlinePhase' /\ WatchPhase'
        BY <2>1, <2>2 DEF CycleInv, UpdatePhase, DeadlinePhase, WatchPhase, Pending, Thawed
    <2> QED
        BY <2>3, <2>4, <2>5, <2>6 DEF CycleInv
<1> QED
    BY <1>1, <1>2, <1>3

LEMMA CycleStart ==
    ASSUME TypeOK, CycleInv, PidOwned, NEW t \in Starters, Start(t)
    PROVE  CycleInv'
<1>1. CASE StartLost(t) \/ ThawReturn(t)
    <2>1. TypeOK'
        BY StartType
    <2>2. UNCHANGED <<config, state, watch, upd, kill_at, pid, proc, copied,
                       poll, up_time>>
        BY <1>1 DEF StartLost, ThawReturn, cellVars, timerVars, procVars, histVars
    <2>3. pc[t] \in {"start", "started"} /\ \E l \in {"occupy", "idle"} : Goto(t, l)
        BY <1>1 DEF StartLost, ThawReturn, StartReturn, At
    <2>4. \A u \in Tasks :
             \/ pc'[u] = pc[u]
             \/ u \in Starters /\ pc[u] \in Idling \cup {"started"} /\ pc'[u] \in Idling
        BY <2>3, TaskNames DEF TypeOK, Goto, Idling, Labels, RunLabels, Committed, Thawed
    <2> QED
        BY <2>1, <2>2, <2>4, CycleQuiet DEF TypeOK
<1> QED
    BY <1>1, CycleStartWon, CycleSpawn, CycleThaw DEF Start

-----------------------------------------------------------------------------
(* The process tasks.                                                      *)

LEMMA CycleServerCmd ==
    ASSUME TypeOK, CycleInv, NothingFails, NEW p \in Procs, InvokeServerCmd(p)
    PROVE  CycleInv'
<1> USE TaskNames, NoPidIsNoProc DEF TypeOK, At, Free, Goto
<1>0. \A q \in Procs : q # p => pc[q] \notin RunLabels /\ proc[q] = "none"
    BY DEF CycleInv, OneRun, RunShape, RunLabels, InvokeServerCmd, Exec, ExecFail,
           Register, Reap, Take, Cool
<1>1. ASSUME UNCHANGED <<config, state, watch, upd, kill_at, copied, poll, up_time>>,
             NEW l \in Labels \ (Committed \cup {"start"}), pc' = [pc EXCEPT ![p] = l],
             pc[p] \in RunLabels,
             pc[p] \in Attending \/ l \in Attending => l \in Attending
      PROVE  /\ Undisturbed' /\ OneStarter' /\ OneRun'
             /\ UpdatePhase' /\ DeadlinePhase' /\ WatchPhase'
    BY <1>0, <1>1 DEF CycleInv, Undisturbed, OneStarter, OneRun, UpdatePhase, DeadlinePhase,
           WatchPhase, Pending, Committed, Thawed, RunLabels
<1>2. CASE Exec(p)
    <2>1. /\ pc[p] = "exec" /\ pc' = [pc EXCEPT ![p] = "register"]
          /\ proc[p] = "none" /\ proc' = [proc EXCEPT ![p] = "booting"]
          /\ UNCHANGED <<config, state, watch, upd, kill_at, pid, copied, poll, up_time>>
        BY <1>2 DEF Exec, CycleInv, RunShape, cellVars, timerVars, histVars
    <2>2. RunShape' /\ StarterPhase'
        BY <1>0, <2>1 DEF CycleInv, RunShape, StarterPhase, Thawed, RunLabels, Attending
    <2>3. FrozenPhase' /\ ClosingPhase' /\ StatePhase' /\ MonitorPhase'
        BY <1>0, <2>1 DEF CycleInv, FrozenPhase, ClosingPhase, StatePhase,
           MonitorPhase, RunShape, RunLabels, Reached, Freezes, Attending
    <2> QED
        BY <1>1, <2>1, <2>2, <2>3 DEF CycleInv, Labels, Committed, Thawed, RunLabels, Attending
<1>3. CASE ExecFail(p)
    <2>1. /\ pc[p] = "exec" /\ pc' = [pc EXCEPT ![p] = "idle"]
          /\ proc[p] = "none"
          /\ UNCHANGED <<config, state, watch, upd, kill_at, pid, copied, poll, up_time, proc>>
        BY <1>3 DEF ExecFail, CycleInv, RunShape, cellVars, timerVars, histVars, procVars
    <2>2. RunShape' /\ StarterPhase'
        BY <1>0, <2>1 DEF CycleInv, RunShape, StarterPhase, Thawed, RunLabels, Attending
    <2>3. FrozenPhase' /\ ClosingPhase' /\ StatePhase' /\ MonitorPhase'
        BY <1>0, <2>1 DEF CycleInv, FrozenPhase, ClosingPhase, StatePhase,
           MonitorPhase, RunShape, RunLabels, Reached, Freezes, Attending
    <2> QED
        BY <1>1, <2>1, <2>2, <2>3 DEF CycleInv, Labels, Committed, Thawed, RunLabels, Attending
<1>4. CASE Register(p)
    <2>1. /\ pc[p] = "register" /\ pc' = [pc EXCEPT ![p] = "wait"]
          /\ proc[p] = "booting" /\ pid' = p
          /\ UNCHANGED <<config, state, watch, upd, kill_at, copied, poll, up_time, proc>>
        BY <1>4 DEF Register, CycleInv, RunShape, cellVars, timerVars, histVars, procVars
    <2>2. RunShape' /\ StarterPhase'
        BY <1>0, <2>1 DEF CycleInv, RunShape, StarterPhase, Thawed, RunLabels, Attending
    <2>3. FrozenPhase' /\ ClosingPhase' /\ StatePhase' /\ MonitorPhase'
        BY <1>0, <2>1 DEF CycleInv, FrozenPhase, ClosingPhase, StatePhase,
           MonitorPhase, RunShape, RunLabels, Reached, Freezes, Attending
    <2> QED
        BY <1>1, <2>1, <2>2, <2>3 DEF CycleInv, Labels, Committed, Thawed, RunLabels, Attending
<1>5. CASE Reap(p)
    <2>1. /\ pc[p] = "wait" /\ pc' = [pc EXCEPT ![p] = "take"]
          /\ proc[p] = "exited" /\ proc' = [proc EXCEPT ![p] = "none"]
          /\ UNCHANGED <<config, state, watch, upd, kill_at, pid, copied, poll, up_time>>
        BY <1>5 DEF Reap, CycleInv, RunShape, cellVars, timerVars, histVars, procVars
    <2>2. RunShape' /\ StarterPhase'
        BY <1>0, <2>1 DEF CycleInv, RunShape, StarterPhase, Thawed, RunLabels, Attending
    <2>3. FrozenPhase' /\ ClosingPhase' /\ StatePhase' /\ MonitorPhase'
        BY <1>0, <2>1 DEF CycleInv, FrozenPhase, ClosingPhase, StatePhase,
           MonitorPhase, RunShape, RunLabels, Reached, Freezes, Attending
    <2> QED
        BY <1>1, <2>1, <2>2, <2>3 DEF CycleInv, Labels, Committed, Thawed, RunLabels, Attending
<1>6. CASE Take(p)
    <2>1. /\ pc[p] = "take" /\ pc' = [pc EXCEPT ![p] = "cool"]
          /\ proc[p] = "none" /\ pid' = NoPid
          /\ UNCHANGED <<config, state, watch, upd, kill_at, copied, poll, up_time, proc>>
        BY <1>6 DEF Take, CycleInv, RunShape, cellVars, timerVars, histVars, procVars
    <2>2. RunShape' /\ StarterPhase'
        BY <1>0, <2>1 DEF CycleInv, RunShape, StarterPhase, Thawed, RunLabels, Attending
    <2>3. FrozenPhase' /\ ClosingPhase' /\ StatePhase' /\ MonitorPhase'
        BY <1>0, <2>1 DEF CycleInv, FrozenPhase, ClosingPhase, StatePhase,
           MonitorPhase, RunShape, RunLabels, Reached, Freezes, Attending
    <2> QED
        BY <1>1, <2>1, <2>2, <2>3 DEF CycleInv, Labels, Committed, Thawed, RunLabels, Attending
<1>7. CASE Cool(p)
    <2>1. /\ pc[p] = "cool" /\ proc[p] = "none"
          /\ \E l \in {"start", "idle"} : pc' = [pc EXCEPT ![p] = l]
          /\ state' = "Stopped"
          /\ \A t \in Tasks : Free(t) /\ pc[t] \in Waits
          /\ UNCHANGED <<config, watch, kill_at, pid, copied, poll, up_time, proc>>
        BY <1>7 DEF Cool, Settled, NothingFails, Swap, CycleInv, RunShape,
                    timerVars, histVars, procVars
    <2>2. /\ pc[Mon] \notin JustFrozen \cup JustTold
          /\ \A t \in Starters : pc[t] \notin Committed
          /\ \A q \in Procs : proc[q] = "none"
        BY <1>0, <2>1 DEF CycleInv, StarterPhase, Committed, Thawed, RunLabels, Waits,
                    JustFrozen, JustTold
    <2>3. state \in {"Starting", "Stopping"}
        BY <2>1, <2>2 DEF CycleInv, StatePhase, RunLabels, States
    <2>4. upd' = [upd EXCEPT ![p] = [at |-> "send", new |-> "Stopped"]]
        BY <1>7, <2>3 DEF Cool, Swap
    <2>5. Undisturbed' /\ OneStarter' /\ OneRun' /\ RunShape' /\ StarterPhase'
        BY <1>0, <2>1, <2>2, <2>4 DEF CycleInv, Undisturbed, OneStarter, OneRun, RunShape,
              StarterPhase, Committed, Thawed, RunLabels
    <2>6. FrozenPhase' /\ ClosingPhase' /\ StatePhase'
        BY <1>0, <2>1, <2>2 DEF FrozenPhase, ClosingPhase, StatePhase, RunLabels
    <2>7. MonitorPhase'
        BY <2>1, <2>3 DEF CycleInv, MonitorPhase, Waits, StopsStarted, StopLabels, JustFrozen
    <2>8. UpdatePhase' /\ DeadlinePhase' /\ WatchPhase'
        BY <2>1, <2>4 DEF UpdatePhase, DeadlinePhase, WatchPhase, Pending
    <2> QED
        BY <2>5, <2>6, <2>7, <2>8 DEF CycleInv
<1> QED
    BY <1>2, <1>3, <1>4, <1>5, <1>6, <1>7 DEF InvokeServerCmd

-----------------------------------------------------------------------------
(* The monitor.  Where only it moves, the clauses that say where it is are *)
(* all there is to show.                                                   *)

LEMMA CycleMonitorMoves ==
    ASSUME TypeOK, CycleInv,
           UNCHANGED <<config, state, watch, upd, kill_at, pid, proc>>,
           up_time' = up_time,
           \A t \in Tasks : t # Mon => copied'[t] = copied[t],
           NEW l \in Labels, pc' = [pc EXCEPT ![Mon] = l],
           pc[Mon] \in JustFrozen \/ l \in JustFrozen => pc[Mon] \in JustFrozen /\ l \in JustFrozen,
           pc[Mon] \in JustTold \/ l \in JustTold => pc[Mon] \in JustTold /\ l \in JustTold,
           l = "force_kill" => kill_at = 0,
           MonitorPhase'
    PROVE  CycleInv'
<1> USE TaskNames DEF TypeOK
<1>1. Undisturbed' /\ OneStarter' /\ OneRun' /\ RunShape' /\ StarterPhase'
    BY DEF CycleInv, Undisturbed, OneStarter, OneRun, RunShape, StarterPhase, Free
<1>2. FrozenPhase' /\ ClosingPhase' /\ StatePhase'
    BY DEF CycleInv, FrozenPhase, ClosingPhase, StatePhase, Freezes
<1>3. UpdatePhase' /\ DeadlinePhase' /\ WatchPhase'
    BY DEF CycleInv, UpdatePhase, DeadlinePhase, WatchPhase, Pending
<1> QED
    BY <1>1, <1>2, <1>3 DEF CycleInv

LEMMA CycleMonitor ==
    ASSUME TypeOK, CycleInv, PidOwned, SleepsOnlyWhenIdle', NothingFails, MonitorServer
    PROVE  CycleInv'
<1> USE TaskNames DEF TypeOK, At, Free, Goto, timerVars, histVars, cellVars, procVars,
        JustFrozen, JustTold, Labels, StopsStarted, StopLabels
<1>1. CASE FetchOk
    <2>1. PICK p \in Procs : proc[p] \in {"online", "closing"}
        BY <1>1 DEF FetchOk, Answers
    <2>2. /\ pc[Mon] = "tick" /\ Reached'
          /\ pc' = [pc EXCEPT ![Mon] = "apply"]
          /\ UNCHANGED <<config, state, watch, upd, kill_at, pid, proc, up_time, copied>>
        BY <1>1 DEF FetchOk, Reached
    <2>3. state # "Stopped" /\ (state = "Starting" => proc[p] = "online")
        BY <2>1, <2>2 DEF CycleInv, StatePhase, ClosingPhase, RunShape, RunLabels
    <2>4. MonitorPhase'
        BY <2>2, <2>3 DEF MonitorPhase
    <2> QED
        BY <2>2, <2>4, CycleMonitorMoves
<1>2. CASE FetchFail
    <2>1. /\ pc[Mon] = "tick" /\ \A p \in Procs : proc[p] # "online"
        BY <1>2 DEF FetchFail, NoAnswer, NothingFails
    <2>2. state # "Started"
        BY <2>1 DEF CycleInv, StatePhase
    <2>3. /\ poll' = "error" /\ ~Reached'
          /\ pc' = [pc EXCEPT ![Mon] = "apply"]
          /\ UNCHANGED <<config, state, watch, upd, kill_at, pid, proc, up_time, copied>>
        BY <1>2, <2>2 DEF FetchFail, Reached
    <2>4. MonitorPhase'
        BY <2>2, <2>3 DEF MonitorPhase
    <2> QED
        BY <2>1, <2>3, <2>4, CycleMonitorMoves
<1>3. CASE Ping \/ ToStopped
    BY <1>3 DEF Ping, ToStopped, CycleInv, MonitorPhase
<1>4. CASE ReadState
    <2>1. PICK l \in {"to_started", "to_stopped", "store"} :
             /\ pc[Mon] = "apply" /\ pc' = [pc EXCEPT ![Mon] = l]
             /\ l = "to_started" => state \in {"Stopped", "Starting"} /\ Reached
             /\ l = "to_stopped" => state = "Started" /\ ~Reached
             /\ UNCHANGED <<config, state, watch, upd, kill_at, pid, proc, up_time, copied>>
        BY <1>4 DEF ReadState
    <2>2. MonitorPhase'
        BY <2>1 DEF CycleInv, MonitorPhase
    <2> QED
        BY <2>1, <2>2, CycleMonitorMoves
<1>5. CASE ToStarted
    <2>1. PICK p \in Procs : proc[p] = "online"
        BY <1>5 DEF ToStarted, CycleInv, MonitorPhase
    <2>2. /\ pc[Mon] = "to_started" /\ state = "Starting" /\ state' = "Started"
          /\ pc' = [pc EXCEPT ![Mon] = "store"] /\ up_time' = 0
          /\ upd[Mon].at = "idle"
          /\ upd' = [upd EXCEPT ![Mon] = [at |-> "send", new |-> "Started"]]
          /\ UNCHANGED <<config, watch, kill_at, pid, proc, copied>>
        BY <1>5 DEF ToStarted, Swap, CycleInv, MonitorPhase
    <2>3. /\ pc[p] = "wait"
          /\ \A q \in Procs : pc[q] \in RunLabels => q = p
          /\ \A q \in Procs : proc[q] # "none" => q = p
        BY <2>1 DEF CycleInv, RunShape, OneRun, RunLabels
    <2>4. \A t \in Starters : pc[t] \notin {"spawn", "thaw.pid", "thaw"}
        BY <2>1, <2>3 DEF CycleInv, StarterPhase, RunLabels
    <2>5. Undisturbed' /\ OneStarter' /\ OneRun' /\ RunShape'
        BY <2>2 DEF CycleInv, Undisturbed, OneStarter, OneRun, RunShape
    <2>6. StarterPhase'
        BY <2>2, <2>4 DEF CycleInv, StarterPhase
    <2>7. FrozenPhase' /\ ClosingPhase' /\ StatePhase'
        BY <2>1, <2>2, <2>3 DEF CycleInv, FrozenPhase, ClosingPhase, StatePhase, Attending
    <2>8. MonitorPhase'
        BY <2>2 DEF MonitorPhase
    <2>9. UpdatePhase' /\ DeadlinePhase' /\ WatchPhase'
        BY <2>2, <2>4 DEF CycleInv, UpdatePhase, DeadlinePhase, WatchPhase, Pending
    <2> QED
        BY <2>5, <2>6, <2>7, <2>8, <2>9 DEF CycleInv
<1>6. CASE StoreStatus
    <2>1. /\ pc[Mon] = "store" /\ pc' = [pc EXCEPT ![Mon] = "should_sleep"]
          /\ UNCHANGED <<config, state, watch, upd, kill_at, pid, proc, up_time, copied>>
        BY <1>6 DEF StoreStatus
    <2>2. MonitorPhase'
        BY <2>1 DEF MonitorPhase
    <2> QED
        BY <2>1, <2>2, CycleMonitorMoves
<1>7. CASE ShouldSleep
    <2>1. PICK l \in {"stop", "should_kill"} :
             /\ pc[Mon] = "should_sleep" /\ pc' = [pc EXCEPT ![Mon] = l]
             /\ l = "stop" => state = "Started"
             /\ UNCHANGED <<config, state, watch, upd, kill_at, pid, proc, up_time, copied>>
        BY <1>7 DEF ShouldSleep
    <2>2. l = "stop" => up_time > 0
        <3>1. config.sleep_after > 0 /\ config.sleep_after \in Nat
            BY ConfigTyped DEF NothingFails, ConfigType
        <3>2. l = "stop" => up_time >= config.sleep_after
            BY <2>1 DEF SleepsOnlyWhenIdle
        <3> QED
            BY <3>1, <3>2
    <2>3. MonitorPhase'
        BY <2>1, <2>2 DEF MonitorPhase
    <2> QED
        BY <2>1, <2>3, CycleMonitorMoves
<1>8. CASE ShouldKill
    <2>1. PICK l \in {"force_kill", "tick"} :
             /\ pc[Mon] = "should_kill" /\ pc' = [pc EXCEPT ![Mon] = l]
             /\ l = "force_kill" => kill_at = 0
             /\ upd[Mon].at = "idle"
             /\ UNCHANGED <<config, state, watch, upd, kill_at, pid, proc, up_time, copied>>
        BY <1>8 DEF ShouldKill
    <2>2. MonitorPhase'
        BY <2>1 DEF CycleInv, MonitorPhase, DeadlinePhase, Pending
    <2> QED
        BY <2>1, <2>2, CycleMonitorMoves
<1>9. CASE ForceKill
    <2>0. /\ pc[Mon] = "force_kill" /\ pc' = [pc EXCEPT ![Mon] = "tick"]
          /\ IF pid = NoPid THEN proc' = proc
             ELSE proc' = [proc EXCEPT ![pid] = IF proc[pid] = "none" THEN "none" ELSE "exited"]
          /\ UNCHANGED <<config, state, watch, upd, kill_at, pid, up_time, copied>>
        BY <1>9 DEF ForceKill, Signal, SigKill
    <2>1. \A q \in Procs : proc[q] # "frozen"
        BY <2>0 DEF CycleInv, FrozenPhase, Freezes
    <2>2. ASSUME NEW q \in Procs
          PROVE  \/ proc'[q] = proc[q]
                 \/ q = pid /\ proc[q] # "none" /\ proc'[q] = "exited"
        BY <2>0
    <2>3. state # "Started"
        BY <2>0 DEF CycleInv, MonitorPhase
    <2>4. Undisturbed' /\ OneStarter' /\ OneRun' /\ RunShape' /\ StarterPhase'
        BY <2>0, <2>1, <2>2, NoPidIsNoProc
           DEF CycleInv, PidOwned, Undisturbed, OneStarter, OneRun, RunShape, StarterPhase
    <2>5. FrozenPhase' /\ ClosingPhase' /\ StatePhase'
        BY <2>0, <2>1, <2>2, <2>3 DEF CycleInv, FrozenPhase, ClosingPhase, StatePhase,
            RunShape, Freezes, RunLabels
    <2>6. MonitorPhase'
        BY <2>0, <2>1, <2>2 DEF MonitorPhase
    <2>7. UpdatePhase' /\ DeadlinePhase' /\ WatchPhase'
        BY <2>0, <2>1, <2>2 DEF CycleInv, UpdatePhase, DeadlinePhase, WatchPhase, Pending
    <2> QED
        BY <2>4, <2>5, <2>6, <2>7 DEF CycleInv
<1> QED
    BY <1>1, <1>2, <1>3, <1>4, <1>5, <1>6, <1>7, <1>8, <1>9 DEF MonitorServer

-----------------------------------------------------------------------------
(* Server::stop, called by the monitor.                                    *)

\* A stop that has not yet changed anything finds one process, online.
LEMMA StopFindsOnline ==
    ASSUME TypeOK, CycleInv, pc[Mon] \in StopsStarted \ (JustFrozen \cup JustTold)
    PROVE  /\ state = "Started" /\ up_time > 0
           /\ \E p \in Procs :
                 /\ proc[p] = "online" /\ pc[p] = "wait" /\ pid = p
                 /\ \A q \in Procs : q # p => pc[q] \notin RunLabels /\ proc[q] = "none"
<1> USE TaskNames DEF TypeOK
<1>1. state = "Started" /\ up_time > 0
    BY DEF CycleInv, MonitorPhase
<1>2. PICK p \in Procs : proc[p] = "online"
    BY <1>1 DEF CycleInv, StatePhase
<1>3. pc[p] = "wait" /\ pid = p
    BY <1>2 DEF CycleInv, RunShape
<1>4. \A q \in Procs : q # p => pc[q] \notin RunLabels /\ proc[q] = "none"
    BY <1>3 DEF CycleInv, OneRun, RunShape, RunLabels
<1> QED
    BY <1>1, <1>2, <1>3, <1>4

\* A stop that changes the state: no start is under way any more.
LEMMA CycleStopSets ==
    ASSUME TypeOK, CycleInv, pc[Mon] \in JustFrozen \cup JustTold, Free(Mon),
           NEW s \in {"Stopped", "Stopping"},
           s = "Stopped" <=> pc[Mon] \in JustFrozen,
           state' = s, upd' = [upd EXCEPT ![Mon] = [at |-> "send", new |-> s]],
           pc' = [pc EXCEPT ![Mon] = IF pc[Mon] = "rcon.mark" THEN "rcon.close" ELSE "stopped"],
           UNCHANGED <<config, watch, kill_at, pid, proc, up_time, copied>>
    PROVE  CycleInv'
<1> USE TaskNames DEF TypeOK, Free, JustFrozen, JustTold, StopsStarted, StopLabels
<1>1. state = "Started" /\ up_time > 0
    BY DEF CycleInv, MonitorPhase
<1>2. kill_at = -1 /\ \A t \in Tasks : Pending(t, "Stopped") \/ ~(upd[t].at # "idle")
    BY <1>1 DEF CycleInv, DeadlinePhase, UpdatePhase, Pending, Updates, States
<1>3. PICK p \in Procs : pc[p] \in Attending
    BY <1>1 DEF CycleInv, StatePhase
<1>4. \A q \in Procs : pc[q] \in RunLabels => q = p
    BY <1>3 DEF CycleInv, OneRun, RunLabels, Attending
<1>5. \A t \in Starters : pc[t] \notin Committed
    BY <1>1 DEF CycleInv, StarterPhase, Committed
<1>6. pc[Mon] \in JustFrozen => proc[p] = "frozen"
    BY <1>1, <1>4 DEF CycleInv, StatePhase, RunShape, RunLabels
<1>7. pc[Mon] \in JustTold => proc[p] # "frozen"
    BY <1>1 DEF CycleInv, FrozenPhase
<1>8. Undisturbed' /\ OneStarter' /\ OneRun' /\ RunShape' /\ StarterPhase'
    BY <1>5 DEF CycleInv, Undisturbed, OneStarter, OneRun, RunShape, StarterPhase,
                Committed, Thawed
<1>9. FrozenPhase' /\ ClosingPhase' /\ StatePhase'
    BY <1>1, <1>3, <1>4, <1>6, <1>7 DEF CycleInv, FrozenPhase, ClosingPhase, StatePhase, Freezes,
                RunShape, RunLabels
<1>10. MonitorPhase'
    BY DEF MonitorPhase
<1>11. UpdatePhase' /\ DeadlinePhase' /\ WatchPhase'
    BY <1>1, <1>2 DEF CycleInv, UpdatePhase, DeadlinePhase, WatchPhase, Pending, Updates
<1> QED
    BY <1>8, <1>9, <1>10, <1>11 DEF CycleInv

LEMMA CycleStop ==
    ASSUME TypeOK, CycleInv, PidOwned, NothingFails, NEW t \in Stoppers, Stop(t)
    PROVE  CycleInv'
<1> USE TaskNames, NoPidIsNoProc
    DEF TypeOK, At, Free, Goto, timerVars, histVars, cellVars, procVars, rconVars,
        JustFrozen, JustTold, Labels, StopsStarted, StopLabels
<1>0. t = Mon
    BY StopSummary DEF CycleInv, Undisturbed, Moves, Stoppers
<1> DEFINE OnlyMoves(l) ==
              /\ pc' = [pc EXCEPT ![Mon] = l]
              /\ UNCHANGED <<config, state, watch, upd, kill_at, pid, proc, up_time>>
<1>1. CASE FreezePid(t)
    <2>1. /\ pc[Mon] = "stop" /\ Freezes
          /\ OnlyMoves("freeze") /\ copied' = [copied EXCEPT ![Mon] = pid]
        BY <1>0, <1>1, StopFindsOnline DEF FreezePid, CopyPid
    <2>2. MonitorPhase'
        BY <2>1, StopFindsOnline DEF MonitorPhase, Freezes
    <2> QED
        BY <2>1, <2>2, CycleMonitorMoves
<1>2. CASE Freeze(t)
    <2>1. PICK p \in Procs :
             /\ proc[p] = "online" /\ pc[p] = "wait" /\ copied[Mon] = p
             /\ \A q \in Procs : q # p => pc[q] \notin RunLabels /\ proc[q] = "none"
        BY <1>0, <1>2, StopFindsOnline DEF Freeze, CycleInv, MonitorPhase
    <2>2. /\ pc[Mon] = "freeze" /\ pc' = [pc EXCEPT ![Mon] = "freeze.starting"]
          /\ upd[Mon].at = "idle"
          /\ proc' = [proc EXCEPT ![p] = "frozen"]
          /\ copied' = [copied EXCEPT ![Mon] = NoPid]
          /\ UNCHANGED <<config, state, watch, upd, kill_at, pid, up_time>>
        BY <1>0, <1>2, <2>1 DEF Freeze, Signal, SigStop
    <2>3. state = "Started" /\ up_time > 0 /\ kill_at = -1 /\ Freezes
        BY <2>2 DEF CycleInv, MonitorPhase, DeadlinePhase, Pending
    <2>4. Undisturbed' /\ OneStarter' /\ OneRun' /\ RunShape' /\ StarterPhase'
        BY <2>1, <2>2, <2>3 DEF CycleInv, Undisturbed, OneStarter, OneRun, RunShape, StarterPhase
    <2>5. FrozenPhase' /\ ClosingPhase' /\ StatePhase'
        BY <2>1, <2>2, <2>3 DEF CycleInv, FrozenPhase, ClosingPhase, StatePhase, Freezes, Attending
    <2>6. MonitorPhase'
        BY <2>2, <2>3 DEF MonitorPhase, Freezes
    <2>7. UpdatePhase' /\ DeadlinePhase' /\ WatchPhase'
        BY <2>2 DEF CycleInv, UpdatePhase, DeadlinePhase, WatchPhase, Pending
    <2> QED
        BY <2>4, <2>5, <2>6, <2>7 DEF CycleInv
<1>3. CASE FreezeStarting(t)
    <2>1. /\ pc[Mon] = "freeze.starting" /\ OnlyMoves("freeze.started")
          /\ UNCHANGED copied
        BY <1>0, <1>3 DEF FreezeStarting, CompareExchange, CycleInv, MonitorPhase
    <2>2. MonitorPhase'
        BY <2>1 DEF CycleInv, MonitorPhase, Freezes
    <2> QED
        BY <2>1, <2>2, CycleMonitorMoves
<1>4. CASE FreezeStarted(t)
    BY <1>0, <1>4, CycleStopSets DEF FreezeStarted, CompareExchange, Swap, CycleInv, MonitorPhase
<1>5. CASE ChooseRcon(t) \/ RconAcquire(t) \/ TermPid(t)
    <2>1. /\ pc[Mon] \in {"stop", "stop.rcon", "rcon", "term.pid"}
          /\ \E l \in {"rcon", "rcon.stop", "term.pid", "should_kill", "term"} :
                /\ OnlyMoves(l)
                /\ l = "term" => copied'[Mon] = pid
          /\ \A u \in Tasks : u # Mon => copied'[u] = copied[u]
        BY <1>0, <1>5, StopFindsOnline
           DEF ChooseRcon, RconAcquire, TermPid, WithoutRcon, StopReturn
    <2>2. MonitorPhase'
        BY <2>1, StopFindsOnline DEF MonitorPhase
    <2> QED
        BY <2>1, <2>2, CycleMonitorMoves
<1>6. CASE RconStop(t) \/ Term(t)
    <2>1. PICK p \in Procs :
             /\ proc[p] = "online" /\ pc[p] = "wait"
             /\ \A q \in Procs : q # p => pc[q] \notin RunLabels /\ proc[q] = "none"
        BY <1>0, <1>6, StopFindsOnline DEF RconStop, Term
    <2>2. /\ pc[Mon] \in {"rcon.stop", "term"} /\ upd[Mon].at = "idle"
          /\ \E l \in {"rcon.mark", "term.starting"} : pc' = [pc EXCEPT ![Mon] = l]
          /\ proc' = [proc EXCEPT ![p] = "closing"]
          /\ \A u \in Tasks : u # Mon => copied'[u] = copied[u]
          /\ UNCHANGED <<config, state, watch, upd, kill_at, pid, up_time>>
        BY <1>0, <1>6, <2>1 DEF RconStop, Term, Signal, SigTerm, CycleInv, MonitorPhase
    <2>3. state = "Started" /\ up_time > 0
        BY <2>2 DEF CycleInv, MonitorPhase
    <2>4. Undisturbed' /\ OneStarter' /\ OneRun' /\ RunShape' /\ StarterPhase'
        BY <2>1, <2>2, <2>3 DEF CycleInv, Undisturbed, OneStarter, OneRun, RunShape, StarterPhase
    <2>5. FrozenPhase' /\ ClosingPhase' /\ StatePhase'
        BY <2>1, <2>2, <2>3 DEF CycleInv, FrozenPhase, ClosingPhase, StatePhase, Freezes, Attending
    <2>6. MonitorPhase'
        BY <2>2, <2>3 DEF MonitorPhase
    <2>7. UpdatePhase' /\ DeadlinePhase' /\ WatchPhase'
        BY <2>2 DEF CycleInv, UpdatePhase, DeadlinePhase, WatchPhase, Pending
    <2> QED
        BY <2>4, <2>5, <2>6, <2>7 DEF CycleInv
<1>7. CASE RconLost(t) \/ RconFail(t)
    BY <1>0, <1>7, StopFindsOnline DEF RconLost, RconFail, NothingFails
<1>8. CASE RconMark(t)
    BY <1>0, <1>8, CycleStopSets DEF RconMark, Swap, CycleInv, MonitorPhase
<1>9. CASE RconClose(t) \/ Stopped(t)
    <2>1. /\ pc[Mon] \in {"rcon.close", "stopped"} /\ OnlyMoves("should_kill")
          /\ UNCHANGED copied
        BY <1>0, <1>9 DEF RconClose, Stopped, StopReturn
    <2>2. MonitorPhase'
        BY <2>1 DEF MonitorPhase
    <2> QED
        BY <2>1, <2>2, CycleMonitorMoves
<1>10. CASE TermStarting(t)
    <2>1. /\ pc[Mon] = "term.starting" /\ OnlyMoves("term.started")
          /\ UNCHANGED copied
        BY <1>0, <1>10 DEF TermStarting, CompareExchange, CycleInv, MonitorPhase
    <2>2. MonitorPhase'
        BY <2>1 DEF CycleInv, MonitorPhase
    <2> QED
        BY <2>1, <2>2, CycleMonitorMoves
<1>11. CASE TermStarted(t)
    BY <1>0, <1>11, CycleStopSets DEF TermStarted, CompareExchange, Swap, CycleInv, MonitorPhase
<1> QED
    BY <1>1, <1>2, <1>3, <1>4, <1>5, <1>6, <1>7, <1>8, <1>9, <1>10, <1>11 DEF Stop

-----------------------------------------------------------------------------
LEMMA CycleInit == Init /\ NothingFails => CycleInv
<1> SUFFICES ASSUME Init PROVE CycleInv
    OBVIOUS
<1> USE TaskNames DEF Init, NoUpdate
<1>1. /\ pc[Mon] = "tick" /\ pc[Sig] = "idle"
      /\ \A t \in Starters : pc[t] \in {"idle", "start"}
      /\ \A p \in Procs : pc[p] = "idle"
    BY DEF Mon, Sig, Boot
<1>2. Undisturbed /\ OneStarter /\ OneRun /\ RunShape /\ StarterPhase
    BY <1>1 DEF Undisturbed, OneStarter, OneRun, RunShape, StarterPhase, Free,
                Committed, Thawed, RunLabels
<1>3. FrozenPhase /\ ClosingPhase /\ StatePhase /\ MonitorPhase
    BY <1>1 DEF FrozenPhase, ClosingPhase, StatePhase, MonitorPhase, RunLabels,
                StopsStarted, StopLabels, JustFrozen
<1>4. UpdatePhase /\ DeadlinePhase /\ WatchPhase
    BY DEF UpdatePhase, DeadlinePhase, WatchPhase, Pending
<1> QED
    BY <1>2, <1>3, <1>4 DEF CycleInv

LEMMA CycleStep ==
    ASSUME NothingFails
    PROVE  TypeOK /\ PidOwned /\ SleepsOnlyWhenIdle' /\ CycleInv /\ [Next]_vars => CycleInv'
<1> SUFFICES ASSUME TypeOK, PidOwned, SleepsOnlyWhenIdle', CycleInv, [Next]_vars
             PROVE  CycleInv'
    OBVIOUS
<1>1. ASSUME NEW t \in Tasks, Send(t) \/ Arm(t) PROVE CycleInv'
    BY <1>1, CycleSend, CycleArm
<1>2. CASE MonitorServer
    BY <1>2, CycleMonitor
<1>3. ASSUME NEW t \in Stoppers, Stop(t) PROVE CycleInv'
    BY <1>3, CycleStop
<1>4. ASSUME NEW t \in Starters, Start(t) PROVE CycleInv'
    BY <1>4, CycleStart
<1>5. ASSUME NEW p \in Procs, InvokeServerCmd(p) PROVE CycleInv'
    BY <1>5, CycleServerCmd
<1>6. ASSUME NEW c \in Clients, Join(c) PROVE CycleInv'
    BY <1>6, CycleJoin
<1>7. CASE Tick
    BY <1>7, CycleTick
<1>8. CASE CtrlC
    BY <1>8 DEF CtrlC, NothingFails
<1>9. ASSUME NEW p \in Procs, Minecraft(p) PROVE CycleInv'
    BY <1>9, CycleMinecraft
<1>10. CASE UNCHANGED vars
    BY <1>10, CycleQuiet DEF vars, cellVars, timerVars, procVars, histVars, TypeOK
<1> QED
    BY <1>1, <1>2, <1>3, <1>4, <1>5, <1>6, <1>7, <1>8, <1>9, <1>10
       DEF Next, Run, Environment

LEMMA SingleProcessFollows == RunShape /\ OneRun => SingleProcess
<1> SUFFICES ASSUME RunShape, OneRun PROVE SingleProcess
    OBVIOUS
<1> DEFINE Running == {p \in Procs : proc[p] \notin {"none", "exited"}}
<1>1. \A p, q \in Running : p = q
    BY DEF RunShape, OneRun, RunLabels
<1>2. Running = {} \/ \E p \in Procs : Running = {p}
    BY <1>1
<1>3. Cardinality(Running) \in {0, 1}
    BY <1>2, FS_EmptySet, FS_Singleton
<1> QED
    BY <1>3 DEF SingleProcess

LEMMA NoStaleDeadlineFollows == TypeOK /\ DeadlinePhase => NoStaleDeadline
BY TaskNames DEF TypeOK, States, DeadlinePhase, NoStaleDeadline, Quiescent, Free, Pending

LEMMA HeldIsWaitingFollows == NoLostWakeup /\ WatchPhase => HeldIsWaiting
BY DEF NoLostWakeup, WatchPhase, HeldIsWaiting, Quiescent, Free

\* What each of the four states means, whatever the settings, for any number
\* of clients and process slots, as long as nothing but a spawn fails.
LEMMA CycleInvariant == ASSUME NothingFails PROVE Spec => []CycleInv
<1>1. Init => CycleInv
    BY CycleInit
<1>2. TypeOK /\ PidOwned /\ SleepsOnlyWhenIdle' /\ CycleInv /\ [Next]_vars => CycleInv'
    BY CycleStep
<1> QED
    BY <1>1, <1>2, TypeCorrect, PidOwnership, SleepsWhenIdle, PTL DEF Spec

\* However many tasks start, stop and reap the server, two of its processes never
\* run at once, as long as no kill, RCON command or process of its own accord
\* gets in the way; a spawn may fail (Server::start, invoke_server_cmd).
THEOREM OneProcessAtATime == ASSUME NothingFails PROVE Spec => []SingleProcess
<1>1. CycleInv => SingleProcess
    BY SingleProcessFollows DEF CycleInv
<1> QED
    BY <1>1, CycleInvariant, PTL

\* Once every update has run to its end, a kill deadline is armed only while the
\* server starts or stops, under the same hypothesis (update_state_from).
THEOREM DeadlinesAreCurrent == ASSUME NothingFails PROVE Spec => []NoStaleDeadline
<1>1. TypeOK /\ CycleInv => NoStaleDeadline
    BY NoStaleDeadlineFollows DEF CycleInv
<1> QED
    BY <1>1, CycleInvariant, TypeCorrect, PTL

\* Once every update has run to its end, a held client waits for a start that is
\* under way or is about to be woken, under the same hypothesis (join/hold.rs).
THEOREM NobodyHeldForNothing == ASSUME NothingFails PROVE Spec => []HeldIsWaiting
<1>1. NoLostWakeup /\ CycleInv => HeldIsWaiting
    BY HeldIsWaitingFollows DEF CycleInv
<1> QED
    BY <1>1, CycleInvariant, NoWakeupIsLost, PTL

-----------------------------------------------------------------------------
(* The refinement.  When spawns do not fail either, a start under way has  *)
(* a starter or a process task, so that `live` of SleepCycle says no more  *)
(* than that the state is not "Stopped"; what is left is to show that the  *)
(* state changes only along the cycle.                                     *)

NothingAtAllFails == NothingFails /\ Faults = {}

StartIsLive ==
    state = "Starting" =>
        \/ \E t \in Starters : pc[t] \in Committed
        \/ \E p \in Procs : pc[p] \in RunLabels

\* Steps after which whoever was committed or unfinished still is.
LEMMA LiveKept ==
    ASSUME StartIsLive, state' = "Starting" => state = "Starting",
           \A t \in Starters : pc[t] \in Committed => pc'[t] \in Committed,
           \A p \in Procs : pc[p] \in RunLabels => pc'[p] \in RunLabels
    PROVE  StartIsLive'
BY DEF StartIsLive

LEMMA LiveStart ==
    ASSUME TypeOK, CycleInv, StartIsLive, NEW t \in Starters, Start(t)
    PROVE  StartIsLive'
<1> USE TaskNames DEF TypeOK, At, Goto, Committed, Thawed, RunLabels
<1>1. CASE StartWon(t)
    BY <1>1 DEF StartWon, CompareExchange, StartIsLive
<1>2. CASE StartLost(t)
    <2>1. pc[t] = "start" /\ state' = state /\ \E l \in Labels : Goto(t, l)
        BY <1>2 DEF StartLost, StartReturn, cellVars, Labels
    <2> QED
        BY <2>1, LiveKept
<1>3. CASE ThawPid(t) \/ Thaw(t) \/ ThawStopping(t) \/ ThawStopped(t)
    <2>1. pc[t] \in Committed /\ \E l \in Committed : Goto(t, l)
        BY <1>3 DEF ThawPid, Thaw, ThawStopping, ThawStopped, CompareExchange, CopyPid
    <2> QED
        BY <2>1 DEF StartIsLive
<1>4. CASE ThawReturn(t)
    <2>1. PICK p \in Procs : pc[p] \in Attending
        BY <1>4 DEF ThawReturn, CycleInv, StarterPhase
    <2>2. pc[t] = "started" /\ \E l \in Labels : Goto(t, l)
        BY <1>4 DEF ThawReturn, StartReturn, Labels
    <2>3. pc'[p] = pc[p]
        BY <2>1, <2>2 DEF Attending
    <2> QED
        BY <2>1, <2>3 DEF StartIsLive, Attending
<1>5. CASE Spawn(t)
    BY <1>5 DEF Spawn, StartIsLive
<1> QED
    BY <1>1, <1>2, <1>3, <1>4, <1>5 DEF Start

LEMMA LiveStep ==
    ASSUME NothingAtAllFails
    PROVE  TypeOK /\ CycleInv /\ StartIsLive /\ [Next]_vars => StartIsLive'
<1> SUFFICES ASSUME TypeOK, CycleInv, StartIsLive, [Next]_vars PROVE StartIsLive'
    OBVIOUS
<1> USE TaskNames DEF TypeOK, Committed, Thawed, RunLabels
<1>0. ASSUME NEW t \in Tasks, NEW from, NEW to, Moves(t, from, to),
             from \cap (Committed \cup RunLabels) = {},
             state' = "Starting" => state = "Starting"
      PROVE  StartIsLive'
    BY <1>0, LiveKept DEF Moves, Goto
<1>1. ASSUME NEW t \in Tasks, Send(t) \/ Arm(t) PROVE StartIsLive'
    BY <1>1 DEF Send, Arm, StartIsLive
<1>2. CASE MonitorServer
    BY <1>0, <1>2, MonitorSummary DEF MonitorLabels, Sets, Swap
<1>3. ASSUME NEW t \in Stoppers, Stop(t) PROVE StartIsLive'
    BY <1>0, <1>3, StopSummary DEF StopLabels, Sets, Swap, Tasks
<1>4. ASSUME NEW t \in Starters, Start(t) PROVE StartIsLive'
    BY <1>4, LiveStart
<1>5. ASSUME NEW p \in Procs, InvokeServerCmd(p) PROVE StartIsLive'
    <2>1. CASE Cool(p)
        BY <2>1 DEF Cool, Swap, StartIsLive
    <2>2. CASE Exec(p) \/ Register(p) \/ Reap(p) \/ Take(p)
        <3>1. state' = state /\ \E l \in RunLabels : Goto(p, l)
            BY <2>2 DEF Exec, Register, Reap, Take, cellVars
        <3>2. pc[p] \in RunLabels
            BY <2>2 DEF Exec, Register, Reap, Take, At
        <3> QED
            BY <3>1, <3>2, LiveKept DEF Goto
    <2> QED
        BY <1>5, <2>1, <2>2 DEF InvokeServerCmd, ExecFail, NothingAtAllFails
<1>6. ASSUME NEW c \in Clients, Join(c) PROVE StartIsLive'
    BY <1>6, JoinSummary, LiveKept DEF JoinLabels, Goto
<1>7. CASE Tick
    BY <1>7 DEF Tick, cellVars, StartIsLive
<1>8. CASE CtrlC
    BY <1>8 DEF CtrlC, NothingAtAllFails
<1>9. ASSUME NEW p \in Procs, Minecraft(p) PROVE StartIsLive'
    BY <1>9, MinecraftSummary DEF cellVars, StartIsLive
<1>10. CASE UNCHANGED vars
    BY <1>10 DEF vars, cellVars, StartIsLive
<1> QED
    BY <1>1, <1>2, <1>3, <1>4, <1>5, <1>6, <1>7, <1>8, <1>9, <1>10
       DEF Next, Run, Environment

LEMMA LiveMeans ==
    TypeOK /\ CycleInv /\ StartIsLive => RunExists = (state # "Stopped")
<1> SUFFICES ASSUME TypeOK, CycleInv, StartIsLive
             PROVE  RunExists = (state # "Stopped")
    OBVIOUS
<1> USE TaskNames DEF TypeOK, States, RunExists, Unfinished
<1>1. CASE state = "Stopped"
    BY <1>1 DEF CycleInv, StarterPhase, StatePhase, RunLabels
<1>2. CASE state = "Starting"
    <2>1. \A t \in Starters : pc[t] \in Committed =>
             \/ pc[t] \in {"spawn", "thaw.pid"}
             \/ \E p \in Procs : pc[p] \in RunLabels
        BY DEF CycleInv, StarterPhase, RunShape, Committed, RunLabels, Attending
    <2> QED
        BY <1>2, <2>1 DEF StartIsLive, RunLabels
<1>3. CASE state \in {"Started", "Stopping"}
    BY <1>3 DEF CycleInv, StatePhase, Attending
<1> QED
    BY <1>1, <1>2, <1>3

\* The state changes only along the cycle.
LEMMA StateSteps ==
    ASSUME NothingFails, TypeOK, CycleInv, [Next]_vars
    PROVE  \/ state' = state
           \/ state = "Stopped"  /\ state' = "Starting"
           \/ state = "Starting" /\ state' = "Started"
           \/ state = "Started"  /\ state' = "Stopping"
           \/ state \in {"Starting", "Stopping"} /\ state' = "Stopped"
           \/ state = "Started"  /\ state' = "Stopped" /\ Freezes
<1> DEFINE Goal ==
           \/ state' = state
           \/ state = "Stopped"  /\ state' = "Starting"
           \/ state = "Starting" /\ state' = "Started"
           \/ state = "Started"  /\ state' = "Stopping"
           \/ state \in {"Starting", "Stopping"} /\ state' = "Stopped"
           \/ state = "Started"  /\ state' = "Stopped" /\ Freezes
<1> USE TaskNames DEF cellVars
<1>1. ASSUME NEW t \in Tasks, Send(t) \/ Arm(t) PROVE Goal
    BY <1>1 DEF Send, Arm
<1>2. CASE MonitorServer
    BY <1>2 DEF MonitorServer, FetchOk, FetchFail, Ping, ReadState, ToStarted, ToStopped,
       StoreStatus, ShouldSleep, ShouldKill, ForceKill, CycleInv, MonitorPhase, At, Swap
<1>3. ASSUME NEW t \in Stoppers, Stop(t) PROVE Goal
    <2>0. t = Mon
        BY <1>3, StopSummary DEF CycleInv, Undisturbed, Moves, Stoppers, StopLabels
    <2>1. CASE FreezeStarted(t)
        BY <2>0, <2>1 DEF FreezeStarted, CompareExchange, Swap, At, CycleInv, MonitorPhase,
              JustFrozen
    <2>2. CASE RconMark(t) \/ TermStarting(t) \/ TermStarted(t) \/ FreezeStarting(t)
        BY <2>0, <2>2 DEF RconMark, TermStarting, TermStarted, FreezeStarting, CompareExchange,
              Swap, At, CycleInv, MonitorPhase, StopsStarted, StopLabels
    <2> QED
        BY <1>3, <2>1, <2>2 DEF Stop, FreezePid, Freeze, ChooseRcon, RconAcquire, RconStop,
              RconLost, RconFail, RconClose, TermPid, Term, Stopped
<1>4. ASSUME NEW t \in Starters, Start(t) PROVE Goal
    BY <1>4 DEF Start, StartWon, StartLost, ThawPid, Thaw, ThawStopping, ThawStopped,
          ThawReturn, Spawn, CompareExchange, Swap, At, CycleInv, StarterPhase, Thawed
<1>5. ASSUME NEW p \in Procs, InvokeServerCmd(p) PROVE Goal
    <2>1. CASE Cool(p)
        <3>1. state # "Started" \/ pc[Mon] \in JustFrozen \cup JustTold
            BY <2>1 DEF Cool, At, CycleInv, StatePhase, OneRun, RunShape, RunLabels
        <3>2. pc[Mon] \notin JustFrozen \cup JustTold
            BY <2>1 DEF Cool, Settled, NothingFails, Waits, JustFrozen, JustTold
        <3> QED
            BY <2>1, <3>1, <3>2 DEF Cool, Swap, TypeOK, States
    <2> QED
        BY <1>5, <2>1 DEF InvokeServerCmd, Exec, ExecFail, Register, Reap, Take
<1>6. ASSUME NEW c \in Clients, Join(c) PROVE Goal
    BY <1>6, JoinSummary
<1>7. CASE Tick
    BY <1>7 DEF Tick
<1>8. CASE CtrlC
    BY <1>8 DEF CtrlC
<1>9. ASSUME NEW p \in Procs, Minecraft(p) PROVE Goal
    BY <1>9, MinecraftSummary
<1>10. CASE UNCHANGED vars
    BY <1>10 DEF vars
<1> QED
    BY <1>1, <1>2, <1>3, <1>4, <1>5, <1>6, <1>7, <1>8, <1>9, <1>10
       DEF Next, Run, Environment

LEMMA ConfigFixed == [Next]_vars => config' = config
<1> SUFFICES ASSUME [Next]_vars PROVE config' = config
    OBVIOUS
<1>1. ASSUME NEW t \in Tasks, Run(t) PROVE config' = config
    BY <1>1, MonitorSummary, StopSummary, StartSummary, ServerCmdSummary
       DEF Run, Send, Arm
<1>2. ASSUME NEW c \in Clients, Join(c) PROVE config' = config
    BY <1>2, JoinSummary
<1>3. CASE Environment
    BY <1>3, CtrlCSummary, MinecraftSummary DEF Environment, Tick
<1> QED
    BY <1>1, <1>2, <1>3 DEF Next, vars

\* The proxy implements the sleep cycle: one caller wakes a sleeping server,
\* a server that sleeps has no run, and the state goes round in order.
THEOREM CycleIsImplemented ==
    ASSUME NothingAtAllFails
    PROVE  Spec => ImplementsSleepCycle
<1>1. NothingFails
    BY DEF NothingAtAllFails
<1>2. Init => StartIsLive
    BY DEF Init, StartIsLive
<1>3. TypeOK /\ CycleInv /\ StartIsLive /\ [Next]_vars => StartIsLive'
    BY LiveStep
<1>4. Init => Cycle!Init
    <2> SUFFICES ASSUME Init PROVE Cycle!Init
        OBVIOUS
    <2>1. config \in ConfigType
        BY ConfigsTyped DEF Init
    <2>2. Freezes \in BOOLEAN
        BY <2>1 DEF Freezes, ConfigType
    <2>3. RunExists = FALSE
        BY TaskNames DEF Init, RunExists, Unfinished
    <2> QED
        BY <2>2, <2>3 DEF Init, Cycle!Init
<1>5. (TypeOK /\ CycleInv /\ StartIsLive => RunExists = (state # "Stopped"))'
    BY LiveMeans, PTL
<1>6. ASSUME TypeOK, CycleInv, StartIsLive, TypeOK', CycleInv', StartIsLive', [Next]_vars
      PROVE  [Cycle!Next]_(Cycle!vars)
    <2>1. /\ RunExists = (state # "Stopped")
          /\ RunExists' = (state' # "Stopped")
        BY <1>6, <1>5, LiveMeans
    <2>2. Freezes' = Freezes
        BY <1>6, ConfigFixed DEF Freezes
    <2>3. \/ state' = state
          \/ state = "Stopped"  /\ state' = "Starting"
          \/ state = "Starting" /\ state' = "Started"
          \/ state = "Started"  /\ state' = "Stopping"
          \/ state \in {"Starting", "Stopping"} /\ state' = "Stopped"
          \/ state = "Started"  /\ state' = "Stopped" /\ Freezes
        BY <1>1, <1>6, StateSteps
    <2> QED
        BY <2>1, <2>2, <2>3
           DEF Cycle!Next, Cycle!vars, Cycle!Wake, Cycle!ComeOnline, Cycle!Doze,
               Cycle!Rest, Cycle!Freeze
<1> QED
    BY <1>1, <1>2, <1>3, <1>4, <1>6, TypeCorrect, CycleInvariant, PTL
       DEF Spec, ImplementsSleepCycle, Cycle!Spec
=============================================================================
