-------------------------- MODULE PlexPaperProofs --------------------------
(***************************************************************************)
(* Safety of PlexPaper for every choice of the constants: whatever the     *)
(* number of clients and processes, the settings and the faults.           *)
(*                                                                         *)
(* Types come first.  Then the actions are summed up: which task moves     *)
(* from where to where, and what it does to the shared cell.  Each         *)
(* invariant is shown to survive these summaries, and the few actions that *)
(* matter to it one by one.                                                *)
(***************************************************************************)
EXTENDS PlexPaper, TLAPS

-----------------------------------------------------------------------------
(* Types.                                                                  *)

\* Signals keep process states process states.
LEMMA SignalTypes ==
    ASSUME TypeOK, NEW p
    PROVE  /\ [proc EXCEPT ![p] = SigStop(proc[p])] \in [Procs -> ProcStates]
           /\ [proc EXCEPT ![p] = SigCont(proc[p])] \in [Procs -> ProcStates]
           /\ [proc EXCEPT ![p] = SigTerm(proc[p])] \in [Procs -> ProcStates]
           /\ [proc EXCEPT ![p] = SigKill(proc[p])] \in [Procs -> ProcStates]
<1>1. CASE p \in Procs
    <2>1. proc[p] \in ProcStates
        BY <1>1 DEF TypeOK
    <2>2. /\ SigStop(proc[p]) \in ProcStates /\ SigCont(proc[p]) \in ProcStates
          /\ SigTerm(proc[p]) \in ProcStates /\ SigKill(proc[p]) \in ProcStates
        BY <2>1 DEF ProcStates, SigStop, SigCont, SigTerm, SigKill
    <2> QED
        BY <2>2 DEF TypeOK
<1>2. CASE p \notin Procs
    BY <1>2 DEF TypeOK
<1> QED
    BY <1>1, <1>2

\* The settings in force have the types of ConfigType.
LEMMA ConfigTyped == ASSUME TypeOK PROVE config \in ConfigType
BY ConfigsTyped DEF TypeOK

\* A deadline is a number of ticks or none.
LEMMA DeadlineTypes ==
    ASSUME TypeOK, NEW s \in States
    PROVE  /\ DeadlineOf(s) \in Nat \cup {-1}
           /\ Deadline(config.min_online_time) \in Nat \cup {-1}
BY ConfigTyped DEF States, DeadlineOf, Deadline, ConfigType

LEMMA TypeInit == Init => TypeOK
<1> SUFFICES ASSUME Init PROVE TypeOK
    OBVIOUS
<1>1. config \in ConfigType
    BY ConfigsTyped DEF Init
<1>2. pc \in [Tasks -> Labels]
    BY DEF Init, Labels
<1>3. HistoryCap \in Nat
    BY <1>1 DEF HistoryCap, ConfigType
<1>4. upd \in [Tasks -> Updates]
    BY DEF Init, NoUpdate, Updates, States
<1> QED
    BY <1>2, <1>3, <1>4, CooldownTyped DEF Init, TypeOK, States, ProcStates

-----------------------------------------------------------------------------
\* A compare-exchange and a swap keep the cell and the program counters typed.
LEMMA SwapTypes ==
    ASSUME TypeOK, NEW t \in Tasks, NEW s \in States, Swap(t, s)
    PROVE  state' \in States /\ upd' \in [Tasks -> Updates]
BY DEF TypeOK, Swap, Updates

LEMMA CompareExchangeTypes ==
    ASSUME TypeOK, NEW t \in Tasks, NEW from, NEW s \in States,
           NEW label \in Labels, CompareExchange(t, from, s, label)
    PROVE  /\ state' \in States /\ upd' \in [Tasks -> Updates]
           /\ pc' \in [Tasks -> Labels]
BY SwapTypes DEF TypeOK, CompareExchange, Goto

\* What a step does that only exchanges the cell.
Exchanges(t, from, s, label) ==
    /\ CompareExchange(t, from, s, label)
    /\ UNCHANGED <<config, watch, ever_sent, unseen, timerVars, status, pid,
                   rconVars, copied, poll, method, procVars, quit, histVars>>

LEMMA ExchangeType ==
    ASSUME TypeOK, NEW t \in Tasks, NEW from, NEW s \in States,
           NEW label \in Labels, Exchanges(t, from, s, label)
    PROVE  TypeOK'
<1>1. state' \in States /\ upd' \in [Tasks -> Updates] /\ pc' \in [Tasks -> Labels]
    BY CompareExchangeTypes DEF Exchanges
<1> QED
    BY <1>1 DEF Exchanges, TypeOK, timerVars, rconVars, procVars, histVars

\* The steps of an update, and the passing of time.
LEMMA UpdateType ==
    ASSUME TypeOK, NEW t \in Tasks, Send(t) \/ Arm(t)
    PROVE  TypeOK'
<1>1. CASE Send(t)
    BY <1>1 DEF TypeOK, Send, Updates, Holding,
                timerVars, rconVars, procVars, histVars
<1>2. CASE Arm(t)
    <2>1. upd[t].new \in States /\ upd' \in [Tasks -> Updates]
        BY <1>2 DEF TypeOK, Arm, Updates, NoUpdate, States
    <2>2. kill_at' \in Nat \cup {-1} /\ keep_online' \in Nat \cup {-1}
        BY <1>2, <2>1, DeadlineTypes DEF TypeOK, Arm
    <2> QED
        BY <1>2, <2>1, <2>2 DEF TypeOK, Arm, rconVars, procVars, histVars
<1> QED
    BY <1>1, <1>2

LEMMA TickType == ASSUME TypeOK, Tick PROVE TypeOK'
BY ConfigTyped, CooldownTyped
   DEF TypeOK, Tick, cellVars, procVars, Nearer, Older, HistoryCap, ConfigType

-----------------------------------------------------------------------------
\* Returning from stop, and going on without RCON.
LEMMA StopReturnTypes ==
    ASSUME TypeOK, NEW t \in Stoppers, NEW b \in BOOLEAN, StopReturn(t, b)
    PROVE  pc' \in [Tasks -> Labels] /\ quit' \in BOOLEAN
<1>1. \A l \in Labels : Goto(t, l) => pc' \in [Tasks -> Labels]
    BY DEF TypeOK, Goto
<1>2. pc' \in [Tasks -> Labels]
    BY <1>1 DEF StopReturn, Labels
<1>3. quit \in BOOLEAN
    BY DEF TypeOK
<1>4. CASE t = Mon
    BY <1>2, <1>3, <1>4 DEF StopReturn
<1>5. CASE t # Mon
    BY <1>2, <1>5, Zenon DEF StopReturn
<1> QED
    BY <1>4, <1>5

LEMMA WithoutRconTypes ==
    ASSUME TypeOK, NEW t \in Stoppers, WithoutRcon(t)
    PROVE  pc' \in [Tasks -> Labels] /\ quit' \in BOOLEAN
<1>1. CASE config.unix
    <2>1. Goto(t, "term.pid") /\ quit' = quit
        BY <1>1 DEF WithoutRcon
    <2> QED
        BY <2>1 DEF TypeOK, Goto, Labels
<1>2. CASE ~config.unix
    BY <1>2, StopReturnTypes DEF WithoutRcon
<1> QED
    BY <1>1, <1>2

LEMMA StopType ==
    ASSUME TypeOK, NEW t \in Stoppers, Stop(t)
    PROVE  TypeOK'
<1> t \in Tasks
    BY DEF Tasks
<1> USE DEF cellVars, timerVars, rconVars, procVars, histVars
<1>1. CASE FreezePid(t)
    BY <1>1 DEF TypeOK, FreezePid, CopyPid, Goto, Labels
<1>2. CASE Freeze(t)
    BY <1>2, SignalTypes DEF TypeOK, Freeze, Signal, Goto, Labels
<1>3. CASE FreezeStarting(t)
    <2>1. Exchanges(t, "Starting", "Stopped", "freeze.started")
        BY <1>3 DEF Exchanges, FreezeStarting
    <2> QED
        BY <2>1, ExchangeType DEF States, Labels
<1>4. CASE FreezeStarted(t)
    <2>1. Exchanges(t, "Started", "Stopped", "stopped")
        BY <1>4 DEF Exchanges, FreezeStarted
    <2> QED
        BY <2>1, ExchangeType DEF States, Labels
<1>5. CASE ChooseRcon(t)
    <2>1. pc' \in [Tasks -> Labels] /\ quit' \in BOOLEAN
        BY <1>5, WithoutRconTypes DEF TypeOK, ChooseRcon, Goto, Labels
    <2> QED
        BY <1>5, <2>1 DEF TypeOK, ChooseRcon
<1>6. CASE RconAcquire(t)
    <2>1. pc' \in [Tasks -> Labels] /\ quit' \in BOOLEAN
        BY <1>6, WithoutRconTypes DEF TypeOK, RconAcquire, Goto, Labels
    <2> QED
        BY <1>6, <2>1 DEF TypeOK, RconAcquire
<1>7. CASE RconStop(t)
    BY <1>7, SignalTypes DEF TypeOK, RconStop, Signal, Goto, Labels
<1>8. CASE RconLost(t)
    BY <1>8, SignalTypes, WithoutRconTypes DEF TypeOK, RconLost, Signal
<1>9. CASE RconFail(t)
    <2>1. pc' \in [Tasks -> Labels] /\ quit' \in BOOLEAN
        BY <1>9, WithoutRconTypes DEF RconFail
    <2> QED
        BY <1>9, <2>1 DEF TypeOK, RconFail
<1>10. CASE RconMark(t)
    BY <1>10, SwapTypes, CooldownTyped
       DEF TypeOK, RconMark, Goto, Labels, States
<1>11. CASE RconClose(t)
    <2>1. pc' \in [Tasks -> Labels] /\ quit' \in BOOLEAN
        BY <1>11, StopReturnTypes DEF RconClose
    <2> QED
        BY <1>11, <2>1 DEF TypeOK, RconClose
<1>12. CASE TermPid(t)
    <2>1. pc' \in [Tasks -> Labels] /\ quit' \in BOOLEAN
        <3>1. CASE pid = NoPid
            BY <1>12, <3>1, StopReturnTypes DEF TermPid
        <3>2. CASE pid # NoPid
            BY <1>12, <3>2 DEF TypeOK, TermPid, Goto, Labels
        <3> QED
            BY <3>1, <3>2
    <2>2. copied' \in [Tasks -> Procs \cup {NoPid}]
        BY <1>12 DEF TypeOK, TermPid
    <2> QED
        BY <1>12, <2>1, <2>2 DEF TypeOK, TermPid
<1>13. CASE Term(t)
    <2>1. pc' \in [Tasks -> Labels] /\ quit' \in BOOLEAN
        <3>1. CASE proc[copied[t]] = "none"
            BY <1>13, <3>1, StopReturnTypes DEF Term
        <3>2. CASE proc[copied[t]] # "none"
            BY <1>13, <3>2 DEF TypeOK, Term, Goto, Labels
        <3> QED
            BY <3>1, <3>2
    <2>2. /\ copied' \in [Tasks -> Procs \cup {NoPid}]
          /\ proc' \in [Procs -> ProcStates]
        BY <1>13, SignalTypes DEF TypeOK, Term, Signal
    <2> QED
        BY <1>13, <2>1, <2>2 DEF TypeOK, Term
<1>14. CASE TermStarting(t)
    <2>1. Exchanges(t, "Starting", "Stopping", "term.started")
        BY <1>14 DEF Exchanges, TermStarting
    <2> QED
        BY <2>1, ExchangeType DEF States, Labels
<1>15. CASE TermStarted(t)
    <2>1. Exchanges(t, "Started", "Stopping", "stopped")
        BY <1>15 DEF Exchanges, TermStarted
    <2> QED
        BY <2>1, ExchangeType DEF States, Labels
<1>16. CASE Stopped(t)
    <2>1. pc' \in [Tasks -> Labels] /\ quit' \in BOOLEAN
        BY <1>16, StopReturnTypes DEF Stopped
    <2> QED
        BY <1>16, <2>1 DEF TypeOK, Stopped
<1> QED
    BY <1>1, <1>2, <1>3, <1>4, <1>5, <1>6, <1>7, <1>8, <1>9, <1>10, <1>11,
       <1>12, <1>13, <1>14, <1>15, <1>16 DEF Stop

LEMMA StartType ==
    ASSUME TypeOK, NEW t \in Starters, Start(t)
    PROVE  TypeOK'
<1> t \in Tasks
    BY DEF Tasks
<1> USE DEF cellVars, timerVars, rconVars, procVars, histVars
<1>1. CASE StartWon(t)
    <2>1. Exchanges(t, "Stopped", "Starting", IF Freezes THEN "thaw.pid" ELSE "spawn")
        BY <1>1 DEF Exchanges, StartWon
    <2> QED
        BY <2>1, ExchangeType DEF States, Labels
<1>2. CASE StartLost(t)
    BY <1>2 DEF TypeOK, StartLost, StartReturn, Goto, Labels
<1>3. CASE ThawPid(t)
    BY <1>3 DEF TypeOK, ThawPid, CopyPid, Goto, Labels
<1>4. CASE Thaw(t)
    BY <1>4, SignalTypes DEF TypeOK, Thaw, Signal, Goto, Labels
<1>5. CASE ThawStopping(t)
    <2>1. Exchanges(t, "Stopping", "Starting", "thaw.stopped")
        BY <1>5 DEF Exchanges, ThawStopping
    <2> QED
        BY <2>1, ExchangeType DEF States, Labels
<1>6. CASE ThawStopped(t)
    <2>1. Exchanges(t, "Stopped", "Starting", "started")
        BY <1>6 DEF Exchanges, ThawStopped
    <2> QED
        BY <2>1, ExchangeType DEF States, Labels
<1>7. CASE ThawReturn(t)
    BY <1>7 DEF TypeOK, ThawReturn, StartReturn, Goto, Labels
<1>8. CASE Spawn(t)
    BY <1>8 DEF TypeOK, Spawn, Labels
<1> QED
    BY <1>1, <1>2, <1>3, <1>4, <1>5, <1>6, <1>7, <1>8 DEF Start

LEMMA ProcessType ==
    ASSUME TypeOK, NEW p \in Procs, InvokeServerCmd(p) \/ Minecraft(p)
    PROVE  TypeOK'
<1> p \in Tasks
    BY DEF Tasks, Starters
<1> USE DEF cellVars, timerVars, rconVars, procVars, histVars
<1>1. CASE Exec(p)
    BY <1>1 DEF TypeOK, Exec, Goto, Labels, ProcStates
<1>2. CASE ExecFail(p)
    BY <1>2 DEF TypeOK, ExecFail, Goto, Labels
<1>3. CASE Register(p)
    BY <1>3 DEF TypeOK, Register, Goto, Labels
<1>4. CASE Reap(p)
    BY <1>4 DEF TypeOK, Reap, Goto, Labels, ProcStates
<1>5. CASE Take(p)
    BY <1>5 DEF TypeOK, Take, Goto, Labels
<1>6. CASE Cool(p)
    BY <1>6, SwapTypes DEF TypeOK, Cool, Goto, Labels, States
<1>7. CASE Boots(p)
    BY <1>7 DEF TypeOK, Boots, ProcStates
<1>8. CASE Shuts(p)
    BY <1>8 DEF TypeOK, Shuts, ProcStates
<1>9. CASE Ends(p)
    BY <1>9, SignalTypes DEF TypeOK, Ends, Signal
<1> QED
    BY <1>1, <1>2, <1>3, <1>4, <1>5, <1>6, <1>7, <1>8, <1>9
       DEF InvokeServerCmd, Minecraft

LEMMA MonitorType == ASSUME TypeOK, MonitorServer PROVE TypeOK'
<1> Mon \in Tasks
    BY DEF Tasks, Stoppers
<1> USE DEF cellVars, timerVars, rconVars, procVars, histVars
<1>1. CASE FetchOk
    BY <1>1 DEF TypeOK, FetchOk, Goto, Labels
<1>2. CASE FetchFail
    BY <1>2 DEF TypeOK, FetchFail, Goto, Labels
<1>3. CASE Ping
    BY <1>3 DEF TypeOK, Ping, Goto, Labels
<1>4. CASE ReadState
    BY <1>4 DEF TypeOK, ReadState, Goto, Labels
<1>5. CASE ToStarted
    BY <1>5, SwapTypes DEF TypeOK, ToStarted, Goto, Labels, States
<1>6. CASE ToStopped
    BY <1>6, SwapTypes DEF TypeOK, ToStopped, Goto, Labels, States
<1>7. CASE StoreStatus
    BY <1>7 DEF TypeOK, StoreStatus, Reached, Goto, Labels
<1>8. CASE ShouldSleep
    BY <1>8 DEF TypeOK, ShouldSleep, Goto, Labels
<1>9. CASE ShouldKill
    BY <1>9 DEF TypeOK, ShouldKill, Goto, Labels
<1>10. CASE ForceKill
    BY <1>10, SignalTypes DEF TypeOK, ForceKill, Signal, Goto, Labels
<1> QED
    BY <1>1, <1>2, <1>3, <1>4, <1>5, <1>6, <1>7, <1>8, <1>9, <1>10
       DEF MonitorServer

LEMMA JoinType ==
    ASSUME TypeOK, NEW c \in Clients, Join(c)
    PROVE  TypeOK'
<1> c \in Tasks
    BY DEF Tasks, Starters
<1> USE DEF cellVars, timerVars, rconVars, procVars, histVars
<1>1. CASE Route(c)
    BY <1>1 DEF TypeOK, Route, Goto, Labels
<1>2. CASE Dismiss(c)
    BY <1>2 DEF TypeOK, Dismiss, Leaves, Goto, Labels
<1>3. CASE TryHold(c)
    BY <1>3 DEF TypeOK, TryHold, NextMethod, Goto, Labels
<1>4. CASE Subscribe(c)
    BY <1>4 DEF TypeOK, Subscribe, Goto, Labels
<1>5. CASE HoldLonger(c)
    BY <1>5 DEF TypeOK, HoldLonger
<1>6. CASE HoldReady(c)
    BY <1>6 DEF TypeOK, HoldReady, Leaves, Goto, Labels
<1>7. CASE HoldGivesUp(c)
    BY <1>7 DEF TypeOK, HoldGivesUp, NextMethod, Goto, Labels
<1>8. CASE HoldTimeout(c)
    BY <1>8 DEF TypeOK, HoldTimeout, NextMethod, Goto, Labels
<1> QED
    BY <1>1, <1>2, <1>3, <1>4, <1>5, <1>6, <1>7, <1>8 DEF Join

LEMMA CtrlCType == ASSUME TypeOK, CtrlC PROVE TypeOK'
<1>1. pc' \in [Tasks -> Labels] /\ quit' \in BOOLEAN
    BY DEF TypeOK, CtrlC, Goto, Labels
<1> QED
    BY <1>1 DEF TypeOK, CtrlC, cellVars, timerVars, rconVars, procVars, histVars

-----------------------------------------------------------------------------
\* Every variable keeps its type in every behaviour of the proxy, whatever
\* the settings and the faults.
THEOREM TypeCorrect == Spec => []TypeOK
<1>1. TypeOK /\ [Next]_vars => TypeOK'
    <2> SUFFICES ASSUME TypeOK, [Next]_vars PROVE TypeOK'
        OBVIOUS
    <2>1. CASE UNCHANGED vars
        BY <2>1 DEF TypeOK, vars, cellVars, timerVars, rconVars, procVars,
                    histVars
    <2>2. CASE Next
        BY <2>1, <2>2, UpdateType, TickType, StopType, StartType,
           ProcessType, MonitorType, JoinType, CtrlCType
           DEF Next, Run, Environment
    <2> QED
        BY <2>1, <2>2
<1> QED
    BY TypeInit, <1>1, PTL DEF Spec

-----------------------------------------------------------------------------
(* Summaries.                                                              *)

\* Task t goes from a label in `from` to one in `to`, outside any update.
Moves(t, from, to) ==
    /\ Free(t) /\ pc[t] \in from
    /\ \E l \in to : Goto(t, l)

\* Task t may set the state to one of `values`; no receiver hears of it yet.
Sets(t, values) ==
    /\ UNCHANGED <<watch, ever_sent, unseen>>
    /\ \/ UNCHANGED <<state, upd>>
       \/ \E s \in values : Swap(t, s)

StopLabels ==
    {"stop", "freeze", "freeze.starting", "freeze.started", "stop.rcon",
     "rcon", "rcon.stop", "rcon.mark", "rcon.close", "term.pid", "term",
     "term.starting", "term.started", "stopped"}

StopExits == (StopLabels \ {"stop"}) \cup {"should_kill", "idle"}

StartLabels ==
    {"start", "thaw.pid", "thaw", "thaw.stopping", "thaw.stopped", "started",
     "spawn"}

StartExits == (StartLabels \ {"start"}) \cup {"occupy", "idle"}

\* What only the monitor and the clock change.
MonitorOwn == <<last_active, keep_online, poll, up_time, quiet>>

-----------------------------------------------------------------------------
LEMMA CompareExchangeSummary ==
    ASSUME NEW t \in Tasks, NEW from, NEW new, NEW label,
           CompareExchange(t, from, new, label)
    PROVE  Goto(t, label) /\ (UNCHANGED <<state, upd>> \/ Swap(t, new))
BY DEF CompareExchange

LEMMA StopReturnSummary ==
    ASSUME NEW t \in Stoppers, NEW b, StopReturn(t, b) \/ WithoutRcon(t)
    PROVE  \E l \in {"should_kill", "idle", "term.pid"} : Goto(t, l)
BY DEF StopReturn, WithoutRcon

LEMMA StopSummary ==
    ASSUME NEW t \in Stoppers, Stop(t)
    PROVE  /\ Moves(t, StopLabels, StopExits)
           /\ Sets(t, {"Stopped", "Stopping"})
           /\ UNCHANGED <<config, pid, MonitorOwn>>
<1> t \in Tasks
    BY DEF Tasks
<1> USE DEF Moves, Sets, At, StopLabels, StopExits, MonitorOwn,
            cellVars, timerVars, rconVars, procVars, histVars
<1>1. CASE FreezePid(t)
    BY <1>1 DEF FreezePid, CopyPid
<1>2. CASE Freeze(t)
    BY <1>2 DEF Freeze
<1>3. CASE FreezeStarting(t)
    BY <1>3, CompareExchangeSummary DEF FreezeStarting
<1>4. CASE FreezeStarted(t)
    BY <1>4, CompareExchangeSummary DEF FreezeStarted
<1>5. CASE ChooseRcon(t)
    BY <1>5, StopReturnSummary DEF ChooseRcon
<1>6. CASE RconAcquire(t)
    BY <1>6, StopReturnSummary DEF RconAcquire
<1>7. CASE RconStop(t)
    BY <1>7 DEF RconStop
<1>8. CASE RconLost(t)
    BY <1>8, StopReturnSummary DEF RconLost
<1>9. CASE RconFail(t)
    BY <1>9, StopReturnSummary DEF RconFail
<1>10. CASE RconMark(t)
    BY <1>10 DEF RconMark
<1>11. CASE RconClose(t)
    BY <1>11, StopReturnSummary DEF RconClose
<1>12. CASE TermPid(t)
    BY <1>12, StopReturnSummary DEF TermPid
<1>13. CASE Term(t)
    BY <1>13, StopReturnSummary DEF Term
<1>14. CASE TermStarting(t)
    BY <1>14, CompareExchangeSummary DEF TermStarting
<1>15. CASE TermStarted(t)
    BY <1>15, CompareExchangeSummary DEF TermStarted
<1>16. CASE Stopped(t)
    BY <1>16, StopReturnSummary DEF Stopped
<1> QED
    BY <1>1, <1>2, <1>3, <1>4, <1>5, <1>6, <1>7, <1>8, <1>9, <1>10, <1>11,
       <1>12, <1>13, <1>14, <1>15, <1>16 DEF Stop

\* Spawn also moves the new process task; everything else moves t alone.
LEMMA StartSummary ==
    ASSUME NEW t \in Starters, Start(t)
    PROVE  /\ Spawn(t) \/ Moves(t, StartLabels, StartExits)
           /\ Sets(t, {"Starting"})
           /\ UNCHANGED <<config, pid, rconVars, rcon_age, MonitorOwn>>
<1> t \in Tasks
    BY DEF Tasks
<1> USE DEF Moves, Sets, At, StartLabels, StartExits, MonitorOwn,
            cellVars, timerVars, rconVars, procVars, histVars
<1>1. CASE StartWon(t)
    BY <1>1, CompareExchangeSummary DEF StartWon
<1>2. CASE StartLost(t)
    BY <1>2 DEF StartLost, StartReturn
<1>3. CASE ThawPid(t)
    BY <1>3 DEF ThawPid, CopyPid
<1>4. CASE Thaw(t)
    BY <1>4 DEF Thaw
<1>5. CASE ThawStopping(t)
    BY <1>5, CompareExchangeSummary DEF ThawStopping
<1>6. CASE ThawStopped(t)
    BY <1>6, CompareExchangeSummary DEF ThawStopped
<1>7. CASE ThawReturn(t)
    BY <1>7 DEF ThawReturn, StartReturn
<1>8. CASE Spawn(t)
    BY <1>8 DEF Spawn
<1> QED
    BY <1>1, <1>2, <1>3, <1>4, <1>5, <1>6, <1>7, <1>8 DEF Start

LEMMA ServerCmdSummary ==
    ASSUME NEW p \in Procs, InvokeServerCmd(p)
    PROVE  /\ Moves(p, {"exec", "register", "wait", "take", "cool"},
                       {"register", "idle", "wait", "take", "cool", "start"})
           /\ Sets(p, {"Stopped"})
           /\ UNCHANGED <<config, rconVars, rcon_age, MonitorOwn>>
BY DEF InvokeServerCmd, Exec, ExecFail, Register, Reap, Take, Cool,
       Moves, Sets, At, MonitorOwn,
       cellVars, timerVars, rconVars, procVars, histVars

LEMMA MinecraftSummary ==
    ASSUME NEW p \in Procs, Minecraft(p)
    PROVE  UNCHANGED <<config, cellVars, timerVars, pid, rconVars, pc, poll,
                       histVars>>
BY DEF Minecraft, Boots, Shuts, Ends

MonitorLabels ==
    {"tick", "ping", "apply", "to_started", "to_stopped", "store",
     "should_sleep", "should_kill", "force_kill"}

LEMMA MonitorSummary ==
    ASSUME MonitorServer
    PROVE  /\ Moves(Mon, MonitorLabels, MonitorLabels \cup {"stop"})
           /\ Sets(Mon, {"Started", "Stopped"})
           /\ UNCHANGED <<config, pid, rconVars, rcon_age>>
BY DEF MonitorServer, FetchOk, FetchFail, Ping, ReadState, ToStarted,
       ToStopped, StoreStatus, ShouldSleep, ShouldKill, ForceKill,
       Moves, Sets, At, MonitorLabels,
       cellVars, timerVars, rconVars, procVars, histVars

JoinLabels == {"idle", "occupy", "subscribe", "holding"}

LEMMA JoinSummary ==
    ASSUME NEW c \in Clients, Join(c)
    PROVE  /\ Free(c) /\ pc[c] \in JoinLabels
           /\ \/ UNCHANGED pc
              \/ \E l \in JoinLabels \cup {"start"} : Goto(c, l)
           /\ UNCHANGED <<config, state, watch, ever_sent, upd, pid, rconVars,
                          rcon_age, MonitorOwn>>
BY DEF Join, Route, Dismiss, TryHold, Subscribe, HoldLonger, HoldReady,
       HoldGivesUp, HoldTimeout, TriesNext, Leaves, NextMethod, Woken,
       JoinLabels, At, MonitorOwn,
       cellVars, timerVars, rconVars, procVars, histVars

LEMMA CtrlCSummary ==
    ASSUME CtrlC
    PROVE  /\ Free(Sig) /\ pc[Sig] = "idle"
           /\ UNCHANGED pc \/ Goto(Sig, "stop")
           /\ UNCHANGED <<config, cellVars, pid, rconVars, rcon_age, MonitorOwn>>
BY DEF CtrlC, At, MonitorOwn, cellVars, timerVars, rconVars, procVars, histVars

-----------------------------------------------------------------------------
(* The registered pid.  PidOwned is inductive.                             *)

LEMMA PidOwnedKept ==
    ASSUME TypeOK, PidOwned, UNCHANGED pid, NEW t \in Tasks, NEW from, NEW to,
           Moves(t, from, to), from \cap {"wait", "take"} = {}
    PROVE  PidOwned'
BY NoPidIsNoProc DEF TypeOK, PidOwned, Moves, Goto, Tasks, Starters

LEMMA PidOwnedServerCmd ==
    ASSUME TypeOK, PidOwned, NEW p \in Procs, InvokeServerCmd(p)
    PROVE  PidOwned'
<1> p \in Tasks /\ Procs \subseteq Tasks
    BY DEF Tasks, Starters
<1> USE NoPidIsNoProc DEF TypeOK, PidOwned, At, Goto
<1>1. CASE Exec(p)
    BY <1>1 DEF Exec
<1>2. CASE ExecFail(p)
    BY <1>2 DEF ExecFail
<1>3. CASE Register(p)
    BY <1>3 DEF Register
<1>4. CASE Reap(p)
    BY <1>4 DEF Reap
<1>5. CASE Take(p)
    BY <1>5 DEF Take
<1>6. CASE Cool(p)
    BY <1>6 DEF Cool
<1> QED
    BY <1>1, <1>2, <1>3, <1>4, <1>5, <1>6 DEF InvokeServerCmd

LEMMA PidOwnedStep == TypeOK /\ PidOwned /\ [Next]_vars => PidOwned'
<1> SUFFICES ASSUME TypeOK, PidOwned, [Next]_vars PROVE PidOwned'
    OBVIOUS
<1> Mon \in Tasks /\ Sig \in Tasks
    BY DEF Tasks, Stoppers
<1>1. ASSUME NEW t \in Tasks, Send(t) \/ Arm(t) PROVE PidOwned'
    BY <1>1 DEF PidOwned, Send, Arm
<1>2. CASE MonitorServer
    BY <1>2, MonitorSummary, PidOwnedKept DEF MonitorLabels
<1>3. ASSUME NEW t \in Stoppers, Stop(t) PROVE PidOwned'
    BY <1>3, StopSummary, PidOwnedKept DEF StopLabels, Tasks
<1>4. ASSUME NEW t \in Starters, Start(t) PROVE PidOwned'
    <2>1. CASE Moves(t, StartLabels, StartExits)
        BY <1>4, <2>1, StartSummary, PidOwnedKept DEF StartLabels, Tasks
    <2>2. CASE Spawn(t)
        <3>1. PICK p \in Procs :
                 /\ Unused(p)
                 /\ \E l \in {"occupy", "idle"} :
                       pc' = [pc EXCEPT ![t] = l, ![p] = "exec"]
            BY <2>2 DEF Spawn
        <3>2. pc[t] = "spawn" /\ pc[p] = "idle" /\ UNCHANGED pid
            BY <2>2, <3>1 DEF Spawn, Unused, At
        <3> QED
            BY <3>1, <3>2, NoPidIsNoProc DEF TypeOK, PidOwned, Tasks, Starters
    <2> QED
        BY <1>4, <2>1, <2>2, StartSummary
<1>5. ASSUME NEW p \in Procs, InvokeServerCmd(p) PROVE PidOwned'
    BY <1>5, PidOwnedServerCmd
<1>6. ASSUME NEW c \in Clients, Join(c) PROVE PidOwned'
    <2> c \in Tasks
        BY DEF Tasks, Starters
    <2>1. CASE UNCHANGED pc
        BY <1>6, <2>1, JoinSummary DEF PidOwned
    <2>2. CASE ~UNCHANGED pc
        <3>1. Moves(c, JoinLabels, JoinLabels \cup {"start"})
            BY <1>6, <2>2, JoinSummary DEF Moves
        <3> QED
            BY <1>6, <3>1, JoinSummary, PidOwnedKept DEF JoinLabels
    <2> QED
        BY <2>1, <2>2
<1>7. CASE Tick
    BY <1>7 DEF Tick, PidOwned
<1>8. CASE CtrlC
    <2>1. CASE UNCHANGED pc
        BY <1>8, <2>1, CtrlCSummary DEF PidOwned
    <2>2. CASE Goto(Sig, "stop")
        <3>1. Moves(Sig, {"idle"}, {"stop"})
            BY <1>8, <2>2, CtrlCSummary DEF Moves
        <3> QED
            BY <1>8, <3>1, CtrlCSummary, PidOwnedKept
    <2> QED
        BY <1>8, <2>1, <2>2, CtrlCSummary
<1>9. ASSUME NEW p \in Procs, Minecraft(p) PROVE PidOwned'
    BY <1>9, MinecraftSummary DEF PidOwned
<1>10. CASE UNCHANGED vars
    BY <1>10 DEF PidOwned, vars
<1> QED
    BY <1>1, <1>2, <1>3, <1>4, <1>5, <1>6, <1>7, <1>8, <1>9, <1>10
       DEF Next, Run, Environment

\* The registered pid is always that of a process whose own task registered
\* it and has not yet taken it back, for any number of processes spawned and
\* overwriting the one slot, and under all faults.
THEOREM PidOwnership == Spec => []PidOwned
<1>1. Init => PidOwned
    BY DEF Init, PidOwned
<1> QED
    BY <1>1, PidOwnedStep, TypeCorrect, PTL DEF Spec

-----------------------------------------------------------------------------
(* No lost wake-up.  A subscriber finds everything unseen only if something *)
(* was ever sent; before the first send, whoever saw "Starting" saw a state *)
(* whose send is still on its way.                                         *)

Sending == \E t \in Tasks : upd[t].at = "send"

FirstSendPending ==
    ~ever_sent =>
        \/ Sending
        \/ state = "Stopped" /\ \A c \in Clients : pc[c] \notin {"subscribe", "holding"}

WakeInv == NoLostWakeup /\ FirstSendPending

\* A task that is outside any update and sets the state keeps the sends of the
\* others, and adds its own when the state changes.
LEMMA SendingKept ==
    ASSUME TypeOK, NEW t \in Tasks, Free(t), NEW values, Sets(t, values)
    PROVE  /\ Sending => Sending'
           /\ state' # state => Sending'
BY DEF TypeOK, Free, Sets, Swap, Sending, Updates

\* Steps that send no client into hold, nor anybody out of unseen.
LEMMA WakeKept ==
    ASSUME TypeOK, WakeInv, NEW t \in Tasks, Free(t), NEW values, Sets(t, values),
           \A c \in Clients : pc'[c] \in {"subscribe", "holding"} => pc'[c] = pc[c]
    PROVE  WakeInv'
<1>1. /\ Sending => Sending'
      /\ state' # state => Sending'
      /\ UNCHANGED <<watch, ever_sent, unseen>>
    BY SendingKept DEF Sets
<1> QED
    BY <1>1 DEF WakeInv, NoLostWakeup, FirstSendPending, Holding, Sending

LEMMA WakeMoves ==
    ASSUME TypeOK, WakeInv, NEW t \in Tasks, NEW values, Sets(t, values),
           NEW from, NEW to, Moves(t, from, to), to \cap {"subscribe", "holding"} = {}
    PROVE  WakeInv'
<1>1. \A c \in Clients : pc'[c] \in {"subscribe", "holding"} => pc'[c] = pc[c]
    BY DEF TypeOK, Moves, Goto, Tasks, Starters
<1> QED
    BY <1>1, WakeKept DEF Moves

LEMMA WakeUpdate ==
    ASSUME TypeOK, WakeInv, NEW t \in Tasks, Send(t) \/ Arm(t)
    PROVE  WakeInv'
<1>1. CASE Send(t)
    BY <1>1 DEF WakeInv, NoLostWakeup, FirstSendPending, Send, Holding
<1>2. CASE Arm(t)
    <2>1. Sending => Sending'
        BY <1>2 DEF TypeOK, Arm, Sending, NoUpdate, Updates
    <2> QED
        BY <1>2, <2>1
           DEF WakeInv, NoLostWakeup, FirstSendPending, Arm, Holding, Sending
<1> QED
    BY <1>1, <1>2

LEMMA WakeJoin ==
    ASSUME TypeOK, WakeInv, NEW c \in Clients, Join(c)
    PROVE  WakeInv'
<1> c \in Tasks /\ Clients \subseteq Tasks
    BY DEF Tasks, Starters
<1>1. UNCHANGED <<state, watch, ever_sent, upd>> /\ Free(c)
    BY JoinSummary
<1>2. Sending' = Sending
    BY <1>1 DEF Sending
<1> USE <1>1, <1>2
    DEF TypeOK, WakeInv, NoLostWakeup, FirstSendPending, Holding, Sending, At, Goto
<1>3. CASE Route(c)
    BY <1>3 DEF Route, cellVars
<1>4. CASE Dismiss(c)
    BY <1>4 DEF Dismiss, Leaves, cellVars
<1>5. CASE TryHold(c)
    BY <1>5 DEF TryHold, TriesNext, NextMethod, cellVars
<1>6. CASE Subscribe(c)
    BY <1>6 DEF Subscribe
<1>7. CASE HoldLonger(c)
    BY <1>7 DEF HoldLonger, Woken
<1>8. CASE HoldReady(c)
    BY <1>8 DEF HoldReady, Woken, Leaves
<1>9. CASE HoldGivesUp(c)
    BY <1>9 DEF HoldGivesUp, Woken, NextMethod
<1>10. CASE HoldTimeout(c)
    BY <1>10 DEF HoldTimeout, NextMethod
<1> QED
    BY <1>3, <1>4, <1>5, <1>6, <1>7, <1>8, <1>9, <1>10 DEF Join

LEMMA WakeStep == TypeOK /\ WakeInv /\ [Next]_vars => WakeInv'
<1> SUFFICES ASSUME TypeOK, WakeInv, [Next]_vars PROVE WakeInv'
    OBVIOUS
<1> Mon \in Tasks /\ Sig \in Tasks
    BY DEF Tasks, Stoppers
<1> DEFINE Same == UNCHANGED <<state, watch, ever_sent, unseen, upd, pc>>
<1>0. Same => WakeInv'
    BY DEF WakeInv, NoLostWakeup, FirstSendPending, Holding, Sending
<1>1. ASSUME NEW t \in Tasks, Send(t) \/ Arm(t) PROVE WakeInv'
    BY <1>1, WakeUpdate
<1>2. CASE MonitorServer
    BY <1>2, MonitorSummary, WakeMoves DEF MonitorLabels
<1>3. ASSUME NEW t \in Stoppers, Stop(t) PROVE WakeInv'
    BY <1>3, StopSummary, WakeMoves DEF StopLabels, StopExits, Tasks
<1>4. ASSUME NEW t \in Starters, Start(t) PROVE WakeInv'
    <2>1. CASE Moves(t, StartLabels, StartExits)
        BY <1>4, <2>1, StartSummary, WakeMoves DEF StartLabels, StartExits, Tasks
    <2>2. CASE Spawn(t)
        <3>1. PICK p \in Procs : \E l \in {"occupy", "idle"} :
                 pc' = [pc EXCEPT ![t] = l, ![p] = "exec"]
            BY <2>2 DEF Spawn
        <3>2. \A c \in Clients :
                 pc'[c] \in {"subscribe", "holding"} => pc'[c] = pc[c]
            BY <3>1 DEF TypeOK, Tasks, Starters
        <3> QED
            BY <1>4, <2>2, <3>2, StartSummary, WakeKept DEF Spawn, At, Tasks
    <2> QED
        BY <1>4, <2>1, <2>2, StartSummary
<1>5. ASSUME NEW p \in Procs, InvokeServerCmd(p) PROVE WakeInv'
    BY <1>5, ServerCmdSummary, WakeMoves DEF Tasks, Starters
<1>6. ASSUME NEW c \in Clients, Join(c) PROVE WakeInv'
    BY <1>6, WakeJoin
<1>7. CASE Tick
    BY <1>0, <1>7 DEF Tick, cellVars
<1>8. CASE CtrlC
    <2>1. Free(Sig) /\ Sets(Sig, {"Stopped"})
        BY <1>8, CtrlCSummary DEF Sets, cellVars
    <2>2. \A c \in Clients : pc'[c] \in {"subscribe", "holding"} => pc'[c] = pc[c]
        BY <1>8, CtrlCSummary DEF TypeOK, Goto, Tasks, Starters
    <2> QED
        BY <2>1, <2>2, WakeKept
<1>9. ASSUME NEW p \in Procs, Minecraft(p) PROVE WakeInv'
    BY <1>0, <1>9, MinecraftSummary DEF cellVars
<1>10. CASE UNCHANGED vars
    BY <1>0, <1>10 DEF vars, cellVars
<1> QED
    BY <1>1, <1>2, <1>3, <1>4, <1>5, <1>6, <1>7, <1>8, <1>9, <1>10
       DEF Next, Run, Environment

\* A held client never sleeps through the end of a start: for any number of
\* clients, processes and updates under way, and under all faults.
THEOREM NoWakeupIsLost == Spec => []NoLostWakeup
<1>1. Init => WakeInv
    BY DEF Init, WakeInv, NoLostWakeup, FirstSendPending, Holding, Tasks,
           Starters, Mon, Boot
<1>2. WakeInv => NoLostWakeup
    BY DEF WakeInv
<1> QED
    BY <1>1, <1>2, WakeStep, TypeCorrect, PTL DEF Spec

-----------------------------------------------------------------------------
(* Sleeping only when idle.  Only the monitor starts an update to Started,  *)
(* and it finishes it before it looks at a timer; between the two, the     *)
(* timers are still those of an earlier run.  Outside of such an update,   *)
(* last_active is never older than the last detected start, nor than the   *)
(* last poll that saw players (until that poll is stored), and             *)
(* keep_online runs out no earlier than min_online_time after the start.   *)

Detecting(t) == upd[t].at # "idle" /\ upd[t].new = "Started"

OnlyMonitorDetects == \A t \in Tasks : Detecting(t) => t = Mon

TimersCurrent ==
    ~Detecting(Mon) =>
        /\ last_active <= up_time
        /\ poll # "busy" => last_active <= quiet
        /\ config.min_online_time > 0 =>
              up_time + keep_online >= config.min_online_time

MonitorLocals ==
    /\ pc[Mon] = "to_started" => state # "Started"
    /\ poll = "busy" => pc[Mon] \in {"apply", "to_started", "to_stopped", "store"}

SleepInv ==
    OnlyMonitorDetects /\ TimersCurrent /\ MonitorLocals /\ SleepsOnlyWhenIdle

\* The steps of every task but the monitor, and those of the monitor inside
\* stop: they leave the timers alone and never set the state to Started.
LEMMA SleepKept ==
    ASSUME TypeOK, SleepInv, NEW t \in Tasks, Free(t),
           Sets(t, {"Stopped", "Starting", "Stopping"}),
           UNCHANGED <<config, MonitorOwn>>,
           \/ pc'[Mon] = pc[Mon]
           \/ pc[Mon] \in StopLabels /\ pc'[Mon] \in StopExits
    PROVE  SleepInv'
<1> Mon \in Tasks
    BY DEF Tasks, Stoppers
<1>1. \A u \in Tasks : Detecting(u)' => Detecting(u)
    BY DEF TypeOK, Updates, Sets, Swap, Free, Detecting
<1>2. Detecting(Mon) => Detecting(Mon)'
    BY DEF TypeOK, Updates, Sets, Swap, Free, Detecting
<1>3. OnlyMonitorDetects'
    BY <1>1 DEF SleepInv, OnlyMonitorDetects
<1>4. TimersCurrent'
    BY <1>2 DEF SleepInv, TimersCurrent, MonitorOwn
<1>5. state' = "Started" => state = "Started"
    BY DEF Sets, Swap
<1>6. MonitorLocals'
    BY <1>5 DEF SleepInv, MonitorLocals, MonitorOwn, StopLabels, StopExits
<1>7. SleepsOnlyWhenIdle'
    BY DEF StopLabels, StopExits, SleepInv, SleepsOnlyWhenIdle, MonitorOwn
<1> QED
    BY <1>3, <1>4, <1>6, <1>7 DEF SleepInv

LEMMA SleepUpdate ==
    ASSUME TypeOK, SleepInv, NEW t \in Tasks, Send(t) \/ Arm(t)
    PROVE  SleepInv'
<1> Mon \in Tasks
    BY DEF Tasks, Stoppers
<1>1. CASE Send(t)
    <2>1. \A u \in Tasks : Detecting(u)' = Detecting(u)
        BY <1>1 DEF TypeOK, Updates, Send, Detecting
    <2> QED
        BY <1>1, <2>1
           DEF Send, SleepInv, OnlyMonitorDetects, TimersCurrent, MonitorLocals,
               SleepsOnlyWhenIdle, timerVars, histVars
<1>2. CASE Arm(t)
    <2>1. \A u \in Tasks : Detecting(u)' <=> Detecting(u) /\ u # t
        BY <1>2 DEF TypeOK, Updates, NoUpdate, Arm, Detecting
    <2>2. OnlyMonitorDetects' /\ MonitorLocals' /\ SleepsOnlyWhenIdle'
        BY <1>2, <2>1
           DEF Arm, SleepInv, OnlyMonitorDetects, MonitorLocals,
               SleepsOnlyWhenIdle, histVars
    <2>3. TimersCurrent'
        <3>1. CASE upd[t].new = "Started"
            <4>1. last_active' = 0 /\ keep_online' = Deadline(config.min_online_time)
                BY <1>2, <3>1 DEF Arm
            <4> QED
                BY <1>2, <4>1, ConfigTyped
                   DEF TypeOK, Arm, TimersCurrent, Deadline, histVars, ConfigType
        <3>2. CASE upd[t].new # "Started"
            <4>1. UNCHANGED <<last_active, keep_online>>
                BY <1>2, <3>2 DEF Arm
            <4>2. Detecting(Mon) => Detecting(Mon)'
                BY <2>1, <3>2 DEF Detecting
            <4> QED
                BY <1>2, <4>1, <4>2 DEF Arm, SleepInv, TimersCurrent, histVars
        <3> QED
            BY <3>1, <3>2
    <2> QED
        BY <2>2, <2>3 DEF SleepInv
<1> QED
    BY <1>1, <1>2

LEMMA SleepTick == ASSUME TypeOK, SleepInv, Tick PROVE SleepInv'
<1>1. \A u \in Tasks : Detecting(u)' = Detecting(u)
    BY DEF Tick, cellVars, Detecting
<1>2. OnlyMonitorDetects' /\ MonitorLocals'
    BY <1>1 DEF Tick, SleepInv, OnlyMonitorDetects, MonitorLocals, cellVars
<1>3. /\ config.sleep_after \in Nat /\ config.min_online_time \in Nat
      /\ config' = config /\ poll' = poll
    BY ConfigTyped DEF ConfigType, Tick
<1>4. TimersCurrent'
    BY <1>1, <1>3
       DEF Tick, SleepInv, TimersCurrent, TypeOK, Older, HistoryCap, Tasks,
           Stoppers
<1>5. SleepsOnlyWhenIdle'
    BY <1>3 DEF Tick, SleepInv, SleepsOnlyWhenIdle, TypeOK, Older
<1> QED
    BY <1>2, <1>4, <1>5 DEF SleepInv

LEMMA SleepMonitor ==
    ASSUME TypeOK, SleepInv, MonitorServer
    PROVE  SleepInv'
<1> Mon \in Tasks
    BY DEF Tasks, Stoppers
<1>0. Free(Mon) /\ ~Detecting(Mon)
    BY MonitorSummary DEF Moves, Free, Detecting
<1>1. ASSUME UNCHANGED upd PROVE \A u \in Tasks : Detecting(u)' = Detecting(u)
    BY <1>1 DEF Detecting
<1> USE <1>0 DEF TypeOK, At, Goto, SleepInv, OnlyMonitorDetects, TimersCurrent,
                 MonitorLocals, SleepsOnlyWhenIdle, timerVars, histVars
<1>2. CASE FetchOk
    <2>1. \A u \in Tasks : Detecting(u)' = Detecting(u)
        BY <1>1, <1>2 DEF FetchOk, cellVars
    <2>2. /\ UNCHANGED <<config, state, last_active, keep_online, up_time>>
          /\ pc'[Mon] \in {"apply", "ping"}
        BY <1>2 DEF FetchOk, cellVars
    <2>3. poll # "busy" /\ (poll' # "busy" => quiet' = quiet)
        BY <1>2 DEF FetchOk
    <2>4. poll' = "busy" => pc'[Mon] = "apply"
        BY <1>2, <2>3 DEF FetchOk
    <2> QED
        BY <2>1, <2>2, <2>3, <2>4
<1>3. CASE FetchFail
    <2>1. \A u \in Tasks : Detecting(u)' = Detecting(u)
        BY <1>1, <1>3 DEF FetchFail, cellVars
    <2>2. /\ UNCHANGED <<config, state, last_active, keep_online, up_time>>
          /\ pc'[Mon] \in {"apply", "ping"}
        BY <1>3 DEF FetchFail, cellVars
    <2>3. poll # "busy" /\ (poll' # "busy" => quiet' = quiet)
        BY <1>3 DEF FetchFail
    <2>4. poll' = "busy" => pc'[Mon] = "apply"
        BY <1>3, <2>3 DEF FetchFail
    <2> QED
        BY <2>1, <2>2, <2>3, <2>4
<1>4. CASE Ping
    <2>1. \A u \in Tasks : Detecting(u)' = Detecting(u)
        BY <1>1, <1>4 DEF Ping, cellVars
    <2>2. /\ UNCHANGED <<config, state, last_active, keep_online, up_time>>
          /\ pc'[Mon] \in {"apply", "ping"}
        BY <1>4 DEF Ping, cellVars
    <2>3. poll # "busy" /\ (poll' # "busy" => quiet' = quiet)
        BY <1>4 DEF Ping
    <2>4. poll' = "busy" => pc'[Mon] = "apply"
        BY <1>4, <2>3 DEF Ping
    <2> QED
        BY <2>1, <2>2, <2>3, <2>4
<1>5. CASE ReadState
    BY <1>1, <1>5 DEF ReadState, cellVars
<1>6. CASE ToStarted
    <2>1. state # "Started"
        BY <1>6 DEF ToStarted
    <2>2. upd' = [upd EXCEPT ![Mon] = [at |-> "send", new |-> "Started"]]
        BY <1>6, <2>1 DEF ToStarted, Swap
    <2>3. Detecting(Mon)' /\ \A u \in Tasks : u # Mon => Detecting(u)' = Detecting(u)
        BY <2>2 DEF Detecting
    <2> QED
        BY <1>6, <2>3 DEF ToStarted
<1>7. CASE ToStopped
    <2>1. \A u \in Tasks : Detecting(u)' => Detecting(u)
        BY <1>7 DEF ToStopped, Swap, Detecting, Updates
    <2>2. UNCHANGED <<config, last_active, keep_online, poll, up_time, quiet>>
        BY <1>7 DEF ToStopped
    <2>3. pc'[Mon] = "store"
        BY <1>7 DEF ToStopped
    <2> QED
        BY <2>1, <2>2, <2>3
<1>8. CASE StoreStatus
    <2>1. \A u \in Tasks : Detecting(u)' = Detecting(u)
        BY <1>1, <1>8 DEF StoreStatus, cellVars
    <2> QED
        BY <1>8, <2>1 DEF StoreStatus, cellVars
<1>9. CASE ShouldSleep
    <2>1. \A u \in Tasks : Detecting(u)' = Detecting(u)
        BY <1>1, <1>9 DEF ShouldSleep, cellVars
    <2>2. OnlyMonitorDetects' /\ TimersCurrent' /\ MonitorLocals'
        BY <1>9, <2>1 DEF ShouldSleep, cellVars
    <2>3. CASE state = "Started" /\ IdleLongEnough
        <3>1. /\ config.sleep_after \in Nat /\ config.min_online_time \in Nat
              /\ last_active \in Nat /\ up_time \in Nat /\ quiet \in Nat
            BY <2>3, ConfigTyped DEF IdleLongEnough, ConfigType
        <3>2. /\ last_active >= config.sleep_after /\ keep_online = -1
              /\ last_active <= up_time /\ last_active <= quiet
              /\ config.min_online_time > 0 =>
                    up_time + keep_online >= config.min_online_time
            BY <1>9, <2>3 DEF IdleLongEnough, ShouldSleep
        <3>3. UNCHANGED <<config, up_time, quiet>>
            BY <1>9 DEF ShouldSleep
        <3>4. SleepsOnlyWhenIdle'
            BY <3>1, <3>2, <3>3
        <3> QED
            BY <2>2, <3>4
    <2>4. CASE ~(state = "Started" /\ IdleLongEnough)
        BY <1>9, <2>2, <2>4 DEF ShouldSleep
    <2> QED
        BY <2>3, <2>4
<1>10. CASE ShouldKill
    BY <1>1, <1>10 DEF ShouldKill, cellVars
<1>11. CASE ForceKill
    BY <1>1, <1>11 DEF ForceKill, cellVars
<1> QED
    BY <1>2, <1>3, <1>4, <1>5, <1>6, <1>7, <1>8, <1>9, <1>10, <1>11
       DEF MonitorServer

LEMMA SleepStep == TypeOK /\ SleepInv /\ [Next]_vars => SleepInv'
<1> SUFFICES ASSUME TypeOK, SleepInv, [Next]_vars PROVE SleepInv'
    OBVIOUS
<1> Mon \in Tasks /\ Sig \in Tasks /\ Mon # Sig /\ Mon \notin Starters
    BY ClientsAreNoTask, ProcsAreNoTask DEF Tasks, Stoppers, Starters, Mon, Sig, Boot
<1> DEFINE Same == UNCHANGED <<config, state, upd, MonitorOwn>> /\ pc'[Mon] = pc[Mon]
<1>0. Same => SleepInv'
    BY DEF SleepInv, OnlyMonitorDetects, Detecting, TimersCurrent, MonitorLocals,
           SleepsOnlyWhenIdle, MonitorOwn
<1>1. ASSUME NEW t \in Tasks, Send(t) \/ Arm(t) PROVE SleepInv'
    BY <1>1, SleepUpdate
<1>2. CASE MonitorServer
    BY <1>2, SleepMonitor
<1>3. ASSUME NEW t \in Stoppers, Stop(t) PROVE SleepInv'
    <2>1. t \in Tasks /\ Free(t) /\ Sets(t, {"Stopped", "Starting", "Stopping"})
        BY <1>3, StopSummary DEF Tasks, Moves, Sets
    <2>2. \/ pc'[Mon] = pc[Mon]
          \/ pc[Mon] \in StopLabels /\ pc'[Mon] \in StopExits
        BY <1>3, StopSummary DEF TypeOK, Moves, Goto
    <2> QED
        BY <1>3, <2>1, <2>2, StopSummary, SleepKept
<1>4. ASSUME NEW t \in Starters, Start(t) PROVE SleepInv'
    <2>1. t \in Tasks /\ Free(t) /\ Sets(t, {"Stopped", "Starting", "Stopping"})
        BY <1>4, StartSummary DEF Tasks, Moves, Sets, Spawn, At
    <2>2. pc'[Mon] = pc[Mon]
        BY <1>4, StartSummary DEF TypeOK, Moves, Goto, Spawn, Starters
    <2> QED
        BY <1>4, <2>1, <2>2, StartSummary, SleepKept
<1>5. ASSUME NEW p \in Procs, InvokeServerCmd(p) PROVE SleepInv'
    <2>1. p \in Tasks /\ p # Mon
        BY DEF Tasks, Starters
    <2>2. Free(p) /\ Sets(p, {"Stopped", "Starting", "Stopping"})
        BY <1>5, ServerCmdSummary DEF Moves, Sets
    <2>3. pc'[Mon] = pc[Mon]
        BY <1>5, <2>1, ServerCmdSummary DEF TypeOK, Moves, Goto
    <2> QED
        BY <1>5, <2>1, <2>2, <2>3, ServerCmdSummary, SleepKept
<1>6. ASSUME NEW c \in Clients, Join(c) PROVE SleepInv'
    <2>1. c # Mon
        BY DEF Starters
    <2>2. pc'[Mon] = pc[Mon]
        BY <1>6, <2>1, JoinSummary DEF TypeOK, Goto
    <2> QED
        BY <1>0, <1>6, <2>2, JoinSummary
<1>7. CASE Tick
    BY <1>7, SleepTick
<1>8. CASE CtrlC
    <2>1. pc'[Mon] = pc[Mon]
        BY <1>8, CtrlCSummary DEF TypeOK, Goto
    <2> QED
        BY <1>0, <1>8, <2>1, CtrlCSummary DEF cellVars
<1>9. ASSUME NEW p \in Procs, Minecraft(p) PROVE SleepInv'
    BY <1>0, <1>9, MinecraftSummary DEF cellVars, timerVars, histVars, MonitorOwn
<1>10. CASE UNCHANGED vars
    BY <1>0, <1>10 DEF vars, cellVars, timerVars, histVars, MonitorOwn
<1> QED
    BY <1>1, <1>2, <1>3, <1>4, <1>5, <1>6, <1>7, <1>8, <1>9, <1>10
       DEF Next, Run, Environment

\* The monitor never decides to sleep early: for all timeouts, under all
\* faults, and whatever timers and player counts earlier runs left behind.
THEOREM SleepsWhenIdle == Spec => []SleepsOnlyWhenIdle
<1>1. Init => SleepInv
    <2> SUFFICES ASSUME Init PROVE SleepInv
        OBVIOUS
    <2>1. config.sleep_after \in Nat /\ config.min_online_time \in Nat
        BY ConfigsTyped DEF Init, ConfigType
    <2>2. pc[Mon] = "tick"
        BY DEF Init, Tasks, Stoppers, Mon, Boot
    <2>3. \A t \in Tasks : ~Detecting(t)
        BY DEF Init, NoUpdate, Detecting
    <2> QED
        BY <2>1, <2>2, <2>3
           DEF Init, SleepInv, OnlyMonitorDetects, TimersCurrent, MonitorLocals,
               SleepsOnlyWhenIdle, HistoryCap
<1>2. SleepInv => SleepsOnlyWhenIdle
    BY DEF SleepInv
<1> QED
    BY <1>1, <1>2, SleepStep, TypeCorrect, PTL DEF Spec

-----------------------------------------------------------------------------
(* RCON.  The semaphore holder alone is between the cooldown check and the *)
(* end of its session, and the cooldown covers the time since the last     *)
(* acknowledged `stop` except while that session has yet to note it.       *)

Session == {"rcon.stop", "rcon.mark", "rcon.close"}

RconInv ==
    /\ \A t \in Stoppers : pc[t] \in Session => rcon_lock = t
    /\ \A t \in Stoppers :
          pc[t] = "rcon.stop" => rcon_age >= RconCooldown /\ rcon_wait = 0
    /\ \/ rcon_age + rcon_wait >= RconCooldown
       \/ \E t \in Stoppers : pc[t] = "rcon.mark"

LEMMA RconKept ==
    ASSUME RconInv, UNCHANGED <<rconVars, rcon_age>>,
           \A t \in Stoppers : \/ pc'[t] = pc[t]
                               \/ pc[t] \notin Session /\ pc'[t] \notin Session
    PROVE  RconInv'
BY DEF RconInv, rconVars, Session

LEMMA RconMoves ==
    ASSUME TypeOK, RconInv, UNCHANGED <<rconVars, rcon_age>>,
           NEW t \in Tasks, NEW from, NEW to, Moves(t, from, to),
           from \cap Session = {}, to \cap Session = {}
    PROVE  RconInv'
<1>1. \A u \in Stoppers : \/ pc'[u] = pc[u]
                          \/ pc[u] \notin Session /\ pc'[u] \notin Session
    BY DEF TypeOK, Moves, Goto, Tasks
<1> QED
    BY <1>1, RconKept

LEMMA RconStops ==
    ASSUME TypeOK, RconInv, NEW t \in Stoppers, Stop(t)
    PROVE  RconInv'
<1> t \in Tasks /\ Stoppers \subseteq Tasks
    BY DEF Tasks
<1> USE DEF At, rconVars, histVars
<1>1. CASE RconAcquire(t)
    <2>1. CASE rcon_wait = 0
        <3>1. \A u \in Stoppers : pc[u] \notin Session
            BY <1>1 DEF RconAcquire, RconInv, Stoppers, Mon, Sig
        <3>2. rcon_age >= RconCooldown
            BY <2>1, <3>1, CooldownTyped DEF RconInv, TypeOK, Session
        <3> QED
            BY <1>1, <2>1, <3>1, <3>2
               DEF RconAcquire, RconInv, Goto, TypeOK, Session
    <2>2. CASE rcon_wait # 0
        <3>1. UNCHANGED <<rconVars, rcon_age>>
            BY <1>1, <2>2 DEF RconAcquire
        <3>2. Moves(t, {"rcon"}, {"should_kill", "idle", "term.pid"})
            BY <1>1, <2>2, StopReturnSummary DEF RconAcquire, Moves
        <3> QED
            BY <3>1, <3>2, RconMoves DEF Session
    <2> QED
        BY <2>1, <2>2
<1>2. CASE RconStop(t)
    <2>1. \A u \in Stoppers : u # t => pc[u] \notin Session
        BY <1>2 DEF RconStop, RconInv, Session
    <2> QED
        BY <1>2, <2>1 DEF RconStop, RconInv, Goto, TypeOK, Session
<1>3. CASE RconLost(t) \/ RconFail(t)
    <2>1. \E l \in {"should_kill", "idle", "term.pid"} : Goto(t, l)
        BY <1>3, StopReturnSummary DEF RconLost, RconFail
    <2>2. pc[t] = "rcon.stop" /\ UNCHANGED <<rcon_wait, rcon_age>>
        BY <1>3 DEF RconLost, RconFail
    <2>3. \A u \in Stoppers : u # t => pc[u] \notin Session
        BY <2>2 DEF RconInv, Session
    <2>4. rcon_age + rcon_wait >= RconCooldown
        BY <2>2, CooldownTyped DEF RconInv, TypeOK
    <2> QED
        BY <2>1, <2>2, <2>3, <2>4 DEF RconInv, Goto, TypeOK, Session
<1>4. CASE RconMark(t)
    <2>1. \A u \in Stoppers : u # t => pc[u] \notin Session
        BY <1>4 DEF RconMark, RconInv, Session
    <2>2. rcon_age + RconCooldown >= RconCooldown
        BY CooldownTyped DEF TypeOK
    <2> QED
        BY <1>4, <2>1, <2>2 DEF RconMark, RconInv, Goto, TypeOK, Session
<1>5. CASE RconClose(t)
    <2>1. \A u \in Stoppers : u # t => pc[u] \notin Session
        BY <1>5 DEF RconClose, RconInv, Session
    <2>2. \E l \in {"should_kill", "idle", "term.pid"} : Goto(t, l)
        BY <1>5, StopReturnSummary DEF RconClose
    <2>3. pc[t] = "rcon.close" /\ UNCHANGED <<rcon_wait, rcon_age>>
        BY <1>5 DEF RconClose
    <2> QED
        BY <2>1, <2>2, <2>3 DEF RconInv, Goto, TypeOK, Session
<1>6. ASSUME \/ FreezePid(t) \/ Freeze(t) \/ FreezeStarting(t) \/ FreezeStarted(t)
             \/ ChooseRcon(t) \/ TermPid(t) \/ Term(t) \/ TermStarting(t)
             \/ TermStarted(t) \/ Stopped(t)
      PROVE  RconInv'
    <2>1. UNCHANGED <<rconVars, rcon_age>>
        BY <1>6 DEF FreezePid, Freeze, FreezeStarting, FreezeStarted, ChooseRcon,
               TermPid, Term, TermStarting, TermStarted, Stopped
    <2>2. Moves(t, StopLabels \ Session, StopExits \ Session)
        BY <1>6, StopSummary, StopReturnSummary, CompareExchangeSummary
           DEF FreezePid, Freeze, FreezeStarting, FreezeStarted, ChooseRcon,
               TermPid, Term, TermStarting, TermStarted, Stopped, CopyPid,
               Moves, StopLabels, StopExits, Session
    <2> QED
        BY <2>1, <2>2, RconMoves
<1> QED
    BY <1>1, <1>2, <1>3, <1>4, <1>5, <1>6 DEF Stop

LEMMA RconTick == ASSUME TypeOK, RconInv, Tick PROVE RconInv'
BY CooldownTyped DEF TypeOK, RconInv, Tick, Older, Nearer, Stoppers

LEMMA RconStep == TypeOK /\ RconInv /\ [Next]_vars => RconInv'
<1> SUFFICES ASSUME TypeOK, RconInv, [Next]_vars PROVE RconInv'
    OBVIOUS
<1> /\ Mon \in Tasks /\ Sig \in Tasks /\ Stoppers \cap Starters = {}
    /\ Stoppers = {Mon, Sig}
    BY ClientsAreNoTask, ProcsAreNoTask DEF Tasks, Stoppers, Starters, Mon, Sig, Boot
<1>0. UNCHANGED <<rconVars, rcon_age, pc>> => RconInv'
    BY RconKept
<1>1. ASSUME NEW t \in Tasks, Send(t) \/ Arm(t) PROVE RconInv'
    BY <1>0, <1>1 DEF Send, Arm, histVars
<1>2. CASE MonitorServer
    BY <1>2, MonitorSummary, RconMoves DEF MonitorLabels, Session
<1>3. ASSUME NEW t \in Stoppers, Stop(t) PROVE RconInv'
    BY <1>3, RconStops
<1>4. ASSUME NEW t \in Starters, Start(t) PROVE RconInv'
    <2>1. \A u \in Stoppers : pc'[u] = pc[u]
        BY <1>4, StartSummary DEF TypeOK, Moves, Goto, Spawn, Starters, Tasks
    <2> QED
        BY <1>4, <2>1, StartSummary, RconKept
<1>5. ASSUME NEW p \in Procs, InvokeServerCmd(p) PROVE RconInv'
    BY <1>5, ServerCmdSummary, RconMoves DEF Tasks, Starters, Session
<1>6. ASSUME NEW c \in Clients, Join(c) PROVE RconInv'
    <2>1. \A u \in Stoppers : pc'[u] = pc[u]
        BY <1>6, JoinSummary DEF TypeOK, Goto, Starters, Tasks
    <2> QED
        BY <1>6, <2>1, JoinSummary, RconKept
<1>7. CASE Tick
    BY <1>7, RconTick
<1>8. CASE CtrlC
    <2>1. \A u \in Stoppers : \/ pc'[u] = pc[u]
                              \/ pc[u] \notin Session /\ pc'[u] \notin Session
        BY <1>8, CtrlCSummary DEF TypeOK, Goto, Tasks, Session
    <2> QED
        BY <1>8, <2>1, CtrlCSummary, RconKept
<1>9. ASSUME NEW p \in Procs, Minecraft(p) PROVE RconInv'
    BY <1>0, <1>9, MinecraftSummary DEF histVars
<1>10. CASE UNCHANGED vars
    BY <1>0, <1>10 DEF vars, histVars
<1> QED
    BY <1>1, <1>2, <1>3, <1>4, <1>5, <1>6, <1>7, <1>8, <1>9, <1>10
       DEF Next, Run, Environment

\* Acknowledged `stop` commands are RCON_COOLDOWN apart, whatever the length of
\* the cooldown, whichever of the two callers sends them, and with sessions
\* that fail in between.
THEOREM RconIsSpaced == Spec => RconSpacing
<1>1. Init => RconInv
    BY CooldownTyped
       DEF Init, RconInv, Session, Tasks, Stoppers, Mon, Sig, Boot
<1>2. RconInv => [(\E t \in Stoppers : RconStop(t)) => rcon_age >= RconCooldown]_vars
    BY DEF RconInv, RconStop, At
<1> QED
    BY <1>1, <1>2, RconStep, TypeCorrect, PTL DEF Spec, RconSpacing

-----------------------------------------------------------------------------
(* ctrl-c.  Without logins one task at a time works at a run, from the     *)
(* start to the end of its cooldown, and whoever is about to change the    *)
(* state knows what its process is doing.                                  *)

LEMMA TaskNames ==
    /\ Mon \in Tasks /\ Sig \in Tasks /\ Mon # Sig
    /\ Mon \notin Starters /\ Sig \notin Starters
    /\ Clients \subseteq Starters /\ Procs \subseteq Starters
    /\ Starters \subseteq Tasks /\ Clients \cap Procs = {}
    /\ Boot \in Starters /\ Boot \notin Clients /\ Boot \notin Procs
BY ClientsAreNoTask, ProcsAreNoTask
   DEF Tasks, Stoppers, Starters, Mon, Sig, Boot

\* Servers answer, nobody logs in, and there are signals.
Unattended ==
    /\ "mute" \notin Faults /\ "stall" \notin Faults
    /\ Clients = {}
    /\ \A cfg \in Configs : cfg.unix

\* A task that waits for its process, or has just reaped it.
Attending == {"wait", "take", "cool"}

OneAtWork == \A t, u \in Starters : pc[t] # "idle" /\ pc[u] # "idle" => t = u

ProcShape ==
    /\ \A t \in Starters :
          pc[t] \in {"idle", "start", "thaw.pid", "spawn", "exec", "register"} \cup Attending
    /\ \A p \in Procs :
          /\ proc[p] # "none" => pc[p] \in {"register", "wait"}
          /\ pc[p] = "register" => proc[p] \in {"booting", "exited"}

\* No start is under way, and no process is in one of these states.
Standing == \A t \in Starters : pc[t] \in {"idle"} \cup Attending
NoneIn(s) == \A p \in Procs : proc[p] \notin s

\* What the state says of the process, ...
StateMeans ==
    /\ state = "Started" => Standing /\ NoneIn({"booting"})
    /\ state = "Stopped" => /\ \A t \in Starters : pc[t] \in {"idle", "start"} \cup Attending
                            /\ NoneIn({"booting", "online"})

\* ... what the monitor knows of it before it sets the state, ...
MonitorKnows ==
    /\ pc[Mon] = "to_started" \/ (pc[Mon] = "apply" /\ Reached)
          => Standing /\ NoneIn({"booting"})
    /\ pc[Mon] = "to_stopped" => Standing /\ NoneIn({"booting", "online"})
    /\ state = "Started" /\ (pc[Mon] = "ping" \/ (pc[Mon] = "apply" /\ ~Reached))
          => NoneIn({"online"})

\* ... and what a task inside stop does.
StoppersKnow ==
    \A t \in Stoppers :
        /\ pc[t] \in {"freeze", "term"} => copied[t] \in Procs /\ pc[copied[t]] \in Attending
        /\ pc[t] \in {"freeze.starting", "freeze.started"}
              => Standing /\ NoneIn({"booting", "online"})

QuitInv ==
    /\ OneAtWork /\ ProcShape /\ StateMeans
    /\ MonitorKnows /\ StoppersKnow /\ NotAbandoned

\* Processes are signalled or end, and that is all that happens to them.
Fades ==
    \A p \in Procs :
        \/ proc'[p] = proc[p]
        \/ /\ proc[p] # "none" /\ proc'[p] \in {"closing", "frozen", "condemned", "exited"}
           /\ pc[p] = "register" => proc'[p] = "exited"

\* A signal to a process that its own task attends to.
LEMMA SignalFades ==
    ASSUME TypeOK, NEW p \in Procs, pc[p] # "register",
           \/ proc' = [proc EXCEPT ![p] = SigStop(proc[p])]
           \/ proc' = [proc EXCEPT ![p] = SigTerm(proc[p])]
           \/ proc' = [proc EXCEPT ![p] = SigKill(proc[p])]
    PROVE  Fades
BY DEF TypeOK, ProcStates, Fades, SigStop, SigTerm, SigKill

\* A step of a stopper that sets the state only where it knows the process.
LEMMA StopperQuit ==
    ASSUME TypeOK, QuitInv, Fades, NEW t \in Stoppers, NEW l,
           pc' = [pc EXCEPT ![t] = l],
           l \notin {"ping", "apply", "to_started", "to_stopped"},
           t = Mon \/ UNCHANGED poll,
           \/ state' \in {state, "Stopping"}
           \/ state' = "Stopped" /\ Standing /\ NoneIn({"booting", "online"})
           \/ state' = "Started" /\ t = Mon /\ Standing /\ NoneIn({"booting"}),
           \A u \in Stoppers : u # t => copied'[u] = copied[u],
           l \in {"freeze", "term"} => copied'[t] \in Procs /\ pc[copied'[t]] \in Attending,
           l \in {"freeze.starting", "freeze.started"}
              => Standing /\ NoneIn({"booting", "online"})',
           NotAbandoned'
    PROVE  QuitInv'
<1> USE TaskNames
<1>1. \A u \in Starters : pc'[u] = pc[u]
    BY DEF TypeOK, Tasks, Stoppers
<1>2. /\ pc'[t] = l /\ \A u \in Stoppers : u # t => pc'[u] = pc[u]
      /\ Mon \in Stoppers
    BY DEF TypeOK, Tasks, Stoppers
<1>3. /\ Standing => Standing'
      /\ NoneIn({"booting"}) => NoneIn({"booting"})'
      /\ NoneIn({"online"}) => NoneIn({"online"})'
      /\ NoneIn({"booting", "online"}) => NoneIn({"booting", "online"})'
    BY <1>1 DEF Standing, NoneIn, Fades
<1>4. OneAtWork' /\ ProcShape'
    BY <1>1 DEF QuitInv, OneAtWork, ProcShape, Fades
<1>5. StateMeans'
    <2>1. CASE state' \in {state, "Stopping"}
        BY <1>1, <1>3, <2>1 DEF QuitInv, StateMeans
    <2>2. CASE state' = "Stopped" /\ Standing /\ NoneIn({"booting", "online"})
        BY <1>3, <2>2 DEF StateMeans, Standing
    <2>3. CASE state' = "Started" /\ Standing /\ NoneIn({"booting"})
        BY <1>3, <2>3 DEF StateMeans
    <2> QED
        BY <2>1, <2>2, <2>3
<1>6. MonitorKnows'
    <2>1. CASE t = Mon
        BY <1>2, <2>1 DEF MonitorKnows
    <2>2. CASE t # Mon
        BY <1>2, <1>3, <2>2 DEF QuitInv, MonitorKnows, Reached
    <2> QED
        BY <2>1, <2>2
<1>7. StoppersKnow'
    <2>1. ASSUME NEW u \in Stoppers
          PROVE  /\ pc'[u] \in {"freeze", "term"}
                      => copied'[u] \in Procs /\ pc'[copied'[u]] \in Attending
                 /\ pc'[u] \in {"freeze.starting", "freeze.started"}
                      => Standing' /\ NoneIn({"booting", "online"})'
        <3>1. CASE u = t
            BY <1>1, <1>2, <1>3, <3>1
        <3>2. CASE u # t
            BY <1>1, <1>2, <1>3, <3>2 DEF QuitInv, StoppersKnow
        <3> QED
            BY <3>1, <3>2
    <2> QED
        BY <2>1 DEF StoppersKnow
<1> QED
    BY <1>4, <1>5, <1>6, <1>7 DEF QuitInv

\* A step of the environment, or of an update: no task moves.
LEMMA QuitKept ==
    ASSUME QuitInv, Fades, UNCHANGED <<state, pc, copied, poll>>, NotAbandoned'
    PROVE  QuitInv'
<1>1. /\ Standing => Standing'
      /\ NoneIn({"booting"}) => NoneIn({"booting"})'
      /\ NoneIn({"online"}) => NoneIn({"online"})'
      /\ NoneIn({"booting", "online"}) => NoneIn({"booting", "online"})'
    BY DEF Standing, NoneIn, Fades
<1>2. OneAtWork' /\ ProcShape'
    BY DEF QuitInv, OneAtWork, ProcShape, Fades
<1>3. StateMeans'
    BY <1>1 DEF QuitInv, StateMeans
<1>4. MonitorKnows'
    BY <1>1 DEF QuitInv, MonitorKnows, Reached
<1>5. StoppersKnow'
    BY <1>1 DEF QuitInv, StoppersKnow
<1> QED
    BY <1>2, <1>3, <1>4, <1>5 DEF QuitInv

\* While a process is attended to nobody starts another.
LEMMA Attended ==
    ASSUME TypeOK, QuitInv, NEW p \in Procs, pc[p] \in Attending
    PROVE  Standing /\ \A q \in Procs : q # p => pc[q] = "idle" /\ proc[q] = "none"
BY TaskNames DEF QuitInv, OneAtWork, ProcShape, Standing, Attending

\* stop on unix ends at a signal, or finds that there is nothing to signal.
LEMMA StopWithoutRcon ==
    ASSUME Unattended, TypeOK, NEW t \in Stoppers, WithoutRcon(t)
    PROVE  pc' = [pc EXCEPT ![t] = "term.pid"] /\ UNCHANGED quit
BY DEF Unattended, TypeOK, WithoutRcon, Goto

LEMMA StopGoesBack ==
    ASSUME NEW t \in Stoppers, NEW b, StopReturn(t, b)
    PROVE  /\ \E l \in {"should_kill", "idle"} : pc' = [pc EXCEPT ![t] = l]
           /\ quit' \in {quit, ~b}
BY DEF StopReturn, Goto

LEMMA QuitStop ==
    ASSUME Unattended, TypeOK, PidOwned, QuitInv, ~quit, NEW t \in Stoppers, Stop(t)
    PROVE  QuitInv'
<1> USE TaskNames DEF At, Goto
<1>0. /\ t \in Tasks /\ Stoppers \subseteq Tasks /\ pid \in Procs \cup {NoPid} /\ UNCHANGED <<poll, pid>>
      /\ copied \in [Tasks -> Procs \cup {NoPid}] /\ pc \in [Tasks -> Labels]
      /\ proc \in [Procs -> ProcStates]
    BY StopSummary DEF TypeOK, Tasks, MonitorOwn
<1>1. CASE FreezePid(t) \/ TermPid(t)
    <2>1. UNCHANGED <<state, proc>>
        BY <1>1 DEF FreezePid, TermPid, cellVars, procVars
    <2>2. /\ \A u \in Stoppers : u # t => copied'[u] = copied[u]
          /\ \E l \in {"stop.rcon", "freeze", "term", "should_kill", "idle"} :
                /\ pc' = [pc EXCEPT ![t] = l]
                /\ l \in {"freeze", "term"} => pid # NoPid /\ copied'[t] = pid
          /\ quit' => pid = NoPid
        <3>1. CASE FreezePid(t)
            <4>1. CASE pid = NoPid
                BY <3>1, <4>1 DEF FreezePid, CopyPid
            <4>2. CASE pid # NoPid
                BY <1>0, <3>1, <4>2 DEF FreezePid, CopyPid
            <4> QED
                BY <4>1, <4>2
        <3>2. CASE TermPid(t)
            <4>1. CASE pid = NoPid
                <5>1. /\ StopReturn(t, FALSE) /\ copied' = copied
                    BY <3>2, <4>1 DEF TermPid
                <5>2. \E l \in {"should_kill", "idle"} : pc' = [pc EXCEPT ![t] = l]
                    BY <5>1, StopGoesBack
                <5> QED
                    BY <4>1, <5>1, <5>2
            <4>2. CASE pid # NoPid
                BY <1>0, <3>2, <4>2 DEF TermPid
            <4> QED
                BY <4>1, <4>2
        <3> QED
            BY <1>1, <3>1, <3>2
    <2>3. pid # NoPid => pid \in Procs /\ pc[pid] \in Attending
        BY <1>0 DEF PidOwned, Attending
    <2>4. Fades /\ NotAbandoned'
        <3>1. Fades
            BY <2>1 DEF Fades
        <3>2. NotAbandoned'
            BY <1>0, <2>2 DEF NotAbandoned
        <3> QED
            BY <3>1, <3>2
    <2>5. PICK l \in {"stop.rcon", "freeze", "term", "should_kill", "idle"} :
              pc' = [pc EXCEPT ![t] = l] /\ (l \in {"freeze", "term"} => pid # NoPid /\ copied'[t] = pid)
        BY <2>2
    <2>6. /\ l \notin {"ping", "apply", "to_started", "to_stopped", "freeze.starting", "freeze.started"}
          /\ l \in {"freeze", "term"} => copied'[t] \in Procs /\ pc[copied'[t]] \in Attending
        BY <2>3, <2>5
    <2> QED
        BY <1>0, <2>1, <2>2, <2>4, <2>5, <2>6, StopperQuit
<1>2. CASE Freeze(t) \/ Term(t)
    <2> DEFINE q == copied[t]
    <2>1. /\ UNCHANGED state
          /\ \A u \in Stoppers : u # t => copied'[u] = copied[u]
        BY <1>0, <1>2 DEF Freeze, Term, cellVars
    <2>2. q \in Procs /\ pc[q] \in Attending
        BY <1>2 DEF Freeze, Term, QuitInv, StoppersKnow
    <2>3. Fades
        BY <1>2, <2>2, SignalFades DEF Freeze, Term, Signal, Attending
    <2>4. /\ \E l \in {"freeze.starting", "term.starting", "should_kill", "idle"} :
                /\ pc' = [pc EXCEPT ![t] = l]
                /\ l = "freeze.starting" => Freeze(t)
          /\ quit' => proc[q] = "none" /\ proc'[q] = "none"
        BY <1>0, <1>2, <2>2, StopGoesBack DEF Freeze, Term, Signal, SigTerm
    <2>5. Freeze(t) => Standing /\ NoneIn({"booting", "online"})'
        BY <1>0, <2>2, <2>3, Attended DEF Freeze, Signal, SigStop, NoneIn, ProcStates
    <2>6. NotAbandoned'
        BY <1>0, <2>2, <2>3, <2>4, Attended DEF NotAbandoned, PidOwned, Fades
    <2> QED
        BY <2>1, <2>3, <2>4, <2>5, <2>6, <1>0, StopperQuit
<1>3. CASE FreezeStarting(t) \/ FreezeStarted(t)
    <2>1. /\ UNCHANGED <<proc, copied, quit>> /\ state' \in {state, "Stopped"}
          /\ \E l \in {"freeze.started", "stopped"} : pc' = [pc EXCEPT ![t] = l]
          /\ pc[t] \in {"freeze.starting", "freeze.started"}
        BY <1>3 DEF FreezeStarting, FreezeStarted, CompareExchange, Swap, procVars
    <2>2. Standing /\ NoneIn({"booting", "online"}) /\ NoneIn({"booting", "online"})'
        BY <2>1 DEF QuitInv, StoppersKnow, NoneIn
    <2>3. Fades /\ NotAbandoned'
        BY <1>0, <2>1 DEF Fades, NotAbandoned
    <2> QED
        BY <2>1, <2>2, <2>3, <1>0, StopperQuit
<1>4. CASE ChooseRcon(t) \/ RconAcquire(t) \/ RconFail(t) \/ RconClose(t) \/ Stopped(t)
    <2>1. UNCHANGED <<state, proc, copied>>
        BY <1>4 DEF ChooseRcon, RconAcquire, RconFail, RconClose, Stopped, cellVars, procVars
    <2>2. /\ \E l \in {"rcon", "rcon.stop", "term.pid", "should_kill", "idle"} :
                pc' = [pc EXCEPT ![t] = l]
          /\ ~quit'
        BY <1>4, StopWithoutRcon, StopGoesBack
           DEF ChooseRcon, RconAcquire, RconFail, RconClose, Stopped
    <2>3. Fades /\ NotAbandoned'
        BY <2>1, <2>2 DEF Fades, NotAbandoned
    <2> QED
        BY <2>1, <2>2, <2>3, <1>0, StopperQuit
<1>5. CASE RconStop(t) \/ RconLost(t)
    <2>1. UNCHANGED <<state, copied>>
        BY <1>5 DEF RconStop, RconLost, cellVars
    <2>2. /\ \E l \in {"rcon.mark", "term.pid"} : pc' = [pc EXCEPT ![t] = l]
          /\ ~quit'
        BY <1>5, StopWithoutRcon DEF RconStop, RconLost
    <2>3. PICK p \in Procs : proc[p] = "online" /\ proc' = [proc EXCEPT ![p] = SigTerm(proc[p])]
        BY <1>5 DEF RconStop, RconLost, Signal
    <2>4. Fades
        BY <2>3, SignalFades DEF QuitInv, ProcShape
    <2>5. NotAbandoned'
        BY <2>2 DEF NotAbandoned
    <2> QED
        BY <2>1, <2>2, <2>4, <2>5, <1>0, StopperQuit
<1>6. CASE RconMark(t) \/ TermStarting(t) \/ TermStarted(t)
    <2>1. /\ UNCHANGED <<proc, copied, quit>> /\ state' \in {state, "Stopping"}
          /\ \E l \in {"rcon.close", "term.started", "stopped"} : pc' = [pc EXCEPT ![t] = l]
        BY <1>6 DEF RconMark, TermStarting, TermStarted, CompareExchange, Swap, procVars
    <2>2. Fades /\ NotAbandoned'
        BY <2>1 DEF Fades, NotAbandoned
    <2> QED
        BY <2>1, <2>2, <1>0, StopperQuit
<1> QED
    BY <1>1, <1>2, <1>3, <1>4, <1>5, <1>6 DEF Stop

\* While a task is at work on a start, the state is not Started, and neither
\* the monitor nor a stopper is about to touch it.
LEMMA QuitAtWork ==
    ASSUME TypeOK, QuitInv, ~quit', NEW t \in Starters, pc[t] \notin {"idle"} \cup Attending,
           \A u \in Stoppers : pc'[u] = pc[u], UNCHANGED poll,
           state' \in {state, "Starting"}
    PROVE  state' # "Started" /\ MonitorKnows' /\ StoppersKnow' /\ NotAbandoned'
<1> USE TaskNames
<1>1. ~Standing
    BY DEF Standing
<1>2. state' # "Started" /\ Mon \in Stoppers
    BY <1>1 DEF QuitInv, StateMeans, Stoppers
<1>3. MonitorKnows'
    BY <1>1, <1>2 DEF QuitInv, MonitorKnows, Reached
<1>4. \A p \in Procs : pc[p] \in Attending => FALSE
    BY <1>1, Attended
<1>5. StoppersKnow'
    BY <1>1, <1>4 DEF QuitInv, StoppersKnow
<1> QED
    BY <1>2, <1>3, <1>5 DEF NotAbandoned

LEMMA QuitStart ==
    ASSUME Unattended, TypeOK, PidOwned, QuitInv, ~quit, NEW t \in Starters, Start(t)
    PROVE  QuitInv'
<1> USE TaskNames DEF At, Goto
<1>0. /\ t \in Tasks /\ Stoppers \subseteq Tasks /\ Stoppers \cap Starters = {}
      /\ pc \in [Tasks -> Labels] /\ t \notin Clients
    BY DEF Unattended, TypeOK, Stoppers
<1>1. pc[t] \in {"start", "thaw.pid", "spawn"} /\ UNCHANGED quit
    BY <1>0 DEF Start, StartWon, StartLost, ThawPid, Thaw, ThawStopping, ThawStopped,
                ThawReturn, Spawn, QuitInv, ProcShape, Attending
<1>2. \A u \in Starters : u # t => pc[u] = "idle"
    BY <1>1 DEF QuitInv, OneAtWork
<1>3. state # "Started" /\ (state = "Stopped" => pc[t] = "start")
    BY <1>1 DEF QuitInv, StateMeans, Standing, Attending
<1>4. CASE StartWon(t) \/ StartLost(t) \/ ThawPid(t)
    <2>1. /\ UNCHANGED <<proc, poll>> /\ state' \in {state, "Starting"} /\ state' # "Stopped"
          /\ \E l \in {"idle", "thaw.pid", "spawn"} : pc' = [pc EXCEPT ![t] = l]
        <3>1. CASE StartWon(t)
            BY <3>1 DEF StartWon, CompareExchange, Swap, procVars
        <3>2. CASE StartLost(t)
            BY <1>0, <3>2 DEF StartLost, StartReturn, cellVars, procVars
        <3>3. CASE ThawPid(t)
            <4>1. pc[t] = "thaw.pid" /\ pid = NoPid
                BY <1>2, <3>3 DEF ThawPid, PidOwned, TypeOK
            <4>2. UNCHANGED <<proc, poll, state>>
                BY <3>3 DEF ThawPid, cellVars, procVars
            <4>3. pc' = [pc EXCEPT ![t] = "spawn"]
                BY <3>3, <4>1 DEF ThawPid, CopyPid
            <4> QED
                BY <1>3, <4>1, <4>2, <4>3
        <3> QED
            BY <1>4, <3>1, <3>2, <3>3
    <2>2. \A u \in Tasks : u # t => pc'[u] = pc[u]
        BY <1>0, <2>1
    <2>3. OneAtWork' /\ ProcShape'
        BY <1>0, <1>1, <1>2, <2>1, <2>2 DEF QuitInv, OneAtWork, ProcShape, Attending
    <2>4. state' # "Started" /\ MonitorKnows' /\ StoppersKnow' /\ NotAbandoned'
        BY <1>0, <1>1, <2>1, <2>2, QuitAtWork DEF Attending
    <2> QED
        BY <2>1, <2>3, <2>4 DEF QuitInv, StateMeans
<1>5. CASE Spawn(t)
    <2>1. /\ UNCHANGED <<proc, poll, state>>
          /\ \E p \in Procs : pc[p] = "idle" /\ pc' = [pc EXCEPT ![t] = "idle", ![p] = "exec"]
          /\ pc[t] = "spawn"
        BY <1>0, <1>5 DEF Spawn, Unused, cellVars, procVars
    <2>2. OneAtWork' /\ ProcShape'
        BY <1>0, <1>2, <2>1 DEF QuitInv, OneAtWork, ProcShape, Attending
    <2>3. \A u \in Stoppers : pc'[u] = pc[u]
        BY <1>0, <2>1
    <2>4. state' # "Started" /\ MonitorKnows' /\ StoppersKnow' /\ NotAbandoned'
        BY <1>1, <2>1, <2>3, QuitAtWork DEF Attending
    <2> QED
        BY <1>3, <2>1, <2>2, <2>4 DEF QuitInv, StateMeans
<1>6. CASE Thaw(t) \/ ThawStopping(t) \/ ThawStopped(t) \/ ThawReturn(t)
    BY <1>1, <1>6 DEF Thaw, ThawStopping, ThawStopped, ThawReturn
<1> QED
    BY <1>4, <1>5, <1>6 DEF Start

LEMMA QuitServerCmd ==
    ASSUME Unattended, TypeOK, QuitInv, ~quit, NEW p \in Procs, InvokeServerCmd(p)
    PROVE  QuitInv'
<1> USE TaskNames DEF At, Goto
<1>0. /\ p \in Tasks /\ p \in Starters /\ Stoppers \subseteq Tasks /\ Stoppers \cap Starters = {}
      /\ pc \in [Tasks -> Labels] /\ proc \in [Procs -> ProcStates]
      /\ UNCHANGED <<quit, copied, poll>>
    BY ServerCmdSummary DEF TypeOK, Stoppers, InvokeServerCmd, Exec, ExecFail, Register, Reap, Take, Cool
<1>1. \A u \in Starters : u # p => pc[u] = "idle" /\ (u \in Procs => proc[u] = "none")
    BY <1>0 DEF QuitInv, OneAtWork, ProcShape, InvokeServerCmd, Exec, ExecFail, Register, Reap, Take, Cool
<1>2. CASE Exec(p) \/ ExecFail(p) \/ Register(p)
    <2>1. /\ pc[p] \in {"exec", "register"} /\ UNCHANGED state
          /\ \/ pc' = [pc EXCEPT ![p] = "register"] /\ proc' = [proc EXCEPT ![p] = "booting"]
             \/ pc[p] = "exec" /\ pc' = [pc EXCEPT ![p] = "idle"] /\ UNCHANGED proc
             \/ pc' = [pc EXCEPT ![p] = "wait"] /\ UNCHANGED proc
        BY <1>2 DEF Exec, ExecFail, Register, cellVars, procVars
    <2>2. \A u \in Tasks : u # p => pc'[u] = pc[u]
        BY <1>0, <2>1
    <2>3. OneAtWork' /\ ProcShape'
        BY <1>0, <1>1, <2>1, <2>2 DEF QuitInv, OneAtWork, ProcShape, Attending
    <2>4. state' # "Started" /\ MonitorKnows' /\ StoppersKnow' /\ NotAbandoned'
        BY <1>0, <2>1, <2>2, QuitAtWork DEF Attending
    <2>5. state # "Stopped"
        BY <1>0, <2>1 DEF QuitInv, StateMeans, Attending
    <2> QED
        BY <2>1, <2>3, <2>4, <2>5 DEF QuitInv, StateMeans
<1>3. CASE Reap(p) \/ Take(p)
    <2>1. /\ pc[p] \in Attending /\ UNCHANGED state
          /\ \/ pc[p] = "wait" /\ pc' = [pc EXCEPT ![p] = "take"] /\ proc' = [proc EXCEPT ![p] = "none"]
             \/ pc[p] = "take" /\ pc' = [pc EXCEPT ![p] = "cool"] /\ UNCHANGED proc
        BY <1>3 DEF Reap, Take, Attending, cellVars, procVars
    <2>2. /\ \A u \in Tasks : u # p => pc'[u] = pc[u]
          /\ pc'[p] \in {"take", "cool"} /\ Mon # p /\ Mon \in Stoppers
        BY <1>0, <2>1 DEF Stoppers
    <2>3. /\ Standing /\ Standing'
          /\ NoneIn({"booting"}) => NoneIn({"booting"})'
          /\ NoneIn({"online"}) => NoneIn({"online"})'
          /\ NoneIn({"booting", "online"}) => NoneIn({"booting", "online"})'
        BY <1>0, <1>1, <2>1, <2>2 DEF Standing, NoneIn, Attending
    <2>4. OneAtWork' /\ ProcShape'
        BY <1>0, <1>1, <2>1, <2>2 DEF QuitInv, OneAtWork, ProcShape, Attending
    <2>5. StateMeans'
        BY <2>1, <2>3 DEF QuitInv, StateMeans, Standing
    <2>6. MonitorKnows'
        BY <1>0, <2>1, <2>2, <2>3 DEF QuitInv, MonitorKnows, Reached
    <2>7. StoppersKnow'
        <3>1. \A q \in Procs : pc[q] \in Attending => pc'[q] \in Attending
            BY <2>1, <2>2 DEF Attending
        <3>2. \A u \in Stoppers : pc'[u] = pc[u]
            BY <1>0, <2>2
        <3> QED
            BY <1>0, <2>3, <3>1, <3>2 DEF QuitInv, StoppersKnow
    <2> QED
        BY <1>0, <2>4, <2>5, <2>6, <2>7 DEF QuitInv, NotAbandoned
<1>4. CASE Cool(p)
    <2>1. /\ pc[p] = "cool" /\ state' = "Stopped" /\ UNCHANGED proc
          /\ \E l \in {"start", "idle"} : pc' = [pc EXCEPT ![p] = l]
          /\ \A u \in Tasks : pc[u] \in Waits
        BY <1>4 DEF Cool, Settled, Unattended, Swap
    <2>2. \A u \in Tasks : u # p => pc'[u] = pc[u]
        BY <1>0, <2>1
    <2>3. \A q \in Procs : proc[q] = "none"
        BY <1>1, <2>1 DEF QuitInv, ProcShape
    <2>4. OneAtWork' /\ ProcShape'
        BY <1>0, <1>1, <2>1, <2>2, <2>3 DEF OneAtWork, ProcShape
    <2>5. StateMeans'
        BY <1>0, <1>1, <2>1, <2>2, <2>3 DEF StateMeans, NoneIn
    <2>6. MonitorKnows' /\ StoppersKnow'
        BY <1>0, <2>1, <2>2 DEF MonitorKnows, StoppersKnow, Waits
    <2> QED
        BY <1>0, <2>4, <2>5, <2>6 DEF QuitInv, NotAbandoned
<1> QED
    BY <1>2, <1>3, <1>4 DEF InvokeServerCmd

\* What the monitor learns from a poll: an answer comes from a process that is
\* past booting, silence from one that is not online.
LEMMA QuitPoll ==
    ASSUME Unattended, TypeOK, QuitInv, ~quit, FetchOk \/ FetchFail \/ Ping
    PROVE  QuitInv'
<1> USE TaskNames DEF At, Goto
<1>0. /\ UNCHANGED <<state, proc, copied, quit>>
      /\ pc[Mon] \in {"tick", "ping"}
      /\ \E l \in {"ping", "apply"} : pc' = [pc EXCEPT ![Mon] = l]
      /\ Stoppers \subseteq Tasks /\ Mon \in Stoppers /\ pc \in [Tasks -> Labels]
    BY DEF FetchOk, FetchFail, Ping, cellVars, procVars, TypeOK, Stoppers, Tasks
<1>1. /\ \A u \in Tasks : u # Mon => pc'[u] = pc[u]
      /\ pc'[Mon] \in {"ping", "apply"}
      /\ \A u \in Starters : pc'[u] = pc[u]
    BY <1>0
<1>2. UNCHANGED <<Standing, NoneIn({"booting"}), NoneIn({"online"}), NoneIn({"booting", "online"})>>
    BY <1>0, <1>1 DEF Standing, NoneIn
<1>3. OneAtWork' /\ ProcShape'
    BY <1>0, <1>1 DEF QuitInv, OneAtWork, ProcShape
<1>4. StateMeans'
    BY <1>0, <1>1, <1>2 DEF QuitInv, StateMeans
<1>5. StoppersKnow'
    <2>1. \A u \in Stoppers : u # Mon => pc'[u] = pc[u]
        BY <1>0, <1>1
    <2>2. \A q \in Procs : pc'[q] = pc[q]
        BY <1>1
    <2> QED
        BY <1>0, <1>1, <1>2, <2>1, <2>2 DEF QuitInv, StoppersKnow
<1>6. MonitorKnows'
    <2>1. CASE FetchOk
        <3>1. PICK p \in Procs : proc[p] \in {"online", "closing"}
            BY <2>1 DEF FetchOk, Answers
        <3>2. pc[p] \in Attending
            BY <3>1 DEF QuitInv, ProcShape, Attending
        <3>3. Standing /\ NoneIn({"booting"})
            BY <3>1, <3>2, Attended DEF NoneIn
        <3>4. Reached' /\ pc'[Mon] = "apply"
            BY <1>0, <2>1 DEF FetchOk, Reached
        <3> QED
            BY <1>2, <3>3, <3>4 DEF MonitorKnows
    <2>2. CASE FetchFail
        <3>1. NoneIn({"online"})
            BY <2>2 DEF FetchFail, NoAnswer, NoneIn, Unattended
        <3>2. pc'[Mon] = "ping" \/ ~Reached'
            BY <1>0, <2>2 DEF FetchFail, Reached
        <3> QED
            BY <1>1, <1>2, <3>1, <3>2 DEF MonitorKnows
    <2>3. CASE Ping
        <3>1. ~Reached' /\ pc[Mon] = "ping"
            BY <2>3 DEF Ping, Reached
        <3>2. state = "Started" => NoneIn({"online"})
            BY <3>1 DEF QuitInv, MonitorKnows
        <3> QED
            BY <1>0, <1>1, <1>2, <3>1, <3>2 DEF MonitorKnows
    <2> QED
        BY <2>1, <2>2, <2>3
<1> QED
    BY <1>0, <1>3, <1>4, <1>5, <1>6 DEF QuitInv, NotAbandoned

LEMMA QuitReadState ==
    ASSUME Unattended, TypeOK, QuitInv, ~quit, ReadState
    PROVE  QuitInv'
<1> USE TaskNames DEF At, Goto
<1>0. /\ UNCHANGED <<state, proc, copied, quit, poll>> /\ pc[Mon] = "apply"
      /\ \/ pc' = [pc EXCEPT ![Mon] = "store"]
         \/ pc' = [pc EXCEPT ![Mon] = "to_started"] /\ Reached
         \/ pc' = [pc EXCEPT ![Mon] = "to_stopped"] /\ ~Reached /\ state = "Started"
      /\ Stoppers \subseteq Tasks /\ Mon \in Stoppers /\ pc \in [Tasks -> Labels]
    BY DEF ReadState, cellVars, procVars, TypeOK, Stoppers, Tasks
<1>1. /\ \A u \in Tasks : u # Mon => pc'[u] = pc[u]
      /\ pc'[Mon] \in {"store", "to_started", "to_stopped"}
      /\ pc'[Mon] = "to_started" => Reached
      /\ pc'[Mon] = "to_stopped" => ~Reached /\ state = "Started"
      /\ \A u \in Starters : pc'[u] = pc[u]
    BY <1>0
<1>2. UNCHANGED <<Standing, NoneIn({"booting"}), NoneIn({"online"}), NoneIn({"booting", "online"})>>
    BY <1>0, <1>1 DEF Standing, NoneIn
<1>3. OneAtWork' /\ ProcShape'
    BY <1>0, <1>1 DEF QuitInv, OneAtWork, ProcShape
<1>4. StateMeans'
    BY <1>0, <1>1, <1>2 DEF QuitInv, StateMeans
<1>5. StoppersKnow'
    <2>1. \A u \in Stoppers : u # Mon => pc'[u] = pc[u]
        BY <1>0, <1>1
    <2>2. \A q \in Procs : pc'[q] = pc[q]
        BY <1>1
    <2> QED
        BY <1>0, <1>1, <1>2, <2>1, <2>2 DEF QuitInv, StoppersKnow
<1>6. MonitorKnows'
    <2>1. Reached => Standing /\ NoneIn({"booting"})
        BY <1>0 DEF QuitInv, MonitorKnows
    <2>2. state = "Started" /\ ~Reached => Standing /\ NoneIn({"booting", "online"})
        BY <1>0 DEF QuitInv, MonitorKnows, StateMeans, NoneIn
    <2> QED
        BY <1>1, <1>2, <2>1, <2>2 DEF MonitorKnows
<1> QED
    BY <1>0, <1>3, <1>4, <1>5, <1>6 DEF QuitInv, NotAbandoned

LEMMA QuitMonitor ==
    ASSUME Unattended, TypeOK, PidOwned, QuitInv, ~quit, MonitorServer
    PROVE  QuitInv'
<1> USE TaskNames DEF At, Goto
<1>0. Mon \in Stoppers
    BY DEF Stoppers
<1>1. CASE ToStarted \/ ToStopped
    <2>1. /\ UNCHANGED <<proc, copied, quit>> /\ pc' = [pc EXCEPT ![Mon] = "store"]
          /\ \/ state' = "Started" /\ pc[Mon] = "to_started"
             \/ state' = "Stopped" /\ pc[Mon] = "to_stopped"
        BY <1>1 DEF ToStarted, ToStopped, Swap, procVars
    <2>2. \/ state' = "Started" /\ Standing /\ NoneIn({"booting"})
          \/ state' = "Stopped" /\ Standing /\ NoneIn({"booting", "online"})
        BY <2>1 DEF QuitInv, MonitorKnows
    <2>3. Fades /\ NotAbandoned'
        BY <2>1 DEF Fades, NotAbandoned
    <2> QED
        BY <1>0, <2>1, <2>2, <2>3, StopperQuit
<1>2. CASE StoreStatus \/ ShouldSleep \/ ShouldKill \/ ForceKill
    <2>1. /\ UNCHANGED <<state, copied, quit>>
          /\ \E l \in {"should_sleep", "stop", "should_kill", "force_kill", "tick"} :
                pc' = [pc EXCEPT ![Mon] = l]
        BY <1>2 DEF StoreStatus, ShouldSleep, ShouldKill, ForceKill, cellVars
    <2>2. Fades
        <3>1. CASE UNCHANGED proc
            BY <3>1 DEF Fades
        <3>2. CASE ~UNCHANGED proc
            <4>1. pid # NoPid /\ proc' = [proc EXCEPT ![pid] = SigKill(proc[pid])]
                BY <1>2, <3>2 DEF StoreStatus, ShouldSleep, ShouldKill, ForceKill, Signal, procVars
            <4>2. pid \in Procs /\ pc[pid] # "register"
                BY <4>1 DEF TypeOK, PidOwned
            <4> QED
                BY <4>1, <4>2, SignalFades
        <3> QED
            BY <3>1, <3>2
    <2>3. NotAbandoned'
        BY <2>1 DEF NotAbandoned
    <2> QED
        BY <1>0, <2>1, <2>2, <2>3, StopperQuit
<1> QED
    BY <1>1, <1>2, QuitPoll, QuitReadState DEF MonitorServer

LEMMA QuitCtrlC ==
    ASSUME TypeOK, QuitInv, ~quit, CtrlC
    PROVE  QuitInv'
<1> USE TaskNames DEF At, Goto
<1>1. UNCHANGED <<state, proc, copied, poll, pid>>
    BY DEF CtrlC, cellVars, procVars
<1>2. Fades
    BY <1>1 DEF Fades
<1>3. CASE state = "Stopped"
    <2>1. UNCHANGED pc
        BY <1>3 DEF CtrlC
    <2>2. NotAbandoned'
        BY <1>1, <1>3 DEF QuitInv, StateMeans, NoneIn, NotAbandoned, TypeOK
    <2> QED
        BY <1>1, <1>2, <2>1, <2>2, QuitKept
<1>4. CASE state # "Stopped"
    <2>1. pc' = [pc EXCEPT ![Sig] = "stop"] /\ ~quit' /\ Sig \in Stoppers
        BY <1>4 DEF CtrlC, Stoppers
    <2> QED
        BY <1>1, <1>2, <2>1, StopperQuit DEF NotAbandoned
<1> QED
    BY <1>3, <1>4

LEMMA QuitMinecraft ==
    ASSUME Unattended, TypeOK, QuitInv, ~quit, NEW p \in Procs, Minecraft(p)
    PROVE  QuitInv'
<1>1. UNCHANGED <<state, pc, copied, poll, quit>>
    BY DEF Minecraft, Boots, Shuts, Ends, cellVars
<1>2. CASE Boots(p)
    <2>1. /\ proc[p] = "booting" /\ proc' = [proc EXCEPT ![p] = "online"]
          /\ pc[p] = "wait" /\ proc \in [Procs -> ProcStates]
        BY <1>2 DEF Boots, Unattended, TypeOK
    <2>2. ~NoneIn({"booting"}) /\ ~NoneIn({"booting", "online"})
        BY <2>1 DEF NoneIn
    <2>3. state \notin {"Started", "Stopped"}
        BY <2>2 DEF QuitInv, StateMeans
    <2>4. OneAtWork' /\ ProcShape'
        BY <1>1, <2>1 DEF QuitInv, OneAtWork, ProcShape, Attending
    <2>5. MonitorKnows'
        BY <1>1, <2>2, <2>3 DEF QuitInv, MonitorKnows, Reached
    <2>6. StoppersKnow'
        BY <1>1, <2>2 DEF QuitInv, StoppersKnow
    <2> QED
        BY <1>1, <2>3, <2>4, <2>5, <2>6 DEF QuitInv, StateMeans, NotAbandoned
<1>3. CASE Shuts(p) \/ Ends(p)
    <2>1. Fades
        BY <1>3 DEF Shuts, Ends, Signal, SigKill, SigTerm, Fades, QuitInv, ProcShape, TypeOK
    <2> QED
        BY <1>1, <2>1, QuitKept DEF NotAbandoned
<1> QED
    BY <1>2, <1>3 DEF Minecraft

LEMMA QuitStarts == Init => QuitInv
<1> SUFFICES ASSUME Init PROVE QuitInv
    OBVIOUS
<1>1. /\ \A p \in Procs : pc[p] = "idle" /\ proc[p] = "none"
      /\ \A t \in Clients : pc[t] = "idle"
      /\ pc[Boot] \in {"idle", "start"} /\ pc[Mon] = "tick" /\ pc[Sig] = "idle"
      /\ state = "Stopped" /\ ~quit
    BY TaskNames DEF Init, Boot, Mon, Sig
<1>2. OneAtWork /\ ProcShape
    BY <1>1 DEF OneAtWork, ProcShape, Starters
<1>3. StateMeans
    BY <1>1 DEF StateMeans, Starters, NoneIn
<1>4. MonitorKnows /\ StoppersKnow
    BY <1>1 DEF MonitorKnows, StoppersKnow, Stoppers
<1> QED
    BY <1>1, <1>2, <1>3, <1>4 DEF QuitInv, NotAbandoned

LEMMA QuitStep ==
    ASSUME Unattended
    PROVE  TypeOK /\ PidOwned /\ QuitInv /\ [Next]_vars => QuitInv'
<1> SUFFICES ASSUME TypeOK, PidOwned, QuitInv, [Next]_vars PROVE QuitInv'
    OBVIOUS
<1>1. CASE UNCHANGED vars
    BY <1>1, QuitKept DEF vars, cellVars, procVars, QuitInv, NotAbandoned, Fades
<1>2. ASSUME ~quit, NEW t \in Tasks, Send(t) \/ Arm(t) PROVE QuitInv'
    <2>1. UNCHANGED <<state, pc, copied, poll, proc, quit>>
        BY <1>2 DEF Send, Arm, procVars
    <2> QED
        BY <1>2, <2>1, QuitKept DEF NotAbandoned, Fades
<1>3. CASE ~quit /\ Tick
    <2>1. UNCHANGED <<state, pc, copied, poll, proc, quit>>
        BY <1>3 DEF Tick, cellVars, procVars
    <2> QED
        BY <1>3, <2>1, QuitKept DEF NotAbandoned, Fades
<1>4. ASSUME ~quit, NEW t \in Tasks, Run(t) PROVE QuitInv'
    BY <1>2, <1>4, QuitMonitor, QuitStop, QuitStart, QuitServerCmd DEF Run
<1>5. \A c \in Clients : FALSE
    BY DEF Unattended
<1> QED
    BY <1>1, <1>3, <1>4, <1>5, QuitCtrlC, QuitMinecraft DEF Next, Environment

\* Without logins, ctrl-c never ends the proxy and leaves behind a registered
\* server that runs and was not told to stop, for any number of crashes and
\* restarts, whatever becomes of RCON, with any settings that allow for
\* signals, as long as servers answer the monitor (signal.rs, stop).
THEOREM NobodyIsAbandoned == ASSUME Unattended PROVE Spec => []NotAbandoned
<1>1. TypeOK /\ PidOwned /\ QuitInv /\ [Next]_vars => QuitInv'
    BY QuitStep
<1>2. QuitInv => NotAbandoned
    BY DEF QuitInv
<1> QED
    BY <1>1, <1>2, QuitStarts, TypeCorrect, PidOwnership, PTL DEF Spec
=============================================================================
