----------------------------- MODULE PlexPaper -----------------------------
(***************************************************************************)
(* The whole proxy: the boot task, the monitor, the ctrl-c handler, the    *)
(* client connections and the process tasks around one Server object, as   *)
(* service/server.rs puts them together, and what they must guarantee.     *)
(***************************************************************************)
EXTENDS Monitor, Joining

Init ==
    /\ config \in Configs
    /\ state = "Stopped" /\ watch = "Stopped" /\ ever_sent = FALSE
    /\ unseen = {}
    /\ upd = [t \in Tasks |-> NoUpdate]
    /\ kill_at = -1 /\ last_active = -1 /\ keep_online = -1
    /\ status = "none" /\ pid = NoPid
    /\ rcon_lock = "free" /\ rcon_wait = 0
    /\ pc = [t \in Tasks |->
               CASE t = Mon -> "tick"
                 [] t = Boot /\ config.wake_on_start -> "start"
                 [] OTHER -> "idle"]
    /\ copied = [t \in Tasks |-> NoPid]
    /\ poll = "none"
    /\ method = [c \in Clients |-> 1]
    /\ proc = [p \in Procs |-> "none"]
    /\ crashed = [p \in Procs |-> FALSE]
    /\ quit = FALSE
    /\ up_time = HistoryCap /\ quiet = HistoryCap /\ rcon_age = RconCooldown

\* The steps the runtime takes by itself once t is runnable.
Run(t) ==
    \/ Send(t) \/ Arm(t)
    \/ t = Mon /\ MonitorServer
    \/ t \in Stoppers /\ Stop(t)
    \/ t \in Starters /\ Start(t)
    \/ t \in Procs /\ InvokeServerCmd(t)

Environment ==
    \/ Tick
    \/ CtrlC
    \/ \E p \in Procs : Minecraft(p)

Next ==
    \/ /\ ~quit
       /\ \/ \E t \in Tasks : Run(t)
          \/ \E c \in Clients : Join(c)
          \/ Environment
    \/ quit /\ UNCHANGED vars    \* exit(0): nothing is left to run

Spec == Init /\ [][Next]_vars

(***************************************************************************)
(* Fairness.  tokio polls every ready task (weak fairness of Run).  Time    *)
(* passes however busy the tasks are: a tick and the end of a quit          *)
(* cooldown are enabled again and again, between the runs of steps that    *)
(* take no time, and must happen (strong fairness).  Nothing is assumed of *)
(* clients, players, the operator or the Minecraft process, which may      *)
(* neither boot nor shut down.                                             *)
(***************************************************************************)
Fairness ==
    /\ \A t \in Tasks : WF_vars(~quit /\ Run(t))
    /\ \A p \in Procs : SF_vars(~quit /\ Cool(p))
    /\ SF_vars(~quit /\ Tick)

FairSpec == Spec /\ Fairness

-----------------------------------------------------------------------------
Labels ==
    {"idle", "tick", "ping", "apply", "to_started", "to_stopped", "store",
     "should_sleep", "should_kill", "force_kill",
     "stop", "freeze", "freeze.starting", "freeze.started",
     "stop.rcon", "rcon", "rcon.stop", "rcon.mark", "rcon.close",
     "term.pid", "term", "term.starting", "term.started", "stopped",
     "start", "thaw.pid", "thaw", "thaw.stopping", "thaw.stopped", "started",
     "spawn", "exec", "register", "wait", "take", "cool",
     "occupy", "subscribe", "holding"}

Updates == [at: {"idle", "send", "arm"}, new: States]

ProcStates ==
    {"none", "booting", "online", "closing", "frozen", "condemned", "exited"}

\* Every variable has its type.
TypeOK ==
    /\ config \in Configs
    /\ state \in States /\ watch \in States /\ ever_sent \in BOOLEAN
    /\ unseen \subseteq Clients
    /\ upd \in [Tasks -> Updates]
    /\ kill_at \in Nat \cup {-1}
    /\ last_active \in Nat \cup {-1}
    /\ keep_online \in Nat \cup {-1}
    /\ status \in {"none", "empty", "busy"}
    /\ pid \in Procs \cup {NoPid}
    /\ rcon_lock \in Stoppers \cup {"free"} /\ rcon_wait \in Nat
    /\ pc \in [Tasks -> Labels]
    /\ copied \in [Tasks -> Procs \cup {NoPid}]
    /\ poll \in {"none", "empty", "busy", "error", "pong"}
    /\ method \in [Clients -> Nat]
    /\ proc \in [Procs -> ProcStates]
    /\ crashed \in [Procs -> BOOLEAN]
    /\ quit \in BOOLEAN
    /\ up_time \in Nat /\ quiet \in Nat /\ rcon_age \in Nat

\* The registered pid is always that of a process whose own task registered
\* it and has not yet taken it back (invoke_server_cmd), even when several
\* process tasks overwrite and take the one shared slot: force_kill never
\* signals a process whose task is through with it.
PidOwned == pid # NoPid => pc[pid] \in {"wait", "take"}

\* No lost wake-up in hold.rs, although the receiver is cloned only after the
\* state was read: a held client with nothing unseen either last read
\* "Starting" or is about to be woken by a send that is on its way.
NoLostWakeup ==
    \A c \in Holding :
        c \notin unseen => watch = "Starting" \/ \E t \in Tasks : upd[t].at = "send"

\* The monitor decides to put the server to sleep only when it has been up
\* and without players for sleep_after, and up for more than
\* min_online_time, counted from the start it detected last, whatever timers
\* and status earlier runs left behind (should_sleep, update_status).
SleepsOnlyWhenIdle ==
    pc[Mon] = "stop" =>
        /\ up_time >= config.sleep_after /\ quiet >= config.sleep_after
        /\ config.min_online_time > 0 => up_time > config.min_online_time

\* ctrl-c never ends the proxy while the registered process runs and was not
\* told to stop, even if RCON is in its cooldown, fails or loses its answer,
\* and servers crash and restart meanwhile (signal.rs, stop).  As long as
\* servers answer the monitor, and nobody logs in: after a mistaken Stopped,
\* ctrl-c exits at once, and a login starts a second server beside a first
\* that is closing, so that a ctrl-c under way may find its own pid reaped.
NotAbandoned == quit /\ pid # NoPid => proc[pid] \notin {"booting", "online"}

\* Two Minecraft processes never run at once (they would share one world
\* directory and one port): the compare-exchange in start, the pid slot and
\* the quit cooldown together see to it when nothing fails.
SingleProcess == Cardinality({p \in Procs : proc[p] \notin {"none", "exited"}}) <= 1

\* Once every update has run to its end, a kill deadline is armed only while
\* the server is starting or stopping: a deadline of an earlier run can never
\* kill a server that is online (update_state_from against should_kill).
NoStaleDeadline ==
    Quiescent /\ kill_at # -1 => state \in {"Starting", "Stopping"}

\* Once every update has run to its end, a held client that is not about to
\* be woken is waiting for a start that is really under way (hold.rs against
\* the order of sends in update_state_from).
HeldIsWaiting ==
    Quiescent => \A c \in Holding : c \in unseen \/ state = "Starting"

\* Once RCON has acknowledged a `stop`, no other is sent within RCON_COOLDOWN,
\* although the monitor and the ctrl-c handler may both be stopping servers,
\* and sessions may fail in between (stop_server_rcon).
RconSpacing ==
    [][(\E t \in Stoppers : RconStop(t)) => rcon_age >= RconCooldown]_vars

\* The state and the runs implement the abstract sleep cycle: "Stopped" means
\* that nobody is committed to a spawn and no process task is unfinished, but
\* for one whose process is frozen, and every change of the state is one of
\* the steps of the cycle.
Unfinished == {p \in Procs : pc[p] \in {"exec", "register", "wait", "take", "cool"}}

RunExists ==
    \/ \E t \in Starters : pc[t] \in {"thaw.pid", "spawn"}
    \/ \E p \in Unfinished : ~(state = "Stopped" /\ proc[p] \in {"frozen", "condemned"})

Cycle == INSTANCE SleepCycle WITH phase <- state, live <- RunExists, freezes <- Freezes

ImplementsSleepCycle == Cycle!Spec

-----------------------------------------------------------------------------
\* A start whose deadline is armed ends, even if the server never comes up:
\* the monitor kills the process and its task brings the state back.  One whose
\* deadline the task of the last run has cleared since is left out.
StartEnds ==
    (state = "Starting" /\ kill_at # -1 /\ Quiescent) ~> state # "Starting"

\* A stop whose deadline is armed ends with the server asleep, even if the
\* process ignores it.
StopEnds ==
    (state = "Stopping" /\ kill_at # -1 /\ Quiescent) ~> state = "Stopped"

\* A server that no poll finds players on is put to sleep.
IdleSleeps ==
    <>[](poll # "busy") => (state = "Started" ~> state # "Started")

-----------------------------------------------------------------------------
(* What the messages of the program say, and the code does not do.         *)

\* monitor.rs:46, "Failed to poll server status, ping fallback succeeded": a
\* started server that answers the ping is left alone.
PingFallback == ~(poll = "pong" /\ pc[Mon] = "to_stopped")

\* monitor.rs:56, "Force killing server, took too long to start or stop": no
\* start takes for ever.
StartResolves == state = "Starting" ~> state # "Starting"
=============================================================================
