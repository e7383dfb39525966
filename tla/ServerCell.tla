----------------------------- MODULE ServerCell -----------------------------
(***************************************************************************)
(* The shared `Server` object of server.rs and the tasks that work on it.  *)
(*                                                                         *)
(* Every tokio task that touches the object has a program counter: the     *)
(* monitor, the ctrl-c handler, the boot task, one task per client         *)
(* connection and one task per spawned Minecraft process (a process and    *)
(* the task that waits for it share a name).  The runtime is multi-        *)
(* threaded, so tasks interleave at every access to shared state.          *)
(*                                                                         *)
(* This module holds the constants, the variables, the three steps of      *)
(* `update_state_from` and the passing of time.                            *)
(***************************************************************************)
EXTENDS Integers, FiniteSets, Sequences

CONSTANTS
    Clients,       \* client connections the listener hands to `route`
    Procs,         \* slots for spawned processes (bounds how many exist at once)
    NoPid,         \* the `None` of `pid: Mutex<Option<u32>>`
    Configs,       \* the settings a behaviour may start with
    Faults,        \* what the environment may do beyond the happy path
    RconCooldown   \* RCON_COOLDOWN, in ticks

Mon  == "monitor"
Sig  == "signal"
Boot == "boot"

Stoppers == {Mon, Sig}                    \* tasks that call Server::stop
Starters == {Boot} \cup Clients \cup Procs \* tasks that call Server::start
Tasks    == Stoppers \cup Starters

States  == {"Stopped", "Starting", "Started", "Stopping"}
Methods == {"hold", "kick", "forward"}

(***************************************************************************)
(* "exit":      the process ends by itself (crash, or /stop in the game)   *)
(* "mute":      a running process does not answer a status request         *)
(* "sigint":    the operator presses ctrl-c                                *)
(* "spawnfail": the command cannot be spawned                              *)
(* "rconfail":  an RCON session fails, before or after `stop` got through  *)
(* "stall":     a task may be delayed longer than SERVER_QUIT_COOLDOWN     *)
(***************************************************************************)
FaultKinds == {"exit", "mute", "sigint", "spawnfail", "rconfail", "stall"}

ConfigType ==
    [ unix: BOOLEAN, rcon: BOOLEAN, freeze_process: BOOLEAN,
      wake_on_start: BOOLEAN, wake_on_crash: BOOLEAN,
      start_timeout: Nat, stop_timeout: Nat,
      sleep_after: Nat, min_online_time: Nat,
      methods: Seq(Methods) ]

ASSUME ClientsAreNoTask == Clients \cap {Mon, Sig, Boot} = {}
ASSUME ProcsAreNoTask   == Procs \cap ({Mon, Sig, Boot} \cup Clients) = {}
ASSUME NoPidIsNoProc    == NoPid \notin Procs
ASSUME ConfigsTyped     == Configs \subseteq ConfigType
ASSUME FaultsTyped      == Faults \subseteq FaultKinds
ASSUME CooldownTyped    == RconCooldown \in Nat

VARIABLES
    config,      \* the settings, fixed at start-up
    state,       \* the AtomicU8
    watch,       \* the value in the watch channel
    ever_sent,   \* whether the channel's version moved since it was created
    unseen,      \* held clients whose receiver has an unseen version
    upd,         \* per task: the update_state_from call it is inside of
    kill_at,     \* ticks until the kill deadline, -1 for None
    last_active, \* ticks since last_active, -1 for None
    keep_online, \* ticks until keep_online_until, -1 for None or past
    status,      \* the stored ServerStatus, as far as players are concerned
    pid,         \* the registered process
    rcon_lock,   \* holder of the RCON semaphore, or "free"
    rcon_wait,   \* ticks until the RCON cooldown ends
    pc,          \* per task: where it is
    copied,      \* per task: the pid it copied out of the lock
    poll,        \* the monitor's local result of poll_server
    method,      \* per client: the join method tried next
    proc,        \* the operating system's view of each process
    crashed,     \* per process: invoke_server_cmd's local `crashed`
    quit,        \* the proxy has exited
    up_time,     \* history: ticks since a start was last detected
    quiet,       \* history: ticks since players were last seen by a poll
    rcon_age     \* history: ticks since RCON last acknowledged a `stop`

cellVars  == <<state, watch, ever_sent, unseen, upd>>
timerVars == <<kill_at, last_active, keep_online>>
rconVars  == <<rcon_lock, rcon_wait>>
procVars  == <<proc, crashed>>
histVars  == <<up_time, quiet, rcon_age>>
vars == <<config, cellVars, timerVars, status, pid, rconVars, pc, copied,
          poll, method, procVars, quit, histVars>>

-----------------------------------------------------------------------------
(* Task-local bookkeeping.                                                 *)

NoUpdate == [at |-> "idle", new |-> "Stopped"]

\* t is not inside update_state_from: its next step is its own.
Free(t) == upd[t].at = "idle"

At(t, label)   == pc[t] = label /\ Free(t)
Goto(t, label) == pc' = [pc EXCEPT ![t] = label]

Holding == {c \in Clients : pc[c] = "holding"}

\* No task is between the compare-exchange and the end of an update.
Quiescent == \A t \in Tasks : Free(t)

-----------------------------------------------------------------------------
(* update_state_from, step by step.                                        *)

\* The swap (from = None): an unchanged state ends the call at once.
Swap(t, new) ==
    /\ state' = new
    /\ upd' = IF state = new THEN upd
              ELSE [upd EXCEPT ![t] = [at |-> "send", new |-> new]]

\* The compare_exchange, won or lost; t continues at `label` in any case.
CompareExchange(t, from, new, label) ==
    /\ IF state = from
       THEN Swap(t, new)
       ELSE UNCHANGED <<state, upd>>
    /\ Goto(t, label)

\* Mutant of Send: the value is stored and no receiver is notified.
SendSilently(t) ==
    /\ upd[t].at = "send"
    /\ watch' = upd[t].new
    /\ ever_sent' = TRUE
    /\ upd' = [upd EXCEPT ![t].at = "arm"]
    /\ UNCHANGED <<config, state, unseen, timerVars, status, pid, rconVars, pc,
                   copied, poll, method, procVars, quit, histVars>>

\* state_watch_sender.send: every receiver has something unseen.
Send(t) ==
    /\ upd[t].at = "send"
    /\ watch' = upd[t].new
    /\ ever_sent' = TRUE
    /\ unseen' = unseen \cup Holding
    /\ upd' = [upd EXCEPT ![t].at = "arm"]
    /\ UNCHANGED <<config, state, timerVars, status, pid, rconVars, pc, copied,
                   poll, method, procVars, quit, histVars>>

\* A zero timeout or minimum is no deadline at all.
Deadline(secs) == IF secs > 0 THEN secs ELSE -1

\* Mutant of DeadlineOf: a settled state does not clear the deadline.
DeadlineKept(new) ==
    CASE new = "Starting" -> Deadline(config.start_timeout)
      [] new = "Stopping" -> Deadline(config.stop_timeout)
      [] OTHER            -> kill_at

DeadlineOf(new) ==
    CASE new = "Starting" -> Deadline(config.start_timeout)
      [] new = "Stopping" -> Deadline(config.stop_timeout)
      [] OTHER            -> -1

\* Mutant of Arm: a detected start does not renew the minimum online time.
ArmWithoutMinimum(t) ==
    /\ upd[t].at = "arm"
    /\ kill_at' = DeadlineOf(upd[t].new)
    /\ IF upd[t].new = "Started"
       THEN last_active' = 0 /\ UNCHANGED keep_online
       ELSE UNCHANGED <<last_active, keep_online>>
    /\ upd' = [upd EXCEPT ![t] = NoUpdate]
    /\ UNCHANGED <<config, state, watch, ever_sent, unseen, status, pid,
                   rconVars, pc, copied, poll, method, procVars, quit,
                   histVars>>

\* kill_at, and on Started also last_active and keep_online_until, which only
\* the monitor reads.
Arm(t) ==
    /\ upd[t].at = "arm"
    /\ kill_at' = DeadlineOf(upd[t].new)
    /\ IF upd[t].new = "Started"
       THEN /\ last_active' = 0
            /\ keep_online' = Deadline(config.min_online_time)
       ELSE UNCHANGED <<last_active, keep_online>>
    /\ upd' = [upd EXCEPT ![t] = NoUpdate]
    /\ UNCHANGED <<config, state, watch, ever_sent, unseen, status, pid,
                   rconVars, pc, copied, poll, method, procVars, quit,
                   histVars>>

-----------------------------------------------------------------------------
(* Time.  Instants are kept as distances to now, saturated where the code  *)
(* no longer tells them apart.                                             *)
(*                                                                         *)
(* A tick stands for seconds, and so does the quit cooldown of a process   *)
(* task: they pass while tasks wait for the network, a child, a lock or a  *)
(* free slot, and not within a straight run of steps of some task, unless  *)
(* "stall" allows a task to be delayed that long.                          *)

Waits ==
    {"idle", "tick", "ping", "rcon", "start", "spawn", "exec", "register",
     "wait", "take", "cool", "occupy", "subscribe", "holding"}

Settled == "stall" \in Faults \/ \A t \in Tasks : Free(t) /\ pc[t] \in Waits

Older(age, cap) == IF age < cap THEN age + 1 ELSE age
Nearer(left)    == IF left > 0 THEN left - 1 ELSE left

HistoryCap == config.sleep_after + config.min_online_time + 1

Tick ==
    /\ Settled
    /\ kill_at' = Nearer(kill_at)
    /\ last_active' = IF last_active = -1 THEN -1
                      ELSE Older(last_active, config.sleep_after)
    /\ keep_online' = IF keep_online = -1 THEN -1 ELSE keep_online - 1
    /\ rcon_wait' = Nearer(rcon_wait)
    /\ up_time' = Older(up_time, HistoryCap)
    /\ quiet' = Older(quiet, HistoryCap)
    /\ rcon_age' = Older(rcon_age, RconCooldown)
    /\ UNCHANGED <<config, cellVars, status, pid, rcon_lock, pc, copied, poll,
                   method, procVars, quit>>
=============================================================================
