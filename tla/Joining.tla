------------------------------ MODULE Joining ------------------------------
(***************************************************************************)
(* A client connection: `route` sends it straight to a started server, or  *)
(* to the status service, where a login wakes the server (Server::start)   *)
(* and the join methods of the configuration occupy the client: kick,      *)
(* hold, forward, in the configured order.  When a client has been handed  *)
(* off or disconnected its name stands for the next connection.            *)
(***************************************************************************)
EXTENDS StartServer

\* The listener accepts once the boot task's start has returned.
Route(c) ==
    /\ At(c, "idle") /\ At(Boot, "idle")
    /\ state # "Started"
    /\ Goto(c, "start")
    /\ UNCHANGED <<config, cellVars, timerVars, status, pid, rconVars, copied,
                   poll, method, procVars, quit, histVars>>

TriesNext(c, name) ==
    /\ At(c, "occupy")
    /\ method[c] <= Len(config.methods)
    /\ config.methods[method[c]] = name

\* The connection leaves the proxy's hands.
Leaves(c) == Goto(c, "idle") /\ method' = [method EXCEPT ![c] = 1]

NextMethod(c) ==
    Goto(c, "occupy") /\ method' = [method EXCEPT ![c] = @ + 1]

\* kick and forward consume the client; with no method left it is closed.
Dismiss(c) ==
    /\ \/ TriesNext(c, "kick") \/ TriesNext(c, "forward")
       \/ At(c, "occupy") /\ method[c] > Len(config.methods)
    /\ Leaves(c)
    /\ UNCHANGED <<config, cellVars, timerVars, status, pid, rconVars, copied,
                   poll, procVars, quit, histVars>>

\* hold::occupy looks at the state itself ...
TryHold(c) ==
    /\ TriesNext(c, "hold")
    /\ IF state = "Starting"
       THEN Goto(c, "subscribe") /\ UNCHANGED method
       ELSE NextMethod(c)
    /\ UNCHANGED <<config, cellVars, timerVars, status, pid, rconVars, copied,
                   poll, procVars, quit, histVars>>

\* Mutant of Subscribe: a fresh receiver, for which the current value is seen.
SubscribeFresh(c) ==
    /\ At(c, "subscribe")
    /\ Goto(c, "holding")
    /\ UNCHANGED <<config, cellVars, timerVars, status, pid, rconVars, copied,
                   poll, method, procVars, quit, histVars>>

\* ... and then waits on a clone of the server's receiver.  That receiver
\* never looked at the channel, so its clone finds any earlier value unseen.
Subscribe(c) ==
    /\ At(c, "subscribe")
    /\ unseen' = IF ever_sent THEN unseen \cup {c} ELSE unseen
    /\ Goto(c, "holding")
    /\ UNCHANGED <<config, state, watch, ever_sent, upd, timerVars, status,
                   pid, rconVars, copied, poll, method, procVars, quit,
                   histVars>>

Woken(c) == At(c, "holding") /\ c \in unseen

HoldLonger(c) ==
    /\ Woken(c) /\ watch = "Starting"
    /\ unseen' = unseen \ {c}
    /\ UNCHANGED <<config, state, watch, ever_sent, upd, timerVars, status,
                   pid, rconVars, pc, copied, poll, method, procVars, quit,
                   histVars>>

\* Relayed to the server through route_proxy_queue.
HoldReady(c) ==
    /\ Woken(c) /\ watch = "Started"
    /\ unseen' = unseen \ {c}
    /\ Leaves(c)
    /\ UNCHANGED <<config, state, watch, ever_sent, upd, timerVars, status,
                   pid, rconVars, copied, poll, procVars, quit, histVars>>

\* "Server stopped (or: stopping) for held client, disconnecting".
HoldGivesUp(c) ==
    /\ Woken(c) /\ watch \in {"Stopping", "Stopped"}
    /\ unseen' = unseen \ {c}
    /\ NextMethod(c)
    /\ UNCHANGED <<config, state, watch, ever_sent, upd, timerVars, status,
                   pid, rconVars, copied, poll, procVars, quit, histVars>>

HoldTimeout(c) ==
    /\ At(c, "holding")
    /\ unseen' = unseen \ {c}
    /\ NextMethod(c)
    /\ UNCHANGED <<config, state, watch, ever_sent, upd, timerVars, status,
                   pid, rconVars, copied, poll, procVars, quit, histVars>>

Join(c) ==
    \/ Route(c) \/ Dismiss(c)
    \/ TryHold(c) \/ Subscribe(c)
    \/ HoldLonger(c) \/ HoldReady(c) \/ HoldGivesUp(c) \/ HoldTimeout(c)
=============================================================================
