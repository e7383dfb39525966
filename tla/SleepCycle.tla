----------------------------- MODULE SleepCycle -----------------------------
(***************************************************************************)
(* What the proxy promises of one server: it sleeps, is woken, comes       *)
(* online, is put to sleep again, and "Stopped" means that nothing runs.   *)
(* `live` says that a run exists: somebody has committed to spawn the      *)
(* process, or its task has not yet finished.  A server that `freezes`     *)
(* sleeps as a process that is stopped, which counts as no run.            *)
(***************************************************************************)
VARIABLES phase, live, freezes

vars == <<phase, live, freezes>>

Init == freezes \in BOOLEAN /\ phase = "Stopped" /\ live = FALSE

\* One caller wins the right to wake a sleeping server.
Wake ==
    /\ phase = "Stopped" /\ ~live
    /\ phase' = "Starting" /\ live' = TRUE

ComeOnline ==
    /\ phase = "Starting" /\ live
    /\ phase' = "Started" /\ UNCHANGED live

\* Put to sleep, from online or while still starting.
Doze ==
    /\ phase \in {"Starting", "Started"} /\ live
    /\ phase' = "Stopping" /\ UNCHANGED live

\* The run is over: its process had been told to stop, or was killed because
\* it did not start in time.
Rest ==
    /\ phase \in {"Starting", "Stopping"} /\ live
    /\ phase' = "Stopped" /\ live' = FALSE

\* Put to sleep, and asleep at once.
Freeze ==
    /\ freezes
    /\ phase \in {"Starting", "Started"} /\ live
    /\ phase' = "Stopped" /\ live' = FALSE

Next == (Wake \/ ComeOnline \/ Doze \/ Rest \/ Freeze) /\ UNCHANGED freezes

Spec == Init /\ [][Next]_vars
=============================================================================
