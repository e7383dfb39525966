---------------------------- MODULE MCPlexPaper ----------------------------
(***************************************************************************)
(* Small instances of PlexPaper for TLC: settings, faults, symmetry.       *)
(***************************************************************************)
EXTENDS PlexPaper, TLC

\* Config::runtime on unix, its seconds scaled down to ticks.
Unix ==
    [ unix |-> TRUE, rcon |-> FALSE, freeze_process |-> FALSE,
      wake_on_start |-> FALSE, wake_on_crash |-> FALSE,
      start_timeout |-> 1, stop_timeout |-> 1,
      sleep_after |-> 1, min_online_time |-> 1,
      methods |-> <<"hold", "kick">> ]

\* ... and on Windows, where RCON is the only way to stop the server.
Windows == [Unix EXCEPT !.unix = FALSE, !.rcon = TRUE]

\* Settings the code handles and Config::runtime leaves off.
Freezing  == [Unix EXCEPT !.freeze_process = TRUE, !.methods = <<"hold">>]
Eager     == [Unix EXCEPT !.min_online_time = 0]
Waking    == [Unix EXCEPT !.wake_on_start = TRUE, !.wake_on_crash = TRUE,
                          !.rcon = TRUE]
Unlimited == [Unix EXCEPT !.start_timeout = 0, !.stop_timeout = 0,
                          !.min_online_time = 0,
                          !.methods = <<"hold", "forward">>]

OnUnix     == {Unix}
OnEager    == {Eager}
Most       == {Unix, Windows, Freezing, Unlimited}
AlsoWake   == {Waking}

NoFaults   == {}
Crashes    == {"exit", "mute", "spawnfail"}
Operator   == {"sigint", "rconfail", "exit"}
Muteness   == {"mute"}
SpawnFails == {"spawnfail"}

Symmetry == Permutations(Clients) \cup Permutations(Procs)
=============================================================================
