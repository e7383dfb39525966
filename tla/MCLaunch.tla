------------------------------ MODULE MCLaunch ------------------------------
(***************************************************************************)
(* Files of up to two lines, lists of up to two arguments, and the values  *)
(* SERVER_PORT may hold, for TLC.                                          *)
(***************************************************************************)
EXTENDS Launch

Odd(k, v) == [Pair(k, v) EXCEPT !.exact = FALSE]

MCKeys   == {Port, Password, "motd"}
MCValues == 0 .. 65535 \cup {Cut}

MCLines ==
    { Text, Pair(Port, 25565), Pair(Port, 25566), Odd(Port, 25566),
      Pair(Password, 1), Odd(Password, 0), Pair("motd", 0) }

MCFiles == UNION {[1 .. n -> MCLines] : n \in 0 .. 2}

MCArgs     == {"-Xmx1G", "-Dfile=a b", "--nogui", "--port"}
MCArgLists == UNION {[1 .. n -> MCArgs] : n \in 0 .. 2}

\* Not set, the proxy's own internal port, too large.
MCServerPorts == {None, 25566, 70000}
=============================================================================
