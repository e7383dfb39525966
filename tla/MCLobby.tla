------------------------------ MODULE MCLobby ------------------------------
(***************************************************************************)
(* Servers for TLC: a plain one and a Forge one, that let a client join;   *)
(* one that demands encryption, one that sends it away.  Packets are       *)
(* smaller than, as large as, or larger than the threshold of 2.           *)
(***************************************************************************)
EXTENDS Lobby

P(id, size) == [id |-> id, size |-> size]

Compress == P("compress", 1)

Plain    == <<Compress, P("success", 1), P("play", 3), P("join", 2), P("play", 2), P("join", 3)>>
Forge    == <<P("plugin", 3), P("plugin", 1), Compress, P("success", 2), P("join", 3), P("play", 1)>>
Online   == <<P("encrypt", 2)>>
Rejected == <<Compress, P("disconnect", 3)>>

\* With compression and without.
Without(s) == SelectSeq(s, LAMBDA p : p.id # "compress")
Servers    == LET all == {Plain, Forge, Online, Rejected} IN all \cup {Without(s) : s \in all}

\* No compression, less, as much, or more than the proxy expects.
MCThresholds == {-1, 1, 2, 3}
=============================================================================
