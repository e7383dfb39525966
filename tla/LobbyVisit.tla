---------------------------- MODULE LobbyVisit ----------------------------
(***************************************************************************)
(* What the lobby promises a client: it is shown the lobby, then moved     *)
(* into the server's world once, by a respawn that follows the server's    *)
(* own join game, and from there on is shown all that the server sent      *)
(* after that join game, in order.                                         *)
(***************************************************************************)
EXTENDS Integers, Sequences

CONSTANT Scripts   \* what a server may send to one that logs in

VARIABLES
    place,   \* login, lobby, game or gone
    script,  \* what the server sends on the connection made for the client
    owed,    \* the part of it that the client has yet to see
    shown    \* the worlds, and the packets of the server, it was shown

vars == <<place, script, owed, shown>>

\* The server's join game is the first one after it accepts the login.
Joins(s) ==
    {i \in DOMAIN s : s[i] = "join" /\ \E k \in 1 .. i - 1 : s[k] = "success"}

AfterJoin(s) ==
    LET first == CHOOSE i \in Joins(s) : \A k \in Joins(s) : i <= k
    IN  SubSeq(s, first + 1, Len(s))

Init == place = "login" /\ script = <<>> /\ owed = <<>> /\ shown = <<>>

Enter ==
    /\ place = "login" /\ place' = "lobby"
    /\ shown' = <<"lobby">>
    /\ UNCHANGED <<script, owed>>

Connect ==
    /\ place = "lobby" /\ script = <<>>
    /\ script' \in Scripts
    /\ UNCHANGED <<place, owed, shown>>

Move ==
    /\ place = "lobby" /\ Joins(script) # {}
    /\ place' = "game"
    /\ shown' = Append(shown, "respawn") /\ owed' = AfterJoin(script)
    /\ UNCHANGED script

Show ==
    /\ place = "game"
    /\ \E n \in 1 .. Len(owed) :
          /\ shown' = shown \o SubSeq(owed, 1, n)
          /\ owed' = SubSeq(owed, n + 1, Len(owed))
    /\ UNCHANGED <<place, script>>

Leave ==
    /\ place # "gone" /\ place' = "gone"
    /\ owed' = <<>>
    /\ UNCHANGED <<script, shown>>

Next == Enter \/ Connect \/ Move \/ Show \/ Leave

Spec == Init /\ [][Next]_vars
=============================================================================
