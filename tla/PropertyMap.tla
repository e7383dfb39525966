---------------------------- MODULE PropertyMap ----------------------------
(***************************************************************************)
(* What the proxy may do to server.properties, whatever the file looks     *)
(* like: at each start it sets the properties it manages to its settings,  *)
(* once, and leaves every other property and its place alone.  A rewrite   *)
(* that fails half way loses a tail of the file, and nothing else changes  *)
(* but by somebody else's hand.                                            *)
(***************************************************************************)
EXTENDS Integers

CONSTANTS Managed, Values, None, Cut

VARIABLES
    phase,    \* off, rewrite, serve
    settings, \* what the managed properties are to be set to
    written,  \* the rewrite of this start went well
    values,   \* the managed properties
    rest      \* the lines that set others, each at its place

vars == <<phase, settings, written, values, rest>>

Init ==
    /\ phase = "off" /\ written = FALSE
    /\ settings = [k \in Managed |-> None]
    /\ values \in [Managed -> Values \cup {None}]

Start ==
    /\ phase = "off"
    /\ phase' = "rewrite" /\ written' = FALSE
    /\ settings' \in [Managed -> Values]
    /\ UNCHANGED <<values, rest>>

Set ==
    /\ phase = "rewrite"
    /\ phase' = "serve" /\ written' = TRUE
    /\ values' = settings
    /\ UNCHANGED <<settings, rest>>

Skip ==
    /\ phase = "rewrite"
    /\ phase' = "serve"
    /\ UNCHANGED <<settings, written, values, rest>>

\* The lines of t up to one of them, each at its place.
UpTo(s, t) ==
    /\ DOMAIN s \subseteq DOMAIN t /\ \A i \in DOMAIN s : s[i] = t[i]
    /\ \A i \in DOMAIN s, j \in DOMAIN t : j < i => j \in DOMAIN s

\* At most one value is cut, that of the last line.
Lose ==
    /\ phase = "rewrite"
    /\ phase' \in {"serve", "off"}
    /\ \A k \in Managed : values'[k] \in {settings[k], None, Cut}
    /\ \/ UpTo(rest', rest) /\ \A j, k \in Managed : values'[j] = Cut /\ values'[k] = Cut => j = k
       \/ /\ \E i \in DOMAIN rest :
                /\ UpTo(rest', [rest EXCEPT ![i].value = Cut])
                /\ \A j \in DOMAIN rest' : j <= i
          /\ \A k \in Managed : values'[k] # Cut
    /\ UNCHANGED <<settings, written>>

End ==
    /\ phase # "off"
    /\ phase' = "off"
    /\ UNCHANGED <<settings, written, values, rest>>

\* The operator, or Minecraft: anything.
Edit == UNCHANGED <<phase, settings, written>>

Next == Start \/ Set \/ Skip \/ Lose \/ End \/ Edit

Spec == Init /\ [][Next]_vars
=============================================================================
