-------------------------- MODULE ServerProperties --------------------------
(***************************************************************************)
(* mc/server_properties.rs: how the proxy changes and reads the lines of   *)
(* Minecraft's server.properties.  Keys are compared trimmed and in lower  *)
(* case; Minecraft itself compares them as they are written.               *)
(***************************************************************************)
EXTENDS Integers, Sequences, FiniteSets

CONSTANTS
    Keys,   \* the properties a file may set, in lower case
    Values, \* what they may be set to
    NoKey,  \* the key of a line that sets nothing: a comment, blank, no `=`
    None,   \* no value: rust's None, and the value of a line without a key
    Cut     \* what is left of a value that was cut off

ASSUME NoKeyIsNoKey  == NoKey \notin Keys
ASSUME NoneIsNoValue == None \notin Values
ASSUME CutIsAValue   == Cut \in Values

\* A line sets a key, spelled as Minecraft spells it or with other capitals.
Pair(k, v) == [key |-> k, exact |-> TRUE, value |-> v]
Text       == [key |-> NoKey, exact |-> TRUE, value |-> None]

Lines == [key: Keys, exact: BOOLEAN, value: Values] \cup {Text}

KeysOf(lines) == {lines[i].key : i \in DOMAIN lines} \ {NoKey}

\* Whether no line before the i-th has its key, or no line after it.
IsFirst(lines, i) == \A j \in 1 .. i - 1 : lines[j].key # lines[i].key

Distinct(lines) ==
    /\ \A i \in DOMAIN lines : lines[i].exact
    /\ \A i \in DOMAIN lines : lines[i].key = NoKey \/ IsFirst(lines, i)

-----------------------------------------------------------------------------
(* rewrite_contents.                                                       *)

\* Mutant of Updated: the key of a line is compared as it is written.
UpdatedAsSpelled(lines, changes) ==
    [i \in DOMAIN lines |->
        IF lines[i].key \in DOMAIN changes /\ lines[i].exact /\ IsFirst(lines, i)
        THEN [lines[i] EXCEPT !.value = changes[lines[i].key]]
        ELSE lines[i]]

\* remove_entry hands a change out once: the first line with its key gets it.
Updated(lines, changes) ==
    [i \in DOMAIN lines |->
        IF lines[i].key \in DOMAIN changes /\ IsFirst(lines, i)
        THEN [lines[i] EXCEPT !.value = changes[lines[i].key]]
        ELSE lines[i]]

\* The changes that no line took, to be appended.
Left(lines, changes) == DOMAIN changes \ KeysOf(lines)

\* A HashMap is walked in any order.
Orders(keys) ==
    {o \in [1 .. Cardinality(keys) -> keys] :
        \A i, j \in DOMAIN o : o[i] = o[j] => i = j}

\* Nothing, joined with what is appended, begins with an empty line.
Rewrites(lines, changes) ==
    {(IF lines = <<>> THEN <<Text>> ELSE Updated(lines, changes))
        \o [i \in DOMAIN o |-> Pair(o[i], changes[o[i]])]
       : o \in Orders(Left(lines, changes))}

\* Whether rewrite_contents has something to write.
Changed(lines, changes) ==
    Left(lines, changes) # {} \/ Updated(lines, changes) # lines

\* fs::write that breaks off: the last line may be cut, in its key or in its
\* value.
Torn(lines) ==
    {SubSeq(lines, 1, n) : n \in 0 .. Len(lines) - 1} \cup
    UNION {{Append(SubSeq(lines, 1, n - 1), Text),
            Append(SubSeq(lines, 1, n - 1), [lines[n] EXCEPT !.value = Cut])}
             : n \in {m \in DOMAIN lines : lines[m] # Text}}

-----------------------------------------------------------------------------
\* read_property: the first line that has the key.
Read(lines, k) ==
    LET found == {i \in DOMAIN lines : lines[i].key = k /\ IsFirst(lines, i)}
    IN IF found = {} THEN None ELSE lines[CHOOSE i \in found : TRUE].value

\* java.util.Properties, which Minecraft loads the file with: the last line
\* that has the key, as it is spelled.
IsLast(lines, i) ==
    \A j \in i + 1 .. Len(lines) :
        <<lines[j].key, lines[j].exact>> # <<lines[i].key, lines[i].exact>>

Loaded(lines, k) ==
    LET found == {i \in DOMAIN lines : lines[i].key = k /\ lines[i].exact /\ IsLast(lines, i)}
    IN IF found = {} THEN None ELSE lines[CHOOSE i \in found : TRUE].value
=============================================================================
