---------------------------- MODULE LaunchProofs ----------------------------
(***************************************************************************)
(* server.properties and the Minecraft that is run with it, for every      *)
(* file, every setting and any number of starts: their types, that a       *)
(* Minecraft whose file was in order is where the proxy dials it, what a   *)
(* rewrite does to a file, and what the java command comes to.             *)
(***************************************************************************)
EXTENDS Launch, FiniteSetTheorems, SequenceTheorems, TLAPS

(* Lines, and orders of a finite set.                                      *)

LEMMA LineFacts ==
    /\ Text \in Lines /\ Text.key = NoKey /\ Text.exact = TRUE
    /\ \A l \in Lines : l.exact \in BOOLEAN /\ l.key \in Keys \cup {NoKey}
    /\ \A l \in Lines : l.key # NoKey => l.value \in Values
    /\ \A k \in Keys, v \in Values :
          /\ Pair(k, v) \in Lines
          /\ Pair(k, v).key = k /\ Pair(k, v).exact = TRUE /\ Pair(k, v).value = v
<1>1. \A l \in Lines : l = Text \/ l \in [key: Keys, exact: BOOLEAN, value: Values]
    BY DEF Lines
<1>2. Text \in Lines /\ Text.key = NoKey /\ Text.exact = TRUE
    BY DEF Lines, Text
<1>3. \A l \in [key: Keys, exact: BOOLEAN, value: Values] :
         l.exact \in BOOLEAN /\ l.key \in Keys /\ l.value \in Values
    OBVIOUS
<1>4. \A k \in Keys, v \in Values :
          /\ Pair(k, v) \in Lines
          /\ Pair(k, v).key = k /\ Pair(k, v).exact = TRUE /\ Pair(k, v).value = v
    BY DEF Lines, Pair
<1> QED
    BY <1>1, <1>2, <1>3, <1>4

LEMMA ChangedLine ==
    ASSUME NEW l \in Lines, l.key # NoKey, NEW v \in Values
    PROVE  /\ [l EXCEPT !.value = v] \in Lines
           /\ [l EXCEPT !.value = v].key = l.key
           /\ [l EXCEPT !.value = v].exact = l.exact
           /\ [l EXCEPT !.value = v].value = v
<1>1. l \in [key: Keys, exact: BOOLEAN, value: Values]
    BY DEF Lines, Text
<1>2. [l EXCEPT !.value = v] = [key |-> l.key, exact |-> l.exact, value |-> v]
    BY <1>1
<1> QED
    BY <1>1, <1>2 DEF Lines

\* A finite set in some order: each element is there once.
LEMMA OrderFacts ==
    ASSUME NEW S, IsFiniteSet(S), NEW o \in Orders(S)
    PROVE  /\ o \in Seq(S) /\ Len(o) = Cardinality(S)
           /\ \A x \in S : \E i \in 1 .. Len(o) : o[i] = x
           /\ \A i, j \in 1 .. Len(o) : o[i] = o[j] => i = j
<1> DEFINE n == Cardinality(S)
<1>1. n \in Nat
    BY FS_CardinalityType
<1>2. o \in [1 .. n -> S] /\ \A i, j \in 1 .. n : o[i] = o[j] => i = j
    BY DEF Orders
<1>3. o \in Seq(S) /\ Len(o) = n
    BY <1>1, <1>2
<1>4. o \in Injection(1 .. n, S)
    BY <1>2 DEF Injection, IsInjective
<1>5. Cardinality(1 .. n) = n
    <2>1. 1 \in Int /\ n \in Int /\ (IF 1 > n THEN 0 ELSE n - 1 + 1) = n
        BY <1>1
    <2> HIDE DEF n
    <2> QED
        BY <2>1, FS_Interval
<1> HIDE DEF n
<1>6. o \in Surjection(1 .. n, S)
    BY <1>4, <1>5, FS_Injection DEF n
<1>7. \A x \in S : \E i \in 1 .. n : o[i] = x
    BY <1>6 DEF Surjection
<1> QED
    BY <1>2, <1>3, <1>7 DEF n

LEMMA ManagedFacts ==
    /\ Managed \subseteq Known /\ Managed \subseteq Keys /\ Port \in Managed
    /\ IsFiniteSet(Managed) /\ Port # Password /\ NoKey \notin Managed
    /\ Password \in Managed <=> Rcon
<1>1. IsFiniteSet({Port}) /\ IsFiniteSet({Port, Password})
    <2>1. IsFiniteSet({Port})
        BY FS_Singleton
    <2>2. IsFiniteSet({Port} \cup {Password})
        BY <2>1, FS_AddElement
    <2>3. {Port} \cup {Password} = {Port, Password}
        OBVIOUS
    <2> QED
        BY <2>1, <2>2, <2>3
<1>2. Port # Password
    BY DEF Port, Password
<1>3. Managed = {Port} \/ Managed = {Port, Password}
    BY DEF Managed
<1>4. IsFiniteSet(Managed)
    BY <1>1, <1>3, Zenon
<1>5. Password \in Managed <=> Rcon
    BY <1>2, FlagTyped DEF Managed
<1>6. Managed \subseteq Known /\ Managed \subseteq Keys /\ Port \in Managed /\ NoKey \notin Managed
    BY ManagedAreKeys, NoKeyIsNoKey DEF Managed, Known
<1> QED
    BY <1>2, <1>4, <1>5, <1>6, Zenon

LEMMA PortsAreU16 ==
    {0, PUBLIC_PORT_DEFAULT, INTERNAL_PORT_PRIMARY, INTERNAL_PORT_FALLBACK} \subseteq U16
<1>1. 0 \in U16
    BY SMT DEF U16
<1>2. PUBLIC_PORT_DEFAULT \in U16
    BY SMT DEF U16, PUBLIC_PORT_DEFAULT
<1>3. INTERNAL_PORT_PRIMARY \in U16
    BY SMT DEF U16, INTERNAL_PORT_PRIMARY
<1>4. INTERNAL_PORT_FALLBACK \in U16
    BY SMT DEF U16, INTERNAL_PORT_FALLBACK
<1> QED
    BY <1>1, <1>2, <1>3, <1>4

-----------------------------------------------------------------------------
(* rewrite_contents.                                                       *)

LEMMA UpdatedFacts ==
    ASSUME NEW f \in Seq(Lines), NEW c \in [Managed -> Values]
    PROVE  /\ Updated(f, c) \in Seq(Lines) /\ Len(Updated(f, c)) = Len(f)
           /\ \A i \in 1 .. Len(f) :
                 /\ Updated(f, c)[i].key = f[i].key
                 /\ Updated(f, c)[i].exact = f[i].exact
                 /\ f[i].key \in Managed /\ IsFirst(f, i) => Updated(f, c)[i].value = c[f[i].key]
                 /\ f[i].key \notin Managed => Updated(f, c)[i] = f[i]
<1>1. DOMAIN f = 1 .. Len(f) /\ Len(f) \in Nat /\ DOMAIN c = Managed
    OBVIOUS
<1>2. ASSUME NEW i \in 1 .. Len(f)
      PROVE  /\ Updated(f, c)[i] \in Lines
             /\ Updated(f, c)[i].key = f[i].key
             /\ Updated(f, c)[i].exact = f[i].exact
             /\ f[i].key \in Managed /\ IsFirst(f, i) => Updated(f, c)[i].value = c[f[i].key]
             /\ f[i].key \notin Managed => Updated(f, c)[i] = f[i]
    <2>1. f[i] \in Lines
        BY <1>1
    <2>2. CASE f[i].key \in Managed /\ IsFirst(f, i)
        <3>1. Updated(f, c)[i] = [f[i] EXCEPT !.value = c[f[i].key]]
            BY <1>1, <2>2 DEF Updated
        <3>2. c[f[i].key] \in Values /\ f[i].key # NoKey
            BY <2>2, ManagedFacts
        <3>3. /\ Updated(f, c)[i] \in Lines /\ Updated(f, c)[i].key = f[i].key
              /\ Updated(f, c)[i].exact = f[i].exact /\ Updated(f, c)[i].value = c[f[i].key]
            BY <2>1, <3>1, <3>2, ChangedLine
        <3> QED
            BY <2>2, <3>3
    <2>3. CASE ~(f[i].key \in Managed /\ IsFirst(f, i))
        <3>1. Updated(f, c)[i] = f[i]
            BY <1>1, <2>3 DEF Updated
        <3> QED
            BY <2>1, <2>3, <3>1
    <2> QED
        BY <2>2, <2>3
<1>3. Updated(f, c) = [i \in 1 .. Len(f) |-> Updated(f, c)[i]]
    BY <1>1 DEF Updated
<1> QED
    BY <1>1, <1>2, <1>3

\* The file has one line that sets k, as Minecraft spells it, to v.
Settled(f, k, v) ==
    \E i \in 1 .. Len(f) :
        /\ f[i].key = k /\ f[i].exact /\ f[i].value = v
        /\ \A j \in 1 .. Len(f) : f[j].key = k /\ f[j].exact => j = i

\* Minecraft believes that line, wherever it is.
LEMMA SettledIsLoaded ==
    ASSUME NEW f \in Seq(Lines), NEW k \in Keys, NEW v, Settled(f, k, v)
    PROVE  Loaded(f, k) = v
<1>1. PICK i \in 1 .. Len(f) :
          /\ f[i].key = k /\ f[i].exact /\ f[i].value = v
          /\ \A j \in 1 .. Len(f) : f[j].key = k /\ f[j].exact => j = i
    BY DEF Settled
<1>2. IsLast(f, i)
    <2> SUFFICES ASSUME NEW j \in i + 1 .. Len(f)
                 PROVE  <<f[j].key, f[j].exact>> # <<f[i].key, f[i].exact>>
        BY DEF IsLast
    <2>1. j \in 1 .. Len(f) /\ j # i
        OBVIOUS
    <2>2. ~(f[j].key = f[i].key /\ f[j].exact = f[i].exact)
        BY <1>1, <2>1
    <2> QED
        BY <2>2
<1>3. {j \in DOMAIN f : f[j].key = k /\ f[j].exact /\ IsLast(f, j)} = {i}
    BY <1>1, <1>2
<1> QED
    BY <1>1, <1>3 DEF Loaded

\* A file that is in order has a line that sets k at most once, and then that
\* line is the one that is changed.
LEMMA UpdatedSettles ==
    ASSUME NEW f \in Seq(Lines), Distinct(f), NEW c \in [Managed -> Values],
           NEW k \in Managed, NEW i \in 1 .. Len(f), f[i].key = k
    PROVE  /\ Updated(f, c)[i].key = k /\ Updated(f, c)[i].exact
           /\ Updated(f, c)[i].value = c[k]
           /\ \A j \in 1 .. Len(f) : f[j].key = k => j = i
<1>1. f[i].key # NoKey /\ IsFirst(f, i) /\ f[i].exact
    BY ManagedFacts DEF Distinct
<1>2. \A j \in 1 .. Len(f) : f[j].key = k => IsFirst(f, j)
    BY ManagedFacts DEF Distinct
<1>3. \A j \in 1 .. Len(f) : f[j].key = k => ~(j < i) /\ ~(i < j)
    BY <1>1, <1>2 DEF IsFirst
<1> QED
    BY <1>1, <1>3, UpdatedFacts

\* The changes that no line took, in some order, as lines.
Appended(o, c) == [i \in DOMAIN o |-> Pair(o[i], c[o[i]])]

LEMMA AppendedFacts ==
    ASSUME NEW f, NEW c \in [Managed -> Values], NEW o \in Orders(Left(f, c))
    PROVE  /\ Appended(o, c) \in Seq(Lines) /\ Len(Appended(o, c)) = Len(o)
           /\ \A i \in 1 .. Len(o) :
                 /\ o[i] \in Left(f, c) /\ Appended(o, c)[i].key = o[i]
                 /\ Appended(o, c)[i].exact /\ Appended(o, c)[i].value = c[o[i]]
           /\ \A k \in Left(f, c) : \E i \in 1 .. Len(o) : o[i] = k
           /\ \A i, j \in 1 .. Len(o) : o[i] = o[j] => i = j
<1> DEFINE a == Appended(o, c)
<1>1. Left(f, c) \subseteq Managed
    BY DEF Left
<1>2. IsFiniteSet(Left(f, c))
    BY <1>1, ManagedFacts, FS_Subset
<1>3. /\ o \in Seq(Left(f, c))
      /\ \A k \in Left(f, c) : \E i \in 1 .. Len(o) : o[i] = k
      /\ \A i, j \in 1 .. Len(o) : o[i] = o[j] => i = j
    BY <1>2, OrderFacts
<1>4. DOMAIN o = 1 .. Len(o) /\ Len(o) \in Nat
    BY <1>3
<1>5. \A i \in 1 .. Len(o) :
         /\ o[i] \in Left(f, c) /\ a[i] \in Lines /\ a[i].key = o[i]
         /\ a[i].exact /\ a[i].value = c[o[i]]
    <2> SUFFICES ASSUME NEW i \in 1 .. Len(o)
                 PROVE  /\ o[i] \in Left(f, c) /\ a[i] \in Lines /\ a[i].key = o[i]
                        /\ a[i].exact /\ a[i].value = c[o[i]]
        OBVIOUS
    <2>1. o[i] \in Left(f, c) /\ o[i] \in Managed /\ o[i] \in Keys /\ c[o[i]] \in Values
        BY <1>1, <1>3, ManagedFacts
    <2>2. a[i] = Pair(o[i], c[o[i]])
        BY <1>4 DEF Appended
    <2> QED
        BY <2>1, <2>2, LineFacts
<1>6. a \in Seq(Lines) /\ Len(a) = Len(o)
    <2>1. a = [i \in 1 .. Len(o) |-> a[i]]
        BY <1>4 DEF Appended
    <2> HIDE DEF a
    <2> QED
        BY <1>4, <1>5, <2>1
<1> QED
    BY <1>3, <1>5, <1>6

LEMMA ConcatLines ==
    ASSUME NEW u \in Seq(Lines), NEW a \in Seq(Lines)
    PROVE  /\ u \o a \in Seq(Lines) /\ Len(u \o a) = Len(u) + Len(a)
           /\ \A i \in 1 .. Len(u) + Len(a) : (u \o a)[i] = IF i <= Len(u) THEN u[i] ELSE a[i - Len(u)]
OBVIOUS

\* How many lines come before what is appended.
Kept(f) == IF f = <<>> THEN 1 ELSE Len(f)

\* A rewritten file: the lines there were, and behind them what was left over.
LEMMA RewriteLines ==
    ASSUME NEW f \in Seq(Lines), NEW c \in [Managed -> Values], NEW g \in Rewrites(f, c)
    PROVE  /\ g \in Seq(Lines) /\ Kept(f) \in 0 .. Len(g)
           /\ f = <<>> => g[1] = Text
           /\ f # <<>> => \A i \in 1 .. Kept(f) : g[i] = Updated(f, c)[i]
           /\ \A i \in Kept(f) + 1 .. Len(g) :
                 g[i].key \in Left(f, c) /\ g[i].exact /\ g[i].value = c[g[i].key]
           /\ \A k \in Left(f, c) : \E i \in Kept(f) + 1 .. Len(g) : g[i].key = k
           /\ \A i, j \in Kept(f) + 1 .. Len(g) : g[i].key = g[j].key => i = j
<1>1. PICK o \in Orders(Left(f, c)) :
          g = (IF f = <<>> THEN <<Text>> ELSE Updated(f, c)) \o Appended(o, c)
    BY DEF Rewrites, Appended
<1> DEFINE a == Appended(o, c)
           u == IF f = <<>> THEN <<Text>> ELSE Updated(f, c)
           n == Len(u)
<1>2. /\ a \in Seq(Lines) /\ Len(a) = Len(o)
      /\ \A i \in 1 .. Len(o) : /\ o[i] \in Left(f, c) /\ a[i].key = o[i]
                                /\ a[i].exact /\ a[i].value = c[o[i]]
      /\ \A x \in Left(f, c) : \E i \in 1 .. Len(o) : o[i] = x
      /\ \A i, j \in 1 .. Len(o) : o[i] = o[j] => i = j
    BY AppendedFacts
<1>3. u \in Seq(Lines)
    BY LineFacts, UpdatedFacts
<1>4. g = u \o a
    BY <1>1
<1>5. f = <<>> => u = <<Text>>
    OBVIOUS
<1>6. f # <<>> => u = Updated(f, c) /\ n = Len(f)
    BY UpdatedFacts
<1> HIDE DEF a, u
<1>7. /\ g \in Seq(Lines) /\ Len(g) = n + Len(a) /\ n \in Nat /\ Len(a) \in Nat
      /\ \A i \in 1 .. n + Len(a) : g[i] = IF i <= n THEN u[i] ELSE a[i - n]
    <2> DEFINE v == u \o a
    <2>1. /\ v \in Seq(Lines) /\ Len(v) = Len(u) + Len(a)
          /\ \A i \in 1 .. Len(u) + Len(a) : v[i] = IF i <= Len(u) THEN u[i] ELSE a[i - Len(u)]
        <3>1. a \in Seq(Lines)
            BY <1>2
        <3> QED
            BY <1>3, <3>1, ConcatLines, Zenon
    <2>2. Len(u) \in Nat /\ Len(a) \in Nat
        <3>1. \A s \in Seq(Lines) : Len(s) \in Nat
            OBVIOUS
        <3> QED
            BY <1>2, <1>3, <3>1, Zenon
    <2>3. g = v
        BY <1>4
    <2> HIDE DEF v
    <2> QED
        BY <2>1, <2>2, <2>3
<1>8. /\ f = <<>> => n = 1 /\ g[1] = Text
      /\ f # <<>> => n = Len(f) /\ \A i \in 1 .. n : g[i] = Updated(f, c)[i]
    <2>1. ASSUME f = <<>> PROVE n = 1 /\ g[1] = Text
        <3>1. Len(u) = 1 /\ u[1] = Text
            BY <1>5, <2>1
        <3>2. 1 \in 1 .. n + Len(a) /\ 1 <= n
            BY <1>7, <3>1
        <3> QED
            BY <1>7, <3>1, <3>2
    <2>2. \A i \in 1 .. n : g[i] = u[i]
        BY <1>7
    <2> QED
        BY <1>6, <2>1, <2>2
<1> HIDE DEF n
<1>9. \A i \in n + 1 .. Len(g) : i - n \in 1 .. Len(o) /\ g[i] = a[i - n]
    BY <1>2, <1>7
<1>10. \A i \in 1 .. Len(o) : n + i \in n + 1 .. Len(g) /\ g[n + i] = a[i]
    <2>1. \A i \in 1 .. Len(o) : /\ n + i \in n + 1 .. Len(g) /\ n + i \in 1 .. n + Len(a)
                                 /\ ~(n + i <= n) /\ (n + i) - n = i
        BY <1>2, <1>7
    <2> QED
        BY <1>7, <2>1
<1>11. \A i \in n + 1 .. Len(g) :
          g[i].key \in Left(f, c) /\ g[i].exact /\ g[i].value = c[g[i].key]
    BY <1>2, <1>9
<1>12. \A k \in Left(f, c) : \E i \in n + 1 .. Len(g) : g[i].key = k
    BY <1>2, <1>10
<1>13. ASSUME NEW i \in n + 1 .. Len(g), NEW j \in n + 1 .. Len(g), g[i].key = g[j].key
       PROVE  i = j
    <2>1. i - n = j - n
        BY <1>2, <1>9, <1>13
    <2> QED
        BY <1>7, <2>1
<1>14. n \in 0 .. Len(g) /\ g \in Seq(Lines)
    BY <1>7
<1>15. n = Kept(f)
    BY <1>6, <1>8 DEF Kept
<1> QED
    BY <1>6, <1>8, <1>11, <1>12, <1>13, <1>14, <1>15

\* What is rewritten in order is settled.
LEMMA RewriteSettles ==
    ASSUME NEW f \in Seq(Lines), Distinct(f), NEW c \in [Managed -> Values],
           NEW g \in Rewrites(f, c), NEW k \in Managed
    PROVE  Settled(g, k, c[k])
<1> DEFINE n == Kept(f)
<1>1. /\ f = <<>> => n = 1 /\ g[1] = Text
      /\ f # <<>> => n = Len(f) /\ \A i \in 1 .. n : g[i] = Updated(f, c)[i]
      /\ \A i \in n + 1 .. Len(g) :
            g[i].key \in Left(f, c) /\ g[i].exact /\ g[i].value = c[g[i].key]
      /\ \A x \in Left(f, c) : \E i \in n + 1 .. Len(g) : g[i].key = x
      /\ \A i, j \in n + 1 .. Len(g) : g[i].key = g[j].key => i = j
      /\ n \in 0 .. Len(g)
    BY RewriteLines DEF Kept
<1> HIDE DEF n
<1>2. \A i \in 1 .. n : g[i].key = k => f # <<>> /\ i \in 1 .. Len(f) /\ f[i].key = k
    <2>1. CASE f = <<>>
        BY <1>1, <2>1, LineFacts, ManagedFacts
    <2>2. CASE f # <<>>
        BY <1>1, <2>2, UpdatedFacts
    <2> QED
        BY <2>1, <2>2
<1>3. \A i \in 1 .. Len(g) : i \in 1 .. n \/ i \in n + 1 .. Len(g)
    BY <1>1
<1>4. CASE \E i \in 1 .. Len(f) : f[i].key = k
    <2>1. PICK i \in 1 .. Len(f) : f[i].key = k
        BY <1>4
    <2>2. f # <<>> /\ n = Len(f) /\ i \in 1 .. Len(g)
        BY <1>1, <2>1
    <2>3. /\ g[i].key = k /\ g[i].exact /\ g[i].value = c[k]
          /\ \A j \in 1 .. Len(f) : f[j].key = k => j = i
        BY <1>1, <2>1, <2>2, UpdatedSettles
    <2>4. k \notin Left(f, c)
        BY <2>1, ManagedFacts DEF Left, KeysOf
    <2>5. \A j \in 1 .. Len(g) : g[j].key = k => j = i
        BY <1>1, <1>2, <1>3, <2>3, <2>4
    <2> QED
        BY <2>2, <2>3, <2>5 DEF Settled
<1>5. CASE ~ \E i \in 1 .. Len(f) : f[i].key = k
    <2>1. k \in Left(f, c)
        BY <1>5 DEF Left, KeysOf
    <2>2. PICK m \in n + 1 .. Len(g) : g[m].key = k
        BY <1>1, <2>1
    <2>3. \A j \in 1 .. Len(g) : g[j].key = k => j = m
        BY <1>1, <1>2, <1>3, <1>5, <2>2
    <2>4. m \in 1 .. Len(g)
        BY <1>1
    <2> QED
        BY <1>1, <2>2, <2>3, <2>4 DEF Settled
<1> QED
    BY <1>4, <1>5

\* So is a file with nothing to change.
LEMMA UnchangedSettles ==
    ASSUME NEW f \in Seq(Lines), Distinct(f), NEW c \in [Managed -> Values],
           ~Changed(f, c), NEW k \in Managed
    PROVE  Settled(f, k, c[k])
<1>1. k \in KeysOf(f) /\ Updated(f, c) = f
    BY DEF Changed, Left
<1>2. PICK i \in 1 .. Len(f) : f[i].key = k
    BY <1>1 DEF KeysOf
<1> QED
    BY <1>1, <1>2, UpdatedSettles DEF Settled

\* Half a rewrite is still lines.
LEMMA TornTyped ==
    ASSUME NEW f \in Seq(Lines), NEW g \in Torn(f)
    PROVE  g \in Seq(Lines)
<1>1. CASE \E n \in 0 .. Len(f) - 1 : g = SubSeq(f, 1, n)
    BY <1>1
<1>2. CASE ~ \E n \in 0 .. Len(f) - 1 : g = SubSeq(f, 1, n)
    <2>1. PICK n \in {m \in DOMAIN f : f[m] # Text} :
              \/ g = Append(SubSeq(f, 1, n - 1), Text)
              \/ g = Append(SubSeq(f, 1, n - 1), [f[n] EXCEPT !.value = Cut])
        BY <1>2 DEF Torn
    <2>2. SubSeq(f, 1, n - 1) \in Seq(Lines) /\ f[n] \in Lines /\ f[n] # Text
        OBVIOUS
    <2>3. f[n].key # NoKey
        BY <2>2, NoKeyIsNoKey DEF Lines, Text
    <2>4. [f[n] EXCEPT !.value = Cut] \in Lines /\ Text \in Lines
        BY <2>2, <2>3, CutIsAValue, ChangedLine, LineFacts
    <2>5. \A l \in Lines : Append(SubSeq(f, 1, n - 1), l) \in Seq(Lines)
        BY <2>2
    <2> QED
        BY <2>1, <2>4, <2>5
<1> QED
    BY <1>1, <1>2

-----------------------------------------------------------------------------
(* What Minecraft makes of the file.                                       *)

LEMMA LoadedTyped ==
    ASSUME NEW f \in Seq(Lines), NEW k \in Keys
    PROVE  Loaded(f, k) \in Values \cup {None}
<1> DEFINE found == {i \in DOMAIN f : f[i].key = k /\ f[i].exact /\ IsLast(f, i)}
<1>1. CASE found = {}
    BY <1>1 DEF Loaded
<1>2. CASE found # {}
    <2>1. PICK i \in found : i = CHOOSE j \in found : TRUE
        BY <1>2
    <2>2. Loaded(f, k) = f[i].value
        BY <1>2, <2>1 DEF Loaded
    <2>3. f[i] \in Lines /\ f[i].key # NoKey
        BY <2>1, NoKeyIsNoKey
    <2> QED
        BY <2>2, <2>3, LineFacts
<1> QED
    BY <1>1, <1>2

LEMMA InEffectTyped ==
    ASSUME lines \in Seq(Lines), NEW k \in Known
    PROVE  InEffect(k) \in Values /\ k \in Keys
<1>1. k \in Keys
    BY ManagedAreKeys DEF Known
<1>2. Default(k) \in Values
    BY PortsAreU16, PortsAreValues DEF Default
<1> QED
    BY <1>1, <1>2, LoadedTyped DEF InEffect

LEMMA StoredFacts ==
    ASSUME lines \in Seq(Lines)
    PROVE  /\ Stored \subseteq Lines /\ IsFiniteSet(Stored)
           /\ \A k \in Known :
                 /\ Pair(k, InEffect(k)) \in Stored
                 /\ \A l \in Stored : l.key = k /\ l.exact => l = Pair(k, InEffect(k))
<1> DEFINE known == {Pair(k, InEffect(k)) : k \in Known}
           other == {lines[i] : i \in {j \in DOMAIN lines :
                        /\ lines[j].key # NoKey /\ IsLast(lines, j)
                        /\ lines[j].exact => lines[j].key \notin Known}}
<1>1. Stored = known \cup other
    BY DEF Stored
<1>2. DOMAIN lines = 1 .. Len(lines) /\ Len(lines) \in Nat
    OBVIOUS
<1>3. known \subseteq Lines /\ other \subseteq Lines
    BY InEffectTyped, LineFacts
<1>4. IsFiniteSet(known)
    <2>1. known = {Pair(Port, InEffect(Port))} \cup {Pair(Password, InEffect(Password))}
        BY DEF Known
    <2> HIDE DEF known
    <2> QED
        BY <2>1, FS_Singleton, FS_AddElement
<1>5. IsFiniteSet(other)
    <2> DEFINE all == {lines[i] : i \in 1 .. Len(lines)}
    <2>1. lines \in Surjection(1 .. Len(lines), all)
        BY <1>2 DEF Surjection
    <2>2. IsFiniteSet(1 .. Len(lines))
        BY <1>2, FS_Interval
    <2>3. other \subseteq all
        BY <1>2
    <2> HIDE DEF all, other
    <2>4. IsFiniteSet(all)
        BY <2>1, <2>2, FS_Surjection
    <2> QED
        BY <2>3, <2>4, FS_Subset
<1>6. ASSUME NEW k \in Known
      PROVE  /\ Pair(k, InEffect(k)) \in known
             /\ \A l \in known : l.key = k => l = Pair(k, InEffect(k))
             /\ \A l \in other : ~(l.key = k /\ l.exact)
    BY InEffectTyped, LineFacts
<1>7. IsFiniteSet(known \cup other)
    BY <1>4, <1>5, FS_Union
<1> QED
    BY <1>1, <1>3, <1>6, <1>7

LEMMA StoredInOrder ==
    ASSUME lines \in Seq(Lines), NEW order \in Orders(Stored)
    PROVE  /\ <<Text>> \o order \in Seq(Lines)
           /\ \A k \in Known : Settled(<<Text>> \o order, k, InEffect(k))
<1>1. /\ order \in Seq(Stored) /\ Len(order) \in Nat
      /\ \A x \in Stored : \E i \in 1 .. Len(order) : order[i] = x
      /\ \A i, j \in 1 .. Len(order) : order[i] = order[j] => i = j
    BY StoredFacts, OrderFacts
<1>2. order \in Seq(Lines) /\ \A i \in 1 .. Len(order) : order[i] \in Stored
    BY <1>1, StoredFacts
<1> DEFINE f == <<Text>> \o order
<1>3. /\ f \in Seq(Lines) /\ Len(f) = Len(order) + 1
      /\ \A i \in 1 .. Len(order) + 1 : f[i] = IF i = 1 THEN Text ELSE order[i - 1]
    BY <1>1, <1>2, LineFacts
<1> HIDE DEF f
<1>4. ASSUME NEW k \in Known
      PROVE  Settled(f, k, InEffect(k))
    <2>1. /\ Pair(k, InEffect(k)).key = k /\ Pair(k, InEffect(k)).exact
          /\ Pair(k, InEffect(k)).value = InEffect(k) /\ k # NoKey
        BY InEffectTyped, LineFacts, NoKeyIsNoKey
    <2>2. PICK i \in 1 .. Len(order) : order[i] = Pair(k, InEffect(k))
        BY <1>1, StoredFacts
    <2>3. i + 1 \in 1 .. Len(f) /\ f[i + 1] = order[i]
        BY <1>1, <1>3
    <2>4. ASSUME NEW j \in 1 .. Len(f), f[j].key = k, f[j].exact
          PROVE  j = i + 1
        <3>1. j # 1
            BY <1>1, <1>3, <2>1, <2>4, LineFacts
        <3>2. j - 1 \in 1 .. Len(order) /\ f[j] = order[j - 1]
            <4>1. Len(order) \in Nat /\ j \in 1 .. Len(order) + 1
                BY <1>2, <1>3
            <4>2. j - 1 \in 1 .. Len(order)
                BY <3>1, <4>1
            <4>3. f[j] = IF j = 1 THEN Text ELSE order[j - 1]
                BY <1>3, <4>1
            <4> QED
                BY <3>1, <4>2, <4>3
        <3>3. order[j - 1] = Pair(k, InEffect(k))
            BY <1>2, <2>4, <3>2, StoredFacts
        <3>4. j - 1 = i
            BY <1>1, <2>2, <3>2, <3>3
        <3> QED
            BY <3>4
    <2> QED
        BY <2>1, <2>2, <2>3, <2>4 DEF Settled
<1> QED
    BY <1>3, <1>4 DEF f

-----------------------------------------------------------------------------
(* The invariant.                                                          *)

\* The changes of a start in progress have a value each, and the proxy is not
\* to be found on the port it gives Minecraft.
SettingsKnown ==
    proxy # "off" => /\ settings \in [Managed -> Values] /\ public \in U16
                     /\ settings[Port] = InternalPort(public)
                     /\ \A k \in Managed : settings[k] \in U16 \cup 1 .. MaxStarts

\* The file that is sure holds the settings of this start, whoever of proxy and
\* Minecraft wrote it last.
SureSettled ==
    sure => proxy # "rewrite" /\ \A k \in Managed : /\ settings[k] \in Values
                                                    /\ Settled(lines, k, settings[k])

LaunchInv == TypeOK /\ SettingsKnown /\ SureSettled /\ MinecraftReachable

LEMMA NoMinecraftTyped ==
    NoMinecraft \in [up: BOOLEAN, port: Values \cup {None},
                     password: Values \cup {None}, sure: BOOLEAN]
BY DEF NoMinecraft

LEMMA LaunchInit == Init => LaunchInv
<1> SUFFICES ASSUME Init PROVE LaunchInv
    OBVIOUS
<1>1. lines \in Seq(Lines) /\ exists \in BOOLEAN
    <2>1. \A f \in Files : f \in Seq(Lines)
        BY FilesTyped
    <2>2. <<>> \in Seq(Lines)
        OBVIOUS
    <2> QED
        BY <2>1, <2>2 DEF Init
<1>2. settings \in [Managed -> Values \cup {None}]
    BY DEF Init
<1>3. TypeOK
    <2>1. 0 \in 0 .. MaxStarts /\ None \in U16 \cup {None}
        BY MaxStartsTyped
    <2>2. /\ proxy = "off" /\ starts = 0 /\ written = FALSE /\ public = None
          /\ minecraft = NoMinecraft /\ sure = FALSE
        BY DEF Init
    <2> QED
        BY <1>1, <1>2, <2>1, <2>2, NoMinecraftTyped DEF TypeOK
<1> QED
    BY <1>3 DEF Init, LaunchInv, SettingsKnown, SureSettled, MinecraftReachable, NoMinecraft

LEMMA StartStep == ASSUME LaunchInv, Start PROVE LaunchInv'
<1>1. PICK v \in ServerPorts :
          /\ public' = PublicPort(v)
          /\ settings' = [k \in Managed |-> IF k = Port THEN InternalPort(public') ELSE starts']
    BY DEF Start
<1>2. /\ proxy' = "rewrite" /\ starts' = starts + 1 /\ starts < MaxStarts
      /\ written' = FALSE /\ sure' = FALSE /\ minecraft' = NoMinecraft
      /\ UNCHANGED <<exists, lines>>
    BY DEF Start, fileVars
<1>3. public' \in U16
    <2>1. PUBLIC_PORT_DEFAULT \in U16
        BY PortsAreU16
    <2> QED
        BY <1>1, <2>1 DEF PublicPort, EnvU16
<1>4. InternalPort(public') \in U16
    BY PortsAreU16 DEF InternalPort
<1>5. starts' \in 1 .. MaxStarts
    BY <1>2, MaxStartsTyped DEF LaunchInv, TypeOK
<1>6. /\ settings' \in [Managed -> U16 \cup 1 .. MaxStarts]
      /\ settings'[Port] = InternalPort(public')
    BY <1>1, <1>4, <1>5, ManagedFacts
<1>7. settings' \in [Managed -> Values]
    BY <1>6, PortsAreValues
<1>8. TypeOK'
    <2>1. starts' \in 0 .. MaxStarts
        BY <1>5
    <2>2. settings' \in [Managed -> Values \cup {None}]
        BY <1>7
    <2> QED
        BY <1>2, <1>3, <2>1, <2>2, NoMinecraftTyped DEF LaunchInv, TypeOK
<1>9. SettingsKnown'
    BY <1>3, <1>6, <1>7 DEF SettingsKnown
<1> QED
    BY <1>2, <1>8, <1>9 DEF LaunchInv, SureSettled, MinecraftReachable, NoMinecraft

LEMMA RewriteSteps ==
    ASSUME LaunchInv, NotRewritten \/ Rewrite \/ TornRewrite
    PROVE  LaunchInv'
<1>0. /\ proxy = "rewrite" /\ proxy' \in {"serve", "off"}
      /\ UNCHANGED <<exists, starts, public, settings, minecraft>>
    BY DEF NotRewritten, Rewrite, TornRewrite, Rewriting
<1>1. lines \in Seq(Lines) /\ settings \in [Managed -> Values] /\ ~sure
    BY <1>0 DEF LaunchInv, TypeOK, SettingsKnown, SureSettled
<1>2. SettingsKnown'
    BY <1>0 DEF LaunchInv, SettingsKnown, InternalPort
<1>3. MinecraftReachable'
    BY <1>0 DEF LaunchInv, MinecraftReachable
<1>4. CASE NotRewritten
    <2>1. UNCHANGED <<lines, written, sure>>
        BY <1>4 DEF NotRewritten
    <2> QED
        BY <1>0, <1>1, <1>2, <1>3, <2>1 DEF LaunchInv, TypeOK, SureSettled
<1>5. CASE Rewrite
    <2>1. /\ proxy' = "serve" /\ written' = TRUE /\ sure' = Distinct(lines)
          /\ \/ Changed(lines, settings) /\ lines' \in Rewrites(lines, settings)
             \/ ~Changed(lines, settings) /\ lines' = lines
        BY <1>5 DEF Rewrite
    <2>2. lines' \in Seq(Lines)
        BY <1>1, <2>1, RewriteLines
    <2>3. sure' \in BOOLEAN
        BY <2>1 DEF Distinct
    <2>4. TypeOK'
        BY <1>0, <2>1, <2>2, <2>3 DEF LaunchInv, TypeOK
    <2>5. sure' => \A k \in Managed : Settled(lines', k, settings[k])
        BY <1>1, <2>1, RewriteSettles, UnchangedSettles
    <2>6. SureSettled'
        BY <1>0, <1>1, <2>1, <2>5 DEF SureSettled, Settled
    <2> QED
        BY <1>2, <1>3, <2>4, <2>6 DEF LaunchInv
<1>6. CASE TornRewrite
    <2>1. PICK new \in Rewrites(lines, settings) : lines' \in Torn(new)
        BY <1>6 DEF TornRewrite
    <2>2. lines' \in Seq(Lines)
        BY <1>1, <2>1, RewriteLines, TornTyped
    <2>3. UNCHANGED <<written, sure>>
        BY <1>6 DEF TornRewrite
    <2> QED
        BY <1>0, <1>1, <1>2, <1>3, <2>2, <2>3 DEF LaunchInv, TypeOK, SureSettled
<1> QED
    BY <1>4, <1>5, <1>6

LEMMA MinecraftStep == ASSUME LaunchInv, MinecraftStarts PROVE LaunchInv'
<1>0. /\ proxy = "serve" /\ exists' = TRUE
      /\ UNCHANGED <<proxy, starts, public, settings, written, sure>>
      /\ minecraft' = [up |-> InEffect(Port) # public, port |-> InEffect(Port),
                       password |-> InEffect(Password), sure |-> sure]
    BY DEF MinecraftStarts, proxyVars
<1>1. PICK order \in Orders(Stored) : lines' = <<Text>> \o order
    BY DEF MinecraftStarts
<1>2. lines \in Seq(Lines)
    BY DEF LaunchInv, TypeOK
<1>3. /\ lines' \in Seq(Lines)
      /\ \A k \in Known : Settled(lines', k, InEffect(k))
    BY <1>1, <1>2, StoredInOrder
<1>4. InEffect(Port) \in Values /\ InEffect(Password) \in Values
    BY <1>2, InEffectTyped DEF Known
<1>5. minecraft' \in [up: BOOLEAN, port: Values \cup {None},
                      password: Values \cup {None}, sure: BOOLEAN]
    BY <1>0, <1>4 DEF LaunchInv, TypeOK
<1>6. TypeOK'
    BY <1>0, <1>3, <1>5 DEF LaunchInv, TypeOK
<1>7. SettingsKnown'
    BY <1>0 DEF LaunchInv, SettingsKnown, InternalPort
<1>8. ASSUME sure, NEW k \in Managed PROVE InEffect(k) = settings[k]
    <2>1. Settled(lines, k, settings[k]) /\ settings[k] \in Values
        BY <1>8 DEF LaunchInv, SureSettled
    <2>2. Loaded(lines, k) = settings[k]
        BY <1>2, <2>1, ManagedFacts, SettledIsLoaded
    <2> QED
        BY <2>1, <2>2, NoneIsNoValue DEF InEffect
<1>9. SureSettled'
    <2>1. sure => \A k \in Managed : Settled(lines', k, settings[k])
        BY <1>3, <1>8, ManagedFacts
    <2> QED
        BY <1>0, <2>1 DEF LaunchInv, SureSettled, Settled
<1>10. MinecraftReachable'
    <2> SUFFICES ASSUME minecraft'.sure
                 PROVE  /\ minecraft'.up /\ minecraft'.port = settings'[Port]
                        /\ Rcon => minecraft'.password = settings'[Password]
        BY DEF MinecraftReachable
    <2>1. sure /\ InEffect(Port) = settings[Port]
        BY <1>0, <1>8, ManagedFacts
    <2>2. Rcon => InEffect(Password) = settings[Password]
        BY <1>8, <2>1, ManagedFacts
    <2>3. settings[Port] # public
        BY <1>0 DEF LaunchInv, SettingsKnown, InternalPort,
                    INTERNAL_PORT_PRIMARY, INTERNAL_PORT_FALLBACK
    <2> QED
        BY <1>0, <2>1, <2>2, <2>3
<1> QED
    BY <1>6, <1>7, <1>9, <1>10 DEF LaunchInv

LEMMA OtherSteps ==
    ASSUME LaunchInv, MinecraftEnds \/ End \/ Edit \/ UNCHANGED vars
    PROVE  LaunchInv'
<1>1. CASE MinecraftEnds
    BY <1>1 DEF MinecraftEnds, fileVars, proxyVars, NoMinecraft, LaunchInv, TypeOK,
                SettingsKnown, InternalPort, SureSettled, Settled, MinecraftReachable
<1>2. CASE End
    BY <1>2 DEF End, fileVars, LaunchInv, TypeOK,
                SettingsKnown, InternalPort, SureSettled, Settled, MinecraftReachable
<1>3. CASE Edit
    <2>1. lines' \in Seq(Lines)
        <3>1. \A f \in Files : f \in Seq(Lines)
            BY FilesTyped
        <3>2. <<>> \in Seq(Lines)
            OBVIOUS
        <3> QED
            BY <1>3, <3>1, <3>2 DEF Edit
    <2>2. exists' \in BOOLEAN /\ sure' = FALSE /\ UNCHANGED <<proxyVars, minecraft>>
        BY <1>3 DEF Edit
    <2> QED
        BY <2>1, <2>2 DEF proxyVars, LaunchInv, TypeOK,
                SettingsKnown, InternalPort, SureSettled, MinecraftReachable
<1>4. CASE UNCHANGED vars
    BY <1>4 DEF vars, fileVars, proxyVars, LaunchInv, TypeOK,
                SettingsKnown, InternalPort, SureSettled, Settled, MinecraftReachable
<1> QED
    BY <1>1, <1>2, <1>3, <1>4

THEOREM LaunchInvariant == Spec => []LaunchInv
<1>1. LaunchInv /\ [Next]_vars => LaunchInv'
    BY StartStep, RewriteSteps, MinecraftStep, OtherSteps DEF Next
<1> QED
    BY <1>1, LaunchInit, PTL DEF Spec

\* Every line that is ever in the file is a line, and no setting is missing
\* where it is used.
THEOREM LaunchTypeCorrect == Spec => []TypeOK
<1>1. LaunchInv => TypeOK
    BY DEF LaunchInv
<1> QED
    BY <1>1, LaunchInvariant, PTL

\* A Minecraft whose file was in order when the proxy rewrote it is found on
\* the port the proxy dials, which is not the proxy's own, and takes this
\* start's RCON password: for every file, every SERVER_PORT, any number of
\* starts of either program (rewrite_contents, Config::runtime).
THEOREM MinecraftIsReachable == Spec => []MinecraftReachable
<1>1. LaunchInv => MinecraftReachable
    BY DEF LaunchInv
<1> QED
    BY <1>1, LaunchInvariant, PTL
-----------------------------------------------------------------------------
(* The rewrite implements PropertyMap.                                     *)

LEMMA Least ==
    ASSUME NEW T \in SUBSET Nat, T # {}
    PROVE  \E m \in T : \A n \in T : m <= n
<1> DEFINE D == {1 .. n : n \in T}
<1>1. D \subseteq FiniteSubsetsOf(Nat)
    <2>1. \A n \in T : IsFiniteSet(1 .. n)
        BY FS_Interval
    <2> QED
        BY <2>1 DEF FiniteSubsetsOf
<1>2. D # {}
    OBVIOUS
<1>3. IsWellFoundedOn(StrictSubsetOrdering(Nat), FiniteSubsetsOf(Nat))
    BY FS_StrictSubsetOrderingWellFounded
<1>4. PICK x \in D : \A y \in D : ~(<<y, x>> \in StrictSubsetOrdering(Nat))
    <2> HIDE DEF D
    <2> QED
        BY <1>1, <1>2, <1>3, WFMin, Zenon
<1>5. PICK m \in T : x = 1 .. m
    OBVIOUS
<1>6. ASSUME NEW n \in T, n < m PROVE FALSE
    <2>1. <<1 .. n, x>> \in StrictSubsetOrdering(Nat)
        BY <1>5, <1>6 DEF StrictSubsetOrdering
    <2> QED
        BY <1>4, <2>1
<1> QED
    BY <1>6

\* A key that a file has, it has a first time.
LEMMA FirstOfKey ==
    ASSUME NEW f \in Seq(Lines), NEW k, \E i \in 1 .. Len(f) : f[i].key = k
    PROVE  \E i \in 1 .. Len(f) : f[i].key = k /\ IsFirst(f, i)
<1> DEFINE T == {i \in 1 .. Len(f) : f[i].key = k}
<1>1. T \in SUBSET Nat /\ T # {}
    OBVIOUS
<1> HIDE DEF T
<1>2. PICK m \in T : \A n \in T : m <= n
    BY <1>1, Least
<1>3. m \in 1 .. Len(f) /\ f[m].key = k /\ \A n \in 1 .. Len(f) : f[n].key = k => m <= n
    BY <1>2 DEF T
<1>4. IsFirst(f, m)
    <2> SUFFICES ASSUME NEW j \in 1 .. m - 1 PROVE f[j].key # f[m].key
        BY DEF IsFirst
    <2>1. j \in 1 .. Len(f) /\ ~(m <= j)
        BY <1>3
    <2> QED
        BY <1>3, <2>1
<1> QED
    BY <1>3, <1>4

\* read_property gets it there, or nothing.
LEMMA ReadFirst ==
    ASSUME NEW f \in Seq(Lines), NEW i \in 1 .. Len(f), IsFirst(f, i)
    PROVE  Read(f, f[i].key) = f[i].value
<1>1. \A j \in 1 .. Len(f) : f[j].key = f[i].key /\ IsFirst(f, j) => ~(i < j) /\ ~(j < i)
    BY DEF IsFirst
<1>2. \A j \in 1 .. Len(f) : f[j].key = f[i].key /\ IsFirst(f, j) => j = i
    BY <1>1
<1>3. {j \in DOMAIN f : f[j].key = f[i].key /\ IsFirst(f, j)} = {i}
    BY <1>2
<1> QED
    BY <1>3 DEF Read

LEMMA ReadNone ==
    ASSUME NEW f \in Seq(Lines), NEW k, \A i \in 1 .. Len(f) : f[i].key # k
    PROVE  Read(f, k) = None
BY DEF Read

LEMMA ReadTyped ==
    ASSUME NEW f \in Seq(Lines), NEW k \in Managed
    PROVE  Read(f, k) \in Values \cup {None}
<1>1. CASE \E i \in 1 .. Len(f) : f[i].key = k
    <2>1. PICK i \in 1 .. Len(f) : f[i].key = k /\ IsFirst(f, i)
        BY <1>1, FirstOfKey
    <2>2. f[i] \in Lines /\ f[i].key # NoKey
        BY <2>1, ManagedFacts
    <2> QED
        BY <2>1, <2>2, ReadFirst, LineFacts
<1>2. CASE ~ \E i \in 1 .. Len(f) : f[i].key = k
    BY <1>2, ReadNone
<1> QED
    BY <1>1, <1>2

\* The first line with a key that is managed has its setting after a rewrite.
LEMMA RewriteSets ==
    ASSUME NEW f \in Seq(Lines), NEW c \in [Managed -> Values],
           NEW g \in Rewrites(f, c), NEW k \in Managed
    PROVE  \E i \in 1 .. Len(g) : g[i].key = k /\ IsFirst(g, i) /\ g[i].value = c[k]
<1> DEFINE n == Kept(f)
<1>1. /\ g \in Seq(Lines) /\ n \in 0 .. Len(g)
      /\ f = <<>> => n = 1 /\ g[1] = Text
      /\ f # <<>> => n = Len(f) /\ \A i \in 1 .. n : g[i] = Updated(f, c)[i]
      /\ \A i \in n + 1 .. Len(g) :
            g[i].key \in Left(f, c) /\ g[i].exact /\ g[i].value = c[g[i].key]
      /\ \A x \in Left(f, c) : \E i \in n + 1 .. Len(g) : g[i].key = x
    BY RewriteLines DEF Kept
<1> HIDE DEF n
<1>2. CASE \E i \in 1 .. Len(f) : f[i].key = k
    <2>1. PICK i \in 1 .. Len(f) : f[i].key = k /\ IsFirst(f, i)
        BY <1>2, FirstOfKey
    <2>2. f # <<>> /\ n = Len(f) /\ i \in 1 .. Len(g) /\ i \in 1 .. n
        BY <1>1, <2>1
    <2>3. g[i].key = k /\ g[i].value = c[k]
        BY <1>1, <2>1, <2>2, UpdatedFacts
    <2>4. \A j \in 1 .. i - 1 : g[j].key = f[j].key /\ f[j].key # k
        BY <1>1, <2>1, <2>2, UpdatedFacts DEF IsFirst
    <2> QED
        BY <2>2, <2>3, <2>4 DEF IsFirst
<1>3. CASE ~ \E i \in 1 .. Len(f) : f[i].key = k
    <2>1. k \in Left(f, c)
        BY <1>3 DEF Left, KeysOf
    <2>2. \E i \in 1 .. Len(g) : g[i].key = k
        BY <1>1, <2>1
    <2>3. PICK i \in 1 .. Len(g) : g[i].key = k /\ IsFirst(g, i)
        BY <1>1, <2>2, FirstOfKey
    <2>4. ~(i \in 1 .. n)
        <3>1. CASE f = <<>>
            BY <1>1, <2>3, <3>1, LineFacts, ManagedFacts
        <3>2. CASE f # <<>>
            BY <1>1, <1>3, <2>3, <3>2, UpdatedFacts
        <3> QED
            BY <3>1, <3>2
    <2>5. i \in n + 1 .. Len(g)
        BY <1>1, <2>4
    <2> QED
        BY <1>1, <2>3, <2>5
<1> QED
    BY <1>2, <1>3

LEMMA RewriteReads ==
    ASSUME NEW f \in Seq(Lines), NEW c \in [Managed -> Values],
           NEW g \in Rewrites(f, c), NEW k \in Managed
    PROVE  Read(g, k) = c[k]
<1>1. g \in Seq(Lines)
    BY RewriteLines
<1> QED
    BY <1>1, RewriteSets, ReadFirst

LEMMA UnchangedReads ==
    ASSUME NEW f \in Seq(Lines), NEW c \in [Managed -> Values], ~Changed(f, c), NEW k \in Managed
    PROVE  Read(f, k) = c[k]
<1>1. k \in KeysOf(f) /\ Updated(f, c) = f
    BY DEF Changed, Left
<1>2. PICK i \in 1 .. Len(f) : f[i].key = k /\ IsFirst(f, i)
    <2>1. \E i \in 1 .. Len(f) : f[i].key = k
        BY <1>1 DEF KeysOf
    <2> QED
        BY <2>1, FirstOfKey
<1> QED
    BY <1>1, <1>2, UpdatedFacts, ReadFirst

\* Unmanaged, of any file.
Others(f) == {j \in DOMAIN f : f[j].key \notin Managed \cup {NoKey}}

UnmanagedIn(f) == [i \in Others(f) |-> f[i]]

LEMMA RewriteKeeps ==
    ASSUME NEW f \in Seq(Lines), NEW c \in [Managed -> Values], NEW g \in Rewrites(f, c)
    PROVE  UnmanagedIn(g) = UnmanagedIn(f)
<1> DEFINE n == Kept(f)
<1>1. /\ g \in Seq(Lines) /\ n \in 0 .. Len(g)
      /\ f = <<>> => n = 1 /\ g[1] = Text
      /\ f # <<>> => n = Len(f) /\ \A i \in 1 .. n : g[i] = Updated(f, c)[i]
      /\ \A i \in n + 1 .. Len(g) : g[i].key \in Left(f, c)
    BY RewriteLines DEF Kept
<1> HIDE DEF n
<1>2. \A i \in n + 1 .. Len(g) : i \notin Others(g)
    BY <1>1 DEF Others, Left
<1>3. \A i \in Others(g) : i \in 1 .. n
    BY <1>1, <1>2 DEF Others
<1>4. CASE f = <<>>
    <2>1. Others(f) = {} /\ Others(g) = {}
        BY <1>1, <1>3, <1>4, LineFacts DEF Others
    <2> QED
        BY <2>1 DEF UnmanagedIn
<1>5. CASE f # <<>>
    <2>1. \A i \in 1 .. Len(f) : g[i].key = f[i].key /\ (f[i].key \notin Managed => g[i] = f[i])
        BY <1>1, <1>5, UpdatedFacts
    <2>2. Others(g) = Others(f) /\ \A i \in Others(f) : g[i] = f[i]
        BY <1>1, <1>3, <1>5, <2>1 DEF Others
    <2> QED
        BY <2>2 DEF UnmanagedIn
<1> QED
    BY <1>4, <1>5

\* What is left of a rewrite that breaks off: all before a line, and of that
\* line everything, no key, or a part of its value.
CutLine(l) == [l EXCEPT !.value = Cut]

LEMMA TornLines ==
    ASSUME NEW g \in Seq(Lines), NEW h \in Torn(g)
    PROVE  /\ h \in Seq(Lines) /\ Len(h) \in 0 .. Len(g)
           /\ \A i \in 1 .. Len(h) - 1 : h[i] = g[i]
           /\ h # <<>> => \/ h[Len(h)] = g[Len(h)] \/ h[Len(h)] = Text
                          \/ g[Len(h)].key # NoKey /\ h[Len(h)] = CutLine(g[Len(h)])
<1>1. CASE \E n \in 0 .. Len(g) - 1 : h = SubSeq(g, 1, n)
    <2>1. PICK n \in 0 .. Len(g) - 1 : h = SubSeq(g, 1, n)
        BY <1>1
    <2>2. h \in Seq(Lines) /\ Len(h) = n /\ \A i \in 1 .. n : h[i] = g[i]
        BY <2>1
    <2> QED
        BY <2>2
<1>2. CASE ~ \E n \in 0 .. Len(g) - 1 : h = SubSeq(g, 1, n)
    <2>1. PICK n \in {m \in DOMAIN g : g[m] # Text} :
              \/ h = Append(SubSeq(g, 1, n - 1), Text)
              \/ h = Append(SubSeq(g, 1, n - 1), CutLine(g[n]))
        BY <1>2 DEF Torn, CutLine
    <2>2. /\ n \in 1 .. Len(g) /\ g[n] \in Lines /\ g[n] # Text
          /\ SubSeq(g, 1, n - 1) \in Seq(Lines) /\ Len(SubSeq(g, 1, n - 1)) = n - 1
          /\ \A i \in 1 .. n - 1 : SubSeq(g, 1, n - 1)[i] = g[i]
        OBVIOUS
    <2>3. g[n].key # NoKey
        BY <2>2, NoKeyIsNoKey DEF Lines, Text
    <2>4. CutLine(g[n]) \in Lines /\ Text \in Lines
        BY <2>2, <2>3, CutIsAValue, ChangedLine, LineFacts DEF CutLine
    <2>5. \A l \in Lines : /\ Append(SubSeq(g, 1, n - 1), l) \in Seq(Lines)
                           /\ Len(Append(SubSeq(g, 1, n - 1), l)) = n
                           /\ Append(SubSeq(g, 1, n - 1), l)[n] = l
                           /\ \A i \in 1 .. n - 1 : Append(SubSeq(g, 1, n - 1), l)[i] = g[i]
        BY <2>2
    <2>6. /\ h \in Seq(Lines) /\ Len(h) = n /\ (h[n] = Text \/ h[n] = CutLine(g[n]))
          /\ \A i \in 1 .. n - 1 : h[i] = g[i]
        <3>1. PICK l \in Lines : l \in {Text, CutLine(g[n])} /\ h = Append(SubSeq(g, 1, n - 1), l)
            BY <2>1, <2>4
        <3> QED
            BY <2>5, <3>1
    <2> QED
        BY <2>2, <2>3, <2>6
<1> QED
    BY <1>1, <1>2

\* By what is read of it, the managed keys are set, gone, or cut in the last line.
LEMMA TornReads ==
    ASSUME NEW f \in Seq(Lines), NEW c \in [Managed -> Values],
           NEW g \in Rewrites(f, c), NEW h \in Torn(g), NEW k \in Managed
    PROVE  \/ Read(h, k) \in {c[k], None}
           \/ /\ Read(h, k) = Cut /\ h # <<>> /\ g[Len(h)].key = k
              /\ h[Len(h)] = CutLine(g[Len(h)])
<1>1. /\ g \in Seq(Lines) /\ h \in Seq(Lines) /\ Len(h) \in 0 .. Len(g)
      /\ \A i \in 1 .. Len(h) - 1 : h[i] = g[i]
      /\ h # <<>> => \/ h[Len(h)] = g[Len(h)] \/ h[Len(h)] = Text
                     \/ g[Len(h)].key # NoKey /\ h[Len(h)] = CutLine(g[Len(h)])
    BY RewriteLines, TornLines
<1>2. PICK m \in 1 .. Len(g) : g[m].key = k /\ IsFirst(g, m) /\ g[m].value = c[k]
    BY RewriteSets
<1>3. \A i \in 1 .. m - 1 : g[i].key # k
    BY <1>2 DEF IsFirst
<1>4. \A i \in 1 .. Len(h) : g[i] \in Lines
    BY <1>1
<1>5. \A i \in 1 .. Len(h) : h[i].key \in {g[i].key, NoKey}
    <2>1. \A i \in 1 .. Len(h) - 1 : h[i].key = g[i].key
        BY <1>1
    <2>2. h # <<>> => h[Len(h)].key \in {g[Len(h)].key, NoKey}
        <3>1. ASSUME h # <<>>, g[Len(h)].key # NoKey, h[Len(h)] = CutLine(g[Len(h)])
              PROVE  h[Len(h)].key = g[Len(h)].key
            <4>1. Len(h) \in 1 .. Len(h)
                BY <1>1, <3>1
            <4> QED
                BY <1>4, <3>1, <4>1, CutIsAValue, ChangedLine DEF CutLine
        <3> QED
            BY <1>1, <3>1, LineFacts
    <2>3. \A i \in 1 .. Len(h) : i \in 1 .. Len(h) - 1 \/ (i = Len(h) /\ h # <<>>)
        BY <1>1
    <2> QED
        BY <2>1, <2>2, <2>3
<1>6. CASE ~(m <= Len(h))
    <2>1. \A i \in 1 .. Len(h) : h[i].key # k
        BY <1>1, <1>3, <1>5, <1>6, ManagedFacts
    <2> QED
        BY <1>1, <2>1, ReadNone
<1>7. CASE m <= Len(h)
    <2>1. m \in 1 .. Len(h) /\ h # <<>> /\ Len(h) \in Nat
        BY <1>1, <1>7
    <2>2. \A i \in 1 .. m - 1 : h[i].key # k
        BY <1>1, <1>3, <1>5, <1>7, ManagedFacts
    <2>3. ASSUME h[m].key = k PROVE Read(h, k) = h[m].value
        <3>1. IsFirst(h, m)
            BY <2>2, <2>3 DEF IsFirst
        <3> QED
            BY <1>1, <2>1, <2>3, <3>1, ReadFirst
    <2>4. CASE h[m] = g[m]
        BY <1>2, <2>3, <2>4
    <2>5. CASE h[m] # g[m]
        <3>1. m = Len(h)
            BY <1>1, <2>1, <2>5
        <3>2. CASE h[m] = Text
            <4>1. \A i \in 1 .. Len(h) : h[i].key # k
                BY <2>1, <2>2, <3>1, <3>2, LineFacts, ManagedFacts
            <4> QED
                BY <1>1, <4>1, ReadNone
        <3>3. CASE h[m] # Text
            <4>1. h[m] = CutLine(g[m]) /\ g[m] \in Lines /\ g[m].key # NoKey
                BY <1>1, <1>4, <2>1, <2>5, <3>1, <3>3
            <4>2. h[m].key = k /\ h[m].value = Cut
                BY <1>2, <4>1, CutIsAValue, ChangedLine DEF CutLine
            <4> QED
                BY <1>2, <2>1, <2>3, <3>1, <4>1, <4>2
        <3> QED
            BY <3>2, <3>3
    <2> QED
        BY <2>4, <2>5
<1> QED
    BY <1>6, <1>7

\* What it keeps of the rest is the rest up to some line, and the end of that
\* line may be lost.
LEMMA TornKeeps ==
    ASSUME NEW f \in Seq(Lines), NEW c \in [Managed -> Values],
           NEW g \in Rewrites(f, c), NEW h \in Torn(g),
           NEW r, r = UnmanagedIn(f), NEW s, s = UnmanagedIn(h)
    PROVE  \/ Map!UpTo(s, r)
           \/ /\ Len(h) \in DOMAIN r
              /\ Map!UpTo(s, [r EXCEPT ![Len(h)].value = Cut])
              /\ \A j \in DOMAIN s : j <= Len(h)
              /\ h # <<>> /\ g[Len(h)].key \notin Managed
<1> DEFINE n == Len(h)
<1>1. /\ g \in Seq(Lines) /\ h \in Seq(Lines) /\ n \in 0 .. Len(g)
      /\ \A i \in 1 .. n - 1 : h[i] = g[i]
      /\ h # <<>> => \/ h[n] = g[n] \/ h[n] = Text
                     \/ g[n].key # NoKey /\ h[n] = CutLine(g[n])
    BY RewriteLines, TornLines
<1>2. r = UnmanagedIn(g)
    BY RewriteKeeps
<1>3. /\ DOMAIN r = Others(g) /\ DOMAIN s = Others(h)
      /\ \A i \in Others(g) : r[i] = g[i]
      /\ \A i \in Others(h) : s[i] = h[i]
    BY <1>2 DEF UnmanagedIn
<1>4. Others(g) \subseteq 1 .. Len(g) /\ Others(h) \subseteq 1 .. n
    BY <1>1 DEF Others
<1>5. \A i \in 1 .. n - 1 : i \in Others(h) <=> i \in Others(g)
    BY <1>1 DEF Others
<1>6. CASE n \notin Others(h) \/ h[n] = g[n]
    <2>1. \A i \in Others(h) : i \in Others(g) /\ h[i] = g[i]
        BY <1>1, <1>4, <1>5, <1>6 DEF Others
    <2>2. \A i \in Others(h), j \in Others(g) : j < i => j \in Others(h)
        BY <1>1, <1>4, <1>5
    <2> QED
        BY <1>3, <2>1, <2>2 DEF Map!UpTo
<1>7. CASE n \in Others(h) /\ h[n] # g[n]
    <2>1. h # <<>> /\ n \in 1 .. Len(g) /\ h[n].key \notin Managed \cup {NoKey}
        BY <1>1, <1>7 DEF Others
    <2>2. h[n] = CutLine(g[n]) /\ g[n].key # NoKey /\ g[n] \in Lines
        BY <1>1, <1>7, <2>1, LineFacts
    <2>3. h[n].key = g[n].key
        BY <2>2, CutIsAValue, ChangedLine DEF CutLine
    <2>4. n \in Others(g) /\ g[n].key \notin Managed
        BY <2>1, <2>3 DEF Others
    <2> DEFINE e == [r EXCEPT ![n].value = Cut]
    <2>5. DOMAIN e = Others(g) /\ e[n] = h[n] /\ \A i \in Others(g) : i # n => e[i] = g[i]
        BY <1>3, <2>2, <2>4 DEF CutLine
    <2> HIDE DEF e
    <2>6. \A i \in Others(h) : i \in Others(g) /\ h[i] = e[i]
        BY <1>1, <1>4, <1>5, <2>4, <2>5
    <2>7. \A i \in Others(h), j \in Others(g) : j < i => j \in Others(h)
        BY <1>1, <1>4, <1>5
    <2>8. Map!UpTo(s, e)
        BY <1>3, <2>5, <2>6, <2>7 DEF Map!UpTo
    <2>9. \A j \in DOMAIN s : j <= n
        BY <1>1, <1>3, <1>4
    <2> QED
        BY <1>3, <2>1, <2>4, <2>8, <2>9 DEF e
<1> QED
    BY <1>6, <1>7

LEMMA SettingIsNotCut ==
    ASSUME SettingsKnown, proxy # "off" PROVE \A k \in Managed : settings[k] # Cut
BY CutIsNoSetting DEF SettingsKnown

ValuesOf(f) == [k \in Managed |-> Read(f, k)]

LEMMA MapOfFile ==
    /\ Unmanaged = UnmanagedIn(lines) /\ Unmanaged' = UnmanagedIn(lines')
    /\ [k \in Managed |-> Read(lines, k)] = ValuesOf(lines)
    /\ [k \in Managed |-> Read(lines, k)]' = ValuesOf(lines')
BY DEF Unmanaged, UnmanagedIn, Others, ValuesOf, Read, IsFirst, Managed

LEMMA MapInit == Init => Map!Init
<1> SUFFICES ASSUME Init PROVE Map!Init
    OBVIOUS
<1>1. lines \in Seq(Lines)
    BY LaunchInit DEF LaunchInv, TypeOK
<1>2. [k \in Managed |-> Read(lines, k)] \in [Managed -> Values \cup {None}]
    BY <1>1, ReadTyped
<1> QED
    BY <1>2 DEF Init, Map!Init

LEMMA MapStart == ASSUME LaunchInv, Start PROVE Map!Start
<1>1. proxy = "off" /\ proxy' = "rewrite" /\ written' = FALSE /\ lines' = lines
    BY DEF Start, fileVars
<1>2. settings' \in [Managed -> Values]
    BY <1>1, StartStep DEF LaunchInv, SettingsKnown
<1> QED
    BY <1>1, <1>2, MapOfFile DEF Map!Start

LEMMA MapRewrite == ASSUME LaunchInv, Rewrite PROVE Map!Set
<1>1. /\ proxy = "rewrite" /\ proxy' = "serve" /\ written' = TRUE /\ settings' = settings
      /\ \/ Changed(lines, settings) /\ lines' \in Rewrites(lines, settings)
         \/ ~Changed(lines, settings) /\ lines' = lines
    BY DEF Rewrite, Rewriting
<1>2. lines \in Seq(Lines) /\ settings \in [Managed -> Values]
    BY <1>1 DEF LaunchInv, TypeOK, SettingsKnown
<1>3. UnmanagedIn(lines') = UnmanagedIn(lines)
    BY <1>1, <1>2, RewriteKeeps
<1>4. \A k \in Managed : Read(lines', k) = settings[k]
    BY <1>1, <1>2, RewriteReads, UnchangedReads
<1>5. ValuesOf(lines') = settings
    BY <1>2, <1>4 DEF ValuesOf
<1> QED
    BY <1>1, <1>3, <1>5, MapOfFile DEF Map!Set

LEMMA MapTorn == ASSUME LaunchInv, TornRewrite PROVE Map!Lose
<1>1. /\ proxy = "rewrite" /\ proxy' \in {"serve", "off"}
      /\ UNCHANGED <<settings, written>>
    BY DEF TornRewrite, Rewriting
<1>2. lines \in Seq(Lines) /\ settings \in [Managed -> Values]
    BY <1>1 DEF LaunchInv, TypeOK, SettingsKnown
<1>3. PICK g \in Rewrites(lines, settings) : lines' \in Torn(g)
    BY DEF TornRewrite
<1> DEFINE r == UnmanagedIn(lines)
           s == UnmanagedIn(lines')
           v == ValuesOf(lines')
           n == Len(lines')
<1>4. \A k \in Managed : settings[k] # Cut
    BY <1>1, SettingIsNotCut DEF LaunchInv
<1>5. \A k \in Managed : v[k] = Read(lines', k)
    BY DEF ValuesOf
<1>6. \A k \in Managed : /\ v[k] \in {settings[k], None, Cut}
                         /\ v[k] = Cut => g[n].key = k
    BY <1>2, <1>3, <1>4, <1>5, TornReads, NoneIsNoValue, CutIsAValue
<1>7. \/ Map!UpTo(s, r)
      \/ /\ n \in DOMAIN r
         /\ Map!UpTo(s, [r EXCEPT ![n].value = Cut])
         /\ \A j \in DOMAIN s : j <= n
         /\ g[n].key \notin Managed
    BY <1>2, <1>3, TornKeeps
<1> HIDE DEF r, s, v, n
<1>8. \A j, k \in Managed : v[j] = Cut /\ v[k] = Cut => j = k
    BY <1>6
<1>9. \/ Map!UpTo(s, r) /\ \A j, k \in Managed : v[j] = Cut /\ v[k] = Cut => j = k
      \/ /\ \E i \in DOMAIN r : /\ Map!UpTo(s, [r EXCEPT ![i].value = Cut])
                                /\ \A j \in DOMAIN s : j <= i
         /\ \A k \in Managed : v[k] # Cut
    BY <1>6, <1>7, <1>8
<1> QED
    BY <1>1, <1>6, <1>9, MapOfFile DEF Map!Lose, r, s, v

LEMMA MapNext == LaunchInv /\ [Next]_vars => [Map!Next]_(Map!vars)
<1> SUFFICES ASSUME LaunchInv, [Next]_vars PROVE [Map!Next]_(Map!vars)
    OBVIOUS
<1>1. CASE NotRewritten
    <2>1. /\ proxy = "rewrite" /\ proxy' = "serve" /\ UNCHANGED <<lines, settings, written>>
        BY <1>1 DEF NotRewritten, Rewriting
    <2> QED
        BY <2>1, MapOfFile DEF Map!Next, Map!Skip
<1>2. CASE End
    <2>1. /\ proxy = "serve" /\ proxy' = "off" /\ UNCHANGED <<lines, settings, written>>
        BY <1>2 DEF End, fileVars
    <2> QED
        BY <2>1, MapOfFile DEF Map!Next, Map!End
<1>3. CASE MinecraftStarts \/ MinecraftEnds \/ Edit
    <2>1. UNCHANGED <<proxy, settings, written>>
        BY <1>3 DEF MinecraftStarts, MinecraftEnds, Edit, proxyVars
    <2> QED
        BY <2>1 DEF Map!Next, Map!Edit
<1>4. CASE UNCHANGED vars
    <2>1. UNCHANGED <<proxy, lines, settings, written>>
        BY <1>4 DEF vars, fileVars, proxyVars
    <2> QED
        BY <2>1, MapOfFile DEF Map!vars
<1> QED
    BY <1>1, <1>2, <1>3, <1>4, MapStart, MapRewrite, MapTorn DEF Next, Map!Next

\* Whatever the file looks like, a rewrite sets what the proxy manages, by its
\* own reading, and leaves every other line in its place; one that breaks off
\* loses lines from the end, and at most the end of one value (rewrite_contents,
\* rewrite_file).
THEOREM PropertyMapIsImplemented == Spec => ImplementsPropertyMap
<1>1. Init => Map!Init
    BY MapInit
<1>2. LaunchInv /\ [Next]_vars => [Map!Next]_(Map!vars)
    BY MapNext
<1> QED
    BY <1>1, <1>2, LaunchInvariant, PTL DEF Spec, ImplementsPropertyMap, Map!Spec
-----------------------------------------------------------------------------
(* The java command.                                                       *)

\* The provers do not know that a literal is a STRING.
Arg == STRING \cup {"", "start", "run", "-jar", "my.jar", "server.jar",
                    "--nogui", "java", "-Xms128M"}

PlainArgs == {s \in Seq(Arg) : \A i \in 1 .. Len(s) : s[i] \notin Dropped}

Keeps(f, args) ==
    f = [n \in 0 .. Len(args) |->
            IF n = 0 THEN <<>>
            ELSE IF args[n] \in Dropped THEN f[n - 1]
            ELSE Append(f[n - 1], args[n])]

\* Behind words of its own, java_args keeps every argument, in order.
LEMMA JavaArgsKeeps ==
    ASSUME NEW word \in Seq(Arg), \A i \in 1 .. Len(word) : word[i] \in Dropped,
           NEW s \in PlainArgs
    PROVE  JavaArgs(word \o s) = s
<1> DEFINE args == word \o s
<1> DEFINE w == Len(word)
<1> DEFINE N == Len(args)
<1> DEFINE g == [n \in 0 .. N |-> SubSeq(s, 1, n - w)]
<1>1. s \in Seq(Arg) /\ args \in Seq(Arg) /\ N = w + Len(s) /\ w \in Nat /\ Len(s) \in Nat
    BY ConcatProperties DEF PlainArgs
<1>2. \A i \in 1 .. N : args[i] = IF i <= w THEN word[i] ELSE s[i - w]
    BY ConcatProperties DEF PlainArgs
<1>3. JavaArgs(args) = (CHOOSE f : Keeps(f, args))[N]
    BY DEF JavaArgs, Keeps
<1> HIDE DEF args, w
<1>4. \A n \in 1 .. N : g[n] = IF args[n] \in Dropped THEN g[n - 1]
                               ELSE Append(g[n - 1], args[n])
    <2> SUFFICES ASSUME NEW n \in 1 .. N
                 PROVE  g[n] = IF args[n] \in Dropped THEN g[n - 1]
                               ELSE Append(g[n - 1], args[n])
        OBVIOUS
    <2>1. g[n] = SubSeq(s, 1, n - w) /\ g[n - 1] = SubSeq(s, 1, n - w - 1)
        BY <1>1
    <2>2. CASE n <= w
        <3>1. args[n] \in Dropped
            BY <1>2, <2>2 DEF w
        <3>2. SubSeq(s, 1, n - w) = <<>> /\ SubSeq(s, 1, n - w - 1) = <<>>
            BY <1>1, <2>2, SubSeqEmpty
        <3> QED
            BY <2>1, <3>1, <3>2
    <2>3. CASE n > w
        <3>1. n - w \in 1 .. Len(s) /\ args[n] = s[n - w]
            BY <1>1, <1>2, <2>3
        <3>2. args[n] \notin Dropped /\ args[n] \in Arg
            BY <1>1, <3>1 DEF PlainArgs
        <3>3. SubSeq(s, 1, n - w) = SubSeq(s, 1, n - w - 1) \o <<s[n - w]>>
            <4>1. \A k \in 1 .. Len(s) : SubSeq(s, 1, k) = SubSeq(s, 1, k - 1) \o <<s[k]>>
                <5> SUFFICES ASSUME NEW k \in 1 .. Len(s)
                             PROVE  SubSeq(s, 1, k) = SubSeq(s, 1, k - 1) \o <<s[k]>>
                    OBVIOUS
                <5>1. 1 \in 1 .. Len(s)
                    BY <1>1
                <5> QED
                    BY <1>1, <5>1, SubSeqRecursiveSecond
            <4> QED
                BY <3>1, <4>1
        <3>4. SubSeq(s, 1, n - w - 1) \in Seq(Arg)
            <4>1. \A i \in 1 .. n - w - 1 : s[i] \in Arg
                BY <1>1, <3>1
            <4> QED
                BY <1>1, <3>1, <4>1, SubSeqProperties
        <3>5. Append(SubSeq(s, 1, n - w - 1), args[n]) = SubSeq(s, 1, n - w)
            BY <3>1, <3>2, <3>3, <3>4, AppendIsConcat
        <3> QED
            BY <2>1, <3>2, <3>5
    <2> QED
        BY <1>1, <2>2, <2>3
<1>5. Keeps(g, args)
    <2>1. g[0] = <<>>
        BY <1>1, SubSeqEmpty
    <2> DEFINE h == [n \in 0 .. N |-> IF n = 0 THEN <<>>
                                      ELSE IF args[n] \in Dropped THEN g[n - 1]
                                      ELSE Append(g[n - 1], args[n])]
    <2>2. \A n \in 0 .. N : g[n] = h[n]
        <3> HIDE DEF g
        <3>1. \A n \in 0 .. N : n = 0 \/ n \in 1 .. N
            BY <1>1
        <3> QED
            BY <1>4, <2>1, <3>1
    <2>3. DOMAIN g = 0 .. N /\ g = [n \in 0 .. N |-> g[n]]
        OBVIOUS
    <2>4. g = h
        <3> HIDE DEF g
        <3> QED
            BY <2>2, <2>3
    <2> QED
        BY <2>4 DEF Keeps
<1> DEFINE c == CHOOSE f : Keeps(f, args)
<1>6. Keeps(c, args)
    <2> HIDE DEF g
    <2> QED
        BY <1>5
<1> HIDE DEF c, g
<1>7. \A n \in 0 .. N : c[n] = g[n]
    <2> DEFINE T == {n \in 0 .. N : c[n] # g[n]}
    <2> SUFFICES ASSUME T # {} PROVE FALSE
        OBVIOUS
    <2>1. T \in SUBSET Nat
        BY <1>1
    <2> HIDE DEF T
    <2>2. PICK m \in T : \A n \in T : m <= n
        BY <2>1, Least
    <2> USE DEF T
    <2>3. m \in 0 .. N /\ c[m] # g[m]
        BY <2>2
    <2>4. c[0] = <<>> /\ g[0] = <<>>
        BY <1>1, <1>5, <1>6 DEF Keeps
    <2>5. m \in 1 .. N /\ m - 1 \in 0 .. N /\ ~(m <= m - 1)
        BY <1>1, <2>3, <2>4
    <2>6. c[m - 1] = g[m - 1]
        BY <2>2, <2>5
    <2>7. c[m] = IF args[m] \in Dropped THEN c[m - 1] ELSE Append(c[m - 1], args[m])
        <3> DEFINE h == [n \in 0 .. N |-> IF n = 0 THEN <<>>
                                          ELSE IF args[n] \in Dropped THEN c[n - 1]
                                          ELSE Append(c[n - 1], args[n])]
        <3>1. c = h
            BY <1>6 DEF Keeps
        <3>2. m \in 0 .. N /\ m # 0
            BY <1>1, <2>5
        <3>3. h[m] = IF args[m] \in Dropped THEN c[m - 1] ELSE Append(c[m - 1], args[m])
            BY <3>2
        <3> HIDE DEF h
        <3> QED
            BY <3>1, <3>3
    <2>8. g[m] = IF args[m] \in Dropped THEN g[m - 1] ELSE Append(g[m - 1], args[m])
        BY <1>4, <2>5
    <2> QED
        BY <2>3, <2>6, <2>7, <2>8
<1>8. g[N] = s
    BY <1>1, SubSeqFull DEF g
<1> QED
    BY <1>1, <1>3, <1>7, <1>8 DEF c, args

LEMMA Literals ==
    /\ "" \in Arg /\ "start" \in Arg /\ "run" \in Arg /\ "-jar" \in Arg /\ "my.jar" \in Arg
    /\ "--nogui" \in Arg /\ "java" \in Arg /\ "-Xms128M" \in Arg
    /\ JarFile \in Arg /\ JarFile # "--nogui" /\ JarFile # "-jar"
BY DEF Arg, JarFile

LEMMA One ==
    ASSUME NEW a \in Arg
    PROVE  <<a>> \in Seq(Arg) /\ Len(<<a>>) = 1 /\ <<a>>[1] = a
OBVIOUS

LEMMA Two ==
    ASSUME NEW a \in Arg, NEW b \in Arg
    PROVE  /\ <<a, b>> \in Seq(Arg) /\ Len(<<a, b>>) = 2
           /\ <<a, b>>[1] = a /\ <<a, b>>[2] = b
OBVIOUS

LEMMA Joined ==
    ASSUME NEW s \in Seq(Arg), NEW t \in Seq(Arg)
    PROVE  /\ s \o t \in Seq(Arg) /\ Len(s \o t) = Len(s) + Len(t)
           /\ \A i \in 1 .. Len(s) + Len(t) :
                 (s \o t)[i] = IF i <= Len(s) THEN s[i] ELSE t[i - Len(s)]
BY ConcatProperties

LEMMA Regroup ==
    ASSUME NEW s \in Seq(Arg), NEW t \in Seq(Arg), NEW u \in Seq(Arg)
    PROVE  (s \o t) \o u = s \o (t \o u)
BY ConcatAssociative

\* The provers handle a long chain of \o better when they do not know it.
Cat(s, t) == s \o t

LEMMA CatFacts ==
    /\ \A s, t \in Seq(Arg) : Cat(s, t) \in Seq(Arg)
    /\ \A s, t, u \in Seq(Arg) : Cat(Cat(s, t), u) = Cat(s, Cat(t, u))
BY Joined, Regroup DEF Cat

LEMMA RegroupFour ==
    ASSUME NEW a \in Seq(Arg), NEW b \in Seq(Arg), NEW c \in Seq(Arg), NEW d \in Seq(Arg)
    PROVE  Cat(Cat(Cat(a, b), c), d) = Cat(a, Cat(Cat(b, c), d))
<1>1. Cat(a, b) \in Seq(Arg) /\ Cat(b, c) \in Seq(Arg)
    BY CatFacts
<1>2. Cat(Cat(Cat(a, b), c), d) = Cat(Cat(a, Cat(b, c)), d)
    BY CatFacts
<1>3. Cat(Cat(a, Cat(b, c)), d) = Cat(a, Cat(Cat(b, c), d))
    BY <1>1, CatFacts
<1> QED
    BY <1>2, <1>3

LEMMA RegroupAll ==
    ASSUME NEW a \in Seq(Arg), NEW b \in Seq(Arg), NEW c \in Seq(Arg), NEW d \in Seq(Arg),
           NEW e \in Seq(Arg)
    PROVE  Cat(a, Cat(Cat(Cat(b, c), d), e)) = Cat(Cat(Cat(a, b), c), Cat(d, e))
<1>1. Cat(b, c) \in Seq(Arg) /\ Cat(d, e) \in Seq(Arg)
    BY CatFacts
<1>2. Cat(Cat(Cat(b, c), d), e) = Cat(Cat(b, c), Cat(d, e))
    BY <1>1, CatFacts
<1>3. Cat(a, Cat(Cat(b, c), Cat(d, e))) = Cat(Cat(a, Cat(b, c)), Cat(d, e))
    BY <1>1, CatFacts
<1>4. Cat(a, Cat(b, c)) = Cat(Cat(a, b), c)
    BY CatFacts
<1> QED
    BY <1>2, <1>3, <1>4

LEMMA OneMore ==
    ASSUME NEW s \in Seq(Arg), NEW a \in Arg
    PROVE  Append(s, a) = s \o <<a>>
BY AppendIsConcat

LEMMA Same ==
    ASSUME NEW s \in Seq(Arg), NEW t \in Seq(Arg), Len(s) = Len(t),
           \A i \in 1 .. Len(s) : s[i] = t[i]
    PROVE  s = t
BY SeqEqual

LEMMA OneAndOne ==
    ASSUME NEW a \in Arg, NEW b \in Arg
    PROVE  <<a>> \o <<b>> = <<a, b>>
<1> DEFINE x == <<a>>
<1> DEFINE y == <<b>>
<1> DEFINE z == <<a, b>>
<1>1. x \in Seq(Arg) /\ Len(x) = 1 /\ x[1] = a
    BY One
<1>2. y \in Seq(Arg) /\ Len(y) = 1 /\ y[1] = b
    BY One
<1>3. z \in Seq(Arg) /\ Len(z) = 2 /\ z[1] = a /\ z[2] = b
    BY Two
<1> HIDE DEF x, y, z
<1>4. /\ x \o y \in Seq(Arg) /\ Len(x \o y) = 2
      /\ \A i \in 1 .. 2 : (x \o y)[i] = IF i <= 1 THEN x[i] ELSE y[i - 1]
    BY <1>1, <1>2, Joined
<1>5. \A i \in 1 .. 2 : (i = 1 /\ i <= 1) \/ (i = 2 /\ ~(i <= 1) /\ i - 1 = 1)
    OBVIOUS
<1>6. \A i \in 1 .. 2 : (x \o y)[i] = z[i]
    BY <1>1, <1>2, <1>3, <1>4, <1>5
<1>7. x \o y = z
    BY <1>3, <1>4, <1>6, Same
<1> QED
    BY <1>7 DEF x, y, z

LEMMA HasAt ==
    ASSUME NEW s \in Seq(Arg), NEW arg
    PROVE  Has(s, arg) <=> \E i \in 1 .. Len(s) : s[i] = arg
<1>1. DOMAIN s = 1 .. Len(s)
    OBVIOUS
<1> QED
    BY <1>1 DEF Has

LEMMA HasJoined ==
    ASSUME NEW s \in Seq(Arg), NEW t \in Seq(Arg), NEW arg
    PROVE  Has(s \o t, arg) <=> Has(s, arg) \/ Has(t, arg)
<1>1. /\ s \o t \in Seq(Arg) /\ Len(s \o t) = Len(s) + Len(t)
      /\ Len(s) \in Nat /\ Len(t) \in Nat
    BY Joined
<1>2. \A i \in 1 .. Len(s) : i \in 1 .. Len(s \o t) /\ (s \o t)[i] = s[i]
    BY <1>1, Joined
<1>3. \A j \in 1 .. Len(t) : Len(s) + j \in 1 .. Len(s \o t) /\ (s \o t)[Len(s) + j] = t[j]
    BY <1>1, Joined
<1>4. \A i \in 1 .. Len(s \o t) :
         i \in 1 .. Len(s) \/ (i - Len(s) \in 1 .. Len(t) /\ (s \o t)[i] = t[i - Len(s)])
    BY <1>1, Joined
<1>5. ASSUME NEW i \in 1 .. Len(s \o t), (s \o t)[i] = arg
      PROVE  \/ \E k \in 1 .. Len(s) : s[k] = arg
             \/ \E k \in 1 .. Len(t) : t[k] = arg
    BY <1>2, <1>4, <1>5
<1>6. ASSUME NEW k \in 1 .. Len(s), s[k] = arg
      PROVE  \E i \in 1 .. Len(s \o t) : (s \o t)[i] = arg
    BY <1>2, <1>6
<1>7. ASSUME NEW k \in 1 .. Len(t), t[k] = arg
      PROVE  \E i \in 1 .. Len(s \o t) : (s \o t)[i] = arg
    BY <1>3, <1>7
<1> QED
    BY <1>1, <1>5, <1>6, <1>7, HasAt

LEMMA HasOne ==
    ASSUME NEW a \in Arg, NEW arg
    PROVE  Has(<<a>>, arg) <=> a = arg
<1> DEFINE x == <<a>>
<1>1. x \in Seq(Arg) /\ Len(x) = 1 /\ x[1] = a
    BY One
<1> HIDE DEF x
<1>2. \A i \in 1 .. Len(x) : i = 1
    BY <1>1
<1>3. 1 \in 1 .. Len(x)
    BY <1>1
<1>4. Has(x, arg) <=> a = arg
    BY <1>1, <1>2, <1>3, HasAt
<1> QED
    BY <1>4 DEF x

LEMMA HasNone ==
    ASSUME NEW arg
    PROVE  <<>> \in Seq(Arg) /\ ~Has(<<>>, arg)
<1> DEFINE x == <<>>
<1>1. x \in Seq(Arg) /\ Len(x) = 0
    OBVIOUS
<1> HIDE DEF x
<1>2. \A i \in 1 .. Len(x) : FALSE
    BY <1>1
<1>3. ~Has(x, arg)
    BY <1>1, <1>2, HasAt
<1> QED
    BY <1>1, <1>3 DEF x

LEMMA LastJoined ==
    ASSUME NEW s \in Seq(Arg), NEW t \in Seq(Arg), t # <<>>
    PROVE  (s \o t)[Len(s \o t)] = t[Len(t)] /\ s \o t # <<>>
<1>1. Len(s) \in Nat /\ Len(t) \in Nat \ {0} /\ Len(s \o t) = Len(s) + Len(t)
    BY Joined
<1>2. /\ Len(s) + Len(t) \in 1 .. Len(s) + Len(t)
      /\ ~(Len(s) + Len(t) <= Len(s)) /\ (Len(s) + Len(t)) - Len(s) = Len(t)
    BY <1>1
<1>3. (s \o t)[Len(s) + Len(t)] = t[(Len(s) + Len(t)) - Len(s)]
    BY <1>2, Joined
<1>4. s \o t # <<>>
    BY <1>1
<1> QED
    BY <1>1, <1>2, <1>3, <1>4

\* A list without the words that java_args drops.
LEMMA IsPlain ==
    ASSUME NEW s \in Seq(Arg)
    PROVE  s \in PlainArgs <=> \A arg \in Dropped : ~Has(s, arg)
BY HasAt DEF PlainArgs

LEMMA PlainJoined ==
    ASSUME NEW s \in PlainArgs, NEW t \in PlainArgs
    PROVE  s \o t \in PlainArgs
<1>1. s \in Seq(Arg) /\ t \in Seq(Arg)
    BY DEF PlainArgs
<1> QED
    BY <1>1, Joined, HasJoined, IsPlain

LEMMA PlainOne ==
    ASSUME NEW a \in Arg, a \notin Dropped
    PROVE  <<a>> \in PlainArgs
BY One, HasOne, IsPlain

\* A list of the user's own: options for java, or arguments for the jar.
UserArgs == {s \in PlainArgs : ~Has(s, "-jar")}

LEMMA ListsAreUserArgs == ArgLists \subseteq UserArgs
<1>1. \A s \in Seq(STRING) : DOMAIN s = 1 .. Len(s) /\ s \in Seq(Arg)
    <2>1. STRING \subseteq Arg
        BY DEF Arg
    <2>2. ASSUME NEW s \in Seq(STRING) PROVE s \in Seq(Arg)
        BY <2>1, SeqMonotonic
    <2> QED
        BY <2>2
<1>2. \A s \in ArgLists : s \in Seq(Arg) /\ DOMAIN s = 1 .. Len(s)
    BY <1>1, ArgListsTyped
<1>3. \A s \in ArgLists : \A i \in 1 .. Len(s) : s[i] \notin Dropped /\ s[i] # "-jar"
    BY <1>2, ArgListsPlain
<1>4. \A s \in ArgLists : s \in PlainArgs /\ ~Has(s, "-jar")
    BY <1>2, <1>3, HasAt DEF PlainArgs
<1> QED
    BY <1>4 DEF UserArgs

LEMMA DroppedArgs == Dropped \subseteq Arg
BY Literals DEF Dropped

LEMMA DroppedOne ==
    ASSUME NEW a \in Dropped
    PROVE  <<a>> \in Seq(Arg) /\ \A i \in 1 .. Len(<<a>>) : <<a>>[i] \in Dropped
<1>1. \A i \in 1 .. 1 : i = 1
    OBVIOUS
<1> QED
    BY <1>1, DroppedArgs, One

LEMMA DroppedTwo ==
    ASSUME NEW a \in Dropped, NEW b \in Dropped
    PROVE  <<a, b>> \in Seq(Arg) /\ \A i \in 1 .. Len(<<a, b>>) : <<a, b>>[i] \in Dropped
<1>1. \A i \in 1 .. 2 : i = 1 \/ i = 2
    OBVIOUS
<1>2. /\ <<a, b>> \in Seq(Arg) /\ Len(<<a, b>>) = 2
      /\ <<a, b>>[1] = a /\ <<a, b>>[2] = b
    BY DroppedArgs, Two
<1> QED
    BY <1>1, <1>2

LEMMA DroppedNone == <<>> \in Seq(Arg) /\ \A i \in 1 .. Len(<<>>) : <<>>[i] \in Dropped
<1>1. Len(<<>>) = 0 /\ \A i \in 1 .. 0 : FALSE
    OBVIOUS
<1> QED
    BY <1>1, HasNone

LEMMA Words ==
    ASSUME NEW word \in {<<>>, <<"start">>, <<"", "run">>}
    PROVE  word \in Seq(Arg) /\ \A i \in 1 .. Len(word) : word[i] \in Dropped
<1>1. "" \in Dropped /\ "start" \in Dropped /\ "run" \in Dropped
    BY DEF Dropped
<1>2. CASE word = <<>>
    BY <1>2, DroppedNone
<1>3. CASE word = <<"start">>
    BY <1>1, <1>3, DroppedOne
<1>4. CASE word = <<"", "run">>
    BY <1>1, <1>4, DroppedTwo
<1> QED
    BY <1>2, <1>3, <1>4

\* Flags are no words that java_args drops.
LEMMA FlagsArePlain ==
    "-jar" \notin Dropped /\ "my.jar" \notin Dropped /\ "-Xms128M" \notin Dropped
BY DEF Dropped

\* What is added so that Minecraft opens no window.
NoGui(game) == IF Has(game, "--nogui") THEN <<>> ELSE <<"--nogui">>

LEMMA NoGuiTyped == ASSUME NEW game PROVE NoGui(game) \in Seq(Arg)
BY Literals, One, HasNone DEF NoGui

\* Options and a jar make a command, whatever follows the jar.
LEMMA WithOwnJar ==
    ASSUME NEW opts \in UserArgs, NEW game \in UserArgs, ~Has(opts, "--nogui")
    PROVE  LET s == (opts \o <<"-jar", "my.jar">>) \o game
           IN  /\ s \in PlainArgs
               /\ <<"java">> \o WithNoGui(WithJar(WithJarFlag(OrDefault(s))))
                      = Meant(opts, "my.jar", game \o NoGui(game))
<1> DEFINE nogui == NoGui(game)
<1> DEFINE flag == <<"-jar">>
<1> DEFINE mine == <<"my.jar">>
<1> DEFINE jar == <<"-jar", "my.jar">>
<1> DEFINE java == <<"java">>
<1> DEFINE left == opts \o jar
<1> DEFINE s == left \o game
<1>1. /\ opts \in Seq(Arg) /\ opts \in PlainArgs /\ ~Has(opts, "-jar")
      /\ game \in Seq(Arg) /\ game \in PlainArgs /\ ~Has(game, "-jar")
    BY DEF UserArgs, PlainArgs
<1>2. /\ flag \in Seq(Arg) /\ flag \in PlainArgs /\ Has(flag, "-jar") /\ ~Has(flag, "--nogui")
      /\ mine \in Seq(Arg) /\ mine \in PlainArgs /\ ~Has(mine, "-jar") /\ ~Has(mine, "--nogui")
      /\ Len(mine) = 1 /\ mine[1] = "my.jar" /\ mine # <<>>
    BY Literals, FlagsArePlain, One, HasOne, PlainOne
<1>3. jar = flag \o mine
    BY Literals, OneAndOne
<1>4. nogui \in Seq(Arg) /\ java \in Seq(Arg)
    BY Literals, One, NoGuiTyped
<1> HIDE DEF flag, mine, jar, java, nogui
<1>5. /\ jar \in Seq(Arg) /\ jar \in PlainArgs /\ Has(jar, "-jar") /\ ~Has(jar, "--nogui")
      /\ jar # <<>> /\ jar[Len(jar)] = "my.jar"
    BY <1>2, <1>3, Joined, HasJoined, PlainJoined, LastJoined
<1>6. /\ left \in Seq(Arg) /\ left \in PlainArgs /\ Has(left, "-jar") /\ ~Has(left, "--nogui")
      /\ left # <<>> /\ left[Len(left)] = "my.jar"
    BY <1>1, <1>5, Joined, HasJoined, PlainJoined, LastJoined
<1> HIDE DEF left
<1>7. /\ s \in Seq(Arg) /\ s \in PlainArgs /\ Has(s, "-jar")
      /\ Has(s, "--nogui") <=> Has(game, "--nogui")
    BY <1>1, <1>6, Joined, HasJoined, PlainJoined
<1>8. s # <<>> /\ s[Len(s)] # "-jar"
    <2>1. CASE game = <<>>
        <3>1. s = left
            BY <1>6, <2>1, ConcatEmptySeq
        <3> QED
            BY <1>6, <3>1
    <2>2. CASE game # <<>>
        <3>1. s # <<>> /\ s[Len(s)] = game[Len(game)]
            BY <1>1, <1>6, <2>2, LastJoined
        <3>2. Len(game) \in 1 .. Len(game)
            BY <1>1, <2>2
        <3>3. game[Len(game)] # "-jar"
            BY <1>1, <3>2, HasAt
        <3> QED
            BY <3>1, <3>3
    <2> QED
        BY <2>1, <2>2
<1> HIDE DEF s
<1>9. WithNoGui(WithJar(WithJarFlag(OrDefault(s)))) = s \o nogui
    <2>1. WithJar(WithJarFlag(OrDefault(s))) = s
        BY <1>7, <1>8 DEF OrDefault, WithJarFlag, WithJar
    <2>2. CASE Has(game, "--nogui")
        BY <1>7, <2>1, <2>2, ConcatEmptySeq DEF WithNoGui, nogui, NoGui
    <2>3. CASE ~Has(game, "--nogui")
        <3>1. Append(s, "--nogui") = s \o <<"--nogui">>
            BY <1>7, Literals, OneMore
        <3> QED
            BY <1>7, <2>1, <2>3, <3>1 DEF WithNoGui, nogui, NoGui
    <2> QED
        BY <2>2, <2>3
<1>10. java \o (s \o nogui) = ((java \o opts) \o jar) \o (game \o nogui)
    <2>1. Cat(java, Cat(Cat(Cat(opts, jar), game), nogui))
             = Cat(Cat(Cat(java, opts), jar), Cat(game, nogui))
        BY <1>1, <1>4, <1>5, RegroupAll
    <2> QED
        BY <2>1 DEF Cat, s, left
<1> QED
    BY <1>7, <1>9, <1>10 DEF s, left, jar, java, nogui, Meant

\* Options, with or without the flag for the jar, get this jar and no window.
LEMMA WithoutJar ==
    ASSUME NEW opts \in UserArgs, ~Has(opts, "--nogui"), NEW s,
           s = opts \o <<"-jar">> \/ (s = opts /\ opts # <<>>)
    PROVE  /\ s \in PlainArgs
           /\ <<"java">> \o WithNoGui(WithJar(WithJarFlag(OrDefault(s))))
                  = Meant(opts, JarFile, <<"--nogui">>)
<1> DEFINE flag == <<"-jar">>
<1> DEFINE both == opts \o flag
<1> DEFINE jar == <<JarFile>>
<1> DEFINE nogui == <<"--nogui">>
<1> DEFINE java == <<"java">>
<1>1. opts \in Seq(Arg) /\ opts \in PlainArgs /\ ~Has(opts, "-jar")
    BY DEF UserArgs, PlainArgs
<1>2. /\ flag \in Seq(Arg) /\ flag \in PlainArgs /\ Has(flag, "-jar") /\ ~Has(flag, "--nogui")
      /\ flag # <<>> /\ flag[Len(flag)] = "-jar"
    BY Literals, FlagsArePlain, One, HasOne, PlainOne
<1>3. jar \in Seq(Arg) /\ ~Has(jar, "--nogui")
    BY Literals, One, HasOne
<1>4. nogui \in Seq(Arg) /\ java \in Seq(Arg)
    BY Literals, One
<1>5. flag \o jar = <<"-jar", JarFile>>
    BY Literals, OneAndOne
<1>6. Append(opts, "-jar") = both
    BY <1>1, Literals, OneMore
<1> HIDE DEF flag, jar, nogui, java
<1>7. /\ both \in Seq(Arg) /\ both \in PlainArgs /\ Has(both, "-jar") /\ ~Has(both, "--nogui")
      /\ both # <<>> /\ both[Len(both)] = "-jar"
    BY <1>1, <1>2, Joined, HasJoined, PlainJoined, LastJoined
<1>8. s = both \/ (s = opts /\ opts # <<>>)
    BY DEF flag
<1>9. s \in PlainArgs
    BY <1>1, <1>7, <1>8
<1> HIDE DEF both
<1>10. WithJarFlag(OrDefault(s)) = both
    BY <1>1, <1>6, <1>7, <1>8 DEF OrDefault, WithJarFlag
<1>11. WithJar(both) = both \o jar
    <2>1. Append(both, JarFile) = both \o jar
        BY <1>7, Literals, OneMore DEF jar
    <2> QED
        BY <1>7, <2>1 DEF WithJar
<1>12. WithNoGui(both \o jar) = (both \o jar) \o nogui
    <2>1. both \o jar \in Seq(Arg) /\ ~Has(both \o jar, "--nogui")
        BY <1>3, <1>7, Joined, HasJoined
    <2>2. Append(both \o jar, "--nogui") = (both \o jar) \o nogui
        BY <2>1, Literals, OneMore DEF nogui
    <2> QED
        BY <2>1, <2>2 DEF WithNoGui
<1>13. java \o ((both \o jar) \o nogui) = Meant(opts, JarFile, nogui)
    <2>1. flag \o jar \in Seq(Arg) /\ both \o jar \in Seq(Arg)
        BY <1>2, <1>3, <1>7, Joined
    <2>2. both \o jar = opts \o (flag \o jar)
        BY <1>1, <1>2, <1>3, Regroup DEF both
    <2>3. java \o ((both \o jar) \o nogui) = (java \o (both \o jar)) \o nogui
        BY <1>4, <2>1, Regroup
    <2>4. java \o (opts \o (flag \o jar)) = (java \o opts) \o (flag \o jar)
        BY <1>1, <1>4, <2>1, Regroup
    <2> QED
        BY <1>5, <2>2, <2>3, <2>4 DEF Meant, java
<1> QED
    BY <1>9, <1>10, <1>11, <1>12, <1>13 DEF java, nogui

\* JAVA_ARGS_DEFAULT are options and the flag.
LEMMA NoArguments ==
    <<"java">> \o WithNoGui(WithJar(WithJarFlag(OrDefault(<<>>))))
        = Meant(<<"-Xms128M">>, JarFile, <<"--nogui">>)
<1> DEFINE opts == <<"-Xms128M">>
<1> DEFINE both == opts \o <<"-jar">>
<1>1. opts \in UserArgs /\ ~Has(opts, "--nogui")
    BY Literals, FlagsArePlain, One, HasOne, PlainOne DEF UserArgs
<1>2. both = JAVA_ARGS_DEFAULT
    BY Literals, OneAndOne DEF JAVA_ARGS_DEFAULT
<1>3. both # <<>>
    <2>1. opts \in Seq(Arg) /\ <<"-jar">> \in Seq(Arg) /\ <<"-jar">> # <<>>
        BY Literals, One
    <2> QED
        BY <2>1, LastJoined
<1> HIDE DEF opts
<1>4. OrDefault(<<>>) = OrDefault(both)
    BY <1>2, <1>3 DEF OrDefault
<1>5. <<"java">> \o WithNoGui(WithJar(WithJarFlag(OrDefault(both))))
         = Meant(opts, JarFile, <<"--nogui">>)
    BY <1>1, WithoutJar
<1> QED
    BY <1>4, <1>5 DEF opts

\* What CommandAsMeant says of one list of each kind.
AsMeant(word, opts, game) ==
    /\ ~Has(opts, "--nogui") =>
          /\ BuildCommand(word \o opts \o <<"-jar", "my.jar">> \o game)
                = Meant(opts, "my.jar", game \o NoGui(game))
          /\ BuildCommand(word \o opts \o <<"-jar">>) = Meant(opts, JarFile, <<"--nogui">>)
          /\ opts # <<>> => BuildCommand(word \o opts) = Meant(opts, JarFile, <<"--nogui">>)
    /\ BuildCommand(word) = Meant(<<"-Xms128M">>, JarFile, <<"--nogui">>)

LEMMA CommandOf ==
    ASSUME NEW opts \in ArgLists, NEW game \in ArgLists, NEW word \in Seq(Arg),
           \A i \in 1 .. Len(word) : word[i] \in Dropped
    PROVE  AsMeant(word, opts, game)
<1>1. opts \in UserArgs /\ game \in UserArgs
    BY ListsAreUserArgs
<1>2. opts \in Seq(Arg) /\ game \in Seq(Arg)
    BY <1>1 DEF UserArgs, PlainArgs
<1>3. word \in Seq(Arg) /\ \A i \in 1 .. Len(word) : word[i] \in Dropped
    OBVIOUS
<1>4. ASSUME NEW s \in PlainArgs
      PROVE  BuildCommand(word \o s)
                = <<"java">> \o WithNoGui(WithJar(WithJarFlag(OrDefault(s))))
    BY <1>3, JavaArgsKeeps DEF BuildCommand
<1>5. ASSUME ~Has(opts, "--nogui")
      PROVE  BuildCommand(word \o opts \o <<"-jar", "my.jar">> \o game)
                = Meant(opts, "my.jar", game \o NoGui(game))
    <2> DEFINE jar == <<"-jar", "my.jar">>
    <2>1. jar \in Seq(Arg)
        BY Literals, Two
    <2> HIDE DEF jar
    <2>2. word \o opts \o jar \o game = word \o (opts \o jar \o game)
        <3>1. Cat(Cat(Cat(word, opts), jar), game) = Cat(word, Cat(Cat(opts, jar), game))
            BY <1>2, <1>3, <2>1, RegroupFour
        <3> QED
            BY <3>1, Zenon DEF Cat
    <2>3. /\ opts \o jar \o game \in PlainArgs
          /\ <<"java">> \o WithNoGui(WithJar(WithJarFlag(OrDefault(opts \o jar \o game))))
                = Meant(opts, "my.jar", game \o NoGui(game))
        BY <1>1, <1>5, WithOwnJar DEF jar
    <2> QED
        BY <1>4, <2>2, <2>3 DEF jar
<1>6. ASSUME ~Has(opts, "--nogui")
      PROVE  BuildCommand(word \o opts \o <<"-jar">>) = Meant(opts, JarFile, <<"--nogui">>)
    <2>1. <<"-jar">> \in Seq(Arg)
        BY Literals, One
    <2>2. word \o opts \o <<"-jar">> = word \o (opts \o <<"-jar">>)
        <3>1. Cat(Cat(word, opts), <<"-jar">>) = Cat(word, Cat(opts, <<"-jar">>))
            BY <1>2, <1>3, <2>1, CatFacts, Zenon
        <3> QED
            BY <3>1, Zenon DEF Cat
    <2> QED
        BY <1>1, <1>4, <1>6, <2>2, WithoutJar
<1>7. ASSUME ~Has(opts, "--nogui"), opts # <<>>
      PROVE  BuildCommand(word \o opts) = Meant(opts, JarFile, <<"--nogui">>)
    BY <1>1, <1>4, <1>7, WithoutJar
<1>8. BuildCommand(word) = Meant(<<"-Xms128M">>, JarFile, <<"--nogui">>)
    <2>1. <<>> \in PlainArgs
        BY HasNone, IsPlain
    <2>2. word \o <<>> = word
        BY <1>3, ConcatEmptySeq
    <2> QED
        BY <1>4, <2>1, <2>2, NoArguments
<1> QED
    BY <1>5, <1>6, <1>7, <1>8, Zenon DEF AsMeant

\* java gets what the user meant, for lists of plain arguments of any length,
\* whether the jar, its flag, or everything is left to the proxy (build_command,
\* java_args).
THEOREM CommandIsAsMeant == Spec => []CommandAsMeant
<1>1. CommandAsMeant
    <2>1. ASSUME NEW opts \in ArgLists, NEW game \in ArgLists,
                 NEW word \in {<<>>, <<"start">>, <<"", "run">>}
          PROVE  AsMeant(word, opts, game)
        BY Words, CommandOf, Zenon
    <2> QED
        BY <2>1, Zenon DEF CommandAsMeant, AsMeant, NoGui
<1> QED
    BY <1>1, PTL
=============================================================================
