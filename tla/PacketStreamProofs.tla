------------------------- MODULE PacketStreamProofs -------------------------
(***************************************************************************)
(* Proofs about packets on a byte stream: a length that was encoded is     *)
(* read back, wherever the bytes behind it were cut off, and read_packet   *)
(* finds the frames of a stream one after the other.                       *)
(***************************************************************************)
EXTENDS PacketStream, FiniteSetTheorems, SequenceTheorems, TLAPS

-----------------------------------------------------------------------------
(* Recursion and induction over the numbers.                               *)

LEMMA Least ==
    ASSUME NEW T \in SUBSET Nat, T # {}
    PROVE  \E m \in T : \A n \in T : m <= n
<1> DEFINE D == {1 .. n : n \in T}
<1>1. D \subseteq FiniteSubsetsOf(Nat)
    <2>1. \A n \in T : IsFiniteSet(1 .. n)
        BY FS_Interval
    <2> QED
        BY <2>1 DEF FiniteSubsetsOf
<1>2. D # {}
    OBVIOUS
<1>3. IsWellFoundedOn(StrictSubsetOrdering(Nat), FiniteSubsetsOf(Nat))
    BY FS_StrictSubsetOrderingWellFounded
<1>4. PICK x \in D : \A y \in D : ~(<<y, x>> \in StrictSubsetOrdering(Nat))
    <2> HIDE DEF D
    <2> QED
        BY <1>1, <1>2, <1>3, WFMin, Zenon
<1>5. PICK m \in T : x = 1 .. m
    OBVIOUS
<1>6. ASSUME NEW n \in T, n < m PROVE FALSE
    <2>1. <<1 .. n, x>> \in StrictSubsetOrdering(Nat)
        BY <1>5, <1>6 DEF StrictSubsetOrdering
    <2> QED
        BY <1>4, <2>1
<1> QED
    BY <1>6

\* Induction, for a set of numbers: what all smaller ones have in common.
LEMMA AllNumbers ==
    ASSUME NEW T, \A n \in Nat : (\A m \in Nat : m < n => m \in T) => n \in T
    PROVE  Nat \subseteq T
<1>1. SUFFICES ASSUME Nat \ T # {} PROVE FALSE
    OBVIOUS
<1>2. PICK n \in Nat \ T : \A m \in Nat \ T : n <= m
    BY <1>1, Least
<1>3. \A m \in Nat : m < n => m \in T
    BY <1>2
<1> QED
    BY <1>2, <1>3

\* Induction from the last number down to 0.
LEMMA DownTo0 ==
    ASSUME NEW N \in Nat, NEW T, N \in T, \A n \in 0 .. N - 1 : n + 1 \in T => n \in T
    PROVE  0 .. N \subseteq T
<1> DEFINE U == {d \in Nat : d <= N => N - d \in T}
<1>1. ASSUME NEW d \in Nat, \A m \in Nat : m < d => m \in U PROVE d \in U
    <2>1. SUFFICES ASSUME d <= N PROVE N - d \in T
        OBVIOUS
    <2>2. CASE d = 0
        BY <2>2
    <2>3. CASE d # 0
        <3>1. d - 1 \in Nat /\ d - 1 < d /\ d - 1 <= N /\ N - d \in 0 .. N - 1
              /\ N - (d - 1) = (N - d) + 1
            BY <2>1, <2>3
        <3>2. d - 1 \in U
            BY <1>1, <3>1
        <3> QED
            BY <3>1, <3>2
    <2> QED
        BY <2>2, <2>3
<1>2. Nat \subseteq U
    <2> HIDE DEF U
    <2> QED
        BY <1>1, AllNumbers, Zenon
<1>3. ASSUME NEW k \in 0 .. N PROVE k \in T
    <2>1. N - k \in Nat /\ N - k <= N /\ N - (N - k) = k
        OBVIOUS
    <2>2. N - k \in U
        BY <1>2, <2>1
    <2> QED
        BY <2>1, <2>2
<1> QED
    BY <1>3

\* A function that goes down from the last number to 0.
Descending(f, S, N, c, step) ==
    /\ f \in [0 .. N -> S]
    /\ \A n \in 0 .. N : f[n] = IF n = N THEN c ELSE step[n][f[n + 1]]

LEMMA DownRecursion ==
    ASSUME NEW S, NEW N \in Nat, NEW c \in S, NEW step \in [0 .. N -> [S -> S]]
    PROVE  \E f : Descending(f, S, N, c, step)
<1> DEFINE T == {d \in Nat : d <= N =>
                    \E f \in [0 .. N -> S] :
                        \A n \in N - d .. N : f[n] = IF n = N THEN c ELSE step[n][f[n + 1]]}
<1>1. ASSUME NEW d \in Nat, \A m \in Nat : m < d => m \in T PROVE d \in T
    <2>1. SUFFICES ASSUME d <= N
                   PROVE  \E f \in [0 .. N -> S] :
                        \A n \in N - d .. N : f[n] = IF n = N THEN c ELSE step[n][f[n + 1]]
        OBVIOUS
    <2>2. CASE d = 0
        <3> DEFINE g == [n \in 0 .. N |-> c]
        <3>1. g \in [0 .. N -> S]
            OBVIOUS
        <3>2. \A n \in N - d .. N : n = N /\ g[n] = c
            BY <2>2
        <3> HIDE DEF g
        <3> QED
            BY <3>1, <3>2
    <2>3. CASE d # 0
        <3>1. d - 1 \in Nat /\ d - 1 < d /\ d - 1 <= N
            BY <2>1, <2>3
        <3>2. d - 1 \in T
            BY <1>1, <3>1
        <3>3. PICK f \in [0 .. N -> S] :
                 \A n \in N - (d - 1) .. N : f[n] = IF n = N THEN c ELSE step[n][f[n + 1]]
            BY <3>1, <3>2
        <3> DEFINE k == N - d
        <3> DEFINE g == [f EXCEPT ![k] = step[k][f[k + 1]]]
        <3>4. k \in 0 .. N /\ k + 1 \in 0 .. N /\ k # N
            BY <2>1, <2>3
        <3>5. step[k] \in [S -> S] /\ f[k + 1] \in S
            BY <3>4
        <3>6. g \in [0 .. N -> S]
            BY <3>5
        <3>7. g[k] = step[k][f[k + 1]] /\ \A n \in 0 .. N : n # k => g[n] = f[n]
            BY <3>4
        <3> HIDE DEF g
        <3>8. ASSUME NEW n \in N - d .. N
              PROVE  g[n] = IF n = N THEN c ELSE step[n][g[n + 1]]
            <4>1. CASE n = k
                BY <3>4, <3>7, <4>1
            <4>2. CASE n # k
                <5>1. n \in N - (d - 1) .. N /\ n \in 0 .. N
                    BY <2>1, <4>2
                <5>2. n # N => n + 1 \in 0 .. N /\ n + 1 # k
                    BY <2>1, <4>2
                <5> QED
                    BY <3>3, <3>7, <4>2, <5>1, <5>2
            <4> QED
                BY <4>1, <4>2
        <3> QED
            BY <3>6, <3>8
    <2> QED
        BY <2>2, <2>3
<1>2. N \in T
    <2> HIDE DEF T
    <2>1. Nat \subseteq T
        BY <1>1, AllNumbers, Zenon
    <2> QED
        BY <2>1
<1>3. PICK f \in [0 .. N -> S] :
         \A n \in N - N .. N : f[n] = IF n = N THEN c ELSE step[n][f[n + 1]]
    BY <1>2
<1>4. Descending(f, S, N, c, step)
    BY <1>3 DEF Descending
<1> QED
    BY <1>4

-----------------------------------------------------------------------------
(* Var-ints.                                                               *)

LEMMA Digits ==
    ASSUME NEW n \in Nat
    PROVE  /\ n % Base \in 0 .. Base - 1 /\ n \div Base \in Nat
           /\ n = (n % Base) + Base * (n \div Base)
           /\ n >= Base => n \div Base < n
           /\ n < Base => n % Base = n
           /\ Base + (n % Base) \in Byte /\ ~(Base + (n % Base) < Base)
           /\ (Base + (n % Base)) % Base = n % Base
           /\ n < Base => n \in Byte
<1>0. Base \in Nat /\ Base > 1
    BY BaseIsPositive
<1>1. n % Base \in 0 .. Base - 1 /\ n \div Base \in Nat
    BY <1>0
<1>2. n = (n % Base) + Base * (n \div Base)
    BY <1>0
<1>3. n >= Base => n \div Base < n
    BY <1>0, <1>1, <1>2
<1>4. n < Base => n % Base = n
    BY <1>0
<1>5. Base + (n % Base) \in Byte /\ ~(Base + (n % Base) < Base)
    BY <1>0, <1>1 DEF Byte
<1>6. (Base + (n % Base)) % Base = n % Base
    BY <1>0, <1>1
<1> QED
    BY <1>0, <1>1, <1>2, <1>3, <1>4, <1>5, <1>6 DEF Byte

LEMMA Shrinks ==
    ASSUME NEW n \in Nat, ~(n < Base)
    PROVE  n \div Base \in Nat /\ n \div Base < n /\ n \div Base \in 0 .. n - 1
<1>1. Base \in Nat /\ n >= Base
    BY BaseIsPositive
<1>2. n \div Base \in Nat /\ n \div Base < n
    BY <1>1, Digits
<1> QED
    BY <1>2

\* As much of EncodeVarInt as it takes for numbers up to n.
Written(f, n) ==
    /\ f \in [0 .. n -> Seq(Byte)]
    /\ \A k \in 0 .. n :
          f[k] = IF k < Base THEN <<k>> ELSE <<Base + (k % Base)>> \o f[k \div Base]

LEMMA WrittenUpTo == \A n \in Nat : \E f : Written(f, n)
<1> DEFINE T == {n \in Nat : \E f : Written(f, n)}
<1>1. ASSUME NEW n \in Nat, \A m \in Nat : m < n => m \in T PROVE n \in T
    <2>1. CASE n < Base
        <3> DEFINE g == [k \in 0 .. n |-> <<k>>]
        <3>1. \A k \in 0 .. n : k < Base /\ <<k>> \in Seq(Byte)
            <4>1. Base \in Nat
                BY BaseIsPositive
            <4>2. \A k \in 0 .. n : k < Base /\ k \in Byte
                BY <2>1, <4>1 DEF Byte
            <4> QED
                BY <4>2
        <3>2. Written(g, n)
            BY <3>1 DEF Written
        <3> QED
            BY <3>2
    <2>2. CASE ~(n < Base)
        <3>0. Base \in Nat /\ Base > 1
            BY BaseIsPositive
        <3>1. n - 1 \in Nat /\ n - 1 < n
            BY <2>2, <3>0
        <3>2. PICK f : Written(f, n - 1)
            BY <1>1, <3>1
        <3>3. n \div Base \in 0 .. n - 1 /\ Base + (n % Base) \in Byte
            BY <2>2, Shrinks, Digits
        <3> DEFINE last == <<Base + (n % Base)>> \o f[n \div Base]
        <3>4. f \in [0 .. n - 1 -> Seq(Byte)]
            BY <3>2 DEF Written
        <3>5. last \in Seq(Byte)
            <4>1. <<Base + (n % Base)>> \in Seq(Byte) /\ f[n \div Base] \in Seq(Byte)
                BY <3>3, <3>4
            <4> QED
                BY <4>1
        <3> DEFINE g == [k \in 0 .. n |-> IF k = n THEN last ELSE f[k]]
        <3>6. g[n] = last /\ \A k \in 0 .. n - 1 : g[k] = f[k]
            <4> HIDE DEF last
            <4>1. n \in 0 .. n /\ \A k \in 0 .. n - 1 : k \in 0 .. n /\ k # n
                BY <3>1
            <4> QED
                BY <4>1
        <3>7. g \in [0 .. n -> Seq(Byte)]
            <4> HIDE DEF last
            <4> QED
                BY <3>4, <3>5
        <3>8. ASSUME NEW k \in 0 .. n
              PROVE  g[k] = IF k < Base THEN <<k>> ELSE <<Base + (k % Base)>> \o g[k \div Base]
            <4>1. CASE k = n
                <5>1. g[n \div Base] = f[n \div Base]
                    BY <3>3, <3>6
                <5> HIDE DEF g
                <5> QED
                    BY <2>2, <3>6, <4>1, <5>1
            <4>2. CASE k # n
                <5>1. k \in 0 .. n - 1
                    BY <4>2
                <5>2. f[k] = IF k < Base THEN <<k>> ELSE <<Base + (k % Base)>> \o f[k \div Base]
                    BY <3>2, <5>1 DEF Written
                <5>3. ~(k < Base) => k \div Base \in 0 .. n - 1
                    <6>1. k \in Nat
                        OBVIOUS
                    <6>2. ~(k < Base) => k \div Base \in 0 .. k - 1
                        BY <6>1, Shrinks
                    <6> QED
                        BY <5>1, <6>2
                <5>4. g[k] = f[k] /\ (~(k < Base) => g[k \div Base] = f[k \div Base])
                    BY <3>6, <5>1, <5>3
                <5> HIDE DEF g
                <5> QED
                    BY <5>2, <5>4
            <4> QED
                BY <4>1, <4>2
        <3>9. Written(g, n)
            <4> HIDE DEF g
            <4> QED
                BY <3>7, <3>8 DEF Written
        <3> QED
            BY <3>9
    <2> QED
        BY <2>1, <2>2
<1>2. Nat \subseteq T
    <2> HIDE DEF T
    <2> QED
        BY <1>1, AllNumbers, Zenon
<1> QED
    BY <1>2

LEMMA WrittenOnce ==
    ASSUME NEW m \in Nat, NEW n \in Nat, NEW f, NEW g, Written(f, m), Written(g, n)
    PROVE  \A k \in Nat : k <= m /\ k <= n => f[k] = g[k]
<1> DEFINE T == {k \in Nat : k <= m /\ k <= n => f[k] = g[k]}
<1>1. ASSUME NEW k \in Nat, \A j \in Nat : j < k => j \in T PROVE k \in T
    <2>1. SUFFICES ASSUME k <= m, k <= n PROVE f[k] = g[k]
        OBVIOUS
    <2>2. k \in 0 .. m /\ k \in 0 .. n
        BY <2>1
    <2>3. f[k] = IF k < Base THEN <<k>> ELSE <<Base + (k % Base)>> \o f[k \div Base]
        BY <2>2 DEF Written
    <2>4. g[k] = IF k < Base THEN <<k>> ELSE <<Base + (k % Base)>> \o g[k \div Base]
        BY <2>2 DEF Written
    <2>5. ~(k < Base) => f[k \div Base] = g[k \div Base]
        <3>1. ~(k < Base) => k \div Base \in Nat /\ k \div Base < k
            BY Shrinks
        <3>2. ~(k < Base) => k \div Base \in T
            BY <1>1, <3>1
        <3> QED
            BY <2>1, <3>1, <3>2
    <2> QED
        BY <2>3, <2>4, <2>5
<1>2. Nat \subseteq T
    <2> HIDE DEF T
    <2> QED
        BY <1>1, AllNumbers, Zenon
<1> QED
    BY <1>2

\* The recursion of EncodeVarInt is one.
LEMMA EncodeVarIntDef ==
    ASSUME NEW n \in Nat
    PROVE  /\ EncodeVarInt[n] \in Seq(Byte)
           /\ EncodeVarInt[n] = IF n < Base THEN <<n>>
                                ELSE <<Base + (n % Base)>> \o EncodeVarInt[n \div Base]
<1> DEFINE F(k) == CHOOSE f : Written(f, k)
<1> DEFINE g == [k \in Nat |-> F(k)[k]]
<1> DEFINE Def(f) == [k \in Nat |-> IF k < Base THEN <<k>>
                                    ELSE <<Base + (k % Base)>> \o f[k \div Base]]
<1>1. \A k \in Nat : Written(F(k), k)
    BY WrittenUpTo
<1>2. ASSUME NEW k \in Nat
      PROVE  /\ g[k] \in Seq(Byte)
             /\ g[k] = IF k < Base THEN <<k>> ELSE <<Base + (k % Base)>> \o g[k \div Base]
    <2>1. g[k] = F(k)[k]
        OBVIOUS
    <2>2. Written(F(k), k)
        BY <1>1
    <2>3. /\ F(k)[k] \in Seq(Byte)
          /\ F(k)[k] = IF k < Base THEN <<k>> ELSE <<Base + (k % Base)>> \o F(k)[k \div Base]
        <3> HIDE DEF F
        <3>1. k \in 0 .. k
            OBVIOUS
        <3> QED
            BY <2>2, <3>1 DEF Written
    <2>4. ~(k < Base) => g[k \div Base] = F(k)[k \div Base]
        <3>1. ~(k < Base) => k \div Base \in Nat /\ k \div Base < k
            BY Shrinks
        <3>2. ~(k < Base) => g[k \div Base] = F(k \div Base)[k \div Base]
            BY <3>1
        <3>3. ~(k < Base) => Written(F(k \div Base), k \div Base)
            BY <1>1, <3>1
        <3> HIDE DEF F, g
        <3> QED
            BY <2>2, <3>1, <3>2, <3>3, WrittenOnce
    <2> HIDE DEF F, g
    <2> QED
        BY <2>1, <2>3, <2>4
<1>3. g = Def(g)
    <2>1. \A k \in Nat : g[k] = Def(g)[k]
        <3> HIDE DEF F, g
        <3> QED
            BY <1>2
    <2> QED
        BY <2>1
<1>4. EncodeVarInt = Def(EncodeVarInt)
    <2>1. \E f : f = Def(f)
        <3> HIDE DEF Def, g
        <3> QED
            BY <1>3
    <2>2. EncodeVarInt = CHOOSE f : f = Def(f)
        BY DEF EncodeVarInt
    <2> HIDE DEF Def
    <2> QED
        BY <2>1, <2>2
<1>5. \A k \in Nat : EncodeVarInt[k] = IF k < Base THEN <<k>>
                                      ELSE <<Base + (k % Base)>> \o EncodeVarInt[k \div Base]
    <2>1. \A k \in Nat : EncodeVarInt[k] = Def(EncodeVarInt)[k]
        BY <1>4, Zenon
    <2> QED
        BY <2>1
<1> DEFINE T == {k \in Nat : EncodeVarInt[k] \in Seq(Byte)}
<1>6. ASSUME NEW k \in Nat, \A j \in Nat : j < k => j \in T PROVE k \in T
    <2>1. CASE k < Base
        <3>1. k \in Byte /\ EncodeVarInt[k] = <<k>>
            BY <1>5, <2>1, Digits
        <3>2. <<k>> \in Seq(Byte)
            BY <3>1
        <3> QED
            BY <3>1, <3>2
    <2>2. CASE ~(k < Base)
        <3>1. EncodeVarInt[k \div Base] \in Seq(Byte) /\ Base + (k % Base) \in Byte
            BY <1>6, <2>2, Shrinks, Digits
        <3>2. <<Base + (k % Base)>> \o EncodeVarInt[k \div Base] \in Seq(Byte)
            BY <3>1
        <3>3. EncodeVarInt[k] = <<Base + (k % Base)>> \o EncodeVarInt[k \div Base]
            BY <1>5, <2>2
        <3> QED
            BY <3>2, <3>3
    <2> QED
        BY <2>1, <2>2
<1>7. Nat \subseteq T
    <2> HIDE DEF T
    <2> QED
        BY <1>6, AllNumbers, Zenon
<1> QED
    BY <1>5, <1>7

\* What ends a var-int, and what does not.
LEMMA EncodedShape ==
    ASSUME NEW n \in Nat
    PROVE  LET e == EncodeVarInt[n] IN
           Len(e) >= 1 /\ e[Len(e)] < Base /\ \A i \in 1 .. Len(e) - 1 : ~(e[i] < Base)
<1> DEFINE E(k) == EncodeVarInt[k]
<1> DEFINE Ok(e) == Len(e) >= 1 /\ e[Len(e)] < Base /\ \A i \in 1 .. Len(e) - 1 : ~(e[i] < Base)
<1> DEFINE T == {k \in Nat : Ok(E(k))}
<1>1. ASSUME NEW k \in Nat, \A j \in Nat : j < k => j \in T PROVE k \in T
    <2>1. CASE k < Base
        <3>1. E(k) = <<k>>
            BY <2>1, EncodeVarIntDef
        <3>2. Len(<<k>>) = 1 /\ <<k>>[1] = k
            OBVIOUS
        <3> HIDE DEF E
        <3>3. Ok(E(k))
            BY <2>1, <3>1, <3>2
        <3> QED
            BY <3>3
    <2>2. CASE ~(k < Base)
        <3> DEFINE d == Base + (k % Base)
        <3> DEFINE e == E(k \div Base)
        <3>1. k \div Base \in T /\ k \div Base \in Nat
            BY <1>1, <2>2, Shrinks
        <3>2. E(k) = <<d>> \o e /\ e \in Seq(Byte)
            BY <2>2, <3>1, EncodeVarIntDef
        <3>3. Ok(e)
            BY <3>1
        <3>4. ~(d < Base) /\ d \in Byte
            BY Digits
        <3> HIDE DEF d, e, E
        <3>5. Len(<<d>> \o e) = Len(e) + 1 /\ (<<d>> \o e)[1] = d
              /\ \A i \in 1 .. Len(e) : (<<d>> \o e)[i + 1] = e[i]
            BY <3>2, <3>4
        <3>6. (<<d>> \o e)[Len(e) + 1] < Base
            BY <3>2, <3>3, <3>5
        <3>7. ASSUME NEW i \in 1 .. Len(e) PROVE ~((<<d>> \o e)[i] < Base)
            <4>1. CASE i = 1
                BY <3>4, <3>5, <4>1
            <4>2. CASE i # 1
                <5>1. i - 1 \in 1 .. Len(e) - 1 /\ i - 1 \in 1 .. Len(e)
                    BY <3>2, <4>2
                <5>2. (<<d>> \o e)[(i - 1) + 1] = e[i - 1] /\ ~(e[i - 1] < Base)
                    BY <3>3, <3>5, <5>1
                <5>3. (i - 1) + 1 = i
                    OBVIOUS
                <5> QED
                    BY <5>2, <5>3
            <4> QED
                BY <4>1, <4>2
        <3>8. Len(e) \in Nat
            BY <3>2
        <3>9. Ok(<<d>> \o e)
            <4>1. Len(<<d>> \o e) - 1 = Len(e) /\ Len(<<d>> \o e) >= 1
                BY <3>5, <3>8
            <4> QED
                BY <3>5, <3>6, <3>7, <4>1
        <3> HIDE DEF Ok
        <3> QED
            BY <3>2, <3>9
    <2> QED
        BY <2>1, <2>2
<1>2. Nat \subseteq T
    <2> HIDE DEF T
    <2> QED
        BY <1>1, AllNumbers, Zenon
<1> QED
    BY <1>2

\* The groups of a number, read from where they begin, are that number.
LEMMA GroupsOf ==
    ASSUME NEW buf \in Seq(Byte), NEW L \in 0 .. Len(buf), NEW f \in [0 .. L -> Nat],
           \A k \in 0 .. L :
               f[k] = IF k = L THEN 0 ELSE (buf[k + 1] % Base) + Base * f[k + 1]
    PROVE  \A n, o \in Nat :
               /\ o + Len(EncodeVarInt[n]) = L
               /\ \A i \in 1 .. Len(EncodeVarInt[n]) : buf[o + i] = EncodeVarInt[n][i]
               => f[o] = n
<1> DEFINE E(k) == EncodeVarInt[k]
<1> DEFINE At(n, o) == o + Len(E(n)) = L /\ \A i \in 1 .. Len(E(n)) : buf[o + i] = E(n)[i]
<1> DEFINE T == {n \in Nat : \A o \in Nat : At(n, o) => f[o] = n}
<1>0. Base \in Nat /\ L \in Nat
    BY BaseIsPositive
<1>1. ASSUME NEW n \in Nat, \A j \in Nat : j < n => j \in T PROVE n \in T
    <2>1. SUFFICES ASSUME NEW o \in Nat, At(n, o) PROVE f[o] = n
        OBVIOUS
    <2>2. CASE n < Base
        <3>1. E(n) = <<n>>
            BY <2>2, EncodeVarIntDef
        <3>2. Len(<<n>>) = 1 /\ <<n>>[1] = n
            OBVIOUS
        <3> HIDE DEF E
        <3>3. o + 1 = L /\ buf[o + 1] = n
            BY <2>1, <3>1, <3>2
        <3>4. o \in 0 .. L /\ o # L /\ o + 1 \in 0 .. L
            BY <1>0, <3>3
        <3>5. f[o] = (buf[o + 1] % Base) + Base * f[o + 1] /\ f[o + 1] = 0
            BY <3>3, <3>4
        <3>6. n % Base = n
            BY <2>2, Digits
        <3> QED
            BY <1>0, <3>3, <3>5, <3>6
    <2>3. CASE ~(n < Base)
        <3> DEFINE m == n \div Base
        <3> DEFINE d == Base + (n % Base)
        <3>1. m \in T /\ m \in Nat
            BY <1>1, <2>3, Shrinks
        <3>2. E(n) = <<d>> \o E(m) /\ E(m) \in Seq(Byte)
            BY <2>3, <3>1, EncodeVarIntDef
        <3>3. d \in Byte /\ d % Base = n % Base /\ n = (n % Base) + Base * m
            BY Digits
        <3> HIDE DEF E, m, d
        <3>4. Len(E(n)) = Len(E(m)) + 1 /\ E(n)[1] = d
              /\ \A i \in 1 .. Len(E(m)) : E(n)[i + 1] = E(m)[i]
            BY <3>2, <3>3
        <3>5. Len(E(m)) \in Nat
            BY <3>2
        <3>6. buf[o + 1] = d
            <4>1. 1 \in 1 .. Len(E(n))
                BY <3>4, <3>5
            <4> QED
                BY <2>1, <3>4, <4>1
        <3>7. At(m, o + 1)
            <4>1. (o + 1) + Len(E(m)) = L
                BY <2>1, <3>4, <3>5
            <4>2. ASSUME NEW i \in 1 .. Len(E(m)) PROVE buf[(o + 1) + i] = E(m)[i]
                <5>1. i + 1 \in 1 .. Len(E(n)) /\ o + (i + 1) = (o + 1) + i
                    BY <3>4, <3>5
                <5>2. buf[o + (i + 1)] = E(n)[i + 1]
                    BY <2>1, <5>1
                <5> QED
                    BY <3>4, <5>1, <5>2
            <4> QED
                BY <4>1, <4>2
        <3>8. f[o + 1] = m
            <4>1. o + 1 \in Nat
                OBVIOUS
            <4> HIDE DEF At
            <4> QED
                BY <3>1, <3>7, <4>1
        <3>9. o \in 0 .. L /\ o # L
            BY <1>0, <2>1, <3>4, <3>5
        <3>10. f[o] = (buf[o + 1] % Base) + Base * f[o + 1]
            BY <3>9
        <3> QED
            BY <3>3, <3>6, <3>8, <3>10
    <2> QED
        BY <2>2, <2>3
<1>2. Nat \subseteq T
    <2> HIDE DEF T
    <2> QED
        BY <1>1, AllNumbers, Zenon
<1> QED
    BY <1>2

\* read_var_int looks no further than the first byte that ends a number.
LEMMA EndFacts ==
    ASSUME NEW buf \in Seq(Byte), HasVarInt(buf)
    PROVE  /\ VarIntLen(buf) \in 1 .. Len(buf) /\ VarIntLen(buf) <= 5
           /\ buf[VarIntLen(buf)] < Base
           /\ \A j \in 1 .. VarIntLen(buf) - 1 : ~(buf[j] < Base)
<1>1. VarIntEnds(buf) \in SUBSET Nat /\ VarIntEnds(buf) # {}
    BY DEF VarIntEnds, HasVarInt
<1>2. \E k \in VarIntEnds(buf) : \A j \in VarIntEnds(buf) : k <= j
    BY <1>1, Least
<1>3. VarIntLen(buf) \in VarIntEnds(buf) /\ \A j \in VarIntEnds(buf) : VarIntLen(buf) <= j
    BY <1>2, Zenon DEF VarIntLen
<1>4. VarIntLen(buf) \in 1 .. Len(buf) /\ VarIntLen(buf) <= 5 /\ buf[VarIntLen(buf)] < Base
    BY <1>3 DEF VarIntEnds
<1>5. ASSUME NEW j \in 1 .. VarIntLen(buf) - 1 PROVE ~(buf[j] < Base)
    <2>1. j \in 1 .. Len(buf) /\ j <= 5 /\ ~(VarIntLen(buf) <= j)
        BY <1>4
    <2> QED
        BY <1>3, <2>1 DEF VarIntEnds
<1> QED
    BY <1>4, <1>5

\* f[k] is what the bytes of a number mean from the k-th on.
Groups(f, buf, L) ==
    /\ f \in [0 .. L -> Nat]
    /\ VarIntVal(buf) = f[0]
    /\ \A k \in 0 .. L : f[k] = IF k = L THEN 0 ELSE (buf[k + 1] % Base) + Base * f[k + 1]

\* The recursion of VarIntVal is one.
LEMMA VarIntValDef ==
    ASSUME NEW buf \in Seq(Byte), HasVarInt(buf)
    PROVE  \E f : Groups(f, buf, VarIntLen(buf))
<1> DEFINE L == VarIntLen(buf)
<1> DEFINE Def(f) == [k \in 0 .. L |-> IF k = L THEN 0 ELSE (buf[k + 1] % Base) + Base * f[k + 1]]
<1> DEFINE group == [k \in 0 .. L |-> IF k = L THEN 0 ELSE buf[k + 1] % Base]
<1> DEFINE step == [k \in 0 .. L |-> [v \in Nat |-> group[k] + Base * v]]
<1>0. Base \in Nat /\ Base > 1
    BY BaseIsPositive
<1>1. L \in 1 .. Len(buf) /\ L \in Nat
    BY EndFacts
<1>2. VarIntVal(buf) = (CHOOSE f : f = Def(f))[0]
    BY DEF VarIntVal
<1> HIDE DEF L
<1>3. group \in [0 .. L -> Nat]
    <2>1. \A k \in 0 .. L : k # L => buf[k + 1] \in Byte
        BY <1>1
    <2>2. \A b \in Byte : b % Base \in Nat
        BY <1>0 DEF Byte
    <2> QED
        BY <2>1, <2>2
<1>4. step \in [0 .. L -> [Nat -> Nat]]
    <2>1. \A g, v \in Nat : g + Base * v \in Nat
        BY <1>0
    <2> HIDE DEF group
    <2> QED
        BY <1>3, <2>1
<1>5. PICK f : Descending(f, Nat, L, 0, step)
    <2> HIDE DEF step
    <2>1. 0 \in Nat
        OBVIOUS
    <2> QED
        BY <1>1, <1>4, <2>1, DownRecursion, Zenon
<1>6. f = Def(f)
    <2>1. ASSUME NEW k \in 0 .. L, k # L
          PROVE  step[k][f[k + 1]] = (buf[k + 1] % Base) + Base * f[k + 1]
        <3>1. k + 1 \in 0 .. L
            BY <1>1, <2>1
        <3>2. f \in [0 .. L -> Nat]
            BY <1>5 DEF Descending
        <3>3. f[k + 1] \in Nat
            BY <3>1, <3>2
        <3>4. step[k][f[k + 1]] = group[k] + Base * f[k + 1]
            <4> HIDE DEF group
            <4> QED
                BY <3>3
        <3>5. group[k] = buf[k + 1] % Base
            BY <2>1
        <3> QED
            BY <3>4, <3>5
    <2> HIDE DEF step
    <2> QED
        BY <1>5, <2>1 DEF Descending
<1> DEFINE c == CHOOSE h : h = Def(h)
<1>7. c = Def(c)
    <2> HIDE DEF Def
    <2> QED
        BY <1>6
<1> HIDE DEF c
<1>8. \A k \in 0 .. L : c[k] = IF k = L THEN 0 ELSE (buf[k + 1] % Base) + Base * c[k + 1]
    <2>1. \A k \in 0 .. L : c[k] = Def(c)[k]
        BY <1>7, Zenon
    <2> QED
        BY <2>1
<1>9. ASSUME NEW k \in 0 .. L - 1, c[k + 1] \in Nat PROVE c[k] \in Nat
    <2>1. k \in 0 .. L /\ k # L
        BY <1>1
    <2>2. c[k] = (buf[k + 1] % Base) + Base * c[k + 1]
        BY <1>8, <2>1
    <2>3. group[k] \in Nat /\ group[k] = buf[k + 1] % Base
        BY <1>3, <2>1
    <2> QED
        BY <1>0, <1>9, <2>2, <2>3
<1>10. \A k \in 0 .. L : c[k] \in Nat
    <2> DEFINE T == {k \in 0 .. L : c[k] \in Nat}
    <2>1. L \in T
        BY <1>1, <1>8
    <2>2. \A k \in 0 .. L - 1 : k + 1 \in T => k \in T
        <3>1. \A k \in 0 .. L - 1 : k \in 0 .. L
            BY <1>1
        <3> QED
            BY <1>9, <3>1
    <2>3. 0 .. L \subseteq T
        <3> HIDE DEF T
        <3> QED
            BY <1>1, <2>1, <2>2, DownTo0
    <2> QED
        BY <2>3
<1>11. c \in [0 .. L -> Nat]
    <2>1. c = [k \in 0 .. L |-> c[k]]
        <3>1. Def(c) = [k \in 0 .. L |-> Def(c)[k]]
            BY Zenon
        <3> HIDE DEF Def
        <3> QED
            BY <1>7, <3>1
    <2> QED
        BY <1>10, <2>1
<1>12. VarIntVal(buf) = c[0]
    BY <1>2 DEF c
<1> QED
    <2> HIDE DEF Def, group, step
    <2> QED
        BY <1>8, <1>11, <1>12 DEF L, Groups

LEMMA SamePrefix ==
    ASSUME NEW S, NEW a \in Seq(S), NEW b \in Seq(S), NEW x \in Seq(S), NEW y \in Seq(S),
           a \o b = x \o y
    PROVE  /\ Len(a) + Len(b) = Len(x) + Len(y)
           /\ \A i \in 1 .. Len(a) : i \in 1 .. Len(x) => a[i] = x[i]
<1>1. Len(a \o b) = Len(a) + Len(b) /\ Len(x \o y) = Len(x) + Len(y)
    OBVIOUS
<1>2. \A i \in 1 .. Len(a) : (a \o b)[i] = a[i]
    OBVIOUS
<1>3. \A i \in 1 .. Len(x) : (x \o y)[i] = x[i]
    OBVIOUS
<1> QED
    BY <1>1, <1>2, <1>3

\* A length that encode_with_len wrote is what read_packet reads, wherever the
\* bytes are cut: no length is made of a part of it, and all of it yields the
\* number that was written and where it ends, if it has at most five bytes.
THEOREM ReadBack ==
    ASSUME NEW n \in Nat, NEW buf \in Seq(Byte), NEW wire \in Seq(Byte), NEW rest \in Seq(Byte),
           buf \o wire = EncodeVarInt[n] \o rest
    PROVE  /\ HasVarInt(buf) <=> Len(EncodeVarInt[n]) <= 5 /\ Len(EncodeVarInt[n]) <= Len(buf)
           /\ HasVarInt(buf) => VarIntLen(buf) = Len(EncodeVarInt[n]) /\ VarIntVal(buf) = n
<1> DEFINE e == EncodeVarInt[n]
<1>1. e \in Seq(Byte)
    BY EncodeVarIntDef
<1>2. Len(e) >= 1 /\ e[Len(e)] < Base /\ \A i \in 1 .. Len(e) - 1 : ~(e[i] < Base)
    BY EncodedShape
<1> HIDE DEF e
<1>3. \A i \in 1 .. Len(buf) : i \in 1 .. Len(e) => buf[i] = e[i]
    BY <1>1, SamePrefix DEF e
<1>4. Len(e) \in Nat /\ Len(buf) \in Nat
    BY <1>1
<1>5. ASSUME Len(e) <= 5, Len(e) <= Len(buf) PROVE HasVarInt(buf)
    <2>1. Len(e) \in 1 .. Len(buf) /\ Len(e) \in 1 .. Len(e)
        BY <1>2, <1>4, <1>5
    <2>2. buf[Len(e)] < Base
        BY <1>2, <1>3, <2>1
    <2> QED
        BY <1>5, <2>1, <2>2 DEF HasVarInt, VarIntEnds
<1>6. ASSUME HasVarInt(buf) PROVE VarIntLen(buf) = Len(e)
    <2> DEFINE k == VarIntLen(buf)
    <2>1. k \in 1 .. Len(buf) /\ buf[k] < Base /\ \A j \in 1 .. k - 1 : ~(buf[j] < Base)
        BY <1>6, EndFacts
    <2> HIDE DEF k
    <2>2. ASSUME k < Len(e) PROVE FALSE
        <3>1. k \in 1 .. Len(e) - 1 /\ k \in 1 .. Len(e)
            BY <1>4, <2>1, <2>2
        <3> QED
            BY <1>2, <1>3, <2>1, <3>1
    <2>3. ASSUME k > Len(e) PROVE FALSE
        <3>1. Len(e) \in 1 .. k - 1 /\ Len(e) \in 1 .. Len(buf) /\ Len(e) \in 1 .. Len(e)
            BY <1>2, <1>4, <2>1, <2>3
        <3> QED
            BY <1>2, <1>3, <2>1, <3>1
    <2>4. k = Len(e)
        <3>1. k \in Nat
            BY <2>1
        <3> QED
            BY <1>4, <2>2, <2>3, <3>1
    <2> QED
        BY <2>4 DEF k
<1>7. ASSUME HasVarInt(buf) PROVE Len(e) <= 5 /\ Len(e) <= Len(buf) /\ VarIntVal(buf) = n
    <2>1. Len(e) <= 5 /\ Len(e) <= Len(buf)
        BY <1>4, <1>6, <1>7, EndFacts
    <2>0. PICK f : Groups(f, buf, Len(e))
        <3>1. VarIntLen(buf) = Len(e) /\ \E f : Groups(f, buf, VarIntLen(buf))
            BY <1>6, <1>7, VarIntValDef
        <3> QED
            BY <3>1
    <2>2. /\ f \in [0 .. Len(e) -> Nat] /\ VarIntVal(buf) = f[0]
          /\ \A k \in 0 .. Len(e) :
                f[k] = IF k = Len(e) THEN 0 ELSE (buf[k + 1] % Base) + Base * f[k + 1]
        BY <2>0 DEF Groups
    <2>3. Len(e) \in 0 .. Len(buf) /\ 0 \in Nat /\ 0 + Len(e) = Len(e)
        BY <1>4, <2>1
    <2>4. \A i \in 1 .. Len(e) : buf[0 + i] = e[i]
        <3>1. \A i \in 1 .. Len(e) : i \in 1 .. Len(buf) /\ 0 + i = i
            BY <1>4, <2>1
        <3> QED
            BY <1>3, <3>1
    <2>5. \A m, o \in Nat :
               /\ o + Len(EncodeVarInt[m]) = Len(e)
               /\ \A i \in 1 .. Len(EncodeVarInt[m]) : buf[o + i] = EncodeVarInt[m][i]
               => f[o] = m
        BY <2>2, <2>3, GroupsOf
    <2>6. f[0] = n
        BY <2>3, <2>4, <2>5 DEF e
    <2> QED
        BY <2>1, <2>2, <2>6
<1> QED
    BY <1>5, <1>6, <1>7 DEF e

-----------------------------------------------------------------------------
(* Frames.                                                                 *)

LEMMA Regroup ==
    ASSUME NEW s \in Seq(Byte), NEW t \in Seq(Byte), NEW u \in Seq(Byte)
    PROVE  (s \o t) \o u = s \o (t \o u)
BY ConcatAssociative

LEMMA RegroupAll ==
    \A s, t, u \in Seq(Byte) : (s \o t) \o u = s \o (t \o u)
BY Regroup

\* What is cut off a and in front of b.
CutOff(a, b, x, y) ==
    /\ Take(a, Len(x)) = x /\ Drop(a, Len(x)) \in Seq(Byte)
    /\ Drop(a, Len(x)) \o b = y /\ a = x \o Drop(a, Len(x))

LEMMA Cut ==
    ASSUME NEW a \in Seq(Byte), NEW b \in Seq(Byte), NEW x \in Seq(Byte), NEW y \in Seq(Byte),
           a \o b = x \o y, Len(x) <= Len(a)
    PROVE  CutOff(a, b, x, y)
<1> DEFINE d == SubSeq(a, Len(x) + 1, Len(a))
<1>1. d \in Seq(Byte) /\ Len(d) = Len(a) - Len(x) /\ \A i \in 1 .. Len(d) : d[i] = a[Len(x) + i]
    OBVIOUS
<1>2. \A i \in 1 .. Len(x) : a[i] = x[i]
    BY SamePrefix
<1>3. SubSeq(a, 1, Len(x)) = x
    BY <1>2
<1>4. a = x \o d
    BY <1>1, <1>2
<1> HIDE DEF d
<1>5. x \o (d \o b) = x \o y
    <2>1. (x \o d) \o b = x \o (d \o b)
        BY <1>1, RegroupAll, Zenon
    <2> QED
        BY <1>4, <2>1
<1>6. d \o b = y
    <2>1. d \o b \in Seq(Byte)
        BY <1>1
    <2> QED
        BY <1>5, <2>1, ConcatSimplifications
<1> QED
    BY <1>1, <1>3, <1>4, <1>6 DEF CutOff, Take, Drop, d

LEMMA EncodeTyped ==
    ASSUME NEW payload \in Seq(Byte)
    PROVE  /\ Encode(payload) \in Seq(Byte)
           /\ Len(Encode(payload)) = Len(EncodeVarInt[Len(payload)]) + Len(payload)
           /\ Len(EncodeVarInt[Len(payload)]) \in Nat \ {0}
           /\ Len(Encode(payload)) > 0
<1> DEFINE e == EncodeVarInt[Len(payload)]
<1>1. Len(payload) \in Nat
    OBVIOUS
<1>2. e \in Seq(Byte) /\ Len(e) >= 1
    BY <1>1, EncodeVarIntDef, EncodedShape
<1> HIDE DEF e
<1>3. e \o payload \in Seq(Byte) /\ Len(e \o payload) = Len(e) + Len(payload) /\ Len(e) \in Nat \ {0}
    BY <1>2
<1>4. Len(e \o payload) > 0
    BY <1>1, <1>3
<1> QED
    BY <1>3, <1>4 DEF Encode, e

\* The length of a frame is what its bytes begin with.
LEMMA LengthFirst ==
    ASSUME NEW payload \in Seq(Byte), NEW rest \in Seq(Byte)
    PROVE  /\ Encode(payload) \o rest = EncodeVarInt[Len(payload)] \o (payload \o rest)
           /\ payload \o rest \in Seq(Byte)
<1> DEFINE e == EncodeVarInt[Len(payload)]
<1>1. Len(payload) \in Nat
    OBVIOUS
<1>2. e \in Seq(Byte)
    BY <1>1, EncodeVarIntDef, EncodeTyped
<1>3. Encode(payload) = e \o payload
    BY DEF Encode
<1>4. payload \o rest \in Seq(Byte)
    BY ConcatProperties
<1> HIDE DEF e
<1>5. (e \o payload) \o rest = e \o (payload \o rest)
    BY <1>2, Regroup, Zenon
<1> QED
    BY <1>3, <1>4, <1>5, Zenon DEF e

\* The first frame of the stream and what follows it.
FirstOff(buf, payload, wire, rest) ==
    /\ Payload(Take(buf, FrameLen(buf))) = payload
    /\ Take(buf, FrameLen(buf)) = Encode(payload)
    /\ Drop(buf, FrameLen(buf)) \in Seq(Byte)
    /\ Drop(buf, FrameLen(buf)) \o wire = rest
    /\ buf = Encode(payload) \o Drop(buf, FrameLen(buf))

\* read_packet takes the first frame of the stream off its buffer once all of
\* the frame is in it, and sees no frame there before (proto/packet.rs).
THEOREM FirstFrame ==
    ASSUME NEW payload \in Seq(Byte),
           NEW buf \in Seq(Byte), NEW wire \in Seq(Byte), NEW rest \in Seq(Byte),
           buf \o wire = Encode(payload) \o rest, ~Incomplete(buf), ~BadLength(buf)
    PROVE  FirstOff(buf, payload, wire, rest)
<1> DEFINE e == EncodeVarInt[Len(payload)]
<1>1. Len(payload) \in Nat
    OBVIOUS
<1>2. e \in Seq(Byte) /\ Len(e) \in Nat \ {0}
    BY <1>1, EncodeVarIntDef, EncodeTyped
<1>3. Encode(payload) = e \o payload
    BY DEF Encode
<1>4. buf \o wire = e \o (payload \o rest) /\ payload \o rest \in Seq(Byte)
    BY LengthFirst, Zenon
<1>5. HasVarInt(buf)
    <2>1. Len(buf) \in Nat
        OBVIOUS
    <2> QED
        BY <2>1 DEF Incomplete, BadLength
<1>6. VarIntLen(buf) = Len(e) /\ VarIntVal(buf) = Len(payload)
    BY <1>1, <1>4, <1>5, ReadBack
<1>7. FrameLen(buf) = Len(Encode(payload)) /\ FrameLen(buf) = Len(e) + Len(payload)
    BY <1>6, EncodeTyped DEF FrameLen
<1>8. Len(Encode(payload)) <= Len(buf)
    <2>1. Len(buf) \in Nat /\ ~(Len(buf) < FrameLen(buf))
        BY <1>5 DEF Incomplete
    <2> QED
        BY <1>1, <1>2, <1>7, <2>1
<1>9. /\ Take(buf, FrameLen(buf)) = Encode(payload)
      /\ Drop(buf, FrameLen(buf)) \in Seq(Byte) /\ Drop(buf, FrameLen(buf)) \o wire = rest
      /\ buf = Encode(payload) \o Drop(buf, FrameLen(buf))
    <2> DEFINE x == Encode(payload)
    <2>1. x \in Seq(Byte) /\ buf \o wire = x \o rest /\ Len(x) <= Len(buf)
        BY <1>8, EncodeTyped
    <2> HIDE DEF x
    <2>2. CutOff(buf, wire, x, rest)
        BY <2>1, Cut
    <2> QED
        BY <1>7, <2>2 DEF x, CutOff
<1>10. Payload(Encode(payload)) = payload
    <2>1. <<>> \in Seq(Byte) /\ (e \o payload) \o <<>> = e \o payload
        BY <1>2
    <2>2. e \o payload \in Seq(Byte)
        BY <1>2
    <2>3. Len(e) <= 5 /\ Len(e) <= Len(e \o payload)
        <3>1. Len(e) <= 5
            BY <1>1, <1>4, <1>5, ReadBack
        <3>2. Len(e \o payload) = Len(e) + Len(payload)
            BY <1>2
        <3> QED
            BY <1>1, <1>2, <3>1, <3>2
    <2>4. HasVarInt(e \o payload) /\ VarIntLen(e \o payload) = Len(e)
        BY <1>1, <2>1, <2>2, <2>3, ReadBack
    <2>5. SubSeq(e \o payload, Len(e) + 1, Len(e \o payload)) = payload
        <3> HIDE DEF e
        <3> QED
            BY <1>2
    <2> QED
        BY <1>3, <2>4, <2>5 DEF Payload, Drop
<1> QED
    BY <1>9, <1>10 DEF FirstOff

\* read_packet calls a well-formed frame malformed exactly when it has seen two
\* bytes of it and not yet its whole length, and waits for more exactly when it
\* has not seen two bytes, or has the length and not the whole frame.
THEOREM WhatReadPacketSees ==
    ASSUME NEW payload \in Seq(Byte),
           NEW buf \in Seq(Byte), NEW wire \in Seq(Byte), NEW rest \in Seq(Byte),
           buf \o wire = Encode(payload) \o rest, Len(EncodeVarInt[Len(payload)]) <= 5
    PROVE  /\ BadLength(buf) <=> Len(buf) \in 2 .. Len(EncodeVarInt[Len(payload)]) - 1
           /\ Incomplete(buf) <=>
                \/ Len(buf) < 2
                \/ Len(buf) \in Len(EncodeVarInt[Len(payload)]) .. Len(Encode(payload)) - 1
<1> DEFINE e == EncodeVarInt[Len(payload)]
<1>1. Len(payload) \in Nat /\ Len(buf) \in Nat
    OBVIOUS
<1>2. e \in Seq(Byte) /\ Len(e) \in Nat \ {0}
    BY <1>1, EncodeVarIntDef, EncodeTyped
<1>3. Encode(payload) = e \o payload
    BY DEF Encode
<1>4. Len(Encode(payload)) = Len(e) + Len(payload)
    <2> HIDE DEF e
    <2> QED
        BY <1>2, <1>3
<1>5. buf \o wire = e \o (payload \o rest) /\ payload \o rest \in Seq(Byte)
    BY LengthFirst, Zenon
<1>6. /\ HasVarInt(buf) <=> Len(e) <= 5 /\ Len(e) <= Len(buf)
      /\ HasVarInt(buf) => VarIntLen(buf) = Len(e) /\ VarIntVal(buf) = Len(payload)
    BY <1>1, <1>5, ReadBack
<1>7. Len(e) <= 5
    OBVIOUS
<1> HIDE DEF e
<1>8. HasVarInt(buf) <=> Len(e) <= Len(buf)
    BY <1>6, <1>7, Zenon
<1>9. HasVarInt(buf) => FrameLen(buf) = Len(Encode(payload))
    BY <1>4, <1>6, Zenon DEF FrameLen
<1>10. BadLength(buf) <=> Len(buf) \in 2 .. Len(e) - 1
    BY <1>1, <1>2, <1>8 DEF BadLength
<1>11. Incomplete(buf) <=> Len(buf) < 2 \/ Len(buf) \in Len(e) .. Len(Encode(payload)) - 1
    <2>1. Incomplete(buf) <=>
              Len(buf) < 2 \/ (Len(e) <= Len(buf) /\ Len(buf) < Len(Encode(payload)))
        BY <1>8, <1>9, Zenon DEF Incomplete
    <2>2. Len(Encode(payload)) \in Nat
        BY <1>1, <1>2, <1>4
    <2> QED
        BY <1>1, <1>2, <2>1, <2>2
<1> QED
    BY <1>10, <1>11 DEF e

\* With nothing more to come, read_packet waits at the end of the stream, or on
\* the one frame without a payload that is shorter than any packet.
LEMMA NothingLeft ==
    ASSUME NEW payload \in Seq(Byte), NEW rest \in Seq(Byte), NEW buf \in Seq(Byte),
           buf = Encode(payload) \o rest, Incomplete(buf)
    PROVE  payload = <<>> /\ rest = <<>>
<1> DEFINE e == EncodeVarInt[Len(payload)]
<1>1. Len(payload) \in Nat /\ Len(rest) \in Nat
    OBVIOUS
<1>2. e \in Seq(Byte) /\ Len(e) \in Nat \ {0}
    BY <1>1, EncodeVarIntDef, EncodeTyped
<1>3. Encode(payload) = e \o payload
    BY DEF Encode
<1>4. /\ buf \o <<>> = e \o (payload \o rest) /\ payload \o rest \in Seq(Byte)
      /\ Len(buf) = Len(e) + Len(payload) + Len(rest)
    <2> HIDE DEF e
    <2> QED
        BY <1>2, <1>3
<1>5. ASSUME HasVarInt(buf) PROVE FrameLen(buf) <= Len(buf)
    <2>1. <<>> \in Seq(Byte)
        OBVIOUS
    <2>2. VarIntLen(buf) = Len(e) /\ VarIntVal(buf) = Len(payload)
        BY <1>1, <1>4, <1>5, <2>1, ReadBack
    <2> QED
        BY <1>1, <1>2, <1>4, <2>2 DEF FrameLen
<1>6. FrameLen(buf) <= Len(buf) => ~(Len(buf) < FrameLen(buf)) \/ FrameLen(buf) \notin Int
    OBVIOUS
<1>7. Len(buf) < 2
    <2>1. ASSUME HasVarInt(buf) PROVE FrameLen(buf) \in Int
        <3>1. <<>> \in Seq(Byte)
            OBVIOUS
        <3>2. VarIntLen(buf) = Len(e) /\ VarIntVal(buf) = Len(payload)
            BY <1>1, <1>4, <2>1, <3>1, ReadBack
        <3> QED
            BY <1>1, <1>2, <3>2 DEF FrameLen
    <2> QED
        BY <1>5, <1>6, <2>1 DEF Incomplete
<1>8. Len(payload) = 0 /\ Len(rest) = 0
    <2> HIDE DEF e
    <2> QED
        BY <1>1, <1>2, <1>4, <1>7
<1> QED
    BY <1>8

-----------------------------------------------------------------------------
(* Streams.                                                                *)

\* The bytes behind the first n frames are a frame and the bytes behind that.
LEMMA EncodeFromDef ==
    ASSUME NEW payloads \in Seq(Seq(Byte))
    PROVE  /\ \A n \in 0 .. Len(payloads) : EncodeFrom(payloads)[n] \in Seq(Byte)
           /\ EncodeFrom(payloads)[Len(payloads)] = <<>>
           /\ \A n \in 0 .. Len(payloads) - 1 :
                 EncodeFrom(payloads)[n] = Encode(payloads[n + 1]) \o EncodeFrom(payloads)[n + 1]
<1> DEFINE N == Len(payloads)
<1> DEFINE Def(f) ==
        [n \in 0 .. N |-> IF n = N THEN <<>> ELSE Encode(payloads[n + 1]) \o f[n + 1]]
<1> DEFINE frame == [n \in 0 .. N |-> IF n = N THEN <<>> ELSE Encode(payloads[n + 1])]
<1> DEFINE step == [n \in 0 .. N |-> [v \in Seq(Byte) |-> frame[n] \o v]]
<1>1. N \in Nat /\ <<>> \in Seq(Byte)
    OBVIOUS
<1>2. EncodeFrom(payloads) = CHOOSE f : f = Def(f)
    BY DEF EncodeFrom
<1>3. \A n \in 0 .. N : n # N => payloads[n + 1] \in Seq(Byte)
    OBVIOUS
<1> HIDE DEF N
<1>4. frame \in [0 .. N -> Seq(Byte)]
    <2>1. \A n \in 0 .. N : n # N => Encode(payloads[n + 1]) \in Seq(Byte)
        BY <1>3, EncodeTyped
    <2> QED
        BY <1>1, <2>1
<1>5. step \in [0 .. N -> [Seq(Byte) -> Seq(Byte)]]
    <2>1. \A a, v \in Seq(Byte) : a \o v \in Seq(Byte)
        OBVIOUS
    <2> HIDE DEF frame
    <2> QED
        BY <1>4, <2>1
<1>6. PICK f : Descending(f, Seq(Byte), N, <<>>, step)
    <2> HIDE DEF step
    <2> QED
        BY <1>1, <1>5, DownRecursion, Zenon
<1>7. f = Def(f)
    <2>1. ASSUME NEW n \in 0 .. N, n # N
          PROVE  step[n][f[n + 1]] = Encode(payloads[n + 1]) \o f[n + 1]
        <3>1. n + 1 \in 0 .. N
            BY <1>1, <2>1
        <3>2. f \in [0 .. N -> Seq(Byte)]
            BY <1>6 DEF Descending
        <3>3. f[n + 1] \in Seq(Byte)
            BY <3>1, <3>2
        <3>4. step[n][f[n + 1]] = frame[n] \o f[n + 1]
            <4> HIDE DEF frame
            <4> QED
                BY <3>3
        <3>5. frame[n] = Encode(payloads[n + 1])
            BY <2>1
        <3> QED
            BY <3>4, <3>5
    <2> HIDE DEF step
    <2> QED
        BY <1>6, <2>1 DEF Descending
<1> DEFINE c == CHOOSE h : h = Def(h)
<1>8. c = Def(c)
    <2> HIDE DEF Def
    <2> QED
        BY <1>7
<1> HIDE DEF c
<1>9. \A n \in 0 .. N : c[n] = IF n = N THEN <<>> ELSE Encode(payloads[n + 1]) \o c[n + 1]
    <2>1. \A n \in 0 .. N : c[n] = Def(c)[n]
        BY <1>8, Zenon
    <2> QED
        BY <2>1
<1>10. \A n \in 0 .. N : c[n] \in Seq(Byte)
    <2> DEFINE T == {n \in 0 .. N : c[n] \in Seq(Byte)}
    <2>1. N \in T
        <3>1. N \in 0 .. N
            BY <1>1
        <3>2. c[N] = <<>>
            BY <1>9, <3>1
        <3> QED
            BY <1>1, <3>1, <3>2
    <2>2. ASSUME NEW n \in 0 .. N - 1, n + 1 \in T PROVE n \in T
        <3>1. n \in 0 .. N /\ n # N
            BY <1>1
        <3>2. c[n] = Encode(payloads[n + 1]) \o c[n + 1]
            BY <1>9, <3>1
        <3>3. Encode(payloads[n + 1]) \in Seq(Byte) /\ c[n + 1] \in Seq(Byte)
            BY <1>3, <2>2, <3>1, EncodeTyped
        <3>4. Encode(payloads[n + 1]) \o c[n + 1] \in Seq(Byte)
            BY <3>3
        <3> QED
            BY <3>1, <3>2, <3>4
    <2>3. 0 .. N \subseteq T
        <3> HIDE DEF T
        <3> QED
            BY <1>1, <2>1, <2>2, DownTo0
    <2> QED
        BY <2>3
<1>11. EncodeFrom(payloads) = c
    BY <1>2 DEF c
<1> QED
    <2> HIDE DEF Def, frame, step
    <2>1. \A n \in 0 .. N - 1 : n \in 0 .. N /\ n # N
        BY <1>1
    <2>2. N \in 0 .. N
        BY <1>1
    <2> QED
        BY <1>9, <1>10, <1>11, <2>1, <2>2 DEF N
=============================================================================
