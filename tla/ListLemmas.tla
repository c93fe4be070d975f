------------------------------ MODULE ListLemmas ------------------------------
(***************************************************************************)
(* Induction over the natural numbers and what it gives for the recursive  *)
(* definitions and the operators on lists that the models use.             *)
(*                                                                         *)
(* The induction theorems of the library take a property as an operator,   *)
(* which cannot be instantiated here.  A set can: EveryNatural is induction*)
(* for the set of the numbers with the property, from the theorem of the   *)
(* library that a well-founded relation has minimal elements in any set.   *)
(***************************************************************************)
EXTENDS Integers, Sequences, SequencesExt, WellFoundedInduction, TLAPS

-----------------------------------------------------------------------------
(* Natural numbers *)

\* A set of numbers has a least one.
LEMMA LeastNatural ==
    ASSUME NEW T \in SUBSET Nat, T # {}
    PROVE  \E m \in T : \A k \in T : m <= k
<1>1. PICK m \in T : \A k \in T : ~ (<<k, m>> \in OpToRel(<, Nat))
    BY NatLessThanWellFounded, WFMin
<1>2. \A k \in T : ~ (k < m)
    BY <1>1 DEF OpToRel
<1>. QED  BY <1>2

\* A set that has 0, and with each number the next one, has them all.
LEMMA EveryNatural ==
    ASSUME NEW S, 0 \in S, \A n \in Nat : n \in S => n + 1 \in S
    PROVE  Nat \subseteq S
<1> SUFFICES ASSUME Nat \ S # {} PROVE FALSE
    OBVIOUS
<1>1. PICK m \in Nat \ S : \A k \in Nat \ S : m <= k
    BY LeastNatural
<1>2. m - 1 \in Nat /\ m - 1 \in S
    BY <1>1
<1>. QED  BY <1>1, <1>2

\* The smallest element of a set of numbers is one.
LEMMA MinIsLeast ==
    ASSUME NEW I \in SUBSET Nat, I # {}
    PROVE  Min(I) \in I /\ \A k \in I : Min(I) <= k
BY LeastNatural DEF Min

-----------------------------------------------------------------------------
(* Iteration *)

\* f[n] is what n steps of h make of x.
Iterates(f, h, x) == f = [n \in Nat |-> IF n = 0 THEN x ELSE h[f[n - 1]]]

\* The first m steps of h from x.
Steps(g, h, x, m) == g[0] = x /\ \A i \in 1 .. m : g[i] = h[g[i - 1]]

\* There are as many steps as one likes.
LEMMA StepsExist ==
    ASSUME NEW S, NEW h \in [S -> S], NEW x \in S, NEW m \in Nat
    PROVE  \E g \in [0 .. m -> S] : Steps(g, h, x, m)
<1> DEFINE T == {n \in Nat : \E g \in [0 .. n -> S] : Steps(g, h, x, n)}
<1>1. 0 \in T
    <2>1. [i \in 0 .. 0 |-> x] \in [0 .. 0 -> S]
        OBVIOUS
    <2>2. Steps([i \in 0 .. 0 |-> x], h, x, 0)
        BY DEF Steps
    <2>. QED  BY <2>1, <2>2
<1>2. ASSUME NEW n \in Nat, n \in T PROVE n + 1 \in T
    <2>1. PICK g \in [0 .. n -> S] : Steps(g, h, x, n)
        BY <1>2
    <2> DEFINE then == [i \in 0 .. n + 1 |-> IF i = n + 1 THEN h[g[n]] ELSE g[i]]
    <2>2. then \in [0 .. n + 1 -> S]
        OBVIOUS
    <2>3. then[n + 1] = h[g[n]] /\ \A i \in 0 .. n : then[i] = g[i]
        OBVIOUS
    <2> HIDE DEF then
    <2>4. Steps(then, h, x, n + 1)
        <3>1. then[0] = x
            BY <2>1, <2>3 DEF Steps
        <3>2. ASSUME NEW i \in 1 .. n + 1 PROVE then[i] = h[then[i - 1]]
            <4>1. CASE i = n + 1
                BY <2>3, <4>1
            <4>2. CASE i \in 1 .. n
                <5>1. i - 1 \in 0 .. n /\ i \in 0 .. n
                    BY <4>2
                <5>. QED  BY <2>1, <2>3, <4>2, <5>1 DEF Steps
            <4>. QED  BY <4>1, <4>2
        <3>. QED  BY <3>1, <3>2 DEF Steps
    <2>. QED  BY <2>2, <2>4
<1> HIDE DEF T
<1>3. m \in T
    BY <1>1, <1>2, EveryNatural
<1>. QED  BY <1>3 DEF T

\* The function that a recursive definition by h chooses is one that goes on as h does.
LEMMA IterationExists ==
    ASSUME NEW S, NEW h \in [S -> S], NEW x \in S
    PROVE  \E f \in [Nat -> S] : Iterates(f, h, x)
<1> DEFINE G == [m \in Nat |-> CHOOSE g \in [0 .. m -> S] : Steps(g, h, x, m)]
           f == [n \in Nat |-> G[n][n]]
<1>1. ASSUME NEW m \in Nat
      PROVE  /\ G[m] \in [0 .. m -> S] /\ G[m][0] = x
             /\ \A i \in 1 .. m : G[m][i] = h[G[m][i - 1]]
    <2>1. G[m] \in [0 .. m -> S] /\ Steps(G[m], h, x, m)
        BY StepsExist
    <2>. QED  BY <2>1 DEF Steps
<1> HIDE DEF G
<1> DEFINE T == {m \in Nat : \A k \in Nat : k >= m => G[k][m] = G[m][m]}
<1>2. 0 \in T
    BY <1>1
<1>3. ASSUME NEW m \in Nat, m \in T PROVE m + 1 \in T
    <2> SUFFICES ASSUME NEW k \in Nat, k >= m + 1
                 PROVE  G[k][m + 1] = G[m + 1][m + 1]
        OBVIOUS
    <2>1. G[k][m] = G[m][m] /\ G[m + 1][m] = G[m][m]
        BY <1>3
    <2>2. m + 1 \in 1 .. k /\ m + 1 \in 1 .. m + 1 /\ (m + 1) - 1 = m
        OBVIOUS
    <2>3. G[k][m + 1] = h[G[k][m]] /\ G[m + 1][m + 1] = h[G[m + 1][m]]
        BY <1>1, <2>2
    <2>. QED  BY <2>1, <2>3
<1> HIDE DEF T
<1>4. Nat \subseteq T
    BY <1>2, <1>3, EveryNatural
<1>5. f \in [Nat -> S]
    BY <1>1
<1>6. ASSUME NEW n \in Nat, n # 0 PROVE f[n] = h[f[n - 1]]
    <2>1. n - 1 \in Nat /\ n \in 1 .. n
        BY <1>6
    <2>2. G[n][n - 1] = G[n - 1][n - 1]
        BY <1>4, <2>1 DEF T
    <2>. QED  BY <1>1, <2>1, <2>2
<1>7. f[0] = x
    BY <1>1
<1>8. f = [n \in Nat |-> f[n]]
    OBVIOUS
<1> HIDE DEF f
<1>9. f = [n \in Nat |-> IF n = 0 THEN x ELSE h[f[n - 1]]]
    BY <1>6, <1>7, <1>8
<1>. QED  BY <1>5, <1>9 DEF Iterates

-----------------------------------------------------------------------------
(* FlattenSeq *)

\* What the function that FlattenSeq chooses satisfies: f[i] is the concatenation of
\* the first i of the sequences.
Flattens(f, seqs, n) ==
    f = [i \in 1 .. n |-> IF i = 1 THEN seqs[i] ELSE f[i - 1] \o seqs[i]]

\* There is one, for any number of sequences.
LEMMA FlattensExists ==
    ASSUME NEW seqs, NEW n \in Nat
    PROVE  \E f : Flattens(f, seqs, n)
<1> DEFINE S == {m \in Nat : \E f : Flattens(f, seqs, m)}
<1>1. 0 \in S
    <2>1. Flattens([i \in 1 .. 0 |-> 0], seqs, 0)
        BY DEF Flattens
    <2>. QED  BY <2>1
<1>2. ASSUME NEW m \in Nat, m \in S PROVE m + 1 \in S
    <2>1. PICK f : Flattens(f, seqs, m)
        BY <1>2
    <2> DEFINE g == [i \in 1 .. (m + 1) |->
                        IF i <= m THEN f[i]
                        ELSE IF m = 0 THEN seqs[1] ELSE f[m] \o seqs[m + 1]]
    <2>2. \A i \in 1 .. m : f[i] = IF i = 1 THEN seqs[i] ELSE f[i - 1] \o seqs[i]
        BY <2>1 DEF Flattens
    <2>3. ASSUME NEW i \in 1 .. (m + 1)
          PROVE  g[i] = IF i = 1 THEN seqs[i] ELSE g[i - 1] \o seqs[i]
        <3>1. CASE i <= m
            BY <2>2, <3>1
        <3>2. CASE i = m + 1
            BY <2>2, <3>2
        <3>. QED  BY <3>1, <3>2
    <2>4. Flattens(g, seqs, m + 1)
        <3>. HIDE DEF g
        <3>1. DOMAIN g = 1 .. (m + 1) /\ g = [i \in DOMAIN g |-> g[i]]
            BY DEF g
        <3>. QED  BY <2>3, <3>1 DEF Flattens
    <2>. QED  BY <2>4
<1>3. Nat \subseteq S
    <2>. HIDE DEF S
    <2>. QED  BY <1>1, <1>2, EveryNatural
<1>. QED  BY <1>3

\* The concatenation of some sequences is the last value of such a function.
LEMMA FlattenSeqUnfolds ==
    ASSUME NEW seqs, Len(seqs) \in Nat \ {0}
    PROVE  \E f : Flattens(f, seqs, Len(seqs)) /\ FlattenSeq(seqs) = f[Len(seqs)]
<1> DEFINE flatten == CHOOSE f : Flattens(f, seqs, Len(seqs))
<1>1. Flattens(flatten, seqs, Len(seqs))
    BY FlattensExists
<1>2. FlattenSeq(seqs) = flatten[Len(seqs)]
    BY DEF FlattenSeq, Flattens
<1>. QED  BY <1>1, <1>2

\* The concatenation of sequences over T is one.
LEMMA FlattenSeqType ==
    ASSUME NEW T, NEW seqs \in Seq(Seq(T))
    PROVE  FlattenSeq(seqs) \in Seq(T)
<1>1. CASE Len(seqs) = 0
    <2>1. FlattenSeq(seqs) = seqs /\ seqs = <<>>
        BY <1>1 DEF FlattenSeq
    <2>. QED  BY <2>1
<1>2. CASE Len(seqs) # 0
    <2>1. PICK f : Flattens(f, seqs, Len(seqs)) /\ FlattenSeq(seqs) = f[Len(seqs)]
        BY <1>2, FlattenSeqUnfolds
    <2>2. \A i \in 1 .. Len(seqs) : f[i] = IF i = 1 THEN seqs[i] ELSE f[i - 1] \o seqs[i]
        BY <2>1 DEF Flattens
    <2> DEFINE S == {n \in Nat : n \in 1 .. Len(seqs) => f[n] \in Seq(T)}
    <2>3. 0 \in S
        OBVIOUS
    <2>4. ASSUME NEW n \in Nat, n \in S PROVE n + 1 \in S
        <3>1. ASSUME n + 1 \in 1 .. Len(seqs) PROVE f[n + 1] \in Seq(T)
            <4>1. f[n + 1] = IF n + 1 = 1 THEN seqs[n + 1] ELSE f[n] \o seqs[n + 1]
                BY <2>2, <3>1
            <4>2. seqs[n + 1] \in Seq(T) /\ (n # 0 => f[n] \in Seq(T))
                BY <2>4, <3>1
            <4>. QED  BY <4>1, <4>2
        <3>. QED  BY <3>1
    <2>5. Nat \subseteq S
        <3>. HIDE DEF S
        <3>. QED  BY <2>3, <2>4, EveryNatural
    <2>. QED  BY <1>2, <2>1, <2>5
<1>. QED  BY <1>1, <1>2

\* A sequence is the concatenation of its elements.
LEMMA FlattenSeqOfOnes ==
    ASSUME NEW T, NEW s \in Seq(T), NEW seqs \in Seq(Seq(T)),
           Len(seqs) = Len(s), \A i \in 1 .. Len(s) : seqs[i] = <<s[i]>>
    PROVE  FlattenSeq(seqs) = s
<1>1. CASE Len(seqs) = 0
    <2>1. seqs = <<>>
        BY <1>1
    <2>2. Len(s) = 0
        BY <1>1
    <2>3. s = <<>>
        BY <2>2
    <2>4. FlattenSeq(seqs) = seqs
        BY <1>1 DEF FlattenSeq
    <2>. QED  BY <2>1, <2>3, <2>4
<1>2. CASE Len(seqs) # 0
    <2>1. PICK f : Flattens(f, seqs, Len(seqs)) /\ FlattenSeq(seqs) = f[Len(seqs)]
        BY <1>2, FlattenSeqUnfolds
    <2>2. \A i \in 1 .. Len(seqs) : f[i] = IF i = 1 THEN seqs[i] ELSE f[i - 1] \o seqs[i]
        BY <2>1 DEF Flattens
    <2> DEFINE S == {n \in Nat : n \in 1 .. Len(seqs) => f[n] = SubSeq(s, 1, n)}
    <2>3. 0 \in S
        OBVIOUS
    <2>4. ASSUME NEW n \in Nat, n \in S PROVE n + 1 \in S
        <3>1. ASSUME n + 1 \in 1 .. Len(seqs) PROVE f[n + 1] = SubSeq(s, 1, n + 1)
            <4>1. f[n + 1] = IF n + 1 = 1 THEN seqs[n + 1] ELSE f[n] \o seqs[n + 1]
                BY <2>2, <3>1
            <4>2. seqs[n + 1] = <<s[n + 1]>> /\ (n # 0 => f[n] = SubSeq(s, 1, n))
                BY <2>4, <3>1
            <4>3. CASE n = 0
                BY <3>1, <4>1, <4>2, <4>3
            <4>4. CASE n # 0
                BY <3>1, <4>1, <4>2, <4>4
            <4>. QED  BY <4>3, <4>4
        <3>. QED  BY <3>1
    <2>5. Nat \subseteq S
        <3>. HIDE DEF S
        <3>. QED  BY <2>3, <2>4, EveryNatural
    <2>6. Len(seqs) \in Nat /\ Len(seqs) \in 1 .. Len(seqs)
        BY <1>2
    <2>7. f[Len(seqs)] = SubSeq(s, 1, Len(s))
        BY <2>5, <2>6
    <2>8. SubSeq(s, 1, Len(s)) = s
        OBVIOUS
    <2>. QED  BY <2>1, <2>7, <2>8
<1>. QED  BY <1>1, <1>2
=============================================================================
