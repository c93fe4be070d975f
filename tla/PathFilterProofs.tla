---------------------------- MODULE PathFilterProofs ----------------------------
(***************************************************************************)
(* Proofs about PathFilter.Match, for masks and paths of any length and    *)
(* any names.                                                              *)
(***************************************************************************)
EXTENDS PathFilter, TLAPS

-----------------------------------------------------------------------------
(* Types *)

LEMMA InitTyped == Init => TypeOK
<1> SUFFICES ASSUME Init PROVE TypeOK
    OBVIOUS
<1>1. ASSUME NEW S, NEW n \in Nat, NEW s \in Strings(S, n)
      PROVE  s \in Seq(S) /\ Len(s) \in 1 .. n
    <2>1. PICK k \in 1 .. n : s \in [1 .. k -> S]
        BY DEF Strings
    <2>. QED  BY <2>1
<1>2. /\ mask \in Seq(Names \cup {Star}) /\ path \in Seq(Names)
      /\ Len(mask) \in 1 .. MaxMask /\ Len(path) \in 1 .. MaxPath
    BY <1>1, PathFilterAssumption DEF Init
<1>. QED  BY <1>2 DEF Init, TypeOK

LEMMA NextTyped == TypeOK /\ [Next]_vars => TypeOK'
<1> SUFFICES ASSUME TypeOK, [Next]_vars PROVE TypeOK'
    OBVIOUS
<1>1. /\ mask \in Seq(Names \cup {Star}) /\ path \in Seq(Names)
      /\ mask' = mask /\ path' = path /\ Len(mask) \in Nat /\ Len(path) \in Nat
    BY DEF TypeOK, Next, Mismatch, StayInStar, Advance, Finish, vars
<1>2. /\ maskIndex' \in 1 .. Len(mask) + 1 /\ pathIndex' \in 1 .. Len(path) + 1
      /\ result' \in {"running", "true", "false"}
    BY <1>1 DEF TypeOK, Next, InLoop, Mismatch, StayInStar, Advance, Finish, vars
<1>. QED  BY <1>1, <1>2 DEF TypeOK

-----------------------------------------------------------------------------
(* What is accepted has its places *)

\* The loop keeps the places of what has been accepted, one more with each Advance.
LEMMA AdvanceSound ==
    ASSUME TypeOK, SoundSoFar, Advance
    PROVE  SoundSoFar'
<1>1. /\ maskIndex \in 1 .. Len(mask) /\ pathIndex \in 1 .. Len(path)
      /\ Len(mask) \in Nat /\ Len(path) \in Nat
      /\ maskIndex' = maskIndex + 1 /\ pathIndex' = pathIndex + 1
      /\ mask' = mask /\ path' = path /\ result = "running" /\ Fits
    BY DEF Advance, InLoop, TypeOK
<1>2. PICK at \in [1 .. maskIndex -> 1 .. Len(path) + 1] :
          /\ at[1] = 1 /\ at[maskIndex] <= pathIndex
          /\ maskIndex <= Len(mask) /\ mask[maskIndex] # Star => at[maskIndex] = pathIndex
          /\ \A i \in 1 .. maskIndex - 1 :
                /\ at[i] <= Len(path) /\ mask[i] \in {path[at[i]], Star}
                /\ IF mask[i] = Star THEN at[i + 1] > at[i] ELSE at[i + 1] = at[i] + 1
    BY <1>1 DEF SoundSoFar
<1> DEFINE then == [i \in 1 .. maskIndex + 1 |->
                       IF i = maskIndex + 1 THEN pathIndex + 1 ELSE at[i]]
<1>3. then \in [1 .. maskIndex + 1 -> 1 .. Len(path) + 1]
    BY <1>1
<1>4. then[maskIndex + 1] = pathIndex + 1 /\ \A i \in 1 .. maskIndex : then[i] = at[i]
    BY <1>1
<1> HIDE DEF then
<1>5. then[1] = 1
    BY <1>1, <1>2, <1>4
<1>6. ASSUME NEW i \in 1 .. maskIndex
      PROVE  /\ then[i] <= Len(path) /\ mask[i] \in {path[then[i]], Star}
             /\ IF mask[i] = Star THEN then[i + 1] > then[i] ELSE then[i + 1] = then[i] + 1
    <2>1. CASE i = maskIndex
        <3>1. at[i] \in 1 .. Len(path) + 1 /\ at[i] <= pathIndex
            BY <1>1, <1>2, <2>1
        <3>2. mask[i] \in {path[pathIndex], Star}
            BY <1>1, <2>1 DEF Fits
        <3>3. mask[i] # Star => at[i] = pathIndex
            BY <1>1, <1>2, <2>1
        <3>. QED  BY <1>1, <1>4, <2>1, <3>1, <3>2, <3>3
    <2>2. CASE i # maskIndex
        <3>1. i \in 1 .. maskIndex - 1 /\ i + 1 \in 1 .. maskIndex
            BY <1>1, <2>2
        <3>. QED  BY <1>2, <1>4, <3>1
    <2>. QED  BY <2>1, <2>2
<1>7. \E a \in [1 .. maskIndex' -> 1 .. Len(path') + 1] :
          /\ a[1] = 1 /\ a[maskIndex'] <= pathIndex'
          /\ maskIndex' <= Len(mask') /\ mask'[maskIndex'] # Star => a[maskIndex'] = pathIndex'
          /\ \A i \in 1 .. maskIndex' - 1 :
                /\ a[i] <= Len(path') /\ mask'[i] \in {path'[a[i]], Star}
                /\ IF mask'[i] = Star THEN a[i + 1] > a[i] ELSE a[i + 1] = a[i] + 1
    <2>1. maskIndex' - 1 = maskIndex /\ then[maskIndex'] = pathIndex'
        BY <1>1, <1>4
    <2>2. pathIndex' <= pathIndex'
        BY <1>1
    <2>. QED  BY <1>1, <1>3, <1>5, <1>6, <2>1, <2>2
<1>. QED  BY <1>7 DEF SoundSoFar

\* A star that goes on started where it started.
LEMMA StayInStarSound ==
    ASSUME TypeOK, SoundSoFar, StayInStar
    PROVE  SoundSoFar'
<1>1. /\ maskIndex \in Nat /\ pathIndex \in Nat
      /\ maskIndex' = maskIndex /\ pathIndex' = pathIndex + 1
      /\ mask' = mask /\ path' = path /\ result = "running" /\ mask[maskIndex] = Star
    BY DEF StayInStar, InLoop, TypeOK, StarGoesOn
<1>2. PICK at \in [1 .. maskIndex -> 1 .. Len(path) + 1] :
          /\ at[1] = 1 /\ at[maskIndex] <= pathIndex
          /\ maskIndex <= Len(mask) /\ mask[maskIndex] # Star => at[maskIndex] = pathIndex
          /\ \A i \in 1 .. maskIndex - 1 :
                /\ at[i] <= Len(path) /\ mask[i] \in {path[at[i]], Star}
                /\ IF mask[i] = Star THEN at[i + 1] > at[i] ELSE at[i + 1] = at[i] + 1
    BY <1>1 DEF SoundSoFar
<1>3. at[maskIndex] <= pathIndex'
    <2>1. at[maskIndex] \in Nat
        BY <1>1, <1>2 DEF TypeOK
    <2>. QED  BY <1>1, <1>2, <2>1
<1>. QED  BY <1>1, <1>2, <1>3 DEF SoundSoFar

\* If the mask is used up, the places of all of its elements are there.
LEMMA FinishSound ==
    ASSUME TypeOK, SoundSoFar, Finish
    PROVE  Sound'
<1> SUFFICES ASSUME result' = "true" PROVE Matches(mask, path)
    BY DEF Sound, Finish
<1>1. /\ result = "running" /\ maskIndex = Len(mask) + 1
      /\ Len(mask) \in Nat \ {0} /\ Len(path) \in Nat
    BY PathFilterAssumption DEF Finish, TypeOK
<1>2. PICK at \in [1 .. maskIndex -> 1 .. Len(path) + 1] :
          /\ at[1] = 1
          /\ \A i \in 1 .. maskIndex - 1 :
                /\ at[i] <= Len(path) /\ mask[i] \in {path[at[i]], Star}
                /\ IF mask[i] = Star THEN at[i + 1] > at[i] ELSE at[i + 1] = at[i] + 1
    BY <1>1 DEF SoundSoFar
<1> DEFINE all == [i \in 1 .. Len(mask) |-> at[i]]
<1>3. all \in [1 .. Len(mask) -> 1 .. Len(path)]
    BY <1>1, <1>2
<1>4. \A i \in 1 .. Len(mask) : all[i] = at[i]
    OBVIOUS
<1>5. all[1] = 1
    BY <1>1, <1>2
<1> HIDE DEF all
<1>6. ASSUME NEW i \in 1 .. Len(mask)
      PROVE  mask[i] \in {path[all[i]], Star}
    <2>1. i \in 1 .. maskIndex - 1
        BY <1>1
    <2>. QED  BY <1>2, <1>4, <2>1
<1>7. ASSUME NEW i \in 1 .. Len(mask) - 1
      PROVE  IF mask[i] = Star THEN all[i + 1] > all[i] ELSE all[i + 1] = all[i] + 1
    <2>1. i \in 1 .. maskIndex - 1 /\ i \in 1 .. Len(mask) /\ i + 1 \in 1 .. Len(mask)
        BY <1>1
    <2>2. all[i] = at[i] /\ all[i + 1] = at[i + 1]
        BY <1>4, <2>1
    <2>. QED  BY <1>2, <2>1, <2>2
<1>8. Places(mask, path, all)
    BY <1>5, <1>6, <1>7 DEF Places
<1>. QED  BY <1>3, <1>8 DEF Matches

-----------------------------------------------------------------------------
(* What is refused has none *)

\* What there is to go on with if the mask stands for the path.
Ahead(at) ==
    /\ at \in [1 .. Len(mask) -> 1 .. Len(path)]
    /\ Places(mask, path, at) /\ at[maskIndex] <= pathIndex
    /\ mask[maskIndex] # Star \/ maskIndex = Len(mask) => at[maskIndex] = pathIndex
    /\ maskIndex < Len(mask) => at[maskIndex + 1] > pathIndex

\* CompleteSoFar, for a mask that does stand for the path.
LEMMA SomeAhead ==
    ASSUME CompleteSoFar, NameEndsAtStar(mask), Matches(mask, path), maskIndex <= Len(mask)
    PROVE  \E at : Ahead(at)
BY DEF CompleteSoFar, Ahead

\* An element of a path is where the loop is: it fits, and the path is not used up.
LEMMA AheadFits ==
    ASSUME TypeOK, maskIndex <= Len(mask), NEW at, Ahead(at)
    PROVE  /\ pathIndex <= Len(path)
           /\ mask[maskIndex] # Star => mask[maskIndex] = path[pathIndex]
<1>1. /\ maskIndex \in 1 .. Len(mask) /\ pathIndex \in Nat
      /\ Len(mask) \in Nat /\ Len(path) \in Nat
    BY DEF TypeOK
<1>2. \A i \in 1 .. Len(mask) : at[i] \in 1 .. Len(path)
    BY DEF Ahead
<1>3. pathIndex <= Len(path)
    <2>1. CASE maskIndex = Len(mask)
        BY <1>1, <1>2, <2>1 DEF Ahead
    <2>2. CASE maskIndex < Len(mask)
        <3>1. maskIndex + 1 \in 1 .. Len(mask)
            BY <1>1, <2>2
        <3>. QED  BY <1>1, <1>2, <2>2, <3>1 DEF Ahead
    <2>. QED  BY <1>1, <2>1, <2>2
<1>4. ASSUME mask[maskIndex] # Star
      PROVE  mask[maskIndex] = path[pathIndex]
    <2>1. at[maskIndex] = pathIndex
        BY <1>4 DEF Ahead
    <2>2. mask[maskIndex] \in {path[at[maskIndex]], Star}
        BY <1>1 DEF Ahead, Places
    <2>. QED  BY <1>4, <2>1, <2>2
<1>. QED  BY <1>3, <1>4

\* A star goes on only over elements before the start of the next one.
LEMMA StayInStarComplete ==
    ASSUME TypeOK, CompleteSoFar, StayInStar
    PROVE  CompleteSoFar'
<1>1. /\ maskIndex \in Nat /\ pathIndex \in Nat /\ Len(mask) \in Nat /\ Len(path) \in Nat
      /\ maskIndex >= 1
      /\ maskIndex < Len(mask) /\ pathIndex < Len(path) /\ mask[maskIndex] = Star
      /\ mask[maskIndex + 1] \notin {path[pathIndex + 1], Star}
      /\ maskIndex' = maskIndex /\ pathIndex' = pathIndex + 1
      /\ mask' = mask /\ path' = path /\ result' = "running"
    BY DEF StayInStar, InLoop, TypeOK, StarGoesOn
<1> SUFFICES ASSUME NameEndsAtStar(mask), Matches(mask, path)
             PROVE  \E at \in [1 .. Len(mask) -> 1 .. Len(path)] :
                        /\ Places(mask, path, at) /\ at[maskIndex] <= pathIndex'
                        /\ mask[maskIndex] # Star \/ maskIndex = Len(mask)
                              => at[maskIndex] = pathIndex'
                        /\ maskIndex < Len(mask) => at[maskIndex + 1] > pathIndex'
    BY <1>1 DEF CompleteSoFar
<1>2. PICK at : Ahead(at)
    BY <1>1, SomeAhead
<1>3. /\ at \in [1 .. Len(mask) -> 1 .. Len(path)] /\ Places(mask, path, at)
      /\ at[maskIndex] <= pathIndex /\ at[maskIndex + 1] > pathIndex
    BY <1>1, <1>2 DEF Ahead
<1>4. maskIndex \in 1 .. Len(mask) /\ maskIndex + 1 \in 1 .. Len(mask)
    BY <1>1
<1>5. at[maskIndex] \in Nat /\ at[maskIndex + 1] \in Nat
    BY <1>3, <1>4
<1>6. at[maskIndex + 1] # pathIndex + 1
    <2>1. mask[maskIndex + 1] \in {path[at[maskIndex + 1]], Star}
        BY <1>3, <1>4 DEF Places
    <2>. QED  BY <1>1, <2>1
<1>7. at[maskIndex] <= pathIndex' /\ at[maskIndex + 1] > pathIndex'
    BY <1>1, <1>3, <1>5, <1>6
<1>. QED  BY <1>1, <1>3, <1>7

\* After a name the next element starts at once.
LEMMA NameAdvances ==
    ASSUME TypeOK, NEW at, Ahead(at), maskIndex < Len(mask), mask[maskIndex] # Star
    PROVE  at[maskIndex + 1] = pathIndex + 1
<1>1. maskIndex \in 1 .. Len(mask) - 1
    BY DEF TypeOK
<1>. QED  BY <1>1 DEF Ahead, Places

\* After a star the next element may start at once, if it fits there: should it start
\* later in some places, it can be brought forward, and a star after it too.
LEMMA BroughtForward ==
    ASSUME TypeOK, NameEndsAtStar(mask), NEW at, Ahead(at), maskIndex < Len(mask),
           mask[maskIndex] = Star, mask[maskIndex + 1] \in {path[pathIndex + 1], Star}
    PROVE  \E a \in [1 .. Len(mask) -> 1 .. Len(path)] :
               Places(mask, path, a) /\ a[maskIndex + 1] = pathIndex + 1
<1> DEFINE n == maskIndex + 1
           named == mask[n] # Star /\ n < Len(mask)
           a == [i \in 1 .. Len(mask) |-> IF i = n THEN pathIndex + 1
                                          ELSE IF i = n + 1 /\ named THEN pathIndex + 2
                                          ELSE at[i]]
<1>1. /\ maskIndex \in Nat /\ pathIndex \in Nat /\ Len(mask) \in Nat /\ Len(path) \in Nat
      /\ maskIndex >= 1 /\ n \in 1 .. Len(mask) /\ n - 1 = maskIndex /\ pathIndex >= 1
    BY DEF TypeOK
<1>2. /\ at[1] = 1
      /\ \A i \in 1 .. Len(mask) : at[i] \in 1 .. Len(path) /\ mask[i] \in {path[at[i]], Star}
      /\ \A i \in 1 .. Len(mask) - 1 :
            IF mask[i] = Star THEN at[i + 1] > at[i] ELSE at[i + 1] = at[i] + 1
      /\ at[n] > pathIndex /\ at[maskIndex] <= pathIndex
    BY DEF Ahead, Places
<1>3. named => mask[n + 1] = Star /\ at[n + 1] = at[n] + 1
    <2>1. ASSUME named
          PROVE  mask[n + 1] = Star
        <3>1. maskIndex \in 1 .. Len(mask) - 2 /\ n + 1 = maskIndex + 2
            BY <1>1, <2>1
        <3>2. Star \in {mask[maskIndex + 1], mask[maskIndex + 2]}
            BY <3>1 DEF NameEndsAtStar
        <3>. QED  BY <2>1, <3>1, <3>2
    <2>2. ASSUME named
          PROVE  at[n + 1] = at[n] + 1
        <3>1. n \in 1 .. Len(mask) - 1
            BY <1>1, <2>2
        <3>. QED  BY <1>2, <2>2, <3>1
    <2>. QED  BY <2>1, <2>2
<1>4. /\ a[n] = pathIndex + 1
      /\ named => a[n + 1] = pathIndex + 2
      /\ \A i \in 1 .. Len(mask) : i # n /\ (i # n + 1 \/ ~ named) => a[i] = at[i]
    BY <1>1
<1>5. at[n] \in 1 .. Len(path) /\ (named => at[n + 1] \in 1 .. Len(path))
    BY <1>1, <1>2
<1>6. DOMAIN a = 1 .. Len(mask) /\ a = [i \in 1 .. Len(mask) |-> a[i]]
    OBVIOUS
<1> HIDE DEF a
<1>7. \A i \in 1 .. Len(mask) : a[i] \in 1 .. Len(path) /\ a[i] <= at[i]
    <2> SUFFICES ASSUME NEW i \in 1 .. Len(mask)
                 PROVE  a[i] \in 1 .. Len(path) /\ a[i] <= at[i]
        OBVIOUS
    <2>1. CASE i = n
        <3>1. a[i] = pathIndex + 1 /\ at[i] \in 1 .. Len(path) /\ at[i] > pathIndex
            BY <1>2, <1>4, <1>5, <2>1
        <3>2. pathIndex \in Nat /\ pathIndex >= 1 /\ Len(path) \in Nat
            BY <1>1
        <3> HIDE DEF n, named
        <3>. QED  BY <3>1, <3>2
    <2>2. CASE i = n + 1 /\ named
        <3>1. /\ a[i] = pathIndex + 2 /\ at[i] = at[n] + 1 /\ at[n] > pathIndex
              /\ at[i] \in 1 .. Len(path) /\ at[n] \in 1 .. Len(path)
            BY <1>2, <1>3, <1>4, <1>5, <2>2
        <3>2. pathIndex \in Nat /\ pathIndex >= 1 /\ Len(path) \in Nat
            BY <1>1
        <3> HIDE DEF n, named
        <3>. QED  BY <3>1, <3>2
    <2>3. CASE i # n /\ (i # n + 1 \/ ~ named)
        BY <1>2, <1>4, <2>3
    <2>. QED  BY <2>1, <2>2, <2>3
<1>8. a[1] = 1
    <2>1. 1 # n /\ 1 # n + 1 /\ 1 \in 1 .. Len(mask)
        BY <1>1
    <2>. QED  BY <1>2, <1>4, <2>1
<1>9. ASSUME NEW i \in 1 .. Len(mask)
      PROVE  mask[i] \in {path[a[i]], Star}
    <2>1. CASE i = n
        BY <1>4, <2>1
    <2>2. CASE i = n + 1 /\ named
        BY <1>3, <2>2
    <2>3. CASE i # n /\ (i # n + 1 \/ ~ named)
        BY <1>2, <1>4, <2>3
    <2>. QED  BY <2>1, <2>2, <2>3
<1>10. ASSUME NEW i \in 1 .. Len(mask) - 1
       PROVE  IF mask[i] = Star THEN a[i + 1] > a[i] ELSE a[i + 1] = a[i] + 1
    <2>1. /\ i \in 1 .. Len(mask) /\ i + 1 \in 1 .. Len(mask)
          /\ a[i] \in Nat /\ a[i + 1] \in Nat /\ at[i] \in Nat /\ at[i + 1] \in Nat
        <3>1. i \in 1 .. Len(mask) /\ i + 1 \in 1 .. Len(mask)
            BY <1>1
        <3>2. \A j \in 1 .. Len(mask) : a[j] \in Nat /\ at[j] \in Nat
            BY <1>2, <1>7
        <3>. QED  BY <3>1, <3>2
    <2>2. CASE i = maskIndex
        <3>1. i # n /\ i # n + 1 /\ i + 1 = n
            BY <1>1, <2>2
        <3>. QED  BY <1>1, <1>2, <1>4, <2>1, <2>2, <3>1
    <2>3. CASE i = n
        <3>1. CASE named
            BY <1>1, <1>4, <2>3, <3>1
        <3>2. CASE ~ named
            <4>1. mask[i] = Star
                BY <1>1, <2>1, <2>3, <3>2
            <4>2. a[i + 1] = at[i + 1] /\ a[i] <= at[i]
                BY <1>1, <1>4, <1>7, <2>1, <2>3, <3>2
            <4>. QED  BY <1>2, <2>1, <4>1, <4>2
        <3>. QED  BY <3>1, <3>2
    <2>4. CASE i = n + 1 /\ named
        <3>1. mask[i] = Star /\ i + 1 # n /\ i + 1 # n + 1
            BY <1>1, <1>3, <2>4
        <3>2. a[i + 1] = at[i + 1] /\ a[i] <= at[i]
            BY <1>4, <1>7, <2>1, <3>1
        <3>. QED  BY <1>2, <2>1, <3>1, <3>2
    <2>5. CASE i # maskIndex /\ i # n /\ (i # n + 1 \/ ~ named)
        <3>1. i + 1 # n /\ i + 1 # n + 1
            BY <1>1, <2>1, <2>5
        <3>2. a[i + 1] = at[i + 1] /\ a[i] = at[i]
            BY <1>4, <2>1, <2>5, <3>1
        <3>. QED  BY <1>2, <3>2
    <2>. QED  BY <2>2, <2>3, <2>4, <2>5
<1>11. a \in [1 .. Len(mask) -> 1 .. Len(path)]
    BY <1>6, <1>7
<1>12. Places(mask, path, a)
    BY <1>8, <1>9, <1>10 DEF Places
<1>. QED  BY <1>4, <1>11, <1>12

\* Places follow each other.
LEMMA PlacesGrow ==
    ASSUME TypeOK, NEW at \in [1 .. Len(mask) -> 1 .. Len(path)], Places(mask, path, at),
           NEW n \in 1 .. Len(mask) - 1
    PROVE  at[n + 1] > at[n]
<1>1. n \in 1 .. Len(mask) /\ Len(path) \in Nat
    BY DEF TypeOK
<1>2. at[n] \in Nat
    BY <1>1
<1>. QED  BY <1>2 DEF Places

\* So an Advance goes to where the next element starts.
LEMMA AdvanceComplete ==
    ASSUME TypeOK, CompleteSoFar, Advance
    PROVE  CompleteSoFar'
<1>1. /\ maskIndex \in 1 .. Len(mask) /\ pathIndex \in 1 .. Len(path)
      /\ Len(mask) \in Nat /\ Len(path) \in Nat
      /\ maskIndex' = maskIndex + 1 /\ pathIndex' = pathIndex + 1
      /\ mask' = mask /\ path' = path /\ result' = "running" /\ ~ StarGoesOn
    BY DEF Advance, InLoop, TypeOK
<1> SUFFICES ASSUME NameEndsAtStar(mask), Matches(mask, path), maskIndex + 1 <= Len(mask)
             PROVE  \E at \in [1 .. Len(mask) -> 1 .. Len(path)] :
                        Places(mask, path, at) /\ at[maskIndex + 1] = pathIndex + 1
    <2>1. ASSUME NEW at \in [1 .. Len(mask) -> 1 .. Len(path)], Places(mask, path, at),
                 at[maskIndex + 1] = pathIndex + 1
          PROVE  /\ at[maskIndex'] <= pathIndex' /\ at[maskIndex'] = pathIndex'
                 /\ maskIndex' < Len(mask) => at[maskIndex' + 1] > pathIndex'
        <3>1. ASSUME maskIndex + 1 < Len(mask)
              PROVE  at[maskIndex + 1 + 1] > at[maskIndex + 1]
            <4>1. maskIndex + 1 \in 1 .. Len(mask) - 1
                BY <1>1, <3>1
            <4>. QED  BY <2>1, <4>1, PlacesGrow
        <3>. QED  BY <1>1, <2>1, <3>1
    <2>. QED  BY <1>1, <2>1 DEF CompleteSoFar
<1>2. PICK at : Ahead(at)
    BY <1>1, SomeAhead
<1>3. maskIndex < Len(mask)
    BY <1>1
<1>4. at \in [1 .. Len(mask) -> 1 .. Len(path)] /\ Places(mask, path, at)
    BY <1>2 DEF Ahead
<1>5. CASE mask[maskIndex] # Star
    BY <1>2, <1>3, <1>4, <1>5, NameAdvances
<1>6. CASE mask[maskIndex] = Star
    <2>1. pathIndex < Len(path)
        <3>1. at[maskIndex + 1] \in 1 .. Len(path) /\ at[maskIndex + 1] > pathIndex
            BY <1>1, <1>2, <1>3, <1>4 DEF Ahead
        <3>. QED  BY <1>1, <3>1
    <2>2. mask[maskIndex + 1] \in {path[pathIndex + 1], Star}
        BY <1>1, <1>3, <1>6, <2>1 DEF StarGoesOn
    <2>. QED  BY <1>2, <1>3, <1>6, <2>2, BroughtForward
<1>. QED  BY <1>5, <1>6

\* Neither way of refusing is open to a path that the mask stands for.
LEMMA RefusalComplete ==
    ASSUME TypeOK, CompleteSoFar, Mismatch \/ Finish
    PROVE  CompleteSoFar'
<1>1. /\ maskIndex \in 1 .. Len(mask) + 1 /\ pathIndex \in Nat
      /\ Len(mask) \in Nat /\ Len(path) \in Nat
      /\ UNCHANGED <<mask, path, maskIndex, pathIndex>>
    BY DEF Mismatch, Finish, TypeOK
<1> SUFFICES ASSUME NameEndsAtStar(mask), Matches(mask, path)
             PROVE  result' # "false"
    <2>1. (\E at \in [1 .. Len(mask) -> 1 .. Len(path)] :
              /\ Places(mask, path, at) /\ at[maskIndex] <= pathIndex
              /\ mask[maskIndex] # Star \/ maskIndex = Len(mask) => at[maskIndex] = pathIndex
              /\ maskIndex < Len(mask) => at[maskIndex + 1] > pathIndex)' <=>
          (\E at \in [1 .. Len(mask) -> 1 .. Len(path)] :
              /\ Places(mask, path, at) /\ at[maskIndex] <= pathIndex
              /\ mask[maskIndex] # Star \/ maskIndex = Len(mask) => at[maskIndex] = pathIndex
              /\ maskIndex < Len(mask) => at[maskIndex + 1] > pathIndex)
        BY <1>1
    <2>. QED  BY <1>1, <2>1 DEF CompleteSoFar
<1>2. ASSUME maskIndex <= Len(mask)
      PROVE  /\ pathIndex <= Len(path)
             /\ mask[maskIndex] # Star => mask[maskIndex] = path[pathIndex]
    <2>1. PICK at : Ahead(at)
        BY <1>2, SomeAhead
    <2>. QED  BY <1>2, <2>1, AheadFits
<1>3. ~ Mismatch
    BY <1>2 DEF Mismatch, InLoop, Fits
<1>4. CASE Finish
    BY <1>1, <1>2, <1>4 DEF Finish, InLoop
<1>. QED  BY <1>3, <1>4

-----------------------------------------------------------------------------
(* The theorems *)

LEMMA InitFilter == Init => FilterInv
<1> SUFFICES ASSUME Init PROVE FilterInv
    OBVIOUS
<1>1. TypeOK /\ maskIndex = 1 /\ pathIndex = 1 /\ result = "running"
    BY InitTyped DEF Init
<1>2. Len(mask) \in Nat \ {0} /\ Len(path) \in Nat \ {0}
    BY <1>1, PathFilterAssumption DEF TypeOK
<1>3. SoundSoFar
    <2> DEFINE at == [i \in 1 .. 1 |-> 1]
    <2>1. at \in [1 .. maskIndex -> 1 .. Len(path) + 1] /\ at[1] = 1
        BY <1>1, <1>2
    <2>2. 1 .. maskIndex - 1 = {}
        BY <1>1
    <2> HIDE DEF at
    <2>. QED  BY <1>1, <2>1, <2>2 DEF SoundSoFar
<1>4. CompleteSoFar
    <2> SUFFICES ASSUME NEW at \in [1 .. Len(mask) -> 1 .. Len(path)], Places(mask, path, at)
                 PROVE  at[1] = 1 /\ (1 < Len(mask) => at[2] > 1)
        BY <1>1 DEF CompleteSoFar, Matches
    <2>1. at[1] = 1
        BY DEF Places
    <2>2. ASSUME 1 < Len(mask)
          PROVE  at[2] > 1
        <3>1. 1 \in 1 .. Len(mask) - 1 /\ 1 + 1 = 2
            BY <1>2, <2>2
        <3>2. IF mask[1] = Star THEN at[1 + 1] > at[1] ELSE at[1 + 1] = at[1] + 1
            BY <3>1 DEF Places
        <3>. QED  BY <2>1, <3>1, <3>2
    <2>. QED  BY <2>1, <2>2
<1>. QED  BY <1>1, <1>3, <1>4 DEF FilterInv, Sound

LEMMA NextFilter == FilterInv /\ [Next]_vars => FilterInv'
<1> SUFFICES ASSUME FilterInv, [Next]_vars PROVE FilterInv'
    OBVIOUS
<1>1. TypeOK /\ Sound /\ SoundSoFar /\ CompleteSoFar /\ TypeOK'
    BY NextTyped DEF FilterInv
<1>2. CASE Mismatch
    <2>1. Sound' /\ SoundSoFar'
        BY <1>2 DEF Mismatch, Sound, SoundSoFar
    <2>. QED  BY <1>1, <1>2, <2>1, RefusalComplete DEF FilterInv
<1>3. CASE StayInStar
    <2>1. Sound'
        BY <1>3 DEF StayInStar, InLoop, Sound
    <2>. QED  BY <1>1, <1>3, <2>1, StayInStarSound, StayInStarComplete DEF FilterInv
<1>4. CASE Advance
    <2>1. Sound'
        BY <1>4 DEF Advance, InLoop, Sound
    <2>. QED  BY <1>1, <1>4, <2>1, AdvanceSound, AdvanceComplete DEF FilterInv
<1>5. CASE Finish
    <2>1. SoundSoFar'
        BY <1>5 DEF Finish, SoundSoFar
    <2>. QED  BY <1>1, <1>5, <2>1, FinishSound, RefusalComplete DEF FilterInv
<1>6. CASE UNCHANGED vars
    <2>1. UNCHANGED <<mask, path, maskIndex, pathIndex, result>>
        BY <1>6 DEF vars
    <2>2. Sound' /\ SoundSoFar'
        BY <1>1, <2>1 DEF Sound, SoundSoFar
    <2>3. CompleteSoFar'
        BY <1>1, <2>1 DEF CompleteSoFar
    <2>. QED  BY <1>1, <2>2, <2>3 DEF FilterInv
<1>. QED  BY <1>2, <1>3, <1>4, <1>5, <1>6 DEF Next

\* The loop of Match keeps the places of what it accepted, and for a mask without two
\* names behind a star also places for what is left.
THEOREM FilterInvariant == Spec => []FilterInv
BY InitFilter, NextFilter, PTL DEF Spec

\* Match accepts no path that the mask does not stand for.
THEOREM MatchIsSound == Spec => []Sound
<1>1. FilterInv => Sound
    BY DEF FilterInv
<1>. QED  BY <1>1, FilterInvariant, PTL

\* Match accepts every path the mask stands for, if no star is followed by two names.
THEOREM MatchIsCompleteForSimpleMasks == Spec => []CompleteForSimpleMasks
<1>1. FilterInv => CompleteForSimpleMasks
    BY DEF FilterInv, CompleteSoFar, CompleteForSimpleMasks
<1>. QED  BY <1>1, FilterInvariant, PTL

\* No step of Match repeats a round without an element of the path being used up, so
\* that Returns needs no more than that the loop goes on.
THEOREM EveryRoundCounts == Spec => RoundsCount
<1>1. FilterInv /\ [Next]_vars => [Left' \in Nat /\ Left' < Left]_vars
    <2> SUFFICES ASSUME TypeOK, Next PROVE Left' \in Nat /\ Left' < Left
        BY DEF FilterInv
    <2>1. pathIndex \in Nat /\ Len(path) \in Nat /\ pathIndex <= Len(path) + 1 /\ path' = path
        BY DEF TypeOK, Next, Mismatch, StayInStar, Advance, Finish
    <2>2. CASE Mismatch \/ Finish
        <3>1. result = "running" /\ result' # "running"
            BY <2>2 DEF Mismatch, InLoop, Finish
        <3>. QED  BY <2>1, <3>1 DEF Left
    <2>3. CASE StayInStar \/ Advance
        <3>1. /\ result = "running" /\ result' = "running"
              /\ pathIndex <= Len(path) /\ pathIndex' = pathIndex + 1
            BY <2>3 DEF StayInStar, Advance, InLoop
        <3>. QED  BY <2>1, <3>1 DEF Left
    <2>. QED  BY <2>2, <2>3 DEF Next
<1>. QED  BY <1>1, FilterInvariant, PTL DEF Spec, RoundsCount
=============================================================================
