------------------------------ MODULE PathFilter ------------------------------
(***************************************************************************)
(* dataprovider.PathFilter: does a requested path, which may hold          *)
(* wildcards, match the path of a sensor?  The loop of Match is a state    *)
(* machine over two indices; the reference is a definition of matching     *)
(* without an algorithm.  Names are the elements between the dots.         *)
(* Indices start at 1, in the code at 0.                                   *)
(***************************************************************************)
EXTENDS Naturals, Sequences

CONSTANTS
    Names,          \* elements of paths
    Star,           \* the wildcard
    MaxMask,        \* bound: elements of a mask
    MaxPath         \* bound: elements of a path

ASSUME PathFilterAssumption ==
    /\ Star \notin Names
    /\ MaxMask \in Nat \ {0} /\ MaxPath \in Nat \ {0}

VARIABLES
    mask, path,     \* what strings.Split made of the request and of the sensor
    maskIndex, pathIndex,
    result          \* "running" until Match returns "true" or "false"

vars == <<mask, path, maskIndex, pathIndex, result>>

Strings(S, n) == UNION {[1 .. k -> S] : k \in 1 .. n}

Init ==
    /\ mask \in Strings(Names \cup {Star}, MaxMask)
    /\ path \in Strings(Names, MaxPath)
    /\ maskIndex = 1 /\ pathIndex = 1
    /\ result = "running"

InLoop ==
    /\ result = "running"
    /\ maskIndex <= Len(mask) /\ pathIndex <= Len(path)

Fits == mask[maskIndex] \in {path[pathIndex], Star}

\* The star takes one more element: what follows in the path is not yet what
\* follows in the mask.
StarGoesOn ==
    /\ mask[maskIndex] = Star
    /\ pathIndex < Len(path) /\ maskIndex < Len(mask)
    /\ mask[maskIndex + 1] \notin {path[pathIndex + 1], Star}

Mismatch ==
    /\ InLoop /\ ~ Fits
    /\ result' = "false"
    /\ UNCHANGED <<mask, path, maskIndex, pathIndex>>

\* The slip of a star that never ends where the mask goes on.
StayInStarLonger ==
    /\ InLoop /\ Fits /\ mask[maskIndex] = Star
    /\ pathIndex < Len(path) /\ maskIndex < Len(mask)
    /\ pathIndex' = pathIndex + 1
    /\ UNCHANGED <<mask, path, maskIndex, result>>

\* The slip of a "continue" without the increment.
StayInStarForEver ==
    /\ InLoop /\ Fits /\ StarGoesOn
    /\ UNCHANGED vars

StayInStar ==
    /\ InLoop /\ Fits /\ StarGoesOn
    /\ pathIndex' = pathIndex + 1
    /\ UNCHANGED <<mask, path, maskIndex, result>>

\* The slip of counting the element of the path twice.
AdvanceByTwo ==
    /\ InLoop /\ Fits /\ ~ StarGoesOn
    /\ maskIndex' = maskIndex + 1 /\ pathIndex' = pathIndex + 2
    /\ UNCHANGED <<mask, path, result>>

Advance ==
    /\ InLoop /\ Fits /\ ~ StarGoesOn
    /\ maskIndex' = maskIndex + 1 /\ pathIndex' = pathIndex + 1
    /\ UNCHANGED <<mask, path, result>>

\* The slip of a loop that ends well as soon as the path is used up.
FinishAtPathEnd ==
    /\ result = "running" /\ ~ InLoop
    /\ result' = "true"
    /\ UNCHANGED <<mask, path, maskIndex, pathIndex>>

\* The mask is used up: it names the path or a branch above it.
Finish ==
    /\ result = "running" /\ ~ InLoop
    /\ result' = IF maskIndex > Len(mask) THEN "true" ELSE "false"
    /\ UNCHANGED <<mask, path, maskIndex, pathIndex>>

Next == Mismatch \/ StayInStar \/ Advance \/ Finish

Spec == Init /\ [][Next]_vars /\ WF_vars(Next)

-----------------------------------------------------------------------------
(* The reference *)

\* Where each element of the mask m starts in the path p: the first one at the
\* start, one that is no star is the element it stands on and takes just that,
\* and a star takes all the elements up to the next one, at least one.
Places(m, p, at) ==
    /\ at[1] = 1
    /\ \A i \in 1 .. Len(m) : m[i] \in {p[at[i]], Star}
    /\ \A i \in 1 .. Len(m) - 1 :
          IF m[i] = Star THEN at[i + 1] > at[i] ELSE at[i + 1] = at[i] + 1

\* The mask m stands for the path p, or for a branch above it.
Matches(m, p) == \E at \in [1 .. Len(m) -> 1 .. Len(p)] : Places(m, p, at)

\* No star of m is followed by two names.
NameEndsAtStar(m) ==
    \A i \in 1 .. Len(m) - 2 : m[i] = Star => Star \in {m[i + 1], m[i + 2]}

-----------------------------------------------------------------------------
(* Properties *)

\* Every variable has its type: no index goes further than one behind the end.
TypeOK ==
    /\ mask \in Seq(Names \cup {Star}) /\ path \in Seq(Names)
    /\ Len(mask) \in 1 .. MaxMask /\ Len(path) \in 1 .. MaxPath
    /\ maskIndex \in 1 .. Len(mask) + 1 /\ pathIndex \in 1 .. Len(path) + 1
    /\ result \in {"running", "true", "false"}

\* Match never accepts a path the mask does not stand for: no client gets, sets
\* or is granted a signal through a mask that does not name it.
Sound == result = "true" => Matches(mask, path)

\* Match accepts every path the mask stands for, if a star is followed by at
\* most one name before the next star or the end.
CompleteForSimpleMasks ==
    result = "false" /\ NameEndsAtStar(mask) => ~ Matches(mask, path)

\* What has been accepted so far has its places: the element under way starts where
\* the loop is, or before that if it is a star.
SoundSoFar ==
    result = "running" =>
        \E at \in [1 .. maskIndex -> 1 .. Len(path) + 1] :
            /\ at[1] = 1 /\ at[maskIndex] <= pathIndex
            /\ maskIndex <= Len(mask) /\ mask[maskIndex] # Star => at[maskIndex] = pathIndex
            /\ \A i \in 1 .. maskIndex - 1 :
                  /\ at[i] <= Len(path) /\ mask[i] \in {path[at[i]], Star}
                  /\ IF mask[i] = Star THEN at[i + 1] > at[i] ELSE at[i + 1] = at[i] + 1

\* If the mask stands for the path, some places are still ahead: the element under way
\* has not gone past the start of the next one.
CompleteSoFar ==
    NameEndsAtStar(mask) /\ Matches(mask, path) =>
        /\ result # "false"
        /\ maskIndex <= Len(mask) => \E at \in [1 .. Len(mask) -> 1 .. Len(path)] :
              /\ Places(mask, path, at) /\ at[maskIndex] <= pathIndex
              /\ mask[maskIndex] # Star \/ maskIndex = Len(mask) => at[maskIndex] = pathIndex
              /\ maskIndex < Len(mask) => at[maskIndex + 1] > pathIndex

\* The inductive invariant of the loop.
FilterInv == TypeOK /\ Sound /\ SoundSoFar /\ CompleteSoFar

\* Match accepts every path the mask stands for.
Complete == result = "false" => ~ Matches(mask, path)

\* How many steps Match has left at most, and every one uses up one of them: it returns
\* after as many rounds as the path has elements, and one step, if it goes on at all.
Left == IF result = "running" THEN Len(path) + 2 - pathIndex ELSE 0
RoundsCount == [][Left' \in Nat /\ Left' < Left]_vars

\* Match returns.
Returns == <> (result # "running")
=============================================================================
