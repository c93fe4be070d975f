-------------------------------- MODULE Sources --------------------------------
(***************************************************************************)
(* What two adapters make of the data of their sources: the telemetry      *)
(* adapter of the emulator's tree of signals, the Renesas adapter of the   *)
(* simulator's "data" messages.  Both walk a JSON tree in the order of its *)
(* maps.  A tree is abstracted to a function from its leaves to values; a  *)
(* leaf stands for its full name (the keys on the way to it) and its depth.*)
(***************************************************************************)
EXTENDS Naturals, Functions

CONSTANTS
    Leaves,         \* names of leaves
    Depth,          \* [Leaves -> Nat]: maps around a leaf
    PathConverter,  \* configuration of the telemetry adapter: name -> name
    SignalMap,      \* configuration of the Renesas adapter: leaf -> signal
    NoSignal,       \* "" as a signal: the leaf is ignored on purpose
    Longitude,      \* the signal that processCommand turns round
    Minus,          \* [values -> values]: numbers times -1, others unchanged
    Null            \* JSON's null, Go's nil

ASSUME SourcesAssumption ==
    /\ Depth \in [Leaves -> Nat]
    /\ DOMAIN SignalMap \subseteq Leaves
    /\ Minus[Null] = Null

\* A map filled from the leaves of tree, where leaf l is written under the name
\* to[l]: of leaves with the same name the one that comes last counts, which may
\* be any.
Collected(tree, to) ==
    {m \in [{to[l] : l \in DOMAIN tree} -> Range(tree)] :
        \A n \in DOMAIN m : \E l \in DOMAIN tree : to[l] = n /\ m[n] = tree[l]}

-----------------------------------------------------------------------------
(* Telemetry emulator adapter *)

convertPath(name) == IF name \in DOMAIN PathConverter THEN PathConverter[name] ELSE name

\* parseNode converts the name of a leaf where it finds it, and what came of it
\* again on the way back through every map around it.
Converted(l) ==
    LET name[n \in Nat] == IF n = 0 THEN l ELSE convertPath(name[n - 1])
    IN  name[Depth[l] + 1]

\* What a name is converted to is not converted further, as in the configuration that
\* comes with the program (aos_vis.cfg).
Settled == \A name \in DOMAIN PathConverter :
               convertPath(PathConverter[name]) = PathConverter[name]

parseNode(tree) == Collected(tree, [l \in DOMAIN tree |-> Converted(l)])

-----------------------------------------------------------------------------
(* Renesas simulator adapter *)

\* handleSimulatorData: a leaf that is null, unknown or unwanted is passed over.
Wanted(tree) ==
    {l \in DOMAIN tree : tree[l] # Null /\ l \in DOMAIN SignalMap /\ SignalMap[l] # NoSignal}

handleSimulatorData(tree) ==
    Collected(Restrict(tree, Wanted(tree)), [l \in Wanted(tree) |-> SignalMap[l]])

\* processCommand "data": the simulator's longitude has the wrong sign.
Turned(m) == [s \in DOMAIN m |-> IF s = Longitude THEN Minus[m[s]] ELSE m[s]]

processCommand(tree) == {Turned(m) : m \in handleSimulatorData(tree)}
=============================================================================
