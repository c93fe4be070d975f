------------------------- MODULE SubscriptionRegistry -------------------------
(***************************************************************************)
(* What dataprovider.DataProvider promises to the clients of the VIS       *)
(* server about subscriptions, without adapters, locks or goroutines:      *)
(*                                                                         *)
(*   - ids are given out in order, and never twice;                        *)
(*   - a subscription holds its mask from its Subscribe to its Unsubscribe;*)
(*   - only a live subscription is notified, only of signals its mask      *)
(*     matches, and of each signal in the order of its changes.            *)
(*                                                                         *)
(* DataProvider implements it (see Registry there) as long as permissions  *)
(* do not split the mask of a request.                                     *)
(***************************************************************************)
EXTENDS Naturals

CONSTANTS
    Paths,          \* the VIS paths
    Masks,          \* requested paths, with wildcards
    MatchedBy,      \* [Masks -> SUBSET Paths]
    NoMask,         \* no subscription
    MaxSubs         \* bound: subscriptions made

Ids == 0 .. (MaxSubs - 1)

VARIABLES
    current,        \* version of every signal
    mask,           \* mask of every live id, NoMask for the others
    nextId,         \* next id to be given out
    seen            \* last version of every signal that an id was notified of

vars == <<current, mask, nextId, seen>>

Nothing == [p \in Paths |-> 0]

Init ==
    /\ current = Nothing
    /\ mask = [id \in Ids |-> NoMask]
    /\ nextId = 0
    /\ seen = [id \in Ids |-> Nothing]

\* A client subscribes to mask m.
Register(m) ==
    /\ nextId < MaxSubs
    /\ mask' = [mask EXCEPT ![nextId] = m]
    /\ nextId' = nextId + 1
    /\ UNCHANGED <<current, seen>>

\* A live subscription ends; what it was told is forgotten with it.
Cancel(id) ==
    /\ mask[id] # NoMask
    /\ mask' = [mask EXCEPT ![id] = NoMask]
    /\ seen' = [seen EXCEPT ![id] = Nothing]
    /\ UNCHANGED <<current, nextId>>

\* Some signals change.
Change ==
    /\ current' \in [Paths -> Nat]
    /\ \A p \in Paths : current'[p] \in {current[p], current[p] + 1}
    /\ UNCHANGED <<mask, nextId, seen>>

\* Some live subscriptions learn of changes they had not been told of.
Notify ==
    /\ seen' \in [Ids -> [Paths -> Nat]]
    /\ \A id \in Ids, p \in Paths : seen'[id][p] # seen[id][p] =>
           /\ mask[id] # NoMask
           /\ p \in MatchedBy[mask[id]]
           /\ seen[id][p] < seen'[id][p] /\ seen'[id][p] <= current[p]
    /\ UNCHANGED <<current, mask, nextId>>

Next ==
    \/ \E m \in Masks : Register(m)
    \/ \E id \in Ids : Cancel(id)
    \/ Change
    \/ Notify

Spec == Init /\ [][Next]_vars
=============================================================================
