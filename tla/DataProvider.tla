----------------------------- MODULE DataProvider -----------------------------
(***************************************************************************)
(* dataprovider.DataProvider: the registry of subscriptions between the    *)
(* clients of the VIS server and the data adapters.                        *)
(*                                                                         *)
(* Three kinds of goroutine meet here.  The CALLERS run the requests       *)
(* (Subscribe, Unsubscribe, SetData); visserver.Server processes requests  *)
(* under its own mutex, so the server has one caller at a time.  The       *)
(* PRODUCERS are goroutines of the adapters themselves that write data     *)
(* (the telemetry ticker, the Renesas connection).  One HANDLER per        *)
(* adapter receives the changes from the adapter's channel and queues them *)
(* for the subscribers.                                                    *)
(*                                                                         *)
(* Subscribe and Unsubscribe hold the provider's mutex from the first to   *)
(* the last step and take the mutex of an adapter in every step that asks  *)
(* it something, so they are several actions; the handler holds the        *)
(* provider's mutex without waiting for anything, so it is one action      *)
(* after the receive.  SetData over several adapters is a sequence of      *)
(* calls of one adapter each, from one caller.                             *)
(***************************************************************************)
EXTENDS BaseAdapter

CONSTANTS
    Callers,        \* the goroutines that run requests
    Masks,          \* requested paths, with wildcards
    MatchedBy,      \* [Masks -> SUBSET Paths]: what PathFilter.Match accepts
    Auths,          \* kinds of AuthInfo
    Readable,       \* [Auths -> SUBSET Paths]: checkPermissions(..., "r")
    NoMask,         \* no subscription
    QueueSize,      \* capacity of a subscriber's channel
    MaxSubs         \* bound: subscriptions made

ASSUME DataProviderAssumption ==
    /\ Callers \subseteq Writers
    /\ MatchedBy \in [Masks -> SUBSET Paths]
    /\ Readable \in [Auths -> SUBSET Paths]
    /\ NoMask \notin Masks
    /\ QueueSize \in Nat \ {0}
    /\ MaxSubs \in Nat

VARIABLES
    subscribeIds,   \* sensors[path].subscribeIds
    subscribeInfo,  \* subscribeInfoMap: the mask of every active id
    currentSubsID,  \* the next id
    call,           \* the request that holds the provider's mutex
    inHand,         \* what the handler of an adapter received and not yet sent
    queued,         \* number of notifications in a subscriber's channel
    panicked,       \* the process died of a nil dereference
    \* History variables, which the code does not have:
    sent,           \* last version of a path that was queued for an id
    since,          \* version of a path when the id was registered
    lost            \* paths whose last change found the id's channel full

registryVars == <<subscribeIds, subscribeInfo, currentSubsID>>
historyVars  == <<sent, since, lost>>
vars == <<adapterVars, registryVars, call, inHand, queued, panicked, historyVars>>

Ids       == 0 .. (MaxSubs - 1)
Producers == Writers \ Callers
Active    == {id \in Ids : subscribeInfo[id] # NoMask}

\* A call that is under way: by whom, which operation, with what mask and
\* permissions, which sensors the match loop has still to visit, and which
\* paths the adapters have still to be told of.
Call == [by : Callers \cup {NoOne}, op : {"none", "subscribe", "unsubscribe"},
         mask : Masks \cup {NoMask}, readable : SUBSET Paths,
         todo : SUBSET Paths, tell : SUBSET Paths]

NoCall == [by |-> NoOne, op |-> "none", mask |-> NoMask, readable |-> {},
           todo |-> {}, tell |-> {}]

Unlocked == call.by = NoOne
Running  == ~ panicked

\* A goroutine that waits in the channel send of SetData runs no other request.
Free(c) == call.by # c /\ sending[c] = NoChanges

Init ==
    /\ AdapterInit
    /\ subscribeIds = [p \in Paths |-> {}]
    /\ subscribeInfo = [id \in Ids |-> NoMask]
    /\ currentSubsID = 0
    /\ call = NoCall
    /\ inHand = [a \in Adapters |-> NoChanges]
    /\ queued = [id \in Ids |-> 0]
    /\ panicked = FALSE
    /\ sent = [id \in Ids |-> NoChanges]
    /\ since = [id \in Ids |-> NoChanges]
    /\ lost = [id \in Ids |-> {}]

-----------------------------------------------------------------------------
(* Subscribe *)

\* Lock the provider and start the match loop.  A mask that matches nothing is
\* refused without any effect, so it is not a call of the model.
Subscribe(c, mask, auth) ==
    /\ Running /\ Unlocked /\ Free(c)
    /\ currentSubsID < MaxSubs
    /\ MatchedBy[mask] # {}
    /\ call' = [by |-> c, op |-> "subscribe", mask |-> mask,
                readable |-> Readable[auth], todo |-> MatchedBy[mask], tell |-> {}]
    /\ UNCHANGED <<adapterVars, registryVars, inHand, queued, panicked, historyVars>>

\* One sensor of the match loop, which goes over the sensors in any order.
\* IsPathPublic takes the adapter's mutex for its answer.
VisitSensor(p) ==
    /\ Running
    /\ p \in call.todo
    /\ mutex[AdapterOf[p]] = NoOne
    /\ p \in call.readable
    /\ subscribeIds' = [subscribeIds EXCEPT ![p] = @ \cup {currentSubsID}]
    /\ call' = [call EXCEPT !.todo = @ \ {p}, !.tell = @ \cup {p}]
    /\ UNCHANGED <<adapterVars, subscribeInfo, currentSubsID, inHand, queued,
                   panicked, historyVars>>

\* The slip of an error path that returns without the Unlock.
RefuseSensorKeepingLock(p) ==
    /\ Running
    /\ p \in call.todo
    /\ mutex[AdapterOf[p]] = NoOne
    /\ p \notin call.readable
    /\ call' = [NoCall EXCEPT !.by = call.by]
    /\ UNCHANGED <<adapterVars, registryVars, inHand, queued, panicked, historyVars>>

\* The client may not read the sensor: Subscribe returns the error.  The id
\* stays in the lists of the sensors that were visited before.
RefuseSensor(p) ==
    /\ Running
    /\ p \in call.todo
    /\ mutex[AdapterOf[p]] = NoOne
    /\ p \notin call.readable
    /\ call' = NoCall
    /\ UNCHANGED <<adapterVars, registryVars, inHand, queued, panicked, historyVars>>

\* adapter.Subscribe or adapter.Unsubscribe for the paths of one adapter, in
\* any order of the adapters.
TellAdapter(a) ==
    LET ps == call.tell \cap PathsOf(a) IN
    /\ Running
    /\ call.todo = {} /\ ps # {}
    /\ SetSubscribed(a, ps, call.op = "subscribe")
    /\ call' = [call EXCEPT !.tell = @ \ ps]
    /\ UNCHANGED <<registryVars, inHand, queued, panicked, historyVars>>

\* The slip of registering before the adapters are told.
RegisterEarly ==
    /\ Running
    /\ call.op = "subscribe" /\ call.todo = {}
    /\ subscribeInfo' = [subscribeInfo EXCEPT ![currentSubsID] = call.mask]
    /\ currentSubsID' = currentSubsID + 1
    /\ since' = [since EXCEPT ![currentSubsID] = value]
    /\ call' = NoCall
    /\ UNCHANGED <<adapterVars, subscribeIds, inHand, queued, panicked, sent, lost>>

\* The id gets its channel, and Subscribe returns.
Register ==
    /\ Running
    /\ call.op = "subscribe" /\ call.todo = {} /\ call.tell = {}
    /\ subscribeInfo' = [subscribeInfo EXCEPT ![currentSubsID] = call.mask]
    /\ currentSubsID' = currentSubsID + 1
    /\ since' = [since EXCEPT ![currentSubsID] = value]
    /\ call' = NoCall
    /\ UNCHANGED <<adapterVars, subscribeIds, inHand, queued, panicked, sent, lost>>

-----------------------------------------------------------------------------
(* Unsubscribe *)

\* The lists without an id.  The slip is to leave them as they are.
ListsKept(id)    == subscribeIds
ListsWithout(id) == [p \in Paths |-> subscribeIds[p] \ {id}]

\* The sensors that lose their last subscriber with an id.  The slips are to
\* take all the sensors of the id, and none.
AllOf(id)  == {p \in Paths : id \in subscribeIds[p]}
NoneOf(id) == {}
LastOf(id) == {p \in Paths : subscribeIds[p] = {id}}

\* Lock the provider, close the channel and clean the lists.  The adapters are
\* told of the paths that lose their last subscriber.  An id that is not active
\* is refused without any effect.  What the handler had queued is still read by
\* the client's goroutine; the model forgets it with the id.
Unsubscribe(c, id) ==
    /\ Running /\ Unlocked /\ Free(c)
    /\ id \in Active
    /\ subscribeInfo' = [subscribeInfo EXCEPT ![id] = NoMask]
    /\ subscribeIds' = ListsWithout(id)
    /\ call' = [NoCall EXCEPT !.by = c, !.op = "unsubscribe", !.tell = LastOf(id)]
    /\ queued' = [queued EXCEPT ![id] = 0]
    /\ sent' = [sent EXCEPT ![id] = NoChanges]
    /\ since' = [since EXCEPT ![id] = NoChanges]
    /\ lost' = [lost EXCEPT ![id] = {}]
    /\ UNCHANGED <<adapterVars, currentSubsID, inHand, panicked>>

EndUnsubscribe ==
    /\ Running
    /\ call.op = "unsubscribe" /\ call.tell = {}
    /\ call' = NoCall
    /\ UNCHANGED <<adapterVars, registryVars, inHand, queued, panicked, historyVars>>

-----------------------------------------------------------------------------
(* Writers.  SetData never takes the provider's mutex. *)

MayWrite(w) == Running /\ (w \in Callers => Free(w))

otherVars == <<registryVars, call, inHand, queued, panicked, historyVars>>

Write(w, a, ps) == MayWrite(w) /\ SetData(w, a, ps) /\ UNCHANGED otherVars

WriteRefused(w, a, ps) ==
    MayWrite(w) /\ SetDataRefused(w, a, ps) /\ UNCHANGED otherVars

EndWrite(w, a) == Running /\ SendChanges(w, a) /\ UNCHANGED otherVars

-----------------------------------------------------------------------------
(* The handler of an adapter, handleSubscribeChannel *)

Receive(a) ==
    /\ Running
    /\ inHand[a] = NoChanges
    /\ TakeChanges(a)
    /\ inHand' = [inHand EXCEPT ![a] = Head(channel[a])]
    /\ UNCHANGED <<registryVars, call, queued, panicked, historyVars>>

\* subscribeDataMap: the ids to notify, and the paths each one is told of.  The
\* slip is to give the whole message to everyone.
AllInHand(a, id) == {p \in Paths : inHand[a][p] > 0 /\ id \in Active}
PathsFor(a, id) == {p \in Paths : inHand[a][p] > 0 /\ id \in subscribeIds[p]}
Recipients(a)   == {id \in Ids : PathsFor(a, id) # {}}

\* Under the provider's mutex every recipient gets its changes in its channel,
\* or loses them if the channel is full.
Dispatch(a) ==
    LET room(id)   == queued[id] < QueueSize
        served(id) == id \in Recipients(a) /\ room(id)
    IN
    /\ Running /\ Unlocked
    /\ inHand[a] # NoChanges
    /\ Recipients(a) \subseteq Active
    /\ queued' = [id \in Ids |-> IF served(id) THEN queued[id] + 1 ELSE queued[id]]
    /\ sent' = [id \in Ids |-> [p \in Paths |->
                    IF served(id) /\ p \in PathsFor(a, id)
                    THEN inHand[a][p] ELSE sent[id][p]]]
    /\ lost' = [id \in Ids |->
                    IF room(id) THEN lost[id] \ PathsFor(a, id)
                                ELSE lost[id] \cup PathsFor(a, id)]
    /\ inHand' = [inHand EXCEPT ![a] = NoChanges]
    /\ UNCHANGED <<adapterVars, registryVars, call, panicked, since>>

\* A recipient has no entry in subscribeInfoMap: nil dereference.
Panic(a) ==
    /\ Running /\ Unlocked
    /\ ~ (Recipients(a) \subseteq Active)
    /\ panicked' = TRUE
    /\ UNCHANGED <<adapterVars, registryVars, call, inHand, queued, historyVars>>

\* The goroutine of a client takes a notification from its channel.
Deliver(id) ==
    /\ Running
    /\ queued[id] > 0
    /\ queued' = [queued EXCEPT ![id] = @ - 1]
    /\ UNCHANGED <<adapterVars, registryVars, call, inHand, panicked, historyVars>>

-----------------------------------------------------------------------------
Next ==
    \/ \E c \in Callers, m \in Masks, u \in Auths : Subscribe(c, m, u)
    \/ \E p \in Paths : VisitSensor(p) \/ RefuseSensor(p)
    \/ \E a \in Adapters : TellAdapter(a)
    \/ Register
    \/ \E c \in Callers, id \in Ids : Unsubscribe(c, id)
    \/ EndUnsubscribe
    \/ \E w \in Writers, a \in Adapters, ps \in SUBSET Paths :
           Write(w, a, ps) \/ WriteRefused(w, a, ps)
    \/ \E w \in Writers, a \in Adapters : EndWrite(w, a)
    \/ \E a \in Adapters : Receive(a) \/ Dispatch(a) \/ Panic(a)
    \/ \E id \in Ids : Deliver(id)

Spec == Init /\ [][Next]_vars

\* What goes on by itself once it can: the steps of a request under way, the
\* send that ends SetData, the handlers.  A goroutine that waits for a sync.Mutex
\* gets it if it is unlocked again and again (a waiter of 1 ms is served first),
\* hence strong fairness for the steps that take one.
Fairness ==
    /\ \A p \in Paths : SF_vars(VisitSensor(p)) /\ SF_vars(RefuseSensor(p))
    /\ \A a \in Adapters : SF_vars(TellAdapter(a)) /\ SF_vars(Dispatch(a))
    /\ \A a \in Adapters : WF_vars(Receive(a))
    /\ WF_vars(Register \/ EndUnsubscribe)
    /\ \A w \in Writers, a \in Adapters : WF_vars(EndWrite(w, a))

FairSpec == Spec /\ Fairness

-----------------------------------------------------------------------------
(* Properties *)

\* Every variable has its type.
TypeOK ==
    /\ AdapterTypeOK
    /\ subscribeIds \in [Paths -> SUBSET Ids]
    /\ subscribeInfo \in [Ids -> Masks \cup {NoMask}]
    /\ currentSubsID \in 0 .. MaxSubs
    /\ call \in Call
    /\ inHand \in [Adapters -> Message]
    /\ queued \in [Ids -> 0 .. QueueSize]
    /\ panicked \in BOOLEAN
    /\ sent \in [Ids -> Message]
    /\ since \in [Ids -> Message]
    /\ lost \in [Ids -> SUBSET Paths]

\* Whatever the interleaving of requests, an id in the list of a sensor is the id
\* of a live subscription, or the next id to be given out (left there by a
\* Subscribe that is under way or was refused in the match loop).
DanglingOnlyNext ==
    \A p \in Paths : subscribeIds[p] \subseteq Active \cup {currentSubsID}

\* A live subscription is in the list of every sensor its mask matches, and the
\* adapter has been told to report that sensor: an Unsubscribe of another id on
\* the same sensor never takes the reports away from those who stay.
SubscriptionComplete ==
    \A id \in Active : \A p \in MatchedBy[subscribeInfo[id]] :
        id \in subscribeIds[p] /\ subscribe[p]

\* An adapter reports a sensor only for a list that is not empty, but for the
\* moment in which an Unsubscribe has cleaned the list and not yet told it.
FlagsHaveListeners ==
    \A p \in Paths : subscribe[p] =>
        \/ subscribeIds[p] # {}
        \/ call.op = "unsubscribe" /\ p \in call.tell

\* What a call under way has done so far: Subscribe has its id in every list it
\* visited, and the adapters report the visited sensors they were told of;
\* Unsubscribe tells them only of sensors nobody is left on.
CallConsistent ==
    /\ call.op = "none" => call = NoCall
    /\ call.op # "none" => call.by \in Callers
    /\ call.op = "subscribe" =>
          /\ currentSubsID < MaxSubs
          /\ call.mask \in Masks
          /\ call.todo \subseteq MatchedBy[call.mask]
          /\ call.tell \subseteq MatchedBy[call.mask] \ call.todo
          /\ \A p \in MatchedBy[call.mask] \ call.todo :
                /\ currentSubsID \in subscribeIds[p]
                /\ subscribe[p] \/ p \in call.tell
    /\ call.op = "unsubscribe" =>
          /\ call.todo = {}
          /\ \A p \in call.tell : subscribeIds[p] = {}

\* An id that was not given out yet is not live.
FreshIds == \A id \in Active : id < currentSubsID

\* The inductive invariant behind SubscriptionComplete.
RegistryInv ==
    /\ TypeOK
    /\ CallConsistent
    /\ FreshIds
    /\ DanglingOnlyNext
    /\ FlagsHaveListeners
    /\ SubscriptionComplete

\* A change of p has left the table of its adapter and not reached the registry.
InFlight(p) == Queued(p) \/ \E a \in Adapters : inHand[a][p] > 0

\* Once nothing is in flight, a subscriber has been told the present value of
\* each signal it asked for, unless the signal has not changed since it
\* subscribed, or its own channel was full at the last change.
CaughtUp ==
    \A id \in Active : \A p \in MatchedBy[subscribeInfo[id]] :
        \/ InFlight(p)
        \/ sent[id][p] = value[p]
        \/ since[id][p] = value[p]
        \/ p \in lost[id]

\* The changes of one signal reach a subscriber in the order they were made,
\* and none of them twice.
OrderPreserved ==
    [][\A id \in Active, p \in Paths :
           (id \in Active' /\ sent'[id][p] # sent[id][p]) => sent'[id][p] > sent[id][p]]_vars

\* What is on its way to the registry is not newer than the table; what a handler has
\* is newer than what was sent, what is in a channel is newer than both and than what is
\* before it, and what a writer has to send, with the mutex, is the newest.
HandOrdered ==
    \A a \in Adapters, p \in Paths : inHand[a][p] > 0 =>
        /\ a = AdapterOf[p] /\ inHand[a][p] <= value[p]
        /\ \A id \in Ids : sent[id][p] < inHand[a][p]
ChannelOrdered ==
    \A a \in Adapters, p \in Paths : \A i \in 1 .. Len(channel[a]) : channel[a][i][p] > 0 =>
        /\ a = AdapterOf[p] /\ channel[a][i][p] <= value[p]
        /\ \A id \in Ids : sent[id][p] < channel[a][i][p]
        /\ inHand[a][p] < channel[a][i][p]
        /\ \A j \in 1 .. (i - 1) : channel[a][j][p] < channel[a][i][p]
SendingOrdered ==
    \A w \in Writers, p \in Paths : sending[w][p] > 0 =>
        LET a == AdapterOf[p] IN
        /\ mutex[a] = w /\ sending[w][p] <= value[p]
        /\ \A id \in Ids : sent[id][p] < sending[w][p]
        /\ inHand[a][p] < sending[w][p]
        /\ \A i \in 1 .. Len(channel[a]) : channel[a][i][p] < sending[w][p]
        /\ \A q \in Paths : sending[w][q] > 0 => AdapterOf[q] = a

\* The inductive invariant behind OrderPreserved.
OrderInv ==
    /\ \A id \in Ids, p \in Paths : sent[id][p] <= value[p]
    /\ HandOrdered
    /\ ChannelOrdered
    /\ SendingOrdered

\* The present value of p is on its way.
ValueInFlight(p) ==
    LET a == AdapterOf[p] IN
    /\ value[p] > 0
    /\ \/ \E w \in Writers : sending[w][p] = value[p]
       \/ \E i \in 1 .. Len(channel[a]) : channel[a][i][p] = value[p]
       \/ inHand[a][p] = value[p]

\* The inductive invariant behind CaughtUp: while an older value is on its way to a
\* subscriber, so is the present one, or it is the one it found when it subscribed.
CatchingUp ==
    \A id \in Active : \A p \in MatchedBy[subscribeInfo[id]] :
        \/ ValueInFlight(p)
        \/ since[id][p] = value[p]
        \/ ~ InFlight(p) /\ (sent[id][p] = value[p] \/ p \in lost[id])

\* The process never dies of an id without a channel.
NoPanic == ~ panicked

\* A subscriber is told only of signals its request matches.
OnlyRequestedPaths ==
    \A id \in Active, p \in Paths :
        sent[id][p] > 0 => p \in MatchedBy[subscribeInfo[id]]

\* Permissions that never split a mask: a client may read all the sensors a
\* request matches, or none of them.
AllOrNothing ==
    \A m \in Masks, u \in Auths :
        MatchedBy[m] \subseteq Readable[u] \/ MatchedBy[m] \cap Readable[u] = {}

\* If permissions never split a mask, the list of a sensor holds exactly the
\* live subscriptions whose mask matches it, and the id of the Subscribe under
\* way once that has visited the sensor: no call leaves anything behind.
ExactLists ==
    \A p \in Paths : subscribeIds[p] =
        {id \in Active : p \in MatchedBy[subscribeInfo[id]]} \cup
        {id \in {currentSubsID} :
            call.op = "subscribe" /\ p \in MatchedBy[call.mask] \ call.todo}

\* The inductive invariant behind NoPanic and OnlyRequestedPaths.
PromiseInv ==
    /\ RegistryInv
    /\ ExactLists
    /\ call.op = "subscribe" =>
          \/ MatchedBy[call.mask] \subseteq call.readable
          \/ MatchedBy[call.mask] \cap call.readable = {}
             /\ call.todo = MatchedBy[call.mask]
    /\ \A id \in Ids \ Active : sent[id] = NoChanges
    /\ OnlyRequestedPaths
    /\ NoPanic

\* A change that was taken from the table is handed to the registry: no writer
\* and no handler waits for ever.
ChangesDispatched ==
    /\ \A w \in Writers : sending[w] # NoChanges ~> sending[w] = NoChanges
    /\ \A a \in Adapters : inHand[a] # NoChanges ~> inHand[a] = NoChanges

\* Every Subscribe and every Unsubscribe returns.
CallsReturn == call.by # NoOne ~> call.by = NoOne

\* The adapters that the call under way has to ask next, in any order.
Awaited == {AdapterOf[p] : p \in IF call.todo # {} THEN call.todo ELSE call.tell}

\* A writer waits, with the mutex of a, for room in its channel, and the handler of a,
\* which could make room, has changes to dispatch first.
Blocked(a) == mutex[a] # NoOne /\ Len(channel[a]) = ChanSize /\ inHand[a] # NoChanges

\* The call that holds the provider's mutex waits for nothing but such adapters, whose
\* handlers wait for the provider's mutex.
LockCycle == call.by # NoOne /\ Awaited # {} /\ \A a \in Awaited : Blocked(a)

\* Who waits in a lock cycle waits for ever: the call stays where it is.
LockCycleStays == [][LockCycle => LockCycle' /\ call' = call]_vars

\* The call under way can return, or can ask an adapter; or the one that keeps the mutex
\* of the adapter can send, or its handler can receive.
CallGoesOn ==
    \/ Awaited = {}
    \/ \E a \in Awaited :
          \/ mutex[a] = NoOne
          \/ HasToSend(mutex[a], a) /\ Len(channel[a]) < ChanSize
          \/ inHand[a] = NoChanges /\ channel[a] # <<>>

\* A writer can send; or the handler can receive, or can dispatch what it has.
WriterGoesOn(w) ==
    \E a \in Adapters : HasToSend(w, a) /\
        \/ Len(channel[a]) < ChanSize
        \/ inHand[a] = NoChanges /\ channel[a] # <<>>
        \/ inHand[a] # NoChanges /\ Unlocked

\* Nothing but a lock cycle stops a call, and nothing but a call stops a writer.
OnlyLockCyclesStop ==
    /\ ~ Unlocked => LockCycle \/ CallGoesOn
    /\ Unlocked => \A w \in Writers : sending[w] # NoChanges => WriterGoesOn(w)

\* How many steps the call under way has left at most: to visit a signal, to tell its
\* adapter, and to return.
CallLeft == IF Unlocked THEN 0 ELSE 2 * Cardinality(call.todo) + Cardinality(call.tell) + 1

\* A call under way goes on only towards its end: nothing lengthens it or starts it
\* again, and what it does not do itself leaves it alone.
CallsShrink == [][~ Unlocked => call' = call \/ CallLeft' < CallLeft]_vars

\* The inductive invariant behind it: the mutex of an adapter is kept by the one writer
\* that has changes for its channel, and for no other, and that runs no call.
LocksInv ==
    /\ \A w \in Writers, a \in Adapters : HasToSend(w, a) <=> mutex[a] = w
    /\ \A w \in Writers : \A p, q \in Paths :
          sending[w][p] > 0 /\ sending[w][q] > 0 => AdapterOf[p] = AdapterOf[q]
    /\ \A w \in Writers : sending[w] # NoChanges => call.by # w
    /\ \A a \in Adapters : Len(channel[a]) <= ChanSize

\* What the provider promises its clients: only live subscriptions are notified,
\* only of what they asked for, each signal in order, under ids that are new.
Registry == INSTANCE SubscriptionRegistry WITH
    current <- value, mask <- subscribeInfo, nextId <- currentSubsID, seen <- sent

ImplementsRegistry == Registry!Spec
=============================================================================
