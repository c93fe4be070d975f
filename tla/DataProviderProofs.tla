-------------------------- MODULE DataProviderProofs --------------------------
(***************************************************************************)
(* Proofs about DataProvider, for any adapters, paths, masks, permissions, *)
(* writers and bounds: its registry, and who waits for whom.               *)
(***************************************************************************)
EXTENDS DataProvider, FiniteSetTheorems, TLAPS

-----------------------------------------------------------------------------
(* Messages *)

\* An empty message is a message.
LEMMA NoChangesIsMessage == NoChanges \in Message
BY DEF NoChanges, Message

\* What SetData collects is a message.
LEMMA ChangedIsMessage ==
    ASSUME value \in [Paths -> 0 .. MaxVersion], NEW ps
    PROVE  Changed(ps) \in Message
BY BaseAdapterAssumption DEF Changed, Message

\* A call that does not exist is a call.
LEMMA NoCallIsCall == NoCall \in Call
BY DEF NoCall, Call

-----------------------------------------------------------------------------
(* The type invariant. *)

\* The provider starts with values of the right types (New).
LEMMA InitTypeOK == Init => TypeOK
<1> SUFFICES ASSUME Init PROVE TypeOK
    OBVIOUS
<1>1. AdapterTypeOK
    <2>1. value \in [Paths -> 0 .. MaxVersion]
        BY BaseAdapterAssumption DEF Init, AdapterInit
    <2>2. subscribe \in [Paths -> BOOLEAN] /\ mutex \in [Adapters -> Writers \cup {NoOne}]
        BY DEF Init, AdapterInit
    <2>3. channel \in [Adapters -> Seq(Message)]
        BY DEF Init, AdapterInit
    <2>4. sending \in [Writers -> Message]
        BY NoChangesIsMessage DEF Init, AdapterInit
    <2>. QED  BY <2>1, <2>2, <2>3, <2>4 DEF AdapterTypeOK
<1>2. /\ subscribeIds \in [Paths -> SUBSET Ids]
      /\ subscribeInfo \in [Ids -> Masks \cup {NoMask}]
      /\ lost \in [Ids -> SUBSET Paths]
    BY DEF Init
<1>3. currentSubsID \in 0 .. MaxSubs /\ queued \in [Ids -> 0 .. QueueSize]
    BY DataProviderAssumption DEF Init
<1>4. call \in Call /\ panicked \in BOOLEAN
    BY NoCallIsCall DEF Init
<1>5. /\ inHand \in [Adapters -> Message]
      /\ sent \in [Ids -> Message]
      /\ since \in [Ids -> Message]
    BY NoChangesIsMessage DEF Init
<1>. QED  BY <1>1, <1>2, <1>3, <1>4, <1>5 DEF TypeOK

\* In the match loop the next id is still to be given out.
LEMMA VisitorsId ==
    ASSUME TypeOK, CallConsistent, call.todo # {}
    PROVE  currentSubsID \in Ids
<1>1. call.op = "subscribe"
    BY DEF TypeOK, CallConsistent, Call, NoCall
<1>2. currentSubsID < MaxSubs /\ currentSubsID \in 0 .. MaxSubs
    BY <1>1 DEF TypeOK, CallConsistent
<1>. QED  BY <1>2, DataProviderAssumption DEF Ids

\* Every action of the specification keeps the types.
LEMMA NextTypeOK == TypeOK /\ CallConsistent /\ [Next]_vars => TypeOK'
<1> SUFFICES ASSUME TypeOK, CallConsistent, [Next]_vars PROVE TypeOK'
    OBVIOUS
<1> USE DEF TypeOK, AdapterTypeOK
<1>1. ASSUME NEW c \in Callers, NEW m \in Masks, NEW u \in Auths, Subscribe(c, m, u)
      PROVE  TypeOK'
    <2>1. call' \in Call
        BY <1>1, DataProviderAssumption DEF Subscribe, Call
    <2>. QED  BY <1>1, <2>1 DEF Subscribe, adapterVars, registryVars, historyVars
<1>2. ASSUME NEW p \in Paths, VisitSensor(p)
      PROVE  TypeOK'
    <2>1. call' \in Call
        BY <1>2 DEF VisitSensor, Call
    <2>2. subscribeIds' \in [Paths -> SUBSET Ids]
        BY <1>2, VisitorsId DEF VisitSensor
    <2>. QED  BY <1>2, <2>1, <2>2 DEF VisitSensor, adapterVars, historyVars
<1>3. ASSUME NEW p \in Paths, RefuseSensor(p)
      PROVE  TypeOK'
    BY <1>3, NoCallIsCall DEF RefuseSensor, adapterVars, registryVars, historyVars
<1>4. ASSUME NEW a \in Adapters, TellAdapter(a)
      PROVE  TypeOK'
    <2>1. call' \in Call
        BY <1>4 DEF TellAdapter, Call
    <2>2. subscribe' \in [Paths -> BOOLEAN]
        BY <1>4 DEF TellAdapter, SetSubscribed
    <2>. QED  BY <1>4, <2>1, <2>2 DEF TellAdapter, SetSubscribed, registryVars, historyVars
<1>5. ASSUME Register
      PROVE  TypeOK'
    <2>1. currentSubsID \in Ids /\ currentSubsID' \in 0 .. MaxSubs
        BY <1>5, DataProviderAssumption DEF Register, CallConsistent, Ids
    <2>2. subscribeInfo' \in [Ids -> Masks \cup {NoMask}]
        BY <1>5, <2>1 DEF Register, Call
    <2>3. value \in Message
        BY DEF Message
    <2>4. since' \in [Ids -> Message]
        BY <1>5, <2>1, <2>3 DEF Register
    <2>. QED  BY <1>5, <2>1, <2>2, <2>4, NoCallIsCall DEF Register, adapterVars
<1>6. ASSUME NEW c \in Callers, NEW id \in Ids, Unsubscribe(c, id)
      PROVE  TypeOK'
    <2>1. call' \in Call
        BY <1>6 DEF Unsubscribe, LastOf, Call, NoCall
    <2>2. /\ subscribeInfo' \in [Ids -> Masks \cup {NoMask}]
          /\ subscribeIds' \in [Paths -> SUBSET Ids]
          /\ lost' \in [Ids -> SUBSET Paths]
        BY <1>6 DEF Unsubscribe, ListsWithout
    <2>3. queued' \in [Ids -> 0 .. QueueSize]
        BY <1>6, DataProviderAssumption DEF Unsubscribe
    <2>4. sent' \in [Ids -> Message] /\ since' \in [Ids -> Message]
        BY <1>6, NoChangesIsMessage DEF Unsubscribe
    <2>. QED  BY <1>6, <2>1, <2>2, <2>3, <2>4 DEF Unsubscribe, adapterVars
<1>7. ASSUME EndUnsubscribe
      PROVE  TypeOK'
    BY <1>7, NoCallIsCall DEF EndUnsubscribe, adapterVars, registryVars, historyVars
<1>8. ASSUME NEW w \in Writers, NEW a \in Adapters, NEW ps \in SUBSET Paths,
             Write(w, a, ps)
      PROVE  TypeOK'
    <2>1. value' \in [Paths -> 0 .. MaxVersion]
        BY <1>8, BaseAdapterAssumption DEF Write, SetData, Written
    <2>2. mutex' \in [Adapters -> Writers \cup {NoOne}]
        BY <1>8 DEF Write, SetData
    <2>3. Changed(ps) \in Message
        BY ChangedIsMessage
    <2>4. sending' \in [Writers -> Message]
        BY <1>8, <2>3 DEF Write, SetData
    <2>. QED  BY <1>8, <2>1, <2>2, <2>4
              DEF Write, SetData, otherVars, registryVars, historyVars
<1>9. ASSUME NEW w \in Writers, NEW a \in Adapters, NEW ps \in SUBSET Paths,
             WriteRefused(w, a, ps)
      PROVE  TypeOK'
    <2>1. value' \in [Paths -> 0 .. MaxVersion]
        BY <1>9, BaseAdapterAssumption DEF WriteRefused, SetDataRefused, Written
    <2>. QED  BY <1>9, <2>1
              DEF WriteRefused, SetDataRefused, otherVars, registryVars, historyVars
<1>10. ASSUME NEW w \in Writers, NEW a \in Adapters, EndWrite(w, a)
       PROVE  TypeOK'
    <2>1. channel' \in [Adapters -> Seq(Message)]
        <3>1. Append(channel[a], sending[w]) \in Seq(Message)
            OBVIOUS
        <3>. QED  BY <1>10, <3>1 DEF EndWrite, SendChanges
    <2>2. mutex' \in [Adapters -> Writers \cup {NoOne}]
        BY <1>10 DEF EndWrite, SendChanges
    <2>3. sending' \in [Writers -> Message]
        BY <1>10, NoChangesIsMessage DEF EndWrite, SendChanges
    <2>. QED  BY <1>10, <2>1, <2>2, <2>3
              DEF EndWrite, SendChanges, otherVars, registryVars, historyVars
<1>11. ASSUME NEW a \in Adapters, Receive(a)
       PROVE  TypeOK'
    <2>1. /\ Head(channel[a]) \in Message
          /\ Tail(channel[a]) \in Seq(Message)
        BY <1>11 DEF Receive, TakeChanges
    <2>2. channel' \in [Adapters -> Seq(Message)] /\ inHand' \in [Adapters -> Message]
        BY <1>11, <2>1 DEF Receive, TakeChanges
    <2>. QED  BY <1>11, <2>2 DEF Receive, TakeChanges, registryVars, historyVars
<1>12. ASSUME NEW a \in Adapters, Dispatch(a)
       PROVE  TypeOK'
    <2>1. queued' \in [Ids -> 0 .. QueueSize]
        BY <1>12, DataProviderAssumption DEF Dispatch
    <2>2. sent' \in [Ids -> Message]
        BY <1>12 DEF Dispatch, Message
    <2>3. lost' \in [Ids -> SUBSET Paths]
        BY <1>12 DEF Dispatch, PathsFor
    <2>4. inHand' \in [Adapters -> Message]
        BY <1>12, NoChangesIsMessage DEF Dispatch
    <2>. QED  BY <1>12, <2>1, <2>2, <2>3, <2>4 DEF Dispatch, adapterVars, registryVars
<1>13. ASSUME NEW a \in Adapters, Panic(a)
       PROVE  TypeOK'
    BY <1>13 DEF Panic, adapterVars, registryVars, historyVars
<1>14. ASSUME NEW id \in Ids, Deliver(id)
       PROVE  TypeOK'
    <2>1. queued' \in [Ids -> 0 .. QueueSize]
        BY <1>14, DataProviderAssumption DEF Deliver
    <2>. QED  BY <1>14, <2>1 DEF Deliver, adapterVars, registryVars, historyVars
<1>15. CASE UNCHANGED vars
    BY <1>15 DEF vars, adapterVars, registryVars, historyVars
<1>. QED
    BY <1>1, <1>2, <1>3, <1>4, <1>5, <1>6, <1>7, <1>8, <1>9, <1>10, <1>11, <1>12,
       <1>13, <1>14, <1>15 DEF Next

-----------------------------------------------------------------------------
(* The registry: lists, live subscriptions and the flags of the adapters. *)

\* The part of RegistryInv that is not about types.
Registered ==
    /\ CallConsistent
    /\ FreshIds
    /\ DanglingOnlyNext
    /\ FlagsHaveListeners
    /\ SubscriptionComplete

\* The provider starts without lists, subscriptions and reports (New).
LEMMA InitRegistered == Init => Registered
BY DEF Init, AdapterInit, NoCall, Registered, CallConsistent, FreshIds,
       DanglingOnlyNext, FlagsHaveListeners, SubscriptionComplete, Active

\* The writers, the handlers and the clients' goroutines leave it alone.
LEMMA RegisteredFrame ==
    ASSUME Registered, UNCHANGED <<subscribe, registryVars, call>>
    PROVE  Registered'
BY DEF Registered, CallConsistent, FreshIds, DanglingOnlyNext,
       FlagsHaveListeners, SubscriptionComplete, Active, registryVars

\* Every action keeps it.
LEMMA NextRegistered == TypeOK /\ Registered /\ [Next]_vars => Registered'
<1> SUFFICES ASSUME TypeOK, Registered, [Next]_vars PROVE Registered'
    OBVIOUS
<1>0. /\ subscribeIds \in [Paths -> SUBSET Ids]
      /\ subscribeInfo \in [Ids -> Masks \cup {NoMask}]
      /\ currentSubsID \in 0 .. MaxSubs
      /\ call \in Call
      /\ subscribe \in [Paths -> BOOLEAN]
    BY DEF TypeOK, AdapterTypeOK
<1>1. ASSUME NEW c \in Callers, NEW m \in Masks, NEW u \in Auths, Subscribe(c, m, u)
      PROVE  Registered'
    <2>0. UNCHANGED <<subscribe, subscribeIds, subscribeInfo, currentSubsID>>
        BY <1>1 DEF Subscribe, adapterVars, registryVars
    <2>1. CallConsistent'
        BY <1>0, <1>1, <2>0 DEF Subscribe, CallConsistent, Call
    <2>2. call.op = "none"
        BY <1>0, <1>1, BaseAdapterAssumption, DataProviderAssumption
        DEF Subscribe, Unlocked, Registered, CallConsistent, Call
    <2>3. FlagsHaveListeners'
        BY <2>0, <2>2 DEF Registered, FlagsHaveListeners
    <2>. QED  BY <2>0, <2>1, <2>3
              DEF Registered, FreshIds, DanglingOnlyNext, SubscriptionComplete, Active
<1>2. ASSUME NEW p \in Paths, VisitSensor(p)
      PROVE  Registered'
    <2>0. UNCHANGED <<subscribe, subscribeInfo, currentSubsID>>
        BY <1>2 DEF VisitSensor, adapterVars
    <2>1. /\ call.op = "subscribe"
          /\ call' = [call EXCEPT !.todo = @ \ {p}, !.tell = @ \cup {p}]
          /\ subscribeIds' = [subscribeIds EXCEPT ![p] = @ \cup {currentSubsID}]
          /\ p \in call.todo
        BY <1>0, <1>2 DEF VisitSensor, Registered, CallConsistent, Call, NoCall
    <2>2. /\ call'.op = call.op /\ call'.by = call.by /\ call'.mask = call.mask
          /\ call'.todo = call.todo \ {p}
          /\ call'.tell = call.tell \cup {p}
        BY <1>0, <2>1 DEF Call
    <2>3. call.todo \subseteq MatchedBy[call.mask]
        BY <1>0, <2>1 DEF Registered, CallConsistent, Call
    <2>4. CallConsistent'
        BY <1>0, <2>0, <2>1, <2>2, <2>3 DEF Registered, CallConsistent
    <2>5. DanglingOnlyNext' /\ SubscriptionComplete' /\ FlagsHaveListeners' /\ FreshIds'
        BY <1>0, <2>0, <2>1, <2>2
        DEF Registered, DanglingOnlyNext, SubscriptionComplete, FlagsHaveListeners,
            FreshIds, Active
    <2>. QED  BY <2>4, <2>5 DEF Registered
<1>3. ASSUME NEW p \in Paths, RefuseSensor(p)
      PROVE  Registered'
    <2>0. UNCHANGED <<subscribe, subscribeIds, subscribeInfo, currentSubsID>> /\ call' = NoCall
        BY <1>3 DEF RefuseSensor, adapterVars, registryVars
    <2>1. call.op = "subscribe"
        BY <1>0, <1>3 DEF RefuseSensor, Registered, CallConsistent, Call, NoCall
    <2>2. CallConsistent'
        BY <2>0 DEF CallConsistent, NoCall
    <2>. QED  BY <2>0, <2>1, <2>2
              DEF Registered, FreshIds, DanglingOnlyNext, FlagsHaveListeners,
                  SubscriptionComplete, Active
<1>4. ASSUME NEW a \in Adapters, TellAdapter(a)
      PROVE  Registered'
    <2> DEFINE ps == call.tell \cap PathsOf(a)
    <2>0. /\ UNCHANGED <<subscribeIds, subscribeInfo, currentSubsID>>
          /\ call.todo = {}
          /\ call' = [call EXCEPT !.tell = @ \ ps]
          /\ subscribe' = [p \in Paths |-> IF p \in ps THEN call.op = "subscribe"
                                           ELSE subscribe[p]]
        BY <1>4 DEF TellAdapter, SetSubscribed, registryVars
    <2>1. /\ call'.op = call.op /\ call'.by = call.by /\ call'.mask = call.mask
          /\ call'.todo = {} /\ call'.tell = call.tell \ ps
        BY <1>0, <2>0 DEF Call
    <2>2. call.op \in {"subscribe", "unsubscribe"}
        BY <1>0, <1>4 DEF TellAdapter, Registered, CallConsistent, Call, NoCall
    <2> HIDE DEF ps
    <2>3. CASE call.op = "subscribe"
        <3>1. MatchedBy[call.mask] \subseteq Paths
            BY <2>3, DataProviderAssumption DEF Registered, CallConsistent
        <3>2. CallConsistent'
            BY <1>0, <2>0, <2>1, <2>3, <3>1 DEF Registered, CallConsistent
        <3>3. FlagsHaveListeners'
            <4>1. \A p \in call.tell : subscribeIds[p] # {}
                BY <2>0, <2>3 DEF Registered, CallConsistent
            <4>. QED  BY <2>0, <2>1, <2>3, <4>1, ps \subseteq call.tell
                      DEF ps, Registered, FlagsHaveListeners
        <3>4. SubscriptionComplete'
            BY <2>0, <2>3, DataProviderAssumption, <1>0
            DEF Registered, SubscriptionComplete, Active
        <3>. QED  BY <2>0, <3>2, <3>3, <3>4
                  DEF Registered, FreshIds, DanglingOnlyNext, Active
    <2>4. CASE call.op = "unsubscribe"
        <3>1. \A p \in ps : subscribeIds[p] = {}
            BY <2>4 DEF ps, Registered, CallConsistent
        <3>2. CallConsistent'
            BY <2>0, <2>1, <2>4 DEF Registered, CallConsistent
        <3>3. FlagsHaveListeners'
            BY <2>0, <2>1, <2>4 DEF Registered, FlagsHaveListeners
        <3>4. SubscriptionComplete'
            BY <2>0, <2>4, <3>1, DataProviderAssumption, <1>0
            DEF Registered, SubscriptionComplete, Active
        <3>. QED  BY <2>0, <3>2, <3>3, <3>4
                  DEF Registered, FreshIds, DanglingOnlyNext, Active
    <2>. QED  BY <2>2, <2>3, <2>4
<1>5. ASSUME Register
      PROVE  Registered'
    <2>0. /\ UNCHANGED <<subscribe, subscribeIds>>
          /\ call.op = "subscribe" /\ call.todo = {} /\ call.tell = {}
          /\ call' = NoCall
          /\ subscribeInfo' = [subscribeInfo EXCEPT ![currentSubsID] = call.mask]
          /\ currentSubsID' = currentSubsID + 1
        BY <1>5 DEF Register, adapterVars
    <2>1. /\ currentSubsID \in Ids
          /\ call.mask \in Masks /\ call.mask # NoMask
          /\ \A p \in MatchedBy[call.mask] : currentSubsID \in subscribeIds[p] /\ subscribe[p]
        BY <1>0, <2>0, DataProviderAssumption DEF Registered, CallConsistent, Ids
    <2>2. Active' = Active \cup {currentSubsID}
        BY <1>0, <2>0, <2>1 DEF Active
    <2>3. CallConsistent'
        BY <2>0 DEF CallConsistent, NoCall
    <2>4. FreshIds'
        BY <1>0, <2>0, <2>1, <2>2 DEF Registered, FreshIds, Active, Ids
    <2>5. DanglingOnlyNext'
        BY <2>0, <2>2 DEF Registered, DanglingOnlyNext
    <2>6. FlagsHaveListeners'
        BY <2>0 DEF Registered, FlagsHaveListeners
    <2>7. SubscriptionComplete'
        BY <1>0, <2>0, <2>1, <2>2 DEF Registered, SubscriptionComplete, Active
    <2>. QED  BY <2>3, <2>4, <2>5, <2>6, <2>7 DEF Registered
<1>6. ASSUME NEW c \in Callers, NEW id \in Ids, Unsubscribe(c, id)
      PROVE  Registered'
    <2>0. /\ UNCHANGED <<subscribe, currentSubsID>>
          /\ subscribeInfo' = [subscribeInfo EXCEPT ![id] = NoMask]
          /\ subscribeIds' = [p \in Paths |-> subscribeIds[p] \ {id}]
          /\ call'.op = "unsubscribe" /\ call'.by = c /\ call'.todo = {}
          /\ call'.tell = {p \in Paths : subscribeIds[p] = {id}}
        BY <1>6 DEF Unsubscribe, ListsWithout, LastOf, adapterVars, NoCall
    <2>1. call.op = "none"
        BY <1>0, <1>6, BaseAdapterAssumption, DataProviderAssumption
        DEF Unsubscribe, Unlocked, Registered, CallConsistent, Call
    <2>2. Active' = Active \ {id}
        BY <1>0, <2>0 DEF Active
    <2>3. CallConsistent'
        BY <2>0 DEF CallConsistent
    <2>4. FreshIds' /\ DanglingOnlyNext'
        BY <1>0, <2>0, <2>2 DEF Registered, FreshIds, DanglingOnlyNext
    <2>5. FlagsHaveListeners'
        BY <1>0, <2>0, <2>1 DEF Registered, FlagsHaveListeners
    <2>6. SubscriptionComplete'
        BY <1>0, <2>0, <2>2, DataProviderAssumption
        DEF Registered, SubscriptionComplete, Active
    <2>. QED  BY <2>3, <2>4, <2>5, <2>6 DEF Registered
<1>7. ASSUME EndUnsubscribe
      PROVE  Registered'
    <2>0. /\ UNCHANGED <<subscribe, subscribeIds, subscribeInfo, currentSubsID>>
          /\ call' = NoCall /\ call.tell = {}
        BY <1>7 DEF EndUnsubscribe, adapterVars, registryVars
    <2>1. CallConsistent'
        BY <2>0 DEF CallConsistent, NoCall
    <2>2. FlagsHaveListeners'
        BY <2>0 DEF Registered, FlagsHaveListeners
    <2>. QED  BY <2>0, <2>1, <2>2
              DEF Registered, FreshIds, DanglingOnlyNext, SubscriptionComplete, Active
<1>8. ASSUME NEW w \in Writers, NEW a \in Adapters, NEW ps \in SUBSET Paths,
             Write(w, a, ps) \/ WriteRefused(w, a, ps) \/ EndWrite(w, a)
      PROVE  Registered'
    <2>. QED  BY <1>8, RegisteredFrame
              DEF Write, WriteRefused, EndWrite, SetData, SetDataRefused, SendChanges, otherVars
<1>9. ASSUME NEW a \in Adapters, Receive(a) \/ Dispatch(a) \/ Panic(a)
      PROVE  Registered'
    <2>. QED  BY <1>9, RegisteredFrame
              DEF Receive, Dispatch, Panic, TakeChanges, adapterVars
<1>10. ASSUME NEW id \in Ids, Deliver(id)
       PROVE  Registered'
    <2>. QED  BY <1>10, RegisteredFrame DEF Deliver, adapterVars
<1>11. CASE UNCHANGED vars
    <2>. QED  BY <1>11, RegisteredFrame DEF vars, adapterVars
<1>. QED
    BY <1>1, <1>2, <1>3, <1>4, <1>5, <1>6, <1>7, <1>8, <1>9, <1>10, <1>11 DEF Next

-----------------------------------------------------------------------------
(* The theorems *)

\* RegistryInv is an inductive invariant of the provider.
THEOREM RegistryInvariant == Spec => []RegistryInv
<1>0. RegistryInv <=> TypeOK /\ Registered
    BY DEF RegistryInv, Registered
<1>1. Init => RegistryInv
    BY <1>0, InitTypeOK, InitRegistered
<1>2. RegistryInv /\ [Next]_vars => RegistryInv'
    <2> SUFFICES ASSUME RegistryInv, [Next]_vars PROVE RegistryInv'
        OBVIOUS
    <2>1. TypeOK /\ Registered /\ CallConsistent
        BY DEF RegistryInv, Registered
    <2>2. TypeOK' /\ Registered'
        BY <2>1, NextTypeOK, NextRegistered
    <2>. QED  BY <2>2 DEF RegistryInv, Registered
<1>. QED  BY <1>1, <1>2, PTL DEF Spec

\* The values of the variables keep their types.
THEOREM TypeCorrect == Spec => []TypeOK
BY RegistryInvariant, PTL DEF RegistryInv

\* However requests, writers and handlers interleave, and whatever the requests
\* that were refused before, a live subscription is in the lists of all the
\* sensors it asked for, and their adapters report them.
THEOREM LiveSubscriptionsAreComplete == Spec => []SubscriptionComplete
BY RegistryInvariant, PTL DEF RegistryInv

\* An id in a list belongs to a live subscription or is the next one.
THEOREM OnlyTheNextIdDangles == Spec => []DanglingOnlyNext
BY RegistryInvariant, PTL DEF RegistryInv

\* Reports that nobody listens to are only those an Unsubscribe is about to end.
THEOREM ReportsHaveListeners == Spec => []FlagsHaveListeners
BY RegistryInvariant, PTL DEF RegistryInv

-----------------------------------------------------------------------------
(* Locks and channels: who waits for whom *)

\* Nobody keeps a mutex, and nothing is in a channel, at the start.
LEMMA InitLocks == Init => LocksInv
<1> SUFFICES ASSUME Init PROVE LocksInv
    OBVIOUS
<1>1. /\ mutex = [a \in Adapters |-> NoOne]
      /\ channel = [a \in Adapters |-> <<>>]
      /\ sending = [w \in Writers |-> NoChanges]
    BY DEF Init, AdapterInit
<1>2. \A w \in Writers, p \in Paths : ~ (sending[w][p] > 0)
    BY <1>1 DEF NoChanges
<1>3. \A w \in Writers, a \in Adapters : ~ HasToSend(w, a)
    BY <1>2 DEF HasToSend, PathsOf
<1>4. \A w \in Writers, a \in Adapters : mutex[a] # w
    BY <1>1, BaseAdapterAssumption
<1>5. \A a \in Adapters : Len(channel[a]) <= ChanSize
    BY <1>1, BaseAdapterAssumption
<1>. QED  BY <1>1, <1>2, <1>3, <1>4, <1>5 DEF LocksInv

\* What is sent depends on the table of the adapters only.
LEMMA SendersFrame ==
    ASSUME LocksInv, UNCHANGED <<mutex, channel, sending>>,
           \A w \in Writers : sending[w] # NoChanges => call'.by # w
    PROVE  LocksInv'
<1>1. \A w \in Writers, a \in Adapters : HasToSend(w, a)' <=> HasToSend(w, a)
    BY DEF HasToSend
<1>. QED  BY <1>1 DEF LocksInv

\* SetData takes the mutex of one adapter, and keeps it for the changes of just that one.
LEMMA WriteLocks ==
    ASSUME TypeOK, LocksInv, NEW w \in Writers, NEW a \in Adapters, NEW ps \in SUBSET Paths,
           Write(w, a, ps)
    PROVE  LocksInv'
<1>1. CASE UNCHANGED <<mutex, sending>>
    BY <1>1, SendersFrame DEF Write, SetData, otherVars, LocksInv
<1>2. CASE ~ UNCHANGED <<mutex, sending>>
    <2>1. /\ mutex[a] = NoOne /\ sending[w] = NoChanges /\ ps \subseteq PathsOf(a)
          /\ Changed(ps) # NoChanges
          /\ mutex' = [mutex EXCEPT ![a] = w]
          /\ sending' = [sending EXCEPT ![w] = Changed(ps)]
          /\ channel' = channel /\ call' = call
          /\ MayWrite(w)
        BY <1>2 DEF Write, SetData, otherVars
    <2>2. /\ mutex'[a] = w /\ \A b \in Adapters \ {a} : mutex'[b] = mutex[b]
          /\ sending'[w] = Changed(ps) /\ \A v \in Writers \ {w} : sending'[v] = sending[v]
        BY <2>1 DEF TypeOK, AdapterTypeOK
    <2>3. \A p \in Paths : Changed(ps)[p] > 0 => AdapterOf[p] = a
        BY <2>1 DEF Changed, PathsOf
    <2>4. \E p \in Paths : Changed(ps)[p] > 0
        <3>1. \A p \in Paths : Changed(ps)[p] \in Nat
            BY ChangedIsMessage DEF TypeOK, AdapterTypeOK, Message
        <3>2. ASSUME \A p \in Paths : Changed(ps)[p] = 0 PROVE FALSE
            BY <2>1, <3>2 DEF Changed, NoChanges
        <3>. QED  BY <3>1, <3>2
    <2>5. /\ HasToSend(w, a)'
          /\ \A b \in Adapters : HasToSend(w, b)' => b = a
          /\ \A v \in Writers \ {w}, b \in Adapters : HasToSend(v, b)' <=> HasToSend(v, b)
        BY <2>2, <2>3, <2>4 DEF HasToSend, PathsOf
    <2>6. \A p \in Paths : ~ (NoChanges[p] > 0)
        BY DEF NoChanges
    <2>7. \A b \in Adapters : ~ HasToSend(w, b)
        BY <2>1, <2>6 DEF HasToSend, PathsOf
    <2>8. \A b \in Adapters : HasToSend(w, b)' <=> mutex'[b] = w
        BY <2>2, <2>5, <2>7 DEF LocksInv
    <2>9. \A v \in Writers \ {w}, b \in Adapters : HasToSend(v, b)' <=> mutex'[b] = v
        BY <2>1, <2>2, <2>5, BaseAdapterAssumption DEF LocksInv
    <2>10. \A v \in Writers : \A p, q \in Paths :
               sending'[v][p] > 0 /\ sending'[v][q] > 0 => AdapterOf[p] = AdapterOf[q]
        BY <2>2, <2>3 DEF LocksInv
    <2>11. \A v \in Writers : sending'[v] # NoChanges => call'.by # v
        <3>1. call.by # w
            <4>1. call.by \in Callers \cup {NoOne}
                BY DEF TypeOK, Call
            <4>. QED  BY <2>1, <4>1, BaseAdapterAssumption DEF MayWrite, Free
        <3>. QED  BY <2>1, <2>2, <3>1 DEF LocksInv
    <2>12. \A b \in Adapters : Len(channel'[b]) <= ChanSize
        BY <2>1 DEF LocksInv
    <2>. QED  BY <2>8, <2>9, <2>10, <2>11, <2>12 DEF LocksInv, NoChanges
<1>. QED  BY <1>1, <1>2

\* The send ends SetData and gives the mutex back.
LEMMA EndWriteLocks ==
    ASSUME TypeOK, LocksInv, NEW w \in Writers, NEW a \in Adapters, EndWrite(w, a)
    PROVE  LocksInv'
<1>1. /\ HasToSend(w, a) /\ Len(channel[a]) < ChanSize /\ mutex[a] = w
      /\ channel' = [channel EXCEPT ![a] = Append(@, sending[w])]
      /\ mutex' = [mutex EXCEPT ![a] = NoOne]
      /\ sending' = [sending EXCEPT ![w] = NoChanges]
      /\ call' = call
    BY DEF EndWrite, SendChanges, otherVars, LocksInv
<1>2. /\ mutex'[a] = NoOne /\ \A b \in Adapters \ {a} : mutex'[b] = mutex[b]
      /\ sending'[w] = NoChanges /\ \A v \in Writers \ {w} : sending'[v] = sending[v]
    BY <1>1 DEF TypeOK, AdapterTypeOK
<1>3. \A p \in Paths : ~ (NoChanges[p] > 0)
    BY DEF NoChanges
<1>4. /\ \A b \in Adapters : ~ HasToSend(w, b)'
      /\ \A v \in Writers \ {w}, b \in Adapters : HasToSend(v, b)' <=> HasToSend(v, b)
    BY <1>2, <1>3 DEF HasToSend, PathsOf
<1>5. \A b \in Adapters \ {a} : mutex[b] # w
    <2> SUFFICES ASSUME NEW b \in Adapters \ {a}, HasToSend(w, b) PROVE FALSE
        BY BaseAdapterAssumption DEF LocksInv
    <2>. QED  BY <1>1 DEF HasToSend, PathsOf, LocksInv
<1>6. \A b \in Adapters : HasToSend(w, b)' <=> mutex'[b] = w
    BY <1>2, <1>4, <1>5, BaseAdapterAssumption
<1>7. \A v \in Writers \ {w}, b \in Adapters : HasToSend(v, b)' <=> mutex'[b] = v
    BY <1>1, <1>2, <1>4, BaseAdapterAssumption DEF LocksInv
<1>8. \A v \in Writers : \A p, q \in Paths :
          sending'[v][p] > 0 /\ sending'[v][q] > 0 => AdapterOf[p] = AdapterOf[q]
    BY <1>2, <1>3 DEF LocksInv
<1>9. \A v \in Writers : sending'[v] # NoChanges => call'.by # v
    BY <1>1, <1>2 DEF LocksInv
<1>10. \A b \in Adapters : Len(channel'[b]) <= ChanSize
    <2>1. channel[a] \in Seq(Message) /\ ChanSize \in Nat
        BY BaseAdapterAssumption DEF TypeOK, AdapterTypeOK
    <2>2. Len(Append(channel[a], sending[w])) <= ChanSize
        BY <1>1, <2>1
    <2>. QED  BY <1>1, <2>2 DEF LocksInv, TypeOK, AdapterTypeOK
<1>. QED  BY <1>6, <1>7, <1>8, <1>9, <1>10 DEF LocksInv, NoChanges

\* A handler receives.
LEMMA ReceiveLocks ==
    ASSUME TypeOK, LocksInv, NEW a \in Adapters, Receive(a)
    PROVE  LocksInv'
<1>1. /\ channel[a] # <<>> /\ channel' = [channel EXCEPT ![a] = Tail(@)]
      /\ UNCHANGED <<mutex, sending, call>>
    BY DEF Receive, TakeChanges
<1>2. \A w \in Writers, b \in Adapters : HasToSend(w, b)' <=> HasToSend(w, b)
    BY <1>1 DEF HasToSend
<1>3. \A b \in Adapters : Len(channel'[b]) <= ChanSize
    <2>1. channel[a] \in Seq(Message) /\ Len(channel[a]) <= ChanSize /\ ChanSize \in Nat
        BY BaseAdapterAssumption DEF TypeOK, AdapterTypeOK, LocksInv
    <2>2. Len(Tail(channel[a])) <= ChanSize
        BY <1>1, <2>1
    <2>. QED  BY <1>1, <2>2 DEF LocksInv, TypeOK, AdapterTypeOK
<1>. QED  BY <1>1, <1>2, <1>3 DEF LocksInv

\* The other steps leave the mutexes alone, and start a call only for a caller with
\* nothing to send.
LEMMA NextLocks == TypeOK /\ LocksInv /\ [Next]_vars => LocksInv'
<1> SUFFICES ASSUME TypeOK, LocksInv, [Next]_vars PROVE LocksInv'
    OBVIOUS
<1>1. ASSUME NEW c \in Callers, NEW m \in Masks, NEW u \in Auths, Subscribe(c, m, u)
      PROVE  LocksInv'
    <2>1. call'.by = c /\ sending[c] = NoChanges
        BY <1>1 DEF Subscribe, Free
    <2>. QED  BY <1>1, <2>1, SendersFrame DEF Subscribe, adapterVars
<1>2. ASSUME NEW c \in Callers, NEW id \in Ids, Unsubscribe(c, id)
      PROVE  LocksInv'
    <2>1. call'.by = c /\ sending[c] = NoChanges
        BY <1>2 DEF Unsubscribe, Free, NoCall
    <2>. QED  BY <1>2, <2>1, SendersFrame DEF Unsubscribe, adapterVars
<1>3. ASSUME UNCHANGED <<mutex, channel, sending>>, call'.by \in {call.by, NoOne}
      PROVE  LocksInv'
    BY <1>3, SendersFrame, BaseAdapterAssumption DEF LocksInv
<1>4. CASE \E p \in Paths : VisitSensor(p)
    <2>1. call \in Call
        BY DEF TypeOK
    <2>. QED  BY <1>3, <1>4, <2>1 DEF VisitSensor, adapterVars, Call
<1>5. CASE \E a \in Adapters : TellAdapter(a)
    <2>1. call \in Call
        BY DEF TypeOK
    <2>. QED  BY <1>3, <1>5, <2>1 DEF TellAdapter, SetSubscribed, Call
<1>6. CASE (\E p \in Paths : RefuseSensor(p)) \/ Register \/ EndUnsubscribe
    BY <1>3, <1>6 DEF RefuseSensor, Register, EndUnsubscribe, NoCall, adapterVars
<1>7. ASSUME NEW w \in Writers, NEW a \in Adapters, NEW ps \in SUBSET Paths,
             Write(w, a, ps) \/ WriteRefused(w, a, ps)
      PROVE  LocksInv'
    BY <1>3, <1>7, WriteLocks DEF WriteRefused, SetDataRefused, otherVars
<1>8. ASSUME NEW w \in Writers, NEW a \in Adapters, EndWrite(w, a)
      PROVE  LocksInv'
    BY <1>8, EndWriteLocks
<1>9. ASSUME NEW a \in Adapters, Receive(a)
      PROVE  LocksInv'
    BY <1>9, ReceiveLocks
<1>10. CASE \/ \E a \in Adapters : Dispatch(a) \/ Panic(a)
            \/ \E id \in Ids : Deliver(id)
            \/ UNCHANGED vars
    BY <1>3, <1>10 DEF Dispatch, Panic, Deliver, vars, adapterVars
<1>. QED
    BY <1>1, <1>2, <1>4, <1>5, <1>6, <1>7, <1>8, <1>9, <1>10 DEF Next

\* The mutex of an adapter is kept between two steps only by the writer that has changes
\* for its channel, which runs no Subscribe or Unsubscribe (SetData, its deferred Unlock).
THEOREM LocksInvariant == Spec => []LocksInv
BY InitLocks, NextLocks, TypeCorrect, PTL DEF Spec

\* Whatever the number of callers, writers and adapters, a Subscribe or an Unsubscribe
\* is stopped by nothing but a lock cycle, and a writer by nothing but such a call:
\* somebody on the way can go on.
THEOREM OnlyLockCycles == Spec => []OnlyLockCyclesStop
<1>1. TypeOK /\ LocksInv => OnlyLockCyclesStop
    <2> SUFFICES ASSUME TypeOK, LocksInv PROVE OnlyLockCyclesStop
        OBVIOUS
    <2>1. \A a \in Adapters : channel[a] \in Seq(Message) /\ ChanSize \in Nat \ {0}
        BY BaseAdapterAssumption DEF TypeOK, AdapterTypeOK
    <2>2. \A a \in Adapters : ~ (Len(channel[a]) < ChanSize) =>
              Len(channel[a]) = ChanSize /\ channel[a] # <<>>
        BY <2>1 DEF LocksInv
    <2>3. ASSUME ~ LockCycle, ~ Unlocked, Awaited # {} PROVE CallGoesOn
        <3>1. PICK a \in Awaited : ~ Blocked(a)
            BY <2>3 DEF LockCycle, Unlocked
        <3>2. a \in Adapters
            BY BaseAdapterAssumption DEF Awaited, TypeOK, Call
        <3>3. mutex[a] # NoOne => HasToSend(mutex[a], a)
            BY <3>2 DEF LocksInv, TypeOK, AdapterTypeOK
        <3>. QED  BY <2>2, <3>1, <3>2, <3>3 DEF Blocked, CallGoesOn
    <2>4. ASSUME Unlocked, NEW w \in Writers, sending[w] # NoChanges PROVE WriterGoesOn(w)
        <3>1. PICK p \in Paths : sending[w][p] # 0
            BY <2>4 DEF NoChanges, TypeOK, AdapterTypeOK, Message
        <3>2. sending[w][p] > 0 /\ AdapterOf[p] \in Adapters
            BY <3>1, BaseAdapterAssumption DEF TypeOK, AdapterTypeOK, Message
        <3>3. HasToSend(w, AdapterOf[p])
            BY <3>2 DEF HasToSend, PathsOf
        <3>. QED  BY <2>2, <2>4, <3>2, <3>3 DEF WriterGoesOn
    <2>. QED  BY <2>3, <2>4 DEF OnlyLockCyclesStop, CallGoesOn
<1>. QED  BY <1>1, LocksInvariant, TypeCorrect, PTL

\* A goroutine in a lock cycle never leaves it, and the call never returns, whatever the
\* others do.
THEOREM LockCyclesStay == Spec => LockCycleStays
<1>1. RegistryInv /\ LocksInv /\ [Next]_vars => (LockCycle => LockCycle' /\ call' = call)
    <2> SUFFICES ASSUME RegistryInv, TypeOK, LocksInv, LockCycle, [Next]_vars
                 PROVE  LockCycle' /\ call' = call
        BY DEF RegistryInv
    <2>1. /\ call.by # NoOne /\ Awaited # {} /\ Awaited \subseteq Adapters
          /\ \A a \in Awaited : Blocked(a)
        BY BaseAdapterAssumption DEF LockCycle, Awaited, TypeOK, Call
    <2>2. ASSUME call' = call,
                 \A a \in Awaited : /\ mutex'[a] = mutex[a] /\ channel'[a] = channel[a]
                                    /\ inHand'[a] = inHand[a]
          PROVE  LockCycle'
        <3>1. Awaited' = Awaited
            BY <2>2 DEF Awaited
        <3>2. \A a \in Awaited : Blocked(a)'
            BY <2>1, <2>2 DEF Blocked, NoChanges
        <3>. QED  BY <2>1, <2>2, <3>1, <3>2 DEF LockCycle
    <2>3. ASSUME NEW p \in Paths, VisitSensor(p) \/ RefuseSensor(p) PROVE FALSE
        BY <2>1, <2>3 DEF VisitSensor, RefuseSensor, Awaited, Blocked
    <2>4. ASSUME NEW a \in Adapters, TellAdapter(a) PROVE FALSE
        BY <2>1, <2>4 DEF TellAdapter, SetSubscribed, Awaited, Blocked, PathsOf
    <2>5. ASSUME Register \/ EndUnsubscribe PROVE FALSE
        <3>1. call.todo = {}
            BY <2>5 DEF Register, EndUnsubscribe, RegistryInv, CallConsistent
        <3>. QED  BY <2>1, <2>5, <3>1 DEF Register, EndUnsubscribe, Awaited
    <2>6. ASSUME NEW c \in Callers,
                 \/ \E m \in Masks, u \in Auths : Subscribe(c, m, u)
                 \/ \E id \in Ids : Unsubscribe(c, id)
          PROVE  FALSE
        BY <2>1, <2>6 DEF Subscribe, Unsubscribe, Unlocked
    <2>7. ASSUME NEW w \in Writers, NEW a \in Adapters, NEW ps \in SUBSET Paths,
                 Write(w, a, ps) \/ WriteRefused(w, a, ps)
          PROVE  LockCycle' /\ call' = call
        <3>1. a \notin Awaited
            BY <2>1, <2>7 DEF Write, WriteRefused, SetData, SetDataRefused, Blocked
        <3>2. /\ \A b \in Adapters \ {a} : mutex'[b] = mutex[b]
              /\ UNCHANGED <<channel, inHand, call>>
            BY <2>7 DEF Write, WriteRefused, SetData, SetDataRefused, otherVars, TypeOK,
               AdapterTypeOK
        <3>. QED  BY <2>1, <2>2, <3>1, <3>2
    <2>8. ASSUME NEW w \in Writers, NEW a \in Adapters, EndWrite(w, a)
          PROVE  LockCycle' /\ call' = call
        <3>1. a \notin Awaited
            BY <2>1, <2>8 DEF EndWrite, SendChanges, Blocked
        <3>2. /\ \A b \in Adapters \ {a} : mutex'[b] = mutex[b] /\ channel'[b] = channel[b]
              /\ UNCHANGED <<inHand, call>>
            BY <2>8 DEF EndWrite, SendChanges, otherVars, TypeOK, AdapterTypeOK
        <3>. QED  BY <2>1, <2>2, <3>1, <3>2
    <2>9. ASSUME NEW a \in Adapters, Receive(a)
          PROVE  LockCycle' /\ call' = call
        <3>1. a \notin Awaited
            BY <2>1, <2>9 DEF Receive, Blocked
        <3>2. /\ \A b \in Adapters \ {a} : inHand'[b] = inHand[b] /\ channel'[b] = channel[b]
              /\ UNCHANGED <<mutex, call>>
            BY <2>9 DEF Receive, TakeChanges, TypeOK, AdapterTypeOK
        <3>. QED  BY <2>1, <2>2, <3>1, <3>2
    <2>10. ASSUME NEW a \in Adapters, Dispatch(a) \/ Panic(a) PROVE FALSE
        BY <2>1, <2>10 DEF Dispatch, Panic, Unlocked
    <2>11. CASE (\E id \in Ids : Deliver(id)) \/ UNCHANGED vars
        BY <2>2, <2>11 DEF Deliver, vars, adapterVars
    <2>. QED
        BY <2>3, <2>4, <2>5, <2>6, <2>7, <2>8, <2>9, <2>10, <2>11 DEF Next
<1>. QED  BY <1>1, LocksInvariant, RegistryInvariant, PTL DEF Spec, LockCycleStays

\* With a single goroutine there is no lock cycle: the writer that keeps the mutex of an
\* adapter runs no call, so a deadlock takes two goroutines, a caller and a producer.
THEOREM NoLockCycle ==
    ASSUME \A v, w \in Writers : v = w
    PROVE  Spec => []~ LockCycle
<1>1. TypeOK /\ LocksInv => ~ LockCycle
    <2> SUFFICES ASSUME TypeOK, LocksInv, LockCycle PROVE FALSE
        OBVIOUS
    <2>1. call.by \in Writers
        BY DataProviderAssumption DEF LockCycle, TypeOK, Call
    <2>2. PICK a \in Awaited : Blocked(a)
        BY DEF LockCycle
    <2>3. a \in Adapters /\ mutex[a] \in Writers
        BY <2>2, BaseAdapterAssumption DEF Awaited, Blocked, TypeOK, Call, AdapterTypeOK
    <2>4. HasToSend(mutex[a], a)
        BY <2>3 DEF LocksInv
    <2>5. sending[mutex[a]] # NoChanges
        BY <2>4 DEF HasToSend, PathsOf, NoChanges
    <2>. QED  BY <2>1, <2>3, <2>5 DEF LocksInv
<1>. QED  BY <1>1, LocksInvariant, TypeCorrect, PTL

\* Whatever writers and handlers do meanwhile, a Subscribe or an Unsubscribe
\* has a bounded number of steps, at most two for a signal that it matches and one to
\* return.  With OnlyLockCycles: it returns, if the goroutines go on, or stops in a lock
\* cycle.
THEOREM CallsAreBounded ==
    ASSUME IsFiniteSet(Paths)
    PROVE  Spec => CallsShrink
<1>1. TypeOK /\ CallConsistent /\ [Next]_vars =>
          (~ Unlocked => call' = call \/ CallLeft' < CallLeft)
    <2> SUFFICES ASSUME TypeOK, CallConsistent, ~ Unlocked, [Next]_vars, call' # call
                 PROVE  CallLeft' < CallLeft
        OBVIOUS
    <2>1. /\ call.todo \subseteq Paths /\ call.tell \subseteq Paths
          /\ IsFiniteSet(call.todo) /\ IsFiniteSet(call.tell)
          /\ Cardinality(call.todo) \in Nat /\ Cardinality(call.tell) \in Nat
        BY FS_Subset, FS_CardinalityType DEF TypeOK, Call
    <2>2. CallLeft = 2 * Cardinality(call.todo) + Cardinality(call.tell) + 1
        BY DEF CallLeft
    <2>3. ASSUME call' = NoCall PROVE CallLeft' < CallLeft
        <3>1. CallLeft' = 0
            BY <2>3 DEF CallLeft, Unlocked, NoCall
        <3>. QED  BY <2>1, <2>2, <3>1
    <2>4. ASSUME NEW p \in Paths, VisitSensor(p) PROVE CallLeft' < CallLeft
        <3>1. /\ p \in call.todo
              /\ call'.by = call.by /\ call'.todo = call.todo \ {p}
              /\ call'.tell = call.tell \cup {p}
            BY <2>4 DEF VisitSensor, TypeOK, Call
        <3>2. Cardinality(call.todo \ {p}) = Cardinality(call.todo) - 1
            BY <2>1, <3>1, FS_RemoveElement
        <3>3. /\ Cardinality(call.tell \cup {p}) <= Cardinality(call.tell) + 1
              /\ Cardinality(call.tell \cup {p}) \in Nat
            <4>1. Cardinality(call.tell \cup {p}) =
                      IF p \in call.tell THEN Cardinality(call.tell)
                      ELSE Cardinality(call.tell) + 1
                BY <2>1, FS_AddElement
            <4>. QED  BY <2>1, <4>1
        <3>4. CallLeft' = 2 * Cardinality(call.todo \ {p}) + Cardinality(call.tell \cup {p}) + 1
            BY <3>1 DEF CallLeft, Unlocked
        <3>. QED  BY <2>1, <2>2, <3>2, <3>3, <3>4
    <2>5. ASSUME NEW a \in Adapters, TellAdapter(a) PROVE CallLeft' < CallLeft
        <3> DEFINE ps == call.tell \cap PathsOf(a)
        <3>1. /\ ps # {} /\ call'.by = call.by /\ call'.todo = call.todo
              /\ call'.tell = call.tell \ ps
            BY <2>5 DEF TellAdapter, TypeOK, Call
        <3>2. call.tell \ ps \subseteq call.tell /\ call.tell \ ps # call.tell
            BY <3>1
        <3>3. /\ Cardinality(call.tell \ ps) < Cardinality(call.tell)
              /\ Cardinality(call.tell \ ps) \in Nat
            BY <2>1, <3>2, FS_Subset, FS_CardinalityType
        <3>4. CallLeft' = 2 * Cardinality(call.todo) + Cardinality(call.tell \ ps) + 1
            BY <3>1 DEF CallLeft, Unlocked
        <3>. QED  BY <2>1, <2>2, <3>3, <3>4
    <2>6. CASE \/ \E p \in Paths : RefuseSensor(p)
               \/ Register \/ EndUnsubscribe
        BY <2>3, <2>6 DEF RefuseSensor, Register, EndUnsubscribe
    <2>7. ASSUME \/ \E c \in Callers, m \in Masks, u \in Auths : Subscribe(c, m, u)
                 \/ \E c \in Callers, id \in Ids : Unsubscribe(c, id)
                 \/ \E w \in Writers, a \in Adapters, ps \in SUBSET Paths :
                       Write(w, a, ps) \/ WriteRefused(w, a, ps)
                 \/ \E w \in Writers, a \in Adapters : EndWrite(w, a)
                 \/ \E a \in Adapters : Receive(a) \/ Dispatch(a) \/ Panic(a)
                 \/ \E id \in Ids : Deliver(id)
                 \/ UNCHANGED vars
          PROVE  FALSE
        BY <2>7 DEF Subscribe, Unsubscribe, Write, WriteRefused, EndWrite, Receive, Dispatch,
           Panic, Deliver, otherVars, vars
    <2>. QED  BY <2>4, <2>5, <2>6, <2>7 DEF Next
<1>2. RegistryInv => TypeOK /\ CallConsistent
    BY DEF RegistryInv
<1>. QED  BY <1>1, <1>2, RegistryInvariant, PTL DEF Spec, CallsShrink
=============================================================================
