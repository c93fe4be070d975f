----------------------- MODULE DataProviderPromiseProofs -----------------------
(***************************************************************************)
(* What DataProvider promises when permissions never split the mask of a   *)
(* request: the process does not die of an id without a channel, and a     *)
(* subscriber is told only of signals it asked for.  Without that          *)
(* assumption both are false.                                              *)
(***************************************************************************)
EXTENDS DataProviderProofs

-----------------------------------------------------------------------------
(* The part of PromiseInv that is about lists and permissions. *)

\* The permissions of the Subscribe under way were decided for its whole mask.
Decided ==
    call.op = "subscribe" =>
        \/ MatchedBy[call.mask] \subseteq call.readable
        \/ MatchedBy[call.mask] \cap call.readable = {} /\ call.todo = MatchedBy[call.mask]

Lists == ExactLists /\ Decided

\* The provider starts with empty lists (New).
LEMMA InitLists == Init => Lists
BY DEF Init, Lists, ExactLists, Decided, Active, NoCall

\* The writers, the handlers and the clients' goroutines leave the lists alone.
LEMMA ListsFrame ==
    ASSUME Lists, UNCHANGED <<registryVars, call>>
    PROVE  Lists'
BY DEF Lists, ExactLists, Decided, Active, registryVars

\* Every action keeps the lists exact.
LEMMA NextLists ==
    ASSUME AllOrNothing, RegistryInv, Lists, [Next]_vars
    PROVE  Lists'
<1>0. /\ subscribeIds \in [Paths -> SUBSET Ids]
      /\ subscribeInfo \in [Ids -> Masks \cup {NoMask}]
      /\ currentSubsID \in 0 .. MaxSubs
      /\ call \in Call
      /\ CallConsistent
      /\ FreshIds
    BY DEF RegistryInv, TypeOK
<1>1. ASSUME NEW c \in Callers, NEW m \in Masks, NEW u \in Auths, Subscribe(c, m, u)
      PROVE  Lists'
    <2>0. UNCHANGED <<subscribeIds, subscribeInfo, currentSubsID>>
        BY <1>1 DEF Subscribe, registryVars
    <2>1. call.op = "none"
        BY <1>0, <1>1, BaseAdapterAssumption, DataProviderAssumption
        DEF Subscribe, Unlocked, CallConsistent, Call
    <2>2. /\ call'.op = "subscribe" /\ call'.mask = m /\ call'.readable = Readable[u]
          /\ call'.todo = MatchedBy[m]
        BY <1>1 DEF Subscribe
    <2>3. Decided'
        BY <2>2 DEF Decided, AllOrNothing
    <2>4. ExactLists'
        BY <2>0, <2>1, <2>2 DEF Lists, ExactLists, Active
    <2>. QED  BY <2>3, <2>4 DEF Lists
<1>2. ASSUME NEW p \in Paths, VisitSensor(p)
      PROVE  Lists'
    <2>0. UNCHANGED <<subscribeInfo, currentSubsID>>
        BY <1>2 DEF VisitSensor
    <2>1. /\ call.op = "subscribe"
          /\ p \in call.todo /\ p \in call.readable
          /\ call.todo \subseteq MatchedBy[call.mask]
          /\ subscribeIds' = [subscribeIds EXCEPT ![p] = @ \cup {currentSubsID}]
        BY <1>0, <1>2 DEF VisitSensor, CallConsistent, Call, NoCall
    <2>2. /\ call'.op = call.op /\ call'.mask = call.mask
          /\ call'.readable = call.readable
          /\ call'.todo = call.todo \ {p}
        BY <1>0, <1>2 DEF VisitSensor, Call
    <2>3. Decided'
        BY <2>1, <2>2 DEF Lists, Decided
    <2>4. ExactLists'
        <3> SUFFICES ASSUME NEW q \in Paths
                     PROVE  subscribeIds'[q] =
                              {id \in Active' : q \in MatchedBy[subscribeInfo'[id]]} \cup
                              {id \in {currentSubsID'} : call'.op = "subscribe"
                                   /\ q \in MatchedBy[call'.mask] \ call'.todo}
            BY DEF ExactLists
        <3>1. Active' = Active
            BY <2>0 DEF Active
        <3>2. subscribeIds[q] =
                {id \in Active : q \in MatchedBy[subscribeInfo[id]]} \cup
                {id \in {currentSubsID} : call.op = "subscribe"
                     /\ q \in MatchedBy[call.mask] \ call.todo}
            BY DEF Lists, ExactLists
        <3>3. CASE q = p
            BY <1>0, <2>0, <2>1, <2>2, <3>1, <3>2, <3>3
        <3>4. CASE q # p
            BY <1>0, <2>0, <2>1, <2>2, <3>1, <3>2, <3>4
        <3>. QED  BY <3>3, <3>4
    <2>. QED  BY <2>3, <2>4 DEF Lists
<1>3. ASSUME NEW p \in Paths, RefuseSensor(p)
      PROVE  Lists'
    <2>0. UNCHANGED <<subscribeIds, subscribeInfo, currentSubsID>> /\ call' = NoCall
        BY <1>3 DEF RefuseSensor, registryVars
    <2>1. /\ call.op = "subscribe"
          /\ p \in call.todo /\ p \notin call.readable
          /\ call.todo \subseteq MatchedBy[call.mask]
        BY <1>0, <1>3 DEF RefuseSensor, CallConsistent, Call, NoCall
    <2>2. call.todo = MatchedBy[call.mask]
        BY <2>1 DEF Lists, Decided
    <2>3. ExactLists'
        BY <2>0, <2>2 DEF Lists, ExactLists, Active, NoCall
    <2>. QED  BY <2>0, <2>3 DEF Lists, Decided, NoCall
<1>4. ASSUME NEW a \in Adapters, TellAdapter(a)
      PROVE  Lists'
    <2>0. /\ UNCHANGED <<subscribeIds, subscribeInfo, currentSubsID>>
          /\ call'.op = call.op /\ call'.mask = call.mask
          /\ call'.readable = call.readable /\ call'.todo = call.todo
        BY <1>0, <1>4 DEF TellAdapter, registryVars, Call
    <2>. QED  BY <2>0 DEF Lists, ExactLists, Decided, Active
<1>5. ASSUME Register
      PROVE  Lists'
    <2>0. /\ UNCHANGED subscribeIds
          /\ call.op = "subscribe" /\ call.todo = {}
          /\ call' = NoCall
          /\ subscribeInfo' = [subscribeInfo EXCEPT ![currentSubsID] = call.mask]
        BY <1>5 DEF Register
    <2>1. currentSubsID \in Ids /\ currentSubsID \notin Active /\ call.mask # NoMask
        BY <1>0, <2>0, DataProviderAssumption DEF CallConsistent, FreshIds, Ids
    <2>2. Active' = Active \cup {currentSubsID}
        BY <1>0, <2>0, <2>1 DEF Active
    <2>3. /\ \A id \in Active : subscribeInfo'[id] = subscribeInfo[id]
          /\ subscribeInfo'[currentSubsID] = call.mask
        BY <1>0, <2>0, <2>1 DEF Active
    <2>4. ExactLists'
        BY <2>0, <2>2, <2>3 DEF Lists, ExactLists, NoCall
    <2>. QED  BY <2>0, <2>4 DEF Lists, Decided, NoCall
<1>6. ASSUME NEW c \in Callers, NEW id \in Ids, Unsubscribe(c, id)
      PROVE  Lists'
    <2>0. /\ UNCHANGED currentSubsID
          /\ subscribeInfo' = [subscribeInfo EXCEPT ![id] = NoMask]
          /\ subscribeIds' = [p \in Paths |-> subscribeIds[p] \ {id}]
          /\ call'.op = "unsubscribe"
        BY <1>6 DEF Unsubscribe, ListsWithout, NoCall
    <2>1. call.op = "none"
        BY <1>0, <1>6, BaseAdapterAssumption, DataProviderAssumption
        DEF Unsubscribe, Unlocked, CallConsistent, Call
    <2>2. /\ Active' = Active \ {id}
          /\ \A i \in Active' : subscribeInfo'[i] = subscribeInfo[i]
        BY <1>0, <2>0 DEF Active
    <2>3. ExactLists'
        BY <2>0, <2>1, <2>2 DEF Lists, ExactLists
    <2>. QED  BY <2>0, <2>3 DEF Lists, Decided
<1>7. ASSUME EndUnsubscribe
      PROVE  Lists'
    <2>0. /\ UNCHANGED <<subscribeIds, subscribeInfo, currentSubsID>>
          /\ call.op = "unsubscribe" /\ call' = NoCall
        BY <1>7 DEF EndUnsubscribe, registryVars
    <2>. QED  BY <2>0 DEF Lists, ExactLists, Decided, Active, NoCall
<1>8. ASSUME NEW w \in Writers, NEW a \in Adapters, NEW ps \in SUBSET Paths,
             Write(w, a, ps) \/ WriteRefused(w, a, ps) \/ EndWrite(w, a)
      PROVE  Lists'
    <2>. QED  BY <1>8, ListsFrame DEF Write, WriteRefused, EndWrite, otherVars
<1>9. ASSUME NEW a \in Adapters, Receive(a) \/ Dispatch(a) \/ Panic(a)
      PROVE  Lists'
    <2>. QED  BY <1>9, ListsFrame DEF Receive, Dispatch, Panic
<1>10. ASSUME NEW id \in Ids, Deliver(id)
       PROVE  Lists'
    <2>. QED  BY <1>10, ListsFrame DEF Deliver
<1>11. CASE UNCHANGED vars
    <2>. QED  BY <1>11, ListsFrame DEF vars
<1>. QED
    BY <1>1, <1>2, <1>3, <1>4, <1>5, <1>6, <1>7, <1>8, <1>9, <1>10, <1>11 DEF Next

-----------------------------------------------------------------------------
(* Notifications *)

\* Between two calls every id in a list has its channel, and is in the lists of
\* the sensors it asked for only.
LEMMA UnlockedLists ==
    ASSUME RegistryInv, ExactLists, Unlocked
    PROVE  \A p \in Paths : \A id \in subscribeIds[p] :
               id \in Active /\ p \in MatchedBy[subscribeInfo[id]]
<1>1. call.op = "none"
    BY BaseAdapterAssumption, DataProviderAssumption
    DEF RegistryInv, TypeOK, CallConsistent, Call, Unlocked
<1>. QED  BY <1>1 DEF ExactLists

\* The part of PromiseInv that is about what was sent.
Told ==
    /\ \A id \in Ids \ Active : sent[id] = NoChanges
    /\ OnlyRequestedPaths
    /\ NoPanic

\* At the start nobody was told of anything (New).
LEMMA InitTold == Init => Told
BY DEF Init, Told, OnlyRequestedPaths, NoPanic, Active, NoChanges

\* What touches neither the registry nor what was told keeps it.
LEMMA ToldFrame ==
    ASSUME Told, UNCHANGED <<subscribeInfo, sent, panicked>>
    PROVE  Told'
BY DEF Told, OnlyRequestedPaths, NoPanic, Active

\* Every action keeps it.
LEMMA NextTold ==
    ASSUME RegistryInv, ExactLists, Told, [Next]_vars
    PROVE  Told'
<1>0. /\ subscribeInfo \in [Ids -> Masks \cup {NoMask}]
      /\ currentSubsID \in 0 .. MaxSubs
      /\ sent \in [Ids -> Message]
      /\ inHand \in [Adapters -> Message]
      /\ CallConsistent
      /\ FreshIds
    BY DEF RegistryInv, TypeOK
<1>1. ASSUME Register
      PROVE  Told'
    <2>0. /\ UNCHANGED <<sent, panicked>>
          /\ call.op = "subscribe"
          /\ subscribeInfo' = [subscribeInfo EXCEPT ![currentSubsID] = call.mask]
        BY <1>1 DEF Register, historyVars
    <2>1. currentSubsID \in Ids /\ currentSubsID \notin Active /\ call.mask # NoMask
        BY <1>0, <2>0, DataProviderAssumption DEF CallConsistent, FreshIds, Ids
    <2>2. /\ Active' = Active \cup {currentSubsID}
          /\ \A id \in Active : subscribeInfo'[id] = subscribeInfo[id]
        BY <1>0, <2>0, <2>1 DEF Active
    <2>3. \A p \in Paths : sent[currentSubsID][p] = 0
        BY <2>1 DEF Told, NoChanges
    <2>4. OnlyRequestedPaths'
        BY <2>0, <2>2, <2>3 DEF Told, OnlyRequestedPaths
    <2>. QED  BY <2>0, <2>2, <2>4 DEF Told, NoPanic
<1>2. ASSUME NEW c \in Callers, NEW id \in Ids, Unsubscribe(c, id)
      PROVE  Told'
    <2>0. /\ UNCHANGED panicked
          /\ subscribeInfo' = [subscribeInfo EXCEPT ![id] = NoMask]
          /\ sent' = [sent EXCEPT ![id] = NoChanges]
        BY <1>2 DEF Unsubscribe
    <2>1. /\ Active' = Active \ {id}
          /\ \A i \in Active' : subscribeInfo'[i] = subscribeInfo[i] /\ sent'[i] = sent[i]
        BY <1>0, <2>0 DEF Active
    <2>2. \A i \in Ids \ Active' : sent'[i] = NoChanges
        BY <1>0, <2>0, <2>1 DEF Told
    <2>3. OnlyRequestedPaths'
        BY <2>1 DEF Told, OnlyRequestedPaths
    <2>. QED  BY <2>0, <2>2, <2>3 DEF Told, NoPanic
<1>3. ASSUME NEW a \in Adapters, Dispatch(a)
      PROVE  Told'
    <2>0. UNCHANGED <<subscribeInfo, panicked>> /\ Unlocked
        BY <1>3 DEF Dispatch, registryVars
    <2>1. \A id \in Ids, p \in Paths :
             \/ sent'[id][p] = sent[id][p]
             \/ id \in subscribeIds[p]
        BY <1>3 DEF Dispatch, PathsFor
    <2>2. \A id \in Ids \ Active : \A p \in Paths : id \notin subscribeIds[p]
        BY <2>0, UnlockedLists
    <2>3. \A id \in Ids \ Active : sent'[id] = [p \in Paths |-> sent[id][p]]
        BY <1>3, <2>2 DEF Dispatch, PathsFor
    <2>4. \A id \in Ids \ Active : sent'[id] = NoChanges
        BY <2>3 DEF Told, NoChanges
    <2>5. OnlyRequestedPaths'
        BY <2>0, <2>1, UnlockedLists DEF Told, OnlyRequestedPaths, Active
    <2>. QED  BY <2>0, <2>4, <2>5 DEF Told, NoPanic, Active
<1>4. ASSUME NEW a \in Adapters, Panic(a)
      PROVE  FALSE
    <2>1. Unlocked /\ ~ (Recipients(a) \subseteq Active)
        BY <1>4 DEF Panic
    <2>. QED  BY <2>1, UnlockedLists DEF Recipients, PathsFor
<1>5. ASSUME NEW c \in Callers, NEW m \in Masks, NEW u \in Auths, Subscribe(c, m, u)
      PROVE  Told'
    BY <1>5, ToldFrame DEF Subscribe, registryVars, historyVars
<1>6. ASSUME NEW p \in Paths, VisitSensor(p) \/ RefuseSensor(p)
      PROVE  Told'
    BY <1>6, ToldFrame DEF VisitSensor, RefuseSensor, registryVars, historyVars
<1>7. ASSUME NEW a \in Adapters, TellAdapter(a) \/ Receive(a)
      PROVE  Told'
    BY <1>7, ToldFrame DEF TellAdapter, Receive, registryVars, historyVars
<1>8. ASSUME EndUnsubscribe
      PROVE  Told'
    BY <1>8, ToldFrame DEF EndUnsubscribe, registryVars, historyVars
<1>9. ASSUME NEW w \in Writers, NEW a \in Adapters, NEW ps \in SUBSET Paths,
             Write(w, a, ps) \/ WriteRefused(w, a, ps) \/ EndWrite(w, a)
      PROVE  Told'
    BY <1>9, ToldFrame
    DEF Write, WriteRefused, EndWrite, otherVars, registryVars, historyVars
<1>10. ASSUME NEW id \in Ids, Deliver(id)
       PROVE  Told'
    BY <1>10, ToldFrame DEF Deliver, registryVars, historyVars
<1>11. CASE UNCHANGED vars
    BY <1>11, ToldFrame DEF vars, registryVars, historyVars
<1>. QED
    BY <1>1, <1>2, <1>3, <1>4, <1>5, <1>6, <1>7, <1>8, <1>9, <1>10, <1>11 DEF Next

-----------------------------------------------------------------------------
(* The theorems *)

\* PromiseInv is an inductive invariant if permissions never split a mask.
THEOREM PromiseInvariant == AllOrNothing /\ Spec => []PromiseInv
<1> SUFFICES ASSUME AllOrNothing PROVE Spec => []PromiseInv
    OBVIOUS
<1>0. RegistryInv => (PromiseInv <=> Lists /\ Told)
    BY DEF PromiseInv, Lists, Decided, Told
<1>1. Init => Lists /\ Told
    BY InitLists, InitTold
<1>2. RegistryInv /\ Lists /\ Told /\ [Next]_vars => (Lists /\ Told)'
    BY NextLists, NextTold DEF Lists
<1>. QED  BY <1>0, <1>1, <1>2, RegistryInvariant, PTL DEF Spec

\* The handler never meets an id that has no channel.
THEOREM ProcessSurvives == AllOrNothing /\ Spec => []NoPanic
BY PromiseInvariant, PTL DEF PromiseInv

\* A subscriber is told only of the signals its request matches.
THEOREM NoForeignSignals == AllOrNothing /\ Spec => []OnlyRequestedPaths
BY PromiseInvariant, PTL DEF PromiseInv

\* No call leaves an id behind in a list.
THEOREM ListsAreExact == AllOrNothing /\ Spec => []ExactLists
BY PromiseInvariant, PTL DEF PromiseInv
=============================================================================
