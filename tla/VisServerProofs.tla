---------------------------- MODULE VisServerProofs ----------------------------
(***************************************************************************)
(* Proofs about VisServer and WsServer, for any connections, addresses,    *)
(* capacities and numbers of subscriptions.                                *)
(***************************************************************************)
EXTENDS VisServer, TLAPS

-----------------------------------------------------------------------------
(* Types *)

\* The next id of a Subscribe is an id.
LEMMA NextIdIsId ==
    ASSUME TypeOK, nextId < MaxSubs
    PROVE  nextId \in Ids /\ nextId + 1 \in 0 .. MaxSubs /\ nextId # NoId
BY VisServerAssumption DEF TypeOK, Ids, NoId

\* The server starts with values of the right types (New).
LEMMA InitTypeOK == Init => TypeOK
<1> SUFFICES ASSUME Init PROVE TypeOK
    OBVIOUS
<1>1. WsTypeOK
    BY DEF Init, WsInit, WsTypeOK, Phases
<1>2. nextId \in 0 .. MaxSubs /\ queued \in [Ids -> 0 .. QueueSize]
    BY VisServerAssumption DEF Init
<1>. QED  BY <1>1, <1>2 DEF Init, TypeOK

\* A step of the web socket server alone keeps the types.
LEMMA WsTypes ==
    ASSUME WsTypeOK, NEW c \in Conns,
           \/ Accept(c) \/ PeerLost(c) \/ DeleteClient(c) \/ NewClient(c) \/ NewClientFails(c)
           \/ StartRun(c) \/ PeerCloses(c) \/ LeaveRun(c) \/ SendFails(c)
           \/ EndConnection(c) \/ CloseClients \/ EndShutdown
    PROVE  WsTypeOK'
<1>1. CASE Accept(c) \/ PeerLost(c) \/ DeleteClient(c) \/ NewClientFails(c)
    BY <1>1, WsServerAssumption
       DEF WsTypeOK, Phases, Goes, Accept, PeerLost, DeleteClient, NewClientFails
<1>2. CASE NewClient(c) \/ StartRun(c) \/ LeaveRun(c) \/ EndConnection(c)
    BY <1>2, WsServerAssumption
       DEF WsTypeOK, Phases, Goes, NewClient, StartRun, LeaveRun, EndConnection
<1>3. CASE PeerCloses(c) \/ SendFails(c) \/ EndShutdown
    BY <1>3 DEF WsTypeOK, PeerCloses, SendFails, EndShutdown
<1>4. CASE CloseClients
    BY <1>4 DEF WsTypeOK, CloseClients, SayGoodbye
<1>. QED  BY <1>1, <1>2, <1>3, <1>4

\* The steps that begin a request, or the end of a connection, take the mutex and do
\* nothing else.
Begins(c) ==
    \/ ClientDisconnected(c) \/ ProcessSubscribe(c) \/ ProcessUnsubscribeAll(c)
    \/ ProcessAuth(c) \/ ProcessSet(c)

LEMMA BeginsFrame ==
    ASSUME TypeOK, NEW c \in Conns, Begins(c)
    PROVE  /\ Unlocked /\ visLock' = c
           /\ request' \in LongRequests /\ stuck' \in BOOLEAN
           /\ UNCHANGED <<wsVars, clientVars, providerVars, forwardVars, replyVars>>
BY DEF TypeOK, Begins, ClientDisconnected, ProcessSubscribe, ProcessUnsubscribeAll, ProcessAuth,
   ProcessSet, Lock, LongRequests, ProviderCalls, EndsAll

\* Those that end a request release it and do nothing else, but for EndSubscribe,
\* EndAuth and EndDisconnected.
Returns(c) == RefuseSubscribe(c) \/ EndUnsubscribe(c) \/ EndUnsubscribeAll(c) \/ EndSet(c)

LEMMA ReturnsFrame ==
    ASSUME NEW c \in Conns, Returns(c)
    PROVE  /\ visLock = c /\ visLock' = NoConn /\ request' = "none" /\ stuck' = FALSE
           /\ UNCHANGED <<wsVars, clientVars, providerVars, forwardVars, replyVars>>
BY DEF Returns, RefuseSubscribe, EndUnsubscribe, EndUnsubscribeAll, EndSet, GoesOn, KeepsFor,
   Unlock

\* Every step keeps the types.
LEMMA NextTypeOK == TypeOK /\ LockInv /\ [Next]_vars => TypeOK'
<1> SUFFICES ASSUME TypeOK, LockInv, [Next]_vars PROVE TypeOK'
    OBVIOUS
<1> DEFINE VisTypeOK ==
        /\ visLock \in Conns \cup {Main, NoConn}
        /\ request \in LongRequests \cup {"none"} /\ stuck \in BOOLEAN
        /\ known \subseteq Conns /\ permitted \in [Conns -> BOOLEAN]
        /\ subscribeChannels \in [Conns -> SUBSET Ids]
        /\ live \subseteq Ids /\ nextId \in 0 .. MaxSubs /\ privateIds \subseteq live
        /\ forwarder \in [Ids -> {"none", "running", "ended"}]
        /\ client \in [Ids -> Conns \cup {NoConn}]
        /\ queued \in [Ids -> 0 .. QueueSize]
        /\ reply \in [Conns -> Ids \cup {NoId}] /\ answered \subseteq Ids
<1>a. WsTypeOK /\ VisTypeOK
    BY DEF TypeOK
<1>b. UNCHANGED wsVars => WsTypeOK'
    BY <1>a DEF WsTypeOK, wsVars
<1>c. UNCHANGED visVars => VisTypeOK'
    BY <1>a DEF visVars, lockVars, clientVars, providerVars, forwardVars, replyVars
<1>1. ASSUME NEW c \in Conns,
             \/ (Accept(c) \/ PeerLost(c) \/ DeleteClient(c)) /\ UNCHANGED visVars
             \/ ServeConnection(c) \/ ReadCloseFrame(c) \/ ReadFails(c) \/ ReplyFails(c)
      PROVE  TypeOK'
    BY <1>1, <1>a, <1>c, WsTypes
       DEF TypeOK, ServeConnection, ReadCloseFrame, ReadFails, ReplyFails
<1>2. ASSUME NEW c \in Conns, ClientConnected(c) PROVE TypeOK'
    <2>1. WsTypeOK'
        BY <1>2, <1>a, WsTypes DEF ClientConnected
    <2>2. VisTypeOK'
        BY <1>2, <1>a DEF ClientConnected, lockVars, providerVars, forwardVars, replyVars
    <2>. QED  BY <2>1, <2>2 DEF TypeOK
<1>3. ASSUME NEW c \in Conns, Begins(c) PROVE TypeOK'
    <2>1. /\ visLock' = c /\ request' \in LongRequests /\ stuck' \in BOOLEAN
          /\ UNCHANGED <<wsVars, clientVars, providerVars, forwardVars, replyVars>>
        BY <1>3, <1>a, BeginsFrame
    <2>2. VisTypeOK'
        BY <2>1, <1>a DEF clientVars, providerVars, forwardVars, replyVars
    <2>. QED  BY <1>b, <2>1, <2>2 DEF TypeOK
<1>4. ASSUME NEW c \in Conns, Returns(c) PROVE TypeOK'
    <2>1. /\ visLock' = NoConn /\ request' = "none" /\ stuck' = FALSE
          /\ UNCHANGED <<wsVars, clientVars, providerVars, forwardVars, replyVars>>
        BY <1>4, ReturnsFrame
    <2>2. VisTypeOK'
        BY <2>1, <1>a DEF clientVars, providerVars, forwardVars, replyVars
    <2>. QED  BY <1>b, <2>1, <2>2 DEF TypeOK
<1>5. ASSUME NEW c \in Conns, NEW id \in Ids, ProcessUnsubscribe(c, id) \/ CancelNext(c, id)
      PROVE  TypeOK'
    <2>1. VisTypeOK'
        BY <1>5, <1>a DEF ProcessUnsubscribe, CancelNext, Cancel, Rest, Lock, LongRequests,
           ProviderCalls, forwardVars, replyVars
    <2>. QED  BY <1>5, <1>b, <2>1 DEF TypeOK, ProcessUnsubscribe, CancelNext
<1>6. ASSUME NEW c \in Conns, NEW private \in BOOLEAN,
             EndSubscribe(c, private) \/ EndAuth(c, private)
      PROVE  TypeOK'
    <2>1. CASE EndSubscribe(c, private)
        <3>1. nextId \in Ids /\ nextId + 1 \in 0 .. MaxSubs
            BY <2>1, <1>a, NextIdIsId DEF EndSubscribe, GoesOn, KeepsFor, LockInv
        <3>2. VisTypeOK'
            BY <2>1, <3>1, <1>a DEF EndSubscribe, Unlock, NewId
        <3>. QED  BY <2>1, <1>b, <3>2 DEF TypeOK, EndSubscribe
    <2>2. CASE EndAuth(c, private)
        <3>1. VisTypeOK'
            BY <2>2, <1>a DEF EndAuth, Unlock, providerVars, forwardVars, replyVars
        <3>. QED  BY <2>2, <1>b, <3>1 DEF TypeOK, EndAuth
    <2>. QED  BY <1>6, <2>1, <2>2
<1>14. ASSUME NEW c \in Conns, EndDisconnected(c) PROVE TypeOK'
    <2>1. WsTypeOK'
        BY <1>14, <1>a, WsTypes DEF EndDisconnected
    <2>2. VisTypeOK'
        BY <1>14, <1>a DEF EndDisconnected, Unlock, providerVars, forwardVars, replyVars
    <2>. QED  BY <2>1, <2>2 DEF TypeOK
<1>7. ASSUME NEW c \in Conns, SendReply(c) PROVE TypeOK'
    <2>1. VisTypeOK'
        BY <1>7, <1>a DEF SendReply, lockVars, clientVars, providerVars, forwardVars
    <2>2. WsTypeOK'
        BY <1>7, <1>a, <1>b, WsTypes DEF SendReply
    <2>. QED  BY <2>1, <2>2 DEF TypeOK
<1>8. ASSUME NEW id \in Ids, Notify(id) \/ EndForward(id) PROVE TypeOK'
    <2>1. VisTypeOK'
        BY <1>8, <1>a, VisServerAssumption
           DEF Notify, EndForward, lockVars, clientVars, providerVars, replyVars
    <2>. QED  BY <1>8, <1>b, <2>1 DEF TypeOK, Notify, EndForward
<1>9. ASSUME NEW id \in Ids, Forward(id) PROVE TypeOK'
    <2>1. VisTypeOK'
        BY <1>9, <1>a, VisServerAssumption
           DEF Forward, lockVars, clientVars, providerVars, replyVars
    <2>2. SendFails(client[id]) => WsTypeOK'
        BY <1>a DEF WsTypeOK, SendFails
    <2>. QED  BY <1>9, <1>b, <2>1, <2>2 DEF TypeOK, Forward
<1>10. CASE LockToClose
    BY <1>10, <1>a DEF LockToClose, TypeOK, WsTypeOK, clientVars, providerVars, forwardVars,
       replyVars
<1>11. CASE EndClose
    BY <1>11, <1>a DEF EndClose, EndShutdown, TypeOK, WsTypeOK, clientVars, providerVars,
       forwardVars, replyVars
<1>12. CASE CloseWsServer
    <2>1. WsTypeOK'
        BY <1>12, <1>a DEF CloseWsServer, CloseClients, SayGoodbye, WsTypeOK
    <2>. QED  BY <1>12, <1>c, <2>1 DEF CloseWsServer, TypeOK
<1>13. CASE UNCHANGED vars
    BY <1>13, <1>b, <1>c DEF TypeOK, vars
<1>. QED
    BY <1>1, <1>2, <1>3, <1>4, <1>5, <1>6, <1>7, <1>8, <1>9, <1>10, <1>11, <1>12, <1>13, <1>14
    DEF Next, Begins, Returns, ProviderReturns

-----------------------------------------------------------------------------
(* The mutex *)

LEMMA InitLockInv == Init => LockInv
BY VisServerAssumption, WsServerAssumption DEF Init, WsInit, LockInv

\* A step that keeps mutex and request with the one that has them.
LEMMA LockKept ==
    ASSUME LockInv, UNCHANGED <<visLock, request, nextId, closing>>,
           stuck' => request \in ProviderCalls \cup {"set"},
           \A c \in Conns : visLock = c =>
               /\ reply[c] = NoId => reply'[c] = NoId
               /\ phase'[c] = phase[c] /\ (c \in known => c \in known')
    PROVE  LockInv'
BY DEF LockInv

\* A step that releases the mutex.
LEMMA LockFreed ==
    ASSUME LockInv, NEW c \in Conns, visLock = c,
           visLock' = NoConn, request' = "none", stuck' = FALSE, closing' = closing
    PROVE  LockInv'
BY VisServerAssumption, WsServerAssumption DEF LockInv

\* A step that takes it for a request.
LEMMA LockTaken ==
    ASSUME LockInv, NEW c \in Conns, Begins(c) \/ \E id \in Ids : ProcessUnsubscribe(c, id)
    PROVE  LockInv'
<1>1. /\ visLock = NoConn /\ visLock' = c /\ ~ stuck /\ request' # "none"
      /\ closing \notin {"called", "shutdown"}
      /\ UNCHANGED <<wsVars, known, replyVars, nextId>>
      /\ stuck' => request' \in ProviderCalls \cup {"set"}
      /\ request' = "subscribe" => nextId < MaxSubs
    BY VisServerAssumption, WsServerAssumption
    DEF LockInv, Begins, ClientDisconnected, ProcessSubscribe, ProcessUnsubscribe, Cancel,
        ProcessUnsubscribeAll, ProcessAuth, ProcessSet, Lock, Unlocked, ProviderCalls, EndsAll,
        clientVars, providerVars
<1>2. IF request' = "disconnect" THEN phase[c] = "deleted"
      ELSE phase[c] = "running" /\ c \in known /\ reply[c] = NoId
    BY DEF Begins, ClientDisconnected, ProcessSubscribe, ProcessUnsubscribe,
        ProcessUnsubscribeAll, ProcessAuth, ProcessSet, Lock, Requests
<1>. QED  BY <1>1, <1>2, VisServerAssumption, WsServerAssumption DEF LockInv, wsVars, replyVars

LEMMA NextLockInv == TypeOK /\ LockInv /\ [Next]_vars => LockInv'
<1> SUFFICES ASSUME TypeOK, LockInv, [Next]_vars PROVE LockInv'
    OBVIOUS
<1>1. ASSUME NEW c \in Conns,
             \/ (Accept(c) \/ PeerLost(c) \/ DeleteClient(c)) /\ UNCHANGED visVars
             \/ ServeConnection(c) \/ ReadCloseFrame(c) \/ ReadFails(c) \/ ReplyFails(c)
      PROVE  LockInv'
    <2>1. UNCHANGED <<visVars, closing>>
        BY <1>1 DEF Accept, PeerLost, DeleteClient, ServeConnection, NewClient, NewClientFails,
           ReadCloseFrame, PeerCloses, ReadFails, LeaveRun, ReplyFails, SendFails
    <2>2. \A d \in Conns : visLock = d => phase'[d] = phase[d]
        BY <1>1 DEF Accept, PeerLost, DeleteClient, ServeConnection, NewClient, NewClientFails,
           ReadCloseFrame, PeerCloses, ReadFails, LeaveRun, ReplyFails, SendFails, Goes, Reads,
           TypeOK, WsTypeOK, LockInv
    <2>. QED  BY <2>1, <2>2, LockKept DEF LockInv, visVars, lockVars, clientVars, providerVars,
              replyVars
<1>2. ASSUME NEW c \in Conns, ClientConnected(c) PROVE LockInv'
    <2>1. UNCHANGED <<lockVars, nextId, closing, reply>> /\ known \subseteq known'
        BY <1>2 DEF ClientConnected, StartRun, providerVars, replyVars
    <2>2. visLock \notin Conns
        BY <1>2, WsServerAssumption DEF ClientConnected, Unlocked
    <2>. QED  BY <2>1, <2>2, LockKept DEF LockInv, lockVars
<1>3. ASSUME NEW c \in Conns, Begins(c) \/ \E id \in Ids : ProcessUnsubscribe(c, id)
      PROVE  LockInv'
    BY <1>3, LockTaken
<1>4. ASSUME NEW c \in Conns, NEW granted \in BOOLEAN,
             \/ Returns(c) \/ EndSubscribe(c, granted) \/ EndAuth(c, granted)
             \/ EndDisconnected(c)
      PROVE  LockInv'
    <2>1. visLock = c /\ visLock' = NoConn /\ request' = "none" /\ stuck' = FALSE
        BY <1>4, ReturnsFrame DEF EndSubscribe, EndAuth, EndDisconnected, GoesOn, KeepsFor, Unlock
    <2>2. closing' = closing
        BY <1>4, ReturnsFrame DEF EndSubscribe, EndAuth, EndDisconnected, EndConnection, wsVars
    <2>. QED  BY <2>1, <2>2, LockFreed
<1>5. ASSUME NEW c \in Conns, NEW id \in Ids, CancelNext(c, id) PROVE LockInv'
    <2>1. /\ UNCHANGED <<wsVars, visLock, request, nextId, known, reply>>
          /\ request \in ProviderCalls
        BY <1>5 DEF CancelNext, Cancel, GoesOn, KeepsFor, ProviderCalls, replyVars
    <2>. QED  BY <2>1, LockKept DEF wsVars
<1>6. ASSUME NEW c \in Conns, SendReply(c) PROVE LockInv'
    <2>1. /\ UNCHANGED <<visLock, request, stuck, nextId, known, closing, phase>>
          /\ \A d \in Conns : reply[d] = NoId => reply'[d] = NoId
        BY <1>6 DEF SendReply, SendFails, wsVars, lockVars, clientVars, providerVars, TypeOK
    <2>. QED  BY <2>1, LockKept DEF LockInv
<1>7. ASSUME \/ \E id \in Ids : Notify(id) \/ Forward(id) \/ EndForward(id)
             \/ UNCHANGED vars
      PROVE  LockInv'
    <2>1. UNCHANGED <<visLock, request, stuck, nextId, known, closing, phase, reply>>
        BY <1>7 DEF Notify, Forward, EndForward, SendFails, vars, wsVars, visVars, lockVars,
           clientVars, providerVars, replyVars
    <2>. QED  BY <2>1, LockKept DEF LockInv
<1>8. CASE LockToClose \/ CloseWsServer \/ EndClose
    BY <1>8, VisServerAssumption, WsServerAssumption
    DEF LockInv, LockToClose, CloseWsServer, CloseClients, EndClose, EndShutdown, Unlocked,
        visVars, lockVars, clientVars, providerVars, replyVars
<1>. QED
    BY <1>1, <1>2, <1>3, <1>4, <1>5, <1>6, <1>7, <1>8
    DEF Next, Begins, Returns, ProviderReturns

-----------------------------------------------------------------------------
(* What a step of a connection leaves alone *)

\* The subscriptions, if connections only go forward.
LEMMA SubscriptionsFrame ==
    ASSUME TypeOK, SubscriptionsOwned,
           UNCHANGED <<known, subscribeChannels, live, nextId, client>>,
           \A c \in Conns : phase[c] \in {"running", "left", "deleted", "done"} =>
               phase'[c] \in {"running", "left", "deleted", "done"}
    PROVE  SubscriptionsOwned'
BY DEF SubscriptionsOwned

\* The goroutines, if no close frame is taken back.
LEMMA GoroutinesFrame ==
    ASSUME TypeOK, SubscriptionsOwned, GoroutinesConsistent,
           nextId' = nextId, live' \subseteq live,
           UNCHANGED <<forwarder, client, reply, answered>>,
           \A c \in Conns : closeSent[c] => closeSent'[c]
    PROVE  GoroutinesConsistent'
<1> SUFFICES ASSUME NEW id \in Ids
             PROVE  /\ forwarder[id] = "running" => id < nextId
                    /\ id \in live' => forwarder[id] = "running" \/ closeSent'[client[id]]
                    /\ id < nextId => id \in answered \/ reply[client[id]] = id
    BY DEF GoroutinesConsistent
<1>1. id \in live => client[id] \in Conns
    BY DEF SubscriptionsOwned
<1>. QED  BY <1>1 DEF GoroutinesConsistent

\* A step of one connection alone.
LEMMA WsStep ==
    ASSUME ServerInv,
           UNCHANGED <<known, subscribeChannels, live, nextId, forwarder, client, reply, answered>>,
           NEW c \in Conns,
           \/ Accept(c) \/ PeerLost(c) \/ DeleteClient(c) \/ NewClient(c) \/ NewClientFails(c)
           \/ PeerCloses(c) \/ LeaveRun(c) \/ SendFails(c)
           \/ StartRun(c) \/ EndConnection(c)
    PROVE  ConnsConsistent' /\ SubscriptionsOwned' /\ GoroutinesConsistent'
<1>a. WsTypeOK /\ ConnsConsistent
    BY DEF ServerInv, TypeOK
<1>1. \A d \in Conns : phase[d] \in {"running", "left", "deleted", "done"} =>
          phase'[d] \in {"running", "left", "deleted", "done"}
    BY <1>a DEF WsTypeOK, Accept, PeerLost, DeleteClient, NewClient, NewClientFails,
       PeerCloses, LeaveRun, SendFails, StartRun, EndConnection, Goes
<1>2. \A d \in Conns : closeSent[d] => closeSent'[d]
    BY <1>a DEF WsTypeOK, Accept, PeerLost, DeleteClient, NewClient, NewClientFails,
       PeerCloses, LeaveRun, SendFails, StartRun, EndConnection
<1>4. SubscriptionsOwned'
    BY <1>1, SubscriptionsFrame DEF ServerInv
<1>5. GoroutinesConsistent'
    BY <1>2, GoroutinesFrame DEF ServerInv
<1>6. ConnsConsistent'
    <2>1. CASE Accept(c) \/ PeerLost(c) \/ NewClientFails(c) \/ SendFails(c)
        BY <1>a, <2>1 DEF ConnsConsistent, WsTypeOK, Accept, PeerLost, NewClientFails,
           SendFails, Goes
    <2>2. CASE NewClient(c)
        BY <1>a, <2>2, WsServerAssumption DEF ConnsConsistent, WsTypeOK, NewClient, Goes
    <2>3. CASE DeleteClient(c)
        BY <1>a, <2>3, WsServerAssumption DEF ConnsConsistent, WsTypeOK, DeleteClient, Goes
    <2>4. CASE PeerCloses(c) \/ LeaveRun(c) \/ StartRun(c) \/ EndConnection(c)
        BY <1>a, <2>4 DEF ConnsConsistent, WsTypeOK, PeerCloses, LeaveRun, StartRun,
           EndConnection, Goes
    <2>. QED  BY <2>1, <2>2, <2>3, <2>4
<1>. QED  BY <1>4, <1>5, <1>6

\* Close closes what is entered.
LEMMA CloseStep ==
    ASSUME ServerInv, CloseClients,
           UNCHANGED <<known, subscribeChannels, live, nextId, forwarder, client, reply, answered>>
    PROVE  ConnsConsistent' /\ SubscriptionsOwned' /\ GoroutinesConsistent'
<1>a. WsTypeOK /\ ConnsConsistent
    BY DEF ServerInv, TypeOK
<1>1. PICK reached \in SUBSET {d \in Entered : socket[d] # "closed"} :
          closeSent' = [d \in Conns |-> closeSent[d] \/ d \in reached]
    BY DEF CloseClients, SayGoodbye
<1>2. /\ socket' = [d \in Conns |-> IF d \in Entered THEN "closed" ELSE socket[d]]
      /\ UNCHANGED <<phase, wsClients>>
    BY DEF CloseClients
<1>3. ConnsConsistent'
    BY <1>a, <1>1, <1>2 DEF ConnsConsistent, Entered
<1>4. SubscriptionsOwned'
    BY <1>2, SubscriptionsFrame DEF ServerInv
<1>5. GoroutinesConsistent'
    BY <1>1, <1>2, GoroutinesFrame DEF ServerInv
<1>. QED  BY <1>3, <1>4, <1>5

-----------------------------------------------------------------------------
(* The invariant *)

\* There is nothing yet.
LEMMA InitServerInv == Init => ServerInv
<1> SUFFICES ASSUME Init PROVE ServerInv
    OBVIOUS
<1>1. ConnsConsistent
    BY WsServerAssumption DEF Init, WsInit, ConnsConsistent
<1>2. SubscriptionsOwned /\ GoroutinesConsistent
    BY DEF Init, SubscriptionsOwned, GoroutinesConsistent, Ids
<1>. QED  BY <1>1, <1>2, InitTypeOK, InitLockInv DEF ServerInv

\* Consistent says of ServerInv what is not a type.
Consistent == ConnsConsistent /\ SubscriptionsOwned /\ GoroutinesConsistent

\* A step that changes only the lock, the permissions or a queue.
LEMMA NoStep ==
    ASSUME ServerInv,
           UNCHANGED <<phase, wsClients, socket, closeSent, known, subscribeChannels, live, nextId,
                       forwarder, client, reply, answered>>
    PROVE  Consistent'
BY DEF ServerInv, Consistent, ConnsConsistent, SubscriptionsOwned, GoroutinesConsistent

\* Serving a connection begins: a new entry of known.
LEMMA ConnectedStep ==
    ASSUME ServerInv, NEW c \in Conns, ClientConnected(c)
    PROVE  Consistent'
<1>a. WsTypeOK /\ ConnsConsistent /\ SubscriptionsOwned /\ GoroutinesConsistent /\ TypeOK
    BY DEF ServerInv, TypeOK
<1>b. /\ phase' = [phase EXCEPT ![c] = "running"] /\ phase[c] = "upgraded"
      /\ known' = known \cup {c}
      /\ UNCHANGED <<wsClients, socket, closeSent, subscribeChannels, live, nextId,
                     forwarder, client, reply, answered>>
    BY DEF ClientConnected, StartRun, Goes, providerVars, forwardVars, replyVars
<1>1. ConnsConsistent'
    BY <1>a, <1>b DEF ConnsConsistent, WsTypeOK
<1>2. SubscriptionsOwned'
    BY <1>a, <1>b DEF SubscriptionsOwned, WsTypeOK
<1>3. GoroutinesConsistent'
    BY <1>a, <1>b, GoroutinesFrame
<1>. QED  BY <1>1, <1>2, <1>3 DEF Consistent

\* A connection is over, and all it subscribed to was cancelled before.
LEMMA DisconnectedStep ==
    ASSUME ServerInv, NEW c \in Conns, EndDisconnected(c)
    PROVE  Consistent'
<1>a. WsTypeOK /\ ConnsConsistent /\ SubscriptionsOwned /\ GoroutinesConsistent /\ TypeOK
    BY DEF ServerInv, TypeOK
<1>b. /\ phase' = [phase EXCEPT ![c] = "done"]
      /\ known' = known \ {c} /\ subscribeChannels[c] = {}
      /\ UNCHANGED <<wsClients, socket, closeSent, subscribeChannels, live, nextId, forwarder,
                     client, reply, answered>>
    BY DEF EndDisconnected, EndConnection, Goes, providerVars, forwardVars, replyVars
<1>1. ConnsConsistent'
    BY <1>a, <1>b DEF ConnsConsistent, WsTypeOK
<1>2. \A d \in Conns : phase'[d] = IF d = c THEN "done" ELSE phase[d]
    BY <1>a, <1>b DEF WsTypeOK
<1>3. SubscriptionsOwned'
    BY <1>a, <1>b, <1>2 DEF SubscriptionsOwned
<1>4. GoroutinesConsistent'
    BY <1>a, <1>b, GoroutinesFrame
<1>. QED  BY <1>1, <1>3, <1>4 DEF Consistent

\* A subscription is made.
LEMMA SubscribeStep ==
    ASSUME ServerInv, NEW c \in Conns, NEW private \in BOOLEAN, EndSubscribe(c, private)
    PROVE  Consistent'
<1>a. ConnsConsistent /\ SubscriptionsOwned /\ GoroutinesConsistent /\ TypeOK /\ LockInv
    BY DEF ServerInv
<1>b. /\ phase[c] = "running" /\ c \in known /\ reply[c] = NoId
      /\ live' = live \cup {nextId} /\ nextId' = nextId + 1
      /\ UNCHANGED <<phase, wsClients, socket, closeSent, known, answered>>
    BY <1>a DEF EndSubscribe, GoesOn, KeepsFor, LockInv, NewId, wsVars
<1>n. nextId \in Ids /\ nextId \in Nat /\ nextId # NoId
    BY <1>a, NextIdIsId DEF EndSubscribe, GoesOn, KeepsFor, LockInv, Ids
<1>i. \A id \in Ids : (id < nextId' <=> id < nextId \/ id = nextId) /\ id # NoId
    BY <1>b, <1>n, VisServerAssumption DEF Ids, NoId
<1>1. \A d \in Conns : subscribeChannels'[d] =
          IF d = c THEN subscribeChannels[c] \cup {nextId} ELSE subscribeChannels[d]
    BY <1>a DEF EndSubscribe, NewId, TypeOK
<1>2. \A id \in Ids : /\ client'[id] = IF id = nextId THEN c ELSE client[id]
                     /\ forwarder'[id] = IF id = nextId THEN "running" ELSE forwarder[id]
    BY <1>a, <1>n DEF EndSubscribe, NewId, TypeOK
<1>3. \A d \in Conns : reply'[d] = IF d = c THEN nextId ELSE reply[d]
    BY <1>a DEF EndSubscribe, NewId, TypeOK
<1>4. ConnsConsistent'
    BY <1>a, <1>b DEF ConnsConsistent
<1>5. SubscriptionsOwned'
    <2>1. \A d \in Conns : \A id \in subscribeChannels'[d] :
              id < nextId' /\ client'[id] = d /\ d \in known'
        <3> SUFFICES ASSUME NEW d \in Conns, NEW id \in subscribeChannels'[d]
                     PROVE  id < nextId' /\ client'[id] = d /\ d \in known'
            OBVIOUS
        <3>1. CASE id = nextId
            <4>1. nextId \notin subscribeChannels[d]
                BY <1>a, <1>n DEF SubscriptionsOwned
            <4>. QED  BY <3>1, <4>1, <1>b, <1>n, <1>i, <1>1, <1>2
        <3>2. CASE id # nextId
            <4>1. id \in subscribeChannels[d] /\ id \in Ids
                BY <3>2, <1>1, <1>a DEF TypeOK
            <4>. QED  BY <3>2, <4>1, <1>a, <1>b, <1>i, <1>2 DEF SubscriptionsOwned
        <3>. QED  BY <3>1, <3>2
    <2>2. \A id \in live' : id < nextId' /\ id \in subscribeChannels'[client'[id]]
        <3> SUFFICES ASSUME NEW id \in live'
                     PROVE  id < nextId' /\ id \in subscribeChannels'[client'[id]]
            OBVIOUS
        <3>1. CASE id = nextId
            BY <3>1, <1>n, <1>i, <1>1, <1>2
        <3>2. CASE id # nextId
            <4>1. id \in live /\ id \in Ids /\ id < nextId
                BY <3>2, <1>a, <1>b DEF TypeOK, SubscriptionsOwned
            <4>2. client'[id] = client[id] /\ client[id] \in Conns
                BY <3>2, <4>1, <1>a, <1>2 DEF SubscriptionsOwned
            <4>. QED  BY <4>1, <4>2, <1>a, <1>i, <1>1 DEF SubscriptionsOwned
        <3>. QED  BY <3>1, <3>2
    <2>3. \A id \in Ids : id < nextId' =>
              client'[id] \in Conns /\ phase'[client'[id]] \in {"running", "left", "deleted", "done"}
        BY <1>a, <1>b, <1>i, <1>2 DEF SubscriptionsOwned
    <2>. QED  BY <2>1, <2>2, <2>3 DEF SubscriptionsOwned
<1>6. GoroutinesConsistent'
    <2> SUFFICES ASSUME NEW id \in Ids
                 PROVE  /\ forwarder'[id] = "running" => id < nextId'
                        /\ id \in live' => forwarder'[id] = "running" \/ closeSent'[client'[id]]
                        /\ id < nextId' => id \in answered' \/ reply'[client'[id]] = id
        BY DEF GoroutinesConsistent
    <2>1. CASE id = nextId
        BY <2>1, <1>i, <1>2, <1>3
    <2>2. CASE id # nextId
        <3>1. /\ client'[id] = client[id] /\ forwarder'[id] = forwarder[id]
              /\ id < nextId' <=> id < nextId
              /\ id \in live' <=> id \in live
              /\ id < nextId => client[id] \in Conns
            BY <2>2, <1>a, <1>b, <1>i, <1>2 DEF SubscriptionsOwned
        <3>2. id < nextId /\ reply[client[id]] = id => reply'[client[id]] = id
            BY <3>1, <1>b, <1>i, <1>3
        <3>. QED  BY <3>1, <3>2, <1>a, <1>b DEF GoroutinesConsistent
    <2>. QED  BY <2>1, <2>2
<1>. QED  BY <1>4, <1>5, <1>6 DEF Consistent

\* A subscription is ended, perhaps behind the back of the client that made it.
LEMMA UnsubscribeStep ==
    ASSUME ServerInv, NEW c \in Conns, NEW id \in Ids, ProcessUnsubscribe(c, id)
    PROVE  Consistent'
<1>a. ConnsConsistent /\ SubscriptionsOwned /\ GoroutinesConsistent /\ TypeOK
    BY DEF ServerInv
<1>b. /\ live' = live \ {id}
      /\ UNCHANGED <<phase, wsClients, socket, closeSent, known, nextId, forwarder, client,
                     reply, answered>>
    BY DEF ProcessUnsubscribe, Cancel, wsVars, forwardVars, replyVars
<1>1. \A d \in Conns : /\ subscribeChannels'[d] \subseteq subscribeChannels[d]
                      /\ subscribeChannels[d] \subseteq subscribeChannels'[d] \cup {id}
    BY <1>a DEF ProcessUnsubscribe, TypeOK
<1>2. SubscriptionsOwned'
    <2>1. \A other \in live' : other < nextId /\ other \in subscribeChannels'[client[other]]
        BY <1>a, <1>b, <1>1 DEF SubscriptionsOwned, TypeOK
    <2>. QED  BY <1>a, <1>b, <1>1, <2>1 DEF SubscriptionsOwned
<1>3. GoroutinesConsistent'
    BY <1>a, <1>b, GoroutinesFrame
<1>. QED  BY <1>a, <1>b, <1>2, <1>3 DEF Consistent, ConnsConsistent

\* A client ends the next of its own.
LEMMA CancelNextStep ==
    ASSUME ServerInv, NEW c \in Conns, NEW id \in Ids, CancelNext(c, id)
    PROVE  Consistent'
<1>a. ConnsConsistent /\ SubscriptionsOwned /\ GoroutinesConsistent /\ TypeOK
    BY DEF ServerInv
<1>b. /\ live' = live \ {id}
      /\ UNCHANGED <<phase, wsClients, socket, closeSent, known, nextId, forwarder, client,
                     reply, answered>>
    BY DEF CancelNext, Cancel, wsVars, forwardVars, replyVars
<1>1. \A d \in Conns : /\ subscribeChannels'[d] \subseteq subscribeChannels[d]
                      /\ subscribeChannels[d] \subseteq subscribeChannels'[d] \cup {id}
    BY <1>a DEF CancelNext, Rest, TypeOK
<1>2. SubscriptionsOwned'
    <2>1. \A other \in live' : other < nextId /\ other \in subscribeChannels'[client[other]]
        BY <1>a, <1>b, <1>1 DEF SubscriptionsOwned, TypeOK
    <2>. QED  BY <1>a, <1>b, <1>1, <2>1 DEF SubscriptionsOwned
<1>3. GoroutinesConsistent'
    BY <1>a, <1>b, GoroutinesFrame
<1>. QED  BY <1>a, <1>b, <1>2, <1>3 DEF Consistent, ConnsConsistent

\* A response is sent, or cannot be.
LEMMA SendReplyStep ==
    ASSUME ServerInv, NEW c \in Conns, SendReply(c)
    PROVE  Consistent'
<1>a. ConnsConsistent /\ SubscriptionsOwned /\ GoroutinesConsistent /\ TypeOK /\ WsTypeOK
    BY DEF ServerInv, TypeOK
<1>b. /\ UNCHANGED <<phase, wsClients, closeSent, known, subscribeChannels, live, nextId,
                     forwarder, client>>
      /\ answered' = answered \cup {reply[c]}
      /\ \A d \in Conns : d # c => reply'[d] = reply[d]
    BY <1>a DEF SendReply, SendFails, TypeOK, wsVars, clientVars, providerVars, forwardVars
<1>1. \A d \in Conns : socket[d] \in {"gone", "closed"} => socket'[d] \in {"gone", "closed"}
    BY <1>a DEF SendReply, SendFails, WsTypeOK, wsVars
<1>2. ConnsConsistent'
    BY <1>a, <1>b, <1>1 DEF ConnsConsistent
<1>3. SubscriptionsOwned'
    BY <1>a, <1>b, SubscriptionsFrame
<1>4. GoroutinesConsistent'
    <2> SUFFICES ASSUME NEW id \in Ids, id < nextId
                 PROVE  id \in answered' \/ reply'[client[id]] = id
        BY <1>a, <1>b DEF GoroutinesConsistent
    <2>1. client[id] \in Conns
        BY <1>a DEF SubscriptionsOwned
    <2>2. id \in answered \/ reply[client[id]] = id
        BY <1>a DEF GoroutinesConsistent
    <2>. QED  BY <1>b, <2>1, <2>2
<1>. QED  BY <1>2, <1>3, <1>4 DEF Consistent

\* A notification is forwarded, or ends the goroutine of a connection that was told to
\* close.
LEMMA ForwardStep ==
    ASSUME ServerInv, NEW id \in Ids, Forward(id)
    PROVE  Consistent'
<1>a. ConnsConsistent /\ SubscriptionsOwned /\ GoroutinesConsistent /\ TypeOK
    BY DEF ServerInv
<1>b. UNCHANGED <<known, subscribeChannels, live, nextId, client, reply, answered>>
    BY DEF Forward, clientVars, providerVars, replyVars
<1>1. CASE closeSent[client[id]]
    <2>1. /\ UNCHANGED <<phase, wsClients, socket, closeSent>>
          /\ forwarder' = [forwarder EXCEPT ![id] = "ended"]
        BY <1>1 DEF Forward, wsVars
    <2>2. GoroutinesConsistent'
        BY <1>a, <1>b, <1>1, <2>1 DEF GoroutinesConsistent, TypeOK
    <2>. QED  BY <1>a, <1>b, <2>1, <2>2 DEF Consistent, ConnsConsistent, SubscriptionsOwned
<1>2. CASE ~ closeSent[client[id]] /\ UNCHANGED wsVars
    BY <1>2, <1>b, NoStep DEF Forward, wsVars
<1>3. CASE ~ closeSent[client[id]] /\ SendFails(client[id])
    <2>1. client[id] \in Conns
        BY <1>a DEF Forward, GoroutinesConsistent, SubscriptionsOwned
    <2>2. forwarder' = forwarder
        BY <1>3 DEF Forward
    <2>. QED  BY <1>3, <1>b, <2>1, <2>2, WsStep DEF Consistent
<1>. QED  BY <1>1, <1>2, <1>3 DEF Forward

\* The goroutine of a subscription that was ended ends.
LEMMA EndForwardStep ==
    ASSUME ServerInv, NEW id \in Ids, EndForward(id)
    PROVE  Consistent'
<1>a. ConnsConsistent /\ SubscriptionsOwned /\ GoroutinesConsistent /\ TypeOK
    BY DEF ServerInv
<1>b. /\ UNCHANGED <<phase, wsClients, socket, closeSent, known, subscribeChannels, live, nextId,
                     client, reply, answered>>
      /\ id \notin live
      /\ forwarder' = [forwarder EXCEPT ![id] = "ended"]
    BY DEF EndForward, wsVars, clientVars, providerVars, replyVars
<1>1. GoroutinesConsistent'
    BY <1>a, <1>b DEF GoroutinesConsistent, TypeOK
<1>. QED  BY <1>a, <1>b, <1>1 DEF Consistent, ConnsConsistent, SubscriptionsOwned

\* Every step keeps the invariant.
LEMMA NextServerInv == ServerInv /\ [Next]_vars => ServerInv'
<1> SUFFICES ASSUME ServerInv, [Next]_vars PROVE Consistent'
    BY NextTypeOK, NextLockInv DEF ServerInv, Consistent
<1>1. ASSUME NEW c \in Conns,
             \/ (Accept(c) \/ PeerLost(c) \/ DeleteClient(c)) /\ UNCHANGED visVars
             \/ ServeConnection(c) \/ ReadCloseFrame(c) \/ ReadFails(c) \/ ReplyFails(c)
      PROVE  Consistent'
    <2>1. UNCHANGED <<known, subscribeChannels, live, nextId, forwarder, client, reply, answered>>
        BY <1>1 DEF ServeConnection, ReadCloseFrame, ReadFails, ReplyFails, visVars,
           clientVars, providerVars, forwardVars, replyVars
    <2>. QED  BY <1>1, <2>1, WsStep DEF Consistent, ServeConnection, ReadCloseFrame, ReadFails,
              ReplyFails
<1>2. ASSUME NEW c \in Conns, ClientConnected(c) \/ EndDisconnected(c) PROVE Consistent'
    BY <1>2, ConnectedStep, DisconnectedStep
<1>3. ASSUME NEW c \in Conns, NEW private \in BOOLEAN, EndSubscribe(c, private)
      PROVE  Consistent'
    BY <1>3, SubscribeStep
<1>4. ASSUME NEW c \in Conns, NEW id \in Ids, ProcessUnsubscribe(c, id) \/ CancelNext(c, id)
      PROVE  Consistent'
    BY <1>4, UnsubscribeStep, CancelNextStep
<1>5. ASSUME NEW c \in Conns, SendReply(c) PROVE Consistent'
    BY <1>5, SendReplyStep
<1>6. ASSUME NEW c \in Conns, NEW granted \in BOOLEAN,
             Begins(c) \/ Returns(c) \/ EndAuth(c, granted)
      PROVE  Consistent'
    <2>1. UNCHANGED <<wsVars, known, subscribeChannels, providerVars, forwardVars, replyVars>>
        BY <1>6, BeginsFrame, ReturnsFrame DEF ServerInv, EndAuth, clientVars
    <2>. QED  BY <2>1, NoStep DEF wsVars, providerVars, forwardVars, replyVars
<1>7. ASSUME NEW id \in Ids, Notify(id) \/ Forward(id) \/ EndForward(id) PROVE Consistent'
    <2>1. CASE Notify(id)
        BY <2>1, NoStep DEF Notify, wsVars, clientVars, providerVars, replyVars
    <2>. QED  BY <1>7, <2>1, ForwardStep, EndForwardStep
<1>8. CASE LockToClose \/ EndClose
    BY <1>8, NoStep DEF LockToClose, EndClose, EndShutdown, clientVars, providerVars,
       forwardVars, replyVars
<1>9. CASE CloseWsServer
    <2>1. UNCHANGED <<known, subscribeChannels, live, nextId, forwarder, client, reply, answered>>
        BY <1>9 DEF CloseWsServer, visVars, clientVars, providerVars, forwardVars, replyVars
    <2>. QED  BY <1>9, <2>1, CloseStep DEF CloseWsServer, Consistent
<1>10. CASE UNCHANGED vars
    BY <1>10, NoStep DEF vars, wsVars, visVars, clientVars, providerVars, forwardVars, replyVars
<1>. QED  BY <1>1, <1>2, <1>3, <1>4, <1>5, <1>6, <1>7, <1>8, <1>9, <1>10
          DEF Next, Begins, Returns, ProviderReturns

-----------------------------------------------------------------------------
(* What follows for every execution *)

\* The types and the invariant hold for any number of clients and subscriptions.
THEOREM ServerInvariant == Spec => []ServerInv
<1>1. ServerInv /\ [Next]_vars => ServerInv'
    BY NextServerInv
<1>. QED  BY <1>1, InitServerInv, PTL DEF Spec

THEOREM ServerTyped == Spec => []TypeOK
<1>1. ServerInv => TypeOK
    BY DEF ServerInv
<1>. QED  BY <1>1, ServerInvariant, PTL

\* A live subscription belongs to exactly one connected client, the one its
\* notifications go to, however clients come, go and end each other's subscriptions.
THEOREM NoSubscriptionIsOrphaned == Spec => []NoOrphans
<1>1. ServerInv => NoOrphans
    <2> SUFFICES ASSUME ServerInv, NEW id \in live, NEW c \in Conns
                 PROVE  (c \in known /\ id \in subscribeChannels[c]) <=> c = client[id]
        BY DEF NoOrphans
    <2>1. id < nextId /\ id \in subscribeChannels[client[id]]
        BY DEF ServerInv, SubscriptionsOwned
    <2>2. client[id] \in Conns
        BY <2>1 DEF ServerInv, TypeOK, SubscriptionsOwned
    <2>. QED  BY <2>1, <2>2 DEF ServerInv, SubscriptionsOwned
<1>. QED  BY <1>1, ServerInvariant, PTL

\* The goroutine of a live subscription runs while its connection is open.
THEOREM LiveSubscriptionsAreForwarded == Spec => []LiveIsForwarded
<1>1. ServerInv => LiveIsForwarded
    BY DEF ServerInv, LiveIsForwarded, TypeOK, ConnsConsistent, SubscriptionsOwned,
       GoroutinesConsistent
<1>. QED  BY <1>1, ServerInvariant, PTL

\* A notification reaches a client before the id it carries only while the response
\* with this id is the next thing the client's own read loop sends.
THEOREM ClientsKnowTheirIds == Spec => KnowsItsIds
<1> DEFINE Knows ==
        \A id \in Ids :
           queued'[id] < queued[id] /\ socket[client[id]] = "open" /\ ~ closeSent[client[id]]
               => id \in answered \/ reply[client[id]] = id
<1>1. ASSUME ServerInv, [Next]_vars PROVE Knows
    <2> SUFFICES ASSUME NEW id \in Ids, queued'[id] < queued[id],
                        socket[client[id]] = "open", ~ closeSent[client[id]]
                 PROVE  id \in answered \/ reply[client[id]] = id
        OBVIOUS
    <2>t. queued \in [Ids -> Nat]
        BY <1>1, VisServerAssumption DEF ServerInv, TypeOK
    <2>1. UNCHANGED queued \/ \E i \in Ids : Notify(i) \/ Forward(i)
        <3>1. ASSUME NEW c \in Conns,
                     \/ UNCHANGED visVars
                     \/ ServeConnection(c) \/ ReadCloseFrame(c) \/ ReadFails(c) \/ ReplyFails(c)
                     \/ ClientConnected(c) \/ EndDisconnected(c) \/ SendReply(c)
                     \/ Begins(c) \/ Returns(c)
              PROVE  UNCHANGED queued
            BY <1>1, <3>1, BeginsFrame, ReturnsFrame DEF ServerInv, visVars, forwardVars,
               ServeConnection, ReadCloseFrame, ReadFails, ReplyFails, ClientConnected,
               EndDisconnected, SendReply
        <3>2. \/ \E c \in Conns, private \in BOOLEAN :
                     EndSubscribe(c, private) \/ EndAuth(c, private)
              \/ \E c \in Conns, i \in Ids : ProcessUnsubscribe(c, i) \/ CancelNext(c, i)
              \/ LockToClose \/ CloseWsServer \/ EndClose
              => UNCHANGED queued
            BY DEF EndSubscribe, EndAuth, ProcessUnsubscribe, CancelNext, LockToClose,
               CloseWsServer, EndClose, visVars, forwardVars
        <3>. QED  BY <1>1, <3>1, <3>2 DEF Next, Begins, Returns, ProviderReturns, EndForward,
                  vars, visVars, forwardVars
    <2>2. PICK i \in Ids : Notify(i) \/ Forward(i)
        BY <2>t, <2>1
    <2>3. \A j \in Ids : j # i => queued'[j] = queued[j]
        BY <2>t, <2>2 DEF Notify, Forward
    <2>4. ~ Notify(i)
        BY <2>t, <2>3 DEF Notify
    <2>5. i = id /\ Forward(i)
        BY <2>t, <2>2, <2>3, <2>4
    <2>6. forwarder[id] = "running"
        BY <2>5 DEF Forward
    <2>. QED  BY <1>1, <2>6 DEF ServerInv, GoroutinesConsistent
<1>. QED  BY <1>1, ServerInvariant, PTL DEF KnowsItsIds, Spec

-----------------------------------------------------------------------------
(* Close *)

LEMMA InitCloseInv == Init => CloseInv
<1> SUFFICES ASSUME Init PROVE CloseInv
    OBVIOUS
<1>1. WsTypeOK
    BY DEF Init, WsInit, WsTypeOK, Phases
<1>. QED  BY <1>1 DEF Init, WsInit, CloseInv

\* A step of one connection.
LEMMA ConnectionCloseInv ==
    ASSUME OwnAddresses, CloseInv, NEW c \in Conns,
           \/ Accept(c) \/ PeerLost(c) \/ DeleteClient(c) \/ NewClient(c) \/ NewClientFails(c)
           \/ StartRun(c) \/ PeerCloses(c) \/ LeaveRun(c) \/ SendFails(c) \/ EndConnection(c)
    PROVE  CloseInv'
<1>a. WsTypeOK /\ WsTypeOK'
    BY WsTypes DEF CloseInv
<1>1. CASE Accept(c) \/ PeerLost(c) \/ NewClientFails(c)
    BY <1>a, <1>1 DEF CloseInv, WsTypeOK, Accept, PeerLost, NewClientFails, Goes
<1>2. CASE DeleteClient(c)
    BY <1>a, <1>2, WsServerAssumption DEF CloseInv, OwnAddresses, WsTypeOK, DeleteClient, Goes
<1>3. CASE NewClient(c)
    BY <1>a, <1>3, WsServerAssumption
       DEF CloseInv, OwnAddresses, WsTypeOK, NewClient, Goes, wsUnlocked
<1>4. CASE StartRun(c) \/ LeaveRun(c) \/ EndConnection(c)
    BY <1>a, <1>4 DEF CloseInv, WsTypeOK, StartRun, LeaveRun, EndConnection, Goes
<1>5. CASE PeerCloses(c) \/ SendFails(c)
    BY <1>a, <1>5 DEF CloseInv, WsTypeOK, PeerCloses, SendFails
<1>. QED  BY <1>1, <1>2, <1>3, <1>4, <1>5

LEMMA NextCloseInv ==
    ASSUME OwnAddresses, TypeOK, SubscriptionsOwned, GoroutinesConsistent, CloseInv, [Next]_vars
    PROVE  CloseInv'
<1>u. UNCHANGED wsVars => CloseInv'
    BY DEF CloseInv, WsTypeOK, wsVars
<1>1. ASSUME NEW c \in Conns,
             \/ Accept(c) \/ PeerLost(c) \/ DeleteClient(c)
             \/ ServeConnection(c) \/ ReadCloseFrame(c) \/ ReadFails(c) \/ ReplyFails(c)
             \/ ClientConnected(c) \/ EndDisconnected(c) \/ SendReply(c)
      PROVE  CloseInv'
    BY <1>1, <1>u, ConnectionCloseInv
       DEF ServeConnection, ReadCloseFrame, ReadFails, ReplyFails, ClientConnected,
           EndDisconnected, SendReply
<1>2. \/ \E c \in Conns, private \in BOOLEAN : EndSubscribe(c, private) \/ EndAuth(c, private)
      \/ \E c \in Conns, id \in Ids : ProcessUnsubscribe(c, id) \/ CancelNext(c, id)
      \/ \E c \in Conns : Begins(c) \/ Returns(c)
      => CloseInv'
    BY <1>u, BeginsFrame, ReturnsFrame
    DEF EndSubscribe, EndAuth, ProcessUnsubscribe, CancelNext
<1>3. ASSUME NEW id \in Ids, Notify(id) \/ Forward(id) \/ EndForward(id) PROVE CloseInv'
    <2>1. CASE Forward(id)
        <3>1. client[id] \in Conns
            BY <2>1 DEF Forward, SubscriptionsOwned, GoroutinesConsistent
        <3>. QED  BY <2>1, <3>1, <1>u, ConnectionCloseInv DEF Forward
    <2>. QED  BY <1>3, <2>1, <1>u DEF Notify, EndForward
<1>4. CASE LockToClose
    BY <1>4 DEF LockToClose, CloseInv, WsTypeOK
<1>5. CASE CloseWsServer
    <2>1. WsTypeOK'
        BY <1>5 DEF CloseInv, CloseWsServer, CloseClients, SayGoodbye, WsTypeOK
    <2>2. /\ closing' = "shutdown" /\ UNCHANGED <<phase, wsClients>>
          /\ socket' = [c \in Conns |-> IF c \in Entered THEN "closed" ELSE socket[c]]
        BY <1>5 DEF CloseWsServer, CloseClients
    <2>. QED  BY <2>1, <2>2 DEF CloseInv, Entered
<1>6. CASE EndClose
    BY <1>6 DEF EndClose, EndShutdown, CloseInv, WsTypeOK
<1>7. CASE UNCHANGED vars
    BY <1>7, <1>u DEF vars
<1>. QED  BY <1>1, <1>2, <1>3, <1>4, <1>5, <1>6, <1>7 DEF Next, Begins, Returns, ProviderReturns

\* If no two connections have the same address, every connection that is served is
\* entered, and closed from Shutdown on.
THEOREM ServedIsEntered == ASSUME OwnAddresses PROVE Spec => []CloseInv
<1>1. ServerInv /\ CloseInv /\ [Next]_vars => CloseInv'
    BY NextCloseInv DEF ServerInv
<1>. QED  BY <1>1, InitCloseInv, ServerInvariant, PTL DEF Spec

\* Then Close leaves no connection open that was upgraded.
THEOREM CloseClosesAll == ASSUME OwnAddresses PROVE Spec => []AllClosed
<1>1. CloseInv => AllClosed
    BY DEF CloseInv, AllClosed
<1>. QED  BY <1>1, ServedIsEntered, PTL

-----------------------------------------------------------------------------
(* The mutex *)

\* The mutex of the VIS server belongs to the client whose request is under way, or to
\* Close (ProcessMessage, Close and their deferred Unlock).
THEOREM LockInvariant == Spec => []LockInv
<1>1. ServerInv => LockInv
    BY DEF ServerInv
<1>. QED  BY <1>1, ServerInvariant, PTL

\* A Close that waits for a connection that waits for it never returns, and nobody is
\* served any more, whatever the clients and their connections do.
THEOREM CloseCyclesStay == Spec => CloseCycleStays
<1>1. TypeOK /\ LockInv /\ [Next]_vars =>
          \A c \in Conns : CloseCycle(c) =>
              CloseCycle(c)' /\ visLock' = visLock /\ UNCHANGED <<clientVars, providerVars>>
    <2> SUFFICES ASSUME TypeOK, LockInv, [Next]_vars, NEW c \in Conns, CloseCycle(c)
                 PROVE  /\ CloseCycle(c)' /\ visLock' = visLock
                        /\ UNCHANGED <<clientVars, providerVars>>
        OBVIOUS
    <2> DEFINE Stuck == /\ closing' = "shutdown" /\ phase'[c] = "accepted"
                        /\ visLock' = visLock /\ UNCHANGED <<clientVars, providerVars>>
    <2>1. visLock = Main /\ closing = "shutdown" /\ phase[c] = "accepted"
        BY VisServerAssumption DEF LockInv, CloseCycle
    <2>2. ~ Unlocked /\ ~ wsUnlocked /\ visLock \notin Conns
        BY <2>1, VisServerAssumption DEF Unlocked, wsUnlocked
    <2>3. ASSUME NEW d \in Conns,
                 \/ ReadCloseFrame(d) \/ ReadFails(d) \/ ReplyFails(d)
                 \/ (PeerLost(d) \/ Accept(d)) /\ UNCHANGED visVars
          PROVE  Stuck
        BY <2>1, <2>3 DEF ReadCloseFrame, PeerCloses, ReadFails, LeaveRun, ReplyFails, SendFails,
           PeerLost, Accept, Goes, visVars, lockVars, TypeOK, WsTypeOK
    <2>4. ASSUME NEW d \in Conns, ServeConnection(d) \/ DeleteClient(d) PROVE FALSE
        BY <2>2, <2>4 DEF ServeConnection, NewClient, NewClientFails, DeleteClient
    <2>5. ASSUME NEW d \in Conns,
                 \/ ClientConnected(d) \/ Begins(d)
                 \/ \E id \in Ids : ProcessUnsubscribe(d, id)
          PROVE  FALSE
        BY <2>2, <2>5, BeginsFrame DEF ClientConnected, ProcessUnsubscribe, Requests
    <2>6. ASSUME NEW d \in Conns,
                 \/ Returns(d) \/ EndDisconnected(d) \/ \E id \in Ids : CancelNext(d, id)
                 \/ \E b \in BOOLEAN : EndAuth(d, b) \/ EndSubscribe(d, b)
          PROVE  FALSE
        BY <2>2, <2>6, ReturnsFrame DEF EndDisconnected, CancelNext, EndAuth, EndSubscribe,
           GoesOn, KeepsFor
    <2>7. ASSUME NEW d \in Conns, SendReply(d)
          PROVE  Stuck
        BY <2>1, <2>7 DEF SendReply, SendFails, wsVars, lockVars
    <2>8. ASSUME NEW id \in Ids, Notify(id) \/ Forward(id) \/ EndForward(id)
          PROVE  Stuck
        BY <2>1, <2>8 DEF Notify, Forward, EndForward, SendFails, wsVars, lockVars
    <2>9. ASSUME LockToClose \/ CloseWsServer \/ EndClose PROVE FALSE
        BY <2>1, <2>9 DEF LockToClose, Unlocked, CloseWsServer, CloseClients, EndClose, EndShutdown
    <2>10. ASSUME UNCHANGED vars PROVE Stuck
        BY <2>1, <2>10 DEF vars, wsVars, visVars, lockVars
    <2> HIDE DEF Stuck
    <2>11. Stuck
        BY <2>3, <2>4, <2>5, <2>6, <2>7, <2>8, <2>9, <2>10
        DEF Next, Begins, Returns, ProviderReturns
    <2>. QED  BY <2>11 DEF Stuck, CloseCycle
<1>. QED  BY <1>1, LockInvariant, ServerTyped, PTL DEF Spec, CloseCycleStays

-----------------------------------------------------------------------------
(* The sessions of the clients *)

LEMMA InitKnownAreServed == Init => KnownAreServed
BY DEF Init, WsInit, KnownAreServed

\* Only the handler's ClientConnected and ClientDisconnected begin and end the service of
\* a connection, and an answer is awaited only for one that is known.
LEMMA NextKnownAreServed == TypeOK /\ LockInv /\ KnownAreServed /\ [Next]_vars => KnownAreServed'
<1> SUFFICES ASSUME TypeOK, LockInv, KnownAreServed, [Next]_vars PROVE KnownAreServed'
    OBVIOUS
<1>1. ASSUME UNCHANGED <<phase, known, permitted>> PROVE KnownAreServed'
    BY <1>1 DEF KnownAreServed
<1>2. ASSUME NEW c \in Conns,
             \/ (Accept(c) \/ PeerLost(c) \/ DeleteClient(c)) /\ UNCHANGED visVars
             \/ ServeConnection(c) \/ ReadCloseFrame(c) \/ ReadFails(c)
      PROVE  KnownAreServed'
    BY <1>2 DEF Accept, PeerLost, DeleteClient, ServeConnection, NewClient, NewClientFails,
       ReadCloseFrame, PeerCloses, ReadFails, LeaveRun, Goes, visVars, clientVars, TypeOK,
       WsTypeOK, KnownAreServed
<1>3. ASSUME NEW c \in Conns, ClientConnected(c) \/ EndDisconnected(c)
      PROVE  KnownAreServed'
    BY <1>3 DEF ClientConnected, StartRun, EndDisconnected, EndConnection, Goes, TypeOK,
       WsTypeOK, KnownAreServed
<1>4. ASSUME NEW c \in Conns, NEW granted \in BOOLEAN, EndAuth(c, granted)
      PROVE  KnownAreServed'
    <2>1. c \in known
        BY <1>4 DEF EndAuth, GoesOn, KeepsFor, LockInv
    <2>2. UNCHANGED <<phase, known>> /\ permitted' = [permitted EXCEPT ![c] = granted]
        BY <1>4 DEF EndAuth, wsVars
    <2>. QED  BY <2>1, <2>2 DEF KnownAreServed, TypeOK
<1>5. ASSUME NEW c \in Conns,
             \/ SendReply(c) \/ ReplyFails(c) \/ Begins(c) \/ Returns(c)
             \/ \E private \in BOOLEAN : EndSubscribe(c, private)
             \/ \E id \in Ids : ProcessUnsubscribe(c, id) \/ CancelNext(c, id)
      PROVE  KnownAreServed'
    BY <1>1, <1>5, BeginsFrame, ReturnsFrame
    DEF SendReply, ReplyFails, SendFails, EndSubscribe, ProcessUnsubscribe, CancelNext, wsVars,
        visVars, clientVars
<1>6. ASSUME NEW id \in Ids, Notify(id) \/ Forward(id) \/ EndForward(id) PROVE KnownAreServed'
    BY <1>1, <1>6 DEF Notify, Forward, EndForward, SendFails, wsVars, clientVars
<1>7. CASE LockToClose \/ CloseWsServer \/ EndClose
    BY <1>1, <1>7 DEF LockToClose, CloseWsServer, CloseClients, EndClose, EndShutdown, visVars,
       clientVars
<1>8. CASE UNCHANGED vars
    BY <1>1, <1>8 DEF vars, wsVars, visVars, clientVars
<1>. QED  BY <1>2, <1>3, <1>4, <1>5, <1>6, <1>7, <1>8
          DEF Next, Begins, Returns, ProviderReturns

\* Connections are served exactly while they are known, and only then have permissions.
THEOREM KnownClientsAreServed == Spec => []KnownAreServed
BY InitKnownAreServed, NextKnownAreServed, LockInvariant, ServerTyped, PTL DEF Spec

\* What Sessions sees: the owner of an id, who has permissions, what a client ends.
Owner == [id \in Ids |-> IF id \in live THEN client[id] ELSE NoConn]
Granted == {c \in Conns : permitted[c]}
EndingOf == [c \in Conns |-> IF visLock = c THEN Ending ELSE "nothing"]

LEMMA InitSessions == Init => Service!Init
BY WsServerAssumption DEF Init, Service!Init, Service!Ids, Ids

\* What is live and in the set of a client is what it owns.
LEMMA OwnedAre ==
    ASSUME ServerInv, NEW c \in Conns
    PROVE  \A id \in Ids : Owner[id] = c <=> id \in live /\ id \in subscribeChannels[c]
BY WsServerAssumption DEF ServerInv, TypeOK, SubscriptionsOwned, Owner

\* Only a client that has the mutex for it ends its subscriptions or its session.
LEMMA NobodyEnds ==
    ASSUME ServerInv, request \notin EndsAll
    PROVE  EndingOf = [c \in Conns |-> "nothing"]
BY DEF EndingOf, Ending, EndsAll

LEMMA OneEnds ==
    ASSUME ServerInv, NEW c \in Conns, visLock = c
    PROVE  EndingOf = [[d \in Conns |-> "nothing"] EXCEPT ![c] = Ending]
BY DEF EndingOf

\* While nobody has it, nobody ends anything.
LEMMA FreeToRequest ==
    ASSUME visLock \notin Conns
    PROVE  EndingOf = [c \in Conns |-> "nothing"]
BY DEF EndingOf

LEMMA FreedForRequests ==
    ASSUME visLock' \notin Conns \/ request' \notin EndsAll
    PROVE  EndingOf' = [c \in Conns |-> "nothing"]
BY DEF EndingOf, Ending, EndsAll

\* The other steps leave what clients see as it is.
LEMMA NoSessionStep ==
    ASSUME UNCHANGED <<known, permitted, live, client, nextId, privateIds, EndingOf>>
    PROVE  UNCHANGED Service!vars
BY DEF Service!vars, EndingOf

LEMMA NextSessions == ServerInv /\ KnownAreServed /\ [Next]_vars
                          => [Service!Next]_(Service!vars)
<1> SUFFICES ASSUME ServerInv, KnownAreServed, [Next]_vars
             PROVE  Service!Next \/ UNCHANGED Service!vars
    OBVIOUS
<1>a. TypeOK /\ LockInv /\ SubscriptionsOwned
    BY DEF ServerInv
<1>n. NoConn \notin Conns /\ Main \notin Conns
    BY WsServerAssumption, VisServerAssumption
<1>1. ASSUME NEW c \in Conns, ClientConnected(c) PROVE Service!Connect(c)
    <2>1. c \notin known
        BY <1>1 DEF ClientConnected, StartRun, Goes, KnownAreServed
    <2>2. UNCHANGED EndingOf
        BY <1>1 DEF ClientConnected, lockVars, EndingOf, Ending
    <2>. QED  BY <1>1, <2>1, <2>2
              DEF ClientConnected, providerVars, forwardVars, EndingOf, Service!Connect
<1>2. ASSUME NEW c \in Conns, Begins(c)
      PROVE  Service!Next \/ UNCHANGED Service!vars
    <2>1. /\ Unlocked /\ visLock' = c
          /\ UNCHANGED <<clientVars, providerVars, forwardVars>>
        BY <1>a, <1>2, BeginsFrame
    <2>2. EndingOf = [d \in Conns |-> "nothing"]
        BY <1>n, <2>1, FreeToRequest DEF Unlocked
    <2>3. CASE request' \notin EndsAll
        BY <2>1, <2>2, <2>3, FreedForRequests, NoSessionStep
        DEF clientVars, providerVars, forwardVars
    <2>4. CASE request' \in EndsAll
        <3>1. c \in known
            BY <1>2, <2>4 DEF Begins, ClientDisconnected, ProcessSubscribe, ProcessAuth,
               ProcessUnsubscribeAll, ProcessSet, Lock, EndsAll, Requests, KnownAreServed
        <3>2. PICK what \in {"subscriptions", "session"} : EndingOf' = [EndingOf EXCEPT ![c] = what]
            BY <2>1, <2>2, <2>4 DEF EndingOf, Ending, EndsAll
        <3>3. Service!BeginEnding(c, what)
            BY <2>1, <2>2, <3>1, <3>2
            DEF EndingOf, clientVars, providerVars, forwardVars, Service!BeginEnding,
                Service!Requests
        <3>. QED  BY <3>3 DEF Service!Next
    <2>. QED  BY <2>3, <2>4
<1>3. ASSUME NEW c \in Conns, NEW granted \in BOOLEAN, EndAuth(c, granted)
      PROVE  Service!Authorize(c, granted)
    <2>1. /\ c \in known /\ request \notin EndsAll
          /\ visLock' \notin Conns
          /\ UNCHANGED <<known, providerVars, forwardVars>>
        BY <1>3, <1>a, <1>n DEF EndAuth, GoesOn, KeepsFor, Unlock, LockInv, EndsAll
    <2>2. Granted' = IF granted THEN Granted \cup {c} ELSE Granted \ {c}
        BY <1>3, <1>a DEF EndAuth, Granted, TypeOK
    <2>3. EndingOf = [d \in Conns |-> "nothing"] /\ EndingOf' = EndingOf
        BY <2>1, NobodyEnds, FreedForRequests
    <2>. QED  BY <2>1, <2>2, <2>3 DEF providerVars, forwardVars, Granted, EndingOf,
              Service!Authorize, Service!Requests
<1>4. ASSUME NEW c \in Conns, NEW private \in BOOLEAN, EndSubscribe(c, private)
      PROVE  Service!Subscribe(c, private)
    <2>1. /\ c \in known /\ request \notin EndsAll /\ nextId < MaxSubs
          /\ visLock' \notin Conns
        BY <1>4, <1>a, <1>n DEF EndSubscribe, GoesOn, KeepsFor, Unlock, LockInv, EndsAll
    <2>2. nextId \in Ids
        BY <2>1, <1>a, NextIdIsId
    <2>3. /\ live' = live \cup {nextId} /\ client' = [client EXCEPT ![nextId] = c]
          /\ private => permitted[c]
          /\ privateIds' = IF private THEN privateIds \cup {nextId} ELSE privateIds
          /\ nextId' = nextId + 1 /\ UNCHANGED <<known, permitted>>
        BY <1>4 DEF EndSubscribe, NewId, Readers
    <2>4. Owner' = [Owner EXCEPT ![nextId] = c]
        BY <2>2, <2>3, <1>a DEF Owner, TypeOK
    <2>5. EndingOf = [d \in Conns |-> "nothing"] /\ EndingOf' = EndingOf
        BY <2>1, NobodyEnds, FreedForRequests
    <2>. QED  BY <2>1, <2>3, <2>4, <2>5
              DEF Owner, EndingOf, Service!Subscribe, Service!Requests
<1>5. ASSUME NEW c \in Conns, NEW id \in Ids, ProcessUnsubscribe(c, id)
      PROVE  Service!Unsubscribe(c, id)
    <2>1. /\ c \in known /\ id \in live /\ live' = live \ {id} /\ privateIds' = privateIds \ {id}
          /\ visLock \notin Conns /\ request' \notin EndsAll
          /\ UNCHANGED <<known, permitted, client, nextId>>
        BY <1>5, <1>n DEF ProcessUnsubscribe, Requests, Lock, Unlocked, Cancel, EndsAll, forwardVars
    <2>2. Owner[id] # NoConn
        BY <2>1, <1>a, <1>n DEF Owner, SubscriptionsOwned
    <2>3. Owner' = [Owner EXCEPT ![id] = NoConn]
        BY <2>1 DEF Owner
    <2>4. EndingOf = [d \in Conns |-> "nothing"] /\ EndingOf' = EndingOf
        BY <2>1, FreeToRequest, FreedForRequests
    <2>. QED  BY <2>1, <2>2, <2>3, <2>4
              DEF Owner, EndingOf, Service!Unsubscribe, Service!Requests, Service!End
<1>6. ASSUME NEW c \in Conns, NEW id \in Ids, CancelNext(c, id)
      PROVE  Service!EndOwn(c, id) \/ UNCHANGED Service!vars
    <2>1. /\ visLock = c /\ request \in EndsAll /\ id \in subscribeChannels[c]
          /\ live' = live \ {id} /\ privateIds' = privateIds \ {id}
          /\ UNCHANGED <<visLock, request, known, permitted, client, nextId>>
        BY <1>6 DEF CancelNext, GoesOn, KeepsFor, Cancel, forwardVars
    <2>2. UNCHANGED EndingOf
        BY <2>1 DEF EndingOf, Ending
    <2>3. CASE id \in live
        <3>1. Owner[id] = c
            BY <2>1, <2>3, OwnedAre
        <3>2. Owner' = [Owner EXCEPT ![id] = NoConn]
            BY <2>1 DEF Owner
        <3>3. EndingOf[c] # "nothing"
            BY <2>1 DEF EndingOf, Ending, EndsAll
        <3>. QED  BY <2>1, <2>2, <3>1, <3>2, <3>3
                  DEF Owner, EndingOf, Service!EndOwn, Service!End
    <2>4. CASE id \notin live
        BY <2>1, <2>2, <2>4, <1>a, NoSessionStep DEF TypeOK
    <2>. QED  BY <2>3, <2>4
<1>7. ASSUME NEW c \in Conns, EndUnsubscribeAll(c) PROVE Service!KeepOn(c)
    <2>1. /\ visLock = c /\ request = "unsubscribeAll" /\ visLock' \notin Conns
          /\ subscribeChannels[c] = {}
          /\ UNCHANGED <<clientVars, providerVars, forwardVars>>
        BY <1>7, <1>n DEF EndUnsubscribeAll, GoesOn, KeepsFor, Unlock
    <2>2. \A id \in Ids : Owner[id] # c
        BY <2>1, OwnedAre
    <2>3. EndingOf[c] = "subscriptions" /\ EndingOf' = [EndingOf EXCEPT ![c] = "nothing"]
        BY <2>1, OneEnds, FreedForRequests DEF Ending
    <2>. QED  BY <2>1, <2>2, <2>3 DEF Owner, EndingOf, clientVars, providerVars, forwardVars,
              Service!KeepOn, Service!OwnsNothing, Service!Ids, Ids
<1>8. ASSUME NEW c \in Conns, EndDisconnected(c) PROVE Service!Disconnect(c)
    <2>1. /\ visLock = c /\ request = "disconnect" /\ visLock' \notin Conns
          /\ subscribeChannels[c] = {} /\ known' = known \ {c}
          /\ UNCHANGED <<providerVars, forwardVars>>
        BY <1>8, <1>n DEF EndDisconnected, GoesOn, KeepsFor, Unlock
    <2>2. \A id \in Ids : Owner[id] # c
        BY <2>1, OwnedAre
    <2>3. EndingOf[c] = "session" /\ EndingOf' = [EndingOf EXCEPT ![c] = "nothing"]
        BY <2>1, OneEnds, FreedForRequests DEF Ending
    <2>4. Granted' = Granted \ {c}
        BY <1>8, <1>a DEF EndDisconnected, Granted, TypeOK
    <2>. QED  BY <2>1, <2>2, <2>3, <2>4 DEF Owner, Granted, EndingOf, providerVars, forwardVars,
              Service!Disconnect, Service!OwnsNothing, Service!Ids, Ids
<1>9. ASSUME NEW c \in Conns, RefuseSubscribe(c) \/ EndUnsubscribe(c) \/ EndSet(c)
      PROVE  UNCHANGED Service!vars
    <2>1. /\ request \notin EndsAll /\ visLock' \notin Conns
          /\ UNCHANGED <<clientVars, providerVars, forwardVars>>
        BY <1>9, <1>n DEF RefuseSubscribe, EndUnsubscribe, EndSet, GoesOn, KeepsFor, Unlock, EndsAll
    <2>. QED  BY <2>1, NobodyEnds, FreedForRequests, NoSessionStep
              DEF clientVars, providerVars, forwardVars
<1>10. ASSUME NEW c \in Conns,
             \/ (Accept(c) \/ PeerLost(c) \/ DeleteClient(c)) /\ UNCHANGED visVars
             \/ ServeConnection(c) \/ ReadCloseFrame(c) \/ ReadFails(c)
             \/ SendReply(c) \/ ReplyFails(c)
      PROVE  UNCHANGED Service!vars
    <2>1. UNCHANGED <<lockVars, clientVars, providerVars, forwardVars>>
        BY <1>10 DEF ServeConnection, ReadCloseFrame, ReadFails, SendReply, ReplyFails, visVars
    <2>. QED  BY <2>1, NoSessionStep
              DEF lockVars, clientVars, providerVars, forwardVars, EndingOf, Ending
<1>11. ASSUME (\E id \in Ids : Notify(id) \/ Forward(id) \/ EndForward(id)) \/ UNCHANGED vars
      PROVE  UNCHANGED Service!vars
    <2>1. UNCHANGED <<lockVars, clientVars, providerVars, client>>
        BY <1>11 DEF Notify, Forward, EndForward, vars, visVars, forwardVars
    <2>. QED  BY <2>1, NoSessionStep DEF lockVars, clientVars, providerVars, EndingOf, Ending
<1>12. CASE LockToClose \/ CloseWsServer \/ EndClose
    <2>1. UNCHANGED <<clientVars, providerVars, forwardVars>>
        BY <1>12 DEF LockToClose, CloseWsServer, EndClose, visVars
    <2>2. UNCHANGED EndingOf
        <3>1. CASE CloseWsServer
            BY <3>1 DEF CloseWsServer, visVars, lockVars, EndingOf, Ending
        <3>2. CASE LockToClose \/ EndClose
            <4>1. visLock \notin Conns /\ visLock' \notin Conns
                BY <1>a, <1>n, <3>2
                DEF LockToClose, Unlocked, EndClose, EndShutdown, LockInv
            <4>. QED  BY <4>1, FreeToRequest, FreedForRequests
        <3>. QED  BY <1>12, <3>1, <3>2
    <2>. QED  BY <2>1, <2>2, NoSessionStep DEF clientVars, providerVars, forwardVars
<1>. QED
    BY <1>1, <1>2, <1>3, <1>4, <1>5, <1>6, <1>7, <1>8, <1>9, <1>10, <1>11, <1>12
    DEF Next, Begins, ProviderReturns, Service!Next, Ids, Service!Ids

\* For any number of clients, connections and subscriptions, the VIS server with its
\* mutexes, goroutines and sets of ids does for its clients what Sessions says: who may
\* subscribe to what, whose each subscription is, and that all of them end with their
\* client, one by one, and no others.
THEOREM ServerImplementsSessions == Spec => ImplementsSessions
BY InitSessions, NextSessions, ServerInvariant, KnownClientsAreServed, PTL
   DEF Spec, ImplementsSessions, Service!Spec
=============================================================================
