------------------------------- MODULE VisServer -------------------------------
(***************************************************************************)
(* visserver.Server: the requests of the clients, their authorisation, the *)
(* subscriptions each one has, and the goroutines that forward             *)
(* notifications.  It is the handler of WsServer.                          *)
(*                                                                         *)
(* Every callback runs under one mutex and is one action, except those that*)
(* wait for something with the mutex held:                                 *)
(*                                                                         *)
(*   - "authorize" for the permission service;                             *)
(*   - a "set" of a telemetry signal for the emulator, perhaps for ever;   *)
(*   - "subscribe", "unsubscribe", "unsubscribeAll" and the end of a       *)
(*     connection for the mutexes of the provider and of its adapters,     *)
(*     perhaps for ever (the lock cycles of DataProvider);                 *)
(*   - Close for the web socket server.                                    *)
(*                                                                         *)
(* The response is sent by the read loop after the mutex was released.     *)
(*                                                                         *)
(* When it returns, the data provider is taken at its word (see            *)
(* SubscriptionRegistry): Subscribe gives a new id, Unsubscribe of an id   *)
(* that is not live is an error without effect, and a live id is notified. *)
(* What a notification says is left out, and so are the requests "get" and *)
(* other "set"s, which change nothing here and wait for nobody for ever,   *)
(* and all of a response but the id that it tells.  A client that is       *)
(* permitted something is authorised: IsAuthorized only chooses the text of*)
(* an error.                                                               *)
(***************************************************************************)
EXTENDS WsServer

CONSTANTS
    Main,           \* the goroutine that runs Close
    MayClose,       \* TRUE if the server may be closed
    QueueSize,      \* capacity of a subscription's channel
    MaxSubs         \* bound: subscriptions made

ASSUME VisServerAssumption ==
    /\ Main \notin Conns /\ Main # NoConn
    /\ MayClose \in BOOLEAN
    /\ QueueSize \in Nat \ {0}
    /\ MaxSubs \in Nat

VARIABLES
    visLock,            \* who keeps the mutex between two steps, or NoConn
    request,            \* the client's request that keeps it, or "none"
    stuck,              \* what that request waits for will not come by itself
    known,              \* Server.clients
    permitted,          \* authInfo.Permissions is not nil
    subscribeChannels,  \* ids of a client
    live, nextId,       \* the provider's live subscriptions and next id
    privateIds,         \* history: live ids of private signals
    forwarder,          \* processSubscribeChannel of an id
    client,             \* the client that goroutine sends to
    queued,             \* notifications in the channel of an id
    reply,              \* the id that the read loop of a client has to tell
    answered            \* history: ids whose response was sent, or could not be

lockVars     == <<visLock, request, stuck>>
replyVars    == <<reply, answered>>
clientVars   == <<known, permitted, subscribeChannels>>
providerVars == <<live, nextId, privateIds>>
forwardVars  == <<forwarder, client, queued>>
visVars == <<lockVars, clientVars, providerVars, forwardVars, replyVars>>
vars == <<wsVars, visVars>>

Ids  == 0 .. (MaxSubs - 1)
NoId == MaxSubs

\* The requests that the provider serves, and all that keep the mutex across steps.
EndsAll == {"unsubscribeAll", "disconnect"}
ProviderCalls == EndsAll \cup {"subscribe", "unsubscribe"}
LongRequests == ProviderCalls \cup {"authorize", "set"}

Init ==
    /\ WsInit
    /\ visLock = NoConn /\ request = "none" /\ stuck = FALSE
    /\ known = {}
    /\ permitted = [c \in Conns |-> FALSE]
    /\ subscribeChannels = [c \in Conns |-> {}]
    /\ live = {} /\ nextId = 0 /\ privateIds = {}
    /\ forwarder = [id \in Ids |-> "none"]
    /\ client = [id \in Ids |-> NoConn]
    /\ queued = [id \in Ids |-> 0]
    /\ reply = [c \in Conns |-> NoId] /\ answered = {}

Unlocked == visLock = NoConn

\* A goroutine of c gets the mutex and keeps it; it releases it at the end of the
\* callback (a deferred Unlock).
Lock(c, what) == Unlocked /\ visLock' = c /\ request' = what
Unlock == visLock' = NoConn /\ request' = "none" /\ stuck' = FALSE

\* c keeps it for a request of one of these kinds, and what it waits for comes.
KeepsFor(c, kinds) == visLock = c /\ request \in kinds
GoesOn(c, kinds) == KeepsFor(c, kinds) /\ ~ stuck

\* The read loop of c hands a message to ProcessMessage, which gets the mutex.
\* A message that was read before the peer left is processed all the same, and
\* the next one is read when the response was sent.
Requests(c) == phase[c] = "running" /\ c \in known /\ Unlocked /\ reply[c] = NoId

-----------------------------------------------------------------------------
(* Connections come and go *)

\* The new entry has no permissions and no subscriptions; a connection comes once.
ClientConnected(c) ==
    /\ Unlocked
    /\ StartRun(c)
    /\ known' = known \cup {c}
    /\ UNCHANGED <<lockVars, permitted, subscribeChannels, providerVars, forwardVars, replyVars>>

\* The handler of a connection that is over gets the mutex, for unsubscribeAll.
ClientDisconnected(c) ==
    /\ phase[c] = "deleted"
    /\ Lock(c, "disconnect")
    /\ UNCHANGED <<wsVars, stuck, clientVars, providerVars, forwardVars, replyVars>>

-----------------------------------------------------------------------------
(* Subscriptions *)

\* processSubscribeRequest: the provider is called, and waits for adapters.
ProcessSubscribe(c) ==
    /\ Requests(c)
    /\ nextId < MaxSubs
    /\ Lock(c, "subscribe")
    /\ stuck' \in BOOLEAN
    /\ UNCHANGED <<wsVars, clientVars, providerVars, forwardVars, replyVars>>

\* checkPermissions: who may read private signals.  The slip is to be satisfied with any
\* client that is known.
KnownClients == known
Readers == {c \in Conns : permitted[c]}

\* The id of a new subscription.
NewId == nextId

\* The provider returns a subscription to public or to private signals: its goroutine
\* begins.
EndSubscribe(c, private) ==
    /\ GoesOn(c, {"subscribe"}) /\ Unlock
    /\ private => c \in Readers
    /\ live' = live \cup {NewId}
    /\ privateIds' = IF private THEN privateIds \cup {NewId} ELSE privateIds
    /\ nextId' = nextId + 1
    /\ subscribeChannels' = [subscribeChannels EXCEPT ![c] = @ \cup {NewId}]
    /\ forwarder' = [forwarder EXCEPT ![NewId] = "running"]
    /\ client' = [client EXCEPT ![NewId] = c]
    /\ reply' = [reply EXCEPT ![c] = NewId]
    /\ UNCHANGED <<wsVars, known, permitted, queued, answered>>

\* It refuses, for want of permissions or because there are no such signals: nothing
\* has changed here.
RefuseSubscribe(c) ==
    /\ GoesOn(c, {"subscribe"}) /\ Unlock
    /\ UNCHANGED <<wsVars, clientVars, providerVars, forwardVars, replyVars>>

\* The provider's Unsubscribe closes the channel of a live id.
Cancel(id) ==
    /\ live' = live \ {id} /\ privateIds' = privateIds \ {id}
    /\ UNCHANGED nextId

\* processUnsubscribeRequest: of any live id, whoever made it.  The provider then has
\* adapters to tell; the client forgets the id when it returns, which nobody can see
\* before the mutex is released.
ProcessUnsubscribe(c, id) ==
    /\ Requests(c)
    /\ id \in live
    /\ Lock(c, "unsubscribe")
    /\ stuck' \in BOOLEAN
    /\ Cancel(id)
    /\ subscribeChannels' = [subscribeChannels EXCEPT ![c] = @ \ {id}]
    /\ UNCHANGED <<wsVars, known, permitted, forwardVars, replyVars>>

EndUnsubscribe(c) ==
    /\ GoesOn(c, {"unsubscribe"}) /\ Unlock
    /\ UNCHANGED <<wsVars, clientVars, providerVars, forwardVars, replyVars>>

ProcessUnsubscribeAll(c) ==
    /\ Requests(c)
    /\ Lock(c, "unsubscribeAll")
    /\ UNCHANGED <<wsVars, stuck, clientVars, providerVars, forwardVars, replyVars>>

\* What unsubscribeAll has still to cancel after an id.  An id that is not live any
\* more is an error that is reported at the end; the slip is to return at once.
RestUntilError(c, id) == IF id \in live THEN subscribeChannels[c] \ {id} ELSE {}
Rest(c, id) == subscribeChannels[c] \ {id}

\* unsubscribeAll cancels the next of the client's ids, in any order; if it was live,
\* the provider has adapters to tell.
CancelNext(c, id) ==
    /\ GoesOn(c, EndsAll)
    /\ id \in subscribeChannels[c]
    /\ Cancel(id)
    /\ stuck' \in BOOLEAN /\ (stuck' => id \in live)
    /\ subscribeChannels' = [subscribeChannels EXCEPT ![c] = Rest(c, id)]
    /\ UNCHANGED <<wsVars, visLock, request, known, permitted, forwardVars, replyVars>>

EndUnsubscribeAll(c) ==
    /\ GoesOn(c, {"unsubscribeAll"}) /\ Unlock
    /\ subscribeChannels[c] = {}
    /\ UNCHANGED <<wsVars, clientVars, providerVars, forwardVars, replyVars>>

\* The end of ClientDisconnected: the client is forgotten, its authInfo too.
EndDisconnected(c) ==
    /\ GoesOn(c, {"disconnect"}) /\ Unlock
    /\ subscribeChannels[c] = {}
    /\ EndConnection(c)
    /\ known' = known \ {c}
    /\ permitted' = [permitted EXCEPT ![c] = FALSE]
    /\ UNCHANGED <<subscribeChannels, providerVars, forwardVars, replyVars>>

-----------------------------------------------------------------------------
(* Other requests that keep the mutex *)

\* processAuthRequest asks the permission service.
ProcessAuth(c) ==
    /\ Requests(c)
    /\ Lock(c, "authorize")
    /\ UNCHANGED <<wsVars, stuck, clientVars, providerVars, forwardVars, replyVars>>

\* The slip of an error path that returns without the Unlock: the mutex is left to
\* somebody who does not know of it.
EndAuthKeepingLock(c, granted) ==
    /\ GoesOn(c, {"authorize"})
    /\ visLock' = (IF granted THEN NoConn ELSE Main) /\ request' = "none" /\ stuck' = FALSE
    /\ permitted' = [permitted EXCEPT ![c] = granted]
    /\ UNCHANGED <<wsVars, known, subscribeChannels, providerVars, forwardVars, replyVars>>

\* GetVisPermissionByToken returns: the service answers, or it cannot be reached,
\* refuses, or does not answer within 30 s.  A failure takes away the permissions that
\* the client had; the subscriptions it made with them go on.
EndAuth(c, granted) ==
    /\ GoesOn(c, {"authorize"}) /\ Unlock
    /\ permitted' = [permitted EXCEPT ![c] = granted]
    /\ UNCHANGED <<wsVars, known, subscribeChannels, providerVars, forwardVars, replyVars>>

\* processSetRequest of a telemetry signal posts it to the emulator.
ProcessSet(c) ==
    /\ Requests(c)
    /\ Lock(c, "set")
    /\ stuck' \in BOOLEAN
    /\ UNCHANGED <<wsVars, clientVars, providerVars, forwardVars, replyVars>>

\* http.Post returns.  It has no timeout, so one to a silent emulator returns only
\* if the connection breaks.
EndSet(c) ==
    /\ KeepsFor(c, {"set"}) /\ Unlock
    /\ UNCHANGED <<wsVars, clientVars, providerVars, forwardVars, replyVars>>

-----------------------------------------------------------------------------
(* Responses *)

\* The slip of losing a response.
LoseReply(c) ==
    /\ reply[c] # NoId
    /\ reply' = [reply EXCEPT ![c] = NoId]
    /\ UNCHANGED <<wsVars, lockVars, clientVars, providerVars, forwardVars, answered>>

\* The read loop sends the response to a Subscribe, without the server's mutex.  On
\* a connection on which a close frame was sent, or that is closed, it cannot be
\* written; one that fails to be written closes it.
SendReply(c) ==
    /\ reply[c] # NoId
    /\ reply' = [reply EXCEPT ![c] = NoId]
    /\ answered' = answered \cup {reply[c]}
    /\ UNCHANGED wsVars \/ SendFails(c)
    /\ UNCHANGED <<lockVars, clientVars, providerVars, forwardVars>>

\* Another response cannot be sent.
ReplyFails(c) ==
    /\ phase[c] = "running" /\ visLock # c /\ reply[c] = NoId
    /\ SendFails(c)
    /\ UNCHANGED visVars

-----------------------------------------------------------------------------
(* Notifications *)

\* The provider's handler queues a notification for a live id.  In a lock cycle of
\* the provider it waits as well.
Notify(id) ==
    /\ id \in live
    /\ stuck => request \notin ProviderCalls
    /\ queued[id] < QueueSize
    /\ queued' = [queued EXCEPT ![id] = @ + 1]
    /\ UNCHANGED <<wsVars, lockVars, clientVars, providerVars, forwarder, client, replyVars>>

\* The slip of a goroutine that stays after ErrCloseSent without reading on.
ForwardStuck(id) ==
    /\ forwarder[id] = "running" /\ queued[id] > 0
    /\ ~ closeSent[client[id]]
    /\ queued' = [queued EXCEPT ![id] = @ - 1]
    /\ UNCHANGED <<wsVars, lockVars, clientVars, providerVars, forwarder, client, replyVars>>

\* processSubscribeChannel takes one and sends it.  ErrCloseSent ends the
\* goroutine, another error does not.
Forward(id) ==
    /\ forwarder[id] = "running" /\ queued[id] > 0
    /\ queued' = [queued EXCEPT ![id] = @ - 1]
    /\ \/ /\ closeSent[client[id]]
          /\ forwarder' = [forwarder EXCEPT ![id] = "ended"]
          /\ UNCHANGED wsVars
       \/ /\ ~ closeSent[client[id]]
          /\ UNCHANGED forwarder
          /\ UNCHANGED wsVars \/ SendFails(client[id])
    /\ UNCHANGED <<lockVars, clientVars, providerVars, client, replyVars>>

\* The slip of ending whenever the channel is empty.
EndForwardWhenEmpty(id) ==
    /\ forwarder[id] = "running" /\ queued[id] = 0
    /\ forwarder' = [forwarder EXCEPT ![id] = "ended"]
    /\ UNCHANGED <<wsVars, lockVars, clientVars, providerVars, client, queued, replyVars>>

\* The channel is closed and empty.
EndForward(id) ==
    /\ forwarder[id] = "running" /\ queued[id] = 0
    /\ id \notin live
    /\ forwarder' = [forwarder EXCEPT ![id] = "ended"]
    /\ UNCHANGED <<wsVars, lockVars, clientVars, providerVars, client, queued, replyVars>>

-----------------------------------------------------------------------------
(* Close, with the mutex from the first step to the last *)

LockToClose ==
    /\ MayClose /\ Unlocked /\ closing = "no"
    /\ visLock' = Main
    /\ closing' = "called"
    /\ UNCHANGED <<phase, wsClients, socket, closeSent,
                   request, stuck, clientVars, providerVars, forwardVars, replyVars>>

CloseWsServer == CloseClients /\ UNCHANGED visVars

EndClose ==
    /\ EndShutdown
    /\ visLock' = NoConn
    /\ UNCHANGED <<request, stuck, clientVars, providerVars, forwardVars, replyVars>>

-----------------------------------------------------------------------------
\* newClient runs, and either enters the connection or ends it.
ServeConnection(c) == (NewClient(c) \/ NewClientFails(c)) /\ UNCHANGED visVars

\* A read loop that waits for the answer of its own request, or has a response to
\* send, reads nothing.
Reads(c) == visLock # c /\ reply[c] = NoId
ReadCloseFrame(c) == Reads(c) /\ PeerCloses(c) /\ UNCHANGED visVars
ReadFails(c)      == Reads(c) /\ LeaveRun(c) /\ UNCHANGED visVars

\* A call of the provider returns to the request of c.
ProviderReturns(c) ==
    \/ \E private \in BOOLEAN : EndSubscribe(c, private)
    \/ RefuseSubscribe(c) \/ EndUnsubscribe(c)
    \/ \E id \in Ids : CancelNext(c, id)
    \/ EndUnsubscribeAll(c) \/ EndDisconnected(c)

Next ==
    \/ \E c \in Conns : Accept(c) /\ UNCHANGED visVars
    \/ \E c \in Conns : PeerLost(c) /\ UNCHANGED visVars
    \/ \E c \in Conns : DeleteClient(c) /\ UNCHANGED visVars
    \/ \E c \in Conns : ServeConnection(c) \/ ReadCloseFrame(c) \/ ReadFails(c)
    \/ \E c \in Conns : ClientConnected(c) \/ ClientDisconnected(c)
    \/ \E c \in Conns, id \in Ids : ProcessUnsubscribe(c, id)
    \/ \E c \in Conns : ProcessSubscribe(c) \/ ProcessUnsubscribeAll(c)
    \/ \E c \in Conns : ProcessAuth(c) \/ ProcessSet(c)
    \/ \E c \in Conns : ProviderReturns(c) \/ EndSet(c)
    \/ \E c \in Conns, granted \in BOOLEAN : EndAuth(c, granted)
    \/ \E c \in Conns : SendReply(c) \/ ReplyFails(c)
    \/ \E id \in Ids : Notify(id) \/ Forward(id) \/ EndForward(id)
    \/ LockToClose \/ CloseWsServer \/ EndClose

Spec == Init /\ [][Next]_vars

\* Goroutines go on when they can, and the permission service answers or times out.  A
\* post returns unless the emulator is silent, and a call of the provider unless it is
\* in a lock cycle: nothing else stops it (OnlyLockCyclesStop in DataProvider).  A
\* goroutine that waits for the mutex of this server gets it if it is unlocked
\* again and again (sync.Mutex); the mutex of the web socket server is kept only once.
Fairness ==
    /\ \A c \in Conns :
          /\ WF_vars(ServeConnection(c)) /\ WF_vars(ReadFails(c))
          /\ WF_vars(DeleteClient(c) /\ UNCHANGED visVars)
          /\ SF_vars(ClientConnected(c)) /\ SF_vars(ClientDisconnected(c))
          /\ WF_vars(\E granted \in BOOLEAN : EndAuth(c, granted))
          /\ WF_vars(EndSet(c) /\ ~ stuck)
          /\ WF_vars(ProviderReturns(c))
          /\ WF_vars(SendReply(c))
    /\ \A id \in Ids : WF_vars(Forward(id) \/ EndForward(id))
    /\ WF_vars(CloseWsServer) /\ WF_vars(EndClose)

FairSpec == Spec /\ Fairness

-----------------------------------------------------------------------------
(* Properties *)

\* Every variable has its type.
TypeOK ==
    /\ WsTypeOK
    /\ visLock \in Conns \cup {Main, NoConn}
    /\ request \in LongRequests \cup {"none"} /\ stuck \in BOOLEAN
    /\ known \subseteq Conns /\ permitted \in [Conns -> BOOLEAN]
    /\ subscribeChannels \in [Conns -> SUBSET Ids]
    /\ live \subseteq Ids /\ nextId \in 0 .. MaxSubs /\ privateIds \subseteq live
    /\ forwarder \in [Ids -> {"none", "running", "ended"}]
    /\ client \in [Ids -> Conns \cup {NoConn}]
    /\ queued \in [Ids -> 0 .. QueueSize]
    /\ reply \in [Conns -> Ids \cup {NoId}] /\ answered \subseteq Ids

\* A connection that was accepted gets no close frame before it is served, and is not
\* open after one.
ConnsConsistent ==
    \A c \in Conns :
        /\ phase[c] = "none" => ~ closeSent[c]
        /\ wsClients[AddrOf[c]] = c => phase[c] \notin {"none", "accepted"}
        /\ closeSent[c] => socket[c] \in {"gone", "closed"}

\* A client's set holds ids it was given, and all of them that are live.
SubscriptionsOwned ==
    /\ \A c \in Conns : \A id \in subscribeChannels[c] :
          id < nextId /\ client[id] = c /\ c \in known
    /\ \A id \in live : id < nextId /\ id \in subscribeChannels[client[id]]
    /\ \A id \in Ids : id < nextId =>
          client[id] \in Conns /\ phase[client[id]] \in {"running", "left", "deleted", "done"}

\* A goroutine ends with its subscription, or after a close frame; the response with a
\* new id is not lost.
GoroutinesConsistent ==
    \A id \in Ids :
        /\ forwarder[id] = "running" => id < nextId
        /\ id \in live => forwarder[id] = "running" \/ closeSent[client[id]]
        /\ id < nextId => id \in answered \/ reply[client[id]] = id

\* The mutex is kept by the one client whose request waits for somebody, which runs no
\* other request and has nothing to send, or is gone; or by Close, from the first step
\* to the last.
LockInv ==
    /\ visLock \in Conns <=> request # "none"
    /\ visLock = Main <=> closing \in {"called", "shutdown"}
    /\ stuck => request \in ProviderCalls \cup {"set"}
    /\ request = "subscribe" => nextId < MaxSubs
    /\ \A c \in Conns : visLock = c =>
          IF request = "disconnect" THEN phase[c] = "deleted"
                                    ELSE phase[c] = "running" /\ c \in known /\ reply[c] = NoId

\* The inductive invariant behind NoOrphans, LiveIsForwarded and the action properties.
ServerInv == TypeOK /\ LockInv /\ ConnsConsistent /\ SubscriptionsOwned /\ GoroutinesConsistent

\* However clients end each other's subscriptions, lose their connection or are
\* refused, a live subscription belongs to exactly one connected client, the one
\* its notifications are sent to: none is left behind in the provider.
NoOrphans ==
    \A id \in live : \A c \in Conns :
        (c \in known /\ id \in subscribeChannels[c]) <=> c = client[id]

\* A live subscription of an open connection has its goroutine.
LiveIsForwarded ==
    \A id \in live : socket[client[id]] = "open" => forwarder[id] = "running"

\* No two connections have the same remote address.
OwnAddresses == \A c, d \in Conns : AddrOf[c] = AddrOf[d] => c = d

\* The inductive invariant behind AllClosed, if every connection has an address of its
\* own: what is served is entered, and from Shutdown on it is closed.
CloseInv ==
    /\ WsTypeOK
    /\ closing = "returned" => \A c \in Conns : phase[c] # "accepted"
    /\ \A c \in Conns : phase[c] \in {"upgraded", "running", "left"} =>
          /\ wsClients[AddrOf[c]] = c
          /\ closing \in {"shutdown", "returned"} => socket[c] = "closed"

\* When Close has returned, no connection that was upgraded is still open.
AllClosed ==
    closing = "returned" => \A c \in Conns : phase[c] \in {"upgraded", "running", "left"} =>
                                socket[c] = "closed"

\* Close waits in Shutdown for the connection, which waits for the mutex of Close.
CloseCycle(c) == closing = "shutdown" /\ phase[c] = "accepted"

\* Nothing ends such a wait, and it stops the server for everybody: no client comes,
\* goes, is authorised, subscribes or ends a subscription any more.
CloseCycleStays ==
    [][\A c \in Conns : CloseCycle(c) =>
           CloseCycle(c)' /\ visLock' = visLock /\ UNCHANGED <<clientVars, providerVars>>]_vars

\* A client gets a notification with an id it was not told of only while its own
\* read loop has the response with this id to send: it may keep it for later.  (On a
\* connection that is open, without a close frame, what was answered was told.)
KnowsItsIds ==
    [][\A id \in Ids :
           queued'[id] < queued[id] /\ socket[client[id]] = "open" /\ ~ closeSent[client[id]]
               => id \in answered \/ reply[client[id]] = id]_vars

\* A connection that is over is cleaned up, unless from some time on the mutex is kept
\* for ever: by a set whose emulator never answers, or by a Subscribe, an Unsubscribe or
\* a clean-up in a lock cycle of the provider.  Then every client waits.
ConnectionsEnd ==
    \A c \in Conns : phase[c] = "left" ~> phase[c] = "done" \/ []stuck

\* The goroutine of a subscription that was ended ends too.
ForwardersEnd ==
    \A id \in Ids : forwarder[id] = "running" /\ id \notin live ~> forwarder[id] # "running"

\* Close returns.
CloseReturns == closing = "called" ~> closing = "returned"

-----------------------------------------------------------------------------
(* What the server promises its clients *)

\* A client is known while its connection is served, and has permissions only then.
KnownAreServed ==
    \A c \in Conns :
        /\ c \in known <=> phase[c] \in {"running", "left", "deleted"}
        /\ permitted[c] => c \in known

\* What the client that has the mutex is about to end.
Ending == CASE request = "unsubscribeAll" -> "subscriptions"
            [] request = "disconnect"     -> "session"
            [] OTHER                      -> "nothing"

\* The sessions that clients see.
Service == INSTANCE Sessions WITH
    Clients <- Conns, NoClient <- NoConn,
    connected <- known, permitted <- {c \in Conns : permitted[c]},
    owner <- [id \in Ids |-> IF id \in live THEN client[id] ELSE NoConn],
    ending <- [c \in Conns |-> IF visLock = c THEN Ending ELSE "nothing"]

\* Under its mutexes, and with the answers of others awaited in between, the server does
\* for its clients what Sessions says, and nothing else.
ImplementsSessions == Service!Spec
=============================================================================
