------------------------------- MODULE Sessions -------------------------------
(***************************************************************************)
(* What visserver.Server promises its clients about sessions, without      *)
(* sockets, mutexes, goroutines or the sets of ids it keeps:               *)
(*                                                                         *)
(*   - a client subscribes, and is authorised, only while it is connected, *)
(*     and to private signals only with permissions it has just then;      *)
(*   - a subscription belongs to the client that made it;                  *)
(*   - a client that gives up its subscriptions, or goes away, ends them   *)
(*     one by one, all of them and none of another client, and asks for    *)
(*     nothing else meanwhile;                                             *)
(*   - besides, any client may end a subscription whose id it names;       *)
(*   - permissions end with the session or with an authorisation that      *)
(*     fails, which leaves the subscriptions alone.                        *)
(*                                                                         *)
(* VisServer implements it (see Service there).                            *)
(***************************************************************************)
EXTENDS Naturals

CONSTANTS
    Clients,
    NoClient,       \* the owner of an id that is not live
    MaxSubs         \* bound: subscriptions made

Ids == 0 .. (MaxSubs - 1)

VARIABLES
    connected,      \* clients with a session
    permitted,      \* clients with permissions
    owner,          \* the client of every live id
    privateIds,     \* live ids of private signals
    nextId,         \* next id to be given out
    ending          \* what a client is about to end: "nothing", its
                    \* "subscriptions", or its "session" with them

vars == <<connected, permitted, owner, privateIds, nextId, ending>>

Init ==
    /\ connected = {} /\ permitted = {}
    /\ owner = [id \in Ids |-> NoClient] /\ privateIds = {}
    /\ nextId = 0
    /\ ending = [c \in Clients |-> "nothing"]

OwnsNothing(c) == \A id \in Ids : owner[id] # c

\* A client with a session, which it is not ending, asks for something.
Requests(c) == c \in connected /\ ending[c] = "nothing"

Connect(c) ==
    /\ c \notin connected
    /\ connected' = connected \cup {c}
    /\ UNCHANGED <<permitted, owner, privateIds, nextId, ending>>

Authorize(c, granted) ==
    /\ Requests(c)
    /\ permitted' = IF granted THEN permitted \cup {c} ELSE permitted \ {c}
    /\ UNCHANGED <<connected, owner, privateIds, nextId, ending>>

Subscribe(c, private) ==
    /\ Requests(c)
    /\ private => c \in permitted
    /\ nextId < MaxSubs
    /\ owner' = [owner EXCEPT ![nextId] = c]
    /\ privateIds' = IF private THEN privateIds \cup {nextId} ELSE privateIds
    /\ nextId' = nextId + 1
    /\ UNCHANGED <<connected, permitted, ending>>

End(id) ==
    /\ owner' = [owner EXCEPT ![id] = NoClient]
    /\ privateIds' = privateIds \ {id}
    /\ UNCHANGED <<connected, permitted, nextId, ending>>

Unsubscribe(c, id) == Requests(c) /\ owner[id] # NoClient /\ End(id)

\* A client begins to give up its subscriptions, or to go away.
BeginEnding(c, what) ==
    /\ Requests(c)
    /\ ending' = [ending EXCEPT ![c] = what]
    /\ UNCHANGED <<connected, permitted, owner, privateIds, nextId>>

EndOwn(c, id) == ending[c] # "nothing" /\ owner[id] = c /\ End(id)

\* It has given them up.
KeepOn(c) ==
    /\ ending[c] = "subscriptions" /\ OwnsNothing(c)
    /\ ending' = [ending EXCEPT ![c] = "nothing"]
    /\ UNCHANGED <<connected, permitted, owner, privateIds, nextId>>

Disconnect(c) ==
    /\ ending[c] = "session" /\ OwnsNothing(c)
    /\ ending' = [ending EXCEPT ![c] = "nothing"]
    /\ connected' = connected \ {c} /\ permitted' = permitted \ {c}
    /\ UNCHANGED <<owner, privateIds, nextId>>

Next ==
    \/ \E c \in Clients : Connect(c) \/ KeepOn(c) \/ Disconnect(c)
    \/ \E c \in Clients, what \in {"subscriptions", "session"} : BeginEnding(c, what)
    \/ \E c \in Clients, granted \in BOOLEAN : Authorize(c, granted)
    \/ \E c \in Clients, private \in BOOLEAN : Subscribe(c, private)
    \/ \E c \in Clients, id \in Ids : Unsubscribe(c, id) \/ EndOwn(c, id)

Spec == Init /\ [][Next]_vars
=============================================================================
