------------------------------- MODULE Requests -------------------------------
(***************************************************************************)
(* dataprovider.DataProvider: the requests "get" and "set", from the       *)
(* requested path and the data of the client to the adapters and back.     *)
(*                                                                         *)
(* The VIS server runs one request at a time.  The adapters are asked one  *)
(* after the other, in the order of a map, with no lock over all of them;  *)
(* meanwhile the ticker of the telemetry adapter and the connection of the *)
(* Renesas adapter write the signals of their sources (Sources).  That a   *)
(* write waits for room in a channel is the subject of DataProvider.       *)
(***************************************************************************)
EXTENDS Sources, Sequences, FiniteSetsExt, TLC

CONSTANTS
    Adapters, Paths,
    AdapterOf,      \* [Paths -> Adapters]
    Storing,        \* adapters whose SetData is that of the base adapter
    Posting,        \* telemetry adapters, which post to the emulator first;
                    \* SetData of all the others is an error
    Simulated,      \* Renesas adapters
    ReadOnly,       \* paths that the configuration says are read-only
    Emulated,       \* paths below Attribute.Emulator
    Stats,          \* trees that the emulator may return
    Messages,       \* trees that the simulator may send
    ParentOf,       \* [Paths -> the branch a path is on]
    Masks,          \* requested paths, with wildcards
    MatchedBy,      \* [Masks -> SUBSET Paths]: what PathFilter.Match accepts
    Spelled,        \* [Masks -> SUBSET Paths]: the path that is the mask itself
    EndsWith,       \* [suffixes -> SUBSET Paths]: strings.HasSuffix
    Auths,          \* the AuthInfo of clients
    Authorized,     \* SUBSET Auths
    Public,         \* paths for which no permission is needed
    Readable,       \* [Auths -> SUBSET Paths]: what their permissions match
    Writable,
    Values,
    Initial,        \* [Paths -> Values \cup {Null}]
    Data            \* data of set requests, see SuffixMap

ASSUME RequestsAssumption ==
    /\ AdapterOf \in [Paths -> Adapters]
    /\ Storing \cap Posting = {}
    /\ Simulated \cap (Storing \cup Posting) = {}
    /\ \A p \in Emulated : AdapterOf[p] \in Posting /\ p \notin ReadOnly
    /\ Range(SignalMap) \ {NoSignal} = {p \in Paths : AdapterOf[p] \in Simulated}
    /\ \A a, b \in Simulated : a = b      \* of which SignalMap is the configuration
    /\ Posting \cup Simulated \subseteq Adapters
    /\ MatchedBy \in [Masks -> SUBSET Paths]
    /\ \A m \in Masks : /\ Spelled[m] \subseteq MatchedBy[m]
                        /\ \A p, q \in Spelled[m] : p = q
    /\ Authorized \subseteq Auths /\ Public \subseteq Paths
    /\ Readable \in [Auths -> SUBSET Paths] /\ Writable \in [Auths -> SUBSET Paths]
    /\ Null \notin Values /\ Initial \in [Paths -> Values \cup {Null}]
    /\ \A tree \in Stats \cup Messages :
          DOMAIN tree \subseteq Leaves /\ Range(tree) \subseteq Values \cup {Null}
    \* What the emulator returns is below another prefix than its attributes.
    /\ \A tree \in Stats : \A l \in DOMAIN tree : Converted(l) \notin Emulated
    /\ \A v \in Values \cup {Null} : Minus[v] \in Values \cup {Null}

VARIABLES
    value,          \* what the adapters hold
    request,        \* the request under way, or NoRequest
    toAsk,          \* adapters it has still to call
    data,           \* set: adapterDataMap; get: commonData
    response,       \* "status" is "none" until there is a response
    held,           \* history, for each adapter: what it held of the Watched signals
                    \* before the request, and after each update that a get may meet
    latest          \* history: the tree an adapter has last taken over in whole

vars == <<value, request, toAsk, data, response, held, latest>>

PathsOf(a) == {p \in Paths : AdapterOf[p] = a}

\* A map after new entries.
Entered(new, old) ==
    [p \in DOMAIN new \cup DOMAIN old |-> IF p \in DOMAIN new THEN new[p] ELSE old[p]]
NoData == [p \in {} |-> Null]

\* Paths that a source writes: the telemetry adapter's, but for the attributes, and
\* the Renesas adapter's.
Produced == {p \in Paths : AdapterOf[p] \in Posting \cup Simulated} \ Emulated

NoRequest == [op |-> "none"]
Response(status) == [status |-> status, simple |-> FALSE, maps |-> {}]

UnderWay(op) == response.status = "none" /\ request.op = op

\* The signals whose past the properties ask for.
Watched(r)   == (Paths \ Produced) \cup (IF r.op = "get" THEN MatchedBy[r.mask] ELSE {})
Seen(r, a, v) == Restrict(v, PathsOf(a) \cap Watched(r))
Before(r, v) == [a \in Adapters |-> {Seen(r, a, v)}]

Init ==
    /\ value = Initial
    /\ request = NoRequest
    /\ toAsk = {} /\ data = NoData
    /\ response = Response("none")
    /\ held = Before(request, value)
    /\ latest = [a \in Posting \cup Simulated |-> NoData]

Idle == UnderWay("none") /\ UNCHANGED <<value, latest>>

Refuse(status) == response' = Response(status) /\ toAsk' = {} /\ data' = NoData

\* Of a request that is refused before it calls an adapter nothing else is kept.
Reject(status) ==
    Refuse(status) /\ request' = NoRequest /\ held' = Before(NoRequest, value)

\* With d, the adapters of its paths are called.
Accept(r, ps, d) ==
    /\ request' = r /\ held' = Before(r, value)
    /\ response' = Response("none")
    /\ toAsk' = {AdapterOf[p] : p \in ps}
    /\ data' = d

\* checkPermissions
Permitted(u, p, granted) == p \in Public \/ (u \in Authorized /\ p \in granted[u])

-----------------------------------------------------------------------------
(* get *)

\* convertData: a map for each branch; the value itself if the request spells
\* the one path there is.  The slip is to do so for any single path.
SimpleIfSingle(m, d) == Cardinality(DOMAIN d) = 1
IsSimple(m, d)       == DOMAIN d = Spelled[m] /\ DOMAIN d # {}

ConvertData(m, d) ==
    LET branch(b) == Restrict(d, {p \in DOMAIN d : ParentOf[p] = b})
    IN  [status |-> "ok", simple |-> IsSimple(m, d),
         maps |-> {branch(ParentOf[p]) : p \in DOMAIN d}]

\* One signal the client may not read refuses the whole request.
GetData(m, u) ==
    LET readable == \A p \in MatchedBy[m] : Permitted(u, p, Readable) IN
    /\ Idle
    /\ \/ MatchedBy[m] = {} /\ Reject("not exist")
       \/ ~ readable /\ Reject("denied")
       \/ /\ MatchedBy[m] # {} /\ readable
          /\ Accept([op |-> "get", mask |-> m, auth |-> u], MatchedBy[m], NoData)

\* The slip of an adapter that reads one path after the other, without its mutex.
AdapterReadsOne(a) ==
    /\ UnderWay("get") /\ a \in toAsk
    /\ \E p \in (PathsOf(a) \cap MatchedBy[request.mask]) \ DOMAIN data :
          /\ data' = (p :> value[p]) @@ data
          /\ toAsk' = IF PathsOf(a) \cap MatchedBy[request.mask] \subseteq DOMAIN data'
                      THEN toAsk \ {a} ELSE toAsk
    /\ UNCHANGED <<value, request, response, held, latest>>
AdapterGetData(a) ==
    /\ UnderWay("get") /\ a \in toAsk
    /\ data' = Entered(Restrict(value, PathsOf(a) \cap MatchedBy[request.mask]), data)
    /\ toAsk' = toAsk \ {a}
    /\ UNCHANGED <<value, request, response, held, latest>>

EndGet ==
    /\ UnderWay("get") /\ toAsk = {}
    /\ response' = ConvertData(request.mask, data)
    /\ data' = NoData
    /\ UNCHANGED <<value, request, toAsk, held, latest>>

-----------------------------------------------------------------------------
(* set *)

\* getSuffixMap.  Data that is an array of maps, or a map, is the sequence of
\* these in "items"; "whole" is the data taken as one value.  Of equal suffixes
\* the last one counts.
Items(d, s)  == {i \in 1 .. Len(d.items) : s \in DOMAIN d.items[i]}
SuffixesIn(d) == UNION {DOMAIN d.items[i] : i \in 1 .. Len(d.items)}
SuffixMap(d)  == [s \in SuffixesIn(d) |-> d.items[Max(Items(d, s))][s]]

\* The values that a signal may be given.  If several suffixes fit its path, the
\* order of the map decides; if none does, it is given nothing.
Candidates == [d \in Data |-> [p \in Paths |->
    IF SuffixesIn(d) = {} THEN {d.whole}
    ELSE LET fitting == {s \in SuffixesIn(d) : p \in EndsWith[s]}
         IN  IF fitting = {} THEN {Null} ELSE {SuffixMap(d)[s] : s \in fitting}]]

\* A signal that is given nothing, or null, is left alone.  The slip is to store null.
SkipNone(f) == f
SkipNull(f) == RestrictValues(f, LAMBDA v : v # Null)

Batches == [m \in Masks |-> [d \in Data |->
    {SkipNull(f) : f \in {g \in [MatchedBy[m] -> Values \cup {Null}] :
                             \A p \in MatchedBy[m] : g[p] \in Candidates[d][p]}}]]

\* The slip of looking only for something that the client may write.
SomeWritable(u, ps) == \E p \in ps : Permitted(u, p, Writable)
MayWrite(u, ps)     == \A p \in ps : Permitted(u, p, Writable)

\* All permissions are checked before the first adapter is called.
SetData(m, u, d) ==
    /\ Idle
    /\ \E f \in Batches[m][d] :
          \/ DOMAIN f = {} /\ Reject("malformed")
          \/ DOMAIN f # {} /\ ~ MayWrite(u, DOMAIN f) /\ Reject("denied")
          \/ /\ DOMAIN f # {} /\ MayWrite(u, DOMAIN f)
             /\ Accept([op |-> "set", mask |-> m, auth |-> u, data |-> d], DOMAIN f, f)

BatchOf(a) == DOMAIN data \cap PathsOf(a)
Store(ps)  == value' = Entered(Restrict(data, ps), value)

\* convertVisFormatToData: an emulator can be posted its own attributes.  The slip
\* is to post them and to store the whole batch.
AnyBatch(a)       == TRUE
OnlyAttributes(a) == BatchOf(a) \subseteq Emulated

\* What SetData of an adapter accepts.
Accepts(a) ==
    \/ a \in Storing /\ BatchOf(a) \cap ReadOnly = {}
    \/ a \in Posting /\ OnlyAttributes(a)

AdapterSetData(a) ==
    /\ UnderWay("set") /\ a \in toAsk
    /\ Accepts(a) /\ Store(BatchOf(a))
    /\ toAsk' = toAsk \ {a}
    /\ UNCHANGED <<request, data, response, held, latest>>

\* The error of an adapter ends the request; those before it keep what they
\* were given, and so do the signals the base adapter went over before the
\* read-only one.  An emulator may refuse what it is posted, or be away.
AdapterRefuses(a) ==
    /\ UnderWay("set") /\ a \in toAsk
    /\ a \in Posting \/ ~ Accepts(a)
    /\ \E ps \in SUBSET (BatchOf(a) \ ReadOnly) :
          /\ a \notin Storing => ps = {}
          /\ Store(ps)
    /\ Refuse("failed")
    /\ UNCHANGED <<request, held, latest>>

\* The slip of returning after the first adapter.
EndSetAfterFirst ==
    /\ UnderWay("set") /\ toAsk # {AdapterOf[p] : p \in DOMAIN data}
    /\ response' = Response("ok") /\ toAsk' = {} /\ data' = NoData
    /\ UNCHANGED <<value, request, held, latest>>
EndSet ==
    /\ UnderWay("set") /\ toAsk = {}
    /\ response' = Response("ok")
    /\ data' = NoData
    /\ UNCHANGED <<value, request, toAsk, held, latest>>

\* The VIS server sends the response, and takes the next request.
Deliver ==
    /\ response.status # "none"
    /\ request' = NoRequest /\ response' = Response("none")
    /\ held' = Before(NoRequest, value)
    /\ UNCHANGED <<value, toAsk, data, latest>>

-----------------------------------------------------------------------------
(* The sources *)

\* The adapter a writes.  That it writes between a response and its delivery makes
\* no difference.
Produce(a, new) ==
    /\ response.status = "none"
    /\ value' = Entered(new, value)
    /\ held' = IF request.op = "get" /\ a \in toAsk
               THEN [held EXCEPT ![a] = @ \cup {Seen(request, a, value')}] ELSE held
    /\ UNCHANGED <<request, toAsk, data, response>>

\* processData: what the emulator returns is set, if the adapter knows all of its
\* paths, which are those of the tree it was created with.
Tick(a, tree) ==
    \E new \in parseNode(tree) :
        /\ DOMAIN new \subseteq PathsOf(a)
        /\ Produce(a, new)
        /\ latest' = [latest EXCEPT ![a] = tree]

\* A path that it does not know ends SetData, in the order of the map.
TickRefused(a, tree) ==
    \E new \in parseNode(tree) :
        /\ ~ DOMAIN new \subseteq PathsOf(a)
        /\ \E ps \in SUBSET (DOMAIN new \cap PathsOf(a)) : Produce(a, Restrict(new, ps))
        /\ latest' = [latest EXCEPT ![a] = NoData]

SimulatorData(a, tree) ==
    \E new \in processCommand(tree) :
        /\ Produce(a, new)
        /\ latest' = [latest EXCEPT ![a] = tree]

Next ==
    \/ \E m \in Masks, u \in Auths : GetData(m, u)
    \/ \E m \in Masks, u \in Auths, d \in Data : SetData(m, u, d)
    \/ \E a \in Adapters :
          AdapterGetData(a) \/ AdapterSetData(a) \/ AdapterRefuses(a)
    \/ \E a \in Posting, tree \in Stats : Tick(a, tree) \/ TickRefused(a, tree)
    \/ \E a \in Simulated, tree \in Messages : SimulatorData(a, tree)
    \/ EndGet \/ EndSet \/ Deliver

Spec == Init /\ [][Next]_vars

-----------------------------------------------------------------------------
(* Properties *)

\* Every variable has its type.  In particular no request sets a signal to null:
\* only signals that have been null from the start still are, and the emulator's.
TypeOK ==
    /\ value \in [Paths -> Values \cup {Null}]
    /\ \A p \in Paths : value[p] = Null => Initial[p] = Null \/ p \in Produced
    /\ \A p \in DOMAIN data : p \in Paths /\ data[p] \in Values \cup {Null}
    /\ request \in {NoRequest} \cup [op : {"get"}, mask : Masks, auth : Auths]
                             \cup [op : {"set"}, mask : Masks, auth : Auths, data : Data]
    /\ toAsk \subseteq Adapters
    /\ response.status \in {"none", "ok", "denied", "malformed", "not exist", "failed"}
    /\ DOMAIN held = Adapters /\ DOMAIN latest = Posting \cup Simulated
    /\ \A a \in DOMAIN latest : DOMAIN latest[a] \subseteq Leaves

\* The signals that a set request asks to be set, whatever the order of a map.
Asked == {p \in MatchedBy[request.mask] : Null \notin Candidates[request.data][p]}

\* However far a request got, and over however many adapters, it has changed only
\* signals that its path matches and that are not read-only, and none at all if
\* the client may not write one of those it asked to be set.
OnlyGranted ==
    \A p \in Paths \ Produced :
        (\E old \in held[AdapterOf[p]] : value[p] # old[p]) =>
            /\ request.op = "set"
            /\ p \in MatchedBy[request.mask] \ ReadOnly
            /\ \A q \in Asked \cup {p} :
                  q \in Public \/ (request.auth \in Authorized /\ q \in Writable[request.auth])

\* A set request that returns without an error has set everything it asked for, to
\* a value it gave for a suffix of that path.
AcceptedIsComplete ==
    response.status = "ok" /\ request.op = "set" =>
        \A p \in Asked : value[p] \in Candidates[request.data][p]

\* What a client makes of a response: a value without its path is that of the
\* path it requested.
Known ==
    LET all == UNION {{<<p, map[p]>> : p \in DOMAIN map} : map \in response.maps}
    IN  IF response.simple THEN {<<p, x[2]>> : p \in Spelled[request.mask], x \in all}
        ELSE all

\* In each of the three forms of a response, a client learns of all the signals it
\* asked for and of no other, with one value for each.
NothingLost ==
    response.status = "ok" /\ request.op = "get" =>
        \A p \in Paths : Cardinality({x \in Known : x[1] = p})
                            = IF p \in MatchedBy[request.mask] THEN 1 ELSE 0

\* The signals of one adapter are from one moment of the request, whatever its
\* goroutine writes meanwhile.  Those of different adapters need not be.
ReadAtOneMoment ==
    response.status = "ok" /\ request.op = "get" =>
        \A a \in Adapters : \E h \in held[a] :
            \A x \in Known : AdapterOf[x[1]] = a => x[2] = h[x[1]]

\* What a get request has read so far: all that the adapters it has asked hold of
\* its signals, each of them at one moment.  Of an adapter that it has still to ask,
\* what is there now is one of these moments.
GetConsistent ==
    UnderWay("get") =>
        /\ DOMAIN data = {p \in MatchedBy[request.mask] : AdapterOf[p] \notin toAsk}
        /\ \A a \in toAsk : Seen(request, a, value) \in held[a]
        /\ \A a \in Adapters : \E h \in held[a] :
              \A p \in DOMAIN data : AdapterOf[p] = a => data[p] = h[p]

\* What a set request is going to set: everything it asked for, nothing but what its
\* client may write, and no null.  The adapters that it has called hold their part
\* of it, and no source writes over that.
SetConsistent ==
    UnderWay("set") =>
        /\ DOMAIN data \subseteq MatchedBy[request.mask]
        /\ Asked \subseteq DOMAIN data
        /\ \A p \in DOMAIN data :
              /\ Permitted(request.auth, p, Writable)
              /\ data[p] # Null /\ data[p] \in Candidates[request.data][p]
              /\ AdapterOf[p] \notin toAsk => value[p] = data[p] /\ p \notin Produced

\* The inductive invariant: what responses and adapters show, and how a request that
\* is under way gets there.
RequestsInv ==
    /\ TypeOK
    /\ OnlyGranted /\ AcceptedIsComplete
    /\ NothingLost /\ ReadAtOneMoment
    /\ GetConsistent /\ SetConsistent

\* Leaves whose name the configuration converts by one step, and that no other leaf
\* of the tree is converted to.
Distinct(tree) ==
    {l \in DOMAIN tree : /\ Converted(l) = convertPath(l)
                        /\ \A k \in DOMAIN tree \ {l} : Converted(k) # Converted(l)}

EmulatorCounts(a) ==
    \A l \in Distinct(latest[a]) : value[convertPath(l)] = latest[a][l]

SimulatorCounts(a) ==
    \A l \in Wanted(latest[a]) :
        (\A k \in Wanted(latest[a]) \ {l} : SignalMap[k] # SignalMap[l]) =>
            LET sent == [s \in {SignalMap[l]} |-> latest[a][l]]
            IN  value[SignalMap[l]] = Turned(sent)[SignalMap[l]]

\* What a source has sent in the tree that was last taken over is what its adapter
\* holds under the configured name, whatever clients try to set: of the leaves that
\* are distinct by the configuration.  Of the others it may be what came from
\* another leaf.
SourcesCount ==
    /\ \A a \in Posting : EmulatorCounts(a)
    /\ \A a \in Simulated : SimulatorCounts(a)

\* What was taken over in whole from an emulator is all known to its adapter.
SourcesInv ==
    /\ SourcesCount
    /\ \A a \in Posting : \A l \in DOMAIN latest[a] : Converted(l) \in PathsOf(a) \ Emulated
=============================================================================
