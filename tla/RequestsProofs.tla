----------------------------- MODULE RequestsProofs -----------------------------
(***************************************************************************)
(* Proofs about get and set requests, for any adapters, paths, masks,      *)
(* permissions, data and sources.                                          *)
(***************************************************************************)
EXTENDS Requests, ListLemmas, FiniteSetTheorems, TLAPS

-----------------------------------------------------------------------------
(* Maps *)

\* A map after new entries has both keys, and of a new one the new value.
LEMMA EnteredIs ==
    ASSUME NEW new, NEW old
    PROVE  /\ DOMAIN Entered(new, old) = DOMAIN new \cup DOMAIN old
           /\ \A p \in DOMAIN new : Entered(new, old)[p] = new[p]
           /\ \A p \in DOMAIN old \ DOMAIN new : Entered(new, old)[p] = old[p]
BY DEF Entered

\* A restricted map.
LEMMA RestrictIs ==
    ASSUME NEW f, NEW S
    PROVE  DOMAIN Restrict(f, S) = S /\ \A x \in S : Restrict(f, S)[x] = f[x]
BY DEF Restrict

\* What is left of a map without its nulls.
LEMMA SkipNullIs ==
    ASSUME NEW f
    PROVE  /\ DOMAIN SkipNull(f) = {p \in DOMAIN f : f[p] # Null}
           /\ \A p \in DOMAIN SkipNull(f) : SkipNull(f)[p] = f[p]
BY DEF SkipNull, RestrictValues, Restrict

\* New values keep the type of the table, and change only what they are for.
LEMMA TableTyped ==
    ASSUME NEW table \in [Paths -> Values \cup {Null}], NEW new,
           \A p \in DOMAIN new : p \in Paths /\ new[p] \in Values \cup {Null}
    PROVE  /\ Entered(new, table) \in [Paths -> Values \cup {Null}]
           /\ \A p \in DOMAIN new : Entered(new, table)[p] = new[p]
           /\ \A p \in Paths \ DOMAIN new : Entered(new, table)[p] = table[p]
<1>1. DOMAIN new \cup DOMAIN table = Paths
    OBVIOUS
<1>2. Entered(new, table) = [p \in Paths |-> IF p \in DOMAIN new THEN new[p] ELSE table[p]]
    BY <1>1 DEF Entered
<1>. QED  BY <1>2

-----------------------------------------------------------------------------
(* What sources write *)

\* The ticker writes no attribute of the emulator.
LEMMA TickerWrites ==
    ASSUME NEW tree \in Stats, NEW new \in parseNode(tree)
    PROVE  \A p \in DOMAIN new : p \notin Emulated /\ new[p] \in Values \cup {Null}
<1> DEFINE to == [l \in DOMAIN tree |-> Converted(l)]
<1>1. new \in [{to[l] : l \in DOMAIN tree} -> Range(tree)]
    BY DEF parseNode, Collected
<1>2. Range(tree) \subseteq Values \cup {Null}
    BY RequestsAssumption
<1>3. \A l \in DOMAIN tree : to[l] \notin Emulated
    BY RequestsAssumption
<1> HIDE DEF to
<1>. QED  BY <1>1, <1>2, <1>3

\* The connection writes signals of the one Renesas adapter.
LEMMA ConnectionWrites ==
    ASSUME NEW tree \in Messages, NEW new \in processCommand(tree), NEW a \in Simulated
    PROVE  \A p \in DOMAIN new : p \in PathsOf(a) /\ new[p] \in Values \cup {Null}
<1>1. PICK m \in handleSimulatorData(tree) : new = Turned(m)
    BY DEF processCommand
<1> DEFINE wanted == Restrict(tree, Wanted(tree))
           to == [l \in Wanted(tree) |-> SignalMap[l]]
<1>2. DOMAIN wanted = Wanted(tree) /\ \A l \in Wanted(tree) : wanted[l] = tree[l]
    BY RestrictIs
<1>3. m \in [{to[l] : l \in DOMAIN wanted} -> Range(wanted)]
    BY <1>1 DEF handleSimulatorData, Collected
<1>4. Range(wanted) \subseteq Values \cup {Null}
    <2>1. \A l \in Wanted(tree) : tree[l] \in Range(tree)
        BY DEF Wanted, Range
    <2>2. Range(tree) \subseteq Values \cup {Null}
        BY RequestsAssumption
    <2>. QED  BY <1>2, <2>1, <2>2 DEF Range
<1>5. \A l \in DOMAIN wanted : to[l] \in PathsOf(a)
    <2> SUFFICES ASSUME NEW l \in Wanted(tree)
                 PROVE  SignalMap[l] \in PathsOf(a)
        BY <1>2
    <2>1. SignalMap[l] \in Range(SignalMap) \ {NoSignal}
        BY DEF Wanted, Range
    <2>. QED  BY <2>1, RequestsAssumption DEF PathsOf
<1>6. DOMAIN new = DOMAIN m /\ \A p \in DOMAIN m : new[p] = m[p] \/ new[p] = Minus[m[p]]
    BY <1>1 DEF Turned
<1> HIDE DEF wanted, to
<1>7. \A p \in DOMAIN m : p \in PathsOf(a) /\ m[p] \in Values \cup {Null}
    BY <1>3, <1>4, <1>5
<1>. QED  BY <1>6, <1>7, RequestsAssumption

-----------------------------------------------------------------------------
(* What is permitted *)

\* Asked depends on the request alone.
LEMMA AskedSame ==
    ASSUME request' = request
    PROVE  Asked' = Asked
BY DEF Asked

\* A signal that a set request is about to write may be written, and so may all the
\* others that it asks for.
LEMMA MayBeWritten ==
    ASSUME SetConsistent, UnderWay("set"), NEW p \in DOMAIN data
    PROVE  /\ p \in MatchedBy[request.mask]
           /\ \A q \in Asked \cup {p} :
                 q \in Public \/ (request.auth \in Authorized /\ q \in Writable[request.auth])
BY DEF SetConsistent, Permitted

\* Before a request, the past of every watched signal is its present.
LEMMA BeforeIs ==
    ASSUME NEW r, NEW v
    PROVE  /\ DOMAIN Before(r, v) = Adapters
           /\ \A a \in Adapters : Before(r, v)[a] = {Seen(r, a, v)}
BY DEF Before

\* What is seen of an adapter.
LEMMA SeenIs ==
    ASSUME NEW r, NEW v, NEW a, NEW p \in PathsOf(a) \cap Watched(r)
    PROVE  Seen(r, a, v)[p] = v[p]
BY RestrictIs DEF Seen

\* So at the start of a request nothing has changed.
LEMMA NothingChanged ==
    ASSUME NEW r, NEW v, NEW p \in Paths \ Produced, NEW old \in Before(r, v)[AdapterOf[p]]
    PROVE  v[p] = old[p]
<1>1. AdapterOf[p] \in Adapters
    BY RequestsAssumption
<1>2. p \in PathsOf(AdapterOf[p]) \cap Watched(r)
    BY DEF PathsOf, Watched
<1>. QED  BY <1>1, <1>2, BeforeIs, SeenIs

-----------------------------------------------------------------------------
(* The steps *)

Statuses == {"none", "ok", "denied", "malformed", "not exist", "failed"}

\* Between requests there is only the table to be typed.
LEMMA NoRequestStep ==
    ASSUME TypeOK, request' = NoRequest, UNCHANGED <<value, latest>>,
           held' = Before(NoRequest, value), response'.status \in Statuses,
           toAsk' \subseteq Adapters,
           \A p \in DOMAIN data' : p \in Paths /\ data'[p] \in Values \cup {Null}
    PROVE  RequestsInv'
<1>1. request'.op = "none"
    BY DEF NoRequest
<1>2. TypeOK'
    BY BeforeIs DEF TypeOK, Statuses
<1>3. OnlyGranted'
    <2> SUFFICES ASSUME NEW p \in Paths \ Produced, NEW old \in held'[AdapterOf[p]]
                 PROVE  value'[p] = old[p]
        BY DEF OnlyGranted
    <2>. QED  BY NothingChanged
<1>4. AcceptedIsComplete' /\ NothingLost' /\ ReadAtOneMoment'
    BY <1>1 DEF AcceptedIsComplete, NothingLost, ReadAtOneMoment
<1>5. GetConsistent' /\ SetConsistent'
    BY <1>1 DEF GetConsistent, SetConsistent, UnderWay
<1>. QED  BY <1>2, <1>3, <1>4, <1>5 DEF RequestsInv

\* A request that is refused before it calls an adapter.
LEMMA RejectStep ==
    ASSUME TypeOK, NEW status \in Statuses, Reject(status), UNCHANGED <<value, latest>>
    PROVE  RequestsInv'
<1>1. response'.status = status /\ toAsk' = {} /\ DOMAIN data' = {}
    BY DEF Reject, Refuse, Response, NoData
<1>. QED  BY <1>1, NoRequestStep DEF Reject

\* What an accepted request begins with: nothing has changed, nothing is answered.
LEMMA AcceptStep ==
    ASSUME TypeOK, NEW r, NEW ps \in SUBSET Paths, NEW d, Accept(r, ps, d),
           UNCHANGED <<value, latest>>,
           r \in [op : {"get"}, mask : Masks, auth : Auths]
                 \cup [op : {"set"}, mask : Masks, auth : Auths, data : Data],
           \A p \in DOMAIN d : p \in Paths /\ d[p] \in Values \cup {Null}
    PROVE  TypeOK' /\ OnlyGranted' /\ AcceptedIsComplete' /\ NothingLost' /\ ReadAtOneMoment'
<1>1. response'.status = "none"
    BY DEF Accept, Response
<1>2. toAsk' \subseteq Adapters
    BY RequestsAssumption DEF Accept
<1>3. request' = r /\ data' = d /\ held' = Before(r, value)
    BY DEF Accept
<1>4. TypeOK'
    BY <1>1, <1>2, <1>3, BeforeIs DEF TypeOK
<1>5. OnlyGranted'
    <2> SUFFICES ASSUME NEW p \in Paths \ Produced, NEW old \in held'[AdapterOf[p]]
                 PROVE  value'[p] = old[p]
        BY DEF OnlyGranted
    <2>. QED  BY <1>3, NothingChanged
<1>6. AcceptedIsComplete' /\ NothingLost' /\ ReadAtOneMoment'
    BY <1>1 DEF AcceptedIsComplete, NothingLost, ReadAtOneMoment
<1>. QED  BY <1>4, <1>5, <1>6

\* A get request.
LEMMA GetStep ==
    ASSUME RequestsInv, NEW m \in Masks, NEW u \in Auths, GetData(m, u)
    PROVE  RequestsInv'
<1> DEFINE r == [op |-> "get", mask |-> m, auth |-> u]
<1>1. TypeOK /\ UNCHANGED <<value, latest>>
    BY DEF RequestsInv, GetData, Idle
<1>2. CASE Reject("not exist") \/ Reject("denied")
    BY <1>1, <1>2, RejectStep DEF Statuses
<1>3. CASE Accept(r, MatchedBy[m], NoData)
    <2>1. MatchedBy[m] \in SUBSET Paths
        BY RequestsAssumption
    <2>2. DOMAIN NoData = {}
        BY DEF NoData
    <2>3. r \in [op : {"get"}, mask : Masks, auth : Auths]
        OBVIOUS
    <2>4. TypeOK' /\ OnlyGranted' /\ AcceptedIsComplete' /\ NothingLost' /\ ReadAtOneMoment'
        BY <1>1, <1>3, <2>1, <2>2, <2>3, AcceptStep
    <2>5. /\ request' = r /\ data' = NoData /\ held' = Before(r, value) /\ value' = value
          /\ toAsk' = {AdapterOf[p] : p \in MatchedBy[m]}
        BY <1>1, <1>3 DEF Accept
    <2>6. DOMAIN data' = {p \in MatchedBy[request'.mask] : AdapterOf[p] \notin toAsk'}
        BY <2>2, <2>5
    <2>7. \A a \in Adapters : Seen(request', a, value') \in held'[a]
        BY <2>5, BeforeIs
    <2>8. toAsk' \subseteq Adapters
        BY <2>4 DEF TypeOK
    <2>9. GetConsistent' /\ SetConsistent'
        BY <2>2, <2>5, <2>6, <2>7, <2>8 DEF GetConsistent, SetConsistent, UnderWay
    <2>. QED  BY <2>4, <2>9 DEF RequestsInv
<1>. QED  BY <1>2, <1>3 DEF GetData

\* A set request: its batch has everything it asked for, and passed the permissions.
LEMMA SetStep ==
    ASSUME RequestsInv, NEW m \in Masks, NEW u \in Auths, NEW d \in Data, SetData(m, u, d)
    PROVE  RequestsInv'
<1> DEFINE r == [op |-> "set", mask |-> m, auth |-> u, data |-> d]
<1>1. TypeOK /\ UNCHANGED <<value, latest>>
    BY DEF RequestsInv, SetData, Idle
<1>2. PICK f \in Batches[m][d] :
          \/ Reject("malformed") \/ Reject("denied")
          \/ MayWrite(u, DOMAIN f) /\ Accept(r, DOMAIN f, f)
    BY DEF SetData
<1>3. CASE Reject("malformed") \/ Reject("denied")
    BY <1>1, <1>3, RejectStep DEF Statuses
<1>4. CASE MayWrite(u, DOMAIN f) /\ Accept(r, DOMAIN f, f)
    <2>1. PICK g \in [MatchedBy[m] -> Values \cup {Null}] :
              f = SkipNull(g) /\ \A p \in MatchedBy[m] : g[p] \in Candidates[d][p]
        BY <1>2 DEF Batches
    <2>2. MatchedBy[m] \subseteq Paths
        BY RequestsAssumption
    <2>3. /\ DOMAIN f = {p \in MatchedBy[m] : g[p] # Null}
          /\ \A p \in DOMAIN f : f[p] = g[p]
        BY <2>1, SkipNullIs
    <2>4. \A p \in DOMAIN f : p \in Paths /\ f[p] \in Values \cup {Null}
        BY <2>1, <2>2, <2>3
    <2>5. r \in [op : {"set"}, mask : Masks, auth : Auths, data : Data]
        OBVIOUS
    <2>6. TypeOK' /\ OnlyGranted' /\ AcceptedIsComplete' /\ NothingLost' /\ ReadAtOneMoment'
        BY <1>1, <1>4, <2>4, <2>5, AcceptStep
    <2>7. /\ request' = r /\ data' = f
          /\ toAsk' = {AdapterOf[p] : p \in DOMAIN f}
        BY <1>4 DEF Accept
    <2>8. request'.mask = m /\ request'.auth = u /\ request'.data = d /\ request'.op = "set"
        BY <2>7
    <2>9. Asked' = {p \in MatchedBy[m] : Null \notin Candidates[d][p]}
        BY <2>8 DEF Asked
    <2>10. Asked' \subseteq DOMAIN f
        BY <2>1, <2>3, <2>9
    <2>11. \A p \in DOMAIN f : /\ Permitted(u, p, Writable)
                              /\ f[p] # Null /\ f[p] \in Candidates[d][p]
                              /\ AdapterOf[p] \in toAsk'
        BY <1>4, <2>1, <2>3, <2>7 DEF MayWrite
    <2>12. SetConsistent'
        BY <2>3, <2>7, <2>8, <2>10, <2>11 DEF SetConsistent
    <2>13. GetConsistent'
        BY <2>8 DEF GetConsistent, UnderWay
    <2>. QED  BY <2>6, <2>12, <2>13 DEF RequestsInv
<1>. QED  BY <1>2, <1>3, <1>4

-----------------------------------------------------------------------------
(* Get *)

\* A get request asks one adapter, which answers for one moment.
LEMMA AdapterGetStep ==
    ASSUME RequestsInv, NEW b \in Adapters, AdapterGetData(b)
    PROVE  RequestsInv'
<1> DEFINE matched == MatchedBy[request.mask]
           answer  == Restrict(value, PathsOf(b) \cap matched)
<1>1. /\ TypeOK /\ UnderWay("get") /\ b \in toAsk
      /\ UNCHANGED <<value, request, response, held, latest>>
    BY DEF RequestsInv, AdapterGetData
<1>2. toAsk' = toAsk \ {b} /\ data' = Entered(answer, data)
    BY DEF AdapterGetData
<1>3. request.mask \in Masks /\ matched \subseteq Paths
    BY <1>1, RequestsAssumption DEF TypeOK, UnderWay, NoRequest
<1>4. /\ DOMAIN data = {p \in matched : AdapterOf[p] \notin toAsk}
      /\ \A a \in toAsk : Seen(request, a, value) \in held[a]
      /\ \A a \in Adapters : \E h \in held[a] :
            \A p \in DOMAIN data : AdapterOf[p] = a => data[p] = h[p]
    BY <1>1 DEF RequestsInv, GetConsistent
<1>5. DOMAIN answer = PathsOf(b) \cap matched /\ \A p \in DOMAIN answer : answer[p] = value[p]
    BY RestrictIs
<1>6. /\ DOMAIN data' = DOMAIN answer \cup DOMAIN data
      /\ \A p \in DOMAIN answer : data'[p] = value[p]
      /\ \A p \in DOMAIN data \ DOMAIN answer : data'[p] = data[p]
    <2>1. /\ DOMAIN Entered(answer, data) = DOMAIN answer \cup DOMAIN data
          /\ \A p \in DOMAIN answer : Entered(answer, data)[p] = answer[p]
          /\ \A p \in DOMAIN data \ DOMAIN answer : Entered(answer, data)[p] = data[p]
        BY EnteredIs
    <2> HIDE DEF answer
    <2>. QED  BY <1>2, <1>5, <2>1
<1>7. TypeOK'
    <2>1. \A p \in DOMAIN data' : p \in Paths /\ data'[p] \in Values \cup {Null}
        BY <1>1, <1>3, <1>5, <1>6 DEF TypeOK
    <2>. QED  BY <1>1, <1>2, <2>1 DEF TypeOK
<1>8. GetConsistent'
    <2>1. DOMAIN data' = {p \in matched : AdapterOf[p] \notin toAsk'}
        BY <1>2, <1>3, <1>4, <1>5, <1>6 DEF PathsOf
    <2>2. \A a \in toAsk' : Seen(request', a, value') \in held'[a]
        BY <1>1, <1>2, <1>4
    <2>3. ASSUME NEW a \in Adapters
          PROVE  \E h \in held'[a] : \A p \in DOMAIN data' : AdapterOf[p] = a => data'[p] = h[p]
        <3>1. CASE a = b
            <4>1. Seen(request, b, value) \in held'[b]
                BY <1>1, <1>4
            <4>2. \A p \in DOMAIN data' : AdapterOf[p] = b =>
                      p \in PathsOf(b) \cap Watched(request) /\ data'[p] = value[p]
                BY <1>1, <1>3, <1>4, <1>5, <1>6 DEF PathsOf, Watched, UnderWay
            <4>3. \A p \in DOMAIN data' : AdapterOf[p] = b =>
                      data'[p] = Seen(request, b, value)[p]
                BY <4>2, SeenIs
            <4>. QED  BY <3>1, <4>1, <4>3
        <3>2. CASE a # b
            <4>1. PICK h \in held[a] : \A p \in DOMAIN data : AdapterOf[p] = a => data[p] = h[p]
                BY <1>4
            <4>2. \A p \in DOMAIN data' : AdapterOf[p] = a =>
                      p \in DOMAIN data /\ data'[p] = data[p]
                BY <1>5, <1>6, <3>2 DEF PathsOf
            <4>. QED  BY <1>1, <4>1, <4>2
        <3>. QED  BY <3>1, <3>2
    <2>. QED  BY <1>1, <2>1, <2>2, <2>3 DEF GetConsistent
<1>9. /\ OnlyGranted' /\ AcceptedIsComplete' /\ NothingLost' /\ ReadAtOneMoment'
      /\ SetConsistent'
    <2>1. OnlyGranted'
        BY <1>1, AskedSame DEF RequestsInv, OnlyGranted
    <2>. QED  BY <1>1, <2>1 DEF AcceptedIsComplete, NothingLost, ReadAtOneMoment,
                                SetConsistent, UnderWay
<1>. QED  BY <1>7, <1>8, <1>9 DEF RequestsInv

\* The branches of a response have together the values that were read.
LEMMA BranchesHaveAll ==
    ASSUME NEW m, NEW d
    PROVE  UNION {{<<p, map[p]>> : p \in DOMAIN map} : map \in ConvertData(m, d).maps}
               = {<<p, d[p]>> : p \in DOMAIN d}
<1> DEFINE branch(b) == Restrict(d, {p \in DOMAIN d : ParentOf[p] = b})
           maps == {branch(ParentOf[p]) : p \in DOMAIN d}
           pairs(map) == {<<p, map[p]>> : p \in DOMAIN map}
<1>1. ConvertData(m, d).maps = maps
    BY DEF ConvertData
<1>2. ASSUME NEW b
      PROVE  /\ DOMAIN branch(b) = {p \in DOMAIN d : ParentOf[p] = b}
             /\ \A p \in DOMAIN branch(b) : branch(b)[p] = d[p]
    BY RestrictIs
<1>3. ASSUME NEW p \in DOMAIN d
      PROVE  branch(ParentOf[p]) \in maps /\ <<p, d[p]>> \in pairs(branch(ParentOf[p]))
    <2>1. p \in DOMAIN branch(ParentOf[p]) /\ branch(ParentOf[p])[p] = d[p]
        BY <1>2
    <2>. QED  BY <2>1
<1>4. ASSUME NEW map \in maps, NEW x \in pairs(map)
      PROVE  x \in {<<p, d[p]>> : p \in DOMAIN d}
    <2>1. PICK b : map = branch(b)
        OBVIOUS
    <2>2. PICK p \in DOMAIN map : x = <<p, map[p]>>
        OBVIOUS
    <2>3. p \in DOMAIN d /\ map[p] = d[p]
        <3>1. p \in DOMAIN branch(b) /\ map[p] = branch(b)[p]
            BY <2>1, <2>2
        <3> HIDE DEF branch
        <3>. QED  BY <1>2, <3>1
    <2>. QED  BY <2>2, <2>3
<1> HIDE DEF branch
<1>5. UNION {pairs(map) : map \in maps} = {<<p, d[p]>> : p \in DOMAIN d}
    <2>1. \A x : x \in UNION {pairs(map) : map \in maps} <=> \E map \in maps : x \in pairs(map)
        OBVIOUS
    <2> HIDE DEF pairs, maps
    <2>. QED  BY <1>3, <1>4, <2>1
<1>. QED  BY <1>1, <1>5

\* In each of its forms a response says what was read.
LEMMA KnownIsRead ==
    ASSUME request'.mask \in Masks, NEW d, response' = ConvertData(request'.mask, d)
    PROVE  Known' = {<<p, d[p]>> : p \in DOMAIN d}
<1> DEFINE m   == request'.mask
           all == {<<p, d[p]>> : p \in DOMAIN d}
<1>1. UNION {{<<p, map[p]>> : p \in DOMAIN map} : map \in response'.maps} = all
    BY BranchesHaveAll
<1>2. Known' = IF IsSimple(m, d) THEN {<<p, x[2]>> : p \in Spelled[m], x \in all} ELSE all
    <2>1. response'.simple = IsSimple(m, d)
        BY DEF ConvertData
    <2> DEFINE told == UNION {{<<p, map[p]>> : p \in DOMAIN map} : map \in response'.maps}
    <2>2. Known' = IF response'.simple THEN {<<p, x[2]>> : p \in Spelled[m], x \in told} ELSE told
        BY DEF Known
    <2>3. told = all
        BY <1>1
    <2> HIDE DEF told, all, m
    <2>. QED  BY <2>1, <2>2, <2>3
<1>3. ASSUME IsSimple(m, d)
      PROVE  {<<p, x[2]>> : p \in Spelled[m], x \in all} = all
    <2>1. DOMAIN d = Spelled[m] /\ \A p, q \in Spelled[m] : p = q
        BY <1>3, RequestsAssumption DEF IsSimple
    <2>2. \A p \in Spelled[m], x \in all : <<p, x[2]>> = x
        BY <2>1
    <2>3. \A x \in all : \E p \in Spelled[m] : x = <<p, x[2]>>
        BY <2>1
    <2> HIDE DEF all, m
    <2>. QED  BY <2>2, <2>3, <2>1
<1>. QED  BY <1>2, <1>3

\* A get request ends with a response that has lost nothing.
LEMMA EndGetStep ==
    ASSUME RequestsInv, EndGet
    PROVE  RequestsInv'
<1> DEFINE matched == MatchedBy[request.mask]
<1>1. /\ TypeOK /\ UnderWay("get") /\ toAsk = {}
      /\ UNCHANGED <<value, request, toAsk, held, latest>>
      /\ response' = ConvertData(request.mask, data) /\ DOMAIN data' = {}
    BY DEF RequestsInv, EndGet, NoData
<1>2. request.mask \in Masks /\ matched \subseteq Paths /\ request.op = "get"
    BY <1>1, RequestsAssumption DEF TypeOK, UnderWay, NoRequest
<1>3. /\ DOMAIN data = matched
      /\ \A a \in Adapters : \E h \in held[a] :
            \A p \in DOMAIN data : AdapterOf[p] = a => data[p] = h[p]
    BY <1>1 DEF RequestsInv, GetConsistent
<1>4. response'.status = "ok"
    BY <1>1 DEF ConvertData
<1>5. Known' = {<<p, data[p]>> : p \in matched}
    BY <1>1, <1>2, <1>3, KnownIsRead
<1>6. NothingLost'
    <2> SUFFICES ASSUME NEW p \in Paths
                 PROVE  Cardinality({x \in Known' : x[1] = p})
                            = IF p \in MatchedBy[request'.mask] THEN 1 ELSE 0
        BY DEF NothingLost
    <2>1. CASE p \in matched
        <3>1. {x \in Known' : x[1] = p} = {<<p, data[p]>>}
            BY <1>5, <2>1
        <3>. QED  BY <1>1, <2>1, <3>1, FS_Singleton
    <2>2. CASE p \notin matched
        <3>1. {x \in Known' : x[1] = p} = {}
            BY <1>5, <2>2
        <3>. QED  BY <1>1, <2>2, <3>1, FS_EmptySet
    <2>. QED  BY <2>1, <2>2
<1>7. ReadAtOneMoment'
    <2> SUFFICES ASSUME NEW a \in Adapters
                 PROVE  \E h \in held'[a] :
                            \A x \in Known' : AdapterOf[x[1]] = a => x[2] = h[x[1]]
        BY DEF ReadAtOneMoment
    <2>1. PICK h \in held[a] : \A p \in matched : AdapterOf[p] = a => data[p] = h[p]
        BY <1>3
    <2>2. \A x \in Known' : x[1] \in matched /\ x[2] = data[x[1]]
        BY <1>5
    <2>. QED  BY <1>1, <2>1, <2>2
<1>8. TypeOK'
    BY <1>1, <1>4 DEF TypeOK
<1>9. OnlyGranted'
    BY <1>1, AskedSame DEF RequestsInv, OnlyGranted
<1>10. AcceptedIsComplete' /\ GetConsistent' /\ SetConsistent'
    BY <1>1, <1>2, <1>4 DEF AcceptedIsComplete, GetConsistent, SetConsistent, UnderWay
<1>. QED  BY <1>6, <1>7, <1>8, <1>9, <1>10 DEF RequestsInv

-----------------------------------------------------------------------------
(* Set *)

\* Writing a part of a batch is within what was granted.
LEMMA GrantedStep ==
    ASSUME RequestsInv, UnderWay("set"), NEW ps \in SUBSET (DOMAIN data \ ReadOnly), Store(ps),
           UNCHANGED <<request, held>>
    PROVE  /\ OnlyGranted'
           /\ value' \in [Paths -> Values \cup {Null}]
           /\ \A p \in Paths : value'[p] = IF p \in ps THEN data[p] ELSE value[p]
           /\ \A p \in Paths : value'[p] = Null => Initial[p] = Null \/ p \in Produced
<1> DEFINE new == Restrict(data, ps)
<1>1. TypeOK /\ SetConsistent /\ OnlyGranted
    BY DEF RequestsInv
<1>2. DOMAIN new = ps /\ \A p \in ps : new[p] = data[p]
    BY RestrictIs
<1>3. \A p \in ps : p \in Paths /\ data[p] \in Values \cup {Null} /\ data[p] # Null
    BY <1>1 DEF TypeOK, SetConsistent
<1>4. value \in [Paths -> Values \cup {Null}] /\ value' = Entered(new, value)
    BY <1>1 DEF TypeOK, Store
<1>5. /\ value' \in [Paths -> Values \cup {Null}]
      /\ \A p \in Paths : value'[p] = IF p \in ps THEN data[p] ELSE value[p]
    <2> HIDE DEF new
    <2>. QED  BY <1>2, <1>3, <1>4, TableTyped
<1>6. \A p \in Paths : value'[p] = Null => Initial[p] = Null \/ p \in Produced
    BY <1>1, <1>3, <1>5 DEF TypeOK
<1>7. OnlyGranted'
    <2> SUFFICES ASSUME NEW p \in Paths \ Produced, NEW old \in held[AdapterOf[p]],
                        value'[p] # old[p]
                 PROVE  /\ request.op = "set"
                        /\ p \in MatchedBy[request.mask] \ ReadOnly
                        /\ \A q \in Asked \cup {p} :
                              q \in Public \/ (request.auth \in Authorized
                                               /\ q \in Writable[request.auth])
        BY AskedSame DEF OnlyGranted
    <2>1. CASE p \in ps
        <3>1. request.op = "set" /\ p \in DOMAIN data \ ReadOnly
            BY <2>1 DEF UnderWay
        <3>. QED  BY <1>1, <3>1, MayBeWritten
    <2>2. CASE p \notin ps
        <3>1. value[p] # old[p]
            BY <1>5, <2>2
        <3>. QED  BY <1>1, <3>1 DEF OnlyGranted
    <2>. QED  BY <2>1, <2>2
<1>. QED  BY <1>5, <1>6, <1>7

\* An adapter takes over its part of a batch.
LEMMA AdapterSetStep ==
    ASSUME RequestsInv, NEW b \in Adapters, AdapterSetData(b)
    PROVE  RequestsInv'
<1>1. /\ TypeOK /\ SetConsistent /\ UnderWay("set") /\ b \in toAsk
      /\ Accepts(b) /\ Store(BatchOf(b)) /\ toAsk' = toAsk \ {b}
      /\ UNCHANGED <<request, data, response, held, latest>>
    BY DEF RequestsInv, AdapterSetData
<1>2. \A p \in BatchOf(b) : p \in DOMAIN data \ ReadOnly /\ AdapterOf[p] = b /\ p \notin Produced
    <2> SUFFICES ASSUME NEW p \in BatchOf(b)
                 PROVE  p \in DOMAIN data \ ReadOnly /\ AdapterOf[p] = b /\ p \notin Produced
        OBVIOUS
    <2>1. p \in DOMAIN data /\ p \in Paths /\ AdapterOf[p] = b
        BY <1>1 DEF BatchOf, PathsOf, TypeOK
    <2>2. CASE b \in Storing /\ BatchOf(b) \cap ReadOnly = {}
        BY <2>1, <2>2, RequestsAssumption DEF Produced
    <2>3. CASE b \in Posting /\ OnlyAttributes(b)
        BY <2>1, <2>3, RequestsAssumption DEF Produced, OnlyAttributes
    <2>. QED  BY <1>1, <2>2, <2>3 DEF Accepts
<1>3. /\ OnlyGranted'
      /\ value' \in [Paths -> Values \cup {Null}]
      /\ \A p \in Paths : value'[p] = IF p \in BatchOf(b) THEN data[p] ELSE value[p]
      /\ \A p \in Paths : value'[p] = Null => Initial[p] = Null \/ p \in Produced
    <2>1. BatchOf(b) \in SUBSET (DOMAIN data \ ReadOnly)
        BY <1>2
    <2>. QED  BY <1>1, <2>1, GrantedStep
<1>4. TypeOK'
    BY <1>1, <1>3 DEF TypeOK
<1>5. SetConsistent'
    <2>1. ASSUME NEW p \in DOMAIN data, AdapterOf[p] \notin toAsk'
          PROVE  value'[p] = data[p] /\ p \notin Produced
        <3>1. p \in Paths
            BY <1>1 DEF TypeOK
        <3>2. CASE AdapterOf[p] = b
            BY <1>2, <1>3, <3>1, <3>2 DEF BatchOf, PathsOf
        <3>3. CASE AdapterOf[p] # b
            BY <1>1, <1>2, <1>3, <2>1, <3>1, <3>3 DEF SetConsistent
        <3>. QED  BY <3>2, <3>3
    <2>. QED  BY <1>1, <2>1, AskedSame DEF SetConsistent, UnderWay
<1>6. AcceptedIsComplete' /\ NothingLost' /\ ReadAtOneMoment' /\ GetConsistent'
    BY <1>1 DEF AcceptedIsComplete, NothingLost, ReadAtOneMoment, GetConsistent, UnderWay
<1>. QED  BY <1>3, <1>4, <1>5, <1>6 DEF RequestsInv

\* An adapter refuses its part, and may have taken over some of it.
LEMMA AdapterRefusesStep ==
    ASSUME RequestsInv, NEW b \in Adapters, AdapterRefuses(b)
    PROVE  RequestsInv'
<1>1. /\ TypeOK /\ UnderWay("set")
      /\ UNCHANGED <<request, held, latest>>
      /\ response'.status = "failed" /\ toAsk' = {} /\ DOMAIN data' = {}
    BY DEF RequestsInv, AdapterRefuses, Refuse, Response, NoData
<1>2. PICK ps \in SUBSET (BatchOf(b) \ ReadOnly) : Store(ps)
    BY DEF AdapterRefuses
<1>3. /\ OnlyGranted'
      /\ value' \in [Paths -> Values \cup {Null}]
      /\ \A p \in Paths : value'[p] = Null => Initial[p] = Null \/ p \in Produced
    <2>1. ps \in SUBSET (DOMAIN data \ ReadOnly)
        BY <1>2 DEF BatchOf
    <2>. QED  BY <1>1, <1>2, <2>1, GrantedStep
<1>4. TypeOK'
    BY <1>1, <1>3 DEF TypeOK
<1>5. /\ AcceptedIsComplete' /\ NothingLost' /\ ReadAtOneMoment'
      /\ GetConsistent' /\ SetConsistent'
    BY <1>1 DEF AcceptedIsComplete, NothingLost, ReadAtOneMoment, GetConsistent, SetConsistent,
                UnderWay
<1>. QED  BY <1>3, <1>4, <1>5 DEF RequestsInv

\* All adapters have been called: all that was asked for is set.
LEMMA EndSetStep ==
    ASSUME RequestsInv, EndSet
    PROVE  RequestsInv'
<1>1. /\ TypeOK /\ UnderWay("set") /\ toAsk = {}
      /\ UNCHANGED <<value, request, toAsk, held, latest>>
      /\ response'.status = "ok" /\ DOMAIN data' = {}
    BY DEF RequestsInv, EndSet, Response, NoData
<1>2. AcceptedIsComplete'
    BY <1>1, AskedSame DEF RequestsInv, SetConsistent, AcceptedIsComplete
<1>3. TypeOK'
    BY <1>1 DEF TypeOK
<1>4. OnlyGranted'
    BY <1>1, AskedSame DEF RequestsInv, OnlyGranted
<1>5. NothingLost' /\ ReadAtOneMoment' /\ GetConsistent' /\ SetConsistent'
    BY <1>1 DEF NothingLost, ReadAtOneMoment, GetConsistent, SetConsistent, UnderWay
<1>. QED  BY <1>2, <1>3, <1>4, <1>5 DEF RequestsInv

-----------------------------------------------------------------------------
(* The sources *)

\* Whatever a source writes, a get that is still to ask its adapter may meet it, and no
\* other request does.
LEMMA ProduceStep ==
    ASSUME RequestsInv, NEW b \in Posting \cup Simulated, NEW new, Produce(b, new),
           \A p \in DOMAIN new : /\ p \in PathsOf(b) \ Emulated
                                 /\ new[p] \in Values \cup {Null},
           DOMAIN latest' = Posting \cup Simulated,
           \A a \in DOMAIN latest' : DOMAIN latest'[a] \subseteq Leaves
    PROVE  RequestsInv'
<1>1. /\ TypeOK /\ response.status = "none" /\ value' = Entered(new, value)
      /\ UNCHANGED <<request, toAsk, data, response>>
      /\ b \in Adapters
    BY RequestsAssumption DEF RequestsInv, Produce
<1>2. \A p \in DOMAIN new : p \in Paths /\ AdapterOf[p] = b /\ p \in Produced
    BY RequestsAssumption DEF PathsOf, Produced
<1>3. /\ value' \in [Paths -> Values \cup {Null}]
      /\ \A p \in Paths \ DOMAIN new : value'[p] = value[p]
    <2>1. value \in [Paths -> Values \cup {Null}]
        BY <1>1 DEF TypeOK
    <2>. QED  BY <1>1, <1>2, <2>1, TableTyped
<1>4. /\ DOMAIN held' = Adapters
      /\ \A a \in Adapters \ {b} : held'[a] = held[a]
      /\ held'[b] = IF request.op = "get" /\ b \in toAsk
                    THEN held[b] \cup {Seen(request, b, value')} ELSE held[b]
    BY <1>1 DEF Produce, TypeOK
<1>5. TypeOK'
    BY <1>1, <1>2, <1>3, <1>4 DEF TypeOK
<1>6. OnlyGranted'
    <2> SUFFICES ASSUME NEW p \in Paths \ Produced, NEW old \in held'[AdapterOf[p]],
                        value'[p] # old[p]
                 PROVE  old \in held[AdapterOf[p]] /\ value'[p] = value[p]
        BY <1>1, AskedSame DEF RequestsInv, OnlyGranted
    <2>1. value'[p] = value[p]
        BY <1>2, <1>3
    <2>2. AdapterOf[p] \in Adapters
        BY RequestsAssumption
    <2>3. p \in PathsOf(AdapterOf[p]) \cap Watched(request)
        BY DEF PathsOf, Watched
    <2>4. Seen(request, AdapterOf[p], value')[p] = value'[p]
        BY <2>3, SeenIs
    <2>. QED  BY <1>4, <2>1, <2>2, <2>4
<1>7. GetConsistent'
    <2> SUFFICES ASSUME UnderWay("get")
                 PROVE  GetConsistent'
        BY <1>1 DEF GetConsistent, UnderWay
    <2>1. GetConsistent
        BY DEF RequestsInv
    <2>2. \A a \in Adapters : held[a] \subseteq held'[a]
        BY <1>4
    <2>3. ASSUME NEW a \in toAsk
          PROVE  Seen(request, a, value') \in held'[a]
        <3>1. a \in Adapters
            BY <1>1 DEF TypeOK
        <3>2. CASE a = b
            BY <1>4, <3>2 DEF UnderWay
        <3>3. CASE a # b
            <4>1. \A p \in PathsOf(a) : value'[p] = value[p]
                BY <1>2, <1>3, <3>3 DEF PathsOf
            <4>2. Seen(request, a, value') = Seen(request, a, value)
                BY <4>1 DEF Seen, Restrict
            <4>. QED  BY <2>1, <2>2, <3>1, <4>2 DEF GetConsistent
        <3>. QED  BY <3>2, <3>3
    <2>. QED  BY <1>1, <2>1, <2>2, <2>3 DEF GetConsistent
<1>8. SetConsistent'
    <2> SUFFICES ASSUME UnderWay("set")
                 PROVE  SetConsistent'
        BY <1>1 DEF SetConsistent, UnderWay
    <2>1. SetConsistent
        BY DEF RequestsInv
    <2>2. \A p \in DOMAIN data : AdapterOf[p] \notin toAsk => value'[p] = data[p] /\ p \notin Produced
        BY <1>1, <1>2, <1>3, <2>1 DEF SetConsistent, TypeOK
    <2>. QED  BY <1>1, <2>1, <2>2, AskedSame DEF SetConsistent
<1>9. AcceptedIsComplete' /\ NothingLost' /\ ReadAtOneMoment'
    BY <1>1 DEF AcceptedIsComplete, NothingLost, ReadAtOneMoment
<1>. QED  BY <1>5, <1>6, <1>7, <1>8, <1>9 DEF RequestsInv

\* A tick, one that the adapter refuses half way, and a message of the simulator.
LEMMA SourceStep ==
    ASSUME RequestsInv,
           \/ \E a \in Posting, tree \in Stats : Tick(a, tree) \/ TickRefused(a, tree)
           \/ \E a \in Simulated, tree \in Messages : SimulatorData(a, tree)
    PROVE  RequestsInv'
<1>1. /\ DOMAIN latest = Posting \cup Simulated
      /\ \A a \in DOMAIN latest : DOMAIN latest[a] \subseteq Leaves
    BY DEF RequestsInv, TypeOK
<1>2. ASSUME NEW a \in DOMAIN latest, NEW tree, DOMAIN tree \subseteq Leaves,
             latest' = [latest EXCEPT ![a] = tree]
      PROVE  /\ DOMAIN latest' = Posting \cup Simulated
             /\ \A c \in DOMAIN latest' : DOMAIN latest'[c] \subseteq Leaves
    BY <1>1, <1>2
<1>3. ASSUME NEW a \in Posting, NEW tree \in Stats, Tick(a, tree)
      PROVE  RequestsInv'
    <2>1. PICK new \in parseNode(tree) :
              /\ DOMAIN new \subseteq PathsOf(a) /\ Produce(a, new)
              /\ latest' = [latest EXCEPT ![a] = tree]
        BY <1>3 DEF Tick
    <2>2. DOMAIN tree \subseteq Leaves
        BY RequestsAssumption
    <2>3. \A p \in DOMAIN new : p \in PathsOf(a) \ Emulated /\ new[p] \in Values \cup {Null}
        BY <2>1, TickerWrites
    <2>. QED  BY <1>1, <1>2, <2>1, <2>2, <2>3, ProduceStep
<1>4. ASSUME NEW a \in Posting, NEW tree \in Stats, TickRefused(a, tree)
      PROVE  RequestsInv'
    <2>1. PICK new \in parseNode(tree) :
              /\ \E ps \in SUBSET (DOMAIN new \cap PathsOf(a)) : Produce(a, Restrict(new, ps))
              /\ latest' = [latest EXCEPT ![a] = NoData]
        BY <1>4 DEF TickRefused
    <2>2. PICK ps \in SUBSET (DOMAIN new \cap PathsOf(a)) : Produce(a, Restrict(new, ps))
        BY <2>1
    <2>3. DOMAIN NoData \subseteq Leaves
        BY DEF NoData
    <2>4. DOMAIN Restrict(new, ps) = ps /\ \A p \in ps : Restrict(new, ps)[p] = new[p]
        BY RestrictIs
    <2>5. \A p \in DOMAIN Restrict(new, ps) :
              p \in PathsOf(a) \ Emulated /\ Restrict(new, ps)[p] \in Values \cup {Null}
        BY <2>2, <2>4, TickerWrites
    <2>. QED  BY <1>1, <1>2, <2>1, <2>2, <2>3, <2>5, ProduceStep
<1>5. ASSUME NEW a \in Simulated, NEW tree \in Messages, SimulatorData(a, tree)
      PROVE  RequestsInv'
    <2>1. PICK new \in processCommand(tree) :
              Produce(a, new) /\ latest' = [latest EXCEPT ![a] = tree]
        BY <1>5 DEF SimulatorData
    <2>2. DOMAIN tree \subseteq Leaves
        BY RequestsAssumption
    <2>3. \A p \in DOMAIN new : p \in PathsOf(a) \ Emulated /\ new[p] \in Values \cup {Null}
        BY <2>1, ConnectionWrites, RequestsAssumption DEF PathsOf
    <2>. QED  BY <1>1, <1>2, <2>1, <2>2, <2>3, ProduceStep
<1>. QED  BY <1>3, <1>4, <1>5

-----------------------------------------------------------------------------
(* Whose values count *)

\* Requests do not write what a source writes.
LEMMA RequestsKeepSources ==
    ASSUME RequestsInv, NEW b \in Adapters, AdapterSetData(b) \/ AdapterRefuses(b)
    PROVE  (\A p \in Produced : value'[p] = value[p]) /\ latest' = latest
<1>1. value \in [Paths -> Values \cup {Null}] /\ latest' = latest
    BY DEF RequestsInv, TypeOK, AdapterSetData, AdapterRefuses
<1>2. PICK ps \in SUBSET BatchOf(b) : Store(ps) /\ \A p \in ps : p \notin Produced
    <2>1. \A p \in BatchOf(b) : p \in Paths /\ p \in DOMAIN data /\ AdapterOf[p] = b
        BY DEF BatchOf, PathsOf
    <2>2. b \in Storing => \A p \in BatchOf(b) : p \notin Produced
        BY <2>1, RequestsAssumption DEF Produced
    <2>3. b \in Posting /\ OnlyAttributes(b) => \A p \in BatchOf(b) : p \notin Produced
        BY DEF Produced, OnlyAttributes
    <2>4. CASE AdapterSetData(b)
        BY <2>2, <2>3, <2>4 DEF AdapterSetData, Accepts
    <2>5. CASE AdapterRefuses(b)
        BY <2>2, <2>5 DEF AdapterRefuses
    <2>. QED  BY <2>4, <2>5
<1> DEFINE new == Restrict(data, ps)
<1>3. DOMAIN new = ps /\ \A p \in ps : new[p] = data[p]
    BY RestrictIs
<1>4. \A p \in ps : p \in Paths /\ data[p] \in Values \cup {Null}
    BY DEF RequestsInv, TypeOK, BatchOf
<1>5. value' = Entered(new, value)
    BY <1>2 DEF Store
<1>6. \A p \in Paths \ ps : value'[p] = value[p]
    <2> HIDE DEF new
    <2>. QED  BY <1>1, <1>3, <1>4, <1>5, TableTyped
<1>. QED  BY <1>1, <1>2, <1>6 DEF Produced

\* What an adapter took over still counts while nobody writes its signals.
LEMMA CountsKept ==
    ASSUME SourcesInv, NEW a \in Posting \cup Simulated, latest'[a] = latest[a],
           \A p \in PathsOf(a) \ Emulated : value'[p] = value[p]
    PROVE  /\ a \in Posting => EmulatorCounts(a)'
           /\ a \in Posting => \A l \in DOMAIN latest'[a] : Converted(l) \in PathsOf(a) \ Emulated
           /\ a \in Simulated => SimulatorCounts(a)'
<1>1. CASE a \in Posting
    <2>1. \A l \in DOMAIN latest[a] : Converted(l) \in PathsOf(a) \ Emulated
        BY <1>1 DEF SourcesInv
    <2>2. \A l \in Distinct(latest[a]) :
              convertPath(l) \in PathsOf(a) \ Emulated /\ value[convertPath(l)] = latest[a][l]
        BY <1>1, <2>1 DEF SourcesInv, SourcesCount, EmulatorCounts, Distinct
    <2>3. EmulatorCounts(a)'
        BY <2>2 DEF EmulatorCounts
    <2>. QED  BY <1>1, <2>1, <2>3, RequestsAssumption
<1>2. CASE a \in Simulated
    <2>1. ASSUME NEW l \in Wanted(latest[a])
          PROVE  value'[SignalMap[l]] = value[SignalMap[l]]
        <3>1. SignalMap[l] \in Range(SignalMap) \ {NoSignal}
            BY <2>1 DEF Wanted, Range
        <3>2. SignalMap[l] \in PathsOf(a) \ Emulated
            BY <1>2, <3>1, RequestsAssumption DEF PathsOf
        <3>. QED  BY <3>2
    <2>2. SimulatorCounts(a)
        BY <1>2 DEF SourcesInv, SourcesCount
    <2>3. SimulatorCounts(a)'
        BY <2>1, <2>2 DEF SimulatorCounts
    <2>. QED  BY <1>2, <2>3, RequestsAssumption
<1>. QED  BY <1>1, <1>2

\* A source writes the signals of its own adapter, and the tree it leaves behind is
\* another only there.
LEMMA OthersKept ==
    ASSUME RequestsInv, SourcesInv, NEW b \in Posting \cup Simulated, NEW new, Produce(b, new),
           \A p \in DOMAIN new : p \in PathsOf(b) \ Emulated /\ new[p] \in Values \cup {Null},
           NEW tree, latest' = [latest EXCEPT ![b] = tree],
           b \in Posting => EmulatorCounts(b)',
           b \in Posting => \A l \in DOMAIN tree : Converted(l) \in PathsOf(b) \ Emulated,
           b \in Simulated => SimulatorCounts(b)'
    PROVE  SourcesInv'
<1>1. /\ value \in [Paths -> Values \cup {Null}] /\ value' = Entered(new, value)
      /\ DOMAIN latest = Posting \cup Simulated
    BY DEF RequestsInv, TypeOK, Produce
<1>2. \A p \in Paths \ DOMAIN new : value'[p] = value[p]
    BY <1>1, TableTyped DEF PathsOf
<1>3. ASSUME NEW a \in (Posting \cup Simulated) \ {b}
      PROVE  /\ latest'[a] = latest[a]
             /\ \A p \in PathsOf(a) \ Emulated : value'[p] = value[p]
    BY <1>1, <1>2 DEF PathsOf
<1>4. latest'[b] = tree
    BY <1>1
<1>5. ASSUME NEW a \in Posting
      PROVE  EmulatorCounts(a)' /\ \A l \in DOMAIN latest'[a] : Converted(l) \in PathsOf(a) \ Emulated
    BY <1>3, <1>4, CountsKept
<1>6. ASSUME NEW a \in Simulated
      PROVE  SimulatorCounts(a)'
    BY <1>3, CountsKept
<1>. QED  BY <1>5, <1>6 DEF SourcesInv, SourcesCount

\* Of the leaves that are written under a name, a distinct one is the one that counts.
LEMMA CollectedDistinct ==
    ASSUME NEW tree, NEW to, NEW m \in Collected(tree, to), NEW l \in DOMAIN tree,
           \A k \in DOMAIN tree \ {l} : to[k] # to[l]
    PROVE  to[l] \in DOMAIN m /\ m[to[l]] = tree[l]
<1>1. DOMAIN m = {to[k] : k \in DOMAIN tree}
    BY DEF Collected
<1>2. to[l] \in DOMAIN m
    BY <1>1
<1>3. PICK k \in DOMAIN tree : to[k] = to[l] /\ m[to[l]] = tree[k]
    BY <1>2 DEF Collected
<1>. QED  BY <1>2, <1>3

\* After a tick the tree of the emulator counts.
LEMMA TickCounts ==
    ASSUME RequestsInv, SourcesInv, NEW a \in Posting, NEW tree \in Stats, Tick(a, tree)
    PROVE  SourcesInv'
<1> DEFINE to == [l \in DOMAIN tree |-> Converted(l)]
<1>1. PICK new \in parseNode(tree) :
          /\ DOMAIN new \subseteq PathsOf(a) /\ Produce(a, new)
          /\ latest' = [latest EXCEPT ![a] = tree]
    BY DEF Tick
<1>2. \A p \in DOMAIN new : p \in PathsOf(a) \ Emulated /\ new[p] \in Values \cup {Null}
    BY <1>1, TickerWrites
<1>3. /\ value \in [Paths -> Values \cup {Null}] /\ value' = Entered(new, value)
      /\ DOMAIN latest = Posting \cup Simulated /\ latest'[a] = tree
    BY <1>1 DEF RequestsInv, TypeOK, Produce
<1>4. \A p \in DOMAIN new : value'[p] = new[p]
    BY <1>2, <1>3, TableTyped DEF PathsOf
<1>5. new \in Collected(tree, to)
    BY DEF parseNode
<1>6. \A l \in DOMAIN tree : Converted(l) \in PathsOf(a) \ Emulated
    <2>1. DOMAIN new = {to[l] : l \in DOMAIN tree}
        BY <1>5 DEF Collected
    <2>2. \A l \in DOMAIN tree : to[l] \in DOMAIN new
        BY <2>1
    <2>. QED  BY <1>2, <2>2
<1>7. EmulatorCounts(a)'
    <2> SUFFICES ASSUME NEW l \in Distinct(tree)
                 PROVE  value'[convertPath(l)] = tree[l]
        BY <1>3 DEF EmulatorCounts
    <2>1. /\ l \in DOMAIN tree /\ to[l] = convertPath(l)
          /\ \A k \in DOMAIN tree \ {l} : to[k] # to[l]
        BY DEF Distinct
    <2> HIDE DEF to
    <2>2. to[l] \in DOMAIN new /\ new[to[l]] = tree[l]
        BY <1>5, <2>1, CollectedDistinct
    <2>. QED  BY <1>4, <2>1, <2>2
<1>8. a \in Simulated => SimulatorCounts(a)'
    BY RequestsAssumption
<1>. QED  BY <1>1, <1>2, <1>6, <1>7, <1>8, OthersKept

\* After one that the adapter refuses nothing is said to count.
LEMMA TickRefusedCounts ==
    ASSUME RequestsInv, SourcesInv, NEW a \in Posting, NEW tree \in Stats, TickRefused(a, tree)
    PROVE  SourcesInv'
<1>1. PICK new \in parseNode(tree) :
          /\ \E ps \in SUBSET (DOMAIN new \cap PathsOf(a)) : Produce(a, Restrict(new, ps))
          /\ latest' = [latest EXCEPT ![a] = NoData]
    BY DEF TickRefused
<1>2. PICK ps \in SUBSET (DOMAIN new \cap PathsOf(a)) : Produce(a, Restrict(new, ps))
    BY <1>1
<1>3. DOMAIN Restrict(new, ps) = ps /\ \A p \in ps : Restrict(new, ps)[p] = new[p]
    BY RestrictIs
<1>4. \A p \in DOMAIN Restrict(new, ps) :
          p \in PathsOf(a) \ Emulated /\ Restrict(new, ps)[p] \in Values \cup {Null}
    BY <1>2, <1>3, TickerWrites
<1>5. DOMAIN latest = Posting \cup Simulated /\ latest'[a] = NoData
    BY <1>1 DEF RequestsInv, TypeOK
<1>6. DOMAIN NoData = {}
    BY DEF NoData
<1>7. EmulatorCounts(a)' /\ (a \in Simulated => SimulatorCounts(a)')
    BY <1>5, <1>6, RequestsAssumption DEF EmulatorCounts, Distinct
<1>. QED  BY <1>1, <1>2, <1>4, <1>6, <1>7, OthersKept

\* After a message the tree of the simulator counts.
LEMMA SimulatorDataCounts ==
    ASSUME RequestsInv, SourcesInv, NEW a \in Simulated, NEW tree \in Messages,
           SimulatorData(a, tree)
    PROVE  SourcesInv'
<1> DEFINE wanted == Restrict(tree, Wanted(tree))
           to == [l \in Wanted(tree) |-> SignalMap[l]]
<1>1. PICK new \in processCommand(tree) :
          Produce(a, new) /\ latest' = [latest EXCEPT ![a] = tree]
    BY DEF SimulatorData
<1>2. \A p \in DOMAIN new : p \in PathsOf(a) \ Emulated /\ new[p] \in Values \cup {Null}
    BY <1>1, ConnectionWrites, RequestsAssumption DEF PathsOf
<1>3. /\ value \in [Paths -> Values \cup {Null}] /\ value' = Entered(new, value)
      /\ DOMAIN latest = Posting \cup Simulated /\ latest'[a] = tree
    BY <1>1 DEF RequestsInv, TypeOK, Produce
<1>4. \A p \in DOMAIN new : value'[p] = new[p]
    BY <1>2, <1>3, TableTyped DEF PathsOf
<1>5. PICK m \in Collected(wanted, to) : new = Turned(m)
    BY DEF processCommand, handleSimulatorData
<1>6. DOMAIN wanted = Wanted(tree) /\ \A l \in Wanted(tree) : wanted[l] = tree[l]
    BY RestrictIs
<1>7. SimulatorCounts(a)'
    <2> SUFFICES ASSUME NEW l \in Wanted(tree),
                        \A k \in Wanted(tree) \ {l} : SignalMap[k] # SignalMap[l]
                 PROVE  value'[SignalMap[l]]
                            = Turned([s \in {SignalMap[l]} |-> tree[l]])[SignalMap[l]]
        BY <1>3 DEF SimulatorCounts
    <2>1. l \in DOMAIN wanted /\ \A k \in DOMAIN wanted \ {l} : to[k] # to[l]
        BY <1>6
    <2>2. to[l] = SignalMap[l]
        OBVIOUS
    <2>3. to[l] \in DOMAIN m /\ m[to[l]] = wanted[l]
        <3> HIDE DEF to, wanted
        <3>. QED  BY <2>1, CollectedDistinct
    <2>4. SignalMap[l] \in DOMAIN m /\ m[SignalMap[l]] = tree[l]
        BY <1>6, <2>2, <2>3
    <2>5. /\ SignalMap[l] \in DOMAIN new
          /\ new[SignalMap[l]] = Turned([s \in {SignalMap[l]} |-> tree[l]])[SignalMap[l]]
        BY <1>5, <2>4 DEF Turned
    <2>. QED  BY <1>4, <2>5
<1>8. a \notin Posting
    BY RequestsAssumption
<1>. QED  BY <1>1, <1>2, <1>7, <1>8, OthersKept

-----------------------------------------------------------------------------
(* The theorems *)

LEMMA InitRequests == Init => RequestsInv
<1> SUFFICES ASSUME Init PROVE RequestsInv
    OBVIOUS
<1>1. request.op = "none" /\ response.status = "none" /\ DOMAIN data = {}
    BY DEF Init, NoRequest, Response, NoData
<1>2. TypeOK
    <2>1. /\ DOMAIN held = Adapters /\ DOMAIN latest = Posting \cup Simulated
          /\ \A a \in DOMAIN latest : DOMAIN latest[a] = {}
        BY BeforeIs DEF Init, NoData
    <2>. QED  BY <1>1, <2>1, RequestsAssumption DEF Init, TypeOK
<1>3. OnlyGranted
    BY NothingChanged DEF Init, OnlyGranted
<1>4. /\ AcceptedIsComplete /\ NothingLost /\ ReadAtOneMoment
      /\ GetConsistent /\ SetConsistent
    BY <1>1 DEF AcceptedIsComplete, NothingLost, ReadAtOneMoment, GetConsistent, SetConsistent,
                UnderWay
<1>. QED  BY <1>2, <1>3, <1>4 DEF RequestsInv

LEMMA NextRequests == RequestsInv /\ [Next]_vars => RequestsInv'
<1> SUFFICES ASSUME RequestsInv, [Next]_vars PROVE RequestsInv'
    OBVIOUS
<1>1. CASE \E m \in Masks, u \in Auths : GetData(m, u)
    BY <1>1, GetStep
<1>2. CASE \E m \in Masks, u \in Auths, d \in Data : SetData(m, u, d)
    BY <1>2, SetStep
<1>3. CASE \E a \in Adapters : AdapterGetData(a) \/ AdapterSetData(a) \/ AdapterRefuses(a)
    BY <1>3, AdapterGetStep, AdapterSetStep, AdapterRefusesStep
<1>4. CASE \/ \E a \in Posting, tree \in Stats : Tick(a, tree) \/ TickRefused(a, tree)
           \/ \E a \in Simulated, tree \in Messages : SimulatorData(a, tree)
    BY <1>4, SourceStep
<1>5. CASE EndGet \/ EndSet
    BY <1>5, EndGetStep, EndSetStep
<1>6. CASE Deliver
    <2>1. /\ TypeOK /\ request' = NoRequest /\ UNCHANGED <<value, latest, toAsk, data>>
          /\ held' = Before(NoRequest, value) /\ response'.status = "none"
        BY <1>6 DEF Deliver, RequestsInv, Response
    <2>. QED  BY <2>1, NoRequestStep DEF TypeOK, Statuses
<1>7. CASE UNCHANGED vars
    <2>1. UNCHANGED <<value, request, toAsk, data, response, held, latest>>
        BY <1>7 DEF vars
    <2>2. TypeOK' /\ OnlyGranted' /\ AcceptedIsComplete'
        BY <2>1, AskedSame DEF RequestsInv, TypeOK, OnlyGranted, AcceptedIsComplete
    <2>3. Known' = Known
        BY <2>1 DEF Known
    <2>4. NothingLost' /\ ReadAtOneMoment'
        BY <2>1, <2>3 DEF RequestsInv, NothingLost, ReadAtOneMoment
    <2>5. GetConsistent'
        BY <2>1 DEF RequestsInv, GetConsistent, UnderWay
    <2>6. SetConsistent'
        BY <2>1, AskedSame DEF RequestsInv, SetConsistent, UnderWay
    <2>. QED  BY <2>2, <2>4, <2>5, <2>6 DEF RequestsInv
<1>. QED  BY <1>1, <1>2, <1>3, <1>4, <1>5, <1>6, <1>7 DEF Next

\* What responses and adapters show, and how a request gets there, whatever the
\* sources write meanwhile.
THEOREM RequestsInvariant == Spec => []RequestsInv
BY InitRequests, NextRequests, PTL DEF Spec

\* A request changes only what its path matches, what is not read-only, and nothing
\* at all if the client may not write one of the signals it asked to be set.
THEOREM OnlyWhatIsGranted == Spec => []OnlyGranted
<1>1. RequestsInv => OnlyGranted
    BY DEF RequestsInv
<1>. QED  BY <1>1, RequestsInvariant, PTL

\* A set request that is answered without an error has set all it asked for.
THEOREM AcceptedSetsAreComplete == Spec => []AcceptedIsComplete
<1>1. RequestsInv => AcceptedIsComplete
    BY DEF RequestsInv
<1>. QED  BY <1>1, RequestsInvariant, PTL

\* A client learns of all the signals it asked for and of no other, in each of the
\* three forms of a response.
THEOREM ResponsesLoseNothing == Spec => []NothingLost
<1>1. RequestsInv => NothingLost
    BY DEF RequestsInv
<1>. QED  BY <1>1, RequestsInvariant, PTL

\* The signals of one adapter in a response are from one moment.
THEOREM AdaptersAnswerForOneMoment == Spec => []ReadAtOneMoment
<1>1. RequestsInv => ReadAtOneMoment
    BY DEF RequestsInv
<1>. QED  BY <1>1, RequestsInvariant, PTL

LEMMA InitSources == Init => SourcesInv
<1> SUFFICES ASSUME Init PROVE SourcesInv
    OBVIOUS
<1>1. \A a \in Posting \cup Simulated : DOMAIN latest[a] = {}
    BY DEF Init, NoData
<1>. QED  BY <1>1 DEF SourcesInv, SourcesCount, EmulatorCounts, SimulatorCounts, Distinct, Wanted

LEMMA NextSources == RequestsInv /\ SourcesInv /\ [Next]_vars => SourcesInv'
<1> SUFFICES ASSUME RequestsInv, SourcesInv, [Next]_vars PROVE SourcesInv'
    OBVIOUS
<1>1. ASSUME latest' = latest, \A p \in Produced : value'[p] = value[p]
      PROVE  SourcesInv'
    <2>1. \A a \in Posting \cup Simulated : PathsOf(a) \ Emulated \subseteq Produced
        BY DEF PathsOf, Produced
    <2>2. \A a \in Posting \cup Simulated :
              latest'[a] = latest[a] /\ \A p \in PathsOf(a) \ Emulated : value'[p] = value[p]
        BY <1>1, <2>1
    <2>. QED  BY <2>2, CountsKept DEF SourcesInv, SourcesCount
<1>2. CASE \E a \in Adapters : AdapterSetData(a) \/ AdapterRefuses(a)
    BY <1>1, <1>2, RequestsKeepSources
<1>3. CASE \E a \in Posting, tree \in Stats : Tick(a, tree) \/ TickRefused(a, tree)
    BY <1>3, TickCounts, TickRefusedCounts
<1>4. CASE \E a \in Simulated, tree \in Messages : SimulatorData(a, tree)
    BY <1>4, SimulatorDataCounts
<1>5. CASE UNCHANGED <<value, latest>>
    BY <1>1, <1>5
<1>6. CASE \/ \E m \in Masks, u \in Auths : GetData(m, u)
           \/ \E m \in Masks, u \in Auths, d \in Data : SetData(m, u, d)
           \/ \E a \in Adapters : AdapterGetData(a)
           \/ EndGet \/ EndSet \/ Deliver \/ UNCHANGED vars
    BY <1>5, <1>6 DEF GetData, SetData, Idle, AdapterGetData, EndGet, EndSet, Deliver, vars
<1>. QED  BY <1>2, <1>3, <1>4, <1>6 DEF Next

\* What a source sent last is what its adapter holds under the configured name,
\* whatever clients try to set.
THEOREM WhatSourcesSendCounts == Spec => []SourcesCount
<1>1. SourcesInv => SourcesCount
    BY DEF SourcesInv
<1>. QED  BY <1>1, InitSources, NextSources, RequestsInvariant, PTL DEF Spec

-----------------------------------------------------------------------------
(* What becomes of the names *)

\* The recursion of Converted, for any name and any number of maps around it.
LEMMA ConvertedUnfolds ==
    ASSUME NEW l \in Leaves
    PROVE  \E name : /\ name[0] = l
                     /\ \A n \in Nat : name[n + 1] = convertPath(name[n])
                     /\ Converted(l) = name[Depth[l] + 1]
<1> DEFINE S == {l} \cup {PathConverter[k] : k \in DOMAIN PathConverter}
           h == [s \in S |-> convertPath(s)]
           Unfolds(f) == f = [n \in Nat |-> IF n = 0 THEN l ELSE convertPath(f[n - 1])]
           name == CHOOSE f : Unfolds(f)
<1>1. h \in [S -> S]
    BY DEF convertPath
<1>2. PICK f \in [Nat -> S] : Iterates(f, h, l)
    <2>1. l \in S
        OBVIOUS
    <2> HIDE DEF S, h
    <2>. QED  BY <1>1, <2>1, IterationExists
<1>3. Unfolds(f)
    <2>1. \A n \in Nat : n # 0 => h[f[n - 1]] = convertPath(f[n - 1])
        BY <1>2
    <2> HIDE DEF S, h
    <2>2. f = [n \in Nat |-> IF n = 0 THEN l ELSE h[f[n - 1]]]
        BY <1>2 DEF Iterates
    <2>. QED  BY <2>1, <2>2
<1>4. Unfolds(name)
    <2> HIDE DEF Unfolds
    <2>. QED  BY <1>3
<1>5. Converted(l) = name[Depth[l] + 1]
    BY DEF Converted
<1>6. /\ name[0] = l
      /\ \A n \in Nat : name[n + 1] = convertPath(name[n])
    <2> HIDE DEF name
    <2>. QED  BY <1>4
<1>. QED  BY <1>5, <1>6

\* parseNode converts a name once more for every map around its leaf.  That does no harm
\* in a configuration in which what a name is converted to is not converted further.
THEOREM ConvertedOnce ==
    ASSUME Settled, NEW l \in Leaves
    PROVE  Converted(l) = convertPath(l)
<1>1. PICK name : /\ name[0] = l
                  /\ \A n \in Nat : name[n + 1] = convertPath(name[n])
                  /\ Converted(l) = name[Depth[l] + 1]
    BY ConvertedUnfolds
<1> DEFINE T == {n \in Nat : name[n + 1] = convertPath(l)}
<1>2. 0 \in T
    BY <1>1
<1>3. ASSUME NEW n \in Nat, n \in T PROVE n + 1 \in T
    <2>1. name[n + 1] = convertPath(l) /\ name[(n + 1) + 1] = convertPath(name[n + 1])
        BY <1>1, <1>3
    <2>2. convertPath(convertPath(l)) = convertPath(l)
        BY DEF Settled, convertPath
    <2>. QED  BY <2>1, <2>2
<1>4. Nat \subseteq T
    <2> HIDE DEF T
    <2>. QED  BY <1>2, <1>3, EveryNatural
<1>. QED  BY <1>1, <1>4, SourcesAssumption

\* A configuration that exchanges two names does so only for leaves at an even depth: at
\* an odd one the name comes back.
THEOREM SwappedNames ==
    ASSUME NEW l \in Leaves, NEW other, convertPath(l) = other, convertPath(other) = l
    PROVE  Converted(l) = IF Depth[l] % 2 = 0 THEN other ELSE l
<1>1. PICK name : /\ name[0] = l
                  /\ \A n \in Nat : name[n + 1] = convertPath(name[n])
                  /\ Converted(l) = name[Depth[l] + 1]
    BY ConvertedUnfolds
<1> DEFINE T == {n \in Nat : name[n + 1] = IF n % 2 = 0 THEN other ELSE l}
<1>2. 0 \in T
    BY <1>1
<1>3. ASSUME NEW n \in Nat, n \in T PROVE n + 1 \in T
    <2>1. name[(n + 1) + 1] = convertPath(name[n + 1])
        BY <1>1
    <2>2. (n + 1) % 2 = 0 <=> n % 2 # 0
        OBVIOUS
    <2>. QED  BY <1>3, <2>1, <2>2
<1>4. Nat \subseteq T
    <2> HIDE DEF T
    <2>. QED  BY <1>2, <1>3, EveryNatural
<1>. QED  BY <1>1, <1>4, SourcesAssumption

\* In a configuration as in aos_vis.cfg the adapter holds every leaf of the emulator's
\* last tree under its configured name, if no other leaf of the tree has this name.
THEOREM ConfiguredNamesCount ==
    ASSUME Settled
    PROVE  Spec => [](\A a \in Posting : \A l \in DOMAIN latest[a] :
               (\A k \in DOMAIN latest[a] \ {l} : convertPath(k) # convertPath(l))
                   => value[convertPath(l)] = latest[a][l])
<1> DEFINE Counted == \A a \in Posting : \A l \in DOMAIN latest[a] :
               (\A k \in DOMAIN latest[a] \ {l} : convertPath(k) # convertPath(l))
                   => value[convertPath(l)] = latest[a][l]
<1>1. RequestsInv /\ SourcesCount => Counted
    <2> SUFFICES ASSUME RequestsInv, SourcesCount, NEW a \in Posting,
                        NEW l \in DOMAIN latest[a],
                        \A k \in DOMAIN latest[a] \ {l} : convertPath(k) # convertPath(l)
                 PROVE  value[convertPath(l)] = latest[a][l]
        OBVIOUS
    <2>1. DOMAIN latest[a] \subseteq Leaves
        BY DEF RequestsInv, TypeOK
    <2>2. \A k \in DOMAIN latest[a] : Converted(k) = convertPath(k)
        BY <2>1, ConvertedOnce
    <2>3. l \in Distinct(latest[a])
        BY <2>2 DEF Distinct
    <2>. QED  BY <2>3 DEF SourcesCount, EmulatorCounts
<1> HIDE DEF Counted
<1>2. Spec => []Counted
    BY <1>1, RequestsInvariant, WhatSourcesSendCounts, PTL
<1>. QED  BY <1>2 DEF Counted
=============================================================================
