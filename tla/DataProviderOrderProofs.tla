------------------------ MODULE DataProviderOrderProofs ------------------------
(***************************************************************************)
(* The order of the changes in DataProvider, for any capacities and        *)
(* numbers of writers: each signal reaches a subscriber in the order of    *)
(* its changes, a subscriber catches up if no batch is refused half way,   *)
(* and the provider implements SubscriptionRegistry if permissions never   *)
(* split a mask.                                                           *)
(***************************************************************************)
EXTENDS DataProviderPromiseProofs

-----------------------------------------------------------------------------
(* Channels *)

\* What Append does to a channel.
LEMMA AppendMessage ==
    ASSUME NEW s \in Seq(Message), NEW m \in Message
    PROVE  /\ Len(Append(s, m)) = Len(s) + 1
           /\ \A i \in 1 .. Len(s) : Append(s, m)[i] = s[i]
           /\ Append(s, m)[Len(s) + 1] = m
OBVIOUS

\* What the receive from a channel does.
LEMMA TailMessage ==
    ASSUME NEW s \in Seq(Message), s # <<>>
    PROVE  /\ Len(s) \in Nat /\ Len(s) > 0 /\ Len(Tail(s)) = Len(s) - 1
           /\ \A i \in 1 .. Len(Tail(s)) : i + 1 \in 2 .. Len(s) /\ Tail(s)[i] = s[i + 1]
           /\ Head(s) = s[1]
OBVIOUS

\* The versions are numbers.
LEMMA Numbers ==
    ASSUME TypeOK
    PROVE  /\ \A p \in Paths : value[p] \in Nat
           /\ \A id \in Ids, p \in Paths : sent[id][p] \in Nat /\ since[id][p] \in Nat
           /\ \A a \in Adapters, p \in Paths : inHand[a][p] \in Nat
           /\ \A w \in Writers, p \in Paths : sending[w][p] \in Nat
           /\ \A a \in Adapters, p \in Paths : \A i \in 1 .. Len(channel[a]) :
                  channel[a][i][p] \in Nat
           /\ \A p \in Paths : AdapterOf[p] \in Adapters
<1>1. \A p \in Paths : value[p] \in Nat
    BY BaseAdapterAssumption DEF TypeOK, AdapterTypeOK
<1>2. \A a \in Adapters : \A i \in 1 .. Len(channel[a]) : channel[a][i] \in Message
    BY DEF TypeOK, AdapterTypeOK
<1>. QED  BY <1>1, <1>2, BaseAdapterAssumption DEF TypeOK, AdapterTypeOK, Message

-----------------------------------------------------------------------------
(* The order of the versions on their way *)

\* Nothing has changed at the start (New).
LEMMA InitOrder == Init => OrderInv
BY DEF Init, AdapterInit, NoChanges, OrderInv, HandOrdered, ChannelOrdered, SendingOrdered

\* What leaves the versions where they are, and at most forgets what was sent.
LEMMA OrderFrame ==
    ASSUME TypeOK, TypeOK', OrderInv, UNCHANGED <<value, mutex, channel, sending, inHand>>,
           \A id \in Ids, p \in Paths : sent'[id][p] <= sent[id][p]
    PROVE  OrderInv'
<1>1. \A id \in Ids, p \in Paths : \A v \in Nat :
          /\ sent[id][p] < v => sent'[id][p] < v
          /\ sent[id][p] <= v => sent'[id][p] <= v
    BY Numbers DEF TypeOK, Message
<1>2. (\A id \in Ids, p \in Paths : sent[id][p] <= value[p])'
    BY <1>1, Numbers DEF OrderInv
<1>3. HandOrdered'
    BY <1>1, Numbers DEF OrderInv, HandOrdered
<1>4. ChannelOrdered'
    <2> SUFFICES ASSUME NEW a \in Adapters, NEW p \in Paths, NEW i \in 1 .. Len(channel[a]),
                        channel[a][i][p] > 0
                 PROVE  /\ a = AdapterOf[p] /\ channel[a][i][p] <= value[p]
                        /\ \A id \in Ids : sent'[id][p] < channel[a][i][p]
                        /\ inHand[a][p] < channel[a][i][p]
                        /\ \A j \in 1 .. (i - 1) : channel[a][j][p] < channel[a][i][p]
        BY DEF ChannelOrdered
    <2>1. \A id \in Ids : sent[id][p] < channel[a][i][p]
        BY DEF OrderInv, ChannelOrdered
    <2>2. \A id \in Ids : sent'[id][p] < channel[a][i][p]
        BY <1>1, <2>1, Numbers
    <2>. QED  BY <2>2 DEF OrderInv, ChannelOrdered
<1>5. SendingOrdered'
    BY <1>1, Numbers DEF OrderInv, SendingOrdered
<1>. QED  BY <1>2, <1>3, <1>4, <1>5 DEF OrderInv

\* The values of a batch are newer than anything on its way.
LEMMA WriteOrder ==
    ASSUME TypeOK, OrderInv, NEW w \in Writers, NEW a \in Adapters, NEW ps \in SUBSET Paths,
           Write(w, a, ps) \/ WriteRefused(w, a, ps)
    PROVE  OrderInv'
<1>n. NoOne \notin Writers /\ AdapterOf \in [Paths -> Adapters]
    BY BaseAdapterAssumption
<1>a. /\ UNCHANGED <<channel, inHand, sent>>
      /\ mutex[a] = NoOne /\ sending[w] = NoChanges
      /\ \A p \in ps : AdapterOf[p] = a
      /\ value' = [p \in Paths |-> IF p \in ps THEN value[p] + 1 ELSE value[p]]
      /\ \/ UNCHANGED <<mutex, sending>>
         \/ /\ mutex' = [mutex EXCEPT ![a] = w]
            /\ sending' = [sending EXCEPT ![w] = Changed(ps)]
    BY DEF Write, WriteRefused, SetData, SetDataRefused, otherVars, historyVars, Written, PathsOf
<1>b. \A p \in Paths : /\ value[p] <= value'[p]
                       /\ p \in ps => value'[p] = value[p] + 1
    BY <1>a, Numbers
<1>1. (\A id \in Ids, p \in Paths : sent[id][p] <= value[p])'
    BY <1>a, <1>b, Numbers DEF OrderInv
<1>2. HandOrdered'
    BY <1>a, <1>b, Numbers DEF OrderInv, HandOrdered
<1>3. ChannelOrdered'
    BY <1>a, <1>b, Numbers DEF OrderInv, ChannelOrdered
<1>4. SendingOrdered'
    <2>1. CASE UNCHANGED <<mutex, sending>>
        BY <1>a, <1>b, <2>1, Numbers DEF OrderInv, SendingOrdered
    <2>2. CASE /\ mutex' = [mutex EXCEPT ![a] = w]
               /\ sending' = [sending EXCEPT ![w] = Changed(ps)]
        <3> SUFFICES ASSUME NEW v \in Writers, NEW p \in Paths, sending'[v][p] > 0
                     PROVE  LET b == AdapterOf[p] IN
                            /\ mutex'[b] = v /\ sending'[v][p] <= value'[p]
                            /\ \A id \in Ids : sent[id][p] < sending'[v][p]
                            /\ inHand[b][p] < sending'[v][p]
                            /\ \A i \in 1 .. Len(channel[b]) : channel[b][i][p] < sending'[v][p]
                            /\ \A q \in Paths : sending'[v][q] > 0 => AdapterOf[q] = b
            BY <1>a DEF SendingOrdered
        <3>t. sending \in [Writers -> Message] /\ mutex \in [Adapters -> Writers \cup {NoOne}]
            BY DEF TypeOK, AdapterTypeOK
        <3>1. CASE v = w
            <4>1. \A q \in Paths : sending'[v][q] =
                      IF q \in ps /\ subscribe[q] THEN value[q] + 1 ELSE 0
                BY <2>2, <3>1, <3>t DEF Changed
            <4>2. p \in ps /\ sending'[v][p] = value[p] + 1 /\ AdapterOf[p] = a
                BY <4>1, <1>a
            <4>3. \A q \in Paths : sending'[v][q] > 0 => AdapterOf[q] = a
                BY <4>1, <1>a
            <4>4. mutex'[a] = w /\ sending'[v][p] <= value'[p]
                BY <2>2, <3>t, <4>2, <1>b, Numbers
            <4>5. \A id \in Ids : sent[id][p] < sending'[v][p]
                BY <4>2, Numbers DEF OrderInv
            <4>6. inHand[a][p] < sending'[v][p]
                BY <4>2, Numbers DEF OrderInv, HandOrdered
            <4>7. \A i \in 1 .. Len(channel[a]) : channel[a][i][p] < sending'[v][p]
                BY <4>2, Numbers DEF OrderInv, ChannelOrdered
            <4>. QED  BY <3>1, <4>2, <4>3, <4>4, <4>5, <4>6, <4>7
        <3>2. CASE v # w
            <4>1. sending'[v] = sending[v]
                BY <2>2, <3>2, <3>t
            <4>2. mutex[AdapterOf[p]] = v /\ AdapterOf[p] # a
                BY <1>n, <1>a, <4>1 DEF OrderInv, SendingOrdered
            <4>3. mutex'[AdapterOf[p]] = v
                BY <1>n, <2>2, <3>t, <4>2
            <4>4. sending[v][p] <= value[p] /\ value[p] <= value'[p]
                BY <1>b, <4>1 DEF OrderInv, SendingOrdered
            <4>5. sending'[v][p] <= value'[p]
                BY <1>a, <4>1, <4>4, Numbers
            <4>. QED  BY <4>1, <4>3, <4>5 DEF OrderInv, SendingOrdered
        <3>. QED  BY <3>1, <3>2
    <2>. QED  BY <1>a, <2>1, <2>2
<1>. QED  BY <1>1, <1>2, <1>3, <1>4 DEF OrderInv

\* The send that ends SetData appends what is newest.
LEMMA EndWriteOrder ==
    ASSUME TypeOK, OrderInv, NEW w \in Writers, NEW a \in Adapters, EndWrite(w, a)
    PROVE  OrderInv'
<1>t. /\ sending \in [Writers -> Message] /\ mutex \in [Adapters -> Writers \cup {NoOne}]
      /\ channel \in [Adapters -> Seq(Message)] /\ AdapterOf \in [Paths -> Adapters]
    BY BaseAdapterAssumption DEF TypeOK, AdapterTypeOK
<1>a. /\ UNCHANGED <<value, inHand, sent>>
      /\ channel' = [channel EXCEPT ![a] = Append(@, sending[w])]
      /\ mutex' = [mutex EXCEPT ![a] = NoOne]
      /\ sending' = [sending EXCEPT ![w] = NoChanges]
    BY DEF EndWrite, SendChanges, otherVars, historyVars
<1>b. mutex[a] = w /\ \A q \in Paths : sending[w][q] > 0 => AdapterOf[q] = a
    BY DEF EndWrite, SendChanges, HasToSend, PathsOf, OrderInv, SendingOrdered
<1>c. /\ Len(channel'[a]) = Len(channel[a]) + 1 /\ Len(channel[a]) \in Nat
      /\ \A i \in 1 .. Len(channel[a]) : channel'[a][i] = channel[a][i]
      /\ channel'[a][Len(channel[a]) + 1] = sending[w]
      /\ \A b \in Adapters : b # a => channel'[b] = channel[b]
    BY <1>t, <1>a, AppendMessage
<1>1. (\A id \in Ids, p \in Paths : sent[id][p] <= value[p])' /\ HandOrdered'
    BY <1>a DEF OrderInv, HandOrdered
<1>2. ChannelOrdered'
    <2> SUFFICES ASSUME NEW b \in Adapters, NEW p \in Paths, NEW i \in 1 .. Len(channel'[b]),
                        channel'[b][i][p] > 0
                 PROVE  /\ b = AdapterOf[p] /\ channel'[b][i][p] <= value[p]
                        /\ \A id \in Ids : sent[id][p] < channel'[b][i][p]
                        /\ inHand[b][p] < channel'[b][i][p]
                        /\ \A j \in 1 .. (i - 1) : channel'[b][j][p] < channel'[b][i][p]
        BY <1>a DEF ChannelOrdered
    <2>1. CASE b # a
        BY <1>c, <2>1 DEF OrderInv, ChannelOrdered
    <2>2. CASE b = a /\ i \in 1 .. Len(channel[a])
        <3>1. \A j \in 1 .. (i - 1) : j \in 1 .. Len(channel[a])
            BY <1>c, <2>2
        <3>2. /\ channel'[b][i] = channel[a][i]
              /\ \A j \in 1 .. (i - 1) : channel'[b][j] = channel[a][j]
            BY <1>c, <2>2, <3>1
        <3>3. /\ a = AdapterOf[p] /\ channel[a][i][p] <= value[p]
              /\ \A id \in Ids : sent[id][p] < channel[a][i][p]
              /\ inHand[a][p] < channel[a][i][p]
              /\ \A j \in 1 .. (i - 1) : channel[a][j][p] < channel[a][i][p]
            BY <2>2, <3>2 DEF OrderInv, ChannelOrdered
        <3>. QED  BY <2>2, <3>2, <3>3
    <2>3. CASE b = a /\ i = Len(channel[a]) + 1
        <3>1. channel'[b][i][p] = sending[w][p] /\ i - 1 = Len(channel[a])
            BY <1>c, <2>3
        <3>2. AdapterOf[p] = a
            BY <1>b, <3>1
        <3>3. \A j \in 1 .. (i - 1) : channel'[b][j][p] < channel'[b][i][p]
            <4>1. \A j \in 1 .. Len(channel[a]) : channel[a][j][p] < sending[w][p]
                BY <3>1, <3>2 DEF OrderInv, SendingOrdered
            <4>2. \A j \in 1 .. (i - 1) : j \in 1 .. Len(channel[a])
                BY <3>1
            <4>. QED  BY <1>c, <2>3, <3>1, <4>1, <4>2
        <3>4. /\ sending[w][p] > 0 /\ sending[w][p] <= value[p] /\ inHand[a][p] < sending[w][p]
              /\ \A id \in Ids : sent[id][p] < sending[w][p]
            BY <3>1, <3>2 DEF OrderInv, SendingOrdered
        <3>. QED  BY <2>3, <3>1, <3>2, <3>3, <3>4
    <2>4. b = a => i \in 1 .. Len(channel[a]) \/ i = Len(channel[a]) + 1
        BY <1>c
    <2>. QED  BY <2>1, <2>2, <2>3, <2>4
<1>3. SendingOrdered'
    <2> SUFFICES ASSUME NEW v \in Writers, NEW p \in Paths, sending'[v][p] > 0
                 PROVE  LET b == AdapterOf[p] IN
                        /\ mutex'[b] = v /\ sending'[v][p] <= value[p]
                        /\ \A id \in Ids : sent[id][p] < sending'[v][p]
                        /\ inHand[b][p] < sending'[v][p]
                        /\ \A i \in 1 .. Len(channel'[b]) : channel'[b][i][p] < sending'[v][p]
                        /\ \A q \in Paths : sending'[v][q] > 0 => AdapterOf[q] = b
        BY <1>a DEF SendingOrdered
    <2>1. v # w
        BY <1>t, <1>a DEF NoChanges
    <2>2. sending'[v] = sending[v]
        BY <1>t, <1>a, <2>1
    <2>3. mutex[AdapterOf[p]] = v /\ AdapterOf[p] # a
        BY <1>b, <2>1, <2>2 DEF OrderInv, SendingOrdered
    <2>4. mutex'[AdapterOf[p]] = v /\ channel'[AdapterOf[p]] = channel[AdapterOf[p]]
        BY <1>t, <1>a, <2>3
    <2>. QED  BY <2>2, <2>4 DEF OrderInv, SendingOrdered
<1>. QED  BY <1>1, <1>2, <1>3 DEF OrderInv

\* The handler takes what is oldest.
LEMMA ReceiveOrder ==
    ASSUME TypeOK, OrderInv, NEW a \in Adapters, Receive(a)
    PROVE  OrderInv'
<1>t. inHand \in [Adapters -> Message] /\ channel \in [Adapters -> Seq(Message)]
    BY DEF TypeOK, AdapterTypeOK
<1>a. /\ UNCHANGED <<value, sent, mutex, sending>>
      /\ inHand[a] = NoChanges /\ channel[a] # <<>>
      /\ channel' = [channel EXCEPT ![a] = Tail(@)]
      /\ inHand' = [inHand EXCEPT ![a] = Head(channel[a])]
    BY DEF Receive, TakeChanges, historyVars
<1>b. /\ Len(channel[a]) \in Nat /\ Len(channel[a]) > 0
      /\ Len(channel'[a]) = Len(channel[a]) - 1
      /\ \A i \in 1 .. Len(channel'[a]) :
             i + 1 \in 2 .. Len(channel[a]) /\ channel'[a][i] = channel[a][i + 1]
      /\ inHand'[a] = channel[a][1]
      /\ \A b \in Adapters : b # a => channel'[b] = channel[b] /\ inHand'[b] = inHand[b]
    BY <1>t, <1>a, TailMessage
<1>1. (\A id \in Ids, p \in Paths : sent[id][p] <= value[p])'
    BY <1>a DEF OrderInv
<1>2. HandOrdered'
    <2> SUFFICES ASSUME NEW b \in Adapters, NEW p \in Paths, inHand'[b][p] > 0
                 PROVE  /\ b = AdapterOf[p] /\ inHand'[b][p] <= value[p]
                        /\ \A id \in Ids : sent[id][p] < inHand'[b][p]
        BY <1>a DEF HandOrdered
    <2>1. CASE b # a
        BY <1>b, <2>1 DEF OrderInv, HandOrdered
    <2>2. CASE b = a
        <3>1. 1 \in 1 .. Len(channel[a])
            BY <1>b
        <3>. QED  BY <1>b, <2>2, <3>1 DEF OrderInv, ChannelOrdered
    <2>. QED  BY <2>1, <2>2
<1>3. ChannelOrdered'
    <2> SUFFICES ASSUME NEW b \in Adapters, NEW p \in Paths, NEW i \in 1 .. Len(channel'[b]),
                        channel'[b][i][p] > 0
                 PROVE  /\ b = AdapterOf[p] /\ channel'[b][i][p] <= value[p]
                        /\ \A id \in Ids : sent[id][p] < channel'[b][i][p]
                        /\ inHand'[b][p] < channel'[b][i][p]
                        /\ \A j \in 1 .. (i - 1) : channel'[b][j][p] < channel'[b][i][p]
        BY <1>a DEF ChannelOrdered
    <2>1. CASE b # a
        BY <1>b, <2>1 DEF OrderInv, ChannelOrdered
    <2>2. CASE b = a
        <3>1. i + 1 \in 1 .. Len(channel[a]) /\ channel'[b][i] = channel[a][i + 1]
            BY <1>b, <2>2
        <3>2. 1 \in 1 .. ((i + 1) - 1)
            BY <1>b, <2>2
        <3>3. \A j \in 1 .. (i - 1) :
                  j + 1 \in 1 .. ((i + 1) - 1) /\ channel'[b][j] = channel[a][j + 1]
            BY <1>b, <2>2
        <3>4. /\ a = AdapterOf[p] /\ channel[a][i + 1][p] <= value[p]
              /\ \A id \in Ids : sent[id][p] < channel[a][i + 1][p]
              /\ \A j \in 1 .. ((i + 1) - 1) : channel[a][j][p] < channel[a][i + 1][p]
            BY <3>1 DEF OrderInv, ChannelOrdered
        <3>5. \A j \in 1 .. (i - 1) : channel'[b][j][p] < channel'[b][i][p]
            BY <3>1, <3>3, <3>4
        <3>6. inHand'[b][p] < channel'[b][i][p]
            BY <1>b, <2>2, <3>1, <3>2, <3>4
        <3>. QED  BY <2>2, <3>1, <3>4, <3>5, <3>6
    <2>. QED  BY <2>1, <2>2
<1>4. SendingOrdered'
    <2> SUFFICES ASSUME NEW v \in Writers, NEW p \in Paths, sending[v][p] > 0
                 PROVE  LET b == AdapterOf[p] IN
                        /\ mutex[b] = v /\ sending[v][p] <= value[p]
                        /\ \A id \in Ids : sent[id][p] < sending[v][p]
                        /\ inHand'[b][p] < sending[v][p]
                        /\ \A i \in 1 .. Len(channel'[b]) : channel'[b][i][p] < sending[v][p]
                        /\ \A q \in Paths : sending[v][q] > 0 => AdapterOf[q] = b
        BY <1>a DEF SendingOrdered
    <2>a. AdapterOf[p] \in Adapters
        BY Numbers
    <2>b. /\ mutex[AdapterOf[p]] = v /\ sending[v][p] <= value[p]
          /\ \A id \in Ids : sent[id][p] < sending[v][p]
          /\ \A q \in Paths : sending[v][q] > 0 => AdapterOf[q] = AdapterOf[p]
        BY DEF OrderInv, SendingOrdered
    <2>1. CASE AdapterOf[p] # a
        BY <1>b, <2>a, <2>b, <2>1 DEF OrderInv, SendingOrdered
    <2>2. CASE AdapterOf[p] = a
        <3>1. /\ 1 \in 1 .. Len(channel[a])
              /\ \A i \in 1 .. Len(channel'[a]) :
                     i + 1 \in 1 .. Len(channel[a]) /\ channel'[a][i] = channel[a][i + 1]
            BY <1>b
        <3>2. \A i \in 1 .. Len(channel[a]) : channel[a][i][p] < sending[v][p]
            BY <2>2 DEF OrderInv, SendingOrdered
        <3>3. \A i \in 1 .. Len(channel'[a]) : channel'[a][i][p] < sending[v][p]
            BY <3>1, <3>2
        <3>. QED  BY <1>b, <2>b, <2>2, <3>1, <3>2, <3>3
    <2>. QED  BY <2>1, <2>2
<1>. QED  BY <1>1, <1>2, <1>3, <1>4 DEF OrderInv

\* The handler sends what is older than all that is behind it.
LEMMA DispatchOrder ==
    ASSUME TypeOK, OrderInv, NEW a \in Adapters, Dispatch(a)
    PROVE  OrderInv'
<1>t. inHand \in [Adapters -> Message] /\ AdapterOf \in [Paths -> Adapters]
    BY BaseAdapterAssumption DEF TypeOK
<1>a. /\ UNCHANGED <<value, mutex, channel, sending>>
      /\ inHand' = [inHand EXCEPT ![a] = NoChanges]
      /\ \A id \in Ids, p \in Paths :
             \/ sent'[id][p] = sent[id][p]
             \/ inHand[a][p] > 0 /\ sent'[id][p] = inHand[a][p]
    BY DEF Dispatch, PathsFor, adapterVars
<1>b. \A b \in Adapters, p \in Paths :
          inHand'[b][p] = IF b = a THEN 0 ELSE inHand[b][p]
    BY <1>t, <1>a DEF NoChanges
<1>1. (\A id \in Ids, p \in Paths : sent[id][p] <= value[p])'
    BY <1>a DEF OrderInv, HandOrdered
<1>2. HandOrdered'
    BY <1>a, <1>b DEF OrderInv, HandOrdered
<1>3. ChannelOrdered'
    <2> SUFFICES ASSUME NEW b \in Adapters, NEW p \in Paths, NEW i \in 1 .. Len(channel[b]),
                        channel[b][i][p] > 0
                 PROVE  /\ \A id \in Ids : sent'[id][p] < channel[b][i][p]
                        /\ inHand'[b][p] < channel[b][i][p]
        BY <1>a DEF OrderInv, ChannelOrdered
    <2>1. b = AdapterOf[p] /\ inHand[b][p] < channel[b][i][p]
        BY DEF OrderInv, ChannelOrdered
    <2>2. \A id \in Ids : sent'[id][p] < channel[b][i][p]
        BY <1>a, <2>1 DEF OrderInv, ChannelOrdered, HandOrdered
    <2>. QED  BY <1>b, <2>1, <2>2
<1>4. SendingOrdered'
    <2> SUFFICES ASSUME NEW v \in Writers, NEW p \in Paths, sending[v][p] > 0
                 PROVE  LET b == AdapterOf[p] IN
                        /\ mutex[b] = v /\ sending[v][p] <= value[p]
                        /\ \A id \in Ids : sent'[id][p] < sending[v][p]
                        /\ inHand'[b][p] < sending[v][p]
                        /\ \A i \in 1 .. Len(channel[b]) : channel[b][i][p] < sending[v][p]
                        /\ \A q \in Paths : sending[v][q] > 0 => AdapterOf[q] = b
        BY <1>a DEF SendingOrdered
    <2>1. /\ mutex[AdapterOf[p]] = v /\ sending[v][p] <= value[p]
          /\ inHand[AdapterOf[p]][p] < sending[v][p]
          /\ \A i \in 1 .. Len(channel[AdapterOf[p]]) :
                 channel[AdapterOf[p]][i][p] < sending[v][p]
          /\ \A q \in Paths : sending[v][q] > 0 => AdapterOf[q] = AdapterOf[p]
        BY DEF OrderInv, SendingOrdered
    <2>2. \A id \in Ids : sent'[id][p] < sending[v][p]
        BY <1>a, <2>1 DEF OrderInv, SendingOrdered, HandOrdered
    <2>. QED  BY <1>b, <1>t, <2>1, <2>2, Numbers
<1>. QED  BY <1>1, <1>2, <1>3, <1>4 DEF OrderInv

\* Every action keeps the order.
LEMMA NextOrder ==
    ASSUME TypeOK, TypeOK', OrderInv, [Next]_vars
    PROVE  OrderInv'
<1>n. \A id \in Ids, p \in Paths : sent[id][p] <= sent[id][p]
    BY Numbers
<1>1. ASSUME NEW c \in Callers, NEW m \in Masks, NEW u \in Auths, Subscribe(c, m, u)
      PROVE  OrderInv'
    BY <1>1, <1>n, OrderFrame DEF Subscribe, adapterVars, historyVars
<1>2. ASSUME NEW p \in Paths, VisitSensor(p) \/ RefuseSensor(p)
      PROVE  OrderInv'
    BY <1>2, <1>n, OrderFrame DEF VisitSensor, RefuseSensor, adapterVars, historyVars
<1>3. ASSUME NEW a \in Adapters, TellAdapter(a)
      PROVE  OrderInv'
    BY <1>3, <1>n, OrderFrame DEF TellAdapter, SetSubscribed, historyVars
<1>4. CASE Register \/ EndUnsubscribe
    BY <1>4, <1>n, OrderFrame DEF Register, EndUnsubscribe, adapterVars, historyVars
<1>5. ASSUME NEW c \in Callers, NEW id \in Ids, Unsubscribe(c, id)
      PROVE  OrderInv'
    <2>1. sent' = [sent EXCEPT ![id] = NoChanges]
          /\ UNCHANGED <<value, mutex, channel, sending, inHand>>
        BY <1>5 DEF Unsubscribe, adapterVars
    <2>2. \A i \in Ids, p \in Paths : sent'[i][p] <= sent[i][p]
        BY <2>1, Numbers DEF TypeOK, NoChanges
    <2>. QED  BY <2>1, <2>2, OrderFrame
<1>6. ASSUME NEW w \in Writers, NEW a \in Adapters, NEW ps \in SUBSET Paths,
             Write(w, a, ps) \/ WriteRefused(w, a, ps) \/ EndWrite(w, a)
      PROVE  OrderInv'
    BY <1>6, WriteOrder, EndWriteOrder
<1>7. ASSUME NEW w \in Writers, NEW a \in Adapters, EndWrite(w, a)
      PROVE  OrderInv'
    BY <1>7, EndWriteOrder
<1>8. ASSUME NEW a \in Adapters, Receive(a) \/ Dispatch(a)
      PROVE  OrderInv'
    BY <1>8, ReceiveOrder, DispatchOrder
<1>9. ASSUME NEW a \in Adapters, Panic(a)
      PROVE  OrderInv'
    BY <1>9, <1>n, OrderFrame DEF Panic, adapterVars, historyVars
<1>10. ASSUME NEW id \in Ids, Deliver(id)
       PROVE  OrderInv'
    BY <1>10, <1>n, OrderFrame DEF Deliver, adapterVars, historyVars
<1>11. CASE UNCHANGED vars
    BY <1>11, <1>n, OrderFrame DEF vars, adapterVars, historyVars
<1>. QED
    BY <1>1, <1>2, <1>3, <1>4, <1>5, <1>6, <1>7, <1>8, <1>9, <1>10, <1>11 DEF Next

\* The versions of a signal are in order from the table to the subscriber, through all
\* mutexes and channels.
THEOREM OrderInvariant == Spec => []OrderInv
<1>1. TypeOK /\ TypeOK' /\ OrderInv /\ [Next]_vars => OrderInv'
    BY NextOrder
<1>. QED  BY <1>1, InitOrder, TypeCorrect, PTL DEF Spec

\* What a step of the provider may do to what was sent.
LEMMA SentStep ==
    ASSUME TypeOK, OrderInv, [Next]_vars
    PROVE  \A id \in Active', p \in Paths :
               sent'[id][p] = sent[id][p] \/ sent'[id][p] > sent[id][p]
<1>1. ASSUME NEW a \in Adapters, Dispatch(a), NEW id \in Ids, NEW p \in Paths
      PROVE  sent'[id][p] = sent[id][p] \/ sent'[id][p] > sent[id][p]
    BY <1>1, Numbers DEF Dispatch, PathsFor, OrderInv, HandOrdered
<1>2. ASSUME NEW c \in Callers, NEW i \in Ids, Unsubscribe(c, i), NEW id \in Active'
      PROVE  sent'[id] = sent[id]
    BY <1>2 DEF Unsubscribe, Active, TypeOK
<1>3. \/ UNCHANGED sent
      \/ \E a \in Adapters : Dispatch(a)
      \/ \E c \in Callers, i \in Ids : Unsubscribe(c, i)
    BY DEF Next, Subscribe, VisitSensor, RefuseSensor, TellAdapter, Register, EndUnsubscribe,
       Write, WriteRefused, EndWrite, otherVars, Receive, Panic, Deliver, historyVars, vars
<1>. QED  BY <1>1, <1>2, <1>3 DEF Active

\* The changes of one signal reach a subscriber in the order they were made, none twice.
THEOREM ChangesArriveInOrder == Spec => OrderPreserved
<1>1. TypeOK /\ OrderInv /\ [Next]_vars =>
          \A id \in Active, p \in Paths :
              (id \in Active' /\ sent'[id][p] # sent[id][p]) => sent'[id][p] > sent[id][p]
    BY SentStep
<1>. QED  BY <1>1, OrderInvariant, TypeCorrect, PTL DEF OrderPreserved, Spec

-----------------------------------------------------------------------------
(* Catching up *)

\* There is no subscription at the start (New).
LEMMA InitCatchingUp == Init => CatchingUp
BY DEF Init, CatchingUp, Active

\* What touches neither the versions nor the subscriptions.
LEMMA CatchingUpFrame ==
    ASSUME CatchingUp,
           UNCHANGED <<value, channel, sending, inHand, subscribeInfo, sent, since, lost>>
    PROVE  CatchingUp'
BY DEF CatchingUp, ValueInFlight, InFlight, Queued, Active

\* A signal that somebody asked for is reported, so its new value is on its way.
LEMMA WriteCatchesUp ==
    ASSUME RegistryInv, CatchingUp, NEW w \in Writers, NEW a \in Adapters,
           NEW ps \in SUBSET Paths, Write(w, a, ps)
    PROVE  CatchingUp'
<1>t. /\ TypeOK /\ SubscriptionComplete
      /\ sending \in [Writers -> Message] /\ MatchedBy \in [Masks -> SUBSET Paths]
      /\ subscribeInfo \in [Ids -> Masks \cup {NoMask}]
    BY DataProviderAssumption DEF RegistryInv, TypeOK, AdapterTypeOK
<1>a. /\ UNCHANGED <<channel, inHand, subscribeInfo, sent, since, lost>>
      /\ sending[w] = NoChanges
      /\ value' = [p \in Paths |-> IF p \in ps THEN value[p] + 1 ELSE value[p]]
      /\ \/ Changed(ps) = NoChanges /\ UNCHANGED sending
         \/ Changed(ps) # NoChanges /\ sending' = [sending EXCEPT ![w] = Changed(ps)]
    BY DEF Write, SetData, otherVars, historyVars, registryVars, Written
<1> SUFFICES ASSUME NEW id \in Active, NEW p \in MatchedBy[subscribeInfo[id]]
             PROVE  \/ ValueInFlight(p)'
                    \/ since[id][p] = value'[p]
                    \/ ~ InFlight(p)' /\ (sent[id][p] = value'[p] \/ p \in lost[id])
    BY <1>a DEF CatchingUp, Active
<1>p. p \in Paths /\ subscribe[p]
    BY <1>t DEF SubscriptionComplete, Active
<1>1. CASE p \in ps
    <2>1. Changed(ps)[p] = value[p] + 1 /\ value'[p] = value[p] + 1
        BY <1>a, <1>p, <1>1 DEF Changed
    <2>2. value[p] \in Nat /\ NoChanges[p] = 0
        BY <1>t, <1>p, Numbers DEF NoChanges
    <2>3. sending'[w][p] = value'[p] /\ value'[p] > 0
        BY <1>t, <1>a, <2>1, <2>2
    <2>. QED  BY <2>3 DEF ValueInFlight
<1>2. CASE p \notin ps
    <2>1. value'[p] = value[p] /\ Changed(ps)[p] = 0 /\ NoChanges[p] = 0
        BY <1>a, <1>p, <1>2 DEF Changed, NoChanges
    <2>2. \A v \in Writers : sending'[v][p] = sending[v][p]
        BY <1>t, <1>a, <2>1
    <2>3. ValueInFlight(p) => ValueInFlight(p)'
        BY <1>a, <2>1, <2>2 DEF ValueInFlight
    <2>4. InFlight(p)' => InFlight(p)
        BY <1>a, <2>2 DEF InFlight, Queued
    <2>. QED  BY <2>1, <2>3, <2>4 DEF CatchingUp
<1>. QED  BY <1>1, <1>2

\* A value in the hands of a writer goes to the channel of the signal.
LEMMA EndWriteCatchesUp ==
    ASSUME RegistryInv, OrderInv, CatchingUp, NEW w \in Writers, NEW a \in Adapters,
           EndWrite(w, a)
    PROVE  CatchingUp'
<1>t. /\ TypeOK /\ sending \in [Writers -> Message] /\ channel \in [Adapters -> Seq(Message)]
      /\ MatchedBy \in [Masks -> SUBSET Paths]
      /\ subscribeInfo \in [Ids -> Masks \cup {NoMask}]
    BY DataProviderAssumption DEF RegistryInv, TypeOK, AdapterTypeOK
<1>a. /\ UNCHANGED <<value, inHand, subscribeInfo, sent, since, lost>>
      /\ channel' = [channel EXCEPT ![a] = Append(@, sending[w])]
      /\ sending' = [sending EXCEPT ![w] = NoChanges]
    BY DEF EndWrite, SendChanges, otherVars, historyVars, registryVars
<1>b. mutex[a] = w /\ \A q \in Paths : sending[w][q] > 0 => AdapterOf[q] = a
    BY DEF EndWrite, SendChanges, HasToSend, PathsOf, OrderInv, SendingOrdered
<1>c. /\ Len(channel'[a]) = Len(channel[a]) + 1 /\ Len(channel[a]) \in Nat
      /\ \A i \in 1 .. Len(channel[a]) : channel'[a][i] = channel[a][i]
      /\ channel'[a][Len(channel[a]) + 1] = sending[w]
      /\ \A b \in Adapters : b # a => channel'[b] = channel[b]
    BY <1>t, <1>a, AppendMessage
<1> SUFFICES ASSUME NEW id \in Active, NEW p \in MatchedBy[subscribeInfo[id]]
             PROVE  /\ ValueInFlight(p) => ValueInFlight(p)'
                    /\ InFlight(p)' => InFlight(p)
    BY <1>a DEF CatchingUp, Active
<1>p. p \in Paths /\ AdapterOf[p] \in Adapters
    BY <1>t, Numbers DEF Active
<1>1. \A v \in Writers : sending'[v][p] = IF v = w THEN 0 ELSE sending[v][p]
    BY <1>t, <1>a, <1>p DEF NoChanges
<1>2. \A i \in 1 .. Len(channel[AdapterOf[p]]) :
          /\ i \in 1 .. Len(channel'[AdapterOf[p]])
          /\ channel'[AdapterOf[p]][i] = channel[AdapterOf[p]][i]
    BY <1>c, <1>p
<1>3. \A i \in 1 .. Len(channel'[AdapterOf[p]]) :
          \/ /\ i \in 1 .. Len(channel[AdapterOf[p]])
             /\ channel'[AdapterOf[p]][i] = channel[AdapterOf[p]][i]
          \/ channel'[AdapterOf[p]][i] = sending[w]
    BY <1>c, <1>p
<1>4. ASSUME ValueInFlight(p) PROVE ValueInFlight(p)'
    <2>1. value[p] > 0
        BY <1>4 DEF ValueInFlight
    <2>2. CASE sending[w][p] = value[p]
        <3>1. AdapterOf[p] = a
            BY <1>b, <1>p, <2>1, <2>2
        <3>2. /\ Len(channel[a]) + 1 \in 1 .. Len(channel'[a])
              /\ channel'[a][Len(channel[a]) + 1][p] = value[p]
            BY <1>c, <2>2
        <3>. QED  BY <1>a, <2>1, <3>1, <3>2 DEF ValueInFlight
    <2>3. CASE \E v \in Writers \ {w} : sending[v][p] = value[p]
        BY <1>a, <1>1, <2>1, <2>3 DEF ValueInFlight
    <2>4. CASE \E i \in 1 .. Len(channel[AdapterOf[p]]) : channel[AdapterOf[p]][i][p] = value[p]
        BY <1>a, <1>2, <2>1, <2>4 DEF ValueInFlight
    <2>5. CASE inHand[AdapterOf[p]][p] = value[p]
        BY <1>a, <2>1, <2>5 DEF ValueInFlight
    <2>. QED  BY <1>4, <2>2, <2>3, <2>4, <2>5 DEF ValueInFlight
<1>5. ASSUME InFlight(p)' PROVE InFlight(p)
    <2>1. CASE \E v \in Writers : sending'[v][p] > 0
        BY <1>1, <2>1 DEF InFlight, Queued
    <2>2. CASE \E i \in 1 .. Len(channel'[AdapterOf[p]]) : channel'[AdapterOf[p]][i][p] > 0
        BY <1>3, <2>2 DEF InFlight, Queued
    <2>3. CASE \E b \in Adapters : inHand[b][p] > 0
        BY <2>3 DEF InFlight
    <2>. QED  BY <1>a, <1>5, <2>1, <2>2, <2>3 DEF InFlight, Queued
<1>. QED  BY <1>4, <1>5

\* A value in a channel goes to the hands of its handler.
LEMMA ReceiveCatchesUp ==
    ASSUME RegistryInv, OrderInv, CatchingUp, NEW a \in Adapters, Receive(a)
    PROVE  CatchingUp'
<1>t. /\ TypeOK /\ inHand \in [Adapters -> Message] /\ channel \in [Adapters -> Seq(Message)]
      /\ MatchedBy \in [Masks -> SUBSET Paths]
      /\ subscribeInfo \in [Ids -> Masks \cup {NoMask}]
    BY DataProviderAssumption DEF RegistryInv, TypeOK, AdapterTypeOK
<1>a. /\ UNCHANGED <<value, sending, subscribeInfo, sent, since, lost>>
      /\ inHand[a] = NoChanges /\ channel[a] # <<>>
      /\ channel' = [channel EXCEPT ![a] = Tail(@)]
      /\ inHand' = [inHand EXCEPT ![a] = Head(channel[a])]
    BY DEF Receive, TakeChanges, historyVars, registryVars
<1>b. /\ Len(channel[a]) \in Nat /\ Len(channel[a]) > 0
      /\ Len(channel'[a]) = Len(channel[a]) - 1
      /\ \A i \in 1 .. Len(channel'[a]) :
             i + 1 \in 2 .. Len(channel[a]) /\ channel'[a][i] = channel[a][i + 1]
      /\ inHand'[a] = channel[a][1]
      /\ \A b \in Adapters : b # a => channel'[b] = channel[b] /\ inHand'[b] = inHand[b]
    BY <1>t, <1>a, TailMessage
<1> SUFFICES ASSUME NEW id \in Active, NEW p \in MatchedBy[subscribeInfo[id]]
             PROVE  /\ ValueInFlight(p) => ValueInFlight(p)'
                    /\ InFlight(p)' => InFlight(p)
    BY <1>a DEF CatchingUp, Active
<1>p. p \in Paths /\ AdapterOf[p] \in Adapters
    BY <1>t, Numbers DEF Active
<1>1. ASSUME NEW i \in 1 .. Len(channel[a]), i # 1
      PROVE  i - 1 \in 1 .. Len(channel'[a]) /\ channel'[a][i - 1] = channel[a][i]
    <2>1. i - 1 \in 1 .. Len(channel'[a]) /\ (i - 1) + 1 = i
        BY <1>b, <1>1
    <2>. QED  BY <1>b, <2>1
<1>2. inHand[a][p] = 0
    BY <1>a, <1>p DEF NoChanges
<1>3. ASSUME ValueInFlight(p) PROVE ValueInFlight(p)'
    <2>1. CASE AdapterOf[p] # a
        BY <1>a, <1>b, <1>p, <1>3, <2>1 DEF ValueInFlight
    <2>2. CASE AdapterOf[p] = a
        <3>1. CASE \E w \in Writers : sending[w][p] = value[p]
            BY <1>a, <1>3, <3>1 DEF ValueInFlight
        <3>2. ASSUME NEW i \in 1 .. Len(channel[a]), channel[a][i][p] = value[p]
              PROVE  ValueInFlight(p)'
            <4>1. CASE i = 1
                BY <1>a, <1>b, <1>3, <2>2, <3>2, <4>1 DEF ValueInFlight
            <4>2. CASE i # 1
                <5>1. \E j \in 1 .. Len(channel'[a]) : channel'[a][j] = channel[a][i]
                    BY <1>1, <4>2
                <5>. QED  BY <1>a, <1>3, <2>2, <3>2, <5>1 DEF ValueInFlight
            <4>. QED  BY <4>1, <4>2
        <3>3. inHand[a][p] # value[p]
            BY <1>2, <1>3 DEF ValueInFlight
        <3>. QED  BY <1>3, <2>2, <3>1, <3>2, <3>3 DEF ValueInFlight
    <2>. QED  BY <2>1, <2>2
<1>4. ASSUME InFlight(p)' PROVE InFlight(p)
    <2>1. CASE \E w \in Writers : sending[w][p] > 0
        BY <2>1 DEF InFlight, Queued
    <2>2. CASE \E i \in 1 .. Len(channel'[AdapterOf[p]]) : channel'[AdapterOf[p]][i][p] > 0
        <3>1. \A i \in 1 .. Len(channel'[a]) :
                  i + 1 \in 1 .. Len(channel[a]) /\ channel'[a][i] = channel[a][i + 1]
            BY <1>b
        <3>2. CASE AdapterOf[p] = a
            BY <2>2, <3>1, <3>2 DEF InFlight, Queued
        <3>3. CASE AdapterOf[p] # a
            BY <1>b, <1>p, <2>2, <3>3 DEF InFlight, Queued
        <3>. QED  BY <3>2, <3>3
    <2>3. ASSUME NEW b \in Adapters, inHand'[b][p] > 0 PROVE InFlight(p)
        <3>1. CASE b # a
            BY <1>b, <2>3, <3>1 DEF InFlight
        <3>2. CASE b = a
            <4>1. 1 \in 1 .. Len(channel[a]) /\ channel[a][1][p] > 0
                BY <1>b, <2>3, <3>2
            <4>2. a = AdapterOf[p]
                BY <1>p, <4>1 DEF OrderInv, ChannelOrdered
            <4>. QED  BY <4>1, <4>2 DEF InFlight, Queued
        <3>. QED  BY <3>1, <3>2
    <2>. QED  BY <1>a, <1>4, <2>1, <2>2, <2>3 DEF InFlight, Queued
<1>. QED  BY <1>3, <1>4

\* A handler that sends the present value, or drops it, has sent what is last.
LEMMA DispatchCatchesUp ==
    ASSUME RegistryInv, OrderInv, CatchingUp, NEW a \in Adapters, Dispatch(a)
    PROVE  CatchingUp'
<1>t. /\ TypeOK /\ SubscriptionComplete /\ inHand \in [Adapters -> Message]
      /\ MatchedBy \in [Masks -> SUBSET Paths]
      /\ subscribeInfo \in [Ids -> Masks \cup {NoMask}]
    BY DataProviderAssumption DEF RegistryInv, TypeOK
<1>a. /\ UNCHANGED <<value, channel, sending, subscribeInfo, since>>
      /\ inHand' = [inHand EXCEPT ![a] = NoChanges]
    BY DEF Dispatch, adapterVars, registryVars
<1> SUFFICES ASSUME NEW id \in Active, NEW p \in MatchedBy[subscribeInfo[id]]
             PROVE  \/ ValueInFlight(p)'
                    \/ since[id][p] = value[p]
                    \/ ~ InFlight(p)' /\ (sent'[id][p] = value[p] \/ p \in lost'[id])
    BY <1>a DEF CatchingUp, Active
<1>p. p \in Paths /\ id \in Ids /\ id \in subscribeIds[p]
    BY <1>t DEF SubscriptionComplete, Active
<1>b. \A b \in Adapters : inHand'[b][p] = IF b = a THEN 0 ELSE inHand[b][p]
    BY <1>t, <1>a, <1>p DEF NoChanges
<1>1. CASE ~ (inHand[a][p] > 0)
    <2>1. p \notin PathsFor(a, id)
        BY <1>1 DEF PathsFor
    <2>2. sent'[id][p] = sent[id][p] /\ (p \in lost[id] => p \in lost'[id])
        BY <1>p, <2>1 DEF Dispatch
    <2>3. inHand[a][p] = 0
        BY <1>t, <1>p, <1>1, Numbers
    <2>4. \A b \in Adapters : inHand'[b][p] = inHand[b][p]
        BY <1>b, <2>3
    <2>5. ValueInFlight(p) => ValueInFlight(p)'
        BY <1>a, <1>t, <1>p, <2>4, Numbers DEF ValueInFlight
    <2>6. InFlight(p)' => InFlight(p)
        BY <1>a, <2>4 DEF InFlight, Queued
    <2>. QED  BY <2>2, <2>5, <2>6 DEF CatchingUp
<1>2. CASE inHand[a][p] > 0
    <2>1. AdapterOf[p] = a /\ InFlight(p)
        BY <1>p, <1>2 DEF OrderInv, HandOrdered, InFlight
    <2>2. CASE since[id][p] = value[p]
        BY <2>2
    <2>3. CASE inHand[a][p] = value[p]
        <3>1. \A w \in Writers : ~ (sending[w][p] > 0)
            BY <1>t, <1>p, <2>1, <2>3, Numbers DEF OrderInv, SendingOrdered
        <3>2. \A i \in 1 .. Len(channel[a]) : ~ (channel[a][i][p] > 0)
            BY <1>t, <1>p, <2>3, Numbers DEF OrderInv, ChannelOrdered
        <3>3. \A b \in Adapters : ~ (inHand'[b][p] > 0)
            BY <1>b, <1>p, <2>1 DEF OrderInv, HandOrdered
        <3>4. ~ InFlight(p)'
            BY <1>a, <2>1, <3>1, <3>2, <3>3 DEF InFlight, Queued
        <3>5. p \in PathsFor(a, id) /\ id \in Recipients(a)
            BY <1>p, <1>2 DEF PathsFor, Recipients
        <3>6. sent'[id][p] = inHand[a][p] \/ p \in lost'[id]
            BY <1>p, <3>5 DEF Dispatch
        <3>. QED  BY <2>3, <3>4, <3>6
    <2>4. CASE /\ value[p] > 0
               /\ \/ \E w \in Writers : sending[w][p] = value[p]
                  \/ \E i \in 1 .. Len(channel[a]) : channel[a][i][p] = value[p]
        BY <1>a, <2>1, <2>4 DEF ValueInFlight
    <2>. QED  BY <2>1, <2>2, <2>3, <2>4 DEF CatchingUp, ValueInFlight
<1>. QED  BY <1>1, <1>2

\* A new subscription begins with the values it finds; one that ends takes nothing from
\* the others.
LEMMA RegisterCatchesUp ==
    ASSUME RegistryInv, CatchingUp,
           Register \/ \E c \in Callers, id \in Ids : Unsubscribe(c, id)
    PROVE  CatchingUp'
<1>t. /\ TypeOK /\ CallConsistent /\ MatchedBy \in [Masks -> SUBSET Paths]
      /\ subscribeInfo \in [Ids -> Masks \cup {NoMask}]
      /\ since \in [Ids -> Message] /\ lost \in [Ids -> SUBSET Paths]
      /\ sent \in [Ids -> Message] /\ currentSubsID \in 0 .. MaxSubs
    BY DataProviderAssumption DEF RegistryInv, TypeOK
<1>1. CASE Register
    <2>1. /\ subscribeInfo' = [subscribeInfo EXCEPT ![currentSubsID] = call.mask]
          /\ since' = [since EXCEPT ![currentSubsID] = value]
          /\ UNCHANGED <<value, channel, sending, inHand, sent, lost>>
        BY <1>1 DEF Register, adapterVars
    <2> SUFFICES ASSUME NEW id \in Active', NEW p \in MatchedBy[subscribeInfo'[id]]
                 PROVE  \/ ValueInFlight(p)'
                        \/ since'[id][p] = value'[p]
                        \/ ~ InFlight(p)' /\ (sent'[id][p] = value'[p] \/ p \in lost'[id])
        BY DEF CatchingUp
    <2>2. CASE id = currentSubsID
        BY <1>t, <2>1, <2>2 DEF Active
    <2>3. CASE id # currentSubsID
        <3>1. id \in Active /\ subscribeInfo'[id] = subscribeInfo[id] /\ since'[id] = since[id]
            BY <1>t, <2>1, <2>3 DEF Active
        <3>. QED  BY <2>1, <3>1 DEF CatchingUp, ValueInFlight, InFlight, Queued
    <2>. QED  BY <2>2, <2>3
<1>2. ASSUME NEW c \in Callers, NEW gone \in Ids, Unsubscribe(c, gone)
      PROVE  CatchingUp'
    <2>1. /\ subscribeInfo' = [subscribeInfo EXCEPT ![gone] = NoMask]
          /\ since' = [since EXCEPT ![gone] = NoChanges]
          /\ sent' = [sent EXCEPT ![gone] = NoChanges]
          /\ lost' = [lost EXCEPT ![gone] = {}]
          /\ UNCHANGED <<value, channel, sending, inHand>>
        BY <1>2 DEF Unsubscribe, adapterVars
    <2>2. \A id \in Active' : /\ id \in Active /\ subscribeInfo'[id] = subscribeInfo[id]
                             /\ since'[id] = since[id] /\ sent'[id] = sent[id]
                             /\ lost'[id] = lost[id]
        BY <1>t, <2>1 DEF Active
    <2>. QED  BY <2>1, <2>2 DEF CatchingUp, ValueInFlight, InFlight, Queued
<1>. QED  BY <1>1, <1>2

\* Every action keeps CatchingUp, if no batch is refused half way.
LEMMA NextCatchingUp ==
    ASSUME ~ MayRefuse, RegistryInv, OrderInv, CatchingUp, [Next]_vars
    PROVE  CatchingUp'
<1>1. ASSUME NEW c \in Callers, NEW m \in Masks, NEW u \in Auths, Subscribe(c, m, u)
      PROVE  CatchingUp'
    BY <1>1, CatchingUpFrame DEF Subscribe, adapterVars, registryVars, historyVars
<1>2. ASSUME NEW p \in Paths, VisitSensor(p) \/ RefuseSensor(p)
      PROVE  CatchingUp'
    BY <1>2, CatchingUpFrame DEF VisitSensor, RefuseSensor, adapterVars, registryVars, historyVars
<1>3. ASSUME NEW a \in Adapters, TellAdapter(a)
      PROVE  CatchingUp'
    BY <1>3, CatchingUpFrame DEF TellAdapter, SetSubscribed, registryVars, historyVars
<1>4. CASE Register \/ \E c \in Callers, id \in Ids : Unsubscribe(c, id)
    BY <1>4, RegisterCatchesUp
<1>5. CASE EndUnsubscribe
    BY <1>5, CatchingUpFrame DEF EndUnsubscribe, adapterVars, registryVars, historyVars
<1>6. ASSUME NEW w \in Writers, NEW a \in Adapters, NEW ps \in SUBSET Paths,
             Write(w, a, ps) \/ WriteRefused(w, a, ps)
      PROVE  CatchingUp'
    BY <1>6, WriteCatchesUp DEF WriteRefused, SetDataRefused
<1>7. ASSUME NEW w \in Writers, NEW a \in Adapters, EndWrite(w, a)
      PROVE  CatchingUp'
    BY <1>7, EndWriteCatchesUp
<1>8. ASSUME NEW a \in Adapters, Receive(a) \/ Dispatch(a) \/ Panic(a)
      PROVE  CatchingUp'
    <2>1. CASE Panic(a)
        BY <2>1, CatchingUpFrame DEF Panic, adapterVars, registryVars, historyVars
    <2>. QED  BY <1>8, <2>1, ReceiveCatchesUp, DispatchCatchesUp
<1>9. ASSUME NEW id \in Ids, Deliver(id)
      PROVE  CatchingUp'
    BY <1>9, CatchingUpFrame DEF Deliver, adapterVars, registryVars, historyVars
<1>10. CASE UNCHANGED vars
    BY <1>10, CatchingUpFrame DEF vars, adapterVars, registryVars, historyVars
<1>. QED
    BY <1>1, <1>2, <1>3, <1>4, <1>5, <1>6, <1>7, <1>8, <1>9, <1>10 DEF Next

\* While an older value of a signal is on its way to a subscriber, so is the present one,
\* or it is the one that the subscription began with.
THEOREM CatchingUpInvariant == ASSUME ~ MayRefuse PROVE Spec => []CatchingUp
<1>1. RegistryInv /\ OrderInv /\ CatchingUp /\ [Next]_vars => CatchingUp'
    BY NextCatchingUp
<1>. QED  BY <1>1, InitCatchingUp, RegistryInvariant, OrderInvariant, PTL DEF Spec

\* Once nothing is on its way, a subscriber has the present value of each signal it asked
\* for, or found it when it subscribed, or lost it to its own full channel.
THEOREM SubscribersCatchUp == ASSUME ~ MayRefuse PROVE Spec => []CaughtUp
<1>1. TypeOK /\ CatchingUp => CaughtUp
    <2> SUFFICES ASSUME TypeOK, CatchingUp, NEW id \in Active,
                        NEW p \in MatchedBy[subscribeInfo[id]], ValueInFlight(p)
                 PROVE  InFlight(p)
        BY DEF CatchingUp, CaughtUp
    <2>1. p \in Paths
        BY DataProviderAssumption DEF TypeOK, Active
    <2>. QED  BY <2>1, Numbers DEF ValueInFlight, InFlight, Queued
<1>. QED  BY <1>1, CatchingUpInvariant, TypeCorrect, PTL

-----------------------------------------------------------------------------
(* The refinement *)

\* The provider starts as the registry does.
LEMMA InitRefines == Init => Registry!Init
BY DEF Init, AdapterInit, NoChanges, Ids,
   Registry!Init, Registry!Nothing, Registry!Ids

\* A step of the provider is one of the registry, or changes nothing that it has.
LEMMA NextRefines ==
    ASSUME TypeOK, TypeOK', CallConsistent, ExactLists, RegistryInv, OrderInv, [Next]_vars
    PROVE  [Registry!Next]_(Registry!vars)
<1>t. /\ subscribeInfo \in [Ids -> Masks \cup {NoMask}] /\ call \in Call
      /\ currentSubsID \in 0 .. MaxSubs
    BY DEF TypeOK
<1>1. CASE Register
    <2>1. currentSubsID < MaxSubs /\ call.mask \in Masks
        BY <1>1 DEF Register, CallConsistent
    <2>2. Registry!Register(call.mask)
        BY <1>1, <2>1 DEF Register, Registry!Register, adapterVars
    <2>. QED  BY <2>1, <2>2 DEF Registry!Next
<1>2. ASSUME NEW c \in Callers, NEW id \in Ids, Unsubscribe(c, id)
      PROVE  [Registry!Next]_(Registry!vars)
    <2>1. Registry!Cancel(id)
        BY <1>2 DEF Unsubscribe, Active, Registry!Cancel, Registry!Nothing, NoChanges, adapterVars
    <2>. QED  BY <2>1 DEF Registry!Next, Registry!Ids, Ids
<1>3. ASSUME NEW w \in Writers, NEW a \in Adapters, NEW ps \in SUBSET Paths,
             Write(w, a, ps) \/ WriteRefused(w, a, ps)
      PROVE  [Registry!Next]_(Registry!vars)
    <2>1. value' \in [Paths -> Nat]
        BY BaseAdapterAssumption DEF TypeOK, AdapterTypeOK
    <2>2. \A p \in Paths : value'[p] \in {value[p], value[p] + 1}
        BY <1>3 DEF Write, WriteRefused, SetData, SetDataRefused, Written
    <2>3. Registry!Change
        BY <1>3, <2>1, <2>2 DEF Registry!Change, Write, WriteRefused, otherVars, registryVars,
           historyVars
    <2>. QED  BY <2>3 DEF Registry!Next
<1>4. ASSUME NEW a \in Adapters, Dispatch(a)
      PROVE  [Registry!Next]_(Registry!vars)
    <2>1. sent' \in [Ids -> [Paths -> Nat]]
        BY DEF TypeOK, Message
    <2>2. ASSUME NEW id \in Ids, NEW p \in Paths, sent'[id][p] # sent[id][p]
          PROVE  /\ subscribeInfo[id] # NoMask /\ p \in MatchedBy[subscribeInfo[id]]
                 /\ sent[id][p] < sent'[id][p] /\ sent'[id][p] <= value[p]
        <3>1. id \in subscribeIds[p] /\ inHand[a][p] > 0 /\ sent'[id][p] = inHand[a][p]
            BY <1>4, <2>2 DEF Dispatch, PathsFor
        <3>2. id \in Active /\ p \in MatchedBy[subscribeInfo[id]]
            BY <1>4, <3>1, UnlockedLists DEF Dispatch
        <3>. QED  BY <3>1, <3>2 DEF Active, OrderInv, HandOrdered
    <2>3. Registry!Notify
        BY <1>4, <2>1, <2>2 DEF Dispatch, Registry!Notify, Registry!Ids, Ids, adapterVars,
           registryVars
    <2>. QED  BY <2>3 DEF Registry!Next
<1>5. ASSUME \/ \E c \in Callers, m \in Masks, u \in Auths : Subscribe(c, m, u)
             \/ \E p \in Paths : VisitSensor(p) \/ RefuseSensor(p)
             \/ \E a \in Adapters : TellAdapter(a) \/ Receive(a) \/ Panic(a)
             \/ EndUnsubscribe
             \/ \E w \in Writers, a \in Adapters : EndWrite(w, a)
             \/ \E id \in Ids : Deliver(id)
             \/ UNCHANGED vars
      PROVE  UNCHANGED Registry!vars
    BY <1>5 DEF Registry!vars, Subscribe, VisitSensor, RefuseSensor, TellAdapter, SetSubscribed,
       Receive, TakeChanges, Panic, EndUnsubscribe, EndWrite, SendChanges, otherVars, Deliver,
       vars, adapterVars, registryVars, historyVars
<1>. QED  BY <1>1, <1>2, <1>3, <1>4, <1>5 DEF Next

\* If permissions never split a mask, the provider keeps its promise: new ids, and live
\* subscriptions told only of what they asked for, in order.
THEOREM ProviderImplementsRegistry == AllOrNothing /\ Spec => ImplementsRegistry
<1> SUFFICES ASSUME AllOrNothing PROVE Spec => ImplementsRegistry
    OBVIOUS
<1>1. TypeOK /\ TypeOK' /\ PromiseInv /\ OrderInv /\ [Next]_vars => [Registry!Next]_(Registry!vars)
    BY NextRefines DEF PromiseInv, RegistryInv
<1>. QED
    BY <1>1, InitRefines, TypeCorrect, PromiseInvariant, OrderInvariant, PTL
    DEF Spec, ImplementsRegistry, Registry!Spec
=============================================================================
