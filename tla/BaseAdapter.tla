----------------------------- MODULE BaseAdapter -----------------------------
(***************************************************************************)
(* The data adapters of aos_vis that are built on dataprovider.BaseAdapter *)
(* (storage, Renesas simulator, telemetry emulator): a table of signals    *)
(* under one mutex, and a bounded Go channel on which the changes of the   *)
(* subscribed signals are sent.                                            *)
(*                                                                         *)
(* The value of a signal is abstracted to its VERSION: the number of times *)
(* a write has replaced it by a different value.  A write that repeats the *)
(* present value changes nothing (reflect.DeepEqual), so a batch is given  *)
(* by the signals it really changes.  A message on the channel maps every  *)
(* path to the version it carries, 0 for a path that is not in the map     *)
(* (version 0 is the configured value, which no write ever installs).      *)
(***************************************************************************)
EXTENDS Naturals, Sequences, FiniteSets

CONSTANTS
    Adapters,       \* the adapters
    Paths,          \* the VIS paths, each served by one adapter
    AdapterOf,      \* [Paths -> Adapters]
    Writers,        \* goroutines that call SetData
    NoOne,          \* value of a mutex nobody holds
    MayRefuse,      \* TRUE if batches may name a path that SetData refuses
    ChanSize,       \* capacity of SubscribeChannel (subscribeChannelSize)
    MaxVersion      \* bound: writes that change one signal

ASSUME BaseAdapterAssumption ==
    /\ AdapterOf \in [Paths -> Adapters]
    /\ NoOne \notin Writers
    /\ MayRefuse \in BOOLEAN
    /\ ChanSize \in Nat \ {0}
    /\ MaxVersion \in Nat

VARIABLES
    value,          \* Data[path].Value, as a version
    subscribe,      \* Data[path].subscribe
    mutex,          \* who holds the adapter's mutex between two steps
    channel,        \* SubscribeChannel
    sending         \* changedData of a writer blocked in the channel send

adapterVars == <<value, subscribe, mutex, channel, sending>>

Message   == [Paths -> Nat]
NoChanges == [p \in Paths |-> 0]

PathsOf(a) == {p \in Paths : AdapterOf[p] = a}

AdapterInit ==
    /\ value = [p \in Paths |-> 0]
    /\ subscribe = [p \in Paths |-> FALSE]
    /\ mutex = [a \in Adapters |-> NoOne]
    /\ channel = [a \in Adapters |-> <<>>]
    /\ sending = [w \in Writers |-> NoChanges]

-----------------------------------------------------------------------------
(* The operations.  Each one takes the adapter's mutex; only SetData can    *)
(* keep it across a step, while it waits for room in the channel.           *)

\* Versions after the signals of ps were given new values.
Written(ps) == [p \in Paths |-> IF p \in ps THEN value[p] + 1 ELSE value[p]]

\* changedData: the new versions of the subscribed signals among ps.
Changed(ps) ==
    [p \in Paths |-> IF p \in ps /\ subscribe[p] THEN value[p] + 1 ELSE 0]

\* The slip of releasing the mutex before the changes are sent.
SetDataUnlocked(w, a, ps) ==
    /\ mutex[a] = NoOne
    /\ sending[w] = NoChanges
    /\ ps # {} /\ ps \subseteq PathsOf(a)
    /\ \A p \in ps : value[p] < MaxVersion
    /\ value' = Written(ps)
    /\ sending' = [sending EXCEPT ![w] = Changed(ps)]
    /\ UNCHANGED <<subscribe, mutex, channel>>

\* SetData with a batch every path of which is accepted.  The writes and the
\* collection of changedData happen under the mutex, which is kept if there
\* is something to send.
SetData(w, a, ps) ==
    /\ mutex[a] = NoOne
    /\ sending[w] = NoChanges
    /\ ps # {} /\ ps \subseteq PathsOf(a)
    /\ \A p \in ps : value[p] < MaxVersion
    /\ value' = Written(ps)
    /\ \/ /\ Changed(ps) = NoChanges
          /\ UNCHANGED <<mutex, sending>>
       \/ /\ Changed(ps) # NoChanges
          /\ mutex' = [mutex EXCEPT ![a] = w]
          /\ sending' = [sending EXCEPT ![w] = Changed(ps)]
    /\ UNCHANGED <<subscribe, channel>>

\* SetData with a batch that also names a read-only or an unknown path: the
\* signals the map iteration reached before it (any of the batch) have their
\* new value, changedData is thrown away and the error is returned.
SetDataRefused(w, a, ps) ==
    /\ MayRefuse
    /\ mutex[a] = NoOne
    /\ sending[w] = NoChanges
    /\ ps # {} /\ ps \subseteq PathsOf(a)
    /\ \A p \in ps : value[p] < MaxVersion
    /\ value' = Written(ps)
    /\ UNCHANGED <<subscribe, mutex, channel, sending>>

\* The writer w has changes for the channel of a.
HasToSend(w, a) == \E p \in PathsOf(a) : sending[w][p] > 0

\* The slip of a send that returns without the Unlock.
SendChangesKeepingLock(w, a) ==
    /\ HasToSend(w, a)
    /\ Len(channel[a]) < ChanSize
    /\ channel' = [channel EXCEPT ![a] = Append(@, sending[w])]
    /\ sending' = [sending EXCEPT ![w] = NoChanges]
    /\ UNCHANGED <<value, subscribe, mutex>>

\* The channel send that ends SetData, and the deferred Unlock.
SendChanges(w, a) ==
    /\ HasToSend(w, a)
    /\ Len(channel[a]) < ChanSize
    /\ channel' = [channel EXCEPT ![a] = Append(@, sending[w])]
    /\ mutex' = [mutex EXCEPT ![a] = NoOne]
    /\ sending' = [sending EXCEPT ![w] = NoChanges]
    /\ UNCHANGED <<value, subscribe>>

\* Subscribe and Unsubscribe of the paths ps, and UnsubscribeAll.
SetSubscribed(a, ps, on) ==
    /\ mutex[a] = NoOne
    /\ subscribe' = [p \in Paths |-> IF p \in ps THEN on ELSE subscribe[p]]
    /\ UNCHANGED <<value, mutex, channel, sending>>

\* Another goroutine receives the oldest message of the channel.
TakeChanges(a) ==
    /\ channel[a] # <<>>
    /\ channel' = [channel EXCEPT ![a] = Tail(@)]
    /\ UNCHANGED <<value, subscribe, mutex, sending>>

-----------------------------------------------------------------------------
AdapterTypeOK ==
    /\ value \in [Paths -> 0 .. MaxVersion]
    /\ subscribe \in [Paths -> BOOLEAN]
    /\ mutex \in [Adapters -> Writers \cup {NoOne}]
    /\ channel \in [Adapters -> Seq(Message)]
    /\ sending \in [Writers -> Message]

\* A change of p is on its way in the channel of its adapter, or in the hands
\* of a writer that waits for room in it.
Queued(p) ==
    \/ \E i \in 1 .. Len(channel[AdapterOf[p]]) : channel[AdapterOf[p]][i][p] > 0
    \/ \E w \in Writers : sending[w][p] > 0
=============================================================================
