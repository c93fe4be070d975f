# A formal model of aos_vis

aos_vis is a VIS (Vehicle Information Service) server: clients connect by web
socket and get, set and subscribe to signals of a vehicle, which data adapters
provide. This directory holds TLA+ modules for its concurrent core, TLC
configurations that model-check them on small instances, and theorems that TLAPS
proves for every instance. Paths below are relative to `src/`.

## 1. Inventory

| Component | State | Operations | Talks to |
|---|---|---|---|
| VIS server, `visserver/visserver.go` | mutex; `clients`; for each client its authorisation and `subscribeChannels` | `ClientConnected`, `ClientDisconnected`, `ProcessMessage` (get, set, authorize, subscribe, unsubscribe, unsubscribeAll), `Close`; one goroutine for each subscription | callbacks from the web socket server; calls the data provider and the permission provider |
| Web socket server, `vendor/.../aos_common/wsserver/wsserver.go` | mutex; `clients` by remote address; the connections | `handleConnection` (`newClient`, `run`, `deleteClient`), `SendMessage`, `Close` | net/http below, the VIS server above |
| Data provider, `dataprovider/dataprovider.go` | mutex; the id lists of the sensors; `subscribeInfoMap`; `currentSubsID` | `GetData`, `SetData`, `Subscribe`, `Unsubscribe`; one `handleSubscribeChannel` goroutine for each adapter | calls adapters; reads their channels; writes the channels of the subscribers |
| Base adapter, `dataprovider/baseadapter.go` | mutex; value and `subscribe` flag of each signal; the change channel (32) | `GetData`, `SetData`, `Subscribe`, `Unsubscribe` | used by the storage, telemetry and Renesas adapters |
| Path filter, `dataprovider/filter.go` | none | `Match` | used for requests and for permissions |
| Permission provider, `permissionprovider/permissionprovider.go` | gRPC connection | `GetVisPermissionByToken`, with a timeout of 30 s | external service |
| Subjects adapter, `plugins/subjectsadapter` | list in memory; file; flag; channel (2) | `New`, `SetData`, `Subscribe`, `Unsubscribe` | the file system |
| VIN and unit model adapters, `plugins/vinadapter`, `plugins/unitmodeladapter` | a value from a file, made up and written if it cannot be read | `New`, `GetData` | the file system |
| Storage adapter, `plugins/storageadapter` | that of the base adapter | those of the base adapter | |
| Telemetry emulator adapter, `plugins/telemetryemulatoradapter` | that of the base adapter; a ticker | every tick, the emulator's tree is flattened, converted and set; `SetData` posts by HTTP first | HTTP |
| Renesas simulator adapter, `plugins/renesassimulatoradapter` | that of the base adapter; a web socket; the signal map | each "data" message of the simulator is flattened, mapped and set | web socket |
| Program, `aos_vis.go`; configuration; plugin registration | | start: server, provider, adapters in order; SIGTERM: Close | all of the above |

What is hard about it:

* **Three layers of mutexes and two of bounded channels.** A request holds the
  server's mutex, in it the provider's, in it the adapter's. A write sends on the
  adapter's channel with the adapter's mutex held; the handler that empties the
  channel needs the provider's mutex.
* **Subscribe and Unsubscribe are not atomic.** They visit sensors and adapters in
  map order while adapters write, and may be refused half way.
* **Ids are shared by all clients**: any client may unsubscribe any id.
* **Connections end at any time**, in the middle of requests, of an
  authorisation, of Close.
* **Files are written in place**, and the process may crash, in the middle of a start
  too. Whatever keeps an adapter's `New` from reading its file makes it write another
  value over it.
* **The sources are walked in map order**, and names are converted on the way, so that
  two leaves of a tree may end up as one signal.
* **The server's mutex is held while others are asked**: the permission service with a
  timeout, the emulator without one, and the provider, whose adapters may be in a lock
  cycle. Who cannot get it waits too, also the end of a connection.

What makes each component correct:

* *provider*: a live subscription is complete and reported; it is told only of what
  it asked for, in order, and catches up; ids are not reused; nothing is left
  behind; the process survives; every call returns and every change arrives.
* *base adapter*: a change is reported exactly when somebody listens, once, in order.
* *filter*: `Match` accepts exactly the paths a mask stands for, and returns.
* *server*: subscriptions belong to connected clients; a client that goes away takes
  its own with it and no others; connections and goroutines end; Close closes.
  A client can place every notification it gets.
* *adapters with a file*: what was acknowledged survives a crash; a vehicle keeps its VIN
  and its unit model; nothing is served in part unless the process died writing it.
* *requests and sources*: nothing is written without permission, nothing is lost in a
  conversion, and what a source sends is what the clients get.

## 2. Modules

| Module | Models | Role |
|---|---|---|
| `BaseAdapter` | base adapter | operations as operators, composed by `DataProvider` |
| `DataProvider` | data provider, its handlers, the writers | the core |
| `SubscriptionRegistry` | what the provider promises | abstract specification |
| `Sources` | what the telemetry and the Renesas adapter make of a JSON tree | pure operators, used by `Requests` |
| `Requests` | get and set requests, from path and data to the adapters and back; the ticker and the simulator between | conversions, permissions, partial failure |
| `PathFilter` | `Match` | loop as a state machine, with a reference definition |
| `WsServer` | web socket server | operators, composed by `VisServer` |
| `VisServer` | VIS server, forwarding goroutines, Close | the second core |
| `Sessions` | what the server promises its clients | abstract specification |
| `SubjectsAdapter` | subjects adapter with its file | operations as operators, composed by `Process` |
| `Process` | start and end of the program; VIN, unit model and subjects adapters | crash and restart |
| `MC*` | | the constants of the instances |
| `ListLemmas` | | induction over the naturals, recursive functions, lists: lemmas the proofs share |
| `DataProviderProofs`, `DataProviderPromiseProofs`, `DataProviderOrderProofs` | | theorems about `DataProvider` |
| `VisServerProofs` | | theorems about `VisServer` and `WsServer` |
| `RequestsProofs` | | theorems about `Requests` and `Sources` |
| `PathFilterProofs` | | theorems about `PathFilter` |
| `ProcessProofs` | | theorems about `Process` and `SubjectsAdapter` |

### BaseAdapter and DataProvider

A signal's value is its *version*: how often a write has replaced it by a
different value. A write of an equal value does nothing (`reflect.DeepEqual`), so
batches name the signals that really change. A message on a channel gives each path
its version, 0 for a path that is not in it.

| Action | Code |
|---|---|
| `Subscribe`, `VisitSensor`, `RefuseSensor`, `TellAdapter`, `Register` | `Subscribe`: lock and match; one sensor of the loop, accepted or refused by `checkPermissions`; one adapter told; entry in `subscribeInfoMap` |
| `Unsubscribe`, `TellAdapter`, `EndUnsubscribe` | `Unsubscribe`: close the channel, clean the lists; one adapter told; return |
| `Write`, `EndWrite`, `WriteRefused` | `SetData` up to the channel send; the send and the unlock; a batch refused half way |
| `Receive`, `Dispatch`, `Panic` | `handleSubscribeChannel`: receive; lock, group, queue or drop; dereference of a missing entry |
| `Deliver` | the read in `processSubscribeChannel` |

The steps are cut where the code waits or lets others in: a step that asks an
adapter something waits for its mutex, the send waits for room. The provider's mutex
is `call` (the request under way), an adapter's mutex is `mutex`, which only a send
keeps across a step. *Callers* run requests, one at a time in the server; *producers*
are the ticker and the simulator connection. `sent`, `since` and `lost` are history
variables; no guard reads them.

`SubscriptionRegistry` has neither locks nor adapters: ids in order, a mask for each
live id, notifications of matching signals only, each signal in the order of its
changes. `Registry` in `DataProvider` is the refinement mapping.

### Requests

`DataProvider` follows the changes of signals; `Requests` follows the requests.
`GetData` and `SetData` are cut into the part before the first adapter is called (match,
`checkPermissions`, `getSuffixMap`), one action for each adapter, and the answer
(`convertData`). `AdapterRefuses` is the error of an adapter: it ends the request and
undoes nothing. The kinds of adapters differ in what they accept: *storing* ones all
that is not read-only, *posting* ones attributes of the emulator if the emulator takes
them, VIN, unit model and Renesas nothing. Paths, suffixes and masks are abstract: which path has
which suffix and is matched by which mask are constants. `Candidates` is
a set because Go's map order decides among several suffixes.

`Tick`, `TickRefused` and `SimulatorData` are the sources, at any point of a request. In
`Sources` a tree is a function from its leaves to values: a leaf stands for its full name
and its depth, one less than how often `parseNode` applies the path converter to it.
`Collected` is a map that is filled in map order: of leaves with one name any may come
last. `held` (what each adapter held since the request began) and `latest` (the last tree
taken over in whole) are history variables. A path that two adapters offer belongs to the
one that comes first in the configuration (`createAdapter`); `AdapterOf` is what comes
of that. There is at most one Renesas adapter (`SignalMap` is its configuration), and the
names in the emulator's tree are not those of its attributes, which have another prefix.

### PathFilter

`Mismatch`, `StayInStar`, `Advance` and `Finish` are the four ways through the loop of
`Match`. The reference `Matches` says where each element of the mask starts in the
path: a name stands for one element, a star for one or more, and a mask that is used
up also stands for everything below. That a star stands for several elements is what
the `continue` of the loop does; the mask need not reach the end of the path because
the function returns `maskIndex == len(maskSlice)`.

### WsServer and VisServer

Each connection is the goroutine of `handleConnection`, in `phase`. `VisServer` adds
the callbacks, which run under one mutex (`visLock`). One that waits for nobody is an action;
the others take the mutex in a first step, keep it for a `request`, and release it in
their last:

| Request | First step, what is between, last step | Waits for |
|---|---|---|
| authorize | `ProcessAuth`, `EndAuth` | the permission service, up to 30 s |
| set of a telemetry signal | `ProcessSet`, `EndSet` | the emulator, perhaps for ever |
| subscribe | `ProcessSubscribe`, `EndSubscribe` or `RefuseSubscribe` | the adapters' mutexes, perhaps for ever |
| unsubscribe | `ProcessUnsubscribe`, `EndUnsubscribe` | the same |
| unsubscribeAll | `ProcessUnsubscribeAll`, `CancelNext` for each id, `EndUnsubscribeAll` | the same, for each id |
| the end of a connection | `ClientDisconnected`, `CancelNext` for each id, `EndDisconnected` | the same, for each id |
| Close | `LockToClose`, `CloseWsServer`, `EndClose` | Shutdown of the web socket server |

`stuck` says that what the request waits for will not come by itself: the emulator is
silent, or the provider's call is in a lock cycle (finding 1); the first step or
`CancelNext` decides it. A *set* cannot be in such a cycle: `GetData` and `SetData` of the provider
do not take the provider's mutex, and while a set has the server's mutex no Subscribe or
Unsubscribe has it either, so the handlers go on and adapters' mutexes become free.

`SendFails` is the error path of `SendMessage`, for notifications (`Forward`) and
responses (`SendReply`, `ReplyFails`). The response to a Subscribe is sent after the mutex was
released and the forwarding goroutine started, so it is a step of its own: `reply` is the
id it has to tell. `answered` (the ids whose response was sent, or could not be) and
`privateIds` (live ids of private signals) are history variables. When it returns, the data
provider is taken at its promise: an id is new and one to private signals takes
permissions, `Unsubscribe` of a dead id is an error without effect, a live id may be
notified at any time but in a lock cycle.

`Sessions` has no sockets, mutexes, goroutines or sets of ids: who is connected, who has
permissions, whose each live subscription is, which are private, and what a client is
about to end. `Service` in `VisServer` is the refinement mapping: the owner of an id is the client
that it was made for, as long as it is live; a client is `ending` its subscriptions, or its
session, while it has the mutex for `unsubscribeAll`.

### SubjectsAdapter and Process

`SetData` of the subjects adapter is cut at the points where the process can crash:
memory, message, `os.Create`, `Flush`. A subject may hold line breaks (`LinesOf`), which the
file does not preserve, or be longer than a line that `bufio.Scanner` takes (`TooLong`):
`Stored` is what `readSubjects` gets back.

`Process` is `main`. `Start` runs the `New` of each adapter in the order of the
configuration, and a failure ends the process (`OpenFails`, `WriteValueFails`,
`MkdirFails`). The `New` of a file adapter is `ReadFile`, or `ReadFails` and then `OpenFile`,
which empties the file, and `WriteValue`. `End` is a crash at any point, and the return
of `main` after `Close`; a set request that waited for the mutex may still be running then
(`waiting`). `acked`, `misread` and `cut` are history variables; `subjectsadapter`'s `told` too.

Definitions whose comment calls them a *slip* are not part of a specification. Each is
a plausible mistake in the definition that follows it: with the slip in its place, one
of the properties below is violated.

## 3. Runs

Times are for two workers.

| Run | Instance | Shows |
|---|---|---|
| `provider_safety` | one adapter, two signals, a request goroutine and a ticker, two masks, a client that may read only one signal, batches that may be refused; channels of 1, two versions, two ids; 440 000 states | `RegistryInv` and its parts `DanglingOnlyNext`, `SubscriptionComplete`; `OrderInv` and `OrderPreserved`; `OnlyLockCyclesStop` |
| `provider_promise` | two adapters, permissions that never split a mask, no refused batches; 230 000 states | `PromiseInv` and its parts `NoPanic`, `OnlyRequestedPaths`, `ExactLists`; `CatchingUp` and `CaughtUp`; the refinement `ImplementsRegistry` |
| `provider_liveness` | only requests write; refused batches and refused subscriptions; 41 000 states | `ChangesDispatched`, `CallsReturn` |
| `provider_lock_cycle` | adds a ticker | `ChangesDispatched` is violated (finding 1) |
| `provider_leak_panic` | permissions that split a mask | `NoPanic` is violated (finding 2) |
| `requests` | a storing, a posting, a Renesas and a VIN adapter with seven signals; six masks, three clients, five forms of data with ambiguous suffixes, null and an array; two trees of the emulator, one of them refused, two messages of the simulator; names that are converted twice, leaves with one name; 295 000 states | `RequestsInv` and its parts `OnlyGranted`, `AcceptedIsComplete`, `NothingLost`, `ReadAtOneMoment`; `SourcesCount` |
| `filter` | all masks of up to 4 elements, all paths of up to 5, two names; 29 000 states | `FilterInv` and what follows from it, `Sound`, `CompleteForSimpleMasks`; `Returns` |
| `filter_backtrack` | the same | `Complete` is violated (finding 3) |
| `server_clients` | two connections, two subscriptions, Close; 1 410 000 states up to symmetry | `ServerInv` and what follows from it, `NoOrphans`, `LiveIsForwarded`, `KnowsItsIds`; `AllClosed`; the refinement `ImplementsSessions` |
| `server_liveness` | two connections, one subscription, no Close; 64 000 states | `ConnectionsEnd`, `ForwardersEnd` |
| `server_close_hangs` | two connections, Close | `CloseReturns` is violated (finding 4) |
| `process` | VIN, subjects and unit model adapter; two VINs, two unit models; six lists of up to two strings, one string of two lines, one too long, one element of another type; 380 000 states | `FilesInv` and what follows from it, `ServedInWhole`, `ValuesPermanent`; `AckedSurvives`, `AckedIsRead`, `ToldOfChanges` |

### Bounds

* Channels have room for one message instead of 32 (2 for subjects). What matters is
  empty, in between and full; the handler's hand and a blocked sender add two more
  places, so three changes of a signal can be under way at once, more than the two
  versions that `MaxVersion` allows.
* Two signals are the least with a wildcard mask that is visited in two orders and
  refused in the middle; two ids the least for one subscription that ends beside
  another and for an id that is left behind and given out again.
* Two connections are the least with one that disturbs the other.
* In `process`, three adapters are the least with one that fails after another has made
  up its value and one between them whose file is of another kind.
* In `requests`, the storing and the posting adapter have signals that can be written and others,
  one mask crosses all adapters, and one suffix fits signals of two; a request may be
  accepted, refused at once, or refused by the first, second or third adapter.
* Masks of 4 and paths of 5 elements hold two stars with names between and after
  them, and a path longer than the mask; the backtracking case needs a mask of 3
  and a path of 5.
* Deadlock checking is off where the system may stop: no request, or all bounds used
  up. That nobody waits for ever is what the liveness properties say.
* `provider_safety` and `server_clients` check safety only; connections are symmetric.

### Fairness

* A goroutine that can go on does: weak fairness of the channel receive, the send, the
  end of a call, the phases of a connection.
* A goroutine that waits for a `sync.Mutex` gets it if it is unlocked again and
  again: after 1 ms a waiter is in starvation mode and is served first. Hence strong
  fairness of the steps that take a mutex others may hold and release repeatedly. It
  assumes nothing of who has the mutex: in `VisServer`, `ClientConnected` and
  `ClientDisconnected` are such steps, and what comes after them has fairness of its own.
* The permission service answers or its request times out after 30 s: weak fairness
  of `EndAuth`, with either result.
* A call of the provider that is not in a lock cycle returns: weak fairness of
  `ProviderReturns`, which takes `~ stuck`. `DataProvider` justifies it: nothing but a lock cycle stops a
  call (`OnlyLockCyclesStop`), and no loop of one goes on for ever (`CallsAreBounded`).
* An emulator that answers does so: weak fairness of `EndSet` while not `stuck`. None for a
  silent one, as `http.Post` has no timeout; it may still return, if the connection breaks.
* So there are two exceptions: a silent emulator, and a Subscribe, an Unsubscribe or a
  clean-up in a lock cycle. In both somebody has the server's mutex for ever, and
  `ConnectionsEnd` says `or []stuck`; without these words TLC refutes it. Nothing is claimed
  of requests that wait for a mutex that is kept so.
* No fairness of clients (requests, connections, losses), of adapters (writes), or of
  `Deliver`: nothing that is checked depends on them.

## 4. Proofs

The theorems hold for every value of the constants that satisfies the assumptions of
the module they are about (`BaseAdapterAssumption`, `DataProviderAssumption`,
`WsServerAssumption`, `VisServerAssumption`, `RequestsAssumption`, `PathFilterAssumption`,
`ProcessAssumption`, ...): any number of adapters, paths, masks, callers, kinds of permissions, connections, ids and values, any capacities.
What else one assumes it says.

**`RegistryInvariant`**: `Spec => []RegistryInv`. None of its interesting parts is
inductive alone. `SubscriptionComplete` is about live ids, and a Subscribe makes an id
live in its last step: `CallConsistent` says what its earlier steps have done, namely
that its id is in every list visited and that the adapters report those sensors or
are about to be told. A refused Subscribe leaves the id in lists, so
`DanglingOnlyNext` bounds what may be there: live ids and the next one.
`FreshIds` makes the next id different from all the live ones. That an Unsubscribe does
not take reports from those who stay follows from its part of `CallConsistent`: it
tells adapters only of sensors with an empty list. The proof goes by the types first
(`NextTypeOK`, which needs `CallConsistent` for the range of the id in a match loop),
then by the rest (`NextRegistered`), one step for each action; the actions that do not
touch the registry share `RegisteredFrame`. Corollaries: `TypeCorrect`,
`LiveSubscriptionsAreComplete`, `OnlyTheNextIdDangles`, `ReportsHaveListeners`.

**`OnlyLockCycles`**: `Spec => []OnlyLockCyclesStop`: nothing but the cycle of finding 1 stops
a Subscribe, an Unsubscribe or a writer. `LocksInv` (`LocksInvariant`) has what this takes: an
adapter's mutex is kept by one writer, the one with changes for its channel, and that
one runs no call. So a call that cannot go on waits for a writer, this one for room in
the channel, and the handler that would make room for the call. Who can go on is written out as a
state predicate (`CallGoesOn`, `WriterGoesOn`): ENABLED is out of the provers' reach.
`LockCyclesStay`: nobody leaves a cycle, whatever the others do. `NoLockCycle`: one goroutine makes
none, which is why the program without producers (`provider_liveness`) is safe from it.
`CallsAreBounded`: a step of a call lowers `CallLeft`, however many writers and handlers run in
between (the sensors to visit count twice, as each may leave one to tell the adapter of). The
three together are the safety half of `CallsReturn`; what remains is fairness.

**`PromiseInvariant`**: `AllOrNothing /\ Spec => []PromiseInv`, with corollaries
`ProcessSurvives`, `NoForeignSignals` and `ListsAreExact`. The code does not have these
properties in general (finding 2), so they are proved under the assumption that
permissions never split a mask: a client may read everything a request matches, or
nothing. Then a Subscribe that is refused is refused at the first sensor it visits,
before its id is in any list; this is the conjunct on `call` in `PromiseInv`, and it
makes `ExactLists` inductive. The handler runs between calls, when lists hold
live ids only (`UnlockedLists`), so it neither panics nor tells anyone of
something else.

**`OrderInvariant`**: `Spec => []OrderInv`. Between the table of an adapter and a subscriber
a signal has versions in four places: with a writer that waits to send, in the channel, in
the hand of the handler, and sent. `OrderInv` orders them. It holds because a writer keeps the
adapter's mutex until it has sent (`SendingOrdered`): at most one waits, and what it has is
the newest. `ChangesArriveInOrder` is a corollary.

**`CatchingUpInvariant`**: `~ MayRefuse => (Spec => []CatchingUp)`, under `ASSUME`. A stale
version may be on its way to a new subscriber, sent before the adapter was told; so
`CaughtUp`, which says nothing while something is in flight, is not inductive.
`CatchingUp` adds that then the present version is in flight too, or it is the one that the
subscription began with. It uses `SubscriptionComplete`: whatever a subscriber asked for is
reported. A batch refused half way breaks it (section 5), hence the assumption.
Corollary: `SubscribersCatchUp`.

**`ProviderImplementsRegistry`**: under `AllOrNothing`, every step maps to a step of
`SubscriptionRegistry` or to a stutter: `Register`, `Unsubscribe`, the writes and
`Dispatch` to `Register`, `Cancel`, `Change` and `Notify`. That `Dispatch` is a `Notify` takes
`PromiseInv` (whom it tells) and `OrderInv` (that it is news).

**`ServerInvariant`**: `Spec => []ServerInv`, for `VisServer` on `WsServer`. `NoOrphans` is not
inductive: any client may unsubscribe any id, which stays in the set of the one that made
it. `SubscriptionsOwned` says that sets hold ids that their own client was given, dead or
not, and live ids are in the set of their client. It holds between the steps of
`unsubscribeAll` too, as `CancelNext` takes an id from both or from the set alone. `LockInv` is who
keeps the mutex across steps, and that this client runs no other request and
has no response to send. A goroutine ends with its subscription or after a close
frame, and a connection with a close frame is never open (`ConnsConsistent`), whence
`LiveSubscriptionsAreForwarded`. `GoroutinesConsistent` also says that the id of every
subscription was answered or is the `reply` of the read loop, since the loop reads no
further request before the response is sent: `ClientsKnowTheirIds`. The proof has a lemma for
each action that touches subscriptions; all steps of connections share
`WsStep`, those of the lock `NoStep`.

**`ServerImplementsSessions`**: every step maps to a step of `Sessions` or to a stutter. A
request that takes the mutex is a stutter, or `BeginEnding`, and its effect is where it
returns: `EndSubscribe` is a `Subscribe`, to private signals only with permissions at that time,
`CancelNext` an `EndOwn`, or a stutter if the id was dead. `EndAuth` is an `Authorize` though the
client may have gone while the service was asked: it is still known (`KnownClientsAreServed`), as its
`ClientDisconnected` waits for the mutex (`LockInv`). `KeepOn` and `Disconnect` ask that nothing
live is left to the client: the set is empty then, and `SubscriptionsOwned` says that it had
all of them.

**`CloseCyclesStay`**: the wait of finding 4 never ends: Main has the mutex of the VIS server
(`LockInvariant`), so no client is served either.

**`ServedIsEntered`**: `CloseInv` is invariant *if every connection has an address of its own*
(`OwnAddresses`), with `CloseClosesAll` as its corollary: Close closes what is entered in
the map, and what is served is entered; without the assumption it is not (section 5).
That no connection is half way when Shutdown returns makes the rest stable. (TLC confirms
`CloseInv` on the instance of `server_clients`; the run checks `AllClosed`.)

**`FilesInvariant`**: `Spec => []FilesInv`, for the adapters of one value in `Process`.
`ValuesPermanent` is about what is served, which a crash forgets, so `FilesHoldServed` ties it
to the file: it holds what is served unless it was misread, and a value that is to
replace a served one is made up only after that. `PartsAreCut` follows a
part of a value from the write that the end of a process cut to the start that serves it.
Corollaries: `NothingServedInPart`, `ValuesArePermanent`, `FilesTyped`.

**`SubjectsInvariant`**: `Spec => []SubjectsInv`, for the subjects adapter in `Process`: nobody is
subscribed before the process is up, the subscribers know the list except between the
memory and the channel, and the file has the lines of the acknowledged list, which stops to
count where the file is emptied. Corollaries: `SubscribersKnowTheList`
(`ToldOfChanges`) and `AcknowledgedIsInFile`, which is about lines.

**`AcknowledgedListIsRead`** (`AckedIsRead`) is about what the next start makes of these lines,
for any strings. `SubjectsInv` has the file, and `ListIsRead`, which a start keeps until it
listens, that what it read is what the scanner gives (`Stored`): the lines in order up to the
first that is too long (`StoredIsPrefix`, by the least such line), whose error nobody asks for.
**`AcknowledgedSurvives`** (`AckedSurvives`): if every string is one line that the scanner
takes, the lines are the list (`LinesAreTheList`), so that it is what clients get when the server
listens. What the lines of a list are takes induction over it. The library's induction
theorems cannot be used here (they take an operator), but induction over sets can: `EveryNatural`
in `ListLemmas` says that a *set* with 0 and all its successors has every natural number, which
follows from `WFMin`; so do `IterationExists` (a function defined by recursion exists) and
what `FlattenSeq` gives for lists of any length. **`TypeCorrect`** (`TypeOK`) takes the same lemmas.

**`RequestsInvariant`**: `Spec => []RequestsInv`. `OnlyGranted` speaks of the past (`held`) and the
permissions of all that was asked, so `SetConsistent` keeps, until the last adapter
is called, what `SetData` checked before the first: the batch has all that was asked for,
its client may write it, it has no null. Its last line, that adapters already called still hold
their part, stands between `AcceptedIsComplete` and the sources: what a storing
adapter holds no source writes, and of a posting one a batch has attributes only.
`GetConsistent` says that what a get has read of an adapter is from one of its moments, and that of
one still to ask the present is a moment. `KnownIsRead` is that the three forms of
`convertData` say the same. Corollaries: `OnlyWhatIsGranted`, `AcceptedSetsAreComplete`,
`ResponsesLoseNothing`, `AdaptersAnswerForOneMoment`. **`WhatSourcesSendCounts`** (`SourcesCount`)
has its own invariant `SourcesInv`: a tree that was taken over in whole has only names of its
adapter, which no request writes (`RequestsKeepSources`).

**`ConvertedOnce`**, **`SwappedNames`**, **`ConfiguredNamesCount`** are about the path converter, which
`parseNode` applies to a leaf once where it finds it and once at each level on the way back,
depth + 1 times for any depth. If what a name is
converted to is not converted further (`Settled`, true of `aos_vis.cfg`), once or often is the same,
and `SourcesCount` is about the configured names. A converter that exchanges two names gives a
leaf the other one only if its depth is even, that is after an odd number of applications.

**`FilterInvariant`**: `Spec => []FilterInv`, for masks and paths of any length. `SoundSoFar` has the
places of the elements that the loop has left behind; at the end they are those of
`Matches`. `CompleteSoFar` says that places for the rest are still ahead, if there were any at the
start: a star ends at the first element that fits, and then the places of the next one,
and of a star behind it, can be brought forward (`BroughtForward`), but not those of
a name behind it. Here, and only here, it takes `NameEndsAtStar`: this is finding 3.
Corollaries: `MatchIsSound`, `MatchIsCompleteForSimpleMasks`. **`EveryRoundCounts`**: each round
leaves less to do, so `Returns` needs only that the loop goes on.

Model-checked only: the temporal properties that take fairness (`ChangesDispatched`, `CallsReturn`,
`Returns`, `ConnectionsEnd`, `ForwardersEnd`), which are out of the provers' reach;
the theorems above state their safety halves where they have one. Every other property of
a passing run is a theorem's. Inductive invariants that no run lists (`LocksInv`, `KnownAreServed`,
`CloseInv`, `SourcesInv`, `SubjectsInv`, `ListIsRead`) and the action properties `LockCycleStays`,
`CloseCycleStays`, `CallsShrink` and `RoundsCount` were checked with TLC on the instances of
the runs before they were proved.

## 5. Findings

1. `dataprovider/baseadapter.go:139`: the send on a full channel, the handler and
   Subscribe or Unsubscribe wait for each other for ever. It takes a producer
   (`NoLockCycle`), lasts (`LockCyclesStay`), and is the only way to stop (`OnlyLockCycles`).
   The call that is in it has the VIS server's mutex, so that every client waits.
2. `dataprovider/dataprovider.go:296`: a Subscribe that is refused in the match loop
   leaves its id in lists; the handler dereferences a missing entry, or the next
   subscription inherits the id and is told of signals it did not ask for.
3. `dataprovider/filter.go:49`: a star is ended at the first element that fits and never
   reconsidered, so some paths a mask stands for are not matched: `Door.*.Left.Locked` does not
   match `Door.X.Left.Mirror.Left.Locked`.
4. `wsserver.go:131`: Close waits in Shutdown, with the mutex, for a connection that waits
   for the mutex, and for good (`CloseCyclesStay`).

Also seen while modelling, without a run: a batch refused half way
(`dataprovider/baseadapter.go:127`) keeps what it wrote and drops the changes it should
report, and repeating the write is no change; `CaughtUp` is violated if `MayRefuse` is
TRUE in `MCDataProviderPromise.cfg`. A set request that fails may have changed some of
its signals; `OnlyGranted` says which ones at most. The posts to the emulator have no
timeout, though the comment at `telemetryemulatoradapter.go:171` relies on one: a silent emulator
stops all clients, also the cleaning up of connections that are over. Connections are entered by remote address
(`wsserver.go:204`, `:213`), so that a broken connection can remove the entry of a newer
one from the same address, which Close then leaves open; `AllClosed` is checked with an
address for each connection. A refused list of subjects replaces the list in memory by
what came before the wrong element, and nobody is told; `ToldOfChanges` excepts it. Any error
of reading, not only a missing file, makes the VIN and unit model adapters write another
value over the one in the file (`vinadapter.go:72`, `unitmodeladapter.go:69`), and a process
that dies while writing leaves a part of it that the next start serves; `ValuesPermanent`
and `ServedInWhole` except just these. `readSubjects` ends at a line of 64 KB without an
error (`subjectsadapter.go:215`). An empty list is served as `[]` until a restart and as `null`
after one (`subjectsadapter.go:213`); the models do not tell them apart. The path converter is applied once for each level of the
tree and once for the leaf (`telemetryemulatoradapter.go:233`): a converter that exchanges two names does nothing
to leaves at an even number of applications (`SwappedNames`). `SetData` of the VIN adapter compares
values instead of paths with its path (`vinadapter.go:134`); both ways are errors.

## 6. What is not modelled

* What a notification says, in `VisServer` (it is `DataProvider`'s subject); responses other
  than that to a Subscribe, which tell a client of nothing that other steps use.
* A GET of the ticker that never returns: like the post it has no timeout, but it holds
  no mutex; the signals then keep their values.
* `New` of the telemetry, Renesas and storage adapters beyond the signals they begin with;
  a web socket server that cannot listen, which is only logged (`wsserver.go:94`), so that
  the process stays up without clients.
* `UnsubscribeAll` of adapters, which only tests call; `Close` of adapters, which does nothing
  but stop the Renesas listener; configuration, logging, TLS, HTTP, gRPC: I/O.
* A configured path without a dot, which `getParentPath` (`dataprovider.go:492`) cannot cut.
* Values that two writes of equal content leave unchanged, timestamps, error texts.

## 7. Plan

Done: all modules of section 2; the inductive invariants of `DataProvider` (four), `VisServer`,
`WsServer`, `Requests`, `PathFilter`, and of the file and subjects adapters of `Process`; the
refinements of `SubscriptionRegistry` and `Sessions`; that calls and loops are bounded and what
stops a call.

Next modules: the notifications of `VisServer` with what they say, so that `DataProvider` and
`VisServer` compose; the life of the permissions, with what a lost one leaves running.

Next theorem: that the registry and the sessions together give what a client sees through
`VisServer`, once the two compose: its notifications, in order, until its session ends.
