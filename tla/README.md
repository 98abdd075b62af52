# OpenOpcUa core server: a TLA+ model of its subscriptions and sessions

OpenOpcUa 1.0.4.4 is an OPC UA server toolkit in C++ on top of the OPC
Foundation's C stack. This directory holds TLA+ modules that model the part of
it with the hardest logic (`OpenOpcUaCoreServer`): the delivery of data changes to
clients, the sessions it runs in with their request queues, threads and locks,
and the threads that tie a device to the address space. TLC configurations
model-check them on small instances, and theorems about them are proved with
TLAPS. `PROJECT.json` maps every definition
to the lines it models and lists the hazards, the runs and the findings. All
source paths below are relative to `src/OpenOpcUaCoreServer/source/`.

Run a configuration with `tlc -config X.cfg M` (the module `M` of each run is in
`PROJECT.json`), a proof with `tlapm X.tla` for `X` one of `SubscriptionProofs`,
`DeliveryProofs`, which builds on it, `PublishQueueProofs`, `AsyncRequestsProofs`,
`SessionTableProofs`, `ServerLocksProofs`, `VPISchedulerProofs` and
`OrderedSetProofs`, on whose lemmas three of the others rest.

## Inventory

| Component | State | Operations | Interaction | Hard parts |
| --- | --- | --- | --- | --- |
| Retransmission record (`UADataChangeNotification.cpp`) | list of notifications with their sent flags, a count per client handle, the acknowledged flag | add, remove sent, remove an item's, mark sent | owned by a subscription, filled by its update thread, read by the notification thread | queue overflow, partial sending, the overflow bits |
| Subscription (`SubscriptionServer.cpp`, `QueuedPublishRequest.cpp`) | item list, map of sequence number to record, sequence counter, keep-alive and cold flags, event and status lists | pass of the update thread, fill a response, acknowledge, Republish, publishing mode, item services | reads nodes of the address space; answered through the session's publish queue | three kinds of threads on one map, numbering, retransmission, loss |
| Publish queue of a session (`SessionServer.cpp`) | publish requests, list of subscriptions, status codes of expired ones | Publish, Create/Modify/DeleteSubscription, the rounds of `NotificationDataThread`, expiry | service thread, notification thread, lifetime thread; contexts of the stack | pointers kept over an unlock, timeouts, last subscription removed |
| Service callbacks (`StackCallbacks.cpp`) | none of their own | one per service of the OPC UA stack | find session and subscription, call the above | error answers, double release of a context |
| Sessions and channels (`ServerApplication.cpp`, `SecureChannel.cpp`) | list of sessions, list of channels; per session its channel, active flag, timeout flag, semaphore | Create/Activate/CloseSession, the lookup of every service, channel events, timeouts, the sweep | called by the stack and by every service; deletes what the other components belong to | use of a session after unlocking the list, channels deleted under a session, orphans |
| Monitored items, triggering (`MonitoredItemServer.cpp`) | mode, cached value, filter, triggering links | item services | compared by the update thread | filters, index ranges |
| Queued requests (`QueuedReadRequest.cpp`, ..., `SessionServer.cpp`) | five request lists of a session, each with a mutex | Read, HistoryRead, Call, QueryFirst, QueryNext; the rounds of `AsyncRequestThread`; the destructor of the session | service thread, `AsyncRequestThread`, whoever deletes the session | responses that fail, stopping the thread |
| Locks (`SessionServer.cpp`, `SubscriptionServer.cpp`, `ServerApplication.cpp`) | about ten mutexes of a session, its subscriptions and the server | every service and thread | all of the above | order of locks, lists walked without their mutex |
| Events and alarms (`EventsEngine.cpp`, ...) | alarm states, event lists | evaluate, acknowledge, confirm | share the sequence numbers of data changes | ordering with data changes |
| Continuation points (`ContinuationPoint.cpp`) | points per session | Browse, BrowseNext | session | limits, release |
| VPI scheduler and drivers (`VPIScheduler.cpp`, ...) | per device its tags, its status and the queue of writes | rounds of the reader and the writer thread, `AddWriteObject`, `VpiNotifyCallback` | feed the address space, take the writes of clients | calls that take time, values read before and cached after others, starts that fail |
| Address space (`UAInformationModel.cpp`, `UA*.cpp`) | nodes | lookup, read, write | everything | large, mostly sequential |
| Historian, simulation, Lua | files, groups, scripts | periodic | feed the address space | external libraries |
| Start, stop, configuration (`Main.cpp`, `ServiceModule.cpp`) | service state | start, stop | everything | I/O |
| Client SDK, shared library, vendored stack, Lua, expat | | | | not this server |

Threads. `OpenOpcUaSharedLib/source/Application.cpp:181,193` switches the thread
pools of the stack off, so one socket thread per endpoint runs its service calls
one after the other. Per session there are a notification thread, a lifetime
thread, an asynchronous-request thread and a timeout thread; per subscription an
update thread; per device a reader and a writer thread; for the server one thread
that sweeps the sessions. The clients, the devices and time are the environment.

What makes each part correct:

- record: a full queue makes room without losing the newest value; its counts
  agree with its entries; what is marked sent was put in a message;
- subscription: numbers are never reused; every value detected is delivered,
  retransmittable or superseded; messages carry the number that acknowledging
  them retires; values arrive in order; changes reach a client that publishes;
- publish queue: every request gets one fate, in the order of arrival; no thread
  uses a request another one erased; subscriptions are served by priority;
- sessions: no session is used after deletion or deleted twice, none loses its
  channel, none is ended by a channel it left, every silent session ends;
- queued requests: each is answered once, in turn, and none is deleted while the
  thread serves it; deleting a session comes to an end;
- locks: no circle of threads waits for each other, no list is changed under a
  thread that walks it;
- devices: every write reaches the device once and in order, the cache ends up
  with the value of the device.

## Modules

| Module | Models | Role |
| --- | --- | --- |
| `DataChangeNotification` | the retransmission record | operators on a record value |
| `Subscription` | one subscription with its threads and services | state machine, properties |
| `SubscriptionProofs` | | the inductive invariant of `Subscription`; what was received stays, what is queued leaves by a message or a later value |
| `DeliveryProofs` | | the number of a message, the latest value, the bound of the queues, the order of delivery |
| `MCSubscription` | | instances for TLC |
| `OrderedSet` | a vector of distinct pointers | operators, first-order |
| `OrderedSetProofs` | | lemmas about `OrderedSet` |
| `PublishService` | what the Publish service promises | abstract specification |
| `PublishQueue` | the publish queue of a session with its three threads | state machine, implements `PublishService` |
| `PublishQueueProofs` | | the inductive invariant of `PublishQueue`, the refinement |
| `MCPublishQueue` | | instances for TLC |
| `AsyncRequests` | the five request queues of a session, their thread, the destructor | state machine, properties |
| `AsyncRequestsProofs` | | the inductive invariant of `AsyncRequests`, an action property |
| `MCAsyncRequests` | | instances for TLC |
| `ServerLocks` | the mutexes of a session, its subscription and the server, for every operation at once | state machine, properties |
| `ServerLocksProofs` | | accesses under their mutexes, the order of the mutexes |
| `SessionTable` | the lists of sessions and of secure channels | state machine, properties |
| `SessionTableProofs` | | the inductive invariant of `SessionTable`, an action property |
| `MCSessionTable` | | instances for TLC |
| `VPIScheduler` | one device with its reader and writer threads | state machine, properties |
| `VPISchedulerProofs` | | the inductive invariant of `VPIScheduler` |
| `MCVPIScheduler` | | instances for TLC |

### DataChangeNotification

A record is `[acked, items, next, count]`; the vector of notifications is the set
`items` of entries with their positions, so that no operator is recursive.
`AddMonitoredItemNotification` has the four outcomes of the C++ method: the same
report is already queued (`IsAlreadyInTheTransmissionList`, under the mask 2943,
constant `Masked`), there is room, the oldest entry is discarded, the newest is
overwritten. `Flagged` is the sample as the method leaves it in its argument,
with the overflow bits toggled; the caller goes on using it. `RemoveSent` is what
an acknowledgement does, `Acknowledge` the part of `AckDataChangeNotification`
that touches the record.

### Subscription

The map `m_AvailableSequenceNumbers` is `avail`, the counter
`m_uiCurrentSequenceNumber` is `currentSeq`. A pass of
`UpdateDataSubscriptionThread` is one step per item (`CompareItem`,
`SampleItem`, `SkipItem`) between `PassBegin` and `PassEnd`; it keeps the record
it fills, a fresh one or a recycled one that is still in the map. Answering is
`ProcessQueuedPublishRequest` (fill and number the response), `EndSendResponse`
or its failure, and `RemoveAckedDataChangeNotification`. The services are atomic:
the code holds `m_hSubscriptionListMutex` and the mutexes of the subscription
while they change its state, which shows as the guards `resp.phase = "none"` and
`~pass.running`. `client`, `published`, `toAck` and `offered` are what the client
has seen; they appear in the guards of its own calls and in properties.

Abstractions: a value and its status are one element of `Value`; time is the
order of writes (`clock`), intervals may elapse at any moment; the node of an
item changes by `Write`.

### PublishQueue

The queue `m_PublishRequests` and the list `m_SubscriptionList` are ordered
sets. The notification thread cleans up timed-out requests, takes the mutex of
the subscription list for a round, and for each subscription in turn gets the
first usable request (`GetFirstPublishRequest`, `notif.held`) and answers it
(four outcomes). `m_hPublishMutex` is released between the two, so the service
thread may run `RemoveAllPublishRequestDeleted` in between. `ExpireSubscription`
is the lifetime thread. `releases` counts the calls that free the context of a
request in the stack, `fate` is what the client sees of it.

`PublishService` says what this amounts to: a first-in first-out line of
requests, each with one fate, and only a request whose timeout elapsed leaves
without an answer. The mapping is in `PublishQueue`: the line is the queue
without the requests marked for deletion.

### SessionTable

`sessions` is `m_sessions`, `channels` is `m_pSecureChannels`, `chan` the pointer
a session keeps to its channel. The events of a channel and the services are
begun by the stack, which calls one service at a time per endpoint; every channel
is given an endpoint of its own, which allows the most interleavings; its events
come when no service of that channel is in progress. What a
handler does in one critical section is one action; a handler that lets go of
`m_hSessionsMutex` in between (find, then use or remove) is two, with `call`
holding what it found. `m_hMutex` is held from the first to the last of them by
`CreateSession`, `ActivateSession`, `CloseSession` and the events
(`MutexFree`), and not by the other services (`FindForService`, `RunService`).

The session's own threads are `AsyncRequestThread` (it ends a session that is
asked to read, read history or call while inactive) and `SessionTimeoutThread`
(every post of `m_SessionTimeoutSem` starts its wait again). The server's thread
deletes the ended sessions and then replaces the list (`SweepBegin`,
`SweepEnd`), under `m_hSessionsMutex` from end to end. `deletes` counts the runs
of a session's destructor. `UnlockedSizes` is what `CreateSession` may see of the
size of the vector, which it reads without that mutex.

Two kinds of undefined behaviour bound the model: a step that reads through the
null channel of a session is not enabled, because the process ends there; a call
that holds a deleted session changes nothing but its own end, and the run
`SessionTable_deleted` shows that there is such a call.

`link` is what the stack knows of a channel: new, open, lost with its transport
connection, closed. A client may resume a lost channel over a new connection
(`SecureChannelRenewed`), which the server only traces.

### AsyncRequests

The five vectors are `queue[k]`, one kind each. A callback sweeps what is marked
(`BeginRequest`) and queues its request under the mutex again (`QueueMessage`). A
round of `AsyncRequestThread` takes the five mutexes in turn: `LockQueue`
computes what it will serve (`Unserved`: all unmarked reads, of every other kind
the first), `Process` serves one request, with its failures, `UnlockQueue` goes
on. `stripped` are the requests whose own message `EncodeableObjectDelete`
deleted: serving one again goes through a null pointer, so no step does it, and
the process that would is `Doomed` in the liveness properties.

The destructor empties the vectors, clears the flag of the thread, waits for it
while it holds `m_hReadMutex` (`Join`, or `JoinTimesOut` after 15 seconds), and
deletes vectors and mutexes. `SessionTable` says which call may still hold the
session then.

### ServerLocks

A module about the order of locks. A script is what a thread does from a lock,
with nothing held, to the unlock that leaves nothing held: a sequence of points
with the mutexes held and the lists read or written there, built by `With`
(lock, run, unlock), `Reads` and `Writes` in the nesting of the code. Every
service and every round of a thread is such a script, or several. `Begin`,
`Proceed`, `Release` and `End` run them. `Blocks` is the wait-for relation; the
mutexes are recursive. What the scripts do to the values is in the other modules.

The mutexes that can close no circle are left out: `m_hMutex`, which is taken
first, those under which no other is taken, and that of the events engine, which
a pass holds around the one of the events
(`SubscriptionServer.cpp:1394-1441`) and no thread takes in the opposite order.

`Methods` are the methods clients call, `Diagnostics` is the switch of the server
diagnostics, off by default.

### VPIScheduler

One device with one tag. The reader thread starts the device if it has to
(`BeginRound`, `Started`: whatever `ColdStart` or `WarmStart` answers becomes the
status of the device), calls `ReadValue`, and transfers the result to the
cache later (`TransferRead`): the call takes time, and no mutex is held that the
other threads take. The writer thread reads the size of the queue
(`CountWrites`), then takes its mutex (`LockWrites`) and calls `WriteValue` under
it; what the VPI took is removed (`RemoveWritten`), otherwise all stays for the
next round. `Server_BeginWrite` queues the value for the device (`AddWriteObject`)
and then writes the cache (`Write`), under the mutex of the cache, which
`VpiNotifyCallback` takes too. Value and quality are put in the cache in one step;
the code sets them one after the other. `sent` and `taken` are the history of the
writes.

## Runs

| Run | Instance | Shows |
| --- | --- | --- |
| `Subscription_reporting` | 2 items, 2 values, queue 2, no limit per message, 1 failed transmission, clock 4, numbers to 6 | numbering, retransmission, no loss |
| `Subscription_modes` | 1 item in all modes, 1 notification per message | the inductive invariant; sampling without a queue limit |
| `Subscription_live` | 1 item, queue 2 that keeps the oldest, 1 notification per message, fair threads | partial sending: numbering and order; queued values are sent, changes reach the client |
| `PublishQueue_safety` | 2 requests, 2 subscriptions, 2 priorities, 1 expiry, 1 failure, fair threads | the inductive invariant, the held request, reachability, single answer, priority, refinement; every request is answered, times out, or met a session without subscription |
| `AsyncRequests_safety` | 3 requests of 3 kinds, 1 failure, the destructor, fair threads | the inductive invariant, no request deleted while served, single answer, order; requests are answered, destruction ends |
| `ServerLocks_safety` | 6 threads, all services, no alarm methods, no diagnostics | no deadlock, no list changed while it is walked |
| `SessionTable_safety` | 2 sessions, 2 channels, limit of 1, 1 resumed channel, fair threads | the inductive invariant, no double deletion, no dangling channel, the cause of every deletion, silent and ended sessions are removed |
| `VPIScheduler_safety` | 2 values, 2 writes, 1 change, 2 failures, fair threads | the inductive invariant, every write taken once and in order; the cache follows the device |

The runs `Subscription_neither`, `SessionTable_deleted`, `ServerLocks_call` and
`VPIScheduler_request` state what a comment of the code says and are refuted by
what the code does; `PROJECT.json` quotes each comment under "findings".
`ServerLocks_call` is `ServerLocks_safety` with the methods of alarms.

Bounds. `MaxClock` bounds writes and item creations: four are enough for a value
that is sent, one that overflows a queue of two, one that is recycled and one
detected after an acknowledgement. `MaxSeq` stops the passes below the number of
records the clock can fill plus one. One queued request at a time is enough in
`Subscription`, whose answers are serial; `PublishQueue` has the queue with two
requests and two subscriptions, so that requests and subscriptions compete both
ways. `MaxFailures` is one failed transmission, enough for it to meet every
other action. The runs with a limit per message have one item, because a second
one multiplies the states and shows no new interleaving of a record. In
`SessionTable` two sessions and two channels let a session move from one channel
to the other while the first is lost, closed or swept; a limit of one makes the
second session an orphan, or lists it through the unlocked reading of the size,
so that both kinds occur; one resumed channel is enough for a session without
channel. In `AsyncRequests` three requests of a kind let one be served, one wait
and one arrive, and three kinds cover what differs between the five (all or one
per round, message deleted or kept); one failure is enough for it to meet the
destructor, the sweep and the next round. `ServerLocks` has no bound: its scripts
are finite and repeated for ever. In `VPIScheduler` two writes are enough for one
to be queued between the count and the call; two failures let a start fail and a
call be repeated, or a request for a start meet a failed call.

Deadlock is checked in every passing run but `AsyncRequests_safety`: there the
server really stops, when a request it stripped is served again and the process
ends, and a session that was deleted does nothing any more.

Fairness. A pass never waits once it has its mutexes and runs every publishing
interval: weak fairness of the update thread. The notification thread and the
services wait for mutexes that are free again and again: strong fairness of
their steps. `ChangeReachesClient` also assumes that the client keeps a request
queued and that no transmission fails (`MaxFailures = 0`). In `PublishQueue`
keep-alives make a subscription due again and again; nothing is assumed of
clients, lifetimes and timeouts. In `SessionTable` only the timeout threads and
the sweep are fair, weakly: they run in loops, and no one else holds
`m_hSessionsMutex` across steps. Nothing is assumed of clients, channels and
services, so sessions end although their channels never do. In `AsyncRequests`
the thread is weakly fair (it sleeps for an interval at most, and the destructor
lets go of the one mutex it waits with), the callback in progress and the
destructor are strongly fair (they wait for mutexes that are free again and
again); no client has to ask and no session to end. In `VPIScheduler` both
threads and the end of a write in progress are weakly fair: timed waits, and
calls into the VPI that return. Nothing is assumed of clients and devices; that
not every call fails is the bound `MaxFailures`.

## Proofs

`SubscriptionProofs` proves `Spec => []IInv` for all values of the constants
(assumptions `TimestampsAssumption`, `ConstantsAssumption`), and with it the type
invariant and `FreshSequenceNumber`, `AckedIsEmpty`, `RecycledRecordIsLive`,
`CountIsBacked`. None of these is inductive alone:

- `AckedIsEmpty` needs the counts: an entry is overwritten only if a full queue
  has one (`CountIsBacked`), and a recycled record is unacknowledged;
- `RecycledRecordIsLive` needs that an answer never runs during a pass and that
  `RemoveAckedDataChangeNotification` keeps unacknowledged records;
- `FreshSequenceNumber` needs that only `PassEnd` adds a number;
- `PassIsClean` and `AnswerHasRequest` connect the phases of the threads: no
  target outside a pass, a filled response has its request.

Lemmas about the record come first (what adding, removing, marking and
acknowledging preserve), then one step lemma per action, then the theorems.

It then proves `Spec => []Retransmittable` for all values of the constants. A
message takes its values from the first records and its number from
the last one, so the proof is about where the unsent values are. Its invariant
`RInv` adds to `IInv`:

- `NewerUnsent`: a record newer than one with unsent values has unsent values. It
  holds because a response takes the queue from its front, because a pass writes
  to the last record or to a new one behind it (`FreshUnsent`), and because a
  record that is written to has unsent values by that;
- `NumberIsUnacked`: the last record, whose number the message takes, then has
  unsent values when anything has, and cannot go before the response is sent,
  since removals keep unacknowledged records;
- `FiniteQueue`: a response takes what has fewer than the limit before it; that
  something is taken at all needs a first entry, found by well-founded induction
  on the number of entries before one.

Last it proves `Spec => UnsentLeavesOnlyByOverflow`, also for all values of the
constants.
`RecordStep` says what any step makes of any record: nothing, one queueing by the
pass, one acknowledgement, or the marks of a filled response; a record goes only
when it is empty. What remains is that a full queue makes room for a *later* value:
`Dated`, that whatever is queued of an item is not newer than its variable, and of
the time of its value only when it is that value. A value of that time would be
found by `IsAlreadyInTheTransmissionList`, so what is queued anew is later.

`DeliveryProofs` has the theorems that need assumptions on the constants. None of
them is there for the proof: TLC finds each property violated without any one of
its assumptions.

| Theorem | Assumes | Otherwise |
| --- | --- | --- |
| `NumberOfMessage` | `"Sampling" \notin Modes` | Sampling items start a new record behind one with unsent values |
| `LatestIsRetained` | `Timestamps`, `MaxNotificationsPerPublish = 0` | a change back to a queued value is not queued; part of a record goes under a number that is acknowledged |
| `QueuesAreBounded` | `MaxNotificationsPerPublish = 0`, `"Sampling" \notin Modes` | the acknowledgement of a record sent in part erases a count of which entries remain; `SampleItem` queues without a limit |
| `ValuesAreDeliveredInOrder` | `"Sampling" \notin Modes` | `SampleItem` queues an old value again, in a record of its own |

- `NumberOfMessage` (`MessageNumberMatches`, with `NInv`) adds `OnlyLastUnsent` and
  `FreshWhenAllSent`: without Sampling items at most the last record has unsent
  values.
- `LatestIsRetained` (`LatestValueRetained`, with `LInv`) is about acknowledgements,
  the only calls that drop a value on purpose: a record the client may acknowledge
  holds nothing the client does not have (`Delivered`), because a message holds
  every value of the record whose number it carries (`OnItsWay`, which needs
  `WholeRecords`: a response takes all of a record or nothing), and because no later
  pass adds to a record the client has heard of (`ToldIsSent`).
- `QueuesAreBounded` (`QueueBound`, with `Bounded`) keeps the entries of an item no
  more than its count and the count no more than its size. `Whole`, that no record
  is ever sent in part, is what an acknowledgement needs: it resets the count of a
  handle, and so must take all of its entries.
- `ValuesAreDeliveredInOrder` (`DeliveredInOrder`, with `OInv`) keeps the entries of
  an item sorted by time along each record (`Sorted`), and nothing that was
  delivered or is in a filled response later than what is still unsent. From one
  record to the next the order comes from `OnlyLastUnsent`, within a record from
  the response taking entries from the front.

`SessionTableProofs` proves `Spec => []IInv` for any sessions, channels and
limits (assumption `ConstantsAssumption`), with it `TypeOK`, `DeletedOnce`,
`ListedIsAlive` and `NoDanglingChannel`, and from it the action property
`OnlyItsChannelEndsIt`. The strengthening says what each half-done call may rely
on:

- `DeletedOnce` needs `ListedIsAlive`: whoever deletes holds
  `m_hSessionsMutex` and takes the session from the list, and the list holds no
  deleted session unless a sweep is on, which keeps everyone else out;
- `NoDanglingChannel` needs `OneHolder`, that `m_hMutex` has one holder, and
  `AddedIsFresh`: a channel is closed only while no session is between its
  construction and its entry in the list;
- `OnlyItsChannelEndsIt` needs `RemovedIsOnChannel`: between the search and the
  removal of a lost connection no activation can move the session away, because
  both hold `m_hMutex`.

Lemmas about the list (`Keep`, `PushBack`) and the destructor come first, then
`QuietStep`, which covers the steps that leave lists and calls under `m_hMutex`
alone, then one lemma per remaining action.

`PublishQueueProofs` proves `Spec => []IInv` of `PublishQueue` for any requests,
subscriptions, priorities and bounds, each part of it as a theorem, and
`Spec => Service!Spec`, the refinement of `PublishService`. The point of the
invariant is what `m_hPublishMutex` does not protect, the pointer the
notification thread keeps while the mutex is free:

- `HeldIsFirst` needs that marks are only ever made by that thread, and that the
  sweep erases marked requests only; the removal of the last subscription, which
  erases all, runs under the mutex of the subscription list, held during a round
  (`HeldWhileServing`);
- `NoLiveResponse` and `QueuedIsWhole` say that a request that could not be sent
  is marked with its response, so that the clean-up and the removal of the last
  subscription meet only requests without;
- `OpenIsReachable` with `OpenIsUnreleased` gives `AnsweredOnce`, and the
  refinement: the abstract line is the queue without the marked requests, an
  answer is the first step that decides a fate, and every other step stutters.

`AsyncRequestsProofs` proves `Spec => []IInv` of `AsyncRequests`, and from it
`AnsweredInOrder`. `OneQueue` and `UnmarkedIsOpen` give `AnsweredOnce`;
`HeldInTurn`, that whatever comes before a request still to be served is marked,
still to be served too, or a stripped read, is what makes the order provable, and
`ServedIsQueued` what makes it hold against the destructor, which waits for the
mutex of every vector before it empties it.

`VPISchedulerProofs` proves `sent = taken \o queue` for any values, mode and
bounds, with `CountIsQueued`: between the unlocked count and the call the queue
only grows, so what is removed after the call is exactly what was handed to it.

`OrderedSetProofs` has what `PushBack`, `Keep`, `First` and their like keep and
return.

`ServerLocksProofs` proves both properties of `ServerLocks`. They are properties of
the scripts, which are put together by `With` (lock, run, unlock) and `\o`; listing
the points of every script would be long and say little. So the proofs are
compositional: `Keeps(G, s)` and `Follows(G, s)` say that a script `s` is in order
inside the mutexes `G` that its caller holds, two lemmas say what `With` and `\o`
make of them, and each operation of the server then takes a few lines. The state
keeps `Excluded`, that no mutex has two holders (`Moves`).

- `ListsAreNotChangedWhileWalked` (`NoRace`, with `LInv`): every access stands under
  the mutex of its list, given by `Guard`. It assumes `Methods \subseteq {"Lua"}`,
  since the methods of alarms walk lists without their mutexes (run
  `ServerLocks_call` and the divergences below). It holds with the diagnostics on
  as well, which no run checks.
- `ThreadsDoNotWaitInACircle` (`NoDeadlock`, with `CInv`): the mutexes have ranks and
  are taken upwards, but for `status`, `events`, `changes` and `numbers` (`Chain`),
  which the filling of a response takes in another order than an acknowledgement
  does. Two facts make up for it: these four are only taken inside the mutex of
  the list or of the items (`Nested`), and only who holds both takes them out of
  order (`Ordered`). A thread of the circle that holds both therefore waits for
  nobody in it; if there is none, the one with the mutex of the greatest rank
  waits for nobody. It assumes `~Diagnostics` and `"Acknowledge" \notin Methods`;
  without either TLC finds a circle.

Only model-checked are the liveness properties, under fairness, and the four
properties that a run finds violated. No invariant and no action property of a
passing run is left without a theorem.

## Divergences without a run

Met while modelling, where the code does not do what a comment says or what its
own bookkeeping intends, and no run checks it:

- the overflow bits `AddMonitoredItemNotification` toggles in its argument
  (`UADataChangeNotification.cpp:166`) become part of the item's cached value: the
  next pass sees a difference and reports the value a second time, although 483
  and 495 of `SubscriptionServer.cpp` compare "afin de ne pas notifier deux fois"
  (in order not to notify twice);
- a context is released twice when `EndSendResponse` fails inside
  `NotifyWhenNoSubscription` (`StackCallbacks.cpp:1230` calls it again) or leaves a
  response to `CleanupTimeoutedPublishRequest` (`SessionServer.cpp:5290`):
  `opcua_endpoint.c:1257` says that the call frees the context;
- a publish request is queued in a session whose last subscription expired after
  the size of the list was read without its mutex (`SessionServer.cpp:1886`); it
  waits there until its timeout, although 1821 names the case of a publish "alors
  qu'aucune souscription n'existe" (while no subscription exists) as answered;
- `StopAsyncRequestThread` (`SessionServer.cpp:1769-1786`) waits for the thread
  under `m_hReadMutex`, for which the thread may be waiting: after 15 seconds the
  vectors and mutexes are deleted under a thread that lives on, although the
  comment at 532 says "on en aura plus besoin" (they will not be needed any more);
- a request whose session is not found is not answered: the callbacks of the
  queued requests return an error without `EndSendResponse`, against
  `opcua_endpoint.c:1257` (`UnknownSession` in `AsyncRequests`);
- a read or history read whose response cannot be begun stays in its queue without
  its message, and the next round goes through a null pointer
  (`SessionServer.cpp:2423`, `QueuedReadRequest.cpp:144`);
- with the server diagnostics on, the destructor of a subscription, under the
  mutex of the subscription list, takes that of the cache
  (`UAInformationModel.cpp:3606-3635`, `9678-9812`), while the write that switches
  the diagnostics holds the mutex of the cache and takes the others
  (`StackCallbacks.cpp:1501-1594`, `ServerApplication.cpp:4645-4657`): TLC finds the
  deadlock in `ServerLocks` with `Diagnostics = TRUE`;
- the comment of `FindSubscription` (`SessionServer.cpp:1223-1225`) says "the mutex
  m_hSubscriptionListMutex is supposed to be locked by the caller";
  `GetMonitoredItems`, `Acknowledge`, `Confirm` and `AddComment`
  (`SessionServer.cpp:4592-4780`, `6055-6105`) walk the list without it, and
  `AckPublishRequest` copies the map of records without its mutex (`1966`) while
  the update thread may insert (`SubscriptionServer.cpp:3721-3737`);
- the threads of a device are stopped through the semaphore the stopping thread
  posts and then waits for (`VPIScheduler.cpp:466-467`, `505-506`), and which
  `AddWriteObject` posts too: the wait may take the thread's own wake-up, and the
  device is deleted under a running thread, reported as "stopped properly". The
  engines of events, history and simulation stop in the same way
  (`EventsEngine.cpp:117`, `HaEngine.cpp:159`, `SimulatedGroup.cpp:267`);
- `VPIScheduler.cpp:478` and `MonitoredItemServer.cpp:127` unlock the address of a
  mutex handle instead of the mutex;
- `Server_BeginWrite` queues a value for the device before `CUAVariable::Write` may
  refuse it, and whatever attribute is written (`StackCallbacks.cpp:1554`);
- the writer thread sets status and timestamp of every variable from the first
  element of the batch (`VPIScheduler.cpp:603-608`), and gives a value that was
  written the status UncertainInitialValue it was made with
  (`VpiDataValue.cpp:59`);
- a pass that queues values of Sampling items only starts a new record, also when
  an older one has unsent values (`SubscriptionServer.cpp:1504-1538`); with a limit
  per message the next message then carries the old record's values under the
  number of the new one: TLC finds `MessageNumberMatches` violated in the instance
  of `Subscription_modes`;
- with a limit per message, a record takes several messages of one number. When the
  last of them cannot be sent (`SessionServer.cpp:1466-1535`), its values stay
  marked as sent, and the acknowledgement of an earlier one removes them: TLC
  finds `LatestValueRetained` violated in the instance of `Subscription_reporting`
  with one item and one notification per message;
- a Sampling item is queued with no limit (`SubscriptionServer.cpp:1527`, the queue
  size passed is 0), into a record an item before it in the list may have made the
  pass reuse: TLC finds `QueueBound` violated in the instance of
  `Subscription_reporting` with `EveryMode` and `QueueSize = 1`;
- deleting an item keeps its queued values in the records, although
  `SubscriptionServer.cpp:1887` says they go;
- acknowledging a record that was sent in part removes the sent entries and keeps
  the others under the acknowledged number (`SubscriptionServer.cpp:2026`);
- `m_uiQueueSizesMap` (`UADataChangeNotification.h:116`) is not the current size
  of a queue once a record was acknowledged in part;
- `AvailableSequenceNumbers` lists records that were not transmitted
  (`QueuedPublishRequest.cpp:215`);
- the status code of an expired subscription is not sent while another
  subscription of the session lives (`SessionServer.cpp:5876`, `5903`);
- the publish timeout (`QueuedPublishRequest.cpp:977-1003`): the tolerance
  shortens the timeout instead of extending it, hints under 7500 ms run out at
  once, and `TimeoutHint * 10000` wraps above 429496 ms;
- a request erased after its timeout never releases its context in the stack
  (`SessionServer.cpp:5290`, against `opcua_endpoint.c:1257`);
- a session beyond `MAX_SESSION_SUPPORTED` is constructed, with its threads, and
  never listed nor deleted (`ServerApplication.cpp:5362`, against the comment
  "release ressources for orphans" at 6453);
- the limit itself can be passed, because the size of the list is read without
  its mutex (`ServerApplication.cpp:5356`);
- a channel that still has a session is kept, yet the event traces "was close
  properly" (`ServerApplication.cpp:4465`, `4514`);
- a session created on a resumed channel the server had removed has a null
  channel, through which the next search by channel reads
  (`ServerApplication.cpp:5383`);
- `SetPublishingMode`, `ModifySubscription` and `Republish` do not post the
  semaphore that keeps a session alive.

## Not modelled

- The address-space services and the information model: large sequential lookups
  over a graph loaded from XML, with no state that interacts beyond node values.
- Historian, simulation and Lua: external libraries that feed values and are
  called one at a time.
- Server start, stop and configuration: I/O and settings.
- Continuation points and the query services' results: per-session lists used by
  one thread, with no interleaving to check.
- Events and alarms, and event and status-change notifications of a
  subscription: their lists share the sequence counter of the data changes, which
  `Subscription` has; their locks are in `ServerLocks`. What they add is the
  evaluation of alarm conditions, which is configuration-driven and sequential.
- The client SDK: in the models a client is the environment. Vendored code: the
  stack of the OPC Foundation, Lua, expat.
- Inside the components above: deadband and index-range filters, triggering links,
  the revised parameters of a subscription, certificates, nonces and user tokens
  of a session, and the arithmetic of the publish timeout, where time is abstract.
- Of a device: loading its VPI and tags, several tags, and stopping its threads,
  where the code is wrong in a way that leaves nothing to check (see the
  divergences).

What a continuation would add first: an abstract specification of delivery that
`Subscription` implements, and events in `Subscription`.
