# A TLA+ model of muse-rpc

muse-rpc is an RPC framework over UDP.  Its heart is the Simple
Request-Response Protocol (SR2P): a client cuts its request into pieces, sends
them until the server acknowledged all of them (phase 1), then collects and
acknowledges the pieces of the response (phase 2).  The server runs one main
reactor, several sub reactors (one thread each) and a pool of worker threads.

Everything under `src/include/rpc`, `src/include/thread_pool` and
`src/include/timer` is the code the modules are read from; paths below are
relative to `src/include`.

## 1. Inventory

| Part | State it keeps | Operations | Modelled in |
|---|---|---|---|
| Invoker, blocking client (`rpc/client/invoker.cpp`, `response_data.cpp`) | message id, phase, acknowledged pieces, two retry counters, received pieces | `request` (two receive loops with time-outs), `sendResponseACK`, `sendRequestHeartbeat` | `Invoker` |
| SubReactor (`rpc/server/sub_reactor.cpp`, `request.cpp`, `response.cpp`) | `messages` (half-received Requests), `connections` (slots with their complete message ids and Responses), `newConnections`, a timer tree | epoll loop, `dealWithNewConnection`, `trigger`/`triggerTask`, timers `judgeDelete`, `judgeResponseClearTimeout`, `checkDeleteSocket`, `stop` | `SubReactor` (what one connection says), `ConnectionTable` (slots, epoll, several peers) |
| Reactor and GlobalEntry (`rpc/server/reactor.cpp`) | `con_queue` (known peers), `active_queue`, global timers | accept a new peer, forward a datagram of a known one, start, stop | `ConnectionTable`; `LinkReactor` (`send`, `active_queue`); `SubReactor` (`AcceptNewPeer`, `ForwardToPeer`) |
| Transmitter (`rpc/client/transmitter.cpp`) | messages under way, each with phase and time-out count, timers, a pool | `send`, `loop`, `timeout_event`, `response_timeout_event`, `stop` | `Transmitter` |
| TransmitterLinkReactor (`rpc/server/transmitter_link_reactor.cpp`) | the same, fed by the main reactor through a queue | `acceptNewData`, `loop`, `try_trigger` | `LinkReactor` |
| ThreadPool (`thread_pool/pool.cpp`) | task queue, core and dynamic workers, manager, run flags | `commit_executor(s)`, `coreRun`, `dynamicRun`, `managerThreadTask`, `close` | `ThreadPool`; abstracted to `tasks` in `SubReactor` |
| ConcurrentThreadPool (`thread_pool/concurrent_pool.cpp`) | a queue per worker | commit, run, close | no: unused by the RPC code |
| TimerTree, TimerWheel (`timer/`) | ordered timers; five-level wheel | set, clear, run | `TimerWheel`; a timer of the tree is an action in the other models |
| Protocol (`rpc/protocol/`) | none | header codec, `getSendCount` | `SR2PMessages` (kinds and fields), `PieceBuffer` |
| Message ids (`rpc/client/global_id.cpp`) | last id, counter | `GlobalMicrosecondsId`, `GlobalSecondsId` | no: the models number the calls |
| Middleware, Client, Serializer, logger, memory | registries, byte buffers | sequential transformations of bytes | no |

How they interact: datagrams between client and server; the main reactor hands
descriptors and datagrams to a sub reactor through `newConnections`; a sub
reactor hands complete requests to the pool; a worker hands the result back
through a 5 ms timer of the sub reactor's timer tree; closing a socket reaches
the main reactor's `con_queue` through a global timer.

What is hard here: datagrams are lost, duplicated and overtake each other; the
client trusts the largest acknowledgement it ever saw; two paths of the server
handle the same datagram with different code; requests and responses are
forgotten after a silence while copies of their datagrams may still be in
flight; the server can restart or refuse a task in the middle of a call; a
response buffer has two owners.  `PROJECT.json` lists each of these hazards at
its line, with the properties that cover it.

What makes the parts correct: the pieces the client considers acknowledged are
on the server; a request is executed whole and no more often than it was
forgotten; the server never skips a response piece the client lacks; an OK
result comes from one execution of that call; every call returns.  An accepted
task is run, or given up by close, once; close leaves neither tasks nor threads
behind and returns.

## 2. Modules

`PieceBuffer` — a message of n pieces seen as the set of the orders stored so
far (`vector<bool> piece_state`), `getAckNumber` (first hole) and
`getSendCount` (the window).

`SR2PMessages` (extends it) — the kinds of datagrams and the network.  A
datagram is a record of the header fields that are read: id, phase, type,
order, and for response pieces which execution produced the bytes.  A channel
is a set: delivery in any order; `Take` delivers a datagram and may leave a copy
behind (duplication), also of one that passes through the main reactor (the copy is
then on the main socket or on the connected one), `Lose` drops one.  `Reset` and `Heartbeat` are of phase
Request because `sendReset` ignores its phase argument and `sendHeartbeat` sets
the phase after the write.  `Exhausted` has id 0, as in `sendExhausted`.

`Invoker` — `Invoker::request`.  `phase` is the place in the function: idle
(outside), sending (the loop of lines 83-160), waiting (lines 170-234).  `slots`
counts the iterations that the inner receive loop still has, `heard` is
`receiveMessageCount # 0`, `tries` is `needTry`, then `responseNeedTry`.  One
action per turn: `Round` (send a window, or only wait when the last round heard
nothing), `ReceiveInPhase1`, `TimeoutInPhase1` (sends RequestACK and ends the
round), `GiveUp`, `EnterPhase2`, `ReceiveInPhase2`, `TimeoutInPhase2`.
`piece_data` records for each stored piece which execution its bytes are from.
The decision at the end of a round is a step of its own; nothing else can
happen to the client in between, and the network may move.

`SubReactor` — the server for one peer.  `piece_state` and `is_trigger` are the
Request of each id (`{}`: none), `messages` and `response`/`response_ack` the
VirtualConnection's `messages` and `responses`, `tasks` the pool, `results` the
5 ms timers.  `ReceiveConnected` is a datagram in `SubReactor::loop`;
`AcceptNewPeer` and `ForwardToPeer` are a datagram that passes through the main
reactor and `dealWithNewConnection`.  The two differ in what a duplicate piece
is answered with (true ACK, or 0) and in what anything else gets.  In the code
the main reactor's step and the sub reactor's step are separated by
`newConnections`; with one peer the queue is a delay of a datagram, which the
network already provides, so the model takes them as one step.  `connected`
never becomes FALSE but at a restart: the end of a connection is the subject of
`ConnectionTable`.  `judgeDelete` and `judgeResponseClearTimeout` may fire at any
time while their bound lasts.  `ReuseBuffer` is an allocation that gets the
buffer which `~Response` gave back although the stored copy still points to it.

`RpcCall` — what a caller is promised: an OK call returns the result of one of
the executions started for it; with `Concurrent` the calls need not wait for each
other.  `SR2P` composes client, server and network,
states the properties and maps its state to RpcCall.  `MCSR2P` is SR2P for TLC.
`SubReactorInvariants` and `SR2PInvariants` hold the inductive strengthenings, the
first one those about the server and the datagrams it sent, for every composition.
`SubReactorProofs` (facts on `PieceBuffer`, types of the network and the server, and
what each of the server's steps keeps) and `SR2PProofs` have the proofs.

`ConnectionTable` — how the datagrams of several peers reach their connections:
the main reactor with `con_queue`, one sub reactor with its slots,
`newConnections`, epoll set and `checkDeleteSocket` timers, and the kernel's
descriptors, whose numbers come back.  A datagram is reduced to whose it is.  The
loops are sequences of places (`mainPc`, `subPc`).  The sub reactor sets `runState`
in `Start` and adds its wake-up descriptor to epoll in `AddSwitch`: an entry that is
accepted in between wakes nobody (`Awake`).  A pass of the sub reactor runs
its timers, works off the queue one entry a step (`turns` is the loop counter that
does not shrink when an entry is skipped), and then handles the events it fetched
before (`ready`, `errored`), which may be stale by then.  `connect` is a step of
its own after `bind`, since in between the socket takes anybody's datagrams.
`AcceptNew` and the insertion into `con_queue` are one step: only the main
reactor's thread reads it.  `idle` stands for a last activity longer ago than the
connection time-out.  `gaveUp` is history: the sub reactor met an entry it could
not serve and will never pop.  Left out: several sub reactors, and stop.
`MCConnectionTable` names peers and descriptors; `ConnectionTableProofs` has the
proofs.

`Transmitter` — the asynchronous client.  `message` is the map (and whether the
loop has sent the first window), `loopPc` the loop's place.  Timers are counted
per message and acknowledgement, since `timeout_event` compares the one it was set
for with the one it finds; ticks are abstracted: response timers either stay valid
or become stale together.  One timer runs per pass, any that is set.  A pass that
would neither send nor wait is left out (`NextPass`).  The trigger is followed
through the worker's steps (`callback`), because the loop goes on meanwhile and
shares `isSuccess` and `piece_data` with it.  A task that the pool refuses inside a
timer stops the loop for good (`stuck`): it holds `timer_mtx` and waits, in a
future's destructor, for a thread that needs that mutex.  The gap between the test of
the map and the wait in `loop` is there (`parking`).  `timeout_time` and the
timer counts saturate at their bounds (`MaxTimers`).  The caller sends nothing
after stop; `stop_immediately` and the destructor, which drop messages, are left
out, and so are data races on the map and the timer tree.

`AsyncCalls` (extends `Transmitter` and `SubReactor`) — what both ends of an
asynchronous call promise and how their state is mapped to `RpcCall`, whichever
loop runs the client's handlers.  `AsyncInvariants` has the strengthenings, and
`TransmitterProofs` shows which steps of the two ends keep them.  `SR2PAsync`
composes the Transmitter's own loop with `SubReactor` over the same network and adds
what concerns stop; `MCSR2PAsync` (which can end with the request phase) and
`MCAsyncBounded` (which bounds the timers that find nothing) are for TLC, `SR2PAsyncProofs` has the proofs.

`LinkReactor` — a server that calls another server from its own port, an
extension of `Transmitter` whose handlers it uses.  `Read` is the main reactor's
look into `active_queue`: `Claim` hands the datagram to the loop's `newData`,
`Capture` takes the peer for a new client, after which the kernel gives the peer's
datagrams to the new socket (`Misdeliver`), but for those that are in the main
socket's buffer by then (`unread`) and can still be claimed.  What the capturing sub
reactor answers is left out: the called server would meet it with StateResets, which
end in that socket too.  A pass drains `newData`, then runs
timers (`pass`); a datagram of no known message catches the loop (`spinning`)
while it holds `queue_mtx`, and the main reactor with the next answer (`blocked`).
`erasures` are the main reactor's timers that take a call out of `active_queue`.
`SR2PLink` composes it with the called server's `SubReactor` and `AsyncCalls`,
`MCSR2PLink` is for TLC, `LinkReactorProofs` has the proofs, over those of
`TransmitterProofs`.  All calls go to one peer and have different ids, and the
captured peer's connection does not time out.  A pass ends with the first timer
after which a message is to be sent, where the code first runs what else is due.

`ThreadPool` — `muse::pool::ThreadPool`.  Each thread is in one of a few places:
testing the wait predicate, parking (it found nothing to do and still holds
`queueMute`), asleep in the wait set, running a task, ended.  A critical section
is one step that needs `MutexFree`; only the parking worker holds the mutex
across steps, because that is where the unlocked stores of `runState` and
`isRunning` and the notifications that follow can slip in.  A woken thread goes
back to testing, a spurious wake-up is an action of its own.  `Commit` is a call
up to its look at `stopCommitState` (the first one starts the pool), `Enqueue`
its critical section: the gap between them is the code's.  The manager is a
thread with its own places; it reads `vacantThreadsCount` in `ManagerDecides`
and acts later.  `close` is a sequence of places with one action for each lock,
join or flag.  `state` and `atClose` are history: what became of each task, and
whether the pool had started, or a commit was between its two steps, when close
began.  Every task is committed once at most and close is called once.
`MCThreadPool` is the same for TLC, `ThreadPoolInvariants` and
`ThreadPoolProofs` hold the strengthenings and the proofs.

`TimerWheel` — the wheel, which the library offers and the RPC code does not use.
Time is in milliseconds, as in the code, which divides by the gap between two passes
(`tickGap`, 5 ms) only to find a bucket; `now` is the clock, `tick` the passes done,
and the wheel may fall behind by `MaxLag`.  The clock only moves forward and does not
leap.  The code reads `system_clock`, which may be set (the comment at
`timer_wheel.cpp:230` names the network time): nothing is claimed of the wheel when
that happens.  Masks and shifts are digits in the sizes
of the levels (`Digit`, `Span`).  Setting a timer is three steps (make the task,
read `tick`, push under the bucket's lock), or four for an interval, which reads the
clock once more (`Date`); clearing an interval is two (`clearTimeout`,
`clearInterval`).  A pass is a hand-down for each level
whose hand moves, then callbacks one by one with the bucket locked, then the move
of the hand.  `meant` is history: the pass a timer was put in its bucket for, or
the end of a round if that pass had begun.  `addDateTime + times * delayInterval` is
kept in one field.  The push
to a lower level without its lock, a data race, is one step.  `MCTimerWheel` is for
TLC, `TimerWheelInvariants` and `TimerWheelProofs` hold the inductive invariant and
the proofs.

Definitions whose comment starts with "Mutant of" are wrong on purpose: each
stands for a plausible slip in the code (a dropped test of `is_trigger`, an
acknowledgement past a hole, ...) that a property must notice.

## 3. What is checked

The `sr2p_` runs are of `MCSR2P`, `async` of `MCAsyncBounded`, `async_live` and
`async_orphan` of `MCSR2PAsync`, `link` of `MCSR2PLink`; calls/request
pieces/response pieces in brackets.  The `pool_` runs are of `MCThreadPool`,
core/all workers in brackets; `table` is of `MCConnectionTable`,
`wheel` of `MCTimerWheel`.

| Run | Question | Bounds |
|---|---|---|
| `sr2p_network` | types, nothing unlearned, `DeliveredIsReceived`, implements `RpcCall`, and `EveryCallReturns` under fairness | (1/2/2) one duplicate, one loss, three tries |
| `sr2p_window` | `AcknowledgedIsStored`, `ExecutedWhole` | (1/4/1): the smallest request whose window is 3, so that pieces of a window overtake each other; two tries |
| `sr2p_forgetting` | `ExecutionsBounded` | (1/2/1) one inactivity time-out, one restart, one refused task, one reused buffer |
| `sr2p_two_calls` | `ResponseFromOneExecution` | (2/1/1) one loss: the second call meets leftovers of the first |
| `pool_close` | `TypeOK` (with the queue's bound), `SettledOnce`, `NothingLeftBehindIfQuiet`, `NoThreadLeftIfStarted` | (3/4) the smallest pool in which the manager kills a worker; queue of 2, 3 tasks, 2 committers, batches of 2, so that the queue overflows; close waits for the tasks |
| `pool_live` | `EveryTaskRuns`, `StartedCloseReturns` under fairness | (2/3) 2 tasks, close discards; more than two workers are never vacant, so none is killed |
| `table` | epoll, slots, timers, `con_queue` and descriptors agree; only a full table refuses; `QueueIsWorkedOff` and `IdleConnectionsAreClosed` under fairness | 3 peers for 1 slot and 2 descriptors, so that peers are refused and numbers come back; 3 datagrams, one silence, one socket error, one failing connect; `epoll_wait` returns at most one event at a time, as there is one slot |
| `async` | clock, belief, stop, callback and refinement of the asynchronous client | (1/2/2) one try, two timers told apart, one refused task, two timers in vain |
| `async_live` | `RequestPhaseEnds` under fairness | (1/1/1) two losses, one duplicate, one restart, one refused task, two tries; the run goes no further than the end of the phase (`RequestPhaseSpec`), which is for good |
| `wheel` | `NoTimerIsPassedBy`, `EarlyByTheLagAtMost` | one timer (timers only meet at a lock, which every pass takes); three levels of four buckets, a gap of 2 ms; delays on each side of the borders of the levels and such that the division takes something off, the wheel up to 2 ms behind; 34 ms (17 passes), so that a timer of level two that was overtaken comes up a round later |
| `link` | `AnswersAreClaimed`, `OnlyLateAnswersSpin`, `OnlyLateAnswersCapture`; clock and refinement as in `async` | (2/1/1) the second call starts when the first called back; one datagram in flight each way, two in the queue, two timers in vain |

The bounds on pieces are the smallest at which holes, windows and a second
response piece exist; one duplicate or loss is enough to reorder any two
datagrams against a retransmission, since channels are unordered anyway.  A
safety property sees of a lost datagram what it sees of one that stays in the
channel, so `async` and `link` lose none.  In `link` two calls are needed, as the
leftovers of one harm the other; the loop caught by a late answer, the main
reactor waiting for it and the captured peer, each during the second call, were
all seen to be reached within the bounds.

One run is expected to fail, where the code does not do what the documentation
says: `async_orphan` (the response overtakes the last acknowledgement: no timer is
left and the callback never runs).  `PROJECT.json` quotes the lines.  The passing
runs exclude more of the code's dead ends by their conditions and constants; TLC finds
each of them when these are changed:

- A restart in phase 1 leads to an endless exchange of RequestACK and StateReset,
  one in phase 2 refills the tries for ever: `EveryCallReturns` in `sr2p_network`
  with `MaxRestarts = 1`.
- The notice that the pool refused a task has id 0 and is skipped, the heartbeats
  that follow keep the call waiting: the same with `MaxRejects = 1`.
- A late duplicate executes the request again: `ExecutionsBounded` is tight with
  `MaxDups = 1` and `MaxExpiries = 1`.
- A freed response buffer is sent (the stored `Response` shares it with one that was
  destroyed), or pieces of two executions are mixed: `ResponseFromOneExecution` with
  (1/1/2) and `MaxReuses = 1` or `MaxExpiries = 1`.
- `close` hangs: `runState` is stored and the workers are notified without the
  mutex, a worker between its test and its wait is joined for ever:
  `StartedCloseReturns` in `pool_live` with `WaitAllTaskFinish`.
- A task is stranded, as its only notification reaches the worker that is being
  killed: `EveryTaskRuns` in `pool_live` with (3/4).
- A commit past its look at `stopCommitState` queues its task after close drained
  the queue, and the first commit starts the threads of a pool that was closed:
  the conditions of `NothingLeftBehindIfQuiet` and `NoThreadLeftIfStarted`.
- An entry of `newConnections` that is refused stays at the head: `QueueIsWorkedOff`
  without `~gaveUp`.
- An entry that is accepted while the sub reactor starts, after `runState` is set and
  before the wake-up descriptor is in epoll, is not announced, and the loop waits for
  ever: `QueueIsWorkedOff` without `~MissedAtStart`, already with one peer and
  `MaxSends = 1`.
- A read of the sub reactor blocks, as its event was for an earlier connection of the
  slot: `QueueIsWorkedOff` and `IdleConnectionsAreClosed` without `~Blocked`.
- An asynchronous request of several pieces can lose the clock it needs:
  `RequestPhaseEnds` without its condition in `async_live` with `ReqPieces = 2`.
- A timer of more than 80 s is put on the wheel by the wrong digit: `wheel` without
  `Near`, late with the constants of the run, early with `Delays = {72}` and
  `MaxTime = 80`.
- The loop of a calling server spins, the main reactor stops, the called server is
  captured: `~spinning`, `~blocked`, `~captured` in `link`.

The deadlock test is off where the system may stop: `close` and the manager's join
can hang (`pool_`), all datagrams are sent and all bounds used (`table`), stop has
returned or the loop is stuck (`async`), the loop is caught (`link`), the
clock stops (`wheel`).

Fairness, where a run has a liveness property.  `SR2P!Fairness`: the client thread
runs and its receive time-out (`SO_RCVTIMEO`) expires; a datagram that stays in
flight, or is sent again and again, is handled (sockets deliver in turn; losses
are bounded by `MaxLosses`); workers run their tasks and the 5 ms timer fires.
Nothing is assumed of inactivity timers, restarts or losses.  In the pool
(`ThreadPool!Fairness`) each thread runs when it can, a commit that has begun
goes on, and tasks return; nobody has to commit, to close, or to wake a thread
spuriously.  In both it is weak fairness, so nothing rests on a thread getting a
mutex that others keep taking before it.  `ConnectionTable!Fairness`: both threads
take their steps; a `checkDeleteSocket` timer that is set is found due again and
again, as each pass of the loop runs what is due, and the tree hands timers out by
time: strong fairness per slot.  `SR2PAsync!Fairness` and its part
`RequestFairness`: the loop comes back to its socket and to its timers in every
pass, and both give what they hold in turn, hence strong fairness of each datagram
and timer; the server as in `SR2P`.

## 4. What is proved

TLAPS checks, for all values of the constants:

- `SR2P`: `TypeCorrect`; `ExecutionsAreBounded`; `AcknowledgedPiecesAreStored` and
  `ExecutedRequestsAreWhole` (properties about a server that forgot nothing: no
  time-out, no restart); `DeliveredPiecesAreReceived`, unconditionally;
  `NothingIsUnlearned`, the action property; `ResponsesComeFromOneExecution` while
  nothing was forgotten and no freed buffer reused; and under the same two
  conditions `RpcCallIsImplemented`, the refinement of `RpcCall`.
- `ThreadPool`: `PoolTypeCorrect` (with the queue's bound),
  `TasksAreSettledOnce`, `CloseLeavesNothingBehind`, `CloseLeavesNoThread`.
- `ConnectionTable`: `TableTyped`, `EventsFollowSlots`, `WatchedConnections`,
  `KnownPeers`, `NoStrays`, `RefusedPeers`.
- `SR2PAsync`: `AsyncTyped`, `StopWaits`, `OneCallBack`, `RequestClock`,
  `AsyncAcknowledgedIsStored`, `AsyncDeliveredIsReceived`, and, under the two
  conditions above, `AsyncRpcCallIsImplemented`.
- `SR2PLink`: `LinkTyped`, `AnswersClaimed`, `LateAnswersSpin`,
  `LateAnswersCapture`, `LinkRequestClock`, `LinkAcknowledgedIsStored`,
  `LinkDeliveredIsReceived`, and, under the same two conditions,
  `LinkRpcCallIsImplemented`.
- `TimerWheel`: `WheelTyped`, `NotPassedBy`, `EarlyByLag`.

The assumptions are the named ASSUMEs: positive piece counts and tries, natural
bounds, finite sets of peers and descriptors; for the pool at least one core
worker and no more than the maximum, which the constructor tests (a configured 0
becomes 4 after that test, and is left out here); for the wheel at least three
levels, two places on each, and no more places on level two than on level three:
`setTimerWheelTask` takes the digit of level two for the bucket of level three, so a
larger one would run off the array.  The code's sizes, 256 and then four times 64,
satisfy that; and intervals of more than two gaps, which `setInterval` enforces.
None of the properties is inductive.

The strengthenings for `SR2P`, in `SubReactorInvariants` and `SR2PInvariants`, say
what the datagrams in flight promise: `AcksCoverStored` (an acknowledgement a in
flight for call i has all orders below a stored), `ExecutedIsWhole`,
`AcceptCoversStored` (the client's own belief) make up `RequestInv`; `ResponseInv`
says the same of response acknowledgements in flight and `response_ack` against
the client's `piece_data`; `TriggeredOnce` ties `executions` to `is_trigger`, so
that the next execution needs a Request that was erased since; `FirstExecutionInv`
says that every response piece in flight, stored or received stems from execution
1 as long as that is the only one. Each is proved with one step per handler
(`HandlerEffect`, `DatagramStep` and `SubReactorCases` share the case analysis
over the handlers). The refinement needs two more: `CallsInTurn` (a call that
returned is never sent again, the next one was not sent yet) and `HeardOfMade`
(the server only hears of calls that were made); then each action of the client
maps to starting a call, returning OK (all pieces are of execution 1) or TimedOut,
and each action of the server to an execution or to nothing. The facts
on `getAckNumber` and `getSendCount` come first in `SubReactorProofs`.

For the pool, `PlacesInv` says that a task is in the one place its state names:
offered by one committer, in the queue once, run by one thread; so a step that
settles a task takes it from there.  `ThreadsInv` says that a slot whose
`isRunning` is false has no thread, except the one that is being killed; without
it a new worker could be put over one that still runs a task.  `ClosingInv` says
what each step of close has achieved, and that a quiet pool cannot lose it
again: commits are refused, the manager is gone, the queue stays empty.

For the table, `UsedSlots` and `CountCovers` tie `socket_fd`, `addr` and
`activeConnectionsCount` to each other (so that a count below the maximum means a
free slot); `ConnectHolds` says what the main reactor holds between `bind` and
`connect`; `WatchInv` relates timers to slots in every place of a pass; `Served`
and `Kept` say in whose hands a peer of `con_queue` is: its datagram is still
queued, or a slot has its socket; `StrayInv` accounts for every open descriptor.

For the asynchronous client, `TriggerInv` follows a message from its trigger to
the end of its callback, which is what both `CalledBackOnce` and the wait in stop
rest on; `Clocked` gives each message that is being sent its timer in every place
of the loop, also across the acknowledgements that move `ack_accept` past the one
the timer was set for.  What it and the server know of each other rests on the
invariants of `SR2P`, whose server parts are proved once in `SubReactorProofs`:
`RequestInv`, `ResponseInv` and `FirstExecutionInv` with the client's fields per
call, where a message that is a success misses no piece.  `SentFirst` takes the
place of `CallsInTurn` and `HeardOfMade` in the refinement: only a call that was
sent is triggered or heard of by the server, and it has an outcome from when its
callback was called.  The steps are proved in `TransmitterProofs` for any loop:
`ClientMoves(H)` is a step of a client that handles a datagram of H, a timer or a
pass, `EndsStep(H)` one of the client, the server or the network, and each invariant
is kept if what H tells the client is true (`ShowStored`, `ShowFirst`).  For
`SR2PAsync` H is what is on its way to the client.

For the link, H is what the main reactor claimed and the loop has not handled yet
(`Claimed`).  Those datagrams may be old when they are handled, so `ClaimedInv` says
that they stay true while they wait: a server that forgets nothing stores no less
later, and what it executed stays executed.  `LinkStep` shows that every step is
`EndsStep(Claimed)`, so that the lemmas apply; a caught loop, a blocked main
reactor and a captured peer leave the client's variables alone.

What is particular to the link: `LifeInv` is the life of a call, entered in
`active_queue`, sent, triggered, called back, taken out (it has the order of
callbacks that the lemmas of the Transmitter need); `FlightInv` says that what is in
flight, queued or worked on belongs to a call that was sent, and `CaughtLate` that
the datagram which catches the loop is of a call whose callback has run.

For the wheel, `WheelInv` says for each waiting timer less than two levels ahead
when its bucket comes up.  `ComesInTime`: some pass that takes the bucket is still to
come, and is due no later than the timer expires, or comes no later than it was meant to
(`NotPassedBy` is what is left of it when the hand stands on the bucket).
`NeverTooEarly`: a timer expires less than `MaxLag`, one place of its level's hand and
one gap after any pass to come that takes the bucket (on level one these are the two
gaps of `EarlyByLag`).  `LoopInv` keeps the loop and the
clock within `MaxLag` of each other.  TLC checked `WheelInv` first, with the constants
of the wheel's run and `MaxTime = 26`.  The bound of `EarlyByLag` cannot be lowered:
with one millisecond less TLC finds a timer that breaks it.  On the wheel of the code
(a gap of 5 ms, 256 buckets on level one) such a one is set 1000 ms after the start
with a delay of 1559 ms, without any lag: 311 gaps, the remaining four milliseconds
are cut off, and at the hand-down in pass 255 the 256 gaps that are left become 255.
It runs in pass 510, at 2550 ms, 9 ms before it expires.  A timer on level two has to be
shown to come down in time (`DownInTime`) and to be pushed for a pass that is still to
come (`PushedOnOne`, `PushedOnTwo`, `PushedNotTooEarly`); the masks and shifts of the
code are quotients and remainders there, and what those proofs need of them is stated
once (`Least`, `DivMod`, `SumMod`, `NextMod`, ...).  `Span`, a recursive function,
is shown to exist (`SpanDefined`) by looking at the least level on which no function
would satisfy its equation.  Timers of level three and above are not in the two
properties, as the code puts those in wrong buckets (section 3).

Only model-checked: liveness under fairness, which is beyond the prover
(`EveryCallReturns`, `EveryCallbackRuns`, `RequestPhaseEnds`, `EveryTaskRuns`,
`QueueIsWorkedOff`, `StartedCloseReturns`, `IdleConnectionsAreClosed`).
Nothing is known of `ResponseFromOneExecution` without its two conditions but that
it fails.

## 5. Not modelled

- Data races: the timer trees and the Transmitter's map are changed by several
  threads without their mutex.  What follows is not an interleaving of steps; the
  models take each access as one step.  `GlobalSecondsId`, which adds and reads in
  two steps, would have to give one id to two calls; the models number the calls.
- Stop of the server, start-up failures, several sub reactors.  A restart in
  `SubReactor` is the server's process starting afresh.
- `stop_immediately` and the destructors of the transmitters.
- A clock that is set back or leaps; `TimerWheel` assumes that it does not.
- The composition of worker tasks with the reuse of slots: a worker keeps a pointer
  to its connection while the slot may be given to another peer.  `SubReactor`
  has the workers and one connection, `ConnectionTable` the slots and no workers;
  both together are beyond TLC with the protocol's state.
- The 16-bit piece counts and offsets (a request has a handful of pieces here), the
  header's byte layout, Serializer and zlib: sequential code about data.
- `ConcurrentThreadPool`, which nothing uses.  Its workers end when idle, and a
  commit looks for ended ones only after it queued its task, so that the task may
  be left to a worker that is just ending; its bulk commit reads past its argument.
- The wheel's destructor, which leaves its detached thread running.
- Middleware, Client, Outcome: sequential; `RpcCall` states what they rely on.
- Logging, memory pools and configuration.
