# Netpoll in TLA+

Netpoll is a non-blocking network library: a few pollers wait in epoll, read
and write for many connections, and hand the user's callbacks to a pool of
goroutines. Most of what can go wrong in it is an interleaving: keys taken with
compare-and-swap, channels of capacity one that drop what does not fit,
counters that decide who does the work, operators that are reused while events
for them are in flight. The modules here model those parts from the Go source,
TLC explores them on small instances, and TLAPS proves the invariants that
matter most for every instance.

PROJECT.json maps every definition to the lines it models and lists runs,
mutants, findings, hazards and theorems.

## The system and its parts

| part | state | operations | hard behaviour | module |
|---|---|---|---|---|
| connection lifecycle (`connection_onevent.go`, `connection_reactor.go`) | keys closing, connecting, processing; connState; callbacks; operator | init, onAccept, onConnect, onRequest, onProcess and its task, onHup, onDisconnect, Close, Detach, SetOnRequest, closeCallback | a close or hangup at any point of a callback; re-checks after unlock; panics | `Connection` |
| blocking read (`connection_impl.go`) | input length, waitReadSize, readTrigger, timer | waitRead, waitReadWithTimeout, inputAck, triggers of onHup and onClose | lost wake-ups, stale triggers, timer against data against close | `ReadWait` |
| write path (`connection_impl.go`, `connection_reactor.go`) | output buffer, flushing key, writeTrigger, write event | Flush, flush, waitFlush, outputs, outputAck, rw2r, finalizer | hand-over between writer and poller, late triggers, close under a writer | `Flush` |
| FD operators (`fd_operator.go`, `fd_operator_cache.go`) | state, detached, free lists | alloc, inuse, do, done, unused, reset, freeable, free, Control | stale events and stale pointers to reused operators | `OperatorCache` |
| epoll poller (`poll_default_linux.go`) | batch of events, hups | Wait, handler, onhups, Control | its steps appear in the modules it serves | all of the above |
| mux queue (`mux/shard_queue.go`) | shards, trigger, runNum, ring of triggered shards | Add, triggering, foreach, deal, flush, Close | many adders and at most one task; a task that exits while one adds | `ShardQueue`, `MuxQueue` |
| server (`netpoll_server.go`, `net_listener.go`) | listener, its operator, map of connections | Run, OnRead and its retry goroutine, onAccept, OnHup, Close | a close before the store; out of fds; close while accepting | `Server`; onAccept of one connection also in `Connection` |
| event loop (`netpoll_unix.go`) | server, FIFO manager, stop channel | Serve, ServeFifo, ServeAll, waitQuit, checkQuit, Shutdown | parts that quit by themselves, shutdown against start | `EventLoop` |
| poll manager (`poll_manager.go`, `poll_loadbalance.go`) | pollers, balance, status | SetNumLoops, Run, Pick, Rebalance, Close | resize while others pick | `PollManager` |
| dialer (`net_polldesc.go`, `net_netfd.go`, `net_dialer.go`) | trigger channels, operator, fd | connect, WaitWrite, onwrite, onhup, detach, Free | deadline against event, fd reuse | `Dialer` |
| fifos (`fifo_*.go`) | as the connection, split in a read and a write half | init, Flush, waitRead, onProcess, Close, Attach | lazy writer, detach after each flush, two closers | `ReadFifo`, `WriteFifo`, `FifoManager` |
| link buffer and adapters (`nocopy_linkbuffer.go`, `nocopy_readwriter.go`) | chain of nodes with reference counts | Malloc, MallocAck, Flush, Next, Peek, Skip, Slice, Release, WriteDirect, Append, book, bookAck, fill, ... | nodes and memory shared by slices | `LinkBuffer`, `ByteQueue` |

## Modules

Each process is a goroutine of the code, with a program counter (`pc`) whose
labels name where it stands. One action is one atomic operation on shared state
with the local work around it, so every interleaving the code allows at that
grain is explored. A section under a spin lock is one action where nothing
outside the lock touches what it guards.

### Connection

One connection, from `init` to its release. `closing`, `connecting` and
`processing` are the keys of `locker`, `connState` is `connection.state`,
`opState`, `opDetached` and `opPoll` the fields of its FDOperator, `registered`
tells whether the fd is in epoll, `stored` whether the server's map has it. The
processes are the poller, the goroutine of `onhups`, the acceptor, the tasks of
the runner and goroutines of the program. A message in the socket is counted in
`kernelLen`, in the input buffer in `inputLen`. `captured` holds the callbacks
a task was started with, since the code closes over them. Which of OnConnect,
OnRequest and OnDisconnect are set is chosen in the initial state, so one run
covers all combinations.

### ReadWait

One reader against the poller. `readTrigger` is the channel of capacity one.
`mode` says who reads: a dialer's goroutine, or the task running OnConnect or
OnRequest; it and the timeout are chosen in the initial state. `inputAck` is three steps, because `onRequest` and the load of
`waitReadSize` race with the reader. Length check and status check of the
reader's loop are two steps, as in the code.

### Flush

Writers against the poller and the closers. A byte is its position in the
stream, so what the kernel got can be compared with what was flushed: `head` to
`tail` is the output buffer, `sentTo` the end of what was sent, `ordered` turns
false when a send does not continue the stream. A send takes any part of what
`GetBytes` returned, or fails.

### OperatorCache

Connections share a pool of operators of one poller. An event of a batch is a
pair of the operator epoll reports and the connection it was reported for; the
code has only the first, and the properties say that they still belong
together. `Control(PollDetach)` is the increment of `detached` and then the
system call, so that the one who comes second may run ahead of it. `Release`
is possible whenever a connection has an operator pointer, also after it was
freed. A close detaches (`Close`), leaves that to the poller (`OnHup`), or, in
a task that closes for the user on its way out, does not detach at all
(`TaskClose`): the fd then leaves epoll only with `CloseFD`, after the operator
was freed. `stray` remembers the operators to which that has happened.

### ShardQueue and MuxQueue

`ShardQueue` is the queue with its shards, trigger counter, ring and task.
`MuxQueue` is what callers rely on: getters are accepted, each is dealt once,
a flush sends what was written. `ShardQueue!ImplementsQueue` is the refinement,
with `pending` the getters of all shards and of the batch being dealt.

### LinkBuffer and ByteQueue

Each operation of the buffer is an operator from a record of nodes, buffers and
memory to the next one. A node or block is reused in the model only when
nothing refers to it, so a stale reference stays visible. `mode` is chosen at
the start and says how the buffer is used: filled by the poller
(`inputs`/`inputAck`), by a user's writer, by WriteDirect, or through the
adapters. `ByteQueue` is the promise: bytes that can be read, followed by bytes
that are not submitted yet. `ImplementsByteQueue` is the refinement, with
`readable` and `pending` the bytes found by walking the chain. Sizes stand for
the code's constants in proportion: `LinkBufferCap` is `block4k`, `PageSize`
the page. Three variables are history: `appended` counts readable bytes of an
appended buffer that Flush has not submitted yet, `left` the bytes that
MallocAck(0) leaves in the flush node, and `spoiled` says that a call has broken
the buffer (`Recuts`, `Severs`; see the deviations), after which nothing more
is done with it.

### ReadFifo, WriteFifo and FifoManager

The two ends of a named pipe are modules of their own; `FifoManager` composes
them with the manager's maps and mutex and with `fifoConnection`. A behaviour
follows one fifo, whose kind is chosen at the start. The read end counts bytes,
the write end pages of the pipe. `processing`, `closing` and `flushing` are the
keys of `fifoLocker`. A connection is written to by `Callers`, each of which
may find the writer not ready and start it; `mutex` is `writerMutex`, and the
look at the writer before it and the one under it are two steps. `late` records that a fifo was closed before it was
stored, `hasty` that a connection was written to before its init returned.

### Server, EventLoop, PollManager, Dialer and Netpoll

`Server` has the listener, the poller and the retry goroutines that accept, and
Close. A connection is open, busy with a request, closing or closed: what goes
on inside it is the subject of `Connection`. `early` records connections closed
before they were stored, `late` those that were in onAccept when the last pass
of Close began. `EventLoop` extends it with the callers of Serve, ServeFifo and
ServeAll (`mode`), the stop channel and Shutdown; the mutex is held across
steps only by a Serve whose Run fails.

`PollManager` follows Pick, Run and SetNumLoops store by store. Both load
balances pick some index below their size. `Dialer` extends it with one dialing
goroutine and the poller; all dials get the same file descriptor, as closed
descriptors are reused, so a delayed detach of one dial meets the next.

`Netpoll` puts them side by side. They share nothing but the poll manager, so a
behaviour follows one of them (`use`).

## Runs

Passing runs; states are distinct states.

| run | instance | shows |
|---|---|---|
| conn_server | accepted connection, one user, two tasks, two messages (2.2M states) | callbacks are serial and in order, no freed operator is used, and a connection closed by its peer is out of epoll before its fd is closed |
| conn_live | accepted connection, one user, one task, one message (380k) | whoever closes and whenever, the connection is released; input does not stay behind when a task exits |
| conn_dialer | dialled connection, SetOnRequest at any time, callbacks that panic, two messages (670k) | no input is left behind when nobody is at work, also if it came before OnRequest |
| shard | two adders, two tasks, a closer, failing writes (59k) | every getter is sent without further calls, Close returns; the queue implements MuxQueue, so each getter is dealt once |
| read | all three readers, with and without timeout (550k) | a read gets all its bytes, is never left asleep with its bytes there or the connection closed, and keeps its timer clean |
| flush_close | one writer, user and peer close, with and without timeout (480k) | nil means sent, nothing freed under writer or poller, Close completes against a peer that does not read |
| flush_peer | two writers, a reading peer, with and without timeout (850k) | bytes in order, every Flush returns |
| operator_cache | three connections, one operator (93k) | on an operator that was detached no event reaches a connection it was not reported for, and nothing but a spin that is overtaken for ever keeps an operator from being given back |
| link_buffer | four uses of a buffer, with a second one to append and two slices, three bytes (220k) | memory that may be read is neither recycled nor overwritten, reference counts and lengths are exact, the buffer implements ByteQueue |
| fifo | four kinds of fifo, closed, panicking or timing out, a connection with two writing goroutines (1.0M) | one callback at a time, each fd closed once and after its last use, what Flush returns is true, the writer started once, no input stranded, every close completes |
| netpoll | event loop with two connections and two retry goroutines; two dials; two goroutines that pick (1.6M) | one accepts at a time and none waits in the backlog, the map is clean, Serve and Shutdown return and not too early; a dial hands its fd over and returns; Pick neither panics nor hangs, the pollers asked for run |

Properties that the proofs below establish for every instance, and that cost TLC
time without a question of their own, are in no run: the types of `Connection`,
`ShardQueue` and `OperatorCache`, OneOnRequest, OneTask, DealtOnce, Exclusive,
DoIsLock, OutOfEpoll, DialTrue, OneRun, WakeUpUnderway and ReleasedAtRest.
LoopOutlives and PickSafe are conjuncts of ServeReturns and PickReturns, which
`netpoll` checks.

One run ends in a violation, where the code and one of its own comments
disagree (PROJECT.json, `findings`, quotes it): in conn_disconnect_lost
OnDisconnect is never called, since the hangup leaves it to a task that has
already looked.

### Deviations

The properties above are stated as strongly as the code allows. The modules
also have behaviours that one might not expect from the comments; each was seen
as a TLC counterexample to the stronger statement while the property was being
found, and no run records it:

- OnDisconnect, called by the hangup goroutine, can run next to the close
  callbacks (`eventloop.go:72` allows only OnRequest beside it): onHup sets the
  closing key before it calls OnDisconnect, and a task that sees the key closes.
- Data followed at once by a hangup can be released unread, when both arrive
  between the task's last look at the buffer and its re-check of closing
  (`connection_onevent.go:213`, 246).
- SetOnRequest while OnConnect of an accepted connection runs starts no task,
  and the running one was started without OnRequest; input that is there stays
  until more arrives (`connection_onevent.go:72`).
- A connection that hangs up between AddCloseCallback and Store stays in the
  server's map (`netpoll_server.go:175`).
- After a panic processing is unlocked before the close callbacks run, which a
  new task can then run beside (`connection_onevent.go:193`). So
  SerialCallbacks is stated and proved without panics.
- ShardQueue.Close can return with getters not flushed, since `trigger` is zero
  before the last flush (`mux/shard_queue.go:110`); Add without getters breaks
  the bound of the ring, so `Batches` leaves 0 out; the index is negative once
  `idx` has overflowed.
- waitRead can return EOF with its bytes in the buffer, when data and hangup
  come between its look at the length and its look at the key
  (`connection_impl.go:422`).
- After a write timeout the poller may still be sending and its trigger comes
  late: the next Flush can send the same bytes, or return nil too early
  (`connection_impl.go:538`). So SentInOrder and FlushSends are stated without
  a timeout.
- With two writers a close wakes the first while the poller still works for it;
  the second takes the flushing key and returns nil on the trigger that the
  poller had ready for the first (`connection_reactor.go:55`, 146). So FlushSends
  is stated for one writer where the connection may be closed.
- A user's close that meets the exiting task frees the operator with the fd
  still in epoll (`connection_onevent.go:246`; the comment at 248 says "fd must
  already detach by poller"), and so does a task that panics after the user has
  closed (197). So NoUseAfterFree asks for it only of connections that the
  poller closed. If the operator is allocated again before the fd is closed,
  the poller handles an event of the old fd with the callbacks of the new
  connection: EventOwner and OutOfEpoll except the operators in `stray`.
- `unused` spins on a compare-and-swap that a Release, also one of a former
  holder, can make fail at every turn (`fd_operator.go:83`). The scheduler does
  not exclude that, so OperatorReturned has it as its second alternative.
- With two writers Close can spin in `stop(flushing)` for ever: a writer that
  takes the key after the first was woken waits for a poller that no longer has
  the fd (`connection_impl.go:233`, `connection_lock.go:43`). So CloseCompletes
  is stated for one writer.

Link buffer (`nocopy_linkbuffer.go`):

- MallocAck(0) leaves the bytes malloced in the flush node, and the next Flush
  publishes them (388), although `nocopy.go:176` says that MallocAck keeps the
  first n and discards the rest. `left` counts them for LengthsExact.
- MallocAck empties the nodes behind the last byte it keeps (405). After an
  Append and before the Flush one of them may hold appended bytes that `length`
  counts; after a WriteDirect that cut a node one may share the memory of a node
  that is kept, and hands it to the next Malloc (`Severs`).
- WriteDirect with a remainder, in a node that lies over the caller's memory or
  was cut before, makes a node over that memory that counts as the buffer's own
  and is recycled (535; `Recuts`).
- What Peek returned from its cache is overwritten or freed by a later Peek or
  Next, before Release (124; `nocopy.go:46` says that it is valid until then); the
  slices `held` leave it out.
- Append adds to `length` what only the next Flush lets a reader reach (477): a
  read in between would run into the end of the chain. The models read after
  the Flush (`Submitted`).
- Slice of a single node does not release what was read (323); GetBytes with no
  vector skips the bytes of the flush node (613).

Fifos:

- Input that arrives in the window of the task's re-check can be released unread
  at a hangup, as for connections (`fifo_reactor.go:128`).
- A Flush that starts after closeBy can take the flushing key and wait for ever,
  with the closer spinning (`fifo_write_impl.go:165`; `lateFlush`).
- `operator.detached` counts once: after the second flush that waited the fd
  stays in epoll, the poller may send beside the writer, and the third flush
  that waits fails (`fifo_reactor.go:208`). After a write timeout a late nil
  trigger can be left for the next flush.
- Closing a connection whose writer never got ready panics: the writer has no
  operator (`fifo_write_impl.go:268`; `CloseUnready`).
- Data or a hangup before SetOnFifoRead are lost or leave the reader open
  (`fifo_connection_impl.go:174`). A Write before init has returned finds no
  writer, and panics, or starts the writer beside init,
  which does not take the mutex (179; `hasty`). So WriterInitOnce is stated for
  connections that are written to once init has returned.
- A fifo that hangs up between its registration and Store leaves an entry in
  the manager (`fifo_manager.go:44`; `late`).

Server and event loop:

- A connection closed before Store stays in the map until its fd is reused, and
  Shutdown without a deadline then never returns. One that is in onAccept
  during the last pass survives Shutdown; one that gets a request between isIdle
  and Close is not counted, and Shutdown returns while its handler runs.
- The listener's detach takes effect once: at the second shortage of file
  descriptors the listener stays in epoll and several goroutines retry, which
  the comment at `netpoll_server.go:113` means to exclude. A retry goroutine
  does not end when the listener is closed, and hides its hangup. A listener
  that is shut down while descriptors are missing gets such a goroutine from
  OnRead in the same turn as its hangup (`OnHupFull`).
- Run failing calls onQuit under the mutex that Serve holds: Serve blocks for
  ever (`netpoll_unix.go:175`, 257). So ServeReturns is stated for `Unlocked`.
- With Serve and ServeFifo both waiting the one value of `stop` can leave one of
  them waiting; a Shutdown before Serve leaves a value and no server to close,
  so that Serve returns with its listener still served.

Poll manager and dialer:

- SetNumLoops during Run lets a second Run overlap: the number of pollers can
  then be wrong and pollers are leaked. Shrinking while others pick can index
  out of range, and abandons the connections of the closed pollers, including
  hangups of the batch in which a poller exits (`poll_default_linux.go:140`).
- A failing openPoll sets the balance to nil, and Pick panics
  (`poll_manager.go:151`); the pollers opened by that Run are not closed. A Run
  that overlaps with the one that fails panics in Rebalance (117).
- Rebalance is two plain stores (`poll_loadbalance.go:95`). The model keeps their
  order, as the Go compiler and amd64 do; the Go memory model promises it to
  nobody, and in the other order Pick can index out of range while pollers are
  added (the mutant `Rebalance_size`).
- A spurious event leaves writeTrigger closed: the dialer then spins between
  WaitWrite and getsockopt until the answer comes, or until `select` takes the
  context.

### Bounds

- `Connection`: two tasks, since a task that exits can overlap with the one
  that takes over and no third can start before the first is gone; one user
  goroutine; `MaxInput` messages, two in the safety runs so that an exiting task
  and a new one each find one. conn_live has one task to stay small: the
  re-checks it is about run in the task itself.
- `ShardQueue`: two shards are the least for which the ring wraps; two calls of
  Add let one meet a running or an exiting task; all its safety properties are
  proved for every size. `MaxInt` is 2^31 - 1, so no run
  overflows `idx`.
- `ReadWait`: reads of up to 3 bytes in chunks of up to 2, 5 bytes in all, so
  that one read needs several wake-ups and one chunk serves several reads.
- `Flush`: `MaxFlush` bytes: enough for a second flush after one that was sent
  in parts, by one writer with 4 bytes or by two with 3.
- `OperatorCache`: three connections one after the other on one operator, so
  that events, hangups and Releases of two former holders meet the third. What is
  proved holds for any number of operators.
- `LinkBuffer`: nodes of two bytes and three bytes in all, so that every
  operation meets one, two and three nodes; enough nodes and blocks that none
  is ever missing. `MaxDirect` is the largest remainder WriteDirect is called
  with; `AckSizes` has the empty, a partial and the full MallocAck.
- `FifoManager`: a pipe of one page, so that a write of two waits; three flushes
  that wait, to see the second detach; two tasks, as for connections; two
  callers of Write, the least that can race for the writer. Of the Writes that
  come before init has returned, which only the callback can make, one is
  followed (`OneHasty`); InitOnce is proved for any number of callers.
- `Netpoll`: two connections, so that one is accepted while the other closes;
  two shortages and two retry goroutines, the least for which they meet;
  MaxLoops 2 and MaxSets 2 let the pollers grow, shrink and be adjusted during
  Run; two dials, for one that inherits the fd. An event loop serves once and
  one hangup of the listener is followed.

Runs say CHECK_DEADLOCK FALSE because a connection that is closed, and a
workload that is used up, really stop. Symmetry (of tasks, and in
`Netpoll` of connections and of retry goroutines, in `MCFifo` of
callers) is used only where no liveness
is checked and the properties name no member of the permuted sets.

### Fairness

Weak fairness for each goroutine inside a call: the Go scheduler runs every
runnable goroutine. Nothing obliges a program to call, or a peer to send, read
or hang up: those actions have no fairness, except in flush_peer, which assumes
a peer that keeps reading (`WF(PollWait)`). One place needs more:
`SF(RequestReturn /\ inputLen' = 0)`: OnRequest consumes its input sooner or
later, the contract of the handler in the docs. No strong fairness is assumed of
`unused`, whose compare-and-swap may fail at every turn: OperatorReturned names
the steps that make it fail instead.

### Quiescence

In `fifo` and `netpoll` what must eventually happen is an invariant about
`Quiescent`, the states in which no goroutine can go on without a user, a peer
or the clock: nothing is lost there. This finds every lost wake-up, deadlock and
forgotten hand-over. It does not exclude a loop that runs for ever without them;
the loops of these parts consume bytes, connections or closing steps, except the
spin of a dialer after a spurious event and the spin of Pick, which others end.

## Proofs

All theorems hold for every value of the constants that satisfies the named
assumptions: goroutines are distinct and their sets disjoint
(`ConstantsAssumption`, `GoroutinesAssumption`, `ServerAssumption`,
`FifoAssumption`, `ManagerAssumption` and the like), sizes are naturals, and `Modes` and `Kinds`
contain only what the code has (`ModesAssumption`, `FifoAssumption`). None of
the safety properties is inductive alone; what a proof adds is said below. Proofs
about a step have one case per action.

### Connection (`ConnectionProofs`)

`TypeCorrect`, then four layers, each proved with the help of the ones before.
A layer has three kinds of lemma. Its Move lemmas (`PlaceMove`, `KeyMove`,
`LookMove`, `HookTaskMove`...) say, for a goroutine that goes from one label to
another and touches nothing else, which labels a conjunct of the layer lets it
go to; most actions need no more. Its Frame lemma says on which variables the
layer depends. Its Step lemma takes the parts of Next in turn (acceptor, hangup,
poller, tasks, the calls any goroutine makes, users, the peer) and under each its
actions, with proofs of their own for those that change more than their label.

- `KeyInv`: whoever is in a callback, or in the close callbacks, holds the
  processing key, two holders are the same, and only a task that panicked closes
  without it. This gives `OneOnRequestAtATime` and, for programs whose callbacks
  do not panic, `CallbacksAreSerial` (with panics it is false, see the
  deviations).
- `LifeInv`: where each kind of goroutine can be (`PlaceInv`); whoever is past
  `closeBy` finds the connection closed (`CloseInv`); the operator is in state 2
  exactly while the poller works, and who freed it still owns the processing key
  (`OperatorInv`); until the program closes, only the poller detaches, and has
  left epoll when the hangup is handled (`EpollInv`). This gives `FreedOnce`, that
  is NoUseAfterFree, without panics, since freeing is guarded by the same key.
- `OrderInv`: OnDisconnect runs under `connState` or in the one goroutine that
  closed (`DisconnectInv`); until OnConnect has returned, its task owns the
  connecting key, and the processing key unless it panicked (`ConnectInv`). This
  gives `CallbacksInOrder`, without panics, and `OneDisconnect`, with them too.
- `HookInv`: a locked processing key has a holder (`KeyHeld`), every task was
  started with the callback there is (`CaptureInv`), somebody will look at input
  that is there (`LookInv`), somebody will release a closed connection
  (`ReleaseInv`). The last two name the labels from which the code still gets to
  the look, which is the argument for the double checks in onProcess: who gives
  up on the key does so because its holder is still before its re-check. This
  gives `NoInputLeftBehind` and `NothingLeaksAtRest`, with and without panics.

`NoInputLeftBehind` is for dialled connections and for accepted ones whose
OnRequest comes from the event loop (`HandlerFixed`), `NothingLeaksAtRest` for
connections without a late SetOnRequest: a late SetOnRequest meets a task that
was started without the callback (see the deviations).

### Reads and writes (`ReadWaitProofs`, `FlushProofs`)

- `ReadsAreFull`, `WakeUpsAreNotLost` and `TimerIsClean`, from `ReadInv`. Its
  core is `WakeInv`: the reader publishes `waitReadSize` before it looks at the
  buffer, so if its bytes came after the look the poller is on its way to a
  trigger or has left one, which is not EOF because the hangup comes after
  inputAck in the same poller; and whoever closes after the reader's look at the
  key triggers it. WakeUpUnderway is the safety side of ReaderReturns.
- `FlushBeforeFree`, from `FlushInv`: a writer inside flush has the flushing key
  at 1, whoever frees has it at 2 for good, and the operator's state is 2 exactly
  while the poller is inside its handler.
- `BytesInOrder` and `NilMeansSent`, from `OutputInv`. While no timeout is set,
  and no close can meet a second writer (`Calm`), writer and poller take turns
  (`TurnInv`): the poller works, may be called, or has left its trigger only for
  a writer that waits; its trigger is the last it does and says that the buffer
  is empty; what was sent is what was skipped, except between the poller's send
  and its outputAck.

### Operators, queue (`OperatorCacheProofs`, `ShardQueueProofs`)

- `TypeCorrect`, `EventsReachTheirOwner`, `OperatorsAreExclusive`, `DoLocks`,
  `DetachedBeforeReuse`, from one invariant `IInv`. Its core: `EventInv`, an event
  in the batch names an operator that still has the connection as its owner or
  is not usable until the batch is over; `EpollInv`, a connection whose fd is in
  epoll holds its operator, or the operator is in `stray`; `FreshInv`, nobody has detached an operator that was
  not registered; `ReleaseInv`, who is between `do` and `done` has the state at 2.
- `TypeCorrect`; `OneTaskAtATime`, from `RunInv`: a task past the start counts in
  `runNum`; `GettersDealtOnce`, from `PlaceInv` (the places a getter can be are
  disjoint and without repetition), `OldInv` (only getters of calls already made
  exist) and `SwapInv` (the batch is empty unless a task deals it);
  `QueueImplemented`: each step is a step of MuxQueue or leaves its variables
  alone. Lemmas on sequences without repetition carry it.

### Server and event loop (`ServerProofs`)

- `MapClean`, from `MapInv`. NoStaleEntry says nothing of a connection on its way
  into the map: `Accepting` adds that each accepting goroutine has a connection
  of its own, which is not in the map yet and is known as early when it was
  closed meanwhile; `Types` that what is in the map has its callback.
- `OneAccepts`, from `ListenerInv`: until descriptors have run out twice a detach
  takes the listener out of epoll whenever it has to, so that the one goroutine
  that retries is alone, and a later Register finds that it has ended.
- `CloseLeavesOnlyLate`, from `SurviveInv`: the closed listener leaves an empty
  backlog; an open connection is in the map or on its way there; and as long as
  Range has met no busy connection, whatever is open is yet to be visited, is
  being closed, or was in onAccept when Range began.
- `ServeOutlives`, from `LoopInv`: while nobody shuts down, a part of the loop
  that does not run has not started or has quit, and the stop channel is used
  only when both are so.

### Dialer and poll manager (`DialerProofs`)

- `HandedOver` and `Accepted`, for any number of dials, from `DialInv`: the
  poller is inside its handler exactly while the operator's state is 2, so Free
  has waited for it (`HandlerInv`); whoever detached first has deleted the fd or
  is about to, and the dialer is woken after that (`DetachInv`); without an
  error the socket is connected (`SockInv`).
- `SingleRun`, for any number of goroutines, from `RunInv`: while somebody is in
  Run the status is not Uninitialized, unless SetNumLoops reset it. It may be
  Initialized, by the compare-and-swap of an earlier Run that had ended.
- `LoopsAsAsked`, from `PollsInv`: the manager's list, or the one that Run is
  about to store, is without repetition and holds exactly the pollers that run.
  `AppendRuns` and `ShrinkRuns` are the lemmas on such lists.
- `GrowingIsSafe`, from `BalanceInv`: as long as pollers are only added, one Run
  at a time, the balance is what the manager has, except that Rebalance stores
  the slice before its size; who has an index therefore finds it in the slice.

### Fifos (`FifoProofs`)

- Read end, `ReadInv`: one goroutine has `fifoProcessing` and the finalizer does
  not give it back (`KeyInv`); whoever runs the close callbacks finds the fifo
  closing, and so does a fifo stored too late for them (`DeleteInv`). This gives
  `CallbackAlone` and one half of `FinalizedOnce`.
- Write end, `WriteInv`: who flushes has `fifoFlushing`, which the finalizer takes
  for good (`StopInv`, the other half); before the first wait the poller has
  nothing to do with the fifo (`UnusedInv`); in a wait, nil comes after
  everything was sent and the fd detached (`WaitInv`); between two waits of an
  open fifo the poller has left the buffer and no nil is left in the channel,
  unless the fd is still registered, which it is only after the second
  (`BetweenInv`). This gives `FlushIsTrue` and `OutputHasOneOwner`.
- Connection, `OnceInv`: once init has returned and left the writer not ready,
  the holder of `writerMutex` is the only one between its look and its store of
  `writerReady`, and the writer is initialised exactly when it is ready or the
  holder is about to say so. A caller that waited for the mutex finds it ready.
  This gives `InitOnce`, for any number of callers.

### Only model-checked

- What is temporal: NoConnectionLeak, `Connection`'s InputHandled, GettersSent,
  CloseReturns, ReaderReturns, CloseCompletes, FlushReturns, OperatorReturned.
  The prover does not do liveness under fairness. The safety sides of two of
  them, ReleasedAtRest and WakeUpUnderway, are proved.
- What is about quiescence, that is ENABLED: `FifoManager`'s InputHandled and
  Released, BacklogAccepted, ShutdownReturns, DialReturns, and the parts of
  ServeReturns and PickReturns that LoopOutlives and PickSafe leave.
- The link buffer, whose operations are recursive operators over chains of
  nodes: what they compute is out of the prover's reach.
- The violation.

## Not modelled

- The poller's Trigger, the exit of Wait after Close and the growth of its event
  array: system calls around one flag, which no other part reads.
- The kqueue poller, the same handler over another call, and the race-detector
  variants, the same code behind a mutex: a second model would be a copy.
- Detach of a fifo: a Close that leaves the fd open, through the same onClose;
  nothing in the library calls it.
- SetLoadBalance replaces the balance with no synchronisation at all, so it is
  usable only before the first Pick, as in Configure. Reset of the poll manager
  is called by a test and by nothing else.
- System call wrappers, socket options, address conversion, name resolution,
  option setters, the Windows stub, wording and logging: sequential input and
  output without shared state. Zero copy sends are switched off in the code.
- The pool of goroutines is a library: `Tasks` in the modules that use it.
