---------------------------- MODULE FifoManager ----------------------------
(***************************************************************************)
(* The fifo manager and fifoConnection over the two ends of ReadFifo and   *)
(* WriteFifo.  A behaviour follows one fifo, chosen at the start: a read   *)
(* fifo from AttachReadFifo ("read", or "attach" when its peer does not    *)
(* wait for it), a write fifo from GenerateWriteFifo, or a connection from *)
(* AttachFifoConnection.  The owner attaches it, the peer writes, reads    *)
(* and hangs up, the poller handles events, and the user closes the fifo   *)
(* directly or through the manager.                                        *)
(***************************************************************************)
EXTENDS Integers, FiniteSets

CONSTANTS
    Tasks, Poller, Hup, User, Owner, Writer,
    Callers,         \* goroutines that Write to a connection
    Kinds,           \* the fifos to consider: "read", "attach", "write", "conn"
    Endings,         \* somebody may "close" the fifo, the callback "panic" or have a "timeout"
    Early,           \* the kinds whose peer acts before the fifo is attached
    MaxBytes, Room, MaxWrite, MaxFlushes, MaxWaits

ASSUME FifoAssumption ==
    /\ {Poller, Hup, User, Owner, Writer} \cap Tasks = {}
    /\ Poller \notin {Hup, User, Owner, Writer} /\ Hup \notin {User, Owner, Writer}
    /\ User \notin {Owner, Writer} /\ Owner # Writer /\ "none" \notin Callers
    /\ Kinds \subseteq {"read", "attach", "write", "conn"} /\ Room \in Nat

VARIABLES
    kind, ending,
    closing, processing, length, waitReadSize, trigger, timer, callback, onDelete, stored,
    epoll, detached, busy, fin, pipe, gone, sent, got, finals, pc, poll, task,
    wclosing, wprocessing, flushing, wlength, wtrigger, wepoll, edge, wdetached, wbusy, wfin,
    wpipe, wgone, flushes, waits, result, lateFlush, wstored, wfinals, wpc,
    lock,        \* holder of the manager's mutex: "none", Owner or User
    onConn,      \* the connection's closeCallbacks holds the manager's Delete
    conns,       \* the connection is in fifoConnections
    inits,       \* number of times writer.init succeeded
    writerReady,
    mutex,       \* holder of writerMutex: "none" or one of Callers
    call,        \* where each of Callers is in Write
    hasty,       \* the connection was written to before it was attached
    late         \* the read fifo was already closing when it was stored

R == INSTANCE ReadFifo
W == INSTANCE WriteFifo WITH
       closing <- wclosing, processing <- wprocessing, length <- wlength, trigger <- wtrigger,
       epoll <- wepoll, detached <- wdetached, busy <- wbusy, fin <- wfin, pipe <- wpipe,
       gone <- wgone, late <- lateFlush, stored <- wstored, finals <- wfinals, pc <- wpc

\* The variables of the two ends, grouped as in their modules
readRest == <<closing, processing, length, waitReadSize, trigger, timer, got, epoll, detached, busy,
              fin, finals, pipe, gone, sent, poll, task>>
readManager == <<callback, onDelete, stored>>
readVars == <<readRest, readManager, pc>>
writeRest == <<wclosing, wprocessing, flushing, wlength, wtrigger, wepoll, edge, wdetached, wbusy,
               wfin, wfinals, wpipe, wgone, flushes, waits, result, lateFlush>>
writeVars == <<writeRest, wstored, wpc>>
choice == <<kind, ending>>
IsRead == kind \in {"read", "attach"}
writes == <<mutex, call, hasty>>
conn == <<onConn, conns, inits, writerReady, writes>>
vars == <<choice, readVars, writeVars, lock, conn, late>>

Init ==
    /\ kind \in Kinds /\ ending \in Endings
    /\ R!Init /\ W!Init
    /\ (~IsRead => ~callback /\ ending = "close")
    /\ lock = "none" /\ onConn = FALSE /\ conns = FALSE
    /\ inits = 0 /\ writerReady = FALSE /\ mutex = "none" /\ call = [c \in Callers |-> "idle"]
    /\ hasty = FALSE /\ late = FALSE

-----------------------------------------------------------------------------
(* The owner: AttachReadFifo, GenerateWriteFifo, AttachFifoConnection *)

InR == UNCHANGED <<choice, writeVars, lock, conn, late>>
InW == UNCHANGED <<choice, readVars, lock, conn, late>>

Attach ==
    /\ R!Go(Owner, "idle", IF kind = "write" THEN "writerInit" ELSE "register")
    /\ UNCHANGED <<readRest, readManager>> /\ InR

readFifo_init ==
    /\ InR
    /\ \/ R!Register(IF kind = "conn" THEN "adapter" ELSE "attach")
       \/ R!RegisterFails \/ R!Closing(Owner)

\* init of the connection goes on: the switch to onFifoTransfer, the writer
SetOnFifoRead ==
    /\ R!Go(Owner, "adapter", "writer") /\ callback' = TRUE
    /\ UNCHANGED <<readRest, onDelete, stored>> /\ InR

NewWriter ==
    /\ R!Go(Owner, "writer", "writerInit") /\ UNCHANGED <<readRest, readManager>> /\ InR

\* writer.init opens the pipe: success, ENXIO (no reader yet), another error
WriterInit ==
    /\ \/ /\ R!Go(Owner, "writerInit", IF kind = "conn" THEN "writerReady" ELSE "attach")
          /\ inits' = inits + 1
       \/ R!Go(Owner, "writerInit", IF kind = "conn" THEN "attach" ELSE "done") /\ UNCHANGED inits
       \/ R!Go(Owner, "writerInit", "done") /\ UNCHANGED inits
    /\ UNCHANGED <<readRest, readManager, choice, writeVars, lock, onConn, conns, writerReady, writes, late>>

WriterReady ==
    /\ R!Go(Owner, "writerReady", "attach") /\ writerReady' = TRUE
    /\ UNCHANGED <<readRest, readManager, choice, writeVars, lock, onConn, conns, inits, writes, late>>

\* m.Lock and AddCloseCallback
AttachAdd ==
    /\ R!Go(Owner, "attach", "store") /\ lock = "none" /\ lock' = Owner
    /\ onDelete' = IsRead /\ onConn' = (kind = "conn")
    /\ UNCHANGED <<readRest, callback, stored, choice, writeVars, conns, inits, writerReady,
                   writes, late>>

\* Store and m.Unlock
AttachStore ==
    /\ R!Go(Owner, "store", IF IsRead THEN "onProcess" ELSE "done")
    /\ stored' = IsRead /\ wstored' = (kind = "write") /\ conns' = (kind = "conn")
    /\ late' = (closing # "none") /\ lock' = "none"
    /\ UNCHANGED <<readRest, callback, onDelete, choice, writeRest, wpc, onConn, inits, writerReady,
                   writes>>

StartHandler ==
    /\ R!onProcess(Owner, "done") \/ R!onProcess_busy(Owner, "done")
    /\ InR

OwnerStep ==
    \/ Attach \/ readFifo_init \/ SetOnFifoRead \/ NewWriter \/ WriterInit \/ WriterReady
    \/ AttachAdd \/ AttachStore \/ StartHandler

-----------------------------------------------------------------------------
(* Write of a connection initialises the writer when it is not ready. *)

Handle == stored \/ wstored \/ conns \/ got > 0
NilWriter == pc[Owner] \in {"idle", "register", "adapter", "writer"}

InC == UNCHANGED <<choice, readVars, writeVars, lock, onConn, conns, late>>
Calls(c, from, to) == call[c] = from /\ call' = [call EXCEPT ![c] = to]

\* A bound: until init has returned only the callback has the connection, and
\* one Write of it is followed.
OneHasty == pc[Owner] = "done" \/ ~hasty

ConnWrite(c) ==
    /\ kind = "conn" /\ Handle /\ ~writerReady /\ OneHasty /\ Calls(c, "idle", "lock")
    /\ hasty' = (hasty \/ pc[Owner] # "done")
    /\ UNCHANGED <<inits, writerReady, mutex>> /\ InC

\* Mutant: TryInitWriter relies on what Write saw before it had the mutex.
TryInitWriter_unchecked(c) ==
    /\ mutex = "none" /\ Calls(c, "lock", "init") /\ mutex' = c
    /\ UNCHANGED <<inits, writerReady, hasty>> /\ InC

\* writerMutex.Lock, and IsWriterReady once more
TryInitWriter(c) ==
    /\ mutex = "none"
    /\ IF writerReady
         THEN Calls(c, "lock", "idle") /\ UNCHANGED mutex
         ELSE Calls(c, "lock", "init") /\ mutex' = c
    /\ UNCHANGED <<inits, writerReady, hasty>> /\ InC

\* writer.init dereferences nil, succeeds or returns an error; a panic unlocks
\* the mutex too.
TryInit(c) ==
    /\ \/ Calls(c, "init", "crashed") /\ NilWriter /\ mutex' = "none" /\ UNCHANGED inits
       \/ Calls(c, "init", "ready") /\ ~NilWriter /\ inits' = inits + 1 /\ UNCHANGED mutex
       \/ Calls(c, "init", "idle") /\ ~NilWriter /\ mutex' = "none" /\ UNCHANGED inits
    /\ UNCHANGED <<writerReady, hasty>> /\ InC

TryReady(c) ==
    /\ Calls(c, "ready", "idle") /\ writerReady' = TRUE /\ mutex' = "none"
    /\ UNCHANGED <<inits, hasty>> /\ InC

-----------------------------------------------------------------------------
(* The user closes the fifo, or the manager, which holds its lock meanwhile *)

\* What Close starts with: the callbacks of a connection, or an end's onClose;
\* a connection then closes its two ends
First == IF IsRead THEN "closeBy" ELSE IF kind = "write" THEN "closeWriter" ELSE "close"

UserClose ==
    /\ Handle /\ ending = "close" /\ R!Go(User, "idle", First)
    /\ UNCHANGED <<readRest, readManager>> /\ InR

\* Once the owner has returned nobody else wants the lock: then the manager's
\* Close is UserClose.
ManagerClose ==
    /\ pc[Owner] # "done"
    /\ lock = "none" /\ lock' = User /\ ending = "close"
    /\ R!Go(User, "idle", IF stored \/ wstored \/ conns THEN First ELSE "closed")
    /\ UNCHANGED <<readRest, readManager, choice, writeVars, conn, late>>

CloseConn ==
    /\ R!Go(User, "close", "closeBy") /\ conns' = (conns /\ ~onConn)
    /\ UNCHANGED <<readRest, readManager, choice, writeVars, lock, onConn, inits, writerReady, writes, late>>

CloseReader == R!Closing(User) /\ InR

ReaderClosed ==
    /\ R!Go(User, "done", IF kind = "conn" THEN "closeWriter" ELSE "closed")
    /\ UNCHANGED <<readRest, readManager>> /\ InR

CloseWriter ==
    /\ pc[User] = "closeWriter" /\ inits > 0 /\ W!Go(User, "idle", "closeBy")
    /\ UNCHANGED <<readVars, choice, writeRest, wstored, lock, conn, late>>

\* A writer that never was initialised has no operator: closeCallback panics.
CloseUnready ==
    /\ inits = 0 /\ wpc[User] = "idle" /\ R!Go(User, "closeWriter", "crashed")
    /\ UNCHANGED <<readRest, readManager>> /\ InR

WriterClosed ==
    /\ R!Go(User, "closeWriter", "closed") /\ wpc[User] = "returned"
    /\ UNCHANGED <<readRest, readManager>> /\ InR

\* deferred, so it comes after a panic too
ManagerUnlock ==
    /\ pc[User] \in {"closed", "crashed"} /\ lock = User /\ lock' = "none"
    /\ UNCHANGED <<readVars, choice, writeVars, conn, late>>

CloseStep ==
    \/ CloseConn \/ CloseReader \/ ReaderClosed \/ CloseWriter \/ CloseUnready \/ WriterClosed \/ ManagerUnlock
    \/ (W!Close /\ InW)

-----------------------------------------------------------------------------

PeerStep ==
    /\ kind \in Early \/ pc[Owner] = "done"
    /\ \/ InR /\ kind # "write" /\ R!PeerClose
       \/ InR /\ kind # "write" /\ R!PeerWrite /\ (kind = "read" \/ sent = 0)
       \/ InW /\ kind = "write" /\ (W!PeerRead \/ W!PeerClose)

TaskStep(t) ==
    InR /\ (R!Task(t, ending = "timeout") \/ R!Closing(t) \/ (ending = "panic" /\ R!CallPanics(t)))
ReadPoll == InR /\ R!Poll
ReadHup == InR /\ (R!HupStep \/ R!Closing(Hup))
TimerStep == InR /\ R!TimerFires
FlushCall == InW /\ kind = "write" /\ inits > 0 /\ pc[Owner] = "done" /\ W!FlushCall
FlushStep == InW /\ W!FlushStep
WritePoll == InW /\ W!Poll
WriteHup == InW /\ W!HupStep
InitStep == \E c \in Callers : TryInitWriter(c) \/ TryInit(c) \/ TryReady(c)

\* What some goroutine does by itself, and what the users, their peers and a
\* write timeout may do or not.
Step ==
    \/ OwnerStep \/ InitStep \/ CloseStep \/ TimerStep
    \/ ReadPoll \/ ReadHup \/ FlushStep \/ WritePoll \/ WriteHup
    \/ \E t \in Tasks : TaskStep(t)

Next == Step \/ (\E c \in Callers : ConnWrite(c)) \/ UserClose \/ ManagerClose \/ PeerStep \/ FlushCall

Spec == Init /\ [][Next]_vars

-----------------------------------------------------------------------------
(* Properties *)

InCallback(t) == pc[t] \in {"call", "wait", "looked", "recv", "take", "fail"}

\* The key fifoProcessing: at most one task runs the callback (onProcess), and
\* never after the finalizer has released the operator, the fd or the buffer.
HandlerAlone ==
    /\ \A t, u \in Tasks : InCallback(t) /\ InCallback(u) => t = u
    /\ (\E t \in Tasks : InCallback(t)) => fin = "open"

\* However the user, the manager, the poller, a panic and the tasks' rechecks
\* race, the finalizer of either end closes its fd at most once, since the number
\* may already belong to another file the second time.  That of the write end
\* releases the buffer neither under a flush nor under the poller that sends from
\* it (stop(fifoFlushing), then Free), and a fifo that was open when it was stored
\* has left the manager's map by then.
Finalized ==
    /\ finals <= 1 /\ wfinals <= 1
    /\ wfin # "open" => ~wbusy /\ wpc[Writer] \notin {"writev", "control", "wait"}
    /\ ~late /\ fin # "open" => ~stored

\* What Flush returns is true.  On nil everything was sent: the nil it received
\* is not left over from an earlier wait.  An error means that the fifo is closed
\* or its reader gone: the fd is not still registered when PollWritable adds it.
\* The second wait is the last for which this holds, because its detachWrite does
\* not take effect.
FlushTrue ==
    /\ wpc[Writer] = "unlock" /\ result = "ok" => wlength = 0 \/ wfin = "closed"
    /\ result = "err" /\ waits <= 2 => wclosing # "none" \/ wgone

\* The writer and the poller never send from outputBuffer at the same time.  It
\* is claimed for a fifo that has waited at most once: operator.detached lets
\* only the first detachWrite take effect.
OutputOwned ==
    waits <= 1 => ~(wpc[Writer] = "writev" /\ wpc[Poller] \in {"outputs", "iosend"})

\* However many goroutines find the writer of a connection missing and try to
\* start it, one succeeds: a second init would leak the fd and drop the buffer
\* that the first has begun to fill (Write, TryInitWriter under writerMutex).
\* It is claimed for connections that are not written to before init returns:
\* init starts the writer without the mutex, after the reader is live.
WriterInitOnce == ~hasty => inits <= 1 /\ \A c \in Callers : call[c] # "crashed"

\* Every goroutine waits for a user or for the peer.  All other loops of the
\* code consume bytes or closing steps, so a behaviour that goes on without
\* them comes to such a state: what holds there has eventually happened.
Quiescent == ~ENABLED Step

\* Bytes that reach an open read fifo with a callback get to the callback,
\* unless it waits for more than there are: onProcess is started, or the
\* waiting reader woken, whatever the poller and the task look at in between.
InputHandled ==
    IsRead /\ callback /\ closing = "none" /\ pc[Owner] = "done" /\ got < sent /\ Quiescent =>
      \E t \in Tasks : pc[t] = "recv" /\ pipe = 0 /\ length < task[t].want

\* A fifo closed by the user, or by the poller when there is a callback, is
\* finalized, and its callback does not wait any more: some closer or task
\* always gets to closeCallback.  A write fifo that is closed is finalized too:
\* the flush that holds fifoFlushing when it is closed is woken, and stop gets the
\* key.  A flush that starts after closeBy may take the key and wait, with no one
\* to wake it.
Released ==
    /\ closing = "user" \/ (closing = "poller" /\ callback /\ IsRead) => fin = "closed" \/ ~Quiescent
    /\ wclosing # "none" => wfin = "closed" \/ (wpc[Writer] = "wait" /\ lateFlush) \/ ~Quiescent
=============================================================================
