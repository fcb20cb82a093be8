-------------------------------- MODULE Flush --------------------------------
(***************************************************************************)
(* The write path of a connection: Flush and Write under the flushing key, *)
(* the direct sendmsg, the hand-over of the rest to the poller, waitFlush  *)
(* with and without a timeout (connection_impl.go), outputs and outputAck  *)
(* in the poller (connection_reactor.go), and the closing by user or       *)
(* poller, which stops the flushing key before it frees the operator.      *)
(*                                                                         *)
(* A byte is its position in the stream: the output buffer holds the bytes *)
(* from head to tail, the kernel was given the bytes up to sentTo.         *)
(* Writers are goroutines outside a handler, so the processing key is free *)
(* until the connection closes (Connection has the rest of that key).      *)
(***************************************************************************)
EXTENDS Integers

CONSTANTS
    Writers,      \* goroutines that call Flush
    Poller, Closer, Hup,
    Handlers,     \* whether OnConnect or OnRequest is set
    MayClose,     \* whether the user or the peer may close
    MaxFlush      \* bound: bytes flushed in a behaviour

ASSUME FlushAssumption ==
    /\ Handlers \in BOOLEAN /\ MayClose \in BOOLEAN
    /\ MaxFlush \in Nat
    /\ Poller \notin Writers /\ Closer \notin Writers /\ Hup \notin Writers
    /\ Poller # Closer /\ Poller # Hup /\ Closer # Hup

Procs == Writers \cup {Poller, Closer, Hup}
Closers == {Closer, Hup}

VARIABLES
    writeTimeout,                   \* whether a write timeout is set
    closing, processing, flushing,  \* keys
    head, tail,                     \* the output buffer
    sentTo, ordered,                \* what the kernel got, and whether in order
    epollOut, attached,             \* the fd in epoll
    opState,                        \* FDOperator.state: 0 unused, 1 in use, 2 do
    writeTrigger,
    pc, lo, hi,                     \* control; bytes got from GetBytes
    err, goal,                      \* a writer's result; tail when it flushed
    hupErr                          \* the poller met an error on the fd

keys == <<closing, processing, flushing>>
buffer == <<head, tail>>
wire == <<sentTo, ordered>>
epoll == <<epollOut, attached>>
bytes == <<lo, hi>>
results == <<err, goal>>
vars == <<writeTimeout, closing, processing, flushing, head, tail, sentTo, ordered,
          epollOut, attached, opState, writeTrigger, pc, lo, hi, err, goal, hupErr>>

FlushLabels == {"flush", "send", "empty", "wait", "try", "rw2r", "unlock"}
PollLabels == {"do", "outputs", "iosend", "ack", "control", "trigger", "done"}
CloseLabels == {"closeTrigger", "closeLock", "detach", "stop", "free", "closed"}
Labels == {"idle", "lock", "onHup"} \cup FlushLabels \cup PollLabels \cup CloseLabels

At(p, label) == pc[p] = label
Goto(p, label) == pc' = [pc EXCEPT ![p] = label]

Init ==
    /\ writeTimeout \in BOOLEAN
    /\ closing = "none" /\ processing = 0 /\ flushing = 0
    /\ head = 0 /\ tail = 0 /\ sentTo = 0 /\ ordered = TRUE
    /\ epollOut = FALSE /\ attached = TRUE /\ opState = 1
    /\ writeTrigger = "empty"
    /\ pc = [p \in Procs |-> "idle"]
    /\ lo = [p \in Procs |-> 0] /\ hi = [p \in Procs |-> 0]
    /\ err = [w \in Writers |-> "nil"] /\ goal = [w \in Writers |-> 0]
    /\ hupErr = FALSE

(* c.triggerWrite: a send that does not block. *)
TriggerWrite(e) == writeTrigger' = IF writeTrigger = "empty" THEN e ELSE writeTrigger

(* The kernel takes the bytes from lo[p] up to m. *)
Send(p, m) ==
    /\ ordered' = (ordered /\ (m = lo[p] \/ lo[p] = sentTo))
    /\ sentTo' = IF m > sentTo THEN m ELSE sentTo

(* outputBuffer.Skip, which refuses more than the buffer holds. *)
Skip(k) == head' = IF head + k <= tail THEN head + k ELSE head

-----------------------------------------------------------------------------
(* Flush.                                                                  *)

Return(w, e) == err' = [err EXCEPT ![w] = e] /\ Goto(w, "unlock")

(* Flush checks IsActive ... *)
FlushCall(w) ==
    /\ At(w, "idle")
    /\ closing = "none"
    /\ tail < MaxFlush
    /\ Goto(w, "lock")
    /\ UNCHANGED <<writeTimeout, keys, buffer, wire, epoll, opState,
                   writeTrigger, bytes, results, hupErr>>

(* ... and takes the flushing key, or returns ErrConcurrentAccess. *)
LockFlushing(w) ==
    /\ At(w, "lock")
    /\ IF flushing = 0
       THEN flushing' = 1 /\ err' = err /\ Goto(w, "flush")
       ELSE flushing' = flushing /\ err' = [err EXCEPT ![w] = "concurrent"] /\ Goto(w, "idle")
    /\ UNCHANGED <<writeTimeout, closing, processing, buffer, wire, epoll,
                   opState, writeTrigger, bytes, goal, hupErr>>

(* outputBuffer.Flush of what was written, then flush gets the bytes. *)
FlushBuffer(w) ==
    /\ At(w, "flush")
    /\ \E k \in 0 .. 2 : tail + k <= MaxFlush /\ tail' = tail + k
    /\ goal' = [goal EXCEPT ![w] = tail']
    /\ IF head = tail'
       THEN Return(w, "nil") /\ UNCHANGED bytes
       ELSE /\ lo' = [lo EXCEPT ![w] = head]
            /\ hi' = [hi EXCEPT ![w] = tail']
            /\ err' = err /\ Goto(w, "send")
    /\ UNCHANGED <<writeTimeout, keys, head, wire, epoll, opState,
                   writeTrigger, hupErr>>

(* sendmsg takes some of the bytes, none of them, or fails; Skip may refuse. *)
SendMsg(w) ==
    /\ At(w, "send")
    /\ \/ \E m \in lo[w] .. hi[w] :
            /\ Send(w, m) /\ Skip(m - lo[w])
            /\ IF head + (m - lo[w]) <= tail THEN err' = err /\ Goto(w, "empty") ELSE Return(w, "io")
       \/ Return(w, "io") /\ UNCHANGED <<head, wire>>
    /\ UNCHANGED <<writeTimeout, keys, tail, epoll, opState, writeTrigger,
                   bytes, goal, hupErr>>

(* Mutant of AskPoller: the writer does not wait for the poller. *)
AskPoller_async(w) ==
    /\ At(w, "empty")
    /\ epollOut' = (head # tail)
    /\ Return(w, "nil")
    /\ UNCHANGED <<writeTimeout, keys, buffer, wire, attached, opState,
                   writeTrigger, bytes, goal, hupErr>>

(* All is sent, or the poller is asked for the rest (PollR2RW). *)
AskPoller(w) ==
    /\ At(w, "empty")
    /\ IF head = tail
       THEN Return(w, "nil") /\ UNCHANGED epollOut
       ELSE IF attached
            THEN epollOut' = TRUE /\ err' = err /\ Goto(w, "wait")
            ELSE Return(w, "io") /\ UNCHANGED epollOut
    /\ UNCHANGED <<writeTimeout, keys, buffer, wire, attached, opState,
                   writeTrigger, bytes, goal, hupErr>>

(* waitFlush: <-c.writeTrigger. *)
WaitFlush(w) ==
    /\ At(w, "wait")
    /\ writeTrigger # "empty"
    /\ writeTrigger' = "empty"
    /\ Return(w, writeTrigger)
    /\ UNCHANGED <<writeTimeout, keys, buffer, wire, epoll, opState, bytes,
                   goal, hupErr>>

(* The write timer fires. *)
Expire(w) ==
    /\ At(w, "wait")
    /\ writeTimeout
    /\ Goto(w, "try")
    /\ UNCHANGED <<writeTimeout, keys, buffer, wire, epoll, opState,
                   writeTrigger, bytes, results, hupErr>>

(* Try to fetch the trigger if both cases fired. *)
TryTrigger(w) ==
    /\ At(w, "try")
    /\ IF writeTrigger # "empty"
       THEN writeTrigger' = "empty" /\ Return(w, writeTrigger)
       ELSE writeTrigger' = writeTrigger /\ err' = err /\ Goto(w, "rw2r")
    /\ UNCHANGED <<writeTimeout, keys, buffer, wire, epoll, opState, bytes,
                   goal, hupErr>>

(* Remove the write event from the poller; the answer of Control is dropped. *)
WriteTimedOut(w) ==
    /\ At(w, "rw2r")
    /\ epollOut' = FALSE
    /\ Return(w, "timeout")
    /\ UNCHANGED <<writeTimeout, keys, buffer, wire, attached, opState,
                   writeTrigger, bytes, goal, hupErr>>

(* defer c.unlock(flushing) *)
UnlockFlushing(w) ==
    /\ At(w, "unlock")
    /\ flushing' = 0
    /\ Goto(w, "idle")
    /\ UNCHANGED <<writeTimeout, closing, processing, buffer, wire, epoll,
                   opState, writeTrigger, bytes, results, hupErr>>

-----------------------------------------------------------------------------
(* The poller.                                                             *)

(* epoll_wait reports the fd writable ... *)
PollWait ==
    /\ At(Poller, "idle")
    /\ attached /\ epollOut
    /\ Goto(Poller, "do")
    /\ UNCHANGED <<writeTimeout, keys, buffer, wire, epoll, opState,
                   writeTrigger, bytes, results, hupErr>>

(* ... and the handler takes the operator, unless it was freed meanwhile. *)
PollDo ==
    /\ At(Poller, "do")
    /\ IF opState = 1
       THEN opState' = 2 /\ Goto(Poller, "outputs")
       ELSE opState' = opState /\ Goto(Poller, "idle")
    /\ UNCHANGED <<writeTimeout, keys, buffer, wire, epoll, writeTrigger,
                   bytes, results, hupErr>>

(* outputs: an empty buffer goes to rw2r. *)
Outputs ==
    /\ At(Poller, "outputs")
    /\ IF head = tail
       THEN Goto(Poller, "control") /\ UNCHANGED bytes
       ELSE /\ lo' = [lo EXCEPT ![Poller] = head]
            /\ hi' = [hi EXCEPT ![Poller] = tail]
            /\ Goto(Poller, "iosend")
    /\ UNCHANGED <<writeTimeout, keys, buffer, wire, epoll, opState,
                   writeTrigger, results, hupErr>>

(* iosend sends some of the bytes, or fails. *)
IoSend ==
    /\ At(Poller, "iosend")
    /\ \/ \E m \in lo[Poller] + 1 .. hi[Poller] :
            /\ Send(Poller, m)
            /\ hi' = [hi EXCEPT ![Poller] = m]
            /\ UNCHANGED hupErr
       \/ /\ MayClose
          /\ hupErr' = TRUE
          /\ hi' = [hi EXCEPT ![Poller] = lo[Poller]]
          /\ UNCHANGED wire
    /\ Goto(Poller, "ack")
    /\ UNCHANGED <<writeTimeout, keys, buffer, epoll, opState, writeTrigger,
                   lo, results>>

(* Mutant of OutputAck: the trigger does not wait for the whole buffer. *)
OutputAck_early ==
    /\ At(Poller, "ack")
    /\ Skip(hi[Poller] - lo[Poller])
    /\ Goto(Poller, "control")
    /\ UNCHANGED <<writeTimeout, keys, tail, wire, epoll, opState,
                   writeTrigger, bytes, results, hupErr>>

(* Mutant of OutputAck: an emptied buffer is left to the next event. *)
OutputAck_silent ==
    /\ At(Poller, "ack")
    /\ Skip(hi[Poller] - lo[Poller])
    /\ epollOut' = (head' # tail)
    /\ Goto(Poller, "done")
    /\ UNCHANGED <<writeTimeout, keys, tail, wire, attached, opState,
                   writeTrigger, bytes, results, hupErr>>

(* outputAck: skip what was sent; an empty buffer goes to rw2r. *)
OutputAck ==
    /\ At(Poller, "ack")
    /\ Skip(hi[Poller] - lo[Poller])
    /\ Goto(Poller, IF head' = tail THEN "control" ELSE "done")
    /\ UNCHANGED <<writeTimeout, keys, tail, wire, epoll, opState,
                   writeTrigger, bytes, results, hupErr>>

(* rw2r: PollRW2R ... *)
RW2R ==
    /\ At(Poller, "control")
    /\ epollOut' = FALSE
    /\ Goto(Poller, "trigger")
    /\ UNCHANGED <<writeTimeout, keys, buffer, wire, attached, opState,
                   writeTrigger, bytes, results, hupErr>>

(* ... and the trigger. *)
RW2RTrigger ==
    /\ At(Poller, "trigger")
    /\ TriggerWrite("nil")
    /\ Goto(Poller, "done")
    /\ UNCHANGED <<writeTimeout, keys, buffer, wire, epoll, opState, bytes,
                   results, hupErr>>

(* operator.done, after an error with appendHup: detach, and onHup later.  *)
PollDone ==
    /\ At(Poller, "done")
    /\ opState' = 1
    /\ hupErr' = FALSE
    /\ IF hupErr /\ At(Hup, "idle")
       THEN attached' = FALSE /\ pc' = [pc EXCEPT ![Poller] = "idle", ![Hup] = "onHup"]
       ELSE attached' = attached /\ Goto(Poller, "idle")
    /\ UNCHANGED <<writeTimeout, keys, buffer, wire, epollOut, writeTrigger,
                   bytes, results>>

(* The peer closed: the poller detaches the fd and starts onHup. *)
PeerClose ==
    /\ MayClose
    /\ At(Poller, "idle") /\ At(Hup, "idle")
    /\ attached
    /\ attached' = FALSE
    /\ Goto(Hup, "onHup")
    /\ UNCHANGED <<writeTimeout, keys, buffer, wire, epollOut, opState,
                   writeTrigger, bytes, results, hupErr>>

-----------------------------------------------------------------------------
(* onHup, onClose, closeCallback and the finalizer.                        *)

OnHup ==
    /\ At(Hup, "onHup")
    /\ IF closing = "none"
       THEN closing' = "poller" /\ Goto(Hup, "closeTrigger")
       ELSE closing' = closing /\ Goto(Hup, "closed")
    /\ UNCHANGED <<writeTimeout, processing, flushing, buffer, wire, epoll,
                   opState, writeTrigger, bytes, results, hupErr>>

OnClose ==
    /\ MayClose
    /\ At(Closer, "idle")
    /\ closing' = "user"
    /\ Goto(Closer, IF closing = "none" THEN "closeTrigger" ELSE "closeLock")
    /\ UNCHANGED <<writeTimeout, processing, flushing, buffer, wire, epoll,
                   opState, writeTrigger, bytes, results, hupErr>>

(* Mutant of CloseTrigger: the writer is not woken. *)
CloseTrigger_dropped(c) ==
    /\ At(c, "closeTrigger")
    /\ Goto(c, IF c = Hup /\ ~Handlers THEN "closed" ELSE "closeLock")
    /\ UNCHANGED <<writeTimeout, keys, buffer, wire, epoll, opState,
                   writeTrigger, bytes, results, hupErr>>

(* Without handlers onHup leaves the rest to the user's Close. *)
CloseTrigger(c) ==
    /\ At(c, "closeTrigger")
    /\ TriggerWrite("connClosed")
    /\ Goto(c, IF c = Hup /\ ~Handlers THEN "closed" ELSE "closeLock")
    /\ UNCHANGED <<writeTimeout, keys, buffer, wire, epoll, opState, bytes,
                   results, hupErr>>

CloseLock(c) ==
    /\ At(c, "closeLock")
    /\ IF processing = 0
       THEN processing' = 1 /\ Goto(c, "detach")
       ELSE processing' = processing /\ Goto(c, "closed")
    /\ UNCHANGED <<writeTimeout, closing, flushing, buffer, wire, epoll,
                   opState, writeTrigger, bytes, results, hupErr>>

(* PollDetach, once; the poller did it before onHup. *)
Detach(c) ==
    /\ At(c, "detach")
    /\ attached' = FALSE
    /\ Goto(c, "stop")
    /\ UNCHANGED <<writeTimeout, keys, buffer, wire, epollOut, opState,
                   writeTrigger, bytes, results, hupErr>>

(* Mutant of StopFlushing: the key is forced. *)
StopFlushing_forced(c) ==
    /\ At(c, "stop")
    /\ flushing' = 2
    /\ Goto(c, "free")
    /\ UNCHANGED <<writeTimeout, closing, processing, buffer, wire, epoll,
                   opState, writeTrigger, bytes, results, hupErr>>

(* c.stop(flushing) spins until no writer holds the key. *)
StopFlushing(c) ==
    /\ At(c, "stop")
    /\ flushing = 0
    /\ flushing' = 2
    /\ Goto(c, "free")
    /\ UNCHANGED <<writeTimeout, closing, processing, buffer, wire, epoll,
                   opState, writeTrigger, bytes, results, hupErr>>

(* operator.Free spins until the poller is done with the operator; then    *)
(* the fd and the buffers are closed.                                      *)
Free(c) ==
    /\ At(c, "free")
    /\ opState = 1
    /\ opState' = 0
    /\ Goto(c, "closed")
    /\ UNCHANGED <<writeTimeout, keys, buffer, wire, epoll, writeTrigger,
                   bytes, results, hupErr>>

-----------------------------------------------------------------------------
InFlush(w) ==
    \/ LockFlushing(w) \/ FlushBuffer(w) \/ SendMsg(w) \/ AskPoller(w) \/ WaitFlush(w)
    \/ Expire(w) \/ TryTrigger(w) \/ WriteTimedOut(w) \/ UnlockFlushing(w)

InPoll == PollDo \/ Outputs \/ IoSend \/ OutputAck \/ RW2R \/ RW2RTrigger \/ PollDone

InClose(c) == CloseTrigger(c) \/ CloseLock(c) \/ Detach(c) \/ StopFlushing(c) \/ Free(c)

Next ==
    \/ \E w \in Writers : FlushCall(w) \/ InFlush(w)
    \/ PollWait \/ InPoll \/ PeerClose
    \/ OnHup \/ OnClose
    \/ \E c \in Closers : InClose(c)

Spec == Init /\ [][Next]_vars

(* Goroutines and the poller go on with what they began.  Nothing makes    *)
(* the fd writable: the peer may never read again.                         *)
Fairness ==
    /\ \A w \in Writers : WF_vars(InFlush(w))
    /\ WF_vars(InPoll) /\ WF_vars(OnHup)
    /\ \A c \in Closers : WF_vars(InClose(c))

FairSpec == Spec /\ Fairness

(* The peer keeps reading, so the fd becomes writable again. *)
ReadingPeerSpec == FairSpec /\ WF_vars(PollWait)

-----------------------------------------------------------------------------
(* Properties.                                                             *)

(* Writer and poller take turns with the output buffer: as long as no      *)
(* write can time out and the connection is open, every byte is given to   *)
(* the kernel once and in its place (connection_lock.go, flushing).        *)
SentInOrder ==
    ~writeTimeout /\ closing = "none" =>
        /\ ordered
        /\ \A p \in Procs : At(p, "send") \/ At(p, "iosend") => lo[p] = sentTo

(* "Flush will send all malloc data to the peer": without a write timeout, *)
(* when Flush returns nil the bytes it flushed were given to the kernel.   *)
(* With two writers a close breaks it: it wakes the first, and the second  *)
(* can take the trigger that the poller had ready for the first.           *)
FlushSends ==
    ~writeTimeout /\ (MayClose => \A v, w \in Writers : v = w) =>
        \A w \in Writers : At(w, "unlock") /\ err[w] = "nil" => sentTo >= goal[w]

(* "closing should wait for flushing finished": the operator is freed, and *)
(* the buffers closed, only when no writer is inside flush and the poller  *)
(* is not writing.                                                         *)
FreedAfterFlush ==
    opState = 0 => /\ \A w \in Writers : pc[w] \notin FlushLabels
                   /\ pc[Poller] \notin PollLabels \ {"do"}

(* Close gets to its end although a writer waits for a peer that never     *)
(* reads: the writer is woken and gives up the flushing key.               *)
CloseCompletes == At(Closer, "closeTrigger") ~> At(Closer, "closed")

(* A waiting writer returns if the peer keeps reading. *)
FlushReturns == \A w \in Writers : At(w, "wait") ~> At(w, "idle")
====
