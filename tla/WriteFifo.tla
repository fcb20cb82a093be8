----------------------------- MODULE WriteFifo -----------------------------
(***************************************************************************)
(* The write end of a named pipe: Flush writes what the pipe has room for, *)
(* and registers the fd for writability, edge triggered, to wait for the   *)
(* poller to write the rest.  Data is counted in pages of the pipe; each   *)
(* action is one access to shared state.                                   *)
(***************************************************************************)
EXTENDS Integers, FiniteSets

CONSTANTS
    Writer,      \* the goroutine that writes and flushes
    Poller,      \* the goroutine of Poll.Wait
    Hup,         \* the goroutine of onhups
    User,        \* a goroutine that closes the fifo
    Room,        \* capacity of the pipe, in pages
    MaxWrite,    \* bound on the pages of one write
    MaxFlushes,  \* bound on the calls of Flush
    MaxWaits     \* bound on the calls of Flush that wait for the poller

Procs == {Writer, Poller, Hup, User}

VARIABLES
    closing,     \* the key fifoClosing: "none", "user" or "poller"
    processing,  \* the key fifoProcessing
    flushing,    \* the key fifoFlushing: 0 free, 1 locked, 2 stopped
    length,      \* pages in outputBuffer
    trigger,     \* writeTrigger: "empty", "nil" or "err"
    epoll,       \* the fd is registered
    edge,        \* the kernel holds an event for the registered fd
    detached,    \* operator.detached > 0
    busy,        \* operator.state: the poller is between do and done
    fin,         \* finalizer: "open", "freed" (the operator) or "closed" (the fd)
    pipe,        \* pages in the pipe
    gone,        \* the reader has closed the pipe
    flushes,     \* number of calls of Flush
    waits,       \* number of them that registered the fd
    result,      \* how the last Flush ended: "none", "ok", "err", "timeout" or "stopped"
    late,        \* the last Flush began after closeBy
    stored,      \* the fifo is in the manager's map
    finals,      \* number of times the finalizer closed the fd
    pc

vars == <<closing, processing, flushing, length, trigger, epoll, edge, detached, busy, fin, pipe,
          gone, flushes, waits, result, late, stored, finals, pc>>
keys == <<closing, processing, flushing>>
kernel == <<epoll, edge>>
operator == <<detached, busy, fin, stored, finals>>
peer == <<pipe, gone>>
calls == <<flushes, waits, result, late>>

Init ==
    /\ closing = "none" /\ processing = FALSE /\ flushing = 0
    /\ length = 0 /\ trigger = "empty"
    /\ epoll = FALSE /\ edge = FALSE
    /\ detached = FALSE /\ busy = FALSE /\ fin = "open" /\ stored = FALSE /\ finals = 0
    /\ pipe = 0 /\ gone = FALSE
    /\ flushes = 0 /\ waits = 0 /\ result = "none" /\ late = FALSE
    /\ pc = [p \in Procs |-> "idle"]

Go(p, from, to) == pc[p] = from /\ pc' = [pc EXCEPT ![p] = to]
triggerWrite(err) == trigger' = IF trigger = "empty" THEN err ELSE trigger
Sendable == IF length < Room - pipe THEN length ELSE Room - pipe

-----------------------------------------------------------------------------
(* The peer: making room in a full pipe is an event for a registered fd. *)

PeerRead ==
    /\ ~gone /\ fin # "closed" /\ pipe > 0 /\ pipe' = pipe - 1 /\ edge' = (edge \/ (epoll /\ pipe = Room))
    /\ UNCHANGED <<keys, length, trigger, epoll, operator, gone, calls, pc>>

PeerClose ==
    /\ ~gone /\ fin # "closed" /\ gone' = TRUE /\ edge' = epoll
    /\ UNCHANGED <<keys, length, trigger, epoll, operator, pipe, calls, pc>>

-----------------------------------------------------------------------------
(* Flush, Write, flush and waitFlush.  After an error the writer stops: *)
(* waitFlush forbids flushing again.                                    *)

FlushLock(n) ==
    /\ result \in {"none", "ok"} /\ flushes < MaxFlushes /\ waits < MaxWaits
    /\ flushes' = flushes + 1 /\ late' = (closing # "none")
    /\ IF flushing = 0
         THEN /\ Go(Writer, "idle", "writev") /\ flushing' = 1 /\ length' = length + n
              /\ UNCHANGED result
         ELSE /\ Go(Writer, "idle", "idle") /\ result' = "stopped" /\ UNCHANGED <<flushing, length>>
    /\ UNCHANGED <<closing, processing, trigger, kernel, operator, peer, waits>>

\* EPIPE once the reader is gone; EAGAIN, that is nothing sent, when it is full.
FlushWritev ==
    /\ IF gone /\ length > 0
         THEN /\ Go(Writer, "writev", "unlock") /\ result' = "err" /\ UNCHANGED <<length, pipe>>
         ELSE /\ Go(Writer, "writev", IF Sendable = length THEN "unlock" ELSE "control")
              /\ length' = length - Sendable /\ pipe' = pipe + Sendable
              /\ result' = IF Sendable = length THEN "ok" ELSE result
    /\ UNCHANGED <<keys, trigger, kernel, operator, gone, flushes, waits, late>>

\* EPOLL_CTL_ADD fails on a registered fd.
FlushControl ==
    /\ waits' = waits + 1
    /\ IF epoll
         THEN Go(Writer, "control", "unlock") /\ result' = "err" /\ UNCHANGED kernel
         ELSE Go(Writer, "control", "wait") /\ epoll' = TRUE /\ edge' = TRUE /\ UNCHANGED result
    /\ UNCHANGED <<keys, length, trigger, operator, peer, flushes, late>>

\* Also the second look at the trigger after a timeout.
WaitRecv ==
    /\ trigger # "empty" /\ trigger' = "empty"
    /\ Go(Writer, "wait", "unlock") /\ result' = IF trigger = "nil" THEN "ok" ELSE "err"
    /\ UNCHANGED <<keys, length, kernel, operator, peer, flushes, waits, late>>

Detach ==
    /\ epoll' = (epoll /\ detached) /\ edge' = (edge /\ detached) /\ detached' = TRUE

WaitTimeout ==
    /\ Go(Writer, "wait", "detachTimeout") /\ trigger = "empty" /\ result' = "timeout"
    /\ UNCHANGED <<keys, length, trigger, kernel, operator, peer, flushes, waits, late>>

DetachTimeout ==
    /\ Go(Writer, "detachTimeout", "unlock") /\ Detach
    /\ UNCHANGED <<keys, length, trigger, busy, fin, stored, finals, peer, calls>>

FlushUnlock ==
    /\ Go(Writer, "unlock", "idle") /\ flushing' = 0
    /\ UNCHANGED <<closing, processing, length, trigger, kernel, operator, peer, calls>>

FlushStep == FlushWritev \/ FlushControl \/ WaitRecv \/ DetachTimeout \/ FlushUnlock
FlushCall == WaitTimeout \/ \E n \in 0..MaxWrite : FlushLock(n)

-----------------------------------------------------------------------------
(* The poller: handler, outputs, outputAck, detachWrite *)

\* A pipe without readers reports an error, and Recvmsg fails on it.
PollWait ==
    /\ epoll /\ edge /\ fin = "open" /\ (pipe < Room \/ gone)
    /\ edge' = FALSE /\ busy' = TRUE
    /\ Go(Poller, "idle", IF gone THEN "hup" ELSE "outputs")
    /\ UNCHANGED <<keys, length, trigger, epoll, detached, fin, stored, finals, peer, calls>>

PollOutputs ==
    /\ Go(Poller, "outputs", IF length = 0 THEN "detach" ELSE "iosend")
    /\ UNCHANGED <<keys, length, trigger, kernel, operator, peer, calls>>

\* Mutant: any progress ends the wait.
PollSend_partial ==
    /\ IF gone
         THEN Go(Poller, "iosend", "hup") /\ UNCHANGED <<length, pipe>>
         ELSE /\ Go(Poller, "iosend", IF Sendable > 0 THEN "detach" ELSE "done")
              /\ length' = length - Sendable /\ pipe' = pipe + Sendable
    /\ UNCHANGED <<keys, trigger, kernel, operator, gone, calls>>

\* iosend and outputAck
PollSend ==
    /\ IF gone
         THEN Go(Poller, "iosend", "hup") /\ UNCHANGED <<length, pipe>>
         ELSE /\ Go(Poller, "iosend", IF Sendable = length THEN "detach" ELSE "done")
              /\ length' = length - Sendable /\ pipe' = pipe + Sendable
    /\ UNCHANGED <<keys, trigger, kernel, operator, gone, calls>>

PollDetach ==
    /\ Go(Poller, "detach", "trigger") /\ Detach
    /\ UNCHANGED <<keys, length, trigger, busy, fin, stored, finals, peer, calls>>

\* Mutant: the poller goes on with the buffer after it has woken the writer.
PollTrigger_goesOn ==
    /\ Go(Poller, "trigger", "outputs") /\ triggerWrite("nil")
    /\ UNCHANGED <<keys, length, kernel, operator, peer, calls>>

PollTrigger ==
    /\ Go(Poller, "trigger", "done") /\ triggerWrite("nil")
    /\ UNCHANGED <<keys, length, kernel, operator, peer, calls>>

PollDone ==
    /\ Go(Poller, "done", "idle") /\ busy' = FALSE
    /\ UNCHANGED <<keys, length, trigger, kernel, detached, fin, stored, finals, peer, calls>>

\* appendHup and onhups; a second goroutine's closeBy fails
PollHup ==
    /\ pc[Poller] = "hup"
    /\ pc' = [pc EXCEPT ![Poller] = "idle", ![Hup] = IF @ = "idle" THEN "onHup" ELSE @]
    /\ Detach /\ busy' = FALSE
    /\ UNCHANGED <<keys, length, trigger, fin, stored, finals, peer, calls>>

Poll ==
    \/ PollWait \/ PollOutputs \/ PollSend \/ PollDetach \/ PollTrigger \/ PollDone \/ PollHup

onHup ==
    /\ Go(Hup, "onHup", IF closing = "none" THEN "hupTrigger" ELSE "returned")
    /\ closing' = IF closing = "none" THEN "poller" ELSE closing
    /\ UNCHANGED <<processing, flushing, length, trigger, kernel, operator, peer, calls>>

HupTrigger ==
    /\ Go(Hup, "hupTrigger", "lock") /\ triggerWrite("err")
    /\ UNCHANGED <<keys, length, kernel, operator, peer, calls>>

-----------------------------------------------------------------------------
(* onClose and closeCallback, run by the user or by Hup *)

CloseBy ==
    /\ Go(User, "closeBy", IF closing = "none" THEN "closeTrigger" ELSE "lock")
    /\ closing' = "user"
    /\ UNCHANGED <<processing, flushing, length, trigger, kernel, operator, peer, calls>>

CloseTrigger ==
    /\ Go(User, "closeTrigger", "lockDetach") /\ triggerWrite("err")
    /\ UNCHANGED <<keys, length, kernel, operator, peer, calls>>

CloseLock(p) ==
    /\ \/ Go(p, "lock", IF processing THEN "returned" ELSE "callbacks")
       \/ Go(p, "lockDetach", IF processing THEN "returned" ELSE "closeDetach")
    /\ processing' = TRUE
    /\ UNCHANGED <<closing, flushing, length, trigger, kernel, operator, peer, calls>>

CloseDetach ==
    /\ Go(User, "closeDetach", "callbacks") /\ Detach
    /\ UNCHANGED <<keys, length, trigger, busy, fin, stored, finals, peer, calls>>

\* The list is walked from the latest: the manager's Delete, the finalizer.
CloseCallbacks(p) ==
    /\ Go(p, "callbacks", "stop") /\ stored' = FALSE
    /\ UNCHANGED <<keys, length, trigger, kernel, detached, busy, fin, finals, peer, calls>>

\* Mutant: the finalizer does not wait for the flush.
StopFlushing_forced(p) ==
    /\ Go(p, "stop", "free") /\ flushing' = 2
    /\ UNCHANGED <<closing, processing, length, trigger, kernel, operator, peer, calls>>

\* The finalizer waits for the flush in progress, then for the poller.
StopFlushing(p) ==
    /\ Go(p, "stop", "free") /\ flushing = 0 /\ flushing' = 2
    /\ UNCHANGED <<closing, processing, length, trigger, kernel, operator, peer, calls>>

FreeOperator(p) ==
    /\ Go(p, "free", "closeFd") /\ ~busy /\ fin' = "freed"
    /\ UNCHANGED <<keys, length, trigger, kernel, detached, busy, stored, finals, peer, calls>>

CloseFd(p) ==
    /\ Go(p, "closeFd", "returned")
    /\ fin' = "closed" /\ finals' = finals + 1 /\ epoll' = FALSE /\ edge' = FALSE
    /\ length' = 0
    /\ UNCHANGED <<keys, trigger, detached, busy, stored, peer, calls>>

Closing(p) ==
    CloseLock(p) \/ CloseCallbacks(p) \/ StopFlushing(p) \/ FreeOperator(p) \/ CloseFd(p)

Close == CloseBy \/ CloseTrigger \/ CloseDetach \/ Closing(User)
HupStep == onHup \/ HupTrigger \/ Closing(Hup)
=============================================================================
