------------------------------ MODULE ReadFifo ------------------------------
(***************************************************************************)
(* The read end of a named pipe: the poller reads bytes into the input     *)
(* buffer and starts a task that runs the OnFifoRead callback, the user    *)
(* closes the fifo, or the poller does when all writers are gone.          *)
(* Bytes are counted.  Each action is one access to shared state: a key,   *)
(* the trigger channel, the epoll registration, the callback list.         *)
(***************************************************************************)
EXTENDS Integers, FiniteSets

CONSTANTS
    Tasks,      \* goroutines that may run the handler
    Poller,     \* the goroutine of Poll.Wait
    Hup,        \* the goroutine of onhups
    User,       \* a goroutine that closes the fifo
    Owner,      \* the goroutine that attaches the fifo
    MaxBytes    \* bound on the bytes that the peer writes

Procs == Tasks \cup {Poller, Hup, User, Owner}

VARIABLES
    closing,     \* the key fifoClosing: "none", "user" or "poller"
    processing,  \* the key fifoProcessing
    length,      \* bytes in inputBuffer
    waitReadSize,
    trigger,     \* readTrigger: "empty", "nil" or "err"
    timer,       \* readTimer: "off", "on" or "fired"
    callback,    \* onFifoReadCallback is set
    onDelete,    \* closeCallbacks holds the manager's Delete
    stored,      \* the fifo is in the manager's map
    epoll,       \* the fd is registered
    detached,    \* operator.detached > 0
    busy,        \* operator.state: the poller is between do and done
    fin,         \* "closed" once the finalizer has run, else "open"
    pipe,        \* bytes in the pipe
    gone,        \* the writers have closed the pipe
    sent, got,   \* bytes written by the peer, and taken by the callback
    finals,      \* number of times the finalizer closed the fd
    pc,
    poll,        \* the poller's locals: triggerHup, length
    task         \* a task's locals: onFifoRead # nil, closedBy, bytes wanted

vars == <<closing, processing, length, waitReadSize, trigger, timer, callback, onDelete, stored,
          epoll, detached, busy, fin, pipe, gone, sent, got, finals, pc, poll, task>>
keys == <<closing, processing>>
buffer == <<length, waitReadSize, trigger, timer, got>>
manager == <<callback, onDelete, stored>>
operator == <<epoll, detached, busy, fin, finals>>
peer == <<pipe, gone, sent>>
locals == <<poll, task>>

NoTask == [on |-> FALSE, closedBy |-> "none", want |-> 0]

Init ==
    /\ closing = "none" /\ processing = FALSE
    /\ length = 0 /\ waitReadSize = 0 /\ trigger = "empty" /\ timer = "off" /\ got = 0
    /\ callback \in BOOLEAN /\ onDelete = FALSE /\ stored = FALSE
    /\ epoll = FALSE /\ detached = FALSE /\ busy = FALSE /\ fin = "open" /\ finals = 0
    /\ pipe = 0 /\ gone = FALSE /\ sent = 0
    /\ pc = [p \in Procs |-> "idle"]
    /\ poll = [hup |-> FALSE, length |-> 0]
    /\ task = [t \in Tasks |-> NoTask]

Go(p, from, to) == pc[p] = from /\ pc' = [pc EXCEPT ![p] = to]
triggerRead(err) == trigger' = IF trigger = "empty" THEN err ELSE trigger

\* Some task that does not run, for runner.RunTask.
NewTask(q) == [q EXCEPT ![CHOOSE t \in Tasks : q[t] = "idle"] = "START"]
CanRun == \E t \in Tasks : pc[t] = "idle"

-----------------------------------------------------------------------------
(* The peer *)

PeerWrite ==
    /\ ~gone /\ fin = "open" /\ sent < MaxBytes /\ sent' = sent + 1 /\ pipe' = pipe + 1
    /\ UNCHANGED <<keys, buffer, manager, operator, gone, pc, locals>>

PeerClose ==
    /\ ~gone /\ fin = "open" /\ gone' = TRUE
    /\ UNCHANGED <<keys, buffer, manager, operator, pipe, sent, pc, locals>>

-----------------------------------------------------------------------------
(* init ends with register(PollReadable), which closes the fifo if it fails. *)

Register(next) ==
    /\ Go(Owner, "register", next) /\ epoll' = TRUE
    /\ UNCHANGED <<keys, buffer, manager, detached, busy, fin, finals, peer, locals>>

RegisterFails ==
    /\ Go(Owner, "register", "closeBy")
    /\ UNCHANGED <<keys, buffer, manager, operator, peer, locals>>

onProcess(p, next) ==
    /\ pc[p] = "onProcess" /\ ~processing /\ CanRun
    /\ processing' = TRUE /\ pc' = NewTask([pc EXCEPT ![p] = next])
    /\ UNCHANGED <<closing, buffer, manager, operator, peer, locals>>

\* Mutant: onProcess counts as done although a task is running.
onProcess_busy_done(p, next) ==
    /\ Go(p, "onProcess", IF p = Poller THEN "more" ELSE next) /\ processing
    /\ UNCHANGED <<keys, buffer, manager, operator, peer, locals>>

onProcess_busy(p, next) ==
    /\ Go(p, "onProcess", next) /\ processing
    /\ UNCHANGED <<keys, buffer, manager, operator, peer, locals>>

-----------------------------------------------------------------------------
(* The poller: handler, inputs, inputAck *)

PollWait ==
    /\ epoll /\ fin = "open" /\ (pipe > 0 \/ gone) /\ busy' = TRUE
    /\ Go(Poller, "idle", IF pipe > 0 THEN "read" ELSE "hup")
    /\ poll' = [poll EXCEPT !.hup = gone]
    /\ UNCHANGED <<keys, buffer, manager, epoll, detached, fin, finals, peer, task>>

PollRead(n) ==
    /\ Go(Poller, "read", IF length = 0 THEN "onProcess" ELSE "trigger")
    /\ n \in 1..pipe /\ pipe' = pipe - n /\ length' = length + n
    /\ poll' = [poll EXCEPT !.length = length + n]
    /\ UNCHANGED <<keys, waitReadSize, trigger, timer, got, manager, operator, gone, sent, task>>

PollTrigger ==
    /\ Go(Poller, "trigger", "more")
    /\ IF poll.length >= waitReadSize THEN triggerRead("nil") ELSE UNCHANGED trigger
    /\ UNCHANGED <<keys, length, waitReadSize, timer, got, manager, operator, peer, locals>>

\* With a hang-up readall reads until the pipe is empty; bytes put it off.
PollMore ==
    /\ Go(Poller, "more", IF poll.hup /\ pipe > 0 THEN "read" ELSE "idle")
    /\ busy' = (poll.hup /\ pipe > 0)
    /\ poll' = [hup |-> poll.hup /\ pipe > 0, length |-> 0]
    /\ UNCHANGED <<keys, buffer, manager, epoll, detached, fin, finals, peer, task>>

Detach ==
    /\ epoll' = (epoll /\ detached) /\ detached' = TRUE

\* appendHup and onhups; a second goroutine's closeBy fails
PollHup ==
    /\ pc[Poller] = "hup"
    /\ pc' = [pc EXCEPT ![Poller] = "idle", ![Hup] = IF @ = "idle" THEN "onHup" ELSE @]
    /\ Detach /\ busy' = FALSE /\ poll' = [poll EXCEPT !.hup = FALSE]
    /\ UNCHANGED <<keys, buffer, manager, fin, finals, peer, task>>

\* closeBy and the trigger
onHup ==
    /\ Go(Hup, "onHup", IF closing = "none" THEN "loaded" ELSE "done")
    /\ IF closing = "none" THEN closing' = "poller" /\ triggerRead("err") ELSE UNCHANGED <<closing, trigger>>
    /\ UNCHANGED <<processing, length, waitReadSize, timer, got, manager, operator, peer, locals>>

\* Without a callback the user has to close the fifo.
HupClose ==
    /\ Go(Hup, "loaded", IF callback THEN "lock" ELSE "done")
    /\ UNCHANGED <<keys, buffer, manager, operator, peer, locals>>

-----------------------------------------------------------------------------
(* onClose and closeCallback, run by the user, the owner, Hup or a task *)

CloseBy(p) ==
    /\ Go(p, "closeBy", IF closing = "none" THEN "lockDetach" ELSE "lock")
    /\ closing' = "user"
    /\ IF closing = "none" THEN triggerRead("err") ELSE UNCHANGED trigger
    /\ UNCHANGED <<processing, length, waitReadSize, timer, got, manager, operator, peer, locals>>

\* closeCallback(needLock, needDetach) up to the callbacks: the pcs "lock" and
\* "lockDetach" stand for (true, _), "detach" for (false, true).
CloseLock(p) ==
    /\ pc[p] \in {"lock", "lockDetach"} /\ processing
    /\ pc' = [pc EXCEPT ![p] = "done"]
    /\ UNCHANGED <<keys, buffer, manager, operator, peer, locals>>

CloseDetach(p) ==
    /\ pc[p] = "detach" \/ (pc[p] \in {"lock", "lockDetach"} /\ ~processing)
    /\ pc' = [pc EXCEPT ![p] = "callbacks"] /\ processing' = TRUE
    /\ IF pc[p] = "lock" THEN UNCHANGED <<epoll, detached>> ELSE Detach
    /\ UNCHANGED <<closing, buffer, manager, busy, fin, finals, peer, locals>>

\* The list is walked from the latest: the manager's Delete, the finalizer.
CloseCallbacks(p) ==
    /\ Go(p, "callbacks", "finalizer")
    /\ stored' = (stored /\ ~onDelete)
    /\ UNCHANGED <<keys, buffer, callback, onDelete, operator, peer, locals>>

\* Free spins while the poller uses the operator; closing the fd takes it out
\* of epoll; closeBuffer drops what is unread.
Finalizer(p) ==
    /\ Go(p, "finalizer", "done") /\ ~busy
    /\ fin' = "closed" /\ finals' = finals + 1 /\ epoll' = FALSE
    /\ length' = IF callback THEN 0 ELSE length
    /\ UNCHANGED <<keys, waitReadSize, trigger, timer, got, manager, detached, busy, peer, locals>>

Closing(p) ==
    \/ CloseBy(p) \/ CloseLock(p) \/ CloseDetach(p) \/ CloseCallbacks(p) \/ Finalizer(p)

-----------------------------------------------------------------------------
(* The task of onProcess *)

TaskStart(t) ==
    /\ Go(t, "START", IF callback /\ length > 0 THEN "call" ELSE "status")
    /\ task' = [task EXCEPT ![t].on = callback]
    /\ UNCHANGED <<keys, buffer, manager, operator, peer, poll>>

TaskStatus(t) ==
    /\ Go(t, "status", "len") /\ task' = [task EXCEPT ![t].closedBy = closing]
    /\ UNCHANGED <<keys, buffer, manager, operator, peer, poll>>

TaskLen(t) ==
    LET by == task[t].closedBy
        again == by # "user" /\ task[t].on /\ length > 0
    IN /\ Go(t, "len", IF again THEN "call" ELSE IF by = "none" THEN "unlock"
                       ELSE IF by = "user" THEN "detach" ELSE "callbacks")
       /\ task' = [task EXCEPT ![t].closedBy = "none"]
       /\ UNCHANGED <<keys, buffer, manager, operator, peer, poll>>

TaskUnlock(t) ==
    /\ Go(t, "unlock", "recheckClosing") /\ processing' = FALSE
    /\ UNCHANGED <<closing, buffer, manager, operator, peer, locals>>

\* Mutant: the close state is not checked again after the unlock.
RecheckClosing_dropped(t) ==
    /\ Go(t, "recheckClosing", "recheckLen")
    /\ UNCHANGED <<keys, buffer, manager, operator, peer, locals>>

RecheckClosing(t) ==
    LET take == closing # "none" /\ ~processing
    IN /\ Go(t, "recheckClosing", IF take THEN "callbacks" ELSE "recheckLen")
       /\ processing' = (processing \/ take)
       /\ UNCHANGED <<closing, buffer, manager, operator, peer, locals>>

\* Mutant: the task goes on without the key.
RecheckLen_unlocked(t) ==
    LET take == task[t].on /\ length > 0
    IN /\ Go(t, "recheckLen", IF take THEN "START" ELSE "idle")
       /\ processing' = (processing \/ take) /\ task' = [task EXCEPT ![t] = NoTask]
       /\ UNCHANGED <<closing, buffer, manager, operator, peer, poll>>

RecheckLen(t) ==
    LET take == task[t].on /\ length > 0 /\ ~processing
    IN /\ Go(t, "recheckLen", IF take THEN "START" ELSE "idle")
       /\ processing' = (processing \/ take) /\ task' = [task EXCEPT ![t] = NoTask]
       /\ UNCHANGED <<closing, buffer, manager, operator, peer, poll>>

TaskEnd(t) ==
    /\ Go(t, "done", "idle") /\ task' = [task EXCEPT ![t] = NoTask]
    /\ UNCHANGED <<keys, buffer, manager, operator, peer, poll>>

\* The callback reads n bytes, with or without a timeout, panics, or closes
\* the fifo: then closeCallback finds processing locked, by the task itself.
Call(t, n, readTimeout) ==
    /\ Go(t, "call", IF n <= length THEN "take" ELSE "wait")
    /\ task' = [task EXCEPT ![t].want = n]
    /\ waitReadSize' = IF n <= length THEN waitReadSize ELSE n
    /\ timer' = IF n > length /\ readTimeout THEN "on" ELSE timer
    /\ UNCHANGED <<keys, length, trigger, got, manager, operator, peer, poll>>

CallPanics(t) ==
    /\ Go(t, "call", "closeBy") /\ processing' = FALSE
    /\ UNCHANGED <<closing, buffer, manager, operator, peer, locals>>

CallCloses(t) ==
    /\ Go(t, "call", "status") /\ closing' = "user"
    /\ IF closing = "none" THEN triggerRead("err") ELSE UNCHANGED trigger
    /\ UNCHANGED <<processing, length, waitReadSize, timer, got, manager, operator, peer, locals>>

\* waitRead and waitReadWithTimeout: the loop's condition, then the status.
WaitLoop(t) ==
    /\ Go(t, "wait", IF length >= task[t].want THEN "take" ELSE "looked")
    /\ UNCHANGED <<keys, buffer, manager, operator, peer, locals>>

WaitStatus(t) ==
    /\ Go(t, "looked", IF closing # "none" THEN "fail" ELSE "recv")
    /\ UNCHANGED <<keys, buffer, manager, operator, peer, locals>>

WaitRecv(t) ==
    /\ trigger # "empty" /\ trigger' = "empty"
    /\ Go(t, "recv", IF trigger = "nil" THEN "wait" ELSE "fail")
    /\ UNCHANGED <<keys, length, waitReadSize, timer, got, manager, operator, peer, locals>>

TimerFires ==
    /\ timer = "on" /\ timer' = "fired"
    /\ UNCHANGED <<keys, length, waitReadSize, trigger, got, manager, operator, peer, pc, locals>>

WaitTimeout(t) ==
    /\ timer = "fired" /\ timer' = "off"
    /\ Go(t, "recv", IF length >= task[t].want THEN "take" ELSE "fail")
    /\ UNCHANGED <<keys, length, waitReadSize, trigger, got, manager, operator, peer, locals>>

\* The read succeeds, and the callback goes on or returns; or it failed and
\* the callback takes what there is.
CallReturns(t) ==
    LET n == IF pc[t] = "take" THEN task[t].want ELSE length
    IN /\ Go(t, "take", "call") \/ Go(t, "take", "status") \/ Go(t, "fail", "status")
       /\ length' = length - n /\ got' = got + n
       /\ waitReadSize' = 0 /\ timer' = "off" /\ task' = [task EXCEPT ![t].want = 0]
       /\ UNCHANGED <<keys, trigger, manager, operator, peer, poll>>

Task(t, readTimeout) ==
    \/ TaskStart(t) \/ TaskStatus(t) \/ TaskLen(t) \/ TaskUnlock(t)
    \/ RecheckClosing(t) \/ RecheckLen(t) \/ TaskEnd(t)
    \/ \E n \in 1..MaxBytes : Call(t, n, readTimeout)
    \/ CallCloses(t)
    \/ WaitLoop(t) \/ WaitStatus(t) \/ WaitRecv(t) \/ WaitTimeout(t) \/ CallReturns(t)

Poll ==
    \/ PollWait \/ PollTrigger \/ PollMore \/ PollHup
    \/ \E n \in 1..MaxBytes : PollRead(n)
    \/ onProcess(Poller, "more") \/ onProcess_busy(Poller, "trigger")

HupStep == onHup \/ HupClose
=============================================================================
