----------------------------- MODULE FifoProofs -----------------------------
(* The callback of a read fifo runs alone, each end is finalized once, what    *)
(* Flush returns is true, and the writer of a connection is initialised once,  *)
(* for any number of tasks, bytes, pages and calls.                            *)
EXTENDS FifoManager, TLAPS

-----------------------------------------------------------------------------
(* The read end                                                             *)

Closings == {"none", "user", "poller"}

\* Where a goroutine has the key fifoProcessing
HoldLabels ==
    {"START", "call", "wait", "looked", "recv", "take", "fail", "status", "len", "unlock", "detach",
     "callbacks", "finalizer"}
ReadLabels ==
    HoldLabels \cup
    {"idle", "register", "adapter", "writer", "writerInit", "writerReady", "attach", "store",
     "onProcess", "done", "closeBy", "lock", "lockDetach", "close", "closeWriter", "closed", "crashed",
     "read", "trigger", "more", "hup", "onHup", "loaded", "recheckClosing", "recheckLen"}

ReadTypes ==
    /\ kind \in {"read", "attach", "write", "conn"}
    /\ pc \in [R!Procs -> ReadLabels] /\ closing \in Closings /\ processing \in BOOLEAN
    /\ fin \in {"open", "closed"} /\ callback \in BOOLEAN /\ onDelete \in BOOLEAN /\ stored \in BOOLEAN
    /\ task \in [Tasks -> [on : BOOLEAN, closedBy : Closings, want : Int]]

(* One goroutine has the key, and the finalizer does not give it back.         *)
KeyInv ==
    /\ \A p, q \in R!Procs : pc[p] \in HoldLabels /\ pc[q] \in HoldLabels => p = q
    /\ \A p \in R!Procs : pc[p] \in HoldLabels => processing /\ fin = "open"
    /\ fin = "closed" => processing
    /\ finals = IF fin = "open" THEN 0 ELSE 1

(* Whoever runs the close callbacks finds the fifo closing; so does a fifo     *)
(* that is stored too late for them.                                           *)
DeleteInv ==
    /\ \A p \in R!Procs :
         pc[p] \in {"loaded", "lock", "lockDetach", "detach", "callbacks", "finalizer"} =>
           closing # "none"
    /\ fin = "closed" => closing # "none"
    /\ \A t \in Tasks : task[t].closedBy # "none" => closing # "none"
    /\ pc[Owner] = "store" /\ IsRead => onDelete
    /\ stored => onDelete /\ IsRead
    /\ fin = "closed" \/ (\E p \in R!Procs : pc[p] = "finalizer") => late \/ ~stored

ReadInv == ReadTypes /\ KeyInv /\ DeleteInv

(* Nobody has the key before the fifo is attached.                             *)
LEMMA ReadInit == Init => ReadInv
<1> SUFFICES ASSUME Init PROVE ReadInv
    OBVIOUS
<1> USE FifoAssumption DEF Init, R!Init, R!Procs, R!NoTask
<1>0. task \in [Tasks -> [on : BOOLEAN, closedBy : Closings, want : Int]]
      BY DEF Closings
<1>1. ReadTypes
  <2>1. pc \in [R!Procs -> ReadLabels] BY Zenon DEF ReadLabels
  <2> QED BY <1>0, <2>1, Zenon DEF ReadTypes, Closings
<1>2. KeyInv BY Zenon DEF KeyInv, HoldLabels
<1>3. DeleteInv BY Zenon DEF DeleteInv, HoldLabels
<1> QED BY <1>1, <1>2, <1>3, Zenon DEF ReadInv

(* onProcess starts a task that does not run.                                  *)
LEMMA StartsTask ==
  ASSUME ReadTypes, NEW p \in {Owner, Poller}, NEW next, R!onProcess(p, next)
  PROVE  \E t \in Tasks : pc[t] = "idle" /\ pc' = [pc EXCEPT ![p] = next, ![t] = "START"]
<1> DEFINE q == [pc EXCEPT ![p] = next]
           t == CHOOSE u \in Tasks : q[u] = "idle"
<1>1. p \notin Tasks /\ pc \in [R!Procs -> ReadLabels] /\ p \in R!Procs
      BY FifoAssumption, Zenon DEF ReadTypes, R!Procs
<1>2. \E u \in Tasks : q[u] = "idle"
      BY <1>1, Zenon DEF R!onProcess, R!CanRun, R!Procs
<1>3. t \in Tasks /\ q[t] = "idle"
      BY <1>2, Zenon
<1>4. pc[t] = "idle"
      BY <1>1, <1>3, Zenon DEF R!Procs
<1>5. pc' = [q EXCEPT ![t] = "START"]
      BY Zenon DEF R!onProcess, R!NewTask
<1> QED BY <1>3, <1>4, <1>5, Zenon

(* Each access of a closer to the fifo preserves the invariant (onClose,       *)
(* closeCallback and the finalizer).                                           *)
LEMMA ClosingPreserves ==
  ASSUME ReadInv, NEW p \in R!Procs, R!Closing(p), UNCHANGED <<kind, late>> PROVE ReadInv'
<1> USE FifoAssumption DEF ReadInv, ReadTypes, KeyInv, DeleteInv, IsRead, R!Procs, R!Go, R!triggerRead,
        R!keys, R!buffer, R!manager, R!operator, R!peer, R!locals, HoldLabels, ReadLabels, Closings
<1>1. CASE R!CloseBy(p) BY <1>1 DEF R!CloseBy
<1>2. CASE R!CloseLock(p) BY <1>2, Zenon DEF R!CloseLock
<1>3. CASE R!CloseDetach(p) BY <1>3 DEF R!CloseDetach, R!Detach
<1>4. CASE R!CloseCallbacks(p) BY <1>4, Zenon DEF R!CloseCallbacks
<1>5. CASE R!Finalizer(p) BY <1>5 DEF R!Finalizer
<1> QED BY <1>1, <1>2, <1>3, <1>4, <1>5, Zenon DEF R!Closing

(* So do the poller and the goroutine of onhups (inputs, inputAck, onHup).     *)
LEMMA ReadPollPreserves ==
  ASSUME ReadInv, R!Poll \/ R!HupStep \/ R!PeerWrite \/ R!PeerClose \/ R!TimerFires,
         UNCHANGED <<kind, late>>
  PROVE  ReadInv'
<1> USE FifoAssumption DEF ReadInv, ReadTypes, KeyInv, DeleteInv, IsRead, R!Procs, R!Go, R!triggerRead,
        R!keys, R!buffer, R!manager, R!operator, R!peer, R!locals, HoldLabels, ReadLabels, Closings
<1>1. CASE R!PollWait BY <1>1, Zenon DEF R!PollWait
<1>2. CASE R!PollTrigger BY <1>2 DEF R!PollTrigger
<1>3. CASE R!PollMore BY <1>3, Zenon DEF R!PollMore
<1>4. CASE R!PollHup BY <1>4 DEF R!PollHup, R!Detach
<1>5. ASSUME NEW n, R!PollRead(n) PROVE ReadInv' BY <1>5 DEF R!PollRead
<1>6. CASE R!onProcess(Poller, "more")
  <2>1. PICK t \in Tasks : pc[t] = "idle" /\ pc' = [pc EXCEPT ![Poller] = "more", ![t] = "START"]
        BY <1>6, StartsTask, Zenon
  <2>2. processing' /\ ~processing /\ UNCHANGED <<closing, callback, onDelete, stored, fin, finals, task>>
        BY <1>6, Zenon DEF R!onProcess
  <2>3. \A p \in R!Procs : pc[p] \notin HoldLabels BY <2>2, Zenon DEF KeyInv
  <2>4. ReadTypes' BY <1>6, <2>1, <2>2, Zenon DEF R!onProcess
  <2>5. KeyInv' BY <2>1, <2>2, <2>3
  <2>6. DeleteInv' BY <2>1, <2>2, <2>3, Zenon
  <2> QED BY <2>4, <2>5, <2>6, Zenon
<1>7. CASE R!onProcess_busy(Poller, "trigger") BY <1>7, Zenon DEF R!onProcess_busy
<1>8. CASE R!onHup BY <1>8 DEF R!onHup
<1>9. CASE R!HupClose BY <1>9 DEF R!HupClose
<1>10. CASE R!PeerWrite BY <1>10, Zenon DEF R!PeerWrite
<1>11. CASE R!PeerClose BY <1>11 DEF R!PeerClose
<1>12. CASE R!TimerFires BY <1>12 DEF R!TimerFires
<1> QED BY <1>1, <1>2, <1>3, <1>4, <1>5, <1>6, <1>7, <1>8, <1>9, <1>10, <1>11, <1>12, Zenon
        DEF R!Poll, R!HupStep

(* So does the task: it unlocks before it looks again (onProcess).             *)
LEMMA TaskPreserves ==
  ASSUME ReadInv, NEW t \in Tasks, R!Task(t, ending = "timeout") \/ R!CallPanics(t),
         UNCHANGED <<kind, late>>
  PROVE  ReadInv'
<1> USE FifoAssumption DEF ReadInv, ReadTypes, KeyInv, DeleteInv, IsRead, R!Procs, R!Go, R!triggerRead,
        R!keys, R!buffer, R!manager, R!operator, R!peer, R!locals, HoldLabels, ReadLabels, Closings
<1>1. CASE R!TaskStart(t) BY <1>1 DEF R!TaskStart
<1>2. CASE R!TaskStatus(t) BY <1>2 DEF R!TaskStatus
<1>3. CASE R!TaskLen(t) BY <1>3 DEF R!TaskLen
<1>4. CASE R!TaskUnlock(t) BY <1>4, Zenon DEF R!TaskUnlock
<1>5. CASE R!RecheckClosing(t) BY <1>5, Zenon DEF R!RecheckClosing
<1>6. CASE R!RecheckLen(t) BY <1>6 DEF R!RecheckLen, R!NoTask
<1>7. CASE R!TaskEnd(t) BY <1>7 DEF R!TaskEnd, R!NoTask
<1>8. ASSUME NEW n \in 1..MaxBytes, R!Call(t, n, ending = "timeout") PROVE ReadInv'
      BY <1>8 DEF R!Call
<1>9. CASE R!CallCloses(t) BY <1>9 DEF R!CallCloses
<1>10. CASE R!WaitLoop(t) BY <1>10 DEF R!WaitLoop
<1>11. CASE R!WaitRecv(t) BY <1>11 DEF R!WaitRecv
<1>12. CASE R!WaitTimeout(t) BY <1>12, Zenon DEF R!WaitTimeout
<1>13. CASE R!CallReturns(t) BY <1>13 DEF R!CallReturns
<1>14. CASE R!CallPanics(t) BY <1>14, Zenon DEF R!CallPanics
<1>15. CASE R!WaitStatus(t) BY <1>15 DEF R!WaitStatus
<1> QED BY <1>1, <1>2, <1>3, <1>4, <1>5, <1>6, <1>7, <1>8, <1>9, <1>10, <1>11, <1>12, <1>13,
           <1>14, <1>15, Zenon
        DEF R!Task

(* So does the goroutine that attaches the fifo.                               *)
LEMMA OwnerPreserves == ASSUME ReadInv, OwnerStep PROVE ReadInv'
<1> USE FifoAssumption DEF ReadInv, ReadTypes, KeyInv, DeleteInv, IsRead, R!Procs, R!Go,
        R!keys, R!buffer, R!manager, R!operator, R!peer, R!locals, HoldLabels, ReadLabels, Closings,
        InR, choice, readRest, readManager
<1>1. CASE Attach BY <1>1 DEF Attach
<1>2. CASE readFifo_init
  <2>1. UNCHANGED <<kind, late>> BY <1>2, Zenon DEF readFifo_init
  <2>2. ASSUME NEW next \in {"adapter", "attach"}, R!Register(next) PROVE ReadInv'
        BY <2>1, <2>2 DEF R!Register
  <2>3. CASE R!RegisterFails BY <2>1, <2>3 DEF R!RegisterFails
  <2>4. CASE R!Closing(Owner) BY <2>1, <2>4, ClosingPreserves, Zenon
  <2> QED BY <1>2, <2>2, <2>3, <2>4, Zenon DEF readFifo_init
<1>3. CASE SetOnFifoRead BY <1>3, Zenon DEF SetOnFifoRead
<1>4. CASE NewWriter BY <1>4, Zenon DEF NewWriter
<1>5. CASE WriterInit BY <1>5 DEF WriterInit
<1>6. CASE WriterReady BY <1>6 DEF WriterReady
<1>7. CASE AttachAdd
  <2>1. onDelete' <=> IsRead BY <1>7, Zenon DEF AttachAdd
  <2> QED BY <1>7, <2>1 DEF AttachAdd
<1>8. CASE AttachStore BY <1>8 DEF AttachStore
<1>9. CASE StartHandler
  <2>1. CASE R!onProcess(Owner, "done")
    <3>1. PICK t \in Tasks : pc[t] = "idle" /\ pc' = [pc EXCEPT ![Owner] = "done", ![t] = "START"]
          BY <2>1, StartsTask, Zenon
    <3>2. /\ processing' /\ ~processing
          /\ UNCHANGED <<kind, late, closing, callback, onDelete, stored, fin, finals, task>>
          BY <1>9, <2>1, Zenon DEF R!onProcess, StartHandler
    <3>3. \A p \in R!Procs : pc[p] \notin HoldLabels BY <3>2, Zenon DEF KeyInv
    <3>4. ReadTypes' BY <2>1, <3>1, <3>2, Zenon DEF R!onProcess
    <3>5. KeyInv' BY <3>1, <3>2, <3>3
    <3>6. DeleteInv' BY <3>1, <3>2, <3>3, Zenon
    <3> QED BY <3>4, <3>5, <3>6, Zenon
  <2>2. CASE R!onProcess_busy(Owner, "done") BY <1>9, <2>2 DEF R!onProcess_busy, StartHandler
  <2> QED BY <1>9, <2>1, <2>2, Zenon DEF StartHandler
<1> QED BY <1>1, <1>2, <1>3, <1>4, <1>5, <1>6, <1>7, <1>8, <1>9, Zenon DEF OwnerStep

(* So does the goroutine that closes the fifo, itself or through the manager.  *)
LEMMA UserPreserves ==
  ASSUME ReadInv, UserClose \/ ManagerClose \/ CloseConn \/ CloseReader \/ ReaderClosed
                    \/ CloseUnready \/ WriterClosed
  PROVE  ReadInv'
<1> USE FifoAssumption DEF ReadInv, ReadTypes, KeyInv, DeleteInv, IsRead, R!Procs, R!Go,
        R!keys, R!buffer, R!manager, R!operator, R!peer, R!locals, HoldLabels, ReadLabels, Closings,
        InR, choice, readRest, readManager
<1>1. CASE UserClose BY <1>1 DEF UserClose, First
<1>2. CASE ManagerClose BY <1>2 DEF ManagerClose, First
<1>3. CASE CloseConn BY <1>3, Zenon DEF CloseConn
<1>4. CASE CloseReader BY <1>4, ClosingPreserves, Zenon DEF CloseReader
<1>5. CASE ReaderClosed BY <1>5 DEF ReaderClosed
<1>6. CASE WriterClosed BY <1>6 DEF WriterClosed
<1>7. CASE CloseUnready BY <1>7 DEF CloseUnready
<1> QED BY <1>1, <1>2, <1>3, <1>4, <1>5, <1>6, <1>7, Zenon

(* Every step of the program preserves the invariant of the read end.          *)
LEMMA ReadStep == ReadInv /\ [Next]_vars => ReadInv'
<1> SUFFICES ASSUME ReadInv, [Next]_vars PROVE ReadInv'
    OBVIOUS
<1>0. ASSUME UNCHANGED <<readVars, kind, late>> PROVE ReadInv'
      BY <1>0, Zenon DEF ReadInv, ReadTypes, KeyInv, DeleteInv, IsRead, readVars, readRest,
         readManager
<1>1. ASSUME InW PROVE ReadInv'
      BY <1>0, <1>1, Zenon DEF InW, choice
<1>2. ASSUME InR PROVE UNCHANGED <<kind, late>>
      BY <1>2, Zenon DEF InR, choice
<1>3. CASE OwnerStep BY <1>3, OwnerPreserves, Zenon
<1>4. CASE InitStep \/ (\E c \in Callers : ConnWrite(c)) \/ CloseWriter \/ ManagerUnlock
      BY <1>0, <1>4, Zenon DEF InitStep, TryInitWriter, TryInit, TryReady, ConnWrite, InC,
         CloseWriter, ManagerUnlock, choice
<1>5. CASE UserClose \/ ManagerClose \/ CloseStep
      BY <1>1, <1>4, <1>5, UserPreserves, Zenon DEF CloseStep
<1>6. CASE TimerStep \/ ReadPoll BY <1>2, <1>6, ReadPollPreserves, Zenon DEF TimerStep, ReadPoll
<1>7. CASE ReadHup
      BY <1>2, <1>7, ReadPollPreserves, ClosingPreserves, Zenon DEF ReadHup, R!Procs
<1>8. CASE FlushStep \/ WritePoll \/ WriteHup \/ FlushCall
      BY <1>1, <1>8, Zenon DEF FlushStep, WritePoll, WriteHup, FlushCall
<1>9. CASE PeerStep BY <1>1, <1>2, <1>9, ReadPollPreserves, Zenon DEF PeerStep
<1>10. ASSUME NEW t \in Tasks, TaskStep(t) PROVE ReadInv'
      BY <1>2, <1>10, TaskPreserves, ClosingPreserves, Zenon DEF TaskStep, R!Procs
<1>11. CASE UNCHANGED vars BY <1>0, <1>11, Zenon DEF vars, choice
<1> QED BY <1>3, <1>4, <1>5, <1>6, <1>7, <1>8, <1>9, <1>10, <1>11, Zenon DEF Next, Step

(* The invariant of the read end holds in every reachable state.               *)
LEMMA ReadInvariant == Spec => []ReadInv
  BY ReadInit, ReadStep, PTL DEF Spec

(* However many tasks are started, and however panics, hang-ups and closes     *)
(* come between, one of them runs the callback, and only before the finalizer  *)
(* has released the operator, the fd and the buffer (onProcess, closeCallback). *)
THEOREM CallbackAlone == Spec => []HandlerAlone
<1>1. ReadInv => HandlerAlone
      BY Zenon DEF ReadInv, KeyInv, HandlerAlone, InCallback, HoldLabels, R!Procs
<1> QED BY <1>1, ReadInvariant, PTL

-----------------------------------------------------------------------------
(* The write end                                                            *)

InFlush == {"writev", "control", "wait", "detachTimeout", "unlock"}
HoldClose == {"closeDetach", "callbacks", "stop", "free", "closeFd"}
CloseLabels == HoldClose \cup {"lock", "returned"}
WriteLabels ==
    InFlush \cup CloseLabels \cup
    {"idle", "outputs", "iosend", "detach", "trigger", "done", "hup",
     "onHup", "hupTrigger", "closeBy", "closeTrigger", "lockDetach"}

WriteTypes ==
    /\ wpc \in [W!Procs -> WriteLabels]
    /\ wpc[Writer] \in InFlush \cup {"idle"}
    /\ wpc[Poller] \in {"idle", "outputs", "iosend", "detach", "trigger", "done", "hup"}
    /\ wpc[Hup] \in CloseLabels \cup {"idle", "onHup", "hupTrigger"}
    /\ wpc[User] \in CloseLabels \cup {"idle", "closeBy", "closeTrigger", "lockDetach"}
    /\ wclosing \in Closings /\ wtrigger \in {"empty", "nil", "err"}
    /\ wfin \in {"open", "freed", "closed"} /\ flushing \in {0, 1, 2}
    /\ wlength \in Nat /\ wpipe \in 0..Room /\ waits \in Nat
    /\ wprocessing \in BOOLEAN /\ wepoll \in BOOLEAN /\ wdetached \in BOOLEAN
    /\ wbusy \in BOOLEAN /\ wgone \in BOOLEAN

(* Who flushes has the key fifoFlushing, which the finalizer takes for good;   *)
(* one of the user and Hup has fifoProcessing and runs the finalizer.          *)
StopInv ==
    /\ wpc[Writer] \in InFlush <=> flushing = 1
    /\ wbusy <=> wpc[Poller] # "idle"
    /\ ~(wpc[User] \in HoldClose /\ wpc[Hup] \in HoldClose)
    /\ \A p \in {User, Hup} :
         /\ wpc[p] \in HoldClose => wprocessing /\ wfin # "closed"
         /\ wpc[p] = "free" => flushing = 2
         /\ wpc[p] \in HoldClose \ {"closeFd"} => wfin = "open"
         /\ wpc[p] = "closeFd" => wfin = "freed"
    /\ wfin # "open" => flushing = 2 /\ ~wbusy /\ wprocessing
    /\ wfinals = IF wfin = "closed" THEN 1 ELSE 0

(* Before the first wait the poller has nothing to do with the fifo, and only  *)
(* a close may have detached its operator.                                     *)
UnusedInv ==
    /\ wtrigger = "err" \/ wpc[Hup] \notin {"idle", "onHup"} \/ wpc[User] \notin {"idle", "closeBy"}
         => wclosing # "none"
    /\ waits = 0 =>
         /\ ~wepoll /\ wpc[Poller] = "idle" /\ wpc[Hup] = "idle" /\ wtrigger # "nil"
         /\ wpc[Writer] \notin {"wait", "detachTimeout"}
         /\ wdetached \/ wpc[User] \in {"lockDetach", "closeDetach"} => wtrigger = "err"

(* In a wait: the nil comes after everything was sent and the fd detached.     *)
WaitInv ==
    /\ wpc[Poller] = "trigger" => wdetached
    /\ wpc[Writer] \in {"writev", "control", "wait"} => result \in {"none", "ok"}
    /\ wpc[Writer] = "detachTimeout" => result = "timeout"
    /\ wpc[Writer] = "wait" =>
         /\ waits = 1 /\ wepoll /\ wdetached => wtrigger = "err"
         /\ wtrigger = "nil" => wdetached
         /\ wtrigger = "nil" /\ ~wepoll => wpc[Poller] \in {"idle", "done"}
         /\ wtrigger = "nil" \/ wpc[Poller] \in {"detach", "trigger"} => wlength = 0
    /\ wpc[Writer] = "unlock" /\ result = "ok" => wlength = 0

(* Between two waits of an open fifo: unless the fd is still registered, which *)
(* it is only after the second, the poller has left the buffer and no nil is   *)
(* left in the channel.                                                        *)
BetweenInv ==
    /\ wpc[Writer] \notin {"wait", "detachTimeout"} /\ result \in {"none", "ok"} /\ wfin # "closed" =>
         /\ ~wepoll => wpc[Poller] \in {"idle", "done"} /\ wtrigger # "nil"
         /\ wepoll => wdetached /\ waits > 1
    /\ result = "err" /\ waits <= 2 => wclosing # "none" \/ wgone

WriteInv == WriteTypes /\ StopInv /\ UnusedInv /\ WaitInv /\ BetweenInv

(* Nothing happens before the first flush.                                     *)
LEMMA WriteInit == Init => WriteInv
<1> SUFFICES ASSUME Init PROVE WriteInv
    OBVIOUS
<1> USE FifoAssumption DEF Init, W!Init, W!Procs
<1>0. /\ wpc \in [W!Procs -> WriteLabels]
      /\ \A p \in {Writer, Poller, Hup, User} : wpc[p] = "idle"
      BY Zenon DEF WriteLabels
<1>1. WriteTypes
  <2>1. /\ wpc[Writer] \in InFlush \cup {"idle"}
        /\ wpc[Poller] \in {"idle", "outputs", "iosend", "detach", "trigger", "done", "hup"}
        /\ wpc[Hup] \in CloseLabels \cup {"idle", "onHup", "hupTrigger"}
        /\ wpc[User] \in CloseLabels \cup {"idle", "closeBy", "closeTrigger", "lockDetach"}
        BY <1>0, Zenon
  <2>2. wlength \in Nat /\ wpipe \in 0..Room /\ waits \in Nat /\ flushing \in {0, 1, 2}
        OBVIOUS
  <2>3. /\ wclosing \in Closings /\ wtrigger \in {"empty", "nil", "err"}
        /\ wfin \in {"open", "freed", "closed"}
        BY Zenon DEF Closings
  <2> QED BY <1>0, <2>1, <2>2, <2>3, Zenon DEF WriteTypes
<1>2. StopInv /\ UnusedInv BY DEF StopInv, UnusedInv, InFlush, HoldClose
<1>3. WaitInv /\ BetweenInv BY Zenon DEF WaitInv, BetweenInv
<1> QED BY <1>1, <1>2, <1>3, Zenon DEF WriteInv

(* What is sent is neither more than there is nor more than fits.              *)
LEMMA SendableFits ==
  ASSUME WriteTypes
  PROVE  /\ W!Sendable \in Nat /\ wlength - W!Sendable \in Nat /\ wpipe + W!Sendable \in 0..Room
         /\ W!Sendable = wlength => wlength - W!Sendable = 0
         /\ wlength = 0 => wlength - W!Sendable = 0
BY FifoAssumption DEF WriteTypes, W!Sendable

(* Each step of a flush preserves the invariant (Flush, flush, waitFlush).     *)
LEMMA FlushPreserves == ASSUME WriteInv, W!FlushStep \/ W!FlushCall PROVE WriteInv'
<1> USE FifoAssumption DEF WriteInv, WriteTypes, StopInv, UnusedInv, WaitInv, BetweenInv, W!Procs,
        W!Go, W!triggerWrite, W!Detach, W!keys, W!kernel, W!operator, W!peer, W!calls, InFlush,
        HoldClose, CloseLabels, WriteLabels, Closings
<1>1. CASE W!FlushWritev
  <2>1. CASE wgone /\ wlength > 0 BY <1>1, <2>1 DEF W!FlushWritev
  <2>2. CASE ~(wgone /\ wlength > 0) BY <1>1, <2>2, SendableFits DEF W!FlushWritev
  <2> QED BY <2>1, <2>2, Zenon
<1>2. CASE W!FlushControl
  <2>1. CASE wepoll BY <1>2, <2>1 DEF W!FlushControl
  <2>2. CASE ~wepoll BY <1>2, <2>2 DEF W!FlushControl
  <2> QED BY <2>1, <2>2, Zenon
<1>3. CASE W!WaitRecv BY <1>3 DEF W!WaitRecv
<1>4. CASE W!DetachTimeout
  <2>1. WriteTypes' BY <1>4, Zenon DEF W!DetachTimeout
  <2>2. StopInv' BY <1>4 DEF W!DetachTimeout
  <2>3. UnusedInv' BY <1>4, Zenon DEF W!DetachTimeout
  <2>4. WaitInv' BY <1>4, Zenon DEF W!DetachTimeout
  <2>5. BetweenInv' BY <1>4, Zenon DEF W!DetachTimeout
  <2> QED BY <2>1, <2>2, <2>3, <2>4, <2>5, Zenon
<1>5. CASE W!FlushUnlock BY <1>5 DEF W!FlushUnlock
<1>6. CASE W!WaitTimeout BY <1>6 DEF W!WaitTimeout
<1>7. ASSUME NEW n \in 0..MaxWrite, W!FlushLock(n) PROVE WriteInv'
      BY <1>7 DEF W!FlushLock
<1> QED BY <1>1, <1>2, <1>3, <1>4, <1>5, <1>6, <1>7, Zenon DEF W!FlushStep, W!FlushCall

(* So do the poller, the reader at the other end and onhups.                   *)
LEMMA WritePollPreserves ==
  ASSUME WriteInv, W!Poll \/ W!PeerRead \/ W!PeerClose \/ W!onHup \/ W!HupTrigger PROVE WriteInv'
<1> USE FifoAssumption DEF WriteInv, WriteTypes, StopInv, UnusedInv, WaitInv, BetweenInv, W!Procs,
        W!Go, W!triggerWrite, W!Detach, W!keys, W!kernel, W!operator, W!peer, W!calls, InFlush,
        HoldClose, CloseLabels, WriteLabels, Closings
<1>1. CASE W!PollWait BY <1>1 DEF W!PollWait
<1>2. CASE W!PollOutputs BY <1>2 DEF W!PollOutputs
<1>3. CASE W!PollSend
  <2>1. CASE wgone BY <1>3, <2>1 DEF W!PollSend
  <2>2. CASE ~wgone BY <1>3, <2>2, SendableFits DEF W!PollSend
  <2> QED BY <2>1, <2>2, Zenon
<1>4. CASE W!PollDetach BY <1>4 DEF W!PollDetach
<1>5. CASE W!PollTrigger BY <1>5 DEF W!PollTrigger
<1>6. CASE W!PollDone
  <2>1. WriteTypes' BY <1>6, Zenon DEF W!PollDone
  <2>2. StopInv' BY <1>6 DEF W!PollDone
  <2>3. UnusedInv' BY <1>6, Zenon DEF W!PollDone
  <2>4. WaitInv' BY <1>6, Zenon DEF W!PollDone
  <2>5. BetweenInv' BY <1>6, Zenon DEF W!PollDone
  <2> QED BY <2>1, <2>2, <2>3, <2>4, <2>5, Zenon
<1>7. CASE W!PollHup
  <2>1. WriteTypes' BY <1>7, Zenon DEF W!PollHup
  <2>2. StopInv' BY <1>7 DEF W!PollHup
  <2>3. UnusedInv' BY <1>7, Zenon DEF W!PollHup
  <2>4. WaitInv' BY <1>7, Zenon DEF W!PollHup
  <2>5. BetweenInv' BY <1>7, Zenon DEF W!PollHup
  <2> QED BY <2>1, <2>2, <2>3, <2>4, <2>5, Zenon
<1>8. CASE W!PeerRead BY <1>8 DEF W!PeerRead
<1>9. CASE W!PeerClose BY <1>9 DEF W!PeerClose
<1>10. CASE W!onHup BY <1>10 DEF W!onHup
<1>11. CASE W!HupTrigger BY <1>11 DEF W!HupTrigger
<1> QED BY <1>1, <1>2, <1>3, <1>4, <1>5, <1>6, <1>7, <1>8, <1>9, <1>10, <1>11, Zenon DEF W!Poll

(* So do the closers (onClose, closeCallback, the finalizer).                  *)
LEMMA WriteClosePreserves ==
  ASSUME WriteInv, W!CloseBy \/ W!CloseTrigger \/ W!CloseDetach \/ W!Closing(User) \/ W!Closing(Hup)
  PROVE  WriteInv'
<1> USE FifoAssumption DEF WriteInv, WriteTypes, StopInv, UnusedInv, WaitInv, BetweenInv, W!Procs,
        W!Go, W!triggerWrite, W!Detach, W!keys, W!kernel, W!operator, W!peer, W!calls, InFlush,
        HoldClose, CloseLabels, WriteLabels, Closings
<1>1. CASE W!CloseBy BY <1>1 DEF W!CloseBy
<1>2. CASE W!CloseTrigger BY <1>2 DEF W!CloseTrigger
<1>3. CASE W!CloseDetach BY <1>3 DEF W!CloseDetach
<1>4. ASSUME NEW p \in {User, Hup}, W!CloseLock(p) PROVE WriteInv' BY <1>4 DEF W!CloseLock
<1>5. ASSUME NEW p \in {User, Hup}, W!CloseCallbacks(p) PROVE WriteInv' BY <1>5 DEF W!CloseCallbacks
<1>6. ASSUME NEW p \in {User, Hup}, W!StopFlushing(p) PROVE WriteInv' BY <1>6 DEF W!StopFlushing
<1>7. ASSUME NEW p \in {User, Hup}, W!FreeOperator(p) PROVE WriteInv' BY <1>7 DEF W!FreeOperator
<1>8. ASSUME NEW p \in {User, Hup}, W!CloseFd(p) PROVE WriteInv'
  <2>1. WriteTypes' BY <1>8, Zenon DEF W!CloseFd
  <2>2. StopInv' BY <1>8 DEF W!CloseFd
  <2>3. UnusedInv' BY <1>8, Zenon DEF W!CloseFd
  <2>4. WaitInv' BY <1>8, Zenon DEF W!CloseFd
  <2>5. BetweenInv' BY <1>8, Zenon DEF W!CloseFd
  <2> QED BY <2>1, <2>2, <2>3, <2>4, <2>5, Zenon
<1> QED BY <1>1, <1>2, <1>3, <1>4, <1>5, <1>6, <1>7, <1>8, Zenon DEF W!Closing

(* Every step of the program preserves the invariant of the write end.         *)
LEMMA WriteStep == WriteInv /\ [Next]_vars => WriteInv'
<1> SUFFICES ASSUME WriteInv, [Next]_vars PROVE WriteInv'
    OBVIOUS
<1>0. ASSUME UNCHANGED <<writeRest, wpc>> PROVE WriteInv'
      BY <1>0 DEF WriteInv, WriteTypes, StopInv, UnusedInv, WaitInv, BetweenInv, writeRest
<1>1. ASSUME InR PROVE WriteInv'
      BY <1>0, <1>1, Zenon DEF InR, writeVars
<1>2. CASE OwnerStep
      BY <1>0, <1>1, <1>2, Zenon
      DEF OwnerStep, Attach, readFifo_init, SetOnFifoRead, NewWriter, WriterInit, WriterReady, AttachAdd,
          AttachStore, StartHandler, writeVars
<1>3. CASE InitStep \/ \E c \in Callers : ConnWrite(c)
      BY <1>0, <1>3, Zenon
      DEF InitStep, TryInitWriter, TryInit, TryReady, ConnWrite, InC, writeVars
<1>4. CASE CloseWriter
      BY <1>4, FifoAssumption
      DEF CloseWriter, W!Go, W!Procs, writeRest, WriteInv, WriteTypes, StopInv, UnusedInv, WaitInv,
          BetweenInv, InFlush, HoldClose, CloseLabels, WriteLabels
<1>5. CASE UserClose \/ ManagerClose
      BY <1>0, <1>1, <1>5, Zenon DEF UserClose, ManagerClose, writeVars
<1>6. CASE CloseStep
      BY <1>0, <1>1, <1>4, <1>6, WriteClosePreserves, Zenon
      DEF CloseStep, CloseConn, CloseReader, ReaderClosed, CloseUnready, WriterClosed, ManagerUnlock,
          W!Close, writeVars
<1>7. CASE TimerStep \/ ReadPoll \/ ReadHup \/ \E t \in Tasks : TaskStep(t)
      BY <1>1, <1>7, Zenon DEF TimerStep, ReadPoll, ReadHup, TaskStep
<1>8. CASE FlushStep \/ FlushCall BY <1>8, FlushPreserves, Zenon DEF FlushStep, FlushCall
<1>9. CASE WritePoll \/ WriteHup
      BY <1>9, WritePollPreserves, WriteClosePreserves, Zenon DEF WritePoll, WriteHup, W!HupStep
<1>10. CASE PeerStep BY <1>1, <1>10, WritePollPreserves, Zenon DEF PeerStep
<1>11. CASE UNCHANGED vars BY <1>0, <1>11, Zenon DEF vars, writeVars
<1> QED BY <1>2, <1>3, <1>5, <1>6, <1>7, <1>8, <1>9, <1>10, <1>11, Zenon DEF Next, Step

(* The invariant of the write end holds in every reachable state.              *)
LEMMA WriteInvariant == Spec => []WriteInv
  BY WriteInit, WriteStep, PTL DEF Spec

(* However the user, the manager, the poller, a panic and the tasks race, each *)
(* end closes its fd at most once, the buffer is released neither under a      *)
(* flush nor under the poller, and a fifo that was open when it was stored has *)
(* left the manager's map (onClose, closeCallback, stop, Free).                *)
THEOREM FinalizedOnce == Spec => []Finalized
<1>1. ReadInv /\ WriteInv => Finalized
  <2> SUFFICES ASSUME ReadInv, WriteInv PROVE Finalized OBVIOUS
  <2>1. finals <= 1 /\ wfinals <= 1
        BY DEF ReadInv, WriteInv, KeyInv, StopInv
  <2>2. wfin # "open" => ~wbusy /\ wpc[Writer] \notin {"writev", "control", "wait"}
        BY DEF WriteInv, WriteTypes, StopInv, InFlush
  <2>3. ~late /\ fin # "open" => ~stored
        BY Zenon DEF ReadInv, ReadTypes, DeleteInv
  <2> QED BY <2>1, <2>2, <2>3, Zenon DEF Finalized
<1> QED BY <1>1, ReadInvariant, WriteInvariant, PTL

(* For a pipe of any size and any number of flushes: a Flush that returns nil  *)
(* has sent everything, and one of the first two waits fails only on a fifo    *)
(* that is closed or has no reader (flush, waitFlush, outputAck, detachWrite). *)
THEOREM FlushIsTrue == Spec => []FlushTrue
<1>1. WriteInv => FlushTrue BY Zenon DEF WriteInv, WaitInv, BetweenInv, FlushTrue
<1> QED BY <1>1, WriteInvariant, PTL

(* For a fifo that has waited at most once, a flush and the poller never send  *)
(* from the output buffer at the same time (flush, outputs, detachWrite).      *)
THEOREM OutputHasOneOwner == Spec => []OutputOwned
<1>1. WriteInv => OutputOwned
      BY DEF WriteInv, WriteTypes, StopInv, InFlush, UnusedInv, WaitInv, BetweenInv, OutputOwned
<1> QED BY <1>1, WriteInvariant, PTL

-----------------------------------------------------------------------------
(* The writer of a connection                                               *)

Attached == {"writerReady", "attach", "store", "onProcess", "done"}
CallLabels == {"idle", "lock", "init", "ready", "crashed"}

(* Whoever initialises the writer of a connection has the mutex, and leaves it *)
(* ready: a writer that was initialised is ready, or about to be declared so   *)
(* by init or by the caller that has the mutex.                                *)
OnceInv ==
    /\ inits \in Nat /\ hasty \in BOOLEAN /\ call \in [Callers -> CallLabels]
    /\ \A c \in Callers : call[c] \in {"init", "ready"} => mutex = c
    /\ ~hasty =>
         /\ inits <= 1
         /\ pc[Owner] \notin Attached => inits = 0
         /\ \A c \in Callers : call[c] # "crashed"
         /\ \A c \in Callers : call[c] # "idle" => kind = "conn" /\ pc[Owner] = "done"
         /\ \A c \in Callers : call[c] = "init" => ~writerReady
         /\ kind = "conn" /\ inits = 1 /\ pc[Owner] # "writerReady" =>
              writerReady \/ \E c \in Callers : call[c] = "ready"

(* No writer is initialised at first.                                          *)
LEMMA OnceInit == Init => OnceInv
<1> SUFFICES ASSUME Init PROVE OnceInv
    OBVIOUS
<1>1. inits = 0 /\ inits # 1 /\ inits \in Nat /\ inits <= 1 BY DEF Init
<1>2. \A c \in Callers : call[c] = "idle" BY Zenon DEF Init
<1>3. hasty \in BOOLEAN /\ call \in [Callers -> CallLabels] BY Zenon DEF Init, CallLabels
<1> QED BY <1>1, <1>2, <1>3, Zenon DEF OnceInv

(* Nobody else moves the owner.                                                *)
LEMMA OwnerStays ==
  ASSUME ReadTypes, R!Poll \/ R!HupStep \/ R!TimerFires \/ R!PeerWrite \/ R!PeerClose
                      \/ (\E p \in Tasks \cup {Hup, User} : R!Closing(p))
                      \/ (\E t \in Tasks : R!Task(t, ending = "timeout") \/ R!CallPanics(t))
  PROVE  pc'[Owner] = pc[Owner]
<1> USE FifoAssumption DEF ReadTypes, R!Procs, R!Go
<1>1. CASE R!Poll \/ R!HupStep
  <2>1. CASE R!onProcess(Poller, "more")
    <3>1. PICK t \in Tasks : pc' = [pc EXCEPT ![Poller] = "more", ![t] = "START"]
          BY <2>1, StartsTask, Zenon
    <3> QED BY <3>1, Zenon
  <2>2. CASE R!PollWait \/ R!PollTrigger \/ R!PollMore \/ R!PollHup
        BY <2>2 DEF R!PollWait, R!PollTrigger, R!PollMore, R!PollHup
  <2>3. CASE R!onProcess_busy(Poller, "trigger") \/ \E n \in 1..MaxBytes : R!PollRead(n)
        BY <2>3 DEF R!onProcess_busy, R!PollRead
  <2>4. CASE R!HupStep
        BY <2>4 DEF R!HupStep, R!onHup, R!HupClose
  <2> QED BY <1>1, <2>1, <2>2, <2>3, <2>4, Zenon DEF R!Poll
<1>2. CASE R!TimerFires \/ R!PeerWrite \/ R!PeerClose
      BY <1>2 DEF R!TimerFires, R!PeerWrite, R!PeerClose
<1>3. ASSUME NEW p \in Tasks \cup {Hup, User}, R!Closing(p) PROVE pc'[Owner] = pc[Owner]
      BY <1>3 DEF R!Closing, R!CloseBy, R!CloseLock, R!CloseDetach, R!CloseCallbacks, R!Finalizer
<1>4. ASSUME NEW t \in Tasks, R!Task(t, ending = "timeout") \/ R!CallPanics(t)
      PROVE  pc'[Owner] = pc[Owner]
      BY <1>4, Zenon DEF R!Task, R!CallPanics, R!TaskStart, R!TaskStatus, R!TaskLen, R!TaskUnlock,
                  R!RecheckClosing, R!RecheckLen, R!TaskEnd, R!Call, R!CallCloses, R!WaitLoop,
                  R!WaitStatus, R!WaitRecv, R!WaitTimeout, R!CallReturns
<1> QED BY <1>1, <1>2, <1>3, <1>4, Zenon

(* A failed registration takes the owner from closeBy to its return.           *)
LEMMA OwnerCloses ==
  ASSUME ReadTypes, R!Closing(Owner)
  PROVE  /\ pc[Owner] \notin Attached
         /\ pc'[Owner] \in {"lock", "lockDetach", "callbacks", "finalizer", "done"}
<1> USE DEF ReadTypes, R!Procs, R!Go, Attached
<1>1. CASE R!CloseBy(Owner) BY <1>1, Zenon DEF R!CloseBy
<1>2. CASE R!CloseLock(Owner) BY <1>2, Zenon DEF R!CloseLock
<1>3. CASE R!CloseDetach(Owner) BY <1>3, Zenon DEF R!CloseDetach
<1>4. CASE R!CloseCallbacks(Owner) BY <1>4, Zenon DEF R!CloseCallbacks
<1>5. CASE R!Finalizer(Owner) BY <1>5, Zenon DEF R!Finalizer
<1> QED BY <1>1, <1>2, <1>3, <1>4, <1>5, Zenon DEF R!Closing

(* Each step of the owner preserves the invariant (init, AttachFifoConnection). *)
LEMMA OwnerKeepsOnce == ASSUME ReadInv, OnceInv, OwnerStep PROVE OnceInv'
<1>0. pc \in [R!Procs -> ReadLabels] BY Zenon DEF ReadInv, ReadTypes
<1> USE <1>0 DEF OnceInv, R!Procs, R!Go, Attached, InR, choice, conn, writes
<1>1. CASE Attach BY <1>1, Zenon DEF Attach
<1>2. CASE readFifo_init
  <2>1. UNCHANGED <<kind, conn>> BY <1>2, Zenon DEF readFifo_init
  <2>2. CASE R!Register(IF kind = "conn" THEN "adapter" ELSE "attach")
        BY <2>1, <2>2 DEF R!Register
  <2>3. CASE R!RegisterFails BY <2>1, <2>3, Zenon DEF R!RegisterFails
  <2>4. CASE R!Closing(Owner)
    <3>1. /\ pc[Owner] \notin Attached
          /\ pc'[Owner] \in {"lock", "lockDetach", "callbacks", "finalizer", "done"}
          BY <2>4, OwnerCloses, Zenon DEF ReadInv
    <3> QED BY <2>1, <3>1
  <2> QED BY <1>2, <2>2, <2>3, <2>4, Zenon DEF readFifo_init
<1>3. CASE SetOnFifoRead BY <1>3, Zenon DEF SetOnFifoRead
<1>4. CASE NewWriter BY <1>4, Zenon DEF NewWriter
<1>5. CASE WriterInit BY <1>5 DEF WriterInit
<1>6. CASE WriterReady BY <1>6, Zenon DEF WriterReady
<1>7. CASE AttachAdd BY <1>7, Zenon DEF AttachAdd
<1>8. CASE AttachStore BY <1>8 DEF AttachStore
<1>9. CASE StartHandler
  <2>1. UNCHANGED <<kind, conn>> BY <1>9, Zenon DEF StartHandler
  <2>2. pc[Owner] = "onProcess" /\ pc'[Owner] = "done"
    <3>1. CASE R!onProcess(Owner, "done")
      <4>1. PICK t \in Tasks : pc' = [pc EXCEPT ![Owner] = "done", ![t] = "START"]
            BY <3>1, StartsTask DEF ReadInv
      <4> QED BY <3>1, <4>1, FifoAssumption DEF R!onProcess
    <3>2. CASE R!onProcess_busy(Owner, "done") BY <3>2, Zenon DEF R!onProcess_busy
    <3> QED BY <1>9, <3>1, <3>2, Zenon DEF StartHandler
  <2> QED BY <2>1, <2>2
<1> QED BY <1>1, <1>2, <1>3, <1>4, <1>5, <1>6, <1>7, <1>8, <1>9, Zenon DEF OwnerStep

(* So does each step of a Write (Write, TryInitWriter): the mutex lets one     *)
(* caller at a time see that the writer is not ready and initialise it.        *)
LEMMA CallerKeepsOnce ==
  ASSUME OnceInv, NEW c \in Callers, ConnWrite(c) \/ TryInitWriter(c) \/ TryInit(c) \/ TryReady(c)
  PROVE  OnceInv'
<1>0. UNCHANGED <<kind, pc>>
      BY Zenon DEF ConnWrite, TryInitWriter, TryInit, TryReady, InC, choice, readVars
<1> USE <1>0, FifoAssumption DEF OnceInv, CallLabels, Calls
<1>1. CASE ConnWrite(c)
  <2>1. hasty' <=> hasty \/ pc[Owner] # "done" BY <1>1, Zenon DEF ConnWrite
  <2> QED BY <1>1, <2>1 DEF ConnWrite
<1>2. CASE TryInitWriter(c)
  <2>1. CASE writerReady BY <1>2, <2>1 DEF TryInitWriter
  <2>2. CASE ~writerReady BY <1>2, <2>2 DEF TryInitWriter
  <2> QED BY <2>1, <2>2
<1>3. CASE TryInit(c)
  <2>1. CASE Calls(c, "init", "crashed") BY <1>3, <2>1 DEF TryInit, NilWriter
  <2>2. CASE Calls(c, "init", "ready") BY <1>3, <2>2 DEF TryInit, Attached
  <2>3. CASE Calls(c, "init", "idle") BY <1>3, <2>3 DEF TryInit
  <2> QED BY <1>3, <2>1, <2>2, <2>3, Zenon DEF TryInit
<1>4. CASE TryReady(c) BY <1>4 DEF TryReady, Attached
<1> QED BY <1>1, <1>2, <1>3, <1>4, Zenon

(* Every step of the program preserves it.                                     *)
LEMMA OnceStep == ReadInv /\ OnceInv /\ [Next]_vars => OnceInv'
<1> SUFFICES ASSUME ReadInv, OnceInv, [Next]_vars PROVE OnceInv'
    OBVIOUS
<1>0. pc \in [R!Procs -> ReadLabels] /\ ReadTypes BY Zenon DEF ReadInv, ReadTypes
<1>1. ASSUME UNCHANGED <<kind, inits, writerReady, writes>>, pc'[Owner] = pc[Owner] PROVE OnceInv'
      BY <1>1, Zenon DEF writes, OnceInv
<1>2. ASSUME InR, pc'[Owner] = pc[Owner] PROVE OnceInv'
      BY <1>1, <1>2, Zenon DEF InR, choice, conn
<1>3. ASSUME InW PROVE OnceInv'
      BY <1>1, <1>3, Zenon DEF InW, choice, conn, readVars
<1>4. CASE OwnerStep BY <1>4, OwnerKeepsOnce, Zenon
<1>5. CASE InitStep \/ \E c \in Callers : ConnWrite(c)
      BY <1>5, CallerKeepsOnce, Zenon DEF InitStep
<1>6. CASE TimerStep \/ ReadPoll \/ ReadHup
      BY <1>0, <1>2, <1>6, OwnerStays, Zenon DEF TimerStep, ReadPoll, ReadHup
<1>7. ASSUME NEW t \in Tasks, TaskStep(t) PROVE OnceInv'
      BY <1>0, <1>2, <1>7, OwnerStays, Zenon DEF TaskStep
<1>8. CASE UserClose \/ ManagerClose
      BY <1>0, <1>1, <1>8, FifoAssumption, Zenon
      DEF UserClose, ManagerClose, R!Go, R!Procs, InR, choice, conn
<1>9. CASE CloseStep
  <2>1. CASE CloseReader BY <1>0, <1>2, <2>1, OwnerStays, Zenon DEF CloseReader
  <2>2. CASE CloseConn \/ ReaderClosed \/ CloseUnready \/ WriterClosed
        BY <1>0, <1>1, <2>2, FifoAssumption, Zenon
        DEF CloseConn, ReaderClosed, CloseUnready, WriterClosed, R!Go, R!Procs, InR, choice, conn
  <2>3. CASE CloseWriter \/ ManagerUnlock
        BY <1>1, <2>3, Zenon DEF CloseWriter, ManagerUnlock, choice, conn, readVars
  <2> QED BY <1>3, <1>9, <2>1, <2>2, <2>3, Zenon DEF CloseStep
<1>10. CASE FlushStep \/ FlushCall \/ WritePoll \/ WriteHup
      BY <1>3, <1>10, Zenon DEF FlushStep, FlushCall, WritePoll, WriteHup
<1>11. CASE PeerStep BY <1>0, <1>2, <1>3, <1>11, OwnerStays, Zenon DEF PeerStep
<1>12. CASE UNCHANGED vars BY <1>1, <1>12, Zenon DEF vars, choice, conn, readVars
<1> QED BY <1>4, <1>5, <1>6, <1>7, <1>8, <1>9, <1>10, <1>11, <1>12, Zenon DEF Next, Step

(* However many goroutines write to a connection that is attached, the writer  *)
(* is initialised once, in init or by one of them, and is there when they try  *)
(* (Write, TryInitWriter, init).                                               *)
THEOREM InitOnce == Spec => []WriterInitOnce
<1>1. OnceInv => WriterInitOnce BY Zenon DEF OnceInv, WriterInitOnce
<1> QED BY <1>1, OnceInit, OnceStep, ReadInvariant, PTL DEF Spec
=============================================================================
