------------------------------- MODULE ReadWait -------------------------------
(***************************************************************************)
(* The blocking read of a connection: waitRead and waitReadWithTimeout     *)
(* (connection_impl.go) against the poller's inputAck, onHup and onClose   *)
(* (connection_reactor.go), which wake the reader through readTrigger, a   *)
(* channel of capacity one that drops what does not fit.                   *)
(*                                                                         *)
(* The reader is one goroutine, as the Reader requires.  It is a dialer's  *)
(* goroutine, the task running OnConnect, or the task running OnRequest;   *)
(* the last two hold the processing key while they read, so the poller's   *)
(* onRequest starts no task of its own and asks for a trigger.             *)
(* Data is its length.  The read timer is the runtime's before Go 1.23     *)
(* (go.mod asks for 1.15): a fired timer keeps its value in C.             *)
(***************************************************************************)
EXTENDS Integers

CONSTANTS
    MaxChunk,    \* bound: bytes of one read of the poller
    MaxInput,    \* bound: bytes the peer sends
    MaxRead      \* bound: bytes a call asks for

ASSUME ReadWaitAssumption ==
    MaxChunk \in Nat /\ MaxInput \in Nat /\ MaxRead \in Nat

VARIABLES
    mode,         \* who reads: "dial", "connect" or "request"
    readTimeout,  \* whether a read timeout is set
    inputLen,     \* inputBuffer.Len()
    waitReadSize,
    readTrigger,  \* "empty", or the value in the channel
    closing,      \* the closing key
    timer,        \* readTimer: "stopped", "armed", or "fired" with a value in C
    reading,      \* the reader's goroutine has started
    n, err,       \* the reader's argument and result
    pc,           \* the reader's control
    ppc, length, needTrigger, acked,  \* the poller in inputAck
    received,     \* bytes read from the kernel so far
    hup, closer   \* control of the goroutines of onHup and of onClose

conf == <<mode, readTimeout>>
reader == <<n, err, pc>>
ack == <<ppc, length, needTrigger, acked, received>>
vars == <<mode, readTimeout, inputLen, waitReadSize, readTrigger, closing, timer, reading,
          n, err, pc, ppc, length, needTrigger, acked, received, hup, closer>>

Modes == {"dial", "connect", "request"}

Init ==
    /\ mode \in Modes /\ readTimeout \in BOOLEAN
    /\ inputLen = 0 /\ waitReadSize = 0
    /\ readTrigger = "empty" /\ closing = "none" /\ timer = "stopped"
    /\ reading = (mode = "dial")
    /\ n = 0 /\ err = "nil" /\ pc = "idle"
    /\ ppc = "idle" /\ length = 0 /\ needTrigger = FALSE /\ acked = 0
    /\ received = 0
    /\ hup = "idle" /\ closer = "idle"

-----------------------------------------------------------------------------
(* The reader.                                                             *)

(* The OnConnect task changes the state to connected, then calls OnConnect. *)
StartReader ==
    /\ mode = "connect"
    /\ ~reading
    /\ reading' = TRUE
    /\ UNCHANGED <<conf, inputLen, waitReadSize, readTrigger, closing, timer,
                   reader, ack, hup, closer>>

(* Next, Peek, Skip ... call waitRead(n); enough data returns at once. *)
WaitRead ==
    /\ pc = "idle" /\ reading
    /\ \E k \in 1 .. MaxRead :
         /\ n' = k
         /\ pc' = IF k <= inputLen THEN "consume" ELSE "store"
    /\ err' = "nil"
    /\ UNCHANGED <<conf, inputLen, waitReadSize, readTrigger, closing, timer,
                   reading, ack, hup, closer>>

(* Publish the size; with a timeout, start the timer.  Reset does not take *)
(* an old value out of C.                                                  *)
StoreSize ==
    /\ pc = "store"
    /\ waitReadSize' = n
    /\ timer' = IF readTimeout THEN (IF timer = "fired" THEN "fired" ELSE "armed") ELSE timer
    /\ pc' = "len"
    /\ UNCHANGED <<conf, inputLen, readTrigger, closing, reading, n, err, ack,
                   hup, closer>>

(* for c.inputBuffer.Len() < n *)
LoopLen ==
    /\ pc = "len"
    /\ pc' = IF inputLen < n THEN "status" ELSE "ret"
    /\ UNCHANGED <<conf, inputLen, waitReadSize, readTrigger, closing, timer,
                   reading, n, err, ack, hup, closer>>

(* switch c.status(closing) *)
LoopStatus ==
    /\ pc = "status"
    /\ \/ closing = "poller" /\ err' = "EOF" /\ pc' = "ret"
       \/ closing = "user" /\ err' = "closed" /\ pc' = "ret"
       \/ closing = "none" /\ err' = err /\ pc' = "select"
    /\ UNCHANGED <<conf, inputLen, waitReadSize, readTrigger, closing, timer,
                   reading, n, ack, hup, closer>>

(* err = <-c.readTrigger: nil goes round the loop, an error ends it. *)
Receive ==
    /\ pc = "select"
    /\ readTrigger # "empty"
    /\ readTrigger' = "empty"
    /\ err' = readTrigger
    /\ pc' = IF readTrigger = "nil" THEN "len" ELSE "ret"
    /\ UNCHANGED <<conf, inputLen, waitReadSize, closing, timer, reading, n,
                   ack, hup, closer>>

(* <-c.readTimer.C: return without stopping the timer, after a second look *)
(* at the buffer.                                                          *)
Expire ==
    /\ pc = "select"
    /\ timer = "fired"
    /\ timer' = "stopped"
    /\ err' = IF inputLen >= n THEN "nil" ELSE "timeout"
    /\ pc' = "defer"
    /\ UNCHANGED <<conf, inputLen, waitReadSize, readTrigger, closing, reading,
                   n, ack, hup, closer>>

(* Mutant of StopTimer: the result is returned directly. *)
StopTimer_direct ==
    /\ pc = "ret"
    /\ pc' = "defer"
    /\ UNCHANGED <<conf, inputLen, waitReadSize, readTrigger, closing, timer,
                   reading, n, err, ack, hup, closer>>

(* RET: stop the timer, or take the value it left in C. *)
StopTimer ==
    /\ pc = "ret"
    /\ timer' = "stopped"
    /\ pc' = "defer"
    /\ UNCHANGED <<conf, inputLen, waitReadSize, readTrigger, closing, reading,
                   n, err, ack, hup, closer>>

(* The deferred reset of the size. *)
ResetSize ==
    /\ pc = "defer"
    /\ waitReadSize' = 0
    /\ pc' = IF err = "nil" THEN "consume" ELSE "idle"
    /\ UNCHANGED <<conf, inputLen, readTrigger, closing, timer, reading, n,
                   err, ack, hup, closer>>

(* The call goes on: Next takes n bytes, Peek none, Read what there is. *)
Consume ==
    /\ pc = "consume"
    /\ inputLen' \in 0 .. inputLen
    /\ pc' = "idle"
    /\ UNCHANGED <<conf, waitReadSize, readTrigger, closing, timer, reading, n,
                   err, ack, hup, closer>>

(* The runtime fires the timer. *)
Fire ==
    /\ timer = "armed"
    /\ timer' = "fired"
    /\ UNCHANGED <<conf, inputLen, waitReadSize, readTrigger, closing, reading,
                   reader, ack, hup, closer>>

-----------------------------------------------------------------------------
(* The poller and the two closers.                                         *)

(* c.triggerRead: a send that does not block. *)
TriggerRead(e) == readTrigger' = IF readTrigger = "empty" THEN e ELSE readTrigger

(* inputAck: bookAck makes the bytes readable. *)
BookAck ==
    /\ ppc = "idle" /\ hup = "idle"
    /\ \E k \in 1 .. MaxChunk :
         /\ received + k <= MaxInput
         /\ received' = received + k
         /\ acked' = k
         /\ inputLen' = inputLen + k
         /\ length' = inputLen + k
    /\ ppc' = "onRequest"
    /\ UNCHANGED <<conf, waitReadSize, readTrigger, closing, timer, reading,
                   reader, needTrigger, hup, closer>>

(* Mutant of OnRequest: the running reader is told nothing of bytes that   *)
(* arrive in an empty buffer.                                              *)
OnRequest_silent ==
    /\ ppc = "onRequest"
    /\ needTrigger' = (length # acked)
    /\ reading' = (reading \/ (mode = "request" /\ length = acked))
    /\ ppc' = "load"
    /\ UNCHANGED <<conf, inputLen, waitReadSize, readTrigger, closing, timer,
                   reader, length, acked, received, hup, closer>>

(* The first bytes go to onRequest: it waits for OnConnect to start, or    *)
(* starts the task that reads them, or leaves them to the running reader.  *)
OnRequest ==
    /\ ppc = "onRequest"
    /\ needTrigger' = (length # acked \/ reading)
    /\ reading' = (reading \/ (mode = "request" /\ length = acked))
    /\ ppc' = "load"
    /\ UNCHANGED <<conf, inputLen, waitReadSize, readTrigger, closing, timer,
                   reader, length, acked, received, hup, closer>>

(* Mutant of LoadSize: off by one. *)
LoadSize_strict ==
    /\ ppc = "load"
    /\ ppc' = IF needTrigger /\ length > waitReadSize THEN "trigger" ELSE "idle"
    /\ UNCHANGED <<conf, inputLen, waitReadSize, readTrigger, closing, timer,
                   reading, reader, length, needTrigger, acked, received, hup,
                   closer>>

(* length >= waitReadSize *)
LoadSize ==
    /\ ppc = "load"
    /\ ppc' = IF needTrigger /\ length >= waitReadSize THEN "trigger" ELSE "idle"
    /\ UNCHANGED <<conf, inputLen, waitReadSize, readTrigger, closing, timer,
                   reading, reader, length, needTrigger, acked, received, hup,
                   closer>>

InputTrigger ==
    /\ ppc = "trigger"
    /\ TriggerRead("nil")
    /\ ppc' = "idle"
    /\ UNCHANGED <<conf, inputLen, waitReadSize, closing, timer, reading,
                   reader, length, needTrigger, acked, received, hup, closer>>

(* onHup, after the poller read all and detached the operator. *)
OnHup ==
    /\ hup = "idle" /\ ppc = "idle"
    /\ IF closing = "none"
       THEN closing' = "poller" /\ hup' = "trigger"
       ELSE closing' = closing /\ hup' = "done"
    /\ UNCHANGED <<conf, inputLen, waitReadSize, readTrigger, timer, reading,
                   reader, ack, closer>>

HupTrigger ==
    /\ hup = "trigger"
    /\ TriggerRead("EOF")
    /\ hup' = "done"
    /\ UNCHANGED <<conf, inputLen, waitReadSize, closing, timer, reading,
                   reader, ack, closer>>

(* onClose by another goroutine; after the poller closed it only forces    *)
(* the key.                                                                *)
OnClose ==
    /\ closer = "idle"
    /\ closing' = "user"
    /\ closer' = IF closing = "none" THEN "trigger" ELSE "done"
    /\ UNCHANGED <<conf, inputLen, waitReadSize, readTrigger, timer, reading,
                   reader, ack, hup>>

CloseTrigger ==
    /\ closer = "trigger"
    /\ TriggerRead("closed")
    /\ closer' = "done"
    /\ UNCHANGED <<conf, inputLen, waitReadSize, closing, timer, reading,
                   reader, ack, hup>>

-----------------------------------------------------------------------------
InWaitRead == StoreSize \/ LoopLen \/ LoopStatus \/ Receive \/ Expire \/ StopTimer
              \/ ResetSize \/ Consume
ReaderNext == StartReader \/ WaitRead \/ InWaitRead
PollerNext == BookAck \/ OnRequest \/ LoadSize \/ InputTrigger
HupNext == OnHup \/ HupTrigger
CloserNext == OnClose \/ CloseTrigger

Next == ReaderNext \/ PollerNext \/ HupNext \/ CloserNext \/ Fire

Spec == Init /\ [][Next]_vars

(* The goroutines run on and the clock ticks; nobody has to send or close. *)
Fairness ==
    /\ WF_vars(InWaitRead)
    /\ WF_vars(OnRequest \/ LoadSize \/ InputTrigger)
    /\ WF_vars(HupTrigger) /\ WF_vars(CloseTrigger)
    /\ WF_vars(Fire)

FairSpec == Spec /\ Fairness

-----------------------------------------------------------------------------
(* Properties.                                                             *)

(* waitRead "will wait full n bytes": it goes on with nil only when they   *)
(* are there, whatever stale triggers the channel held; and the peer's EOF *)
(* is never in the channel of a blocked reader whose data has arrived,     *)
(* because the trigger for the data went first and EOF was dropped.        *)
FullRead ==
    /\ pc = "consume" => inputLen >= n
    /\ pc = "select" /\ readTrigger = "EOF" => inputLen < n

(* "cannot return directly, stop timer first!": between two calls the      *)
(* timer is neither running nor has it left a value in C, which the next   *)
(* call would take for its own timeout.                                    *)
TimerClean == pc = "idle" => timer = "stopped"

(* The safety side of ReaderReturns: when a blocked reader has its bytes,  *)
(* or the connection was closed under it, its trigger is in the channel or *)
(* someone is about to send it (inputAck, onHup, onClose).                 *)
WakeUpUnderway ==
    pc = "select" =>
        /\ inputLen >= n =>
             \/ readTrigger # "empty"
             \/ ppc # "idle" /\ length >= waitReadSize /\ (ppc = "load" => needTrigger)
        /\ closing # "none" => readTrigger # "empty" \/ hup = "trigger" \/ closer = "trigger"

(* No wake-up is lost.  A reader whose data is there, whose connection was *)
(* closed, or whose timer runs, returns.                                   *)
ReaderReturns ==
    (pc = "select" /\ (inputLen >= n \/ closing # "none" \/ readTimeout))
        ~> (pc = "idle")

====
