------------------------------ MODULE Connection ------------------------------
(***************************************************************************)
(* The life of one connection: registration with a poller, the OnConnect,  *)
(* OnRequest, OnDisconnect and close callbacks, and the three ways it can  *)
(* end (the peer hangs up, the program calls Close or Detach, a callback   *)
(* panics).                                                                *)
(*                                                                         *)
(* Every goroutine that touches the connection is a process with a pc:     *)
(* the poller that handles its events, the goroutine onhups starts, the    *)
(* goroutine that runs server.onAccept, the tasks onProcess hands to the   *)
(* runner, and goroutines of the program.  One action is one atomic        *)
(* operation of the code on shared state, with the local work around it.   *)
(*                                                                         *)
(* Lengths count messages.  The trigger channels that wake blocked readers *)
(* and flushers, and the flushing key, are not part of this module.        *)
(***************************************************************************)
EXTENDS Naturals

CONSTANTS
    Tasks,            \* goroutines of the runner, reused when a task exits
    Users,            \* goroutines of the program
    Poller, Hup, Acceptor,
    Accepted,         \* TRUE: made by server.onAccept; FALSE: made by a dialer
    MaySetOnRequest,  \* the program calls SetOnRequest after init
    MayPanic,         \* callbacks may panic
    MaxInput          \* bound on messages in flight

ASSUME ConstantsAssumption ==
    /\ Accepted \in BOOLEAN /\ MaySetOnRequest \in BOOLEAN /\ MayPanic \in BOOLEAN
    /\ MaxInput \in Nat \ {0}
    /\ Tasks \cap Users = {}
    /\ {Poller, Hup, Acceptor} \cap (Tasks \cup Users) = {}
    /\ Poller # Hup /\ Poller # Acceptor /\ Hup # Acceptor

Procs == Tasks \cup Users \cup {Poller, Hup, Acceptor}

VARIABLES
    closing, connecting, processing,      \* locker.keychain
    connState,                            \* connection.state
    onConnect, onDisconnect, onRequest,   \* is the callback registered?
    inputLen,                             \* inputBuffer.Len()
    kernelLen, peerClosed, registered,    \* socket receive queue, FIN/RST seen, in epoll
    opState, opDetached, opPoll,          \* FDOperator.state, .detached, .poll # nil
    fdOpen, detaching,                    \* netFD
    delCallback, stored,                  \* server: delete callback added, fd in connections
    pc,
    captured,                             \* callbacks a task was started with
    closedBy,                             \* local of the task's loop
    evtHup,                               \* the event being handled has (RD)HUP
    unguarded,                            \* tasks closing after a panic, without the lock
    connectDone, disconnects, closeRuns   \* history: callbacks that have run

keychain == <<closing, connecting, processing>>
handlers == <<onConnect, onDisconnect, onRequest>>
kernel   == <<kernelLen, peerClosed, registered>>
operator == <<opState, opDetached, opPoll>>
netFD    == <<fdOpen, detaching>>
server   == <<delCallback, stored>>
locals   == <<captured, closedBy, evtHup, unguarded>>
history  == <<connectDone, disconnects, closeRuns>>
vars == <<keychain, connState, handlers, inputLen, kernel, operator, netFD,
          server, pc, locals, history>>

Who == {"none", "user", "poller"}
ConnStates == {"none", "connected", "disconnected"}

IsActive == closing = "none"

Goto(p, label) == pc' = [pc EXCEPT ![p] = label]

(* Where a goroutine continues when onRequest, onProcess or Close returns. *)
Return(p) == IF p = Poller THEN IF evtHup THEN "readall" ELSE "done"
             ELSE IF p = Acceptor THEN "exit"
             ELSE "idle"

-----------------------------------------------------------------------------
(* init and onAccept, run by the goroutine that accepts or dials.          *)

Init ==
    /\ closing = "none" /\ connecting = 0 /\ processing = 0
    /\ connState = "none"
    /\ onConnect \in (IF Accepted THEN BOOLEAN ELSE {FALSE})
    /\ onDisconnect \in (IF Accepted THEN BOOLEAN ELSE {FALSE})
    /\ onRequest \in (IF Accepted THEN BOOLEAN ELSE {FALSE})
    /\ inputLen = 0
    /\ kernelLen = 0 /\ peerClosed = FALSE /\ registered = FALSE
    /\ opState = 0 /\ opDetached = 0 /\ opPoll = TRUE
    /\ fdOpen = TRUE /\ detaching = FALSE
    /\ delCallback = FALSE /\ stored = FALSE
    /\ pc = [p \in Procs |-> IF p = Acceptor THEN "prepare"
                             ELSE IF p = Poller THEN "wait" ELSE "idle"]
    /\ captured = [t \in Tasks |-> {}]
    /\ closedBy = [t \in Tasks |-> "none"]
    /\ evtHup = FALSE /\ unguarded = {}
    /\ connectDone = FALSE /\ disconnects = 0 /\ closeRuns = 0

(* OnPrepare may close the connection, which is then never registered. *)
Prepare ==
    /\ pc[Acceptor] = "prepare"
    /\ \/ Goto(Acceptor, "register")
       \/ Accepted /\ Goto(Acceptor, "closeBy")
    /\ UNCHANGED <<keychain, connState, handlers, inputLen, kernel, operator,
                   netFD, server, locals, history>>

(* Control(PollReadable): inuse(), then EPOLL_CTL_ADD, which may fail. *)
Register ==
    /\ pc[Acceptor] = "register"
    /\ opState' = 1
    /\ \/ /\ registered' = TRUE
          /\ Goto(Acceptor, IF Accepted THEN "isActive" ELSE "exit")
       \/ /\ UNCHANGED registered
          /\ Goto(Acceptor, "closeBy")
    /\ UNCHANGED <<keychain, connState, handlers, inputLen, kernelLen,
                   peerClosed, opDetached, opPoll, netFD, server, locals, history>>

AcceptIsActive ==
    /\ pc[Acceptor] = "isActive"
    /\ Goto(Acceptor, IF IsActive THEN "addCloseCallback" ELSE "exit")
    /\ UNCHANGED <<keychain, connState, handlers, inputLen, kernel, operator,
                   netFD, server, locals, history>>

AddCloseCallback ==
    /\ pc[Acceptor] = "addCloseCallback"
    /\ delCallback' = TRUE
    /\ Goto(Acceptor, "store")
    /\ UNCHANGED <<keychain, connState, handlers, inputLen, kernel, operator,
                   netFD, stored, locals, history>>

StoreConnection ==
    /\ pc[Acceptor] = "store"
    /\ stored' = TRUE
    /\ Goto(Acceptor, "onConnect")
    /\ UNCHANGED <<keychain, connState, handlers, inputLen, kernel, operator,
                   netFD, delCallback, locals, history>>

(* onConnect(): without a callback the state changes here, otherwise a task *)
(* runs the callback under the connecting key.                              *)
OnConnect ==
    /\ pc[Acceptor] = "onConnect"
    /\ IF ~onConnect
       THEN /\ connState' = IF connState = "none" THEN "connected" ELSE connState
            /\ UNCHANGED connecting
            /\ Goto(Acceptor, "exit")
       ELSE /\ connecting' = 1
            /\ UNCHANGED connState
            /\ Goto(Acceptor, IF connecting = 0 THEN "onProcess" ELSE "exit")
    /\ UNCHANGED <<closing, processing, handlers, inputLen, kernel, operator,
                   netFD, server, locals, history>>

-----------------------------------------------------------------------------
(* onRequest, onProcess and the task.                                      *)

(* Mutant: onRequest does not wait for OnConnect. *)
OnRequest_early(p) ==
    /\ pc[p] = "onRequest"
    /\ Goto(p, IF ~onRequest THEN Return(p) ELSE "onProcess")
    /\ UNCHANGED <<keychain, connState, handlers, inputLen, kernel, operator,
                   netFD, server, locals, history>>

(* onRequest(): called by the poller and by SetOnRequest. *)
OnRequest(p) ==
    /\ pc[p] = "onRequest"
    /\ Goto(p, IF ~onRequest \/ (connState = "none" /\ onConnect)
               THEN Return(p) ELSE "onProcess")
    /\ UNCHANGED <<keychain, connState, handlers, inputLen, kernel, operator,
                   netFD, server, locals, history>>

(* lock(processing), then RunTask: one task owns the key. *)
OnProcess(p) ==
    /\ pc[p] = "onProcess"
    /\ IF processing = 1
       THEN /\ Goto(p, Return(p))
            /\ UNCHANGED <<processing, captured>>
       ELSE \E t \in Tasks :
            /\ pc[t] = "idle"
            /\ processing' = 1
            /\ captured' = [captured EXCEPT ![t] =
                              (IF p = Acceptor THEN {"connect"} ELSE {})
                              \cup (IF onRequest THEN {"request"} ELSE {})]
            /\ pc' = [pc EXCEPT ![p] = Return(p), ![t] = "task"]
    /\ UNCHANGED <<closing, connecting, connState, handlers, inputLen, kernel,
                   operator, netFD, server, closedBy, evtHup, unguarded, history>>

TaskStart(t) ==
    /\ pc[t] = "task"
    /\ IF "connect" \in captured[t] /\ connState = "none"
       THEN connState' = "connected" /\ Goto(t, "inConnect")
       ELSE UNCHANGED connState /\ Goto(t, "start")
    /\ UNCHANGED <<keychain, handlers, inputLen, kernel, operator, netFD,
                   server, locals, history>>

(* The OnConnect callback may read any part of the input. *)
ConnectReturn(t) ==
    /\ pc[t] = "inConnect"
    /\ inputLen' \in 0..inputLen
    /\ connectDone' = TRUE
    /\ Goto(t, "help")
    /\ UNCHANGED <<keychain, connState, handlers, kernel, operator, netFD,
                   server, locals, disconnects, closeRuns>>

(* Closed while OnConnect ran: the task helps to call OnDisconnect. *)
HelpDisconnect(t) ==
    /\ pc[t] = "help"
    /\ IF ~IsActive /\ connState = "connected"
       THEN /\ connState' = "disconnected"
            /\ disconnects' = IF onDisconnect THEN disconnects + 1 ELSE disconnects
            /\ Goto(t, IF onDisconnect THEN "inDisconnect" ELSE "unlockConnecting")
       ELSE UNCHANGED <<connState, disconnects>> /\ Goto(t, "unlockConnecting")
    /\ UNCHANGED <<keychain, handlers, inputLen, kernel, operator, netFD,
                   server, locals, connectDone, closeRuns>>

HelpReturn(t) ==
    /\ pc[t] = "inDisconnect"
    /\ Goto(t, "unlockConnecting")
    /\ UNCHANGED <<keychain, connState, handlers, inputLen, kernel, operator,
                   netFD, server, locals, history>>

UnlockConnecting(t) ==
    /\ pc[t] = "unlockConnecting"
    /\ connecting' = 0
    /\ Goto(t, "start")
    /\ UNCHANGED <<closing, processing, connState, handlers, inputLen, kernel,
                   operator, netFD, server, locals, history>>

(* START: OnRequest runs at least once when there is input. *)
StartRequest(t) ==
    /\ pc[t] = "start"
    /\ Goto(t, IF "request" \in captured[t] /\ inputLen > 0
               THEN "inRequest" ELSE "status")
    /\ UNCHANGED <<keychain, connState, handlers, inputLen, kernel, operator,
                   netFD, server, locals, history>>

RequestReturn(t) ==
    /\ pc[t] = "inRequest"
    /\ inputLen' \in 0..inputLen
    /\ Goto(t, "status")
    /\ UNCHANGED <<keychain, connState, handlers, kernel, operator, netFD,
                   server, locals, history>>

(* The loop reads the closing key first and the input length afterwards. *)
LoopStatus(t) ==
    /\ pc[t] = "status"
    /\ closedBy' = [closedBy EXCEPT ![t] = closing]
    /\ Goto(t, "loop")
    /\ UNCHANGED <<keychain, connState, handlers, inputLen, kernel, operator,
                   netFD, server, captured, evtHup, unguarded, history>>

Loop(t) ==
    /\ pc[t] = "loop"
    /\ Goto(t, IF closedBy[t] # "user" /\ "request" \in captured[t] /\ inputLen > 0
               THEN "inRequest"
               ELSE IF closedBy[t] = "none" THEN "unlock"
               ELSE IF closedBy[t] = "user" THEN "detach" ELSE "callbacks")
    /\ closedBy' = [closedBy EXCEPT ![t] = "none"]
    /\ UNCHANGED <<keychain, connState, handlers, inputLen, kernel, operator,
                   netFD, server, captured, evtHup, unguarded, history>>

UnlockProcessing(t) ==
    /\ pc[t] = "unlock"
    /\ processing' = 0
    /\ Goto(t, "recheckClosing")
    /\ UNCHANGED <<closing, connecting, connState, handlers, inputLen, kernel,
                   operator, netFD, server, locals, history>>

(* Mutant: the close state is not checked again after the unlock. *)
RecheckClosing_dropped(t) ==
    /\ pc[t] = "recheckClosing"
    /\ UNCHANGED processing /\ Goto(t, "recheckLen")
    /\ UNCHANGED <<closing, connecting, connState, handlers, inputLen, kernel,
                   operator, netFD, server, locals, history>>

(* Double check: closed after the loop looked and before the unlock. *)
RecheckClosing(t) ==
    /\ pc[t] = "recheckClosing"
    /\ IF ~IsActive /\ processing = 0
       THEN processing' = 1 /\ Goto(t, "callbacks")
       ELSE UNCHANGED processing /\ Goto(t, "recheckLen")
    /\ UNCHANGED <<closing, connecting, connState, handlers, inputLen, kernel,
                   operator, netFD, server, locals, history>>

TaskExit(t) == Goto(t, "idle") /\ captured' = [captured EXCEPT ![t] = {}]

(* Mutant: the input is not checked again after the unlock. *)
RecheckLen_dropped(t) ==
    /\ pc[t] = "recheckLen"
    /\ TaskExit(t)
    /\ UNCHANGED <<keychain, connState, handlers, inputLen, kernel, operator,
                   netFD, server, closedBy, evtHup, unguarded, history>>

(* Double check: input that arrived in the same window. *)
RecheckLen(t) ==
    /\ pc[t] = "recheckLen"
    /\ IF "request" \in captured[t] /\ inputLen > 0
       THEN Goto(t, "relock") /\ UNCHANGED captured
       ELSE TaskExit(t)
    /\ UNCHANGED <<keychain, connState, handlers, inputLen, kernel, operator,
                   netFD, server, closedBy, evtHup, unguarded, history>>

Relock(t) ==
    /\ pc[t] = "relock"
    /\ processing' = 1
    /\ IF processing = 0 THEN Goto(t, "start") /\ UNCHANGED captured
                         ELSE TaskExit(t)
    /\ UNCHANGED <<closing, connecting, connState, handlers, inputLen, kernel,
                   operator, netFD, server, closedBy, evtHup, unguarded, history>>

InCallback == {"inConnect", "inRequest", "inDisconnect"}

(* Close or Detach called by a callback of the task: the task itself holds *)
(* the processing key, so closeCallback(true, _) returns at once.          *)
CallbackClose(t) ==
    /\ pc[t] \in InCallback
    /\ closing' = "user"
    /\ detaching' \in {detaching, TRUE}
    /\ UNCHANGED <<connecting, processing, connState, handlers, inputLen,
                   kernel, operator, fdOpen, server, pc, locals, history>>

(* The deferred function of the task: the key is released first. *)
Panic(t) ==
    /\ MayPanic /\ pc[t] \in InCallback
    /\ inputLen' \in 0..inputLen
    /\ Goto(t, "panicUnlock")
    /\ UNCHANGED <<keychain, connState, handlers, kernel, operator, netFD,
                   server, locals, history>>

PanicUnlock(t) ==
    /\ pc[t] = "panicUnlock"
    /\ processing' = 0
    /\ Goto(t, "panicClose")
    /\ UNCHANGED <<closing, connecting, connState, handlers, inputLen, kernel,
                   operator, netFD, server, locals, history>>

PanicClose(t) ==
    /\ pc[t] = "panicClose"
    /\ IF IsActive THEN UNCHANGED unguarded /\ Goto(t, "closeBy")
                   ELSE unguarded' = unguarded \cup {t} /\ Goto(t, "callbacks")
    /\ UNCHANGED <<keychain, connState, handlers, inputLen, kernel, operator,
                   netFD, server, captured, closedBy, evtHup, history>>

-----------------------------------------------------------------------------
(* closeBy, closeCallback and the close callbacks themselves.              *)

(* A goroutine of the program calls Close, or Detach, at any time after    *)
(* registration. *)
UserClose(u) ==
    /\ pc[u] = "idle"
    /\ pc[Acceptor] \notin {"prepare", "register"}
    /\ detaching' \in {detaching, TRUE}
    /\ Goto(u, "closeBy")
    /\ UNCHANGED <<keychain, connState, handlers, inputLen, kernel, operator,
                   fdOpen, server, locals, history>>

(* onClose(): closeBy(user), or force(closing, user) after the poller. *)
CloseBy(p) ==
    /\ pc[p] = "closeBy"
    /\ closing' = "user"
    /\ Goto(p, IF IsActive THEN "closeLockDetach" ELSE "closeLock")
    /\ UNCHANGED <<connecting, processing, connState, handlers, inputLen,
                   kernel, operator, netFD, server, locals, history>>

(* Mutant: closeCallback runs without asking for the key. *)
CloseLock_skipped(p) ==
    /\ pc[p] \in {"closeLock", "closeLockDetach"}
    /\ processing' = 1
    /\ Goto(p, IF pc[p] = "closeLockDetach" THEN "detach" ELSE "callbacks")
    /\ UNCHANGED <<closing, connecting, connState, handlers, inputLen, kernel,
                   operator, netFD, server, locals, history>>

(* closeCallback(true, needDetach): give up if a task owns the key. *)
CloseLock(p) ==
    /\ pc[p] \in {"closeLock", "closeLockDetach"}
    /\ processing' = 1
    /\ Goto(p, IF processing = 1 THEN Return(p)
               ELSE IF pc[p] = "closeLockDetach" THEN "detach" ELSE "callbacks")
    /\ UNCHANGED <<closing, connecting, connState, handlers, inputLen, kernel,
                   operator, netFD, server, locals, history>>

(* AddInt32(&op.detached, 1), kept at 2: the code only asks whether it was 0. *)
AddDetached == IF opDetached = 2 THEN 2 ELSE opDetached + 1

(* FDOperator.Control(PollDetach): only the first call reaches epoll. *)
Detach(p) ==
    /\ pc[p] = "detach"
    /\ opDetached' = IF opPoll THEN AddDetached ELSE opDetached
    /\ Goto(p, IF opPoll /\ opDetached = 0 THEN "detachCtl" ELSE "callbacks")
    /\ UNCHANGED <<keychain, connState, handlers, inputLen, kernel, opState,
                   opPoll, netFD, server, locals, history>>

DetachCtl(p) ==
    /\ pc[p] = "detachCtl"
    /\ registered' = FALSE
    /\ Goto(p, "callbacks")
    /\ UNCHANGED <<keychain, connState, handlers, inputLen, kernelLen,
                   peerClosed, operator, netFD, server, locals, history>>

(* The callbacks added last run first: the server forgets the connection,  *)
(* then the finalizer of initFinalizer runs.                               *)
Callbacks(p) ==
    /\ pc[p] = "callbacks"
    /\ closeRuns' = closeRuns + 1
    /\ stored' = IF delCallback THEN FALSE ELSE stored
    /\ Goto(p, "free")
    /\ UNCHANGED <<keychain, connState, handlers, inputLen, kernel, operator,
                   netFD, delCallback, locals, connectDone, disconnects>>

(* Mutant: Free does not wait for the poller to leave the operator. *)
Free_nowait(p) ==
    /\ pc[p] = "free"
    /\ opPoll' = FALSE
    /\ IF opPoll THEN opState' = 0 /\ opDetached' = 0 /\ Goto(p, "closeFD")
                 ELSE UNCHANGED <<opState, opDetached>> /\ Goto(p, "crashed")
    /\ UNCHANGED <<keychain, connState, handlers, inputLen, kernel, netFD,
                   server, locals, history>>

(* operator.Free(): unused() waits for the poller to leave the operator,   *)
(* reset() clears it.  A second Free finds op.poll = nil and panics.       *)
Free(p) ==
    /\ pc[p] = "free"
    /\ opPoll => opState # 2
    /\ opPoll' = FALSE
    /\ IF opPoll THEN opState' = 0 /\ opDetached' = 0 /\ Goto(p, "closeFD")
                 ELSE UNCHANGED <<opState, opDetached>> /\ Goto(p, "crashed")
    /\ UNCHANGED <<keychain, connState, handlers, inputLen, kernel, netFD,
                   server, locals, history>>

(* netFD.Close(): closing the descriptor takes it out of epoll. *)
CloseFD(p) ==
    /\ pc[p] = "closeFD"
    /\ fdOpen' = (fdOpen /\ detaching)
    /\ registered' = (registered /\ detaching)
    /\ Goto(p, "closeBuffer")
    /\ UNCHANGED <<keychain, connState, handlers, inputLen, kernelLen,
                   peerClosed, operator, detaching, server, locals, history>>

(* closeBuffer(); the processing key stays locked for ever. *)
CloseBuffer(p) ==
    /\ pc[p] = "closeBuffer"
    /\ inputLen' = IF onConnect \/ onRequest THEN 0 ELSE inputLen
    /\ Goto(p, "closed")
    /\ UNCHANGED <<keychain, connState, handlers, kernel, operator, netFD,
                   server, locals, history>>

(* SetOnRequest(): store the callback, then look at the input. *)
SetOnRequest(u) ==
    /\ pc[u] = "idle" /\ MaySetOnRequest /\ ~onRequest
    /\ pc[Acceptor] \notin {"prepare", "register"}
    /\ onRequest' = TRUE
    /\ Goto(u, "setOnRequest")
    /\ UNCHANGED <<keychain, connState, onConnect, onDisconnect, inputLen,
                   kernel, operator, netFD, server, locals, history>>

(* Mutant: SetOnRequest does not look at the input. *)
CheckInput_dropped(u) ==
    /\ pc[u] = "setOnRequest"
    /\ Goto(u, "idle")
    /\ UNCHANGED <<keychain, connState, handlers, inputLen, kernel, operator,
                   netFD, server, locals, history>>

CheckInput(u) ==
    /\ pc[u] = "setOnRequest"
    /\ Goto(u, IF inputLen > 0 THEN "onRequest" ELSE "idle")
    /\ UNCHANGED <<keychain, connState, handlers, inputLen, kernel, operator,
                   netFD, server, locals, history>>

-----------------------------------------------------------------------------
(* onHup, run by the goroutine that onhups starts.                         *)

OnHup ==
    /\ pc[Hup] = "onHup"
    /\ closing' = IF IsActive THEN "poller" ELSE closing
    /\ Goto(Hup, IF IsActive THEN "onDisconnect" ELSE "idle")
    /\ UNCHANGED <<connecting, processing, connState, handlers, inputLen,
                   kernel, operator, netFD, server, locals, history>>

(* onDisconnect(): call OnDisconnect here, try for the connecting key, or  *)
(* leave it to the task that will run OnConnect.                           *)
OnDisconnect ==
    /\ pc[Hup] = "onDisconnect"
    /\ IF onDisconnect /\ ~onConnect
       THEN /\ connState' = "disconnected"
            /\ disconnects' = disconnects + 1
            /\ Goto(Hup, "hupInDisconnect")
       ELSE /\ UNCHANGED <<connState, disconnects>>
            /\ Goto(Hup, IF onDisconnect /\ connState # "none"
                         THEN "lockConnecting" ELSE "hupClose")
    /\ UNCHANGED <<keychain, handlers, inputLen, kernel, operator, netFD,
                   server, locals, connectDone, closeRuns>>

HupLockConnecting ==
    /\ pc[Hup] = "lockConnecting"
    /\ IF connecting = 0 /\ connState = "connected"
       THEN /\ connecting' = 1
            /\ connState' = "disconnected"
            /\ disconnects' = disconnects + 1
            /\ Goto(Hup, "hupInDisconnect")
       ELSE /\ UNCHANGED <<connecting, connState, disconnects>>
            /\ Goto(Hup, "hupClose")
    /\ UNCHANGED <<closing, processing, handlers, inputLen, kernel, operator,
                   netFD, server, locals, connectDone, closeRuns>>

HupDisconnectReturn ==
    /\ pc[Hup] = "hupInDisconnect"
    /\ connecting' = IF onConnect THEN 0 ELSE connecting
    /\ Goto(Hup, "hupClose")
    /\ UNCHANGED <<closing, processing, connState, handlers, inputLen, kernel,
                   operator, netFD, server, locals, history>>

(* Without handlers the connection waits for the program to close it. *)
HupClose ==
    /\ pc[Hup] = "hupClose"
    /\ Goto(Hup, IF onConnect \/ onRequest THEN "closeLock" ELSE "idle")
    /\ UNCHANGED <<keychain, connState, handlers, inputLen, kernel, operator,
                   netFD, server, locals, history>>

-----------------------------------------------------------------------------
(* The poller: defaultPoll.Wait and defaultPoll.handler for this operator. *)

PollWait ==
    /\ pc[Poller] = "wait" /\ registered
    /\ kernelLen > 0 \/ peerClosed
    /\ evtHup' = peerClosed
    /\ Goto(Poller, "do")
    /\ UNCHANGED <<keychain, connState, handlers, inputLen, kernel, operator,
                   netFD, server, captured, closedBy, unguarded, history>>

(* The event may be stale: do() fails on an operator that was freed. *)
PollDo ==
    /\ pc[Poller] = "do"
    /\ opState' = IF opState = 1 THEN 2 ELSE opState
    /\ Goto(Poller, IF opState = 1 THEN "read" ELSE "wait")
    /\ UNCHANGED <<keychain, connState, handlers, inputLen, kernel, opDetached,
                   opPoll, netFD, server, locals, history>>

(* Inputs, ioread and InputAck(n): the first bytes in an empty buffer      *)
(* start onRequest.                                                        *)
PollRead ==
    /\ pc[Poller] \in {"read", "readall"} /\ kernelLen > 0
    /\ \E n \in 1..kernelLen :
         /\ kernelLen' = kernelLen - n
         /\ inputLen' = inputLen + n
    /\ Goto(Poller, IF inputLen = 0 THEN "onRequest" ELSE Return(Poller))
    /\ UNCHANGED <<keychain, connState, handlers, peerClosed, registered,
                   operator, netFD, server, locals, history>>

(* Nothing to read: end of file hangs up, unless readall read something. *)
PollReadNothing ==
    /\ pc[Poller] \in {"read", "readall"} /\ kernelLen = 0
    /\ Goto(Poller, IF pc[Poller] = "read" /\ peerClosed THEN "appendHup" ELSE "done")
    /\ UNCHANGED <<keychain, connState, handlers, inputLen, kernel, operator,
                   netFD, server, locals, history>>

(* appendHup: detach, then done(). *)
AppendHup ==
    /\ pc[Poller] = "appendHup"
    /\ opDetached' = AddDetached
    /\ Goto(Poller, IF opDetached = 0 THEN "hupCtl" ELSE "hupDone")
    /\ UNCHANGED <<keychain, connState, handlers, inputLen, kernel, opState,
                   opPoll, netFD, server, locals, history>>

HupCtl ==
    /\ pc[Poller] = "hupCtl"
    /\ registered' = FALSE
    /\ Goto(Poller, "hupDone")
    /\ UNCHANGED <<keychain, connState, handlers, inputLen, kernelLen,
                   peerClosed, operator, netFD, server, locals, history>>

PollDone ==
    /\ pc[Poller] \in {"done", "hupDone"}
    /\ opState' = 1
    /\ Goto(Poller, IF pc[Poller] = "hupDone" THEN "onhups" ELSE "wait")
    /\ UNCHANGED <<keychain, connState, handlers, inputLen, kernel, opDetached,
                   opPoll, netFD, server, locals, history>>

Onhups ==
    /\ pc[Poller] = "onhups" /\ pc[Hup] = "idle"
    /\ pc' = [pc EXCEPT ![Poller] = "wait", ![Hup] = "onHup"]
    /\ UNCHANGED <<keychain, connState, handlers, inputLen, kernel, operator,
                   netFD, server, locals, history>>

-----------------------------------------------------------------------------
(* The peer and the socket.                                                *)

PeerSend ==
    /\ fdOpen /\ ~peerClosed /\ kernelLen + inputLen < MaxInput
    /\ kernelLen' = kernelLen + 1
    /\ UNCHANGED <<keychain, connState, handlers, inputLen, peerClosed,
                   registered, operator, netFD, server, pc, locals, history>>

(* An orderly shutdown keeps the data already sent, a reset drops it. *)
PeerClose ==
    /\ fdOpen /\ ~peerClosed
    /\ peerClosed' = TRUE
    /\ kernelLen' \in {kernelLen, 0}
    /\ UNCHANGED <<keychain, connState, handlers, inputLen, registered,
                   operator, netFD, server, pc, locals, history>>

-----------------------------------------------------------------------------

AcceptorNext == \/ Prepare \/ Register \/ AcceptIsActive \/ AddCloseCallback
                \/ StoreConnection \/ OnConnect
HupNext == OnHup \/ OnDisconnect \/ HupLockConnecting \/ HupDisconnectReturn \/ HupClose
PollerNext == \/ PollWait \/ PollDo \/ PollRead \/ PollReadNothing
              \/ AppendHup \/ HupCtl \/ PollDone \/ Onhups
TaskNext(t) == \/ TaskStart(t) \/ ConnectReturn(t) \/ HelpDisconnect(t)
               \/ HelpReturn(t) \/ UnlockConnecting(t) \/ StartRequest(t)
               \/ RequestReturn(t) \/ LoopStatus(t) \/ Loop(t)
               \/ UnlockProcessing(t) \/ RecheckClosing(t) \/ RecheckLen(t)
               \/ Relock(t) \/ PanicUnlock(t) \/ PanicClose(t)
CallNext(p) == \/ OnRequest(p) \/ OnProcess(p) \/ CloseBy(p) \/ CloseLock(p)
               \/ Detach(p) \/ DetachCtl(p) \/ Callbacks(p) \/ Free(p)
               \/ CloseFD(p) \/ CloseBuffer(p)
UserNext(u) == UserClose(u) \/ SetOnRequest(u)

Next ==
    \/ AcceptorNext \/ HupNext \/ PollerNext
    \/ \E t \in Tasks : TaskNext(t) \/ CallbackClose(t) \/ Panic(t)
    \/ \E p \in Procs : CallNext(p)
    \/ \E u \in Users : UserNext(u) \/ CheckInput(u)
    \/ PeerSend \/ PeerClose

Spec == Init /\ [][Next]_vars

(* A goroutine that can run does run, callbacks return, and a handler that *)
(* is called again and again eventually reads all of its input, which is   *)
(* what eventloop.go asks of OnRequest.  Nothing makes the peer or the     *)
(* program act.                                                            *)
Fairness ==
    /\ WF_vars(AcceptorNext) /\ WF_vars(HupNext) /\ WF_vars(PollerNext)
    /\ \A t \in Tasks : WF_vars(TaskNext(t))
    /\ \A t \in Tasks : SF_vars(RequestReturn(t) /\ inputLen' = 0)
    /\ \A p \in Procs : WF_vars(CallNext(p))
    /\ \A u \in Users : WF_vars(CheckInput(u))

FairSpec == Spec /\ Fairness

-----------------------------------------------------------------------------

Labels == {"idle", "exit", "prepare", "register", "isActive", "addCloseCallback",
    "store", "onConnect", "onRequest", "onProcess", "task", "inConnect", "help",
    "inDisconnect", "unlockConnecting", "start", "inRequest", "status", "loop",
    "unlock", "recheckClosing", "recheckLen", "relock", "panicUnlock",
    "panicClose", "closeBy", "closeLock", "closeLockDetach", "detach",
    "detachCtl", "callbacks", "free", "closeFD", "closeBuffer", "closed",
    "crashed", "setOnRequest", "onHup", "onDisconnect", "lockConnecting", "hupInDisconnect",
    "hupClose", "wait", "do", "read", "readall", "appendHup", "hupCtl",
    "hupDone", "done", "onhups"}

FlagsOK ==
    /\ onConnect \in BOOLEAN /\ onDisconnect \in BOOLEAN /\ onRequest \in BOOLEAN
    /\ peerClosed \in BOOLEAN /\ registered \in BOOLEAN /\ opPoll \in BOOLEAN
    /\ fdOpen \in BOOLEAN /\ detaching \in BOOLEAN
    /\ delCallback \in BOOLEAN /\ stored \in BOOLEAN
    /\ evtHup \in BOOLEAN /\ connectDone \in BOOLEAN

CountersOK ==
    /\ closing \in Who /\ connecting \in {0, 1} /\ processing \in {0, 1}
    /\ connState \in ConnStates
    /\ inputLen \in Nat /\ kernelLen \in Nat
    /\ opState \in 0..2 /\ opDetached \in 0..2
    /\ disconnects \in Nat /\ closeRuns \in Nat

LocalsOK ==
    /\ captured \in [Tasks -> SUBSET {"connect", "request"}]
    /\ closedBy \in [Tasks -> Who]
    /\ unguarded \subseteq Tasks

(* Every variable has its type. *)
TypeOK == pc \in [Procs -> Labels] /\ FlagsOK /\ CountersOK /\ LocalsOK

-----------------------------------------------------------------------------
(* Properties.                                                             *)

(* p runs close callbacks, or has run them. *)
Closes(p) == pc[p] \in {"free", "closeFD", "closeBuffer", "closed", "crashed"}

Serial(p) == pc[p] \in {"inConnect", "inRequest"} \/ Closes(p)

(* OnConnect, OnRequest and the close callbacks exclude each other, at most  *)
(* one OnRequest runs at a time, and once the close callbacks have begun no  *)
(* OnConnect, OnRequest or second round of close callbacks ever begins       *)
(* (the processing key, connection_onevent.go onProcess and closeCallback).  *)
SerialCallbacks == \A p, q \in Procs : Serial(p) /\ Serial(q) => p = q

(* At most one OnRequest runs at a time, even when callbacks panic: "it is    *)
(* guaranteed that there is one and only one OnRequest running at the same   *)
(* time" (eventloop.go; onProcess).                                          *)
OneOnRequest ==
    \A t, u \in Tasks : pc[t] = "inRequest" /\ pc[u] = "inRequest" => t = u

(* With an OnConnect callback, neither OnRequest nor OnDisconnect begins     *)
(* before it has finished, and OnDisconnect runs at most once whoever calls  *)
(* it (the connecting key and connState, onDisconnect and onProcess).        *)
CallbackOrder ==
    /\ onConnect /\ ~connectDone =>
         disconnects = 0 /\ \A t \in Tasks : pc[t] # "inRequest"
    /\ disconnects <= 1

(* Nobody controls or frees the operator after it was freed, the poller      *)
(* works on it only while Free waits (FDOperator do, done, unused), and what *)
(* a hangup closed is out of epoll before its fd and operator go, whoever    *)
(* does the closing (onProcess: "fd must already detach by poller").         *)
NoUseAfterFree ==
    /\ \A p \in Procs : pc[p] \in {"detachCtl", "free"} => opPoll
    /\ \A p \in Procs : pc[p] # "crashed"
    /\ pc[Poller] \in {"read", "readall", "onRequest", "onProcess", "appendHup",
                       "hupCtl", "hupDone", "done"} => opPoll /\ opState = 2
    /\ closing = "poller" => \A p \in Procs : pc[p] = "closeFD" => ~registered

(* A closed connection that has a handler is always released in the end,     *)
(* whoever closed it and whatever its task was doing ("to avoid connection   *)
(* leak", onProcess).                                                        *)
NoConnectionLeak ==
    (~IsActive /\ (onConnect \/ onRequest)) ~> (\E p \in Procs : pc[p] = "closed")

(* Input of a connection with OnRequest is handled, unless it is closed      *)
(* first: the task never exits with input the poller did not start a task    *)
(* for (inputAck, onProcess, SetOnRequest).                                  *)
InputHandled == (onRequest /\ inputLen > 0) ~> (inputLen = 0 \/ ~IsActive)

Quiet == \A p \in Procs : pc[p] \in {"idle", "exit", "closed", "wait"}

(* The poller, or SetOnRequest, leaves no input of a dialled connection      *)
(* behind: when nobody is at work and the connection is open, OnRequest has  *)
(* read everything (inputAck, onProcess, and SetOnRequest's "trigger         *)
(* OnRequest if there is already input data").                               *)
NoStrandedInput ==
    Quiet /\ IsActive /\ onRequest /\ pc[Acceptor] = "exit" => inputLen = 0

(* The safety side of NoConnectionLeak: when nobody is at work, a closed     *)
(* connection that has a handler has been released, whoever gave up on the   *)
(* processing key on the way (closeCallback, onProcess's double check).      *)
ReleasedAtRest ==
    Quiet /\ ~IsActive /\ (onConnect \/ onRequest) => \E p \in Procs : pc[p] = "closed"

(* onDisconnect: "OnConnect is not finished yet, return and let onConnect     *)
(* helps to call onDisconnect", so a hangup after OnConnect ran has called    *)
(* OnDisconnect once everything is quiet.                                     *)
DisconnectHelped ==
    Quiet /\ closing = "poller" /\ connectDone /\ onDisconnect => disconnects = 1
=============================================================================
