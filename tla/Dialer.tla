------------------------------- MODULE Dialer -------------------------------
(***************************************************************************)
(* One goroutine dials: connect, and, while that is in progress, a poll    *)
(* descriptor that waits for the poller, for the peer and for the context. *)
(* Every dial gets the same file descriptor, which closed ones leave free, *)
(* and an operator of its own (how operators are recycled is the subject   *)
(* of OperatorCache).  The manager shares nothing with a dial that waits,  *)
(* so that here nobody else uses it.                                       *)
(***************************************************************************)
EXTENDS PollManager

CONSTANTS
    Dial1,     \* the goroutine that dials, one of Pickers
    MaxDials   \* bound on its dials

VARIABLES
    dpc, epc,                  \* where the dialing goroutine and the poller are
    dials,                     \* dials so far; the descriptor's generation
    sock,                      \* "none", "connecting", "connected", "refused" or "closed"
    inEpoll,                   \* what is registered for the fd: "none", "dial" or "conn"
    edge,                      \* an event of the descriptor is pending
    opState, opDetached,       \* FDOperator
    writeTrigger, closeTrigger,  \* the channels are closed
    hups,                      \* descriptors whose onhup was not called yet
    ctxDone, err               \* the context, and the error that connect returns

channels == <<writeTrigger, closeTrigger, hups>>
operator == <<opState, opDetached>>
kernel == <<sock, inEpoll, edge>>
dialVars == <<dpc, epc, dials, kernel, operator, channels, ctxDone, err>>

DialInit ==
    /\ PollInit /\ dpc = "idle" /\ epc = "wait" /\ dials = 0
    /\ sock = "none" /\ inEpoll = "none" /\ edge = FALSE
    /\ opState = 0 /\ opDetached = FALSE
    /\ writeTrigger = FALSE /\ closeTrigger = FALSE /\ hups = {}
    /\ ctxDone = FALSE /\ err = FALSE

DialTo(from, to) == dpc = from /\ dpc' = to
PollTo(from, to) == epc = from /\ epc' = to

-----------------------------------------------------------------------------
(* The kernel and the context *)

\* The peer answers, or refuses, which the event reports as a hang-up.
Resolve(answer) ==
    /\ sock = "connecting" /\ sock' = answer /\ edge' = (inEpoll = "dial")
    /\ UNCHANGED <<dpc, epc, dials, inEpoll, operator, channels, ctxDone, err>>

\* The peer closes a connection that it has just accepted.
PeerClose ==
    /\ sock = "connected" /\ sock' = "closed" /\ edge' = (inEpoll = "dial")
    /\ UNCHANGED <<dpc, epc, dials, inEpoll, operator, channels, ctxDone, err>>

\* An event without a reason
Spurious ==
    /\ sock = "connecting" /\ inEpoll = "dial" /\ edge' = TRUE
    /\ UNCHANGED <<dpc, epc, dials, sock, inEpoll, operator, channels, ctxDone, err>>

Expire ==
    /\ dpc \notin {"idle", "done"} /\ ~ctxDone /\ ctxDone' = TRUE
    /\ UNCHANGED <<dpc, epc, dials, kernel, operator, channels, err>>

-----------------------------------------------------------------------------
(* connect, until it waits *)

Connect ==
    /\ dpc = "idle" /\ dials < MaxDials /\ dials' = dials + 1 /\ ctxDone' = FALSE
    /\ \/ dpc' = "pick" /\ sock' = "connecting" /\ UNCHANGED err
       \/ dpc' = "checkCtx" /\ sock' = "connected" /\ UNCHANGED err
       \/ dpc' = "return" /\ sock' = "refused" /\ err' = TRUE
    /\ UNCHANGED <<epc, inEpoll, edge, operator, channels>>

CheckCtx ==
    /\ DialTo("checkCtx", "return") /\ err' = ctxDone
    /\ UNCHANGED <<epc, dials, kernel, operator, channels, ctxDone>>

newPollDesc ==
    /\ DialTo("pick", "waitWrite") /\ Picked(Dial1)
    /\ opState' = 0 /\ opDetached' = FALSE /\ writeTrigger' = FALSE /\ closeTrigger' = FALSE
    /\ UNCHANGED <<epc, dials, kernel, hups, ctxDone, err>>

-----------------------------------------------------------------------------
(* WaitWrite *)

\* Registering fails when the fd is registered already.
WaitWrite ==
    /\ dpc = "waitWrite"
    /\ IF opState # 0 THEN dpc' = "select" /\ UNCHANGED <<opState, inEpoll, edge, err>>
       ELSE /\ opState' = 1
            /\ IF inEpoll = "none"
                 THEN /\ dpc' = "select" /\ inEpoll' = "dial" /\ edge' = (sock # "connecting")
                      /\ UNCHANGED err
                 ELSE dpc' = "free" /\ err' = TRUE /\ UNCHANGED <<inEpoll, edge>>
    /\ UNCHANGED <<epc, dials, sock, opDetached, channels, ctxDone>>

\* The select takes any of the cases that are ready.
Select ==
    /\ \/ closeTrigger /\ DialTo("select", "free") /\ err' = TRUE /\ UNCHANGED opDetached
       \/ writeTrigger /\ DialTo("select", "check") /\ err' = FALSE /\ UNCHANGED opDetached
       \/ /\ ctxDone /\ DialTo("select", IF opDetached THEN "check" ELSE "delete")
          /\ err' = TRUE /\ opDetached' = TRUE
    /\ UNCHANGED <<epc, dials, kernel, opState, channels, ctxDone>>

Delete == inEpoll' = "none" /\ edge' = FALSE

SelectDelete ==
    /\ DialTo("delete", "check") /\ Delete
    /\ UNCHANGED <<epc, dials, sock, operator, channels, ctxDone, err>>

CheckTriggers ==
    /\ DialTo("check", IF closeTrigger \/ err THEN "free" ELSE "sockopt")
    /\ err' = (err \/ closeTrigger)
    /\ UNCHANGED <<epc, dials, kernel, operator, channels, ctxDone>>

Getsockopt ==
    /\ DialTo("sockopt", IF sock = "connecting" THEN "waitWrite" ELSE "free")
    /\ err' = (sock = "refused")
    /\ UNCHANGED <<epc, dials, kernel, operator, channels, ctxDone>>

\* Mutant: the operator is freed under the poller.
Free_nowait ==
    /\ DialTo("free", "return") /\ opState' = 0
    /\ UNCHANGED <<epc, dials, kernel, opDetached, channels, ctxDone, err>>

\* unused waits for the poller.
Free ==
    /\ DialTo("free", "return") /\ opState # 2 /\ opState' = 0
    /\ UNCHANGED <<epc, dials, kernel, opDetached, channels, ctxDone, err>>

\* dial: on error the fd is closed and the next address, or the next call,
\* gets it again; on success the connection registers the fd.
Fail ==
    /\ err /\ DialTo("return", "idle") /\ err' = FALSE
    /\ sock' = "none" /\ inEpoll' = "none" /\ edge' = FALSE
    /\ UNCHANGED <<epc, dials, operator, channels, ctxDone>>

Succeed ==
    /\ ~err /\ DialTo("return", "done")
    /\ inEpoll' = IF inEpoll = "none" THEN "conn" ELSE inEpoll
    /\ UNCHANGED <<epc, dials, sock, edge, operator, channels, ctxDone, err>>

-----------------------------------------------------------------------------
(* The poller, whose handler holds the operator from do to done *)

Event ==
    /\ edge /\ edge' = FALSE /\ opState = 1 /\ opState' = 2
    /\ PollTo("wait", IF sock \in {"refused", "closed"} THEN "hup"
                      ELSE IF writeTrigger THEN "done" ELSE "write")
    /\ UNCHANGED <<dpc, dials, sock, inEpoll, opDetached, channels, ctxDone, err>>

\* detach: the first one deletes the fd from epoll.
Detach1(from, delete, to) ==
    /\ PollTo(from, IF opDetached THEN to ELSE delete) /\ opDetached' = TRUE
    /\ UNCHANGED <<dpc, dials, kernel, opState, channels, ctxDone, err>>

PollDelete(from, to) ==
    /\ PollTo(from, to) /\ Delete
    /\ UNCHANGED <<dpc, dials, sock, operator, channels, ctxDone, err>>

\* Mutant: the dialer is not woken.
onwrite_silent ==
    /\ PollTo("trigger", "done")
    /\ UNCHANGED <<dpc, dials, kernel, operator, channels, ctxDone, err>>

onwrite ==
    /\ PollTo("trigger", "done") /\ writeTrigger' = TRUE
    /\ UNCHANGED <<dpc, dials, kernel, operator, closeTrigger, hups, ctxDone, err>>

PollDone ==
    /\ PollTo("done", "wait") /\ opState' = 1
    /\ UNCHANGED <<dpc, dials, kernel, opDetached, channels, ctxDone, err>>

\* done, and then onhups
HupDone ==
    /\ PollTo("hupDone", "wait") /\ opState' = 1 /\ hups' = hups \cup {dials}
    /\ UNCHANGED <<dpc, dials, kernel, opDetached, writeTrigger, closeTrigger, ctxDone, err>>

onhup(d) ==
    /\ d \in hups /\ hups' = hups \ {d} /\ closeTrigger' = (closeTrigger \/ d = dials)
    /\ UNCHANGED <<dpc, epc, dials, kernel, operator, writeTrigger, ctxDone, err>>

PollerStep ==
    \/ Event \/ onwrite \/ PollDone \/ HupDone
    \/ Detach1("write", "writeDelete", "trigger") \/ PollDelete("writeDelete", "trigger")
    \/ Detach1("hup", "hupDelete", "hupDone") \/ PollDelete("hupDelete", "hupDone")
    \/ \E d \in hups : onhup(d)

\* What goes on by itself, once it was called
DialStep ==
    \/ (CheckCtx \/ WaitWrite \/ Select \/ SelectDelete \/ CheckTriggers \/ Getsockopt \/ Free
          \/ Fail \/ Succeed \/ PollerStep) /\ UNCHANGED pollVars
    \/ dpc = "pick" /\ (Pick(Dial1) \/ PickStep(Dial1)) /\ UNCHANGED dialVars
    \/ newPollDesc

DialNext ==
    /\ ~panicked
    /\ \/ DialStep
       \/ (Connect \/ (\E answer \in {"connected", "refused"} : Resolve(answer)) \/ PeerClose
             \/ Spurious \/ Expire) /\ UNCHANGED pollVars

DialSpec == DialInit /\ [][DialNext]_<<pollVars, dialVars>>
DialQuiescent == ~ENABLED DialStep

-----------------------------------------------------------------------------
(* Properties *)

\* A dial that succeeds leaves the fd to its connection: the dialer's
\* registration is gone, and no delayed detach of a poller, not even of an
\* earlier dial with the same fd, deletes the new one (connect, onwrite, Free).
FdHandedOver == dpc = "done" => inEpoll = "conn"

\* A dial succeeds only when the peer accepted (connect).
DialTrue == dpc = "done" => sock \in {"connected", "closed"}

\* A dial returns once the peer answered or the context is done, whichever
\* comes first and however they overlap (WaitWrite, onwrite, onhup, Pick).
DialReturns ==
    dpc \notin {"idle", "done"} /\ (sock # "connecting" \/ ctxDone) => ~DialQuiescent
=============================================================================
