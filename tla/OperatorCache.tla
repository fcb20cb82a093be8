---------------------------- MODULE OperatorCache ----------------------------
(***************************************************************************)
(* FDOperator and operatorCache against one poller (fd_operator.go,        *)
(* fd_operator_cache.go, the batch loop of poll_default_linux.go).         *)
(* Connections allocate an operator, register it, detach it and give it    *)
(* back, while the poller works through batches of events that carry a     *)
(* bare pointer to an operator.  A freed operator is reset at once, but    *)
(* only the poller, after a batch, makes it available again.  A connection *)
(* keeps its pointer when the operator is gone: Release after the close    *)
(* calls do and done on an operator that may be somebody else's by then.   *)
(*                                                                         *)
(* A connection lives once.  Each of the spin-locked sections of the cache *)
(* (alloc, the append of freeable, free) is one step: nothing else touches *)
(* what they guard.  A pool of Ops stands for the block alloc makes when   *)
(* the list is empty; alloc waits here where the code would make another.  *)
(***************************************************************************)
EXTENDS Integers

CONSTANTS Ops, Conns, None

ASSUME OpsAssumption == None \notin Ops /\ None \notin Conns

VARIABLES
    first, freelist,   \* operators to allocate; operators to be freed
    state,             \* FDOperator.state: 0 unused, 1 in use, 2 do
    owner,             \* whose FD and callbacks the operator holds
    detached,          \* FDOperator.detached, 1 standing for every larger value
    op,                \* connection.operator, kept after it is freed
    epoll,             \* the connections whose fd is in epoll
    stray,             \* the operators freed, once, with their fd in epoll
    cpc,               \* control of a connection's life
    releasing,         \* the connections between do and done in Release
    batch, current,    \* events <<operator, connection>> left; the one handled
    hups,              \* the connections whose OnHup is collected
    hupped,            \* the connections whose OnHup runs in its goroutine
    ppc                \* control of the poller

cache == <<first, freelist>>
poller == <<batch, current, hups, hupped, ppc>>
vars == <<first, freelist, state, owner, detached, op, epoll, stray, cpc, releasing,
          batch, current, hups, hupped, ppc>>

NoEvent == <<None, None>>

Init ==
    /\ first = Ops /\ freelist = {}
    /\ state = [o \in Ops |-> 0]
    /\ owner = [o \in Ops |-> None]
    /\ detached = [o \in Ops |-> 0]
    /\ op = [c \in Conns |-> None]
    /\ epoll = {} /\ stray = {}
    /\ cpc = [c \in Conns |-> "new"]
    /\ releasing = {}
    /\ batch = {} /\ current = NoEvent /\ hups = {} /\ hupped = {} /\ ppc = "wait"

-----------------------------------------------------------------------------
(* A connection.                                                           *)

(* alloc, and the fields initFDOperator sets. *)
Alloc(c) ==
    /\ cpc[c] = "new"
    /\ \E o \in first :
         /\ first' = first \ {o}
         /\ op' = [op EXCEPT ![c] = o]
         /\ owner' = [owner EXCEPT ![o] = c]
    /\ cpc' = [cpc EXCEPT ![c] = "init"]
    /\ UNCHANGED <<freelist, state, detached, epoll, stray, releasing, poller>>

(* Control(PollReadable): inuse returns with the state 1 ... *)
Inuse(c) ==
    /\ cpc[c] = "init"
    /\ state[op[c]] \in {0, 1}
    /\ state' = [state EXCEPT ![op[c]] = 1]
    /\ cpc' = [cpc EXCEPT ![c] = "add"]
    /\ UNCHANGED <<cache, owner, detached, op, epoll, stray, releasing, poller>>

(* ... then EPOLL_CTL_ADD. *)
Register(c) ==
    /\ cpc[c] = "add"
    /\ epoll' = epoll \cup {c}
    /\ cpc' = [cpc EXCEPT ![c] = "open"]
    /\ UNCHANGED <<cache, state, owner, detached, op, stray, releasing, poller>>

(* The user closes: Control(PollDetach), and only the first to add to      *)
(* detached goes on to the poller's Control.                               *)
Close(c) ==
    /\ cpc[c] = "open"
    /\ detached' = [detached EXCEPT ![op[c]] = 1]
    /\ cpc' = [cpc EXCEPT ![c] = IF detached[op[c]] = 0 THEN "detach" ELSE "unused"]
    /\ UNCHANGED <<cache, state, owner, op, epoll, stray, releasing, poller>>

(* The user's close found the processing key taken by a task on its way    *)
(* out: the task's second look, or its panic, closes for the user and does *)
(* not detach.  Unless the poller has, the fd is in epoll until it is      *)
(* closed, and the operator is given up before that.                       *)
TaskClose(c) ==
    /\ cpc[c] = "open"
    /\ stray' = IF detached[op[c]] = 0 THEN stray \cup {op[c]} ELSE stray
    /\ cpc' = [cpc EXCEPT ![c] = "unused"]
    /\ UNCHANGED <<cache, state, owner, detached, op, epoll, releasing, poller>>

(* EPOLL_CTL_DEL *)
Detach(c) ==
    /\ cpc[c] = "detach"
    /\ epoll' = epoll \ {c}
    /\ cpc' = [cpc EXCEPT ![c] = "unused"]
    /\ UNCHANGED <<cache, state, owner, detached, op, stray, releasing, poller>>

(* OnHup, in the goroutine of onhups, closes without a detach; it does     *)
(* nothing when the user was first to close.  A stray event may bring it   *)
(* to a connection that is being registered; the close waits for that here. *)
OnHup(c) ==
    /\ c \in hupped /\ cpc[c] # "add"
    /\ hupped' = hupped \ {c}
    /\ cpc' = IF cpc[c] = "open" THEN [cpc EXCEPT ![c] = "unused"] ELSE cpc
    /\ UNCHANGED <<cache, state, owner, detached, op, epoll, stray, releasing,
                   batch, current, hups, ppc>>

(* Free, freeable: unused spins while the state is 2. *)
Unused(c) ==
    /\ cpc[c] = "unused"
    /\ state[op[c]] \in {0, 1}
    /\ state' = [state EXCEPT ![op[c]] = 0]
    /\ cpc' = [cpc EXCEPT ![c] = "reset"]
    /\ UNCHANGED <<cache, owner, detached, op, epoll, stray, releasing, poller>>

(* reset, under no lock *)
Reset(c) ==
    /\ cpc[c] = "reset"
    /\ owner' = [owner EXCEPT ![op[c]] = None]
    /\ detached' = [detached EXCEPT ![op[c]] = 0]
    /\ cpc' = [cpc EXCEPT ![c] = "append"]
    /\ UNCHANGED <<cache, state, op, epoll, stray, releasing, poller>>

(* Mutant of Freeable: the operator is available at once. *)
Freeable_direct(c) ==
    /\ cpc[c] = "append"
    /\ first' = first \cup {op[c]}
    /\ cpc' = [cpc EXCEPT ![c] = "closeFD"]
    /\ UNCHANGED <<freelist, state, owner, detached, op, epoll, stray, releasing, poller>>

(* The index is appended to the freelist. *)
Freeable(c) ==
    /\ cpc[c] = "append"
    /\ freelist' = freelist \cup {op[c]}
    /\ cpc' = [cpc EXCEPT ![c] = "closeFD"]
    /\ UNCHANGED <<first, state, owner, detached, op, epoll, stray, releasing, poller>>

(* netFD.Close, after Free: the kernel takes a closed fd out of epoll. *)
CloseFD(c) ==
    /\ cpc[c] = "closeFD"
    /\ epoll' = epoll \ {c}
    /\ cpc' = [cpc EXCEPT ![c] = "closed"]
    /\ UNCHANGED <<cache, state, owner, detached, op, stray, releasing, poller>>

(* Release, open or closed: do ... *)
Release(c) ==
    /\ cpc[c] # "new" /\ c \notin releasing
    /\ state[op[c]] = 1
    /\ state' = [state EXCEPT ![op[c]] = 2]
    /\ releasing' = releasing \cup {c}
    /\ UNCHANGED <<cache, owner, detached, op, epoll, stray, cpc, poller>>

(* ... and done, once the buffer is trimmed. *)
ReleaseDone(c) ==
    /\ c \in releasing
    /\ state' = [state EXCEPT ![op[c]] = 1]
    /\ releasing' = releasing \ {c}
    /\ UNCHANGED <<cache, owner, detached, op, epoll, stray, cpc, poller>>

-----------------------------------------------------------------------------
(* The poller.                                                             *)

(* epoll_wait reports some of the registered fds. *)
PollWait ==
    /\ ppc = "wait"
    /\ \E ready \in SUBSET epoll :
         /\ ready # {}
         /\ batch' = {<<op[c], c>> : c \in ready}
    /\ ppc' = "next"
    /\ UNCHANGED <<cache, state, owner, detached, op, epoll, stray, cpc, releasing,
                   current, hups, hupped>>

(* handler: operator.do, or the event is skipped. *)
PollDo ==
    /\ ppc = "next"
    /\ \E e \in batch :
         /\ batch' = batch \ {e}
         /\ IF state[e[1]] = 1
            THEN /\ state' = [state EXCEPT ![e[1]] = 2]
                 /\ current' = e /\ ppc' = "handle"
            ELSE UNCHANGED <<state, current, ppc>>
    /\ UNCHANGED <<cache, owner, detached, op, epoll, stray, cpc, releasing, hups, hupped>>

(* The operator's Inputs, InputAck, Outputs, OutputAck. *)
PollHandle ==
    /\ ppc = "handle"
    /\ ppc' = "done"
    /\ UNCHANGED <<cache, state, owner, detached, op, epoll, stray, cpc, releasing,
                   batch, current, hups, hupped>>

(* appendHup: OnHup is collected; the poller detaches unless it was done. *)
AppendHup ==
    /\ ppc = "handle"
    /\ hups' = hups \cup {owner[current[1]]}
    /\ detached' = [detached EXCEPT ![current[1]] = 1]
    /\ ppc' = IF detached[current[1]] = 0 THEN "detach" ELSE "done"
    /\ UNCHANGED <<cache, state, owner, op, epoll, stray, cpc, releasing,
                   batch, current, hupped>>

(* EPOLL_CTL_DEL of the operator's FD *)
HupDetach ==
    /\ ppc = "detach"
    /\ epoll' = epoll \ {owner[current[1]]}
    /\ ppc' = "done"
    /\ UNCHANGED <<cache, state, owner, detached, op, stray, cpc, releasing,
                   batch, current, hups, hupped>>

(* Mutant of PollDone: it does not say done. *)
PollDone_missing ==
    /\ ppc = "done"
    /\ current' = NoEvent
    /\ ppc' = "next"
    /\ UNCHANGED <<cache, state, owner, detached, op, epoll, stray, cpc, releasing,
                   batch, hups, hupped>>

(* operator.done *)
PollDone ==
    /\ ppc = "done"
    /\ state' = [state EXCEPT ![current[1]] = 1]
    /\ current' = NoEvent
    /\ ppc' = "next"
    /\ UNCHANGED <<cache, owner, detached, op, epoll, stray, cpc, releasing,
                   batch, hups, hupped>>

(* The batch is done: onhups starts the collected OnHups ... *)
Onhups ==
    /\ ppc = "next" /\ batch = {}
    /\ hupped' = hupped \cup hups
    /\ hups' = {}
    /\ ppc' = "free"
    /\ UNCHANGED <<cache, state, owner, detached, op, epoll, stray, cpc, releasing,
                   batch, current>>

(* ... and opcache.free makes the freed operators available. *)
PollFree ==
    /\ ppc = "free"
    /\ first' = first \cup freelist
    /\ freelist' = {}
    /\ ppc' = "wait"
    /\ UNCHANGED <<state, owner, detached, op, epoll, stray, cpc, releasing,
                   batch, current, hups, hupped>>

-----------------------------------------------------------------------------
Closing(c) == Detach(c) \/ Unused(c) \/ Reset(c) \/ Freeable(c) \/ CloseFD(c)

ConnNext(c) ==
    \/ Alloc(c) \/ Inuse(c) \/ Register(c) \/ Close(c) \/ TaskClose(c) \/ OnHup(c)
    \/ Closing(c) \/ Release(c) \/ ReleaseDone(c)

Handler ==
    \/ PollDo \/ PollHandle \/ AppendHup \/ HupDetach \/ PollDone
    \/ Onhups \/ PollFree

Next == (\E c \in Conns : ConnNext(c)) \/ PollWait \/ Handler

Spec == Init /\ [][Next]_vars

(* The poller finishes a batch, the goroutines of OnHup, of Release and of *)
(* a close run on.  No more is assumed of unused than that it is tried     *)
(* while it stays possible: its compare-and-swap may come when the state   *)
(* is 2 at every turn of the loop.                                         *)
Fairness ==
    /\ WF_vars(Handler)
    /\ \A c \in Conns :
         WF_vars(Closing(c)) /\ WF_vars(OnHup(c)) /\ WF_vars(ReleaseDone(c))

FairSpec == Spec /\ Fairness

-----------------------------------------------------------------------------
(* Properties.                                                             *)

States == {"new", "init", "add", "open", "detach", "unused", "reset", "append",
           "closeFD", "closed"}

(* The types of the state. *)
TypeOK ==
    /\ first \subseteq Ops /\ freelist \subseteq Ops
    /\ state \in [Ops -> {0, 1, 2}]
    /\ owner \in [Ops -> Conns \cup {None}]
    /\ detached \in [Ops -> {0, 1}]
    /\ op \in [Conns -> Ops \cup {None}]
    /\ epoll \subseteq Conns /\ stray \subseteq Ops
    /\ cpc \in [Conns -> States]
    /\ releasing \subseteq Conns
    /\ batch \subseteq Ops \X Conns
    /\ current \in (Ops \X Conns) \cup {NoEvent}
    /\ hups \subseteq Conns /\ hupped \subseteq Conns
    /\ ppc \in {"wait", "next", "handle", "detach", "done", "free"}

(* While the poller handles an event, from do to done, the operator holds  *)
(* the callbacks and the fd of the connection the event was reported for:  *)
(* it was not reset, nor handed to another connection, since epoll_wait    *)
(* returned ("we can make sure that there is no op remaining if Handler    *)
(* finished", poll_default_linux.go:113).  The exception are the operators *)
(* that a task gave up for the user without a detach (TaskClose).          *)
EventOwner ==
    ppc \in {"handle", "detach", "done"} /\ current[1] \notin stray
        => owner[current[1]] = current[2]

Holds(c) == cpc[c] \notin {"new", "closeFD", "closed"}

(* No two connections hold one operator, and one that can be allocated, or *)
(* waits to be, is held by nobody: alloc, freeable and free move it        *)
(* between three places and never copy it.                                 *)
Exclusive ==
    /\ \A c, d \in Conns : Holds(c) /\ Holds(d) /\ op[c] = op[d] => c = d
    /\ \A c \in Conns : Holds(c) => op[c] \notin first \cup freelist
    /\ first \cap freelist = {}

(* do is a lock: the poller and the Releases, stale ones included, are     *)
(* never two between do and done on one operator.                          *)
DoIsLock ==
    /\ \A c, d \in releasing : op[c] = op[d] => c = d
    /\ \A c \in releasing :
         /\ state[op[c]] = 2
         /\ ppc \in {"handle", "detach", "done"} => op[c] # current[1]

(* However user, task and poller share the close and the detach, a fd is   *)
(* out of epoll before its operator can be allocated again, so no later    *)
(* epoll_wait reports it with the pointer of somebody else's; again, the   *)
(* close by a task that does not detach is the one exception.              *)
OutOfEpoll ==
    \A c \in epoll : op[c] \notin stray => Holds(c) /\ owner[op[c]] = c

(* A step that makes unused(c) spin on: somebody's Release takes the       *)
(* operator, or the poller does, for a fd that is still in epoll.          *)
TakenAgain(c) ==
    /\ cpc[c] = "unused" /\ state[op[c]] # 2 /\ state'[op[c]] = 2
    /\ releasing' # releasing \/ op[c] \in stray

(* A connection that is closing gives its operator back and closes its fd, *)
(* or its operator is taken again and again, for ever, by the Releases of  *)
(* its own or of a former holder (or, undetached, by the poller): nobody   *)
(* who took it keeps it, and no batch brings a detached one back.          *)
OperatorReturned ==
    \A c \in Conns :
        \/ (cpc[c] = "unused") ~> (cpc[c] = "closed")
        \/ []<><<TakenAgain(c)>>_vars
====
