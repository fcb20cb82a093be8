------------------------- MODULE OperatorCacheProofs -------------------------
(***************************************************************************)
(* For any number of operators and connections: no two connections hold    *)
(* one operator, do and done are a lock, and an event is handled with the  *)
(* callbacks of the connection it was reported for, unless a task gave its *)
(* operator up without a detach.  What such an undetached fd does stays    *)
(* with its operator: the invariant says of the others what it would say   *)
(* if there were none.                                                     *)
(***************************************************************************)
EXTENDS OperatorCache, TLAPS

Busy == {"handle", "detach", "done"}
Fresh == {"new", "init", "add"}
Usable == {"add", "open", "detach", "unused"}

(* An operator that carries the fields of a connection is the one that     *)
(* connection holds, until reset; one in the state 1 or 2 is registered    *)
(* and not yet given up.                                                   *)
OwnerInv ==
    /\ \A c \in Conns : cpc[c] # "new" => op[c] \in Ops
    /\ \A c \in Conns : cpc[c] \in Usable \cup {"init", "reset"} => owner[op[c]] = c
    /\ \A o \in Ops : state[o] # 0 =>
         /\ owner[o] \in Conns
         /\ op[owner[o]] = o
         /\ cpc[owner[o]] \in Usable

(* An event points to the operator of the connection it was reported for;  *)
(* unless that is a stray one, nobody else holds it, and it is held or     *)
(* waits in the freelist.                                                  *)
EventInv ==
    /\ \A e \in batch :
         /\ op[e[2]] = e[1]
         /\ cpc[e[2]] \notin Fresh
         /\ e[1] \notin stray => e[1] \notin first
         /\ e[1] \notin stray => \A d \in Conns : Holds(d) /\ op[d] = e[1] => d = e[2]
    /\ ppc \in {"wait", "free"} => batch = {}
    /\ ppc \in Busy =>
         /\ current \in Ops \X Conns
         /\ state[current[1]] = 2
         /\ op[current[2]] = current[1]
         /\ cpc[current[2]] \notin Fresh
         /\ current[1] \notin stray => owner[current[1]] = current[2]

(* A fd is in epoll while its connection is open, or has still to be       *)
(* detached by its own close or by the poller that is handling it, unless  *)
(* its operator is stray.                                                  *)
EpollInv ==
    /\ \A c \in epoll : cpc[c] \notin Fresh
    /\ \A c \in epoll : op[c] \notin stray =>
         \/ cpc[c] \in {"open", "detach"}
         \/ cpc[c] = "unused" /\ ppc = "detach" /\ current[2] = c
    /\ \A c \in epoll : op[c] \notin stray /\ cpc[c] = "open" /\ detached[op[c]] # 0 =>
         ppc = "detach" /\ current[2] = c
    /\ \A c \in hups : c \in epoll /\ op[c] \notin stray =>
         cpc[c] # "open" \/ (ppc = "detach" /\ current[2] = c)
    /\ \A c \in hupped : c \in epoll /\ op[c] \notin stray => cpc[c] # "open"

(* A connection starts with an operator nobody has detached. *)
FreshInv ==
    /\ \A c \in hups \cup hupped :
         cpc[c] # "new" /\ (op[c] \notin stray => cpc[c] \notin Fresh)
    /\ \A o \in first \cup freelist : detached[o] = 0
    /\ \A c \in Conns : cpc[c] \in {"init", "append"} => detached[op[c]] = 0
    /\ \A c \in Conns : cpc[c] = "add" /\ op[c] \notin stray => detached[op[c]] = 0

(* Who is between do and done in Release has an operator. *)
ReleaseInv == DoIsLock /\ \A c \in releasing : cpc[c] # "new"

IInv ==
    /\ TypeOK /\ Exclusive /\ OwnerInv /\ EventInv
    /\ EpollInv /\ FreshInv /\ ReleaseInv

-----------------------------------------------------------------------------
(* The initial state satisfies the invariant: every operator can be        *)
(* allocated and no connection exists.                                     *)
LEMMA IInvInit == Init => IInv
  BY OpsAssumption, Zenon
     DEF Init, IInv, TypeOK, Exclusive, OwnerInv, EventInv, EpollInv, FreshInv,
         ReleaseInv, DoIsLock, Holds, Busy, Fresh, Usable, States, NoEvent

(* Every step of a connection or of the poller preserves it. *)
LEMMA IInvStep == IInv /\ [Next]_vars => IInv'
<1> SUFFICES ASSUME IInv, [Next]_vars PROVE IInv'
  OBVIOUS
<1>1. ASSUME NEW c \in Conns, Alloc(c) PROVE IInv'
  <2>1. TypeOK'
    BY <1>1, OpsAssumption DEF IInv, Alloc, poller, TypeOK, States, NoEvent
  <2>2. Exclusive'
    BY <1>1, OpsAssumption DEF IInv, Alloc, poller, Exclusive, Holds, TypeOK,
       States, NoEvent
  <2>3. OwnerInv'
    BY <1>1, OpsAssumption DEF IInv, Alloc, poller, OwnerInv, Usable, TypeOK,
       States, NoEvent, Exclusive, Holds
  <2>4. EventInv'
    BY <1>1, OpsAssumption DEF IInv, Alloc, poller, EventInv, Busy, Fresh,
       Holds, TypeOK, States, NoEvent, Exclusive, OwnerInv, Usable
  <2>5. EpollInv'
    BY <1>1, OpsAssumption DEF IInv, Alloc, poller, EpollInv, Fresh
  <2>6. FreshInv'
    BY <1>1, OpsAssumption DEF IInv, Alloc, poller, FreshInv, Fresh, TypeOK,
       States, NoEvent
  <2>7. ReleaseInv'
    BY <1>1, OpsAssumption DEF IInv, Alloc, poller, ReleaseInv, DoIsLock, Busy
  <2> QED
    BY <2>1, <2>2, <2>3, <2>4, <2>5, <2>6, <2>7, Zenon DEF IInv
<1>2. ASSUME NEW c \in Conns, Inuse(c) PROVE IInv'
  <2>1. TypeOK'
    BY <1>2, OpsAssumption, Zenon DEF IInv, Inuse, cache, poller, TypeOK, States,
       NoEvent
  <2>2. Exclusive'
    BY <1>2, OpsAssumption DEF IInv, Inuse, cache, poller, Exclusive, Holds
  <2>3. OwnerInv'
    BY <1>2, OpsAssumption DEF IInv, Inuse, cache, poller, OwnerInv, Usable,
       TypeOK, States, NoEvent
  <2>4. EventInv'
    BY <1>2, OpsAssumption DEF IInv, Inuse, cache, poller, EventInv, Busy,
       Fresh, Holds
  <2>5. EpollInv'
    BY <1>2, OpsAssumption DEF IInv, Inuse, cache, poller, EpollInv, Fresh
  <2>6. FreshInv'
    BY <1>2, OpsAssumption DEF IInv, Inuse, cache, poller, FreshInv, Fresh
  <2>7. ReleaseInv'
    BY <1>2, OpsAssumption DEF IInv, Inuse, cache, poller, ReleaseInv, DoIsLock,
       Busy
  <2> QED
    BY <2>1, <2>2, <2>3, <2>4, <2>5, <2>6, <2>7, Zenon DEF IInv
<1>3. ASSUME NEW c \in Conns, Register(c) PROVE IInv'
  <2>1. TypeOK'
    BY <1>3, OpsAssumption, Zenon DEF IInv, Register, cache, poller, TypeOK, States,
       NoEvent
  <2>2. Exclusive'
    BY <1>3, OpsAssumption DEF IInv, Register, cache, poller, Exclusive, Holds
  <2>3. OwnerInv'
    BY <1>3, OpsAssumption DEF IInv, Register, cache, poller, OwnerInv, Usable
  <2>4. EventInv'
    BY <1>3, OpsAssumption DEF IInv, Register, cache, poller, EventInv, Busy,
       Fresh, Holds
  <2>5. EpollInv'
    BY <1>3, OpsAssumption DEF IInv, Register, cache, poller, EpollInv, TypeOK,
       States, NoEvent, FreshInv, Fresh
  <2>6. FreshInv'
    BY <1>3, OpsAssumption DEF IInv, Register, cache, poller, FreshInv, Fresh
  <2>7. ReleaseInv'
    BY <1>3, OpsAssumption DEF IInv, Register, cache, poller, ReleaseInv,
       DoIsLock, Busy
  <2> QED
    BY <2>1, <2>2, <2>3, <2>4, <2>5, <2>6, <2>7, Zenon DEF IInv
<1>4. ASSUME NEW c \in Conns, Close(c) PROVE IInv'
  <2>1. TypeOK'
    BY <1>4, OpsAssumption, Zenon DEF IInv, Close, cache, poller, TypeOK, States,
       NoEvent
  <2>2. Exclusive'
    BY <1>4, OpsAssumption DEF IInv, Close, cache, poller, Exclusive, Holds
  <2>3. OwnerInv'
    BY <1>4, OpsAssumption DEF IInv, Close, cache, poller, OwnerInv, Usable
  <2>4. EventInv'
    BY <1>4, OpsAssumption DEF IInv, Close, cache, poller, EventInv, Busy,
       Fresh, Holds
  <2>5. EpollInv'
    BY <1>4, OpsAssumption DEF IInv, Close, cache, poller, EpollInv, TypeOK,
       States, NoEvent, Exclusive, Holds, Fresh
  <2>6. FreshInv'
    BY <1>4, OpsAssumption DEF IInv, Close, cache, poller, FreshInv, Fresh,
       Exclusive, Holds
  <2>7. ReleaseInv'
    BY <1>4, OpsAssumption DEF IInv, Close, cache, poller, ReleaseInv, DoIsLock,
       Busy
  <2> QED
    BY <2>1, <2>2, <2>3, <2>4, <2>5, <2>6, <2>7, Zenon DEF IInv
<1>5. ASSUME NEW c \in Conns, Detach(c) PROVE IInv'
  <2>1. TypeOK'
    BY <1>5, OpsAssumption, Zenon DEF IInv, Detach, cache, poller, TypeOK, States,
       NoEvent
  <2>2. Exclusive'
    BY <1>5, OpsAssumption DEF IInv, Detach, cache, poller, Exclusive, Holds
  <2>3. OwnerInv'
    BY <1>5, OpsAssumption DEF IInv, Detach, cache, poller, OwnerInv, Usable
  <2>4. EventInv'
    BY <1>5, OpsAssumption DEF IInv, Detach, cache, poller, EventInv, Busy,
       Fresh, Holds
  <2>5. EpollInv'
    BY <1>5, OpsAssumption DEF IInv, Detach, cache, poller, EpollInv, Fresh
  <2>6. FreshInv'
    BY <1>5, OpsAssumption DEF IInv, Detach, cache, poller, FreshInv, Fresh
  <2>7. ReleaseInv'
    BY <1>5, OpsAssumption DEF IInv, Detach, cache, poller, ReleaseInv,
       DoIsLock, Busy
  <2> QED
    BY <2>1, <2>2, <2>3, <2>4, <2>5, <2>6, <2>7, Zenon DEF IInv
<1>6. ASSUME NEW c \in Conns, OnHup(c) PROVE IInv'
  <2>1. TypeOK'
    BY <1>6, OpsAssumption, Zenon DEF IInv, OnHup, cache, TypeOK, States, NoEvent
  <2>2. Exclusive'
    BY <1>6, OpsAssumption DEF IInv, OnHup, cache, Exclusive, Holds
  <2>3. OwnerInv'
    BY <1>6, OpsAssumption DEF IInv, OnHup, cache, OwnerInv, Usable
  <2>4. EventInv'
    BY <1>6, OpsAssumption DEF IInv, OnHup, cache, EventInv, Busy, Fresh, Holds
  <2>5. EpollInv'
    BY <1>6, OpsAssumption DEF IInv, OnHup, cache, EpollInv, Fresh
  <2>6. FreshInv'
    BY <1>6, OpsAssumption DEF IInv, OnHup, cache, FreshInv, Fresh
  <2>7. ReleaseInv'
    BY <1>6, OpsAssumption DEF IInv, OnHup, cache, ReleaseInv, DoIsLock, Busy
  <2> QED
    BY <2>1, <2>2, <2>3, <2>4, <2>5, <2>6, <2>7, Zenon DEF IInv
<1>7. ASSUME NEW c \in Conns, Unused(c) PROVE IInv'
  <2>1. TypeOK'
    BY <1>7, OpsAssumption, Zenon DEF IInv, Unused, cache, poller, TypeOK, States,
       NoEvent
  <2>2. Exclusive'
    BY <1>7, OpsAssumption DEF IInv, Unused, cache, poller, Exclusive, Holds
  <2>3. OwnerInv'
    BY <1>7, OpsAssumption DEF IInv, Unused, cache, poller, OwnerInv, Usable,
       TypeOK, States, NoEvent
  <2>4. EventInv'
    BY <1>7, OpsAssumption DEF IInv, Unused, cache, poller, EventInv, Busy,
       Fresh, Holds
  <2>5. EpollInv'
    BY <1>7, OpsAssumption DEF IInv, Unused, cache, poller, EpollInv, OwnerInv,
       Usable, EventInv, Busy, Fresh, Holds
  <2>6. FreshInv'
    BY <1>7, OpsAssumption DEF IInv, Unused, cache, poller, FreshInv, Fresh
  <2>7. ReleaseInv'
    BY <1>7, OpsAssumption DEF IInv, Unused, cache, poller, ReleaseInv,
       DoIsLock, Busy
  <2> QED
    BY <2>1, <2>2, <2>3, <2>4, <2>5, <2>6, <2>7, Zenon DEF IInv
<1>8. ASSUME NEW c \in Conns, Reset(c) PROVE IInv'
  <2>1. TypeOK'
    BY <1>8, OpsAssumption, Zenon DEF IInv, Reset, cache, poller, TypeOK, States,
       NoEvent
  <2>2. Exclusive'
    BY <1>8, OpsAssumption DEF IInv, Reset, cache, poller, Exclusive, Holds
  <2>3. OwnerInv'
    BY <1>8, OpsAssumption DEF IInv, Reset, cache, poller, OwnerInv, Usable,
       TypeOK, States, NoEvent
  <2>4. EventInv'
    BY <1>8, OpsAssumption DEF IInv, Reset, cache, poller, EventInv, Busy,
       Fresh, Holds, OwnerInv, Usable
  <2>5. EpollInv'
    BY <1>8, OpsAssumption DEF IInv, Reset, cache, poller, EpollInv, Fresh
  <2>6. FreshInv'
    BY <1>8, OpsAssumption DEF IInv, Reset, cache, poller, FreshInv, Fresh,
       TypeOK, States, NoEvent, OwnerInv, Usable
  <2>7. ReleaseInv'
    BY <1>8, OpsAssumption DEF IInv, Reset, cache, poller, ReleaseInv, DoIsLock,
       Busy
  <2> QED
    BY <2>1, <2>2, <2>3, <2>4, <2>5, <2>6, <2>7, Zenon DEF IInv
<1>9. ASSUME NEW c \in Conns, Freeable(c) PROVE IInv'
  <2>1. TypeOK'
    BY <1>9, OpsAssumption DEF IInv, Freeable, poller, TypeOK, States, NoEvent,
       OwnerInv, Usable
  <2>2. Exclusive'
    BY <1>9, OpsAssumption DEF IInv, Freeable, poller, Exclusive, Holds, TypeOK,
       States, NoEvent
  <2>3. OwnerInv'
    BY <1>9, OpsAssumption DEF IInv, Freeable, poller, OwnerInv, Usable
  <2>4. EventInv'
    BY <1>9, OpsAssumption DEF IInv, Freeable, poller, EventInv, Busy, Fresh,
       Holds
  <2>5. EpollInv'
    BY <1>9, OpsAssumption DEF IInv, Freeable, poller, EpollInv, Fresh
  <2>6. FreshInv'
    BY <1>9, OpsAssumption DEF IInv, Freeable, poller, FreshInv, Fresh
  <2>7. ReleaseInv'
    BY <1>9, OpsAssumption DEF IInv, Freeable, poller, ReleaseInv, DoIsLock,
       Busy
  <2> QED
    BY <2>1, <2>2, <2>3, <2>4, <2>5, <2>6, <2>7, Zenon DEF IInv
<1>10. ASSUME NEW c \in Conns, Release(c) PROVE IInv'
  <2>1. TypeOK'
    BY <1>10, OpsAssumption, Zenon DEF IInv, Release, cache, poller, TypeOK, States,
       NoEvent
  <2>2. Exclusive'
    BY <1>10, OpsAssumption, Zenon DEF IInv, Release, cache, poller, Exclusive, Holds
  <2>3. OwnerInv'
    BY <1>10, OpsAssumption DEF IInv, Release, cache, poller, OwnerInv, Usable
  <2>4. EventInv'
    BY <1>10, OpsAssumption DEF IInv, Release, cache, poller, EventInv, Busy,
       Fresh, Holds
  <2>5. EpollInv'
    BY <1>10, OpsAssumption, Zenon DEF IInv, Release, cache, poller, EpollInv, Fresh
  <2>6. FreshInv'
    BY <1>10, OpsAssumption, Zenon DEF IInv, Release, cache, poller, FreshInv, Fresh
  <2>7. ReleaseInv'
    BY <1>10, OpsAssumption DEF IInv, Release, cache, poller, ReleaseInv,
       DoIsLock, Busy, TypeOK, States, NoEvent, OwnerInv, Usable, EventInv,
       Fresh, Holds
  <2> QED
    BY <2>1, <2>2, <2>3, <2>4, <2>5, <2>6, <2>7, Zenon DEF IInv
<1>11. ASSUME NEW c \in Conns, ReleaseDone(c) PROVE IInv'
  <2>1. TypeOK'
    BY <1>11, OpsAssumption, Zenon DEF IInv, ReleaseDone, cache, poller, TypeOK,
       States, NoEvent
  <2>2. Exclusive'
    BY <1>11, OpsAssumption, Zenon DEF IInv, ReleaseDone, cache, poller, Exclusive,
       Holds
  <2>3. OwnerInv'
    BY <1>11, OpsAssumption DEF IInv, ReleaseDone, cache, poller, OwnerInv,
       Usable, ReleaseInv, DoIsLock, Busy
  <2>4. EventInv'
    BY <1>11, OpsAssumption DEF IInv, ReleaseDone, cache, poller, EventInv,
       Busy, Fresh, Holds, ReleaseInv, DoIsLock
  <2>5. EpollInv'
    BY <1>11, OpsAssumption, Zenon DEF IInv, ReleaseDone, cache, poller, EpollInv, Fresh
  <2>6. FreshInv'
    BY <1>11, OpsAssumption, Zenon DEF IInv, ReleaseDone, cache, poller, FreshInv,
       Fresh
  <2>7. ReleaseInv'
    BY <1>11, OpsAssumption DEF IInv, ReleaseDone, cache, poller, ReleaseInv,
       DoIsLock, Busy
  <2> QED
    BY <2>1, <2>2, <2>3, <2>4, <2>5, <2>6, <2>7, Zenon DEF IInv
<1>12. CASE PollWait
  <2>1. TypeOK'
    BY <1>12, OpsAssumption DEF IInv, PollWait, cache, TypeOK, States, NoEvent,
       OwnerInv, Usable, EpollInv, Fresh
  <2>2. Exclusive'
    BY <1>12, OpsAssumption, Zenon DEF IInv, PollWait, cache, Exclusive, Holds
  <2>3. OwnerInv'
    BY <1>12, OpsAssumption, Zenon DEF IInv, PollWait, cache, OwnerInv, Usable
  <2>4. EventInv'
    BY <1>12, OpsAssumption DEF IInv, PollWait, cache, EventInv, Busy, Fresh,
       Holds, TypeOK, States, NoEvent, Exclusive, EpollInv, Fresh
  <2>5. EpollInv'
    BY <1>12, OpsAssumption, Zenon DEF IInv, PollWait, cache, EpollInv, Fresh
  <2>6. FreshInv'
    BY <1>12, OpsAssumption, Zenon DEF IInv, PollWait, cache, FreshInv, Fresh
  <2>7. ReleaseInv'
    BY <1>12, OpsAssumption, Zenon DEF IInv, PollWait, cache, ReleaseInv, DoIsLock,
       Busy
  <2> QED
    BY <2>1, <2>2, <2>3, <2>4, <2>5, <2>6, <2>7, Zenon DEF IInv
<1>13. CASE PollDo
  <2>1. TypeOK'
    BY <1>13, OpsAssumption DEF IInv, PollDo, cache, TypeOK, States, NoEvent
  <2>2. Exclusive'
    BY <1>13, OpsAssumption, Zenon DEF IInv, PollDo, cache, Exclusive, Holds
  <2>3. OwnerInv'
    BY <1>13, OpsAssumption DEF IInv, PollDo, cache, OwnerInv, Usable, TypeOK,
       States, NoEvent
  <2>4. EventInv'
    BY <1>13, OpsAssumption DEF IInv, PollDo, cache, EventInv, Busy, Fresh,
       Holds, TypeOK, States, NoEvent, OwnerInv, Usable
  <2>5. EpollInv'
    BY <1>13, OpsAssumption, Zenon DEF IInv, PollDo, cache, EpollInv, Fresh
  <2>6. FreshInv'
    BY <1>13, OpsAssumption, Zenon DEF IInv, PollDo, cache, FreshInv, Fresh
  <2>7. ReleaseInv'
    BY <1>13, OpsAssumption DEF IInv, PollDo, cache, ReleaseInv, DoIsLock, Busy,
       TypeOK, States, NoEvent, OwnerInv, Usable
  <2> QED
    BY <2>1, <2>2, <2>3, <2>4, <2>5, <2>6, <2>7, Zenon DEF IInv
<1>14. CASE PollHandle
  <2>1. TypeOK'
    BY <1>14, OpsAssumption, Zenon DEF IInv, PollHandle, cache, TypeOK, States, NoEvent
  <2>2. Exclusive'
    BY <1>14, OpsAssumption, Zenon DEF IInv, PollHandle, cache, Exclusive, Holds
  <2>3. OwnerInv'
    BY <1>14, OpsAssumption, Zenon DEF IInv, PollHandle, cache, OwnerInv, Usable
  <2>4. EventInv'
    BY <1>14, OpsAssumption, Zenon DEF IInv, PollHandle, cache, EventInv, Busy, Fresh,
       Holds
  <2>5. EpollInv'
    BY <1>14, OpsAssumption, Zenon DEF IInv, PollHandle, cache, EpollInv, Fresh
  <2>6. FreshInv'
    BY <1>14, OpsAssumption, Zenon DEF IInv, PollHandle, cache, FreshInv, Fresh
  <2>7. ReleaseInv'
    BY <1>14, OpsAssumption, Zenon DEF IInv, PollHandle, cache, ReleaseInv, DoIsLock,
       Busy
  <2> QED
    BY <2>1, <2>2, <2>3, <2>4, <2>5, <2>6, <2>7, Zenon DEF IInv
<1>15. CASE AppendHup
  <2>1. TypeOK'
    BY <1>15, OpsAssumption DEF IInv, AppendHup, cache, TypeOK, States, NoEvent,
       EventInv, Busy, OwnerInv, Usable
  <2>2. Exclusive'
    BY <1>15, OpsAssumption, Zenon DEF IInv, AppendHup, cache, Exclusive, Holds
  <2>3. OwnerInv'
    BY <1>15, OpsAssumption, Zenon DEF IInv, AppendHup, cache, OwnerInv, Usable
  <2>4. EventInv'
    BY <1>15, OpsAssumption, Zenon DEF IInv, AppendHup, cache, EventInv, Busy, Fresh,
       Holds
  <2>5. EpollInv'
    BY <1>15, OpsAssumption DEF IInv, AppendHup, cache, EpollInv, TypeOK,
       States, NoEvent, OwnerInv, Usable, EventInv, Busy, Fresh, Holds
  <2>6. FreshInv'
    BY <1>15, OpsAssumption DEF IInv, AppendHup, cache, FreshInv, Fresh,
       Exclusive, Holds, OwnerInv, Usable, EventInv, Busy
  <2>7. ReleaseInv'
    BY <1>15, OpsAssumption, Zenon DEF IInv, AppendHup, cache, ReleaseInv, DoIsLock,
       Busy
  <2> QED
    BY <2>1, <2>2, <2>3, <2>4, <2>5, <2>6, <2>7, Zenon DEF IInv
<1>16. CASE HupDetach
  <2>1. TypeOK'
    BY <1>16, OpsAssumption, Zenon DEF IInv, HupDetach, cache, TypeOK, States, NoEvent
  <2>2. Exclusive'
    BY <1>16, OpsAssumption, Zenon DEF IInv, HupDetach, cache, Exclusive, Holds
  <2>3. OwnerInv'
    BY <1>16, OpsAssumption, Zenon DEF IInv, HupDetach, cache, OwnerInv, Usable
  <2>4. EventInv'
    BY <1>16, OpsAssumption, Zenon DEF IInv, HupDetach, cache, EventInv, Busy, Fresh,
       Holds
  <2>5. EpollInv'
    BY <1>16, OpsAssumption, Zenon DEF IInv, HupDetach, cache, EpollInv, EventInv,
       Busy, Fresh, Holds
  <2>6. FreshInv'
    BY <1>16, OpsAssumption, Zenon DEF IInv, HupDetach, cache, FreshInv, Fresh
  <2>7. ReleaseInv'
    BY <1>16, OpsAssumption, Zenon DEF IInv, HupDetach, cache, ReleaseInv, DoIsLock,
       Busy
  <2> QED
    BY <2>1, <2>2, <2>3, <2>4, <2>5, <2>6, <2>7, Zenon DEF IInv
<1>17. CASE PollDone
  <2>1. TypeOK'
    BY <1>17, OpsAssumption, Zenon DEF IInv, PollDone, cache, NoEvent, TypeOK, States
  <2>2. Exclusive'
    BY <1>17, OpsAssumption, Zenon DEF IInv, PollDone, cache, NoEvent, Exclusive, Holds
  <2>3. OwnerInv'
    BY <1>17, OpsAssumption DEF IInv, PollDone, cache, NoEvent, OwnerInv,
       Usable, EventInv, Busy, Fresh, Holds
  <2>4. EventInv'
    BY <1>17, OpsAssumption, Zenon DEF IInv, PollDone, cache, NoEvent, EventInv, Busy,
       Fresh, Holds
  <2>5. EpollInv'
    BY <1>17, OpsAssumption, Zenon DEF IInv, PollDone, cache, NoEvent, EpollInv, Fresh
  <2>6. FreshInv'
    BY <1>17, OpsAssumption, Zenon DEF IInv, PollDone, cache, NoEvent, FreshInv, Fresh
  <2>7. ReleaseInv'
    BY <1>17, OpsAssumption DEF IInv, PollDone, cache, NoEvent, ReleaseInv,
       DoIsLock, Busy
  <2> QED
    BY <2>1, <2>2, <2>3, <2>4, <2>5, <2>6, <2>7, Zenon DEF IInv
<1>18. CASE Onhups
  <2>1. TypeOK'
    BY <1>18, OpsAssumption, Zenon DEF IInv, Onhups, cache, TypeOK, States, NoEvent
  <2>2. Exclusive'
    BY <1>18, OpsAssumption, Zenon DEF IInv, Onhups, cache, Exclusive, Holds
  <2>3. OwnerInv'
    BY <1>18, OpsAssumption, Zenon DEF IInv, Onhups, cache, OwnerInv, Usable
  <2>4. EventInv'
    BY <1>18, OpsAssumption, Zenon DEF IInv, Onhups, cache, EventInv, Busy, Fresh,
       Holds
  <2>5. EpollInv'
    BY <1>18, OpsAssumption, Zenon DEF IInv, Onhups, cache, EpollInv, Fresh
  <2>6. FreshInv'
    BY <1>18, OpsAssumption, Zenon DEF IInv, Onhups, cache, FreshInv, Fresh
  <2>7. ReleaseInv'
    BY <1>18, OpsAssumption, Zenon DEF IInv, Onhups, cache, ReleaseInv, DoIsLock, Busy
  <2> QED
    BY <2>1, <2>2, <2>3, <2>4, <2>5, <2>6, <2>7, Zenon DEF IInv
<1>19. CASE PollFree
  <2>1. TypeOK'
    BY <1>19, OpsAssumption, Zenon DEF IInv, PollFree, TypeOK, States, NoEvent
  <2>2. Exclusive'
    BY <1>19, OpsAssumption, Zenon DEF IInv, PollFree, Exclusive, Holds
  <2>3. OwnerInv'
    BY <1>19, OpsAssumption, Zenon DEF IInv, PollFree, OwnerInv, Usable
  <2>4. EventInv'
    BY <1>19, OpsAssumption, Zenon DEF IInv, PollFree, EventInv, Busy, Fresh, Holds
  <2>5. EpollInv'
    BY <1>19, OpsAssumption, Zenon DEF IInv, PollFree, EpollInv, Fresh
  <2>6. FreshInv'
    BY <1>19, OpsAssumption, Zenon DEF IInv, PollFree, FreshInv, Fresh
  <2>7. ReleaseInv'
    BY <1>19, OpsAssumption, Zenon DEF IInv, PollFree, ReleaseInv, DoIsLock, Busy
  <2> QED
    BY <2>1, <2>2, <2>3, <2>4, <2>5, <2>6, <2>7, Zenon DEF IInv
<1>20. ASSUME NEW c \in Conns, TaskClose(c) PROVE IInv'
  <2>1. TypeOK'
    BY <1>20, OpsAssumption DEF IInv, TaskClose, cache, poller,
       TypeOK, States, NoEvent, OwnerInv, Usable
  <2>2. Exclusive'
    BY <1>20, OpsAssumption DEF IInv, TaskClose, cache, poller,
       Exclusive, Holds
  <2>3. OwnerInv'
    BY <1>20, OpsAssumption DEF IInv, TaskClose, cache, poller,
       OwnerInv, Usable
  <2>4. EventInv'
    BY <1>20, OpsAssumption DEF IInv, TaskClose, cache, poller,
       EventInv, Busy, Fresh, Holds
  <2>5. EpollInv'
    BY <1>20, OpsAssumption DEF IInv, TaskClose, cache, poller,
       EpollInv, Fresh, TypeOK, States
  <2>6. FreshInv'
    BY <1>20, OpsAssumption DEF IInv, TaskClose, cache, poller,
       FreshInv, Fresh
  <2>7. ReleaseInv'
    BY <1>20, OpsAssumption DEF IInv, TaskClose, cache, poller,
       ReleaseInv, DoIsLock, Busy
  <2> QED
    BY <2>1, <2>2, <2>3, <2>4, <2>5, <2>6, <2>7, Zenon DEF IInv
<1>21. ASSUME NEW c \in Conns, CloseFD(c) PROVE IInv'
  <2>1. TypeOK'
    BY <1>21, OpsAssumption DEF IInv, CloseFD, cache, poller,
       TypeOK, States, NoEvent, OwnerInv, Usable
  <2>2. Exclusive'
    BY <1>21, OpsAssumption DEF IInv, CloseFD, cache, poller,
       Exclusive, Holds
  <2>3. OwnerInv'
    BY <1>21, OpsAssumption DEF IInv, CloseFD, cache, poller,
       OwnerInv, Usable
  <2>4. EventInv'
    BY <1>21, OpsAssumption DEF IInv, CloseFD, cache, poller,
       EventInv, Busy, Fresh, Holds
  <2>5. EpollInv'
    BY <1>21, OpsAssumption DEF IInv, CloseFD, cache, poller,
       EpollInv, Fresh, TypeOK, States
  <2>6. FreshInv'
    BY <1>21, OpsAssumption DEF IInv, CloseFD, cache, poller,
       FreshInv, Fresh
  <2>7. ReleaseInv'
    BY <1>21, OpsAssumption DEF IInv, CloseFD, cache, poller,
       ReleaseInv, DoIsLock, Busy
  <2> QED
    BY <2>1, <2>2, <2>3, <2>4, <2>5, <2>6, <2>7, Zenon DEF IInv
<1>22. CASE UNCHANGED vars
  BY <1>22
     DEF vars, IInv, TypeOK, Exclusive, OwnerInv, EventInv, EpollInv, FreshInv,
         ReleaseInv, DoIsLock, Holds, Busy, Fresh, Usable
<1> QED
  BY <1>1, <1>2, <1>3, <1>4, <1>5, <1>6, <1>7, <1>8, <1>9, <1>10, <1>11, <1>12,
     <1>13, <1>14, <1>15, <1>16, <1>17, <1>18, <1>19, <1>20, <1>21,
     <1>22, Zenon DEF Next, ConnNext, Closing, Handler

(* The invariant holds in every reachable state. *)
LEMMA IInvariant == Spec => []IInv
  BY IInvInit, IInvStep, PTL DEF Spec

(* Every variable keeps its type: free lists and tables hold operators of  *)
(* the pool, and states and events stay in range (fd_operator_cache.go).   *)
THEOREM TypeCorrect == Spec => []TypeOK
<1>1. IInv => TypeOK
  BY Zenon DEF IInv
<1>2. QED
  BY <1>1, IInvariant, PTL

(* An event is handled with the fields of the connection it was reported   *)
(* for: epoll's stale pointers never reach another connection, because     *)
(* only the poller, between batches, makes a freed operator available, and *)
(* whoever frees it has detached it; but for the operators that a task     *)
(* frees for the user without a detach (connection_onevent.go:246-249).    *)
THEOREM EventsReachTheirOwner == Spec => []EventOwner
<1>1. IInv => EventOwner
  BY Zenon DEF IInv, EventInv, EventOwner, Busy
<1>2. QED
  BY <1>1, IInvariant, PTL

(* No operator is held twice or held and available. *)
THEOREM OperatorsAreExclusive == Spec => []Exclusive
<1>1. IInv => Exclusive
  BY Zenon DEF IInv
<1>2. QED
  BY <1>1, IInvariant, PTL

(* do and done are a lock between the poller and every Release, those of   *)
(* closed connections included.                                            *)
THEOREM DoLocks == Spec => []DoIsLock
<1>1. IInv => DoIsLock
  BY Zenon DEF IInv, ReleaseInv
<1>2. QED
  BY <1>1, IInvariant, PTL

(* A fd leaves epoll before its operator can be used by another, whether   *)
(* the user or the poller detaches it and whoever comes second             *)
(* (fd_operator.go:55), but for the fds a task closes without a detach.    *)
THEOREM DetachedBeforeReuse == Spec => []OutOfEpoll
<1>1. IInv => OutOfEpoll
  BY Zenon DEF IInv, TypeOK, EpollInv, OwnerInv, OutOfEpoll, Holds, Usable
<1>2. QED
  BY <1>1, IInvariant, PTL
====
