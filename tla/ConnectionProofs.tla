--------------------------- MODULE ConnectionProofs ---------------------------
(***************************************************************************)
(* Proofs about Connection, for any sets of tasks and of goroutines of the *)
(* program, any callbacks and any amount of input.                         *)
(***************************************************************************)
EXTENDS Connection, TLAPS

(* The five kinds of goroutine are processes, and they are different ones. *)
LEMMA ProcsFacts ==
    /\ \A p \in Procs : Return(p) \in {"readall", "done", "exit", "idle"}
    /\ {Poller, Hup, Acceptor} \subseteq Procs
    /\ Tasks \subseteq Procs /\ Users \subseteq Procs
BY DEF Return, Procs

(* The poller, the goroutine of a hangup and the one that accepts are three. *)
LEMMA RolesFacts ==
  /\ Poller \in Procs /\ Hup \in Procs /\ Acceptor \in Procs
  /\ Poller # Hup /\ Poller # Acceptor /\ Hup # Acceptor
BY ConstantsAssumption DEF Procs

(* A task is none of the other goroutines. *)
LEMMA TaskFacts ==
  ASSUME NEW t \in Tasks
  PROVE  t \in Procs /\ t \notin Users /\ t # Poller /\ t # Hup /\ t # Acceptor
BY ConstantsAssumption DEF Procs

(* Nor is a goroutine of the program. *)
LEMMA UserFacts ==
  ASSUME NEW u \in Users
  PROVE  u \in Procs /\ u \notin Tasks /\ u # Poller /\ u # Hup /\ u # Acceptor
BY ConstantsAssumption DEF Procs

-----------------------------------------------------------------------------
(* Type correctness.                                                       *)

(* Every action of every goroutine keeps every variable in its type.  The  *)
(* steps whose action assigns a flag and a counter are split in two.       *)
LEMMA TypeStep ==
  ASSUME TypeOK, [Next]_vars
  PROVE  TypeOK'
<1> USE ProcsFacts
<1> USE DEF TypeOK, Goto, Labels, FlagsOK, CountersOK, LocalsOK, Who, ConnStates,
            keychain, handlers, kernel, operator, netFD, server, locals, history
<1>1. CASE Prepare
  BY <1>1 DEF Prepare
<1>2. CASE Register
  <2>1. FlagsOK'
    <3> HIDE DEF CountersOK, LocalsOK, Labels, Goto
    <3> QED BY <1>2, Zenon DEF Register
  <2>2. (pc' \in [Procs -> Labels]) /\ CountersOK' /\ LocalsOK'
    <3> HIDE DEF FlagsOK
    <3> QED BY <1>2 DEF Register
  <2> HIDE DEF FlagsOK, CountersOK, LocalsOK, Labels
  <2> QED BY <2>1, <2>2
<1>3. CASE AcceptIsActive
  BY <1>3 DEF AcceptIsActive
<1>4. CASE AddCloseCallback
  BY <1>4 DEF AddCloseCallback
<1>5. CASE StoreConnection
  BY <1>5 DEF StoreConnection
<1>6. CASE OnConnect
  BY <1>6 DEF OnConnect
<1>7. CASE OnHup
  BY <1>7 DEF OnHup
<1>8. CASE OnDisconnect
  BY <1>8 DEF OnDisconnect
<1>9. CASE HupLockConnecting
  BY <1>9 DEF HupLockConnecting
<1>10. CASE HupDisconnectReturn
  BY <1>10 DEF HupDisconnectReturn
<1>11. CASE HupClose
  BY <1>11 DEF HupClose
<1>12. CASE PollWait
  BY <1>12 DEF PollWait
<1>13. CASE PollDo
  BY <1>13 DEF PollDo
<1>14. CASE PollRead
  BY <1>14 DEF PollRead
<1>15. CASE PollReadNothing
  BY <1>15 DEF PollReadNothing
<1>16. CASE AppendHup
  BY <1>16 DEF AppendHup, AddDetached
<1>17. CASE HupCtl
  <2>1. FlagsOK'
    <3> HIDE DEF CountersOK, LocalsOK, Labels, Goto
    <3> QED BY <1>17, Zenon DEF HupCtl
  <2>2. (pc' \in [Procs -> Labels]) /\ CountersOK' /\ LocalsOK'
    <3> HIDE DEF FlagsOK
    <3> QED BY <1>17 DEF HupCtl
  <2> HIDE DEF FlagsOK, CountersOK, LocalsOK, Labels
  <2> QED BY <2>1, <2>2
<1>18. CASE PollDone
  BY <1>18 DEF PollDone
<1>19. CASE Onhups
  BY <1>19 DEF Onhups
<1>20. ASSUME NEW t \in Tasks, TaskStart(t) PROVE TypeOK'
  BY <1>20 DEF TaskStart
<1>21. ASSUME NEW t \in Tasks, ConnectReturn(t) PROVE TypeOK'
  BY <1>21 DEF ConnectReturn
<1>22. ASSUME NEW t \in Tasks, HelpDisconnect(t) PROVE TypeOK'
  BY <1>22 DEF HelpDisconnect
<1>23. ASSUME NEW t \in Tasks, HelpReturn(t) PROVE TypeOK'
  BY <1>23 DEF HelpReturn
<1>24. ASSUME NEW t \in Tasks, UnlockConnecting(t) PROVE TypeOK'
  BY <1>24 DEF UnlockConnecting
<1>25. ASSUME NEW t \in Tasks, StartRequest(t) PROVE TypeOK'
  BY <1>25 DEF StartRequest
<1>26. ASSUME NEW t \in Tasks, RequestReturn(t) PROVE TypeOK'
  BY <1>26 DEF RequestReturn
<1>27. ASSUME NEW t \in Tasks, LoopStatus(t) PROVE TypeOK'
  BY <1>27 DEF LoopStatus
<1>28. ASSUME NEW t \in Tasks, Loop(t) PROVE TypeOK'
  BY <1>28 DEF Loop
<1>29. ASSUME NEW t \in Tasks, UnlockProcessing(t) PROVE TypeOK'
  BY <1>29 DEF UnlockProcessing
<1>30. ASSUME NEW t \in Tasks, RecheckClosing(t) PROVE TypeOK'
  BY <1>30 DEF RecheckClosing
<1>31. ASSUME NEW t \in Tasks, RecheckLen(t) PROVE TypeOK'
  BY <1>31 DEF RecheckLen, TaskExit
<1>32. ASSUME NEW t \in Tasks, Relock(t) PROVE TypeOK'
  BY <1>32 DEF Relock, TaskExit
<1>33. ASSUME NEW t \in Tasks, PanicUnlock(t) PROVE TypeOK'
  BY <1>33 DEF PanicUnlock
<1>34. ASSUME NEW t \in Tasks, PanicClose(t) PROVE TypeOK'
  BY <1>34 DEF PanicClose
<1>35. ASSUME NEW t \in Tasks, CallbackClose(t) PROVE TypeOK'
  <2>1. FlagsOK'
    <3> HIDE DEF CountersOK, LocalsOK, Labels, Goto
    <3> QED BY <1>35, Zenon DEF CallbackClose, InCallback
  <2>2. (pc' \in [Procs -> Labels]) /\ CountersOK' /\ LocalsOK'
    <3> HIDE DEF FlagsOK
    <3> QED BY <1>35 DEF CallbackClose, InCallback
  <2> HIDE DEF FlagsOK, CountersOK, LocalsOK, Labels
  <2> QED BY <2>1, <2>2
<1>36. ASSUME NEW t \in Tasks, Panic(t) PROVE TypeOK'
  BY <1>36 DEF Panic, InCallback
<1>37. ASSUME NEW p \in Procs, OnRequest(p) PROVE TypeOK'
  BY <1>37 DEF OnRequest
<1>38. ASSUME NEW p \in Procs, OnProcess(p) PROVE TypeOK'
  BY <1>38 DEF OnProcess
<1>39. ASSUME NEW p \in Procs, CloseBy(p) PROVE TypeOK'
  BY <1>39 DEF CloseBy
<1>40. ASSUME NEW p \in Procs, CloseLock(p) PROVE TypeOK'
  BY <1>40 DEF CloseLock
<1>41. ASSUME NEW p \in Procs, Detach(p) PROVE TypeOK'
  BY <1>41 DEF Detach, AddDetached
<1>42. ASSUME NEW p \in Procs, DetachCtl(p) PROVE TypeOK'
  <2>1. FlagsOK'
    <3> HIDE DEF CountersOK, LocalsOK, Labels, Goto
    <3> QED BY <1>42, Zenon DEF DetachCtl
  <2>2. (pc' \in [Procs -> Labels]) /\ CountersOK' /\ LocalsOK'
    <3> HIDE DEF FlagsOK
    <3> QED BY <1>42 DEF DetachCtl
  <2> HIDE DEF FlagsOK, CountersOK, LocalsOK, Labels
  <2> QED BY <2>1, <2>2
<1>43. ASSUME NEW p \in Procs, Callbacks(p) PROVE TypeOK'
  <2>1. FlagsOK'
    <3> HIDE DEF CountersOK, LocalsOK, Labels, Goto
    <3> QED BY <1>43, Zenon DEF Callbacks
  <2>2. (pc' \in [Procs -> Labels]) /\ CountersOK' /\ LocalsOK'
    <3> HIDE DEF FlagsOK
    <3> QED BY <1>43 DEF Callbacks
  <2> HIDE DEF FlagsOK, CountersOK, LocalsOK, Labels
  <2> QED BY <2>1, <2>2
<1>44. ASSUME NEW p \in Procs, Free(p) PROVE TypeOK'
  <2>1. FlagsOK'
    <3> HIDE DEF CountersOK, LocalsOK, Labels, Goto
    <3> QED BY <1>44, Zenon DEF Free
  <2>2. (pc' \in [Procs -> Labels]) /\ CountersOK' /\ LocalsOK'
    <3> HIDE DEF FlagsOK
    <3> QED BY <1>44 DEF Free
  <2> HIDE DEF FlagsOK, CountersOK, LocalsOK, Labels
  <2> QED BY <2>1, <2>2
<1>45. ASSUME NEW p \in Procs, CloseFD(p) PROVE TypeOK'
  BY <1>45 DEF CloseFD
<1>46. ASSUME NEW p \in Procs, CloseBuffer(p) PROVE TypeOK'
  BY <1>46 DEF CloseBuffer
<1>47. ASSUME NEW u \in Users, UserClose(u) PROVE TypeOK'
  <2>1. FlagsOK'
    <3> HIDE DEF CountersOK, LocalsOK, Labels, Goto
    <3> QED BY <1>47, Zenon DEF UserClose
  <2>2. (pc' \in [Procs -> Labels]) /\ CountersOK' /\ LocalsOK'
    <3> HIDE DEF FlagsOK
    <3> QED BY <1>47 DEF UserClose
  <2> HIDE DEF FlagsOK, CountersOK, LocalsOK, Labels
  <2> QED BY <2>1, <2>2
<1>48. ASSUME NEW u \in Users, SetOnRequest(u) PROVE TypeOK'
  BY <1>48 DEF SetOnRequest
<1>49. ASSUME NEW u \in Users, CheckInput(u) PROVE TypeOK'
  BY <1>49 DEF CheckInput
<1>50. CASE PeerSend
  BY <1>50 DEF PeerSend
<1>51. CASE PeerClose
  BY <1>51 DEF PeerClose
<1>52. CASE UNCHANGED vars
  BY <1>52 DEF vars
<1> HIDE DEF TypeOK
<1> QED
  BY
     <1>1, <1>2, <1>3, <1>4, <1>5, <1>6, <1>7, <1>8, <1>9, <1>10, <1>11,
     <1>12, <1>13, <1>14, <1>15, <1>16, <1>17, <1>18, <1>19, <1>20, <1>21,
     <1>22, <1>23, <1>24, <1>25, <1>26, <1>27, <1>28, <1>29, <1>30, <1>31,
     <1>32, <1>33, <1>34, <1>35, <1>36, <1>37, <1>38, <1>39, <1>40, <1>41,
     <1>42, <1>43, <1>44, <1>45, <1>46, <1>47, <1>48, <1>49, <1>50, <1>51,
     <1>52
     DEF Next, AcceptorNext, HupNext, PollerNext, TaskNext, CallNext, UserNext

(* The state init leaves behind is well typed. *)
LEMMA TypeInit == Init => TypeOK
<1> SUFFICES ASSUME Init PROVE TypeOK OBVIOUS
<1>1. FlagsOK
  BY ConstantsAssumption, Zenon DEF Init, FlagsOK
<1>2. (pc \in [Procs -> Labels]) /\ CountersOK /\ LocalsOK
  BY DEF Init, CountersOK, LocalsOK, Labels, Who, ConnStates
<1> QED BY <1>1, <1>2 DEF TypeOK

(* Every variable of the connection keeps its type. *)
THEOREM TypeCorrect == Spec => []TypeOK
BY TypeInit, TypeStep, PTL DEF Spec

-----------------------------------------------------------------------------
(* The processing key.                                                     *)

(* Where a goroutine owns the processing key: from the moment the key is   *)
(* locked, for ever if the goroutine runs the close callbacks.             *)
HoldLabels == {"task", "inConnect", "help", "inDisconnect", "unlockConnecting",
    "start", "inRequest", "status", "loop", "unlock", "panicUnlock", "detach",
    "detachCtl", "callbacks", "free", "closeFD", "closeBuffer", "closed", "crashed"}

CloseLabels == {"callbacks", "free", "closeFD", "closeBuffer", "closed", "crashed"}

Holds(p) == pc[p] \in HoldLabels /\ p \notin unguarded

(* The inductive invariant: a holder has the key locked and is alone; a    *)
(* task that closes after a panic without the key does nothing else; and   *)
(* without panics there is no such task.                                   *)
KeyInv ==
    /\ \A p \in Procs : Holds(p) => processing = 1
    /\ \A p, q \in Procs : Holds(p) /\ Holds(q) => p = q
    /\ \A t \in unguarded : pc[t] \in CloseLabels
    /\ ~MayPanic => /\ unguarded = {}
                    /\ \A t \in Tasks : pc[t] \notin {"panicUnlock", "panicClose"}

(* Nobody holds the processing key at first. *)
LEMMA KeyInit == Init => KeyInv
<1> SUFFICES ASSUME Init PROVE KeyInv OBVIOUS
<1>1. \A p \in Procs : pc[p] \in {"prepare", "wait", "idle"}
  BY DEF Init
<1> QED BY <1>1, ProcsFacts DEF Init, KeyInv, Holds, HoldLabels

(* A goroutine may move if it does not take the key, nor stop closing, nor *)
(* panic where there are no panics.                                        *)
LEMMA KeyMove ==
  ASSUME pc \in [Procs -> Labels], KeyInv, NEW p \in Procs, NEW l, Goto(p, l),
         UNCHANGED <<processing, unguarded>>,
         l \in HoldLabels => pc[p] \in HoldLabels,
         pc[p] \in CloseLabels => l \in CloseLabels,
         l \in {"panicUnlock", "panicClose"} => MayPanic
  PROVE  KeyInv'
BY ProcsFacts DEF KeyInv, Holds, Goto

(* Nothing happens to the key when only the rest of the connection changes. *)
LEMMA KeyFrame ==
  ASSUME KeyInv, UNCHANGED <<pc, processing, unguarded>>
  PROVE  KeyInv'
BY DEF KeyInv, Holds

(* Every action keeps the key with one holder: lock(processing) is the only
   way to become one, and unlock, a panic or the close gives it up. *)
LEMMA KeyStep ==
  ASSUME TypeOK, KeyInv
  PROVE  [Next]_vars => KeyInv'
<1> SUFFICES ASSUME pc \in [Procs -> Labels] PROVE [Next]_vars => KeyInv'
  BY DEF TypeOK
<1>0. unguarded \subseteq Tasks
  BY DEF TypeOK, LocalsOK
<1>1. ASSUME AcceptorNext PROVE KeyInv'
  <2>1. CASE Prepare
    BY <2>1, KeyMove, RolesFacts, Zenon DEF Prepare, HoldLabels, CloseLabels, keychain,
         locals
  <2>2. CASE Register
    BY <2>2, KeyMove, RolesFacts, Zenon DEF Register, HoldLabels, CloseLabels, keychain,
         locals
  <2>3. CASE AcceptIsActive
    BY <2>3, KeyMove, RolesFacts, Zenon DEF AcceptIsActive, HoldLabels, CloseLabels,
         keychain, locals
  <2>4. CASE AddCloseCallback
    BY <2>4, KeyMove, RolesFacts, Zenon DEF AddCloseCallback, HoldLabels, CloseLabels,
         keychain, locals
  <2>5. CASE StoreConnection
    BY <2>5, KeyMove, RolesFacts, Zenon DEF StoreConnection, HoldLabels, CloseLabels,
         keychain, locals
  <2>6. CASE OnConnect
    BY <2>6, KeyMove, RolesFacts, Zenon DEF OnConnect, HoldLabels, CloseLabels, locals
  <2> QED BY <1>1, <2>1, <2>2, <2>3, <2>4, <2>5, <2>6 DEF AcceptorNext
<1>2. ASSUME HupNext PROVE KeyInv'
  <2>1. CASE OnHup
    BY <2>1, KeyMove, RolesFacts, Zenon DEF OnHup, HoldLabels, CloseLabels, locals
  <2>2. CASE OnDisconnect
    BY <2>2, KeyMove, RolesFacts, Zenon DEF OnDisconnect, HoldLabels, CloseLabels,
         keychain, locals
  <2>3. CASE HupLockConnecting
    BY <2>3, KeyMove, RolesFacts, Zenon DEF HupLockConnecting, HoldLabels, CloseLabels,
         locals
  <2>4. CASE HupDisconnectReturn
    BY <2>4, KeyMove, RolesFacts, Zenon DEF HupDisconnectReturn, HoldLabels,
         CloseLabels, locals
  <2>5. CASE HupClose
    BY <2>5, KeyMove, RolesFacts, Zenon DEF HupClose, HoldLabels, CloseLabels, keychain,
         locals
  <2> QED BY <1>2, <2>1, <2>2, <2>3, <2>4, <2>5 DEF HupNext
<1>3. ASSUME PollerNext PROVE KeyInv'
  <2>1. CASE PollWait
    BY <2>1, KeyMove, RolesFacts, Zenon DEF PollWait, HoldLabels, CloseLabels, keychain
  <2>2. CASE PollDo
    BY <2>2, KeyMove, RolesFacts, Zenon DEF PollDo, HoldLabels, CloseLabels, keychain,
         locals
  <2>3. CASE PollRead
    BY <2>3, KeyMove, RolesFacts, Zenon DEF PollRead, Return, HoldLabels, CloseLabels,
         keychain, locals
  <2>4. CASE PollReadNothing
    BY <2>4, KeyMove, RolesFacts, Zenon DEF PollReadNothing, HoldLabels, CloseLabels,
         keychain, locals
  <2>5. CASE AppendHup
    BY <2>5, KeyMove, RolesFacts, Zenon DEF AppendHup, HoldLabels, CloseLabels,
         keychain, locals
  <2>6. CASE HupCtl
    BY <2>6, KeyMove, RolesFacts, Zenon DEF HupCtl, HoldLabels, CloseLabels, keychain,
         locals
  <2>7. CASE PollDone
    BY <2>7, KeyMove, RolesFacts, Zenon DEF PollDone, HoldLabels, CloseLabels, keychain,
         locals
  <2>8. Onhups => KeyInv'
    BY <1>0, ProcsFacts DEF Onhups, KeyInv, Holds, HoldLabels, CloseLabels, keychain,
         locals
  <2> QED BY <1>3, <2>1, <2>2, <2>3, <2>4, <2>5, <2>6, <2>7, <2>8 DEF PollerNext
<1>4. ASSUME NEW t \in Tasks, TaskNext(t) \/ CallbackClose(t) \/ Panic(t) PROVE KeyInv'
  <2>1. CASE TaskStart(t)
    BY <2>1, KeyMove, TaskFacts, Zenon DEF TaskStart, HoldLabels, CloseLabels, keychain,
         locals
  <2>2. CASE ConnectReturn(t)
    BY <2>2, KeyMove, TaskFacts, Zenon DEF ConnectReturn, HoldLabels, CloseLabels,
         keychain, locals
  <2>3. CASE HelpDisconnect(t)
    BY <2>3, KeyMove, TaskFacts, Zenon DEF HelpDisconnect, HoldLabels, CloseLabels,
         keychain, locals
  <2>4. CASE HelpReturn(t)
    BY <2>4, KeyMove, TaskFacts, Zenon DEF HelpReturn, HoldLabels, CloseLabels,
         keychain, locals
  <2>5. CASE UnlockConnecting(t)
    BY <2>5, KeyMove, TaskFacts, Zenon DEF UnlockConnecting, HoldLabels, CloseLabels,
         locals
  <2>6. CASE StartRequest(t)
    BY <2>6, KeyMove, TaskFacts, Zenon DEF StartRequest, HoldLabels, CloseLabels,
         keychain, locals
  <2>7. CASE RequestReturn(t)
    BY <2>7, KeyMove, TaskFacts, Zenon DEF RequestReturn, HoldLabels, CloseLabels,
         keychain, locals
  <2>8. CASE LoopStatus(t)
    BY <2>8, KeyMove, TaskFacts, Zenon DEF LoopStatus, HoldLabels, CloseLabels, keychain
  <2>9. CASE Loop(t)
    BY <2>9, KeyMove, TaskFacts, Zenon DEF Loop, HoldLabels, CloseLabels, keychain
  <2>10. CASE RecheckLen(t)
    BY <2>10, KeyMove, TaskFacts, Zenon DEF RecheckLen, TaskExit, HoldLabels,
         CloseLabels, keychain
  <2>11. CASE Panic(t)
    BY <2>11, KeyMove, TaskFacts, Zenon DEF Panic, InCallback, HoldLabels, CloseLabels,
         keychain, locals
  <2>12. UnlockProcessing(t) => KeyInv'
    BY TaskFacts DEF UnlockProcessing, Goto, KeyInv, Holds, HoldLabels, CloseLabels,
         locals
  <2>13. RecheckClosing(t) => KeyInv'
    BY <1>0, TaskFacts DEF RecheckClosing, Goto, KeyInv, Holds, HoldLabels, CloseLabels,
         locals
  <2>14. Relock(t) => KeyInv'
    BY <1>0, TaskFacts DEF Relock, TaskExit, Goto, KeyInv, Holds, HoldLabels,
         CloseLabels
  <2>15. PanicUnlock(t) => KeyInv'
    BY TaskFacts DEF PanicUnlock, Goto, KeyInv, Holds, HoldLabels, CloseLabels, locals
  <2>16. PanicClose(t) => KeyInv'
    BY <1>0, TaskFacts DEF PanicClose, Goto, KeyInv, Holds, HoldLabels, CloseLabels,
         keychain
  <2>17. CASE CallbackClose(t)
    BY <2>17, Zenon DEF CallbackClose, KeyInv, Holds, locals
  <2> QED BY <1>4, <2>1, <2>2, <2>3, <2>4, <2>5, <2>6, <2>7, <2>8, <2>9, <2>10, <2>11,
         <2>12, <2>13, <2>14, <2>15, <2>16, <2>17 DEF TaskNext
<1>5. ASSUME NEW p \in Procs, CallNext(p) PROVE KeyInv'
  <2>1. CASE OnRequest(p)
    BY <2>1, KeyMove, Zenon DEF OnRequest, Return, HoldLabels, CloseLabels, keychain,
         locals
  <2>2. CASE CloseBy(p)
    BY <2>2, KeyMove, Zenon DEF CloseBy, HoldLabels, CloseLabels, locals
  <2>3. CASE Detach(p)
    BY <2>3, KeyMove, Zenon DEF Detach, HoldLabels, CloseLabels, keychain, locals
  <2>4. CASE DetachCtl(p)
    BY <2>4, KeyMove, Zenon DEF DetachCtl, HoldLabels, CloseLabels, keychain, locals
  <2>5. CASE Callbacks(p)
    BY <2>5, KeyMove, Zenon DEF Callbacks, HoldLabels, CloseLabels, keychain, locals
  <2>6. CASE Free(p)
    BY <2>6, KeyMove, Zenon DEF Free, HoldLabels, CloseLabels, keychain, locals
  <2>7. CASE CloseFD(p)
    BY <2>7, KeyMove, Zenon DEF CloseFD, HoldLabels, CloseLabels, keychain, locals
  <2>8. CASE CloseBuffer(p)
    BY <2>8, KeyMove, Zenon DEF CloseBuffer, HoldLabels, CloseLabels, keychain, locals
  <2>9. OnProcess(p) => KeyInv'
    BY <1>0, ProcsFacts DEF OnProcess, Goto, KeyInv, Holds, HoldLabels, CloseLabels
  <2>10. CloseLock(p) => KeyInv'
    BY DEF CloseLock, Return, Goto, KeyInv, Holds, HoldLabels, CloseLabels, locals
  <2> QED BY <1>5, <2>1, <2>2, <2>3, <2>4, <2>5, <2>6, <2>7, <2>8, <2>9, <2>10 DEF
         CallNext
<1>6. ASSUME NEW u \in Users, UserNext(u) \/ CheckInput(u) PROVE KeyInv'
  <2>1. CASE UserClose(u)
    BY <2>1, KeyMove, UserFacts, Zenon DEF UserClose, HoldLabels, CloseLabels, keychain,
         locals
  <2>2. CASE SetOnRequest(u)
    BY <2>2, KeyMove, UserFacts, Zenon DEF SetOnRequest, HoldLabels, CloseLabels,
         keychain, locals
  <2>3. CASE CheckInput(u)
    BY <2>3, KeyMove, UserFacts, Zenon DEF CheckInput, HoldLabels, CloseLabels,
         keychain, locals
  <2> QED BY <1>6, <2>1, <2>2, <2>3 DEF UserNext
<1>7. PeerSend => KeyInv'
  BY KeyFrame DEF PeerSend, keychain, locals
<1>8. PeerClose => KeyInv'
  BY KeyFrame DEF PeerClose, keychain, locals
<1>9. UNCHANGED vars => KeyInv'
  BY KeyFrame DEF vars, keychain, locals
<1> QED BY <1>1, <1>2, <1>3, <1>4, <1>5, <1>6, <1>7, <1>8, <1>9 DEF Next

(* The processing key has at most one holder in every reachable state. *)
LEMMA KeyInvariant == Spec => [](TypeOK /\ KeyInv)
<1>1. TypeOK /\ KeyInv /\ [Next]_vars => (TypeOK /\ KeyInv)'
  BY TypeStep, KeyStep
<1> QED BY TypeInit, KeyInit, <1>1, PTL DEF Spec

(* At most one OnRequest callback of a connection runs at a time, also when  *)
(* callbacks panic: onProcess starts a task only with the processing key.    *)
THEOREM OneOnRequestAtATime == Spec => []OneOnRequest
<1>1. TypeOK /\ KeyInv => OneOnRequest
  BY ProcsFacts DEF KeyInv, OneOnRequest, Holds, HoldLabels, CloseLabels
<1> QED BY KeyInvariant, <1>1, PTL

(* Without panics, OnConnect, OnRequest and the close callbacks exclude each *)
(* other, and the close callbacks run once and are the last to run.          *)
THEOREM CallbacksAreSerial == ~MayPanic => (Spec => []SerialCallbacks)
<1> SUFFICES ASSUME ~MayPanic PROVE Spec => []SerialCallbacks OBVIOUS
<1>1. KeyInv => SerialCallbacks
  BY DEF KeyInv, SerialCallbacks, Serial, Closes, Holds, HoldLabels
<1> QED BY KeyInvariant, <1>1, PTL

-----------------------------------------------------------------------------
(* The life of the file descriptor and of its operator.                    *)

ClosingLabels == CloseLabels \cup {"closeLock", "closeLockDetach", "detach", "detachCtl"}

(* Where the poller is between do() and done(). *)
OnOperator == {"read", "readall", "onRequest", "onProcess", "appendHup", "hupCtl",
    "hupDone", "done"}

BeforeConnect == {"prepare", "register", "isActive", "addCloseCallback", "store",
    "onConnect"}

ConnectLabels == {"inConnect", "help", "inDisconnect", "unlockConnecting"}

TaskLabels == ConnectLabels \cup {"task", "start", "inRequest", "status", "loop",
    "unlock", "recheckClosing", "recheckLen", "relock", "panicUnlock", "panicClose"}

(* The parts of the code that each kind of goroutine runs. *)
PollerPlace   == OnOperator \cup {"wait", "do", "onhups"}
HupPlace      == CloseLabels \cup {"idle", "onHup", "onDisconnect", "lockConnecting",
                                   "hupInDisconnect", "hupClose", "closeLock"}
AcceptorPlace == BeforeConnect \cup ClosingLabels \cup {"onProcess", "exit", "closeBy"}
UserPlace     == ClosingLabels \cup {"idle", "setOnRequest", "onRequest", "onProcess", "closeBy"}
TaskPlace     == TaskLabels \cup ClosingLabels \cup {"idle", "closeBy"}

DetachLabels == {"closeLockDetach", "detach", "detachCtl"}
FreedLabels  == {"closeFD", "closeBuffer", "closed"}

(* Each kind of goroutine runs its own part of the code, and nothing else  *)
(* runs before the descriptor is registered.                               *)
PlaceInv ==
    /\ pc[Poller] \in PollerPlace /\ pc[Hup] \in HupPlace /\ pc[Acceptor] \in AcceptorPlace
    /\ \A u \in Users : pc[u] \in UserPlace
    /\ \A t \in Tasks : pc[t] \in TaskPlace
    /\ pc[Acceptor] \in {"prepare", "register"} =>
         /\ \A p \in Procs \ {Acceptor} : pc[p] \in {"idle", "wait"}
         /\ IsActive /\ opPoll /\ opDetached = 0 /\ ~registered

(* Whoever is past closeBy finds the connection closed, and only a close of *)
(* the program detaches.                                                    *)
CloseInv ==
    /\ \A p \in Procs : pc[p] \in ClosingLabels => ~IsActive
    /\ pc[Hup] \notin {"idle", "onHup"} => ~IsActive
    /\ \A p \in Procs : pc[p] \in DetachLabels => closing = "user"
    /\ \A t \in Tasks : closedBy[t] # "none" => ~IsActive
    /\ \A t \in Tasks : closedBy[t] = "user" => closing = "user"

(* The operator is in state 2 exactly while the poller works on it, and    *)
(* without panics the one who freed it still owns the processing key.      *)
OperatorInv ==
    /\ opState = 2 <=> pc[Poller] \in OnOperator
    /\ ~opPoll => opState = 0
    /\ ~MayPanic => /\ \A p \in Procs : pc[p] # "crashed"
                    /\ ~opPoll => \E p \in Procs : pc[p] \in FreedLabels

(* Until the program closes, only the poller detaches, and it has left     *)
(* epoll by the time the hangup is handled.                                *)
EpollInv ==
    closing # "user" =>
      /\ opDetached > 0 => pc[Poller] = "hupCtl" \/ ~registered
      /\ (\/ pc[Poller] \in {"hupDone", "onhups"}
          \/ pc[Hup] # "idle"
          \/ closing = "poller") => ~registered

LifeInv == PlaceInv /\ CloseInv /\ OperatorInv /\ EpollInv

(* Before the descriptor is registered nothing has happened to it. *)
LEMMA LifeInit == Init => LifeInv
<1> SUFFICES ASSUME Init PROVE LifeInv OBVIOUS
<1>1. /\ \A p \in Procs : pc[p] \in {"prepare", "wait", "idle"}
      /\ \A p \in Procs \ {Acceptor} : pc[p] \in {"wait", "idle"}
      /\ \A p \in Tasks \cup Users \cup {Hup} : pc[p] = "idle"
      /\ pc[Poller] = "wait" /\ pc[Acceptor] = "prepare"
  BY ConstantsAssumption, Zenon DEF Init, Procs
<1>2. PlaceInv
  BY <1>1, ProcsFacts DEF Init, PlaceInv, PollerPlace, HupPlace,
     AcceptorPlace, UserPlace, TaskPlace, BeforeConnect, IsActive
<1>3. CloseInv
  BY <1>1, ProcsFacts DEF Init, CloseInv, ClosingLabels, CloseLabels, DetachLabels
<1>4. OperatorInv /\ EpollInv
  BY <1>1, ProcsFacts DEF Init, OperatorInv, EpollInv, OnOperator
<1> QED BY <1>2, <1>3, <1>4 DEF LifeInv

(* A goroutine may move within its part of the code. *)
LEMMA PlaceMove ==
  ASSUME pc \in [Procs -> Labels], PlaceInv, NEW p \in Procs, NEW l, Goto(p, l),
         p # Acceptor => \/ pc[p] \notin {"idle", "wait"}
                         \/ pc[Acceptor] \notin {"prepare", "register"},
         p = Acceptor /\ l \in {"prepare", "register"} =>
           pc[p] = "prepare" /\ UNCHANGED <<closing, opPoll, opDetached, registered>>,
         p = Poller /\ pc[p] \in PollerPlace => l \in PollerPlace,
         p = Hup /\ pc[p] \in HupPlace => l \in HupPlace,
         p = Acceptor /\ pc[p] \in AcceptorPlace => l \in AcceptorPlace,
         p \in Users /\ pc[p] \in UserPlace => l \in UserPlace,
         p \in Tasks /\ pc[p] \in TaskPlace => l \in TaskPlace
  PROVE  PlaceInv'
BY ProcsFacts, ConstantsAssumption DEF PlaceInv, Goto, IsActive

(* It may begin to close a connection that is closed, and to detach one    *)
(* that the program closed.                                                *)
LEMMA CloseMove ==
  ASSUME pc \in [Procs -> Labels], CloseInv, NEW p \in Procs, NEW l, Goto(p, l),
         UNCHANGED closedBy, closing' = closing \/ closing' = "user" \/ (IsActive /\ ~IsActive'),
         l \in ClosingLabels => pc[p] \in ClosingLabels \/ ~IsActive',
         l \in DetachLabels => pc[p] \in DetachLabels \/ closing' = "user",
         p = Hup /\ l \notin {"idle", "onHup"} => pc[p] \notin {"idle", "onHup"} \/ ~IsActive'
  PROVE  CloseInv'
BY ProcsFacts, ConstantsAssumption DEF CloseInv, Goto, IsActive

(* It may move if the operator stays as it is, the poller stays with the   *)
(* operator or away from it, and the one who freed it goes on closing.     *)
LEMMA OperatorMove ==
  ASSUME pc \in [Procs -> Labels], OperatorInv, NEW p \in Procs, NEW l, Goto(p, l),
         UNCHANGED <<opState, opPoll>>,
         p = Poller => (pc[p] \in OnOperator <=> l \in OnOperator),
         l # "crashed", pc[p] \in FreedLabels => l \in FreedLabels
  PROVE  OperatorInv'
BY ProcsFacts, ConstantsAssumption DEF OperatorInv, Goto

(* It may move unless it is the poller at a hangup, or a hangup begins, and *)
(* everything may change once the program has closed.                       *)
LEMMA EpollMove ==
  ASSUME pc \in [Procs -> Labels], EpollInv, NEW p \in Procs, NEW l, Goto(p, l),
         closing' = "user" \/ UNCHANGED <<closing, opDetached, registered>>,
         p = Poller => pc[p] # "hupCtl",
         p = Poller /\ l \in {"hupDone", "onhups"} => pc[p] \in {"hupDone", "onhups"},
         p = Hup => pc[p] # "idle"
  PROVE  EpollInv'
BY ProcsFacts, ConstantsAssumption DEF EpollInv, Goto

(* The goroutine of onAccept may go on. *)
LEMMA LifeAcceptMove ==
  ASSUME pc \in [Procs -> Labels], LifeInv, NEW l, Goto(Acceptor, l),
         UNCHANGED <<closing, closedBy, operator, registered>>,
         pc[Acceptor] \in BeforeConnect, l # "prepare",
         l = "register" => pc[Acceptor] = "prepare",
         l \in BeforeConnect \cup {"onProcess", "exit", "closeBy"}
  PROVE  LifeInv'
<1>1. PlaceInv'
  BY DEF PlaceInv, IsActive, LifeInv, Goto, operator, OnOperator, BeforeConnect,
       ConnectLabels, TaskLabels, CloseLabels, ClosingLabels, PollerPlace, HupPlace,
       AcceptorPlace, UserPlace, TaskPlace
<1>2. CloseInv'
  BY RolesFacts, Zenon DEF CloseInv, IsActive, LifeInv, Goto, BeforeConnect,
       CloseLabels, ClosingLabels, DetachLabels
<1>3. OperatorInv'
  BY RolesFacts, Zenon DEF OperatorInv, LifeInv, Goto, operator, BeforeConnect,
       FreedLabels
<1>4. EpollInv'
  BY RolesFacts, Zenon DEF EpollInv, LifeInv, Goto, operator
<1> QED BY <1>1, <1>2, <1>3, <1>4 DEF LifeInv

(* The goroutine of a hangup may go on once the connection is closed. *)
LEMMA LifeHupMove ==
  ASSUME pc \in [Procs -> Labels], LifeInv, NEW l, Goto(Hup, l),
         UNCHANGED <<closing, closedBy, operator, registered>>,
         pc[Hup] \in {"onDisconnect", "lockConnecting", "hupInDisconnect"},
         l \in {"lockConnecting", "hupInDisconnect", "hupClose"}
  PROVE  LifeInv'
<1>1. PlaceInv'
  BY DEF PlaceInv, IsActive, LifeInv, Goto, operator, OnOperator, BeforeConnect,
       ConnectLabels, TaskLabels, CloseLabels, ClosingLabels, PollerPlace, HupPlace,
       AcceptorPlace, UserPlace, TaskPlace
<1>2. CloseInv'
  BY Zenon DEF CloseInv, IsActive, LifeInv, Goto, DetachLabels
<1>3. OperatorInv'
  BY RolesFacts, Zenon DEF OperatorInv, LifeInv, Goto, operator, FreedLabels
<1>4. EpollInv'
  BY Zenon DEF EpollInv, LifeInv
<1> QED BY <1>1, <1>2, <1>3, <1>4 DEF LifeInv

(* The poller may read. *)
LEMMA LifePollMove ==
  ASSUME pc \in [Procs -> Labels], LifeInv, NEW l, Goto(Poller, l),
         UNCHANGED <<closing, closedBy, operator, registered>>,
         pc[Poller] \in OnOperator, pc[Poller] \notin {"hupCtl", "hupDone"},
         l \in OnOperator, l \notin {"hupCtl", "hupDone"}
  PROVE  LifeInv'
<1>1. PlaceInv'
  BY ConstantsAssumption DEF PlaceInv, IsActive, LifeInv, Goto, operator, OnOperator,
       PollerPlace
<1>2. CloseInv'
  BY RolesFacts, Zenon DEF CloseInv, IsActive, LifeInv, Goto, OnOperator, CloseLabels,
       ClosingLabels, DetachLabels
<1>3. OperatorInv'
  BY Zenon DEF OperatorInv, LifeInv, Goto, operator, OnOperator, FreedLabels
<1>4. EpollInv'
  BY RolesFacts, Zenon DEF EpollInv, LifeInv, Goto, operator, OnOperator
<1> QED BY <1>1, <1>2, <1>3, <1>4 DEF LifeInv

(* A task may move within its part of the code, leave it, or go on to      *)
(* close a connection that is closed.                                      *)
LEMMA LifeTaskMove ==
  ASSUME pc \in [Procs -> Labels], LifeInv, NEW t \in Tasks, NEW l, Goto(t, l),
         UNCHANGED <<closing, closedBy, operator, registered>>,
         pc[t] \in TaskLabels,
         l \in TaskLabels \/ l \in {"idle", "closeBy"} \/ (~IsActive /\ l = "callbacks")
  PROVE  LifeInv'
<1>1. PlaceInv'
  BY DEF PlaceInv, IsActive, LifeInv, Goto, operator, OnOperator, BeforeConnect,
       ConnectLabels, TaskLabels, CloseLabels, ClosingLabels, PollerPlace, HupPlace,
       AcceptorPlace, UserPlace, TaskPlace
<1>2. CloseInv'
  BY RolesFacts, Zenon DEF CloseInv, IsActive, LifeInv, Goto, ConnectLabels, TaskLabels,
       CloseLabels, ClosingLabels, DetachLabels
<1>3. OperatorInv'
  BY RolesFacts, Zenon DEF OperatorInv, LifeInv, Goto, operator, OnOperator,
       ConnectLabels, TaskLabels, FreedLabels
<1>4. EpollInv'
  BY RolesFacts, Zenon DEF EpollInv, LifeInv, Goto, operator, ConnectLabels, TaskLabels
<1> QED BY <1>1, <1>2, <1>3, <1>4 DEF LifeInv

(* The program may act once the descriptor is registered. *)
LEMMA LifeUserMove ==
  ASSUME pc \in [Procs -> Labels], LifeInv, NEW u \in Users, NEW l, Goto(u, l),
         UNCHANGED <<closing, closedBy, operator, registered>>,
         pc[Acceptor] \notin {"prepare", "register"} \/ pc[u] = "setOnRequest",
         pc[u] \in {"idle", "setOnRequest"},
         l \in {"idle", "closeBy", "setOnRequest", "onRequest"}
  PROVE  LifeInv'
<1>1. PlaceInv'
  BY ConstantsAssumption DEF PlaceInv, IsActive, LifeInv, Goto, operator, UserPlace
<1>2. CloseInv'
  BY RolesFacts, UserFacts, Zenon DEF CloseInv, IsActive, LifeInv, Goto, CloseLabels,
       ClosingLabels, DetachLabels
<1>3. OperatorInv'
  BY RolesFacts, UserFacts, Zenon DEF OperatorInv, LifeInv, Goto, operator, FreedLabels
<1>4. EpollInv'
  BY RolesFacts, UserFacts, Zenon DEF EpollInv, LifeInv, Goto, operator
<1> QED BY <1>1, <1>2, <1>3, <1>4 DEF LifeInv

(* Whoever runs the close callbacks may go on. *)
LEMMA LifeCloseMove ==
  ASSUME pc \in [Procs -> Labels], LifeInv, NEW p \in Procs, NEW l, Goto(p, l),
         UNCHANGED <<closing, closedBy, operator, registered>>,
         pc[p] \in CloseLabels, l \in CloseLabels, l # "crashed",
         pc[p] \in FreedLabels => l \in FreedLabels
  PROVE  LifeInv'
<1>1. PlaceInv'
  BY DEF PlaceInv, LifeInv, Goto, OnOperator, CloseLabels, ClosingLabels, PollerPlace,
       HupPlace, AcceptorPlace, UserPlace, TaskPlace
<1>2. CloseInv'
  BY Zenon DEF CloseInv, IsActive, LifeInv, Goto, CloseLabels, ClosingLabels,
       DetachLabels
<1>3. OperatorInv'
  BY RolesFacts, Zenon DEF OperatorInv, LifeInv, Goto, operator, OnOperator, CloseLabels
<1>4. EpollInv'
  BY RolesFacts, Zenon DEF EpollInv, LifeInv, Goto, operator, CloseLabels
<1> QED BY <1>1, <1>2, <1>3, <1>4 DEF LifeInv

(* Nothing happens when only the rest of the connection changes. *)
LEMMA LifeFrame ==
  ASSUME LifeInv, UNCHANGED <<pc, closing, closedBy, operator, registered>>
  PROVE  LifeInv'
BY DEF LifeInv, PlaceInv, CloseInv, OperatorInv, EpollInv, IsActive, operator

(* Every action keeps this: Free waits for the poller, and the poller leaves
   epoll before it hands the hangup over. *)
LEMMA LifeStep ==
  ASSUME TypeOK, KeyInv, LifeInv
  PROVE  [Next]_vars => LifeInv'
<1> SUFFICES ASSUME pc \in [Procs -> Labels] PROVE [Next]_vars => LifeInv'
  BY DEF TypeOK
<1>0. opDetached \in 0..2
  BY DEF TypeOK, CountersOK
<1>1. ASSUME AcceptorNext PROVE LifeInv'
  <2>1. CASE Prepare
    BY <2>1, LifeAcceptMove, Zenon DEF Prepare, BeforeConnect, keychain, kernel, locals
  <2>2. CASE AcceptIsActive
    BY <2>2, LifeAcceptMove, Zenon DEF AcceptIsActive, BeforeConnect, keychain, kernel,
         locals
  <2>3. CASE AddCloseCallback
    BY <2>3, LifeAcceptMove, Zenon DEF AddCloseCallback, BeforeConnect, keychain,
         kernel, locals
  <2>4. CASE StoreConnection
    BY <2>4, LifeAcceptMove, Zenon DEF StoreConnection, BeforeConnect, keychain, kernel,
         locals
  <2>5. CASE OnConnect
    BY <2>5, LifeAcceptMove, Zenon DEF OnConnect, BeforeConnect, kernel, locals
  <2>6. ASSUME Register PROVE PlaceInv' /\ CloseInv'
    BY <2>6, PlaceMove, CloseMove, RolesFacts, Zenon DEF Register, BeforeConnect,
         ConnectLabels, TaskLabels, CloseLabels, ClosingLabels, DetachLabels,
         AcceptorPlace, UserPlace, TaskPlace, keychain, locals, LifeInv
  <2>7. Register => OperatorInv'
    BY RolesFacts DEF Register, Goto, LifeInv, OperatorInv, OnOperator, PlaceInv
  <2>8. Register => EpollInv'
    BY RolesFacts DEF Register, Goto, LifeInv, EpollInv, PlaceInv, IsActive, keychain,
         CloseLabels, HupPlace
  <2> QED BY <1>1, <2>1, <2>2, <2>3, <2>4, <2>5, <2>6, <2>7, <2>8 DEF AcceptorNext,
         LifeInv
<1>2. ASSUME HupNext PROVE LifeInv'
  <2>1. CASE OnDisconnect
    BY <2>1, LifeHupMove, Zenon DEF OnDisconnect, keychain, kernel, locals
  <2>2. CASE HupLockConnecting
    BY <2>2, LifeHupMove, Zenon DEF HupLockConnecting, kernel, locals
  <2>3. CASE HupDisconnectReturn
    BY <2>3, LifeHupMove, Zenon DEF HupDisconnectReturn, kernel, locals
  <2>4. ASSUME OnHup PROVE PlaceInv' /\ CloseInv' /\ OperatorInv'
    BY <2>4, PlaceMove, CloseMove, OperatorMove, RolesFacts, Zenon DEF OnHup, IsActive,
         ConnectLabels, TaskLabels, CloseLabels, ClosingLabels, DetachLabels,
         FreedLabels, HupPlace, UserPlace, TaskPlace, operator, locals, LifeInv
  <2>5. ASSUME OnHup PROVE EpollInv'
    BY <2>5, Zenon DEF OnHup, LifeInv, EpollInv, IsActive, kernel
  <2>6. ASSUME HupClose PROVE PlaceInv' /\ OperatorInv' /\ EpollInv'
    BY <2>6, PlaceMove, OperatorMove, EpollMove, RolesFacts, Zenon DEF HupClose,
         ClosingLabels, FreedLabels, HupPlace, UserPlace, TaskPlace, keychain, kernel,
         operator, LifeInv
  <2>7. HupClose => CloseInv'
    BY DEF HupClose, Goto, LifeInv, CloseInv, DetachLabels, IsActive, keychain, locals
  <2> QED BY <1>2, <2>1, <2>2, <2>3, <2>4, <2>5, <2>6, <2>7 DEF HupNext, LifeInv
<1>3. ASSUME PollerNext PROVE LifeInv'
  <2>1. CASE PollRead
    BY <2>1, LifePollMove, Zenon DEF PollRead, Return, OnOperator, keychain, locals
  <2>2. CASE PollReadNothing
    BY <2>2, LifePollMove, Zenon DEF PollReadNothing, OnOperator, keychain, kernel,
         locals
  <2>3. ASSUME PollWait PROVE CloseInv' /\ OperatorInv' /\ EpollInv'
    BY <2>3, CloseMove, OperatorMove, EpollMove, RolesFacts, Zenon DEF PollWait,
         OnOperator, CloseLabels, ClosingLabels, DetachLabels, FreedLabels, keychain,
         kernel, operator, LifeInv
  <2>4. PollWait => PlaceInv'
    BY DEF PollWait, Goto, LifeInv, PlaceInv, PollerPlace, BeforeConnect, ConnectLabels,
         TaskLabels, CloseLabels, ClosingLabels, HupPlace, AcceptorPlace, UserPlace,
         TaskPlace
  <2>5. ASSUME PollDo PROVE PlaceInv' /\ CloseInv' /\ EpollInv'
    BY <2>5, PlaceMove, CloseMove, EpollMove, RolesFacts, Zenon DEF PollDo, OnOperator,
         ConnectLabels, TaskLabels, CloseLabels, ClosingLabels, DetachLabels,
         PollerPlace, UserPlace, TaskPlace, keychain, kernel, locals, LifeInv
  <2>6. ASSUME PollDo PROVE OperatorInv'
    BY <2>6, RolesFacts, Zenon DEF PollDo, Goto, LifeInv, OperatorInv, FreedLabels,
         OnOperator
  <2>7. ASSUME AppendHup PROVE PlaceInv' /\ CloseInv' /\ OperatorInv'
    BY <2>7, PlaceMove, CloseMove, OperatorMove, RolesFacts, Zenon DEF AppendHup,
         OnOperator, ConnectLabels, TaskLabels, CloseLabels, ClosingLabels,
         DetachLabels, FreedLabels, PollerPlace, UserPlace, TaskPlace, keychain, locals,
         LifeInv
  <2>8. AppendHup => EpollInv'
    BY <1>0, RolesFacts DEF AppendHup, Goto, LifeInv, EpollInv, keychain, kernel
  <2>9. ASSUME HupCtl PROVE PlaceInv' /\ CloseInv' /\ OperatorInv'
    BY <2>9, PlaceMove, CloseMove, OperatorMove, RolesFacts, Zenon DEF HupCtl,
         OnOperator, ConnectLabels, TaskLabels, CloseLabels, ClosingLabels,
         DetachLabels, FreedLabels, PollerPlace, UserPlace, TaskPlace, keychain,
         operator, locals, LifeInv
  <2>10. ASSUME HupCtl PROVE EpollInv'
    BY <2>10, Zenon DEF HupCtl, EpollInv
  <2>11. ASSUME PollDone PROVE PlaceInv' /\ CloseInv' /\ EpollInv'
    BY <2>11, PlaceMove, CloseMove, EpollMove, RolesFacts, Zenon DEF PollDone,
         ConnectLabels, TaskLabels, CloseLabels, ClosingLabels, DetachLabels,
         PollerPlace, UserPlace, TaskPlace, keychain, kernel, locals, LifeInv
  <2>12. PollDone => OperatorInv'
    BY RolesFacts DEF PollDone, Goto, LifeInv, OperatorInv, OnOperator
  <2>13. ASSUME Onhups PROVE PlaceInv'
    BY <2>13, ProcsFacts, ConstantsAssumption, Zenon DEF Onhups, LifeInv, PlaceInv,
         HupPlace, PollerPlace
  <2>14. ASSUME Onhups PROVE CloseInv'
    BY <2>14, RolesFacts, Zenon DEF Onhups, LifeInv, CloseInv, ClosingLabels,
         CloseLabels, DetachLabels, IsActive, keychain, locals
  <2>15. ASSUME Onhups PROVE OperatorInv'
    BY <2>15, RolesFacts, Zenon DEF Onhups, LifeInv, OperatorInv, FreedLabels,
         OnOperator, operator
  <2>16. ASSUME Onhups PROVE EpollInv'
    BY <2>16, Zenon DEF Onhups, LifeInv, EpollInv, keychain, kernel
  <2> QED BY <1>3, <2>1, <2>2, <2>3, <2>4, <2>5, <2>6, <2>7, <2>8, <2>9, <2>10, <2>11,
         <2>12, <2>13, <2>14, <2>15, <2>16 DEF PollerNext, LifeInv
<1>4. ASSUME NEW t \in Tasks, TaskNext(t) \/ CallbackClose(t) \/ Panic(t) PROVE LifeInv'
  <2>1. CASE TaskStart(t)
    BY <2>1, LifeTaskMove, Zenon DEF TaskStart, ConnectLabels, TaskLabels, keychain,
         kernel, locals
  <2>2. CASE ConnectReturn(t)
    BY <2>2, LifeTaskMove, Zenon DEF ConnectReturn, ConnectLabels, TaskLabels, keychain,
         kernel, locals
  <2>3. CASE HelpDisconnect(t)
    BY <2>3, LifeTaskMove, Zenon DEF HelpDisconnect, ConnectLabels, TaskLabels,
         keychain, kernel, locals
  <2>4. CASE HelpReturn(t)
    BY <2>4, LifeTaskMove, Zenon DEF HelpReturn, ConnectLabels, TaskLabels, keychain,
         kernel, locals
  <2>5. CASE UnlockConnecting(t)
    BY <2>5, LifeTaskMove, Zenon DEF UnlockConnecting, ConnectLabels, TaskLabels,
         kernel, locals
  <2>6. CASE StartRequest(t)
    BY <2>6, LifeTaskMove, Zenon DEF StartRequest, TaskLabels, keychain, kernel, locals
  <2>7. CASE RequestReturn(t)
    BY <2>7, LifeTaskMove, Zenon DEF RequestReturn, TaskLabels, keychain, kernel, locals
  <2>8. CASE UnlockProcessing(t)
    BY <2>8, LifeTaskMove, Zenon DEF UnlockProcessing, TaskLabels, kernel, locals
  <2>9. CASE RecheckClosing(t)
    BY <2>9, LifeTaskMove, Zenon DEF RecheckClosing, TaskLabels, kernel, locals
  <2>10. CASE RecheckLen(t)
    BY <2>10, LifeTaskMove, Zenon DEF RecheckLen, TaskExit, TaskLabels, keychain, kernel
  <2>11. CASE Relock(t)
    BY <2>11, LifeTaskMove, Zenon DEF Relock, TaskExit, TaskLabels, kernel
  <2>12. CASE PanicUnlock(t)
    BY <2>12, LifeTaskMove, Zenon DEF PanicUnlock, TaskLabels, kernel, locals
  <2>13. CASE PanicClose(t)
    BY <2>13, LifeTaskMove, Zenon DEF PanicClose, TaskLabels, keychain, kernel
  <2>14. CASE Panic(t)
    BY <2>14, LifeTaskMove, Zenon DEF Panic, InCallback, ConnectLabels, TaskLabels,
         keychain, kernel, locals
  <2>15. ASSUME LoopStatus(t) PROVE PlaceInv' /\ OperatorInv' /\ EpollInv'
    BY <2>15, PlaceMove, OperatorMove, EpollMove, TaskFacts, Zenon DEF LoopStatus,
         TaskLabels, FreedLabels, TaskPlace, keychain, kernel, operator, LifeInv
  <2>16. LoopStatus(t) => CloseInv'
    BY DEF LoopStatus, Goto, LifeInv, CloseInv, ClosingLabels, CloseLabels,
         DetachLabels, IsActive, keychain
  <2>17. ASSUME Loop(t) PROVE PlaceInv' /\ OperatorInv' /\ EpollInv'
    BY <2>17, PlaceMove, OperatorMove, EpollMove, TaskFacts, Zenon DEF Loop, TaskLabels,
         CloseLabels, ClosingLabels, FreedLabels, TaskPlace, keychain, kernel, operator,
         LifeInv
  <2>18. Loop(t) => CloseInv'
    BY DEF Loop, Goto, LifeInv, CloseInv, ClosingLabels, CloseLabels, DetachLabels,
         IsActive, keychain
  <2>19. ASSUME CallbackClose(t) PROVE PlaceInv'
    BY <2>19, TaskFacts, Zenon DEF CallbackClose, InCallback, LifeInv, PlaceInv
  <2>20. ASSUME CallbackClose(t) PROVE CloseInv'
    BY <2>20, Zenon DEF CallbackClose, CloseInv, IsActive
  <2>21. ASSUME CallbackClose(t) PROVE OperatorInv'
    BY <2>21, Zenon DEF CallbackClose, LifeInv, OperatorInv, operator
  <2>22. ASSUME CallbackClose(t) PROVE EpollInv'
    BY <2>22, Zenon DEF CallbackClose, EpollInv
  <2> QED BY <1>4, <2>1, <2>2, <2>3, <2>4, <2>5, <2>6, <2>7, <2>8, <2>9, <2>10, <2>11,
         <2>12, <2>13, <2>14, <2>15, <2>16, <2>17, <2>18, <2>19, <2>20, <2>21, <2>22 DEF
         TaskNext, LifeInv
<1>5. ASSUME NEW p \in Procs, CallNext(p) PROVE LifeInv'
  <2>1. CASE OnRequest(p)
    BY <2>1, PlaceMove, CloseMove, OperatorMove, EpollMove, ConstantsAssumption, Zenon
         DEF OnRequest, Return, OnOperator, ConnectLabels, TaskLabels, CloseLabels,
         ClosingLabels, DetachLabels, FreedLabels, PollerPlace, HupPlace, AcceptorPlace,
         UserPlace, TaskPlace, keychain, kernel, operator, locals, LifeInv
  <2>2. CASE CloseBy(p)
    BY <2>2, PlaceMove, CloseMove, OperatorMove, EpollMove, Zenon DEF CloseBy, IsActive,
         OnOperator, CloseLabels, ClosingLabels, FreedLabels, PollerPlace, HupPlace,
         AcceptorPlace, UserPlace, TaskPlace, operator, locals, LifeInv
  <2>3. CASE Callbacks(p)
    BY <2>3, LifeCloseMove, Zenon DEF Callbacks, CloseLabels, FreedLabels, keychain,
         kernel, locals
  <2>4. CASE CloseBuffer(p)
    BY <2>4, LifeCloseMove, Zenon DEF CloseBuffer, CloseLabels, FreedLabels, keychain,
         kernel, locals
  <2>5. OnProcess(p) => PlaceInv'
    BY ProcsFacts, ConstantsAssumption DEF OnProcess, Return, Goto, LifeInv, PlaceInv,
         UserPlace, AcceptorPlace, OnOperator, HupPlace, TaskLabels, PollerPlace,
         TaskPlace
  <2>6. OnProcess(p) => CloseInv'
    BY RolesFacts, ConstantsAssumption DEF OnProcess, Return, Goto, LifeInv, CloseInv,
         ClosingLabels, CloseLabels, DetachLabels, IsActive
  <2>7. OnProcess(p) => OperatorInv'
    BY RolesFacts DEF OnProcess, Return, Goto, LifeInv, OperatorInv, FreedLabels,
         OnOperator, operator
  <2>8. ASSUME OnProcess(p) PROVE EpollInv'
    BY <2>8, RolesFacts, ConstantsAssumption, Zenon DEF OnProcess, Return, Goto,
         LifeInv, EpollInv, kernel, operator
  <2>9. ASSUME CloseLock(p) PROVE PlaceInv' /\ CloseInv' /\ EpollInv'
    BY <2>9, PlaceMove, CloseMove, EpollMove, ConstantsAssumption, Zenon DEF CloseLock,
         Return, OnOperator, CloseLabels, ClosingLabels, DetachLabels, PollerPlace,
         HupPlace, AcceptorPlace, UserPlace, TaskPlace, kernel, operator, locals,
         LifeInv
  <2>10. CloseLock(p) => OperatorInv'
    BY DEF CloseLock, Return, Goto, LifeInv, OperatorInv, FreedLabels, OnOperator,
         PlaceInv, PollerPlace, operator
  <2>11. ASSUME Detach(p) PROVE PlaceInv' /\ CloseInv' /\ OperatorInv'
    BY <2>11, PlaceMove, CloseMove, OperatorMove, Zenon DEF Detach, OnOperator,
         CloseLabels, ClosingLabels, DetachLabels, FreedLabels, PollerPlace, HupPlace,
         AcceptorPlace, UserPlace, TaskPlace, keychain, locals, LifeInv
  <2>12. ASSUME Detach(p) PROVE EpollInv'
    BY <2>12, Zenon DEF Detach, LifeInv, EpollInv, CloseInv, DetachLabels, keychain
  <2>13. ASSUME DetachCtl(p) PROVE PlaceInv' /\ CloseInv' /\ OperatorInv'
    BY <2>13, PlaceMove, CloseMove, OperatorMove, Zenon DEF DetachCtl, OnOperator,
         CloseLabels, ClosingLabels, DetachLabels, FreedLabels, PollerPlace, HupPlace,
         AcceptorPlace, UserPlace, TaskPlace, keychain, operator, locals, LifeInv
  <2>14. ASSUME DetachCtl(p) PROVE EpollInv'
    BY <2>14, Zenon DEF DetachCtl, EpollInv
  <2>15. ASSUME Free(p) PROVE PlaceInv' /\ CloseInv'
    BY <2>15, PlaceMove, CloseMove, Zenon DEF Free, OnOperator, CloseLabels,
         ClosingLabels, DetachLabels, PollerPlace, HupPlace, AcceptorPlace, UserPlace,
         TaskPlace, keychain, locals, LifeInv
  <2>16. Free(p) => OperatorInv'
    BY RolesFacts DEF Free, Goto, LifeInv, OperatorInv, FreedLabels, KeyInv, Holds,
         HoldLabels, OnOperator
  <2>17. Free(p) => EpollInv'
    BY RolesFacts DEF Free, Goto, LifeInv, EpollInv, keychain, kernel
  <2>18. ASSUME CloseFD(p) PROVE PlaceInv' /\ CloseInv' /\ OperatorInv'
    BY <2>18, PlaceMove, CloseMove, OperatorMove, Zenon DEF CloseFD, OnOperator,
         CloseLabels, ClosingLabels, DetachLabels, FreedLabels, PollerPlace, HupPlace,
         AcceptorPlace, UserPlace, TaskPlace, keychain, operator, locals, LifeInv
  <2>19. ASSUME CloseFD(p) PROVE EpollInv'
    <3>1. /\ pc[p] = "closeFD" /\ Goto(p, "closeBuffer") /\ UNCHANGED <<closing, opDetached>>
          /\ registered' => registered
      BY <2>19, Zenon DEF CloseFD, keychain, operator
    <3> QED BY <3>1 DEF Goto, LifeInv, EpollInv
  <2> QED BY <1>5, <2>1, <2>2, <2>3, <2>4, <2>5, <2>6, <2>7, <2>8, <2>9, <2>10, <2>11,
         <2>12, <2>13, <2>14, <2>15, <2>16, <2>17, <2>18, <2>19 DEF CallNext, LifeInv
<1>6. ASSUME NEW u \in Users, UserNext(u) \/ CheckInput(u) PROVE LifeInv'
  <2>1. CASE UserClose(u)
    BY <2>1, LifeUserMove, Zenon DEF UserClose, keychain, kernel, locals
  <2>2. CASE SetOnRequest(u)
    BY <2>2, LifeUserMove, Zenon DEF SetOnRequest, keychain, kernel, locals
  <2>3. CASE CheckInput(u)
    BY <2>3, LifeUserMove, Zenon DEF CheckInput, keychain, kernel, locals
  <2> QED BY <1>6, <2>1, <2>2, <2>3 DEF UserNext
<1>7. PeerSend => LifeInv'
  BY LifeFrame DEF PeerSend, keychain, locals, kernel
<1>8. PeerClose => LifeInv'
  BY LifeFrame DEF PeerClose, keychain, locals, kernel
<1>9. UNCHANGED vars => LifeInv'
  BY LifeFrame DEF vars, keychain, locals, kernel
<1> QED BY <1>1, <1>2, <1>3, <1>4, <1>5, <1>6, <1>7, <1>8, <1>9 DEF Next

(* Keys, descriptor and operator stay in order in every reachable state. *)
LEMMA LifeInvariant == Spec => [](TypeOK /\ KeyInv /\ LifeInv)
<1>1. TypeOK /\ KeyInv /\ LifeInv /\ [Next]_vars => (TypeOK /\ KeyInv /\ LifeInv)'
  BY TypeStep, KeyStep, LifeStep
<1> QED BY TypeInit, KeyInit, LifeInit, <1>1, PTL DEF Spec

(* Without panics nobody detaches or frees an operator that was freed, Free  *)
(* never pulls it from under the poller, and a hangup is out of epoll before *)
(* the descriptor is closed (closeCallback, FDOperator.Free, appendHup).     *)
THEOREM FreedOnce == ~MayPanic => (Spec => []NoUseAfterFree)
<1> SUFFICES ASSUME ~MayPanic PROVE Spec => []NoUseAfterFree OBVIOUS
<1>1. ASSUME TypeOK, KeyInv, LifeInv PROVE NoUseAfterFree
  <2> USE <1>1 DEF LifeInv
  <2>1. ASSUME NEW p \in Procs, pc[p] \in {"detachCtl", "free"}, ~opPoll PROVE FALSE
    <3>1. PICK q \in Procs : pc[q] \in {"closeFD", "closeBuffer", "closed"}
      BY <2>1 DEF OperatorInv, FreedLabels
    <3>2. p = q
      BY <2>1, <3>1 DEF KeyInv, Holds, HoldLabels
    <3> QED BY <2>1, <3>1, <3>2
  <2>2. pc[Poller] \in OnOperator => opPoll /\ opState = 2
    BY DEF OperatorInv, TypeOK, FlagsOK
  <2>3. closing = "poller" => \A p \in Procs : pc[p] = "closeFD" => ~registered
    BY DEF EpollInv
  <2> QED BY <2>1, <2>2, <2>3 DEF NoUseAfterFree, OnOperator, OperatorInv
<1> QED BY LifeInvariant, <1>1, PTL

-----------------------------------------------------------------------------
(* The order of the callbacks.                                             *)

(* OnDisconnect runs under connState, or in the one goroutine that closed. *)
DisconnectInv ==
    /\ disconnects <= 1
    /\ onConnect /\ disconnects > 0 => connState = "disconnected" /\ connectDone
    /\ ~onConnect /\ disconnects > 0 => ~IsActive /\ pc[Hup] # "onDisconnect"
    /\ pc[Hup] = "hupInDisconnect" => disconnects > 0
    /\ pc[Hup] = "lockConnecting" => onConnect

(* Until OnConnect has returned its task owns the connecting key, and the  *)
(* processing key unless it panicked; before it has begun no other task is *)
(* started.                                                                *)
ConnectInv ==
    /\ pc[Acceptor] = "onProcess" => onConnect
    /\ \A t \in Tasks : pc[t] \in ConnectLabels \/ "connect" \in captured[t] => onConnect
    /\ \A t \in Tasks : pc[t] \in ConnectLabels \ {"inConnect"} => connectDone
    /\ onConnect /\ connState = "none" =>
         /\ \A p \in Procs \ {Acceptor} : pc[p] # "onProcess"
         /\ \A t \in Tasks : pc[t] = "idle" \/ (pc[t] = "task" /\ "connect" \in captured[t])
    /\ onConnect /\ ~connectDone /\ (\/ pc[Acceptor] = "onProcess" \/ connState # "none"
                                     \/ \E t \in Tasks : "connect" \in captured[t])
         => connecting = 1
    /\ onConnect /\ connState # "none" /\ ~connectDone /\ ~MayPanic =>
         \E t \in Tasks : pc[t] = "inConnect"

OrderInv == DisconnectInv /\ ConnectInv

(* No callback has run when the connection is made. *)
LEMMA OrderInit == Init => OrderInv
<1> SUFFICES ASSUME Init PROVE OrderInv OBVIOUS
<1>1. /\ \A p \in Tasks \cup {Hup} : pc[p] = "idle"
      /\ \A p \in Procs : pc[p] # "onProcess"
  BY ConstantsAssumption, Zenon DEF Init, Procs
<1> QED BY <1>1, ProcsFacts DEF Init, OrderInv, DisconnectInv, ConnectInv, ConnectLabels

(* A goroutine may move if it does not call OnDisconnect. *)
LEMMA DisconnectMove ==
  ASSUME pc \in [Procs -> Labels], DisconnectInv, NEW p \in Procs, NEW l, Goto(p, l),
         UNCHANGED <<disconnects, onConnect, connState>>,
         connectDone => connectDone', IsActive' => IsActive,
         p = Hup => l \notin {"onDisconnect", "hupInDisconnect", "lockConnecting"}
  PROVE  DisconnectInv'
BY ProcsFacts DEF DisconnectInv, Goto

(* It may move if it does not start a task or OnConnect, and leaves        *)
(* OnConnect when that has returned or panicked.                           *)
LEMMA ConnectMove ==
  ASSUME pc \in [Procs -> Labels], ConnectInv, NEW p \in Procs, NEW l, Goto(p, l),
         UNCHANGED <<connecting, connState, onConnect, captured>>, connectDone => connectDone',
         pc[p] = "inConnect" => connectDone' \/ MayPanic,
         p \in Tasks => pc[p] \notin {"idle", "task"},
         l \in ConnectLabels => /\ p \in Tasks /\ l # "inConnect"
                                /\ pc[p] \in ConnectLabels /\ connectDone',
         l = "onProcess" => p # Acceptor /\ (~onConnect \/ connState # "none")
  PROVE  ConnectInv'
BY ProcsFacts DEF ConnectInv, Goto

(* A task may move unless it starts OnConnect, and leaves OnConnect when   *)
(* that has returned or panicked.                                          *)
LEMMA OrderTaskMove ==
  ASSUME pc \in [Procs -> Labels], OrderInv, NEW t \in Tasks, NEW l, Goto(t, l),
         UNCHANGED <<closing, connecting, connState, onConnect, captured, disconnects>>,
         connectDone => connectDone', pc[t] \notin {"idle", "task"},
         l \notin {"inConnect", "onProcess"},
         l \in ConnectLabels => pc[t] \in ConnectLabels /\ connectDone',
         pc[t] = "inConnect" => connectDone' \/ MayPanic
  PROVE  OrderInv'
BY RolesFacts, TaskFacts DEF OrderInv, DisconnectInv, ConnectInv, Goto, IsActive

(* A goroutine may move if it neither calls a callback nor starts a task. *)
LEMMA OrderMove ==
  ASSUME pc \in [Procs -> Labels], OrderInv, NEW p \in Procs, NEW l, Goto(p, l),
         UNCHANGED <<connecting, connState, onConnect, captured, connectDone, disconnects>>,
         IsActive' => IsActive,
         p \in Tasks => pc[p] \notin {"idle", "task", "inConnect"},
         l \notin ConnectLabels,
         l \notin {"onProcess", "onDisconnect", "hupInDisconnect", "lockConnecting"}
  PROVE  OrderInv'
BY RolesFacts, TaskFacts DEF OrderInv, DisconnectInv, ConnectInv, Goto, IsActive

(* Nothing happens when only the rest of the connection changes. *)
LEMMA OrderFrame ==
  ASSUME OrderInv, UNCHANGED <<pc, closing, connecting, connState, onConnect, captured,
                               connectDone, disconnects>>
  PROVE  OrderInv'
BY DEF OrderInv, DisconnectInv, ConnectInv, IsActive

(* Every action keeps the callbacks in order: whoever finds the connection
   closed and connected changes connState first, and calls OnDisconnect then. *)
LEMMA OrderStep ==
  ASSUME TypeOK, KeyInv, LifeInv, OrderInv
  PROVE  [Next]_vars => OrderInv'
<1> SUFFICES ASSUME pc \in [Procs -> Labels] PROVE [Next]_vars => OrderInv'
  BY DEF TypeOK
<1>0. disconnects \in Nat /\ captured \in [Tasks -> SUBSET {"connect", "request"}]
  BY DEF TypeOK, CountersOK, LocalsOK
<1>1. ASSUME AcceptorNext PROVE OrderInv'
  <2>1. CASE Prepare
    BY <2>1, OrderMove, RolesFacts, Zenon DEF Prepare, IsActive, ConnectLabels,
         keychain, handlers, locals, history
  <2>2. CASE Register
    BY <2>2, OrderMove, RolesFacts, Zenon DEF Register, IsActive, ConnectLabels,
         keychain, handlers, locals, history
  <2>3. CASE AcceptIsActive
    BY <2>3, OrderMove, RolesFacts, Zenon DEF AcceptIsActive, IsActive, ConnectLabels,
         keychain, handlers, locals, history
  <2>4. CASE AddCloseCallback
    BY <2>4, OrderMove, RolesFacts, Zenon DEF AddCloseCallback, IsActive, ConnectLabels,
         keychain, handlers, locals, history
  <2>5. CASE StoreConnection
    BY <2>5, OrderMove, RolesFacts, Zenon DEF StoreConnection, IsActive, ConnectLabels,
         keychain, handlers, locals, history
  <2>6. ASSUME OnConnect PROVE DisconnectInv'
    BY <2>6, RolesFacts, Zenon DEF OnConnect, Goto, OrderInv, DisconnectInv, IsActive,
         handlers, history
  <2>7. ASSUME OnConnect PROVE ConnectInv'
    BY <2>7, ProcsFacts, Zenon DEF OnConnect, Goto, OrderInv, ConnectInv, handlers,
         locals, history, ConnectLabels
  <2> QED BY <1>1, <2>1, <2>2, <2>3, <2>4, <2>5, <2>6, <2>7 DEF AcceptorNext, OrderInv
<1>2. ASSUME HupNext PROVE OrderInv'
  <2>1. CASE HupClose
    BY <2>1, OrderMove, RolesFacts, Zenon DEF HupClose, IsActive, ConnectLabels,
         keychain, handlers, locals, history
  <2>2. ASSUME OnHup PROVE ConnectInv'
    BY <2>2, ConnectMove, RolesFacts, Zenon DEF OnHup, ConnectLabels, handlers, locals,
         history, OrderInv
  <2>3. OnHup => DisconnectInv'
    BY DEF OnHup, Goto, OrderInv, DisconnectInv, IsActive, handlers, history
  <2>4. OnDisconnect => DisconnectInv'
    BY <1>0, RolesFacts DEF OnDisconnect, Goto, OrderInv, DisconnectInv, IsActive,
         LifeInv, CloseInv, keychain, handlers
  <2>5. ASSUME OnDisconnect PROVE ConnectInv'
    BY <2>5, ProcsFacts, Zenon DEF OnDisconnect, Goto, OrderInv, ConnectInv, keychain,
         handlers, locals, ConnectLabels
  <2>6. HupLockConnecting => DisconnectInv'
    BY <1>0 DEF HupLockConnecting, Goto, OrderInv, DisconnectInv, ConnectInv, handlers
  <2>7. ASSUME HupLockConnecting PROVE ConnectInv'
    BY <2>7, ProcsFacts, Zenon DEF HupLockConnecting, Goto, OrderInv, ConnectInv,
         handlers, locals, ConnectLabels
  <2>8. ASSUME HupDisconnectReturn PROVE DisconnectInv'
    BY <2>8, DisconnectMove, RolesFacts, Zenon DEF HupDisconnectReturn, IsActive,
         handlers, history, OrderInv
  <2>9. HupDisconnectReturn => ConnectInv'
    BY DEF HupDisconnectReturn, Goto, OrderInv, ConnectInv, DisconnectInv, handlers,
         locals, history, ConnectLabels
  <2> QED BY <1>2, <2>1, <2>2, <2>3, <2>4, <2>5, <2>6, <2>7, <2>8, <2>9 DEF HupNext,
         OrderInv
<1>3. ASSUME PollerNext PROVE OrderInv'
  <2>1. CASE PollWait
    BY <2>1, OrderMove, RolesFacts, Zenon DEF PollWait, IsActive, ConnectLabels,
         keychain, handlers, history
  <2>2. CASE PollDo
    BY <2>2, OrderMove, RolesFacts, Zenon DEF PollDo, IsActive, ConnectLabels, keychain,
         handlers, locals, history
  <2>3. CASE PollRead
    BY <2>3, OrderMove, RolesFacts, Zenon DEF PollRead, Return, IsActive, ConnectLabels,
         keychain, handlers, locals, history
  <2>4. CASE PollReadNothing
    BY <2>4, OrderMove, RolesFacts, Zenon DEF PollReadNothing, IsActive, ConnectLabels,
         keychain, handlers, locals, history
  <2>5. CASE AppendHup
    BY <2>5, OrderMove, RolesFacts, Zenon DEF AppendHup, IsActive, ConnectLabels,
         keychain, handlers, locals, history
  <2>6. CASE HupCtl
    BY <2>6, OrderMove, RolesFacts, Zenon DEF HupCtl, IsActive, ConnectLabels, keychain,
         handlers, locals, history
  <2>7. CASE PollDone
    BY <2>7, OrderMove, RolesFacts, Zenon DEF PollDone, IsActive, ConnectLabels,
         keychain, handlers, locals, history
  <2>8. ASSUME Onhups PROVE DisconnectInv'
    BY <2>8, RolesFacts, Zenon DEF Onhups, OrderInv, DisconnectInv, IsActive, keychain,
         handlers, history
  <2>9. ASSUME Onhups PROVE ConnectInv'
    BY <2>9, ProcsFacts, ConstantsAssumption, Zenon DEF Onhups, OrderInv, ConnectInv,
         keychain, handlers, locals, history
  <2> QED BY <1>3, <2>1, <2>2, <2>3, <2>4, <2>5, <2>6, <2>7, <2>8, <2>9 DEF PollerNext,
         OrderInv
<1>4. ASSUME NEW t \in Tasks, TaskNext(t) \/ CallbackClose(t) \/ Panic(t) PROVE OrderInv'
  <2>1. CASE ConnectReturn(t)
    BY <2>1, OrderTaskMove, Zenon DEF ConnectReturn, ConnectLabels, keychain, handlers,
         locals
  <2>2. CASE StartRequest(t)
    BY <2>2, OrderTaskMove, Zenon DEF StartRequest, ConnectLabels, keychain, handlers,
         locals, history
  <2>3. CASE RequestReturn(t)
    BY <2>3, OrderTaskMove, Zenon DEF RequestReturn, ConnectLabels, keychain, handlers,
         locals, history
  <2>4. CASE LoopStatus(t)
    BY <2>4, OrderTaskMove, Zenon DEF LoopStatus, ConnectLabels, keychain, handlers,
         history
  <2>5. CASE Loop(t)
    BY <2>5, OrderTaskMove, Zenon DEF Loop, ConnectLabels, keychain, handlers, history
  <2>6. CASE UnlockProcessing(t)
    BY <2>6, OrderTaskMove, Zenon DEF UnlockProcessing, ConnectLabels, handlers, locals,
         history
  <2>7. CASE RecheckClosing(t)
    BY <2>7, OrderTaskMove, Zenon DEF RecheckClosing, ConnectLabels, handlers, locals,
         history
  <2>8. CASE PanicUnlock(t)
    BY <2>8, OrderTaskMove, Zenon DEF PanicUnlock, ConnectLabels, handlers, locals,
         history
  <2>9. CASE PanicClose(t)
    BY <2>9, OrderTaskMove, Zenon DEF PanicClose, ConnectLabels, keychain, handlers,
         history
  <2>10. CASE Panic(t)
    BY <2>10, OrderTaskMove, Zenon DEF Panic, InCallback, ConnectLabels, keychain,
         handlers, locals, history
  <2>11. ASSUME TaskStart(t) PROVE DisconnectInv'
    BY <2>11, ProcsFacts, Zenon DEF TaskStart, Goto, OrderInv, DisconnectInv, IsActive,
         keychain, handlers, history
  <2>12. ASSUME TaskStart(t) PROVE ConnectInv'
    BY <2>12, ProcsFacts, Zenon DEF TaskStart, Goto, OrderInv, ConnectInv,
         ConnectLabels, keychain, handlers, locals, history
  <2>13. HelpDisconnect(t) => DisconnectInv'
    BY <1>0, ProcsFacts DEF HelpDisconnect, Goto, OrderInv, DisconnectInv, ConnectInv,
         ConnectLabels, handlers
  <2>14. ASSUME HelpDisconnect(t) PROVE ConnectInv'
    BY <2>14, Zenon DEF HelpDisconnect, OrderInv, ConnectInv, ConnectLabels, handlers
  <2>15. ASSUME HelpReturn(t) PROVE DisconnectInv'
    BY <2>15, DisconnectMove, TaskFacts, Zenon DEF HelpReturn, IsActive, keychain,
         handlers, history, OrderInv
  <2>16. ASSUME HelpReturn(t) PROVE ConnectInv'
    BY <2>16, Zenon DEF HelpReturn, OrderInv, ConnectInv, ConnectLabels, handlers,
         history
  <2>17. ASSUME UnlockConnecting(t) PROVE DisconnectInv'
    BY <2>17, DisconnectMove, TaskFacts, Zenon DEF UnlockConnecting, IsActive, handlers,
         history, OrderInv
  <2>18. ASSUME UnlockConnecting(t) PROVE ConnectInv'
    BY <2>18, Zenon DEF UnlockConnecting, OrderInv, ConnectInv, ConnectLabels, handlers,
         history
  <2>19. ASSUME RecheckLen(t) PROVE DisconnectInv'
    BY <2>19, DisconnectMove, TaskFacts, Zenon DEF RecheckLen, TaskExit, IsActive,
         keychain, handlers, history, OrderInv
  <2>20. ASSUME RecheckLen(t) PROVE ConnectInv'
    BY <2>20, <1>0, ProcsFacts, Zenon DEF RecheckLen, TaskExit, Goto, OrderInv,
         ConnectInv, ConnectLabels, keychain, handlers, history
  <2>21. ASSUME Relock(t) PROVE DisconnectInv'
    BY <2>21, DisconnectMove, TaskFacts, Zenon DEF Relock, TaskExit, IsActive, handlers,
         history, OrderInv
  <2>22. Relock(t) => ConnectInv'
    BY <1>0, ProcsFacts DEF Relock, TaskExit, Goto, OrderInv, ConnectInv, ConnectLabels,
         handlers, history
  <2>23. ASSUME CallbackClose(t) PROVE DisconnectInv'
    BY <2>23, Zenon DEF CallbackClose, OrderInv, DisconnectInv, IsActive, handlers,
         history
  <2>24. ASSUME CallbackClose(t) PROVE ConnectInv'
    BY <2>24, Zenon DEF CallbackClose, OrderInv, ConnectInv, handlers, locals, history
  <2> QED BY <1>4, <2>1, <2>2, <2>3, <2>4, <2>5, <2>6, <2>7, <2>8, <2>9, <2>10, <2>11,
         <2>12, <2>13, <2>14, <2>15, <2>16, <2>17, <2>18, <2>19, <2>20, <2>21, <2>22,
         <2>23, <2>24 DEF TaskNext, OrderInv
<1>5. ASSUME NEW p \in Procs, CallNext(p) PROVE OrderInv'
  <2>1. CASE CloseBy(p)
    BY <2>1, OrderMove, Zenon DEF CloseBy, IsActive, ConnectLabels, handlers, locals,
         history
  <2>2. CASE CloseLock(p)
    BY <2>2, OrderMove, Zenon DEF CloseLock, Return, IsActive, ConnectLabels, handlers,
         locals, history
  <2>3. CASE Detach(p)
    BY <2>3, OrderMove, Zenon DEF Detach, IsActive, ConnectLabels, keychain, handlers,
         locals, history
  <2>4. CASE DetachCtl(p)
    BY <2>4, OrderMove, Zenon DEF DetachCtl, IsActive, ConnectLabels, keychain,
         handlers, locals, history
  <2>5. CASE Callbacks(p)
    BY <2>5, OrderMove, Zenon DEF Callbacks, IsActive, ConnectLabels, keychain,
         handlers, locals
  <2>6. CASE Free(p)
    BY <2>6, OrderMove, Zenon DEF Free, IsActive, ConnectLabels, keychain, handlers,
         locals, history
  <2>7. CASE CloseFD(p)
    BY <2>7, OrderMove, Zenon DEF CloseFD, IsActive, ConnectLabels, keychain, handlers,
         locals, history
  <2>8. CASE CloseBuffer(p)
    BY <2>8, OrderMove, Zenon DEF CloseBuffer, IsActive, ConnectLabels, keychain,
         handlers, locals, history
  <2>9. ASSUME OnRequest(p) PROVE DisconnectInv'
    BY <2>9, DisconnectMove, Zenon DEF OnRequest, Return, IsActive, keychain, handlers,
         history, OrderInv
  <2>10. OnRequest(p) => ConnectInv'
    BY DEF OnRequest, Return, Goto, OrderInv, ConnectInv, CloseLabels, LifeInv,
         ClosingLabels, PlaceInv, BeforeConnect, AcceptorPlace, keychain, handlers,
         locals, history, ConnectLabels
  <2>11. ASSUME OnProcess(p) PROVE DisconnectInv'
    BY <2>11, RolesFacts, Zenon DEF OnProcess, Return, Goto, OrderInv, DisconnectInv,
         IsActive, handlers, history
  <2>12. OnProcess(p) => ConnectInv'
    BY <1>0, ProcsFacts DEF OnProcess, Goto, OrderInv, ConnectInv, ConnectLabels,
         handlers, history
  <2> QED BY <1>5, <2>1, <2>2, <2>3, <2>4, <2>5, <2>6, <2>7, <2>8, <2>9, <2>10, <2>11,
         <2>12 DEF CallNext, OrderInv
<1>6. ASSUME NEW u \in Users, UserNext(u) \/ CheckInput(u) PROVE OrderInv'
  <2>1. CASE UserClose(u)
    BY <2>1, OrderMove, UserFacts, Zenon DEF UserClose, IsActive, ConnectLabels,
         keychain, handlers, locals, history
  <2>2. CASE SetOnRequest(u)
    BY <2>2, OrderMove, UserFacts, Zenon DEF SetOnRequest, IsActive, ConnectLabels,
         keychain, locals, history
  <2>3. CASE CheckInput(u)
    BY <2>3, OrderMove, UserFacts, Zenon DEF CheckInput, IsActive, ConnectLabels,
         keychain, handlers, locals, history
  <2> QED BY <1>6, <2>1, <2>2, <2>3 DEF UserNext
<1>7. PeerSend => OrderInv'
  BY OrderFrame DEF PeerSend, keychain, handlers, locals, history
<1>8. PeerClose => OrderInv'
  BY OrderFrame DEF PeerClose, keychain, handlers, locals, history
<1>9. UNCHANGED vars => OrderInv'
  BY OrderFrame DEF vars, keychain, handlers, locals, history
<1> QED BY <1>1, <1>2, <1>3, <1>4, <1>5, <1>6, <1>7, <1>8, <1>9 DEF Next

(* The order of the callbacks is kept in every reachable state. *)
LEMMA OrderInvariant == Spec => [](TypeOK /\ KeyInv /\ LifeInv /\ OrderInv)
<1>1. TypeOK /\ KeyInv /\ LifeInv /\ OrderInv /\ [Next]_vars
      => (TypeOK /\ KeyInv /\ LifeInv /\ OrderInv)'
  BY TypeStep, KeyStep, LifeStep, OrderStep
<1> QED BY TypeInit, KeyInit, LifeInit, OrderInit, <1>1, PTL DEF Spec

(* Without panics, neither OnRequest nor OnDisconnect begins before OnConnect *)
(* has returned, and OnDisconnect runs at most once (onRequest's test of      *)
(* connState, onDisconnect and the help of the OnConnect task).               *)
THEOREM CallbacksInOrder == ~MayPanic => (Spec => []CallbackOrder)
<1> SUFFICES ASSUME ~MayPanic PROVE Spec => []CallbackOrder OBVIOUS
<1>1. ASSUME TypeOK, KeyInv, LifeInv, OrderInv PROVE CallbackOrder
  <2> USE <1>1 DEF OrderInv
  <2>1. disconnects <= 1 /\ (onConnect /\ ~connectDone => disconnects = 0)
    BY DEF DisconnectInv, TypeOK, CountersOK
  <2>2. ASSUME onConnect, ~connectDone, NEW t \in Tasks, pc[t] = "inRequest" PROVE FALSE
    <3>1. PICK u \in Tasks : pc[u] = "inConnect"
      BY <2>2 DEF ConnectInv
    <3>2. t = u
      BY <2>2, <3>1, ProcsFacts DEF KeyInv, Holds, HoldLabels, CloseLabels
    <3> QED BY <2>2, <3>1, <3>2
  <2> QED BY <2>1, <2>2 DEF CallbackOrder
<1> QED BY OrderInvariant, <1>1, PTL

(* OnDisconnect runs at most once, also when callbacks panic: the goroutine  *)
(* of the hangup and the OnConnect task never both call it (onDisconnect).   *)
THEOREM OneDisconnect == Spec => [](disconnects <= 1)
<1>1. OrderInv => disconnects <= 1
  BY DEF OrderInv, DisconnectInv
<1> QED BY OrderInvariant, <1>1, PTL

-----------------------------------------------------------------------------
(* Input is never left behind.                                             *)

(* SetOnRequest is for dialled connections: the task of an accepted one may *)
(* have been started without the callback that is stored later.             *)
HandlerFixed == ~Accepted \/ ~MaySetOnRequest

(* Where a goroutine will still look at the input. *)
LookLabels == TaskLabels \cup {"onRequest", "onProcess", "setOnRequest", "closeBy"}

(* The processing key has a holder whenever it is locked. *)
KeyHeld == processing = 1 => \E p \in Procs : Holds(p)

(* The task of OnConnect is started if the connection is not closed first. *)
StartInv ==
    /\ ~Accepted => ~onConnect
    /\ onConnect /\ pc[Acceptor] \in BeforeConnect =>
         connState = "none" /\ connecting = 0 /\ \A t \in Tasks : pc[t] = "idle"
    /\ onConnect /\ connState = "none" /\ IsActive =>
         \/ pc[Acceptor] \in BeforeConnect \cup {"onProcess", "closeBy"}
         \/ \E t \in Tasks : pc[t] = "task"

(* Every task was started with the OnRequest callback there is. *)
CaptureInv ==
    /\ onRequest => \A t \in Tasks : pc[t] \in TaskLabels => "request" \in captured[t]
    /\ ~onRequest /\ ~onConnect => \A t \in Tasks : pc[t] \notin TaskLabels
    /\ \A p \in Procs \ {Acceptor} : pc[p] \in {"onProcess", "setOnRequest"} => onRequest

(* Somebody will look at input that is there, or OnConnect has still to run *)
(* and its task will.                                                       *)
LookInv ==
    onRequest /\ inputLen > 0 /\ IsActive =>
      \/ \E p \in Procs : pc[p] \in LookLabels
      \/ onConnect /\ pc[Acceptor] \in BeforeConnect

(* Where a goroutine will still run the close callbacks, or has run them,  *)
(* unless it finds the connection open.                                    *)
ReleaseLabels == ClosingLabels \cup (TaskLabels \ {"recheckLen", "relock"})
    \cup {"onDisconnect", "lockConnecting", "hupInDisconnect", "hupClose"}

(* Somebody will release a closed connection that has handlers. *)
ReleaseInv ==
    ~MaySetOnRequest /\ ~IsActive /\ (onConnect \/ onRequest) =>
      \E p \in Procs : pc[p] \in ReleaseLabels

HookInv == KeyHeld /\ StartInv /\ CaptureInv /\ LookInv /\ ReleaseInv

(* A new connection has no input and nobody owns its key. *)
LEMMA HookInit == Init => HookInv
<1> SUFFICES ASSUME Init PROVE HookInv OBVIOUS
<1>1. /\ \A p \in Tasks : pc[p] = "idle"
      /\ \A p \in Procs : pc[p] \notin {"onProcess", "setOnRequest"}
      /\ pc[Acceptor] = "prepare"
  BY ConstantsAssumption, Zenon DEF Init, Procs
<1>2. ~Accepted => ~onConnect
  BY DEF Init
<1>3. KeyHeld /\ LookInv /\ ReleaseInv
  BY DEF Init, KeyHeld, LookInv, ReleaseInv, IsActive
<1>4. StartInv
  BY <1>1, <1>2 DEF Init, StartInv, BeforeConnect
<1>5. CaptureInv
  BY <1>1, ProcsFacts DEF Init, CaptureInv, TaskLabels, ConnectLabels
<1> QED BY <1>3, <1>4, <1>5 DEF HookInv

(* A goroutine may move if it keeps the processing key, or there is none to keep. *)
LEMMA KeyHeldMove ==
  ASSUME pc \in [Procs -> Labels], KeyHeld, NEW p \in Procs, NEW l, Goto(p, l),
         \/ processing' = 0
         \/ l \in HoldLabels /\ p \notin unguarded'
         \/ UNCHANGED <<processing, unguarded>> /\ (pc[p] \in HoldLabels => l \in HoldLabels)
  PROVE  KeyHeld'
BY DEF KeyHeld, Holds, Goto

(* The task of OnConnect is not concerned by a task that has started, nor  *)
(* by the goroutine of onAccept unless it gives up on an open connection.  *)
LEMMA StartMove ==
  ASSUME pc \in [Procs -> Labels], StartInv, NEW p \in Procs, NEW l, Goto(p, l),
         UNCHANGED <<onConnect, connState, connecting>>, IsActive' => IsActive,
         p \in Tasks => pc[p] \notin {"idle", "task"},
         p = Acceptor /\ l \in BeforeConnect => pc[p] \in BeforeConnect,
         p = Acceptor /\ pc[p] \in BeforeConnect \cup {"onProcess", "closeBy"} =>
           l \in BeforeConnect \cup {"onProcess", "closeBy"} \/ ~IsActive'
  PROVE  StartInv'
BY ProcsFacts, ConstantsAssumption DEF StartInv, Goto

(* A task that runs was started earlier. *)
LEMMA CaptureMove ==
  ASSUME pc \in [Procs -> Labels], CaptureInv, NEW p \in Procs, NEW l, Goto(p, l),
         UNCHANGED <<onConnect, onRequest, captured>>,
         l \in TaskLabels => pc[p] \in TaskLabels,
         l \in {"onProcess", "setOnRequest"} => onRequest \/ p = Acceptor
  PROVE  CaptureInv'
BY ProcsFacts DEF CaptureInv, Goto

(* A goroutine may move if it will still look at the input, or there is    *)
(* nothing to look at.                                                     *)
LEMMA LookMove ==
  ASSUME pc \in [Procs -> Labels], LookInv, NEW p \in Procs, NEW l, Goto(p, l),
         \/ l \in LookLabels \/ ~IsActive' \/ ~onRequest'
         \/ /\ UNCHANGED <<onConnect, onRequest, closing>> /\ (inputLen' > 0 => inputLen > 0)
            /\ pc[p] \notin LookLabels
            /\ p = Acceptor /\ pc[p] \in BeforeConnect => l \in BeforeConnect
  PROVE  LookInv'
BY ProcsFacts, Zenon DEF LookInv, Goto, IsActive

(* A goroutine may move if it will still release the connection, or the    *)
(* connection is open or left to others.                                   *)
LEMMA ReleaseMove ==
  ASSUME pc \in [Procs -> Labels], ReleaseInv, NEW p \in Procs, NEW l, Goto(p, l),
         UNCHANGED <<onConnect, onRequest>>,
         l \in ReleaseLabels \/ IsActive' \/ (~IsActive /\ pc[p] \notin ReleaseLabels)
  PROVE  ReleaseInv'
BY ProcsFacts DEF ReleaseInv, Goto

(* The goroutine of onAccept may go on to OnConnect, or close. *)
LEMMA HookAcceptMove ==
  ASSUME pc \in [Procs -> Labels], HookInv, NEW l, Goto(Acceptor, l),
         UNCHANGED <<closing, connecting, processing, connState, onConnect, onRequest,
                     inputLen, captured, unguarded>>,
         pc[Acceptor] \in BeforeConnect,
         l \in BeforeConnect \/ l = "closeBy" \/ (l = "exit" /\ ~IsActive)
  PROVE  HookInv'
<1>1. KeyHeld'
  BY Zenon DEF KeyHeld, Holds, HookInv, Goto, BeforeConnect, HoldLabels
<1>2. StartInv'
  BY ProcsFacts, Zenon DEF StartInv, HookInv, Goto, BeforeConnect, IsActive
<1>3. CaptureInv'
  BY ProcsFacts, Zenon DEF CaptureInv, HookInv, Goto, BeforeConnect, ConnectLabels,
       TaskLabels
<1>4. LookInv'
  BY Zenon DEF LookInv, HookInv, Goto, BeforeConnect, ConnectLabels, TaskLabels,
       LookLabels, IsActive
<1>5. ReleaseInv'
  BY Zenon DEF ReleaseInv, HookInv, Goto, BeforeConnect, ConnectLabels, TaskLabels,
       CloseLabels, ClosingLabels, ReleaseLabels, IsActive
<1> QED BY <1>1, <1>2, <1>3, <1>4, <1>5 DEF HookInv

(* The poller may do anything but onRequest, if it reads no input. *)
LEMMA HookPollMove ==
  ASSUME pc \in [Procs -> Labels], HookInv, NEW l, Goto(Poller, l),
         UNCHANGED <<closing, connecting, processing, connState, onConnect, onRequest,
                     inputLen, captured, unguarded>>,
         pc[Poller] \in PollerPlace, pc[Poller] \notin {"onRequest", "onProcess"},
         l \in PollerPlace, l \notin {"onRequest", "onProcess"}
  PROVE  HookInv'
<1>1. KeyHeld'
  BY Zenon DEF KeyHeld, Holds, HookInv, Goto, OnOperator, PollerPlace, HoldLabels
<1>2. StartInv'
  BY ProcsFacts, Zenon DEF StartInv, HookInv, Goto, OnOperator, BeforeConnect,
       PollerPlace, IsActive
<1>3. CaptureInv'
  BY ProcsFacts, Zenon DEF CaptureInv, HookInv, Goto, OnOperator, ConnectLabels,
       TaskLabels, PollerPlace
<1>4. LookInv'
  BY RolesFacts, Zenon DEF LookInv, HookInv, Goto, OnOperator, ConnectLabels,
       TaskLabels, PollerPlace, LookLabels, IsActive
<1>5. ReleaseInv'
  BY Zenon DEF ReleaseInv, HookInv, Goto, OnOperator, ConnectLabels, TaskLabels,
       CloseLabels, ClosingLabels, PollerPlace, ReleaseLabels, IsActive
<1> QED BY <1>1, <1>2, <1>3, <1>4, <1>5 DEF HookInv

(* A task with the key may go on, or unlock. *)
LEMMA HookTaskMove ==
  ASSUME pc \in [Procs -> Labels], HookInv, NEW t \in Tasks, NEW l, Goto(t, l),
         UNCHANGED <<closing, onConnect, onRequest, captured, unguarded>>,
         pc[t] \in TaskLabels, l \in TaskLabels, l \notin {"recheckLen", "relock"},
         processing' = 0 \/ (processing' = processing /\ pc[t] \in HoldLabels /\ l \in HoldLabels)
  PROVE  /\ KeyHeld' /\ CaptureInv' /\ LookInv' /\ ReleaseInv'
         /\ pc[t] # "task" /\ UNCHANGED <<connState, connecting>> => StartInv'
<1>1. KeyHeld'
  BY DEF KeyHeld, Holds, HookInv, Goto
<1>2. pc[t] # "task" /\ UNCHANGED <<connState, connecting>> => StartInv'
  BY ProcsFacts, Zenon DEF StartInv, HookInv, Goto, BeforeConnect, ConnectLabels,
       TaskLabels, IsActive
<1>3. CaptureInv'
  BY ProcsFacts, Zenon DEF CaptureInv, HookInv, Goto, ConnectLabels, TaskLabels
<1>4. LookInv'
  BY TaskFacts, Zenon DEF LookInv, Goto, LookLabels
<1>5. ReleaseInv'
  BY Zenon DEF ReleaseInv, HookInv, Goto, ReleaseLabels, IsActive
<1> QED BY <1>1, <1>2, <1>3, <1>4, <1>5 DEF HookInv

(* Whoever runs the close callbacks may go on. *)
LEMMA HookCloseMove ==
  ASSUME pc \in [Procs -> Labels], HookInv, NEW p \in Procs, NEW l, Goto(p, l),
         UNCHANGED <<processing, connecting, connState, onConnect, onRequest, captured, unguarded>>,
         ~IsActive', IsActive => pc[p] # "task", pc[p] \notin {"idle", "task"}, l \in ClosingLabels,
         pc[p] \in HoldLabels => l \in HoldLabels
  PROVE  HookInv'
<1>1. KeyHeld'
  BY Zenon DEF KeyHeld, Holds, HookInv, Goto
<1>2. StartInv'
  BY ProcsFacts, Zenon DEF StartInv, HookInv, Goto, BeforeConnect, CloseLabels,
       ClosingLabels
<1>3. CaptureInv'
  BY ProcsFacts, Zenon DEF CaptureInv, HookInv, Goto, ConnectLabels, TaskLabels,
       CloseLabels, ClosingLabels
<1>4. LookInv'
  BY Zenon DEF LookInv
<1>5. ReleaseInv'
  BY Zenon DEF ReleaseInv, Goto, ReleaseLabels
<1> QED BY <1>1, <1>2, <1>3, <1>4, <1>5 DEF HookInv

(* Nothing happens when only the rest of the connection changes. *)
LEMMA HookFrame ==
  ASSUME HookInv, UNCHANGED <<pc, closing, connecting, processing, connState, onConnect,
                              onRequest, inputLen, captured, unguarded>>
  PROVE  HookInv'
BY Zenon DEF HookInv, KeyHeld, Holds, StartInv, CaptureInv, LookInv, ReleaseInv, IsActive

(* Every action keeps this: a goroutine that gives up on the input does so
   because another one owns the processing key, or OnConnect has still to run. *)
LEMMA HookStep ==
  ASSUME HandlerFixed, TypeOK, KeyInv, LifeInv, OrderInv, HookInv
  PROVE  [Next]_vars => HookInv'
<1> SUFFICES ASSUME pc \in [Procs -> Labels] PROVE [Next]_vars => HookInv'
  BY DEF TypeOK
<1>0. /\ inputLen \in Nat /\ processing \in {0, 1}
      /\ captured \in [Tasks -> SUBSET {"connect", "request"}]
  BY DEF TypeOK, CountersOK, LocalsOK
<1>1. ASSUME AcceptorNext PROVE HookInv'
  <2>1. CASE Prepare
    BY <2>1, HookAcceptMove, Zenon DEF Prepare, BeforeConnect, keychain, handlers,
         locals
  <2>2. CASE AcceptIsActive
    BY <2>2, HookAcceptMove, Zenon DEF AcceptIsActive, BeforeConnect, keychain,
         handlers, locals
  <2>3. CASE AddCloseCallback
    BY <2>3, HookAcceptMove, Zenon DEF AddCloseCallback, BeforeConnect, keychain,
         handlers, locals
  <2>4. CASE StoreConnection
    BY <2>4, HookAcceptMove, Zenon DEF StoreConnection, BeforeConnect, keychain,
         handlers, locals
  <2>5. ASSUME Register PROVE KeyHeld' /\ CaptureInv' /\ ReleaseInv'
    BY <2>5, KeyHeldMove, CaptureMove, ReleaseMove, RolesFacts, Zenon DEF Register,
         IsActive, HoldLabels, ConnectLabels, TaskLabels, CloseLabels, ClosingLabels,
         ReleaseLabels, keychain, handlers, locals, HookInv
  <2>6. ASSUME Register PROVE StartInv'
    BY <2>6, ProcsFacts, Zenon DEF Register, Goto, HookInv, StartInv, BeforeConnect,
         keychain, handlers
  <2>7. Register => LookInv'
    BY DEF Register, Goto, HookInv, LookInv, BeforeConnect, ConnectLabels, TaskLabels,
         LookLabels, IsActive, StartInv, keychain, handlers
  <2>8. ASSUME OnConnect PROVE KeyHeld' /\ CaptureInv' /\ ReleaseInv'
    BY <2>8, KeyHeldMove, CaptureMove, ReleaseMove, RolesFacts, Zenon DEF OnConnect,
         IsActive, HoldLabels, ConnectLabels, TaskLabels, CloseLabels, ClosingLabels,
         ReleaseLabels, handlers, locals, HookInv
  <2>9. ASSUME OnConnect PROVE StartInv'
    BY <2>9, RolesFacts, Zenon DEF OnConnect, Goto, HookInv, StartInv, BeforeConnect,
         handlers
  <2>10. ASSUME OnConnect PROVE LookInv'
    BY <2>10, Zenon DEF OnConnect, Goto, HookInv, LookInv, ConnectLabels, TaskLabels,
         LookLabels, IsActive, StartInv, handlers
  <2> QED BY <1>1, <2>1, <2>2, <2>3, <2>4, <2>5, <2>6, <2>7, <2>8, <2>9, <2>10 DEF
         AcceptorNext, HookInv
<1>2. ASSUME HupNext PROVE HookInv'
  <2>1. CASE OnHup
    BY <2>1, KeyHeldMove, StartMove, CaptureMove, LookMove, ReleaseMove, RolesFacts,
         Zenon DEF OnHup, IsActive, HoldLabels, ConnectLabels, TaskLabels, CloseLabels,
         ClosingLabels, ReleaseLabels, handlers, locals, HookInv
  <2>2. ASSUME OnDisconnect PROVE KeyHeld' /\ CaptureInv' /\ LookInv' /\ ReleaseInv'
    BY <2>2, KeyHeldMove, CaptureMove, LookMove, ReleaseMove, RolesFacts, Zenon DEF
         OnDisconnect, HoldLabels, ConnectLabels, TaskLabels, LookLabels, ReleaseLabels,
         keychain, handlers, locals, HookInv
  <2>3. ASSUME OnDisconnect PROVE StartInv'
    BY <2>3, ProcsFacts, Zenon DEF OnDisconnect, Goto, HookInv, StartInv, IsActive,
         keychain, handlers, BeforeConnect
  <2>4. ASSUME HupLockConnecting PROVE KeyHeld' /\ CaptureInv' /\ LookInv' /\
       ReleaseInv'
    BY <2>4, KeyHeldMove, CaptureMove, LookMove, ReleaseMove, RolesFacts, Zenon DEF
         HupLockConnecting, HoldLabels, ConnectLabels, TaskLabels, LookLabels,
         ReleaseLabels, handlers, locals, HookInv
  <2>5. ASSUME HupLockConnecting PROVE StartInv'
    BY <2>5, ProcsFacts, Zenon DEF HupLockConnecting, Goto, HookInv, StartInv, IsActive,
         handlers, BeforeConnect
  <2>6. ASSUME HupDisconnectReturn PROVE KeyHeld' /\ CaptureInv' /\ LookInv' /\
       ReleaseInv'
    BY <2>6, KeyHeldMove, CaptureMove, LookMove, ReleaseMove, RolesFacts, Zenon DEF
         HupDisconnectReturn, HoldLabels, ConnectLabels, TaskLabels, LookLabels,
         ReleaseLabels, handlers, locals, HookInv
  <2>7. HupDisconnectReturn => StartInv'
    BY DEF HupDisconnectReturn, Goto, HookInv, StartInv, IsActive, handlers,
         BeforeConnect
  <2>8. ASSUME HupClose PROVE KeyHeld' /\ StartInv' /\ CaptureInv' /\ LookInv'
    BY <2>8, KeyHeldMove, StartMove, CaptureMove, LookMove, RolesFacts, Zenon DEF
         HupClose, IsActive, HoldLabels, ConnectLabels, TaskLabels, LookLabels,
         keychain, handlers, locals, HookInv
  <2>9. HupClose => ReleaseInv'
    BY DEF HupClose, Goto, HookInv, ReleaseInv, ClosingLabels, ReleaseLabels, handlers,
         IsActive, keychain
  <2> QED BY <1>2, <2>1, <2>2, <2>3, <2>4, <2>5, <2>6, <2>7, <2>8, <2>9 DEF HupNext,
         HookInv
<1>3. ASSUME PollerNext PROVE HookInv'
  <2>1. CASE PollWait
    BY <2>1, HookPollMove, Zenon DEF PollWait, PollerPlace, keychain, handlers
  <2>2. CASE PollDo
    BY <2>2, HookPollMove, Zenon DEF PollDo, OnOperator, PollerPlace, keychain,
         handlers, locals
  <2>3. CASE PollReadNothing
    BY <2>3, HookPollMove, Zenon DEF PollReadNothing, OnOperator, PollerPlace, keychain,
         handlers, locals
  <2>4. CASE AppendHup
    BY <2>4, HookPollMove, Zenon DEF AppendHup, OnOperator, PollerPlace, keychain,
         handlers, locals
  <2>5. CASE HupCtl
    BY <2>5, HookPollMove, Zenon DEF HupCtl, OnOperator, PollerPlace, keychain,
         handlers, locals
  <2>6. CASE PollDone
    BY <2>6, HookPollMove, Zenon DEF PollDone, OnOperator, PollerPlace, keychain,
         handlers, locals
  <2>7. ASSUME PollRead PROVE KeyHeld' /\ StartInv' /\ CaptureInv' /\ ReleaseInv'
    BY <2>7, KeyHeldMove, StartMove, CaptureMove, ReleaseMove, RolesFacts, Zenon DEF
         PollRead, Return, IsActive, HoldLabels, ConnectLabels, TaskLabels, CloseLabels,
         ClosingLabels, ReleaseLabels, keychain, handlers, locals, HookInv
  <2>8. PollRead => LookInv'
    BY <1>0, RolesFacts DEF PollRead, Goto, HookInv, LookInv, ConnectLabels, TaskLabels,
         LookLabels, IsActive, keychain, handlers
  <2>9. ASSUME Onhups PROVE KeyHeld'
    BY <2>9, Zenon DEF Onhups, HookInv, KeyHeld, HoldLabels, Holds, keychain, locals
  <2>10. ASSUME Onhups PROVE StartInv'
    BY <2>10, ProcsFacts, ConstantsAssumption, Zenon DEF Onhups, HookInv, StartInv,
         IsActive, keychain, handlers
  <2>11. Onhups => CaptureInv'
    BY ProcsFacts DEF Onhups, HookInv, CaptureInv, handlers, locals, ConnectLabels,
         TaskLabels
  <2>12. ASSUME Onhups PROVE LookInv'
    BY <2>12, RolesFacts, Zenon DEF Onhups, HookInv, LookInv, ConnectLabels, TaskLabels,
         LookLabels, IsActive, keychain, handlers
  <2>13. ASSUME Onhups PROVE ReleaseInv'
    <3>1. "onhups" \notin ReleaseLabels /\ "idle" \notin ReleaseLabels
      BY Zenon DEF ReleaseLabels, ClosingLabels, CloseLabels, TaskLabels, ConnectLabels
    <3>2. \A p \in Procs : pc[p] \in ReleaseLabels => pc'[p] = pc[p]
      BY <2>13, <3>1, Zenon DEF Onhups
    <3>3. UNCHANGED <<closing, onConnect, onRequest>>
      BY <2>13, Zenon DEF Onhups, keychain, handlers
    <3> QED BY <3>2, <3>3, Zenon DEF HookInv, ReleaseInv, IsActive
  <2> QED BY <1>3, <2>1, <2>2, <2>3, <2>4, <2>5, <2>6, <2>7, <2>8, <2>9, <2>10, <2>11,
         <2>12, <2>13 DEF PollerNext, HookInv
<1>4. ASSUME NEW t \in Tasks, TaskNext(t) \/ CallbackClose(t) \/ Panic(t) PROVE HookInv'
  <2>1. CASE ConnectReturn(t)
    BY <2>1, HookTaskMove, Zenon DEF ConnectReturn, HoldLabels, ConnectLabels,
         TaskLabels, keychain, handlers, locals, HookInv
  <2>2. CASE HelpReturn(t)
    BY <2>2, HookTaskMove, Zenon DEF HelpReturn, HoldLabels, ConnectLabels, TaskLabels,
         keychain, handlers, locals, HookInv
  <2>3. CASE StartRequest(t)
    BY <2>3, HookTaskMove, Zenon DEF StartRequest, HoldLabels, TaskLabels, keychain,
         handlers, locals, HookInv
  <2>4. CASE RequestReturn(t)
    BY <2>4, HookTaskMove, Zenon DEF RequestReturn, HoldLabels, TaskLabels, keychain,
         handlers, locals, HookInv
  <2>5. CASE LoopStatus(t)
    BY <2>5, HookTaskMove, Zenon DEF LoopStatus, HoldLabels, TaskLabels, keychain,
         handlers, HookInv
  <2>6. CASE UnlockProcessing(t)
    BY <2>6, HookTaskMove, Zenon DEF UnlockProcessing, TaskLabels, handlers, locals,
         HookInv
  <2>7. CASE PanicUnlock(t)
    BY <2>7, HookTaskMove, Zenon DEF PanicUnlock, TaskLabels, handlers, locals, HookInv
  <2>8. CASE Panic(t)
    BY <2>8, HookTaskMove, Zenon DEF Panic, InCallback, HoldLabels, ConnectLabels,
         TaskLabels, keychain, handlers, locals, HookInv
  <2>9. ASSUME TaskStart(t) PROVE KeyHeld' /\ CaptureInv' /\ LookInv' /\ ReleaseInv'
    BY <2>9, HookTaskMove, Zenon DEF TaskStart, HoldLabels, ConnectLabels, TaskLabels,
         keychain, handlers, locals
  <2>10. ASSUME TaskStart(t) PROVE StartInv'
    BY <2>10, ProcsFacts, Zenon DEF TaskStart, Goto, HookInv, StartInv, OrderInv,
         ConnectInv, handlers, BeforeConnect
  <2>11. ASSUME HelpDisconnect(t) PROVE KeyHeld' /\ CaptureInv' /\ LookInv' /\
       ReleaseInv'
    BY <2>11, HookTaskMove, Zenon DEF HelpDisconnect, HoldLabels, ConnectLabels,
         TaskLabels, keychain, handlers, locals
  <2>12. ASSUME HelpDisconnect(t) PROVE StartInv'
    BY <2>12, ProcsFacts, Zenon DEF HelpDisconnect, Goto, HookInv, StartInv, IsActive,
         keychain, handlers, BeforeConnect
  <2>13. ASSUME UnlockConnecting(t) PROVE KeyHeld' /\ CaptureInv' /\ LookInv' /\
       ReleaseInv'
    BY <2>13, HookTaskMove, Zenon DEF UnlockConnecting, HoldLabels, ConnectLabels,
         TaskLabels, handlers, locals
  <2>14. UnlockConnecting(t) => StartInv'
    BY DEF UnlockConnecting, Goto, HookInv, StartInv, IsActive, handlers, BeforeConnect
  <2>15. ASSUME Loop(t) PROVE KeyHeld' /\ StartInv' /\ CaptureInv' /\ ReleaseInv'
    BY <2>15, KeyHeldMove, StartMove, CaptureMove, ReleaseMove, TaskFacts, Zenon DEF
         Loop, IsActive, HoldLabels, TaskLabels, CloseLabels, ClosingLabels,
         ReleaseLabels, keychain, handlers, HookInv
  <2>16. ASSUME Loop(t) PROVE LookInv'
    BY <2>16, Zenon DEF Loop, Goto, HookInv, LookInv, TaskLabels, LookLabels, IsActive,
         LifeInv, CloseInv, keychain, handlers
  <2>17. ASSUME RecheckClosing(t) PROVE StartInv' /\ CaptureInv' /\ LookInv'
    BY <2>17, StartMove, CaptureMove, LookMove, TaskFacts, Zenon DEF RecheckClosing,
         IsActive, TaskLabels, LookLabels, handlers, locals, HookInv
  <2>18. ASSUME RecheckClosing(t) PROVE KeyHeld'
    BY <2>18, TaskFacts, Zenon DEF RecheckClosing, Goto, HookInv, KeyHeld, HoldLabels,
         Holds, CloseLabels, KeyInv, locals
  <2>19. RecheckClosing(t) => ReleaseInv'
    BY <1>0 DEF RecheckClosing, Goto, HookInv, ReleaseInv, ConnectLabels, ClosingLabels,
         TaskLabels, CloseLabels, IsActive, ReleaseLabels, KeyHeld, HoldLabels, Holds,
         handlers
  <2>20. ASSUME RecheckLen(t) PROVE KeyHeld' /\ StartInv' /\ ReleaseInv'
    BY <2>20, KeyHeldMove, StartMove, ReleaseMove, TaskFacts, Zenon DEF RecheckLen,
         TaskExit, IsActive, HoldLabels, CloseLabels, ClosingLabels, ReleaseLabels,
         keychain, handlers, HookInv
  <2>21. RecheckLen(t) => CaptureInv'
    BY <1>0, TaskFacts DEF RecheckLen, TaskExit, Goto, HookInv, CaptureInv,
         ConnectLabels, TaskLabels, handlers
  <2>22. ASSUME RecheckLen(t) PROVE LookInv'
    BY <2>22, Zenon DEF RecheckLen, Goto, HookInv, LookInv, TaskLabels, LookLabels,
         CaptureInv, handlers, IsActive, keychain
  <2>23. ASSUME Relock(t) PROVE StartInv' /\ ReleaseInv'
    BY <2>23, StartMove, ReleaseMove, TaskFacts, Zenon DEF Relock, TaskExit, IsActive,
         CloseLabels, ClosingLabels, ReleaseLabels, handlers, HookInv
  <2>24. ASSUME Relock(t) PROVE KeyHeld'
    BY <2>24, <1>0, TaskFacts, Zenon DEF Relock, TaskExit, Goto, HookInv, KeyHeld,
         HoldLabels, Holds, CloseLabels, KeyInv
  <2>25. ASSUME Relock(t) PROVE CaptureInv'
    BY <2>25, <1>0, TaskFacts, Zenon DEF Relock, TaskExit, Goto, HookInv, CaptureInv,
         ConnectLabels, TaskLabels, handlers
  <2>26. Relock(t) => LookInv'
    BY <1>0 DEF Relock, TaskExit, Goto, HookInv, LookInv, ConnectLabels, TaskLabels,
         LookLabels, IsActive, KeyHeld, HoldLabels, Holds, ClosingLabels, CloseLabels,
         LifeInv, CloseInv, handlers
  <2>27. ASSUME PanicClose(t) PROVE StartInv' /\ CaptureInv' /\ LookInv' /\ ReleaseInv'
    BY <2>27, StartMove, CaptureMove, LookMove, ReleaseMove, TaskFacts, Zenon DEF
         PanicClose, IsActive, TaskLabels, LookLabels, CloseLabels, ClosingLabels,
         ReleaseLabels, keychain, handlers, HookInv
  <2>28. ASSUME PanicClose(t) PROVE KeyHeld'
    BY <2>28, Zenon DEF PanicClose, Goto, HookInv, KeyHeld, HoldLabels, Holds, keychain
  <2>29. ASSUME CallbackClose(t) PROVE KeyHeld'
    BY <2>29, Zenon DEF CallbackClose, HookInv, KeyHeld, Holds, locals
  <2>30. ASSUME CallbackClose(t) PROVE StartInv'
    BY <2>30, Zenon DEF CallbackClose, HookInv, StartInv, IsActive, handlers
  <2>31. ASSUME CallbackClose(t) PROVE CaptureInv'
    BY <2>31, Zenon DEF CallbackClose, HookInv, CaptureInv, handlers, locals
  <2>32. ASSUME CallbackClose(t) PROVE LookInv'
    BY <2>32, Zenon DEF CallbackClose, LookInv, IsActive
  <2>33. ASSUME CallbackClose(t) PROVE ReleaseInv'
    BY <2>33, TaskFacts, Zenon DEF CallbackClose, InCallback, ReleaseInv, ConnectLabels,
         TaskLabels, ReleaseLabels
  <2> QED BY <1>4, <2>1, <2>2, <2>3, <2>4, <2>5, <2>6, <2>7, <2>8, <2>9, <2>10, <2>11,
         <2>12, <2>13, <2>14, <2>15, <2>16, <2>17, <2>18, <2>19, <2>20, <2>21, <2>22,
         <2>23, <2>24, <2>25, <2>26, <2>27, <2>28, <2>29, <2>30, <2>31, <2>32, <2>33 DEF
         TaskNext, HookInv
<1>5. ASSUME NEW p \in Procs, CallNext(p) PROVE HookInv'
  <2>1. CASE CloseBy(p)
    BY <2>1, HookCloseMove, Zenon DEF CloseBy, IsActive, HoldLabels, ClosingLabels,
         handlers, locals
  <2>2. CASE Detach(p)
    BY <2>2, HookCloseMove, Zenon DEF Detach, LifeInv, CloseInv, IsActive, HoldLabels,
         CloseLabels, ClosingLabels, keychain, handlers, locals
  <2>3. CASE DetachCtl(p)
    BY <2>3, HookCloseMove, Zenon DEF DetachCtl, LifeInv, CloseInv, IsActive,
         HoldLabels, CloseLabels, ClosingLabels, keychain, handlers, locals
  <2>4. CASE Callbacks(p)
    BY <2>4, HookCloseMove, Zenon DEF Callbacks, LifeInv, CloseInv, IsActive,
         HoldLabels, CloseLabels, ClosingLabels, keychain, handlers, locals
  <2>5. CASE Free(p)
    BY <2>5, HookCloseMove, Zenon DEF Free, LifeInv, CloseInv, IsActive, HoldLabels,
         CloseLabels, ClosingLabels, keychain, handlers, locals
  <2>6. CASE CloseFD(p)
    BY <2>6, HookCloseMove, Zenon DEF CloseFD, LifeInv, CloseInv, IsActive, HoldLabels,
         CloseLabels, ClosingLabels, keychain, handlers, locals
  <2>7. CASE CloseBuffer(p)
    BY <2>7, HookCloseMove, Zenon DEF CloseBuffer, LifeInv, CloseInv, IsActive,
         HoldLabels, CloseLabels, ClosingLabels, keychain, handlers, locals
  <2>8. ASSUME OnRequest(p) PROVE KeyHeld' /\ StartInv' /\ CaptureInv' /\ ReleaseInv'
    BY <2>8, KeyHeldMove, StartMove, CaptureMove, ReleaseMove, Zenon DEF OnRequest,
         Return, IsActive, HoldLabels, BeforeConnect, ConnectLabels, TaskLabels,
         CloseLabels, ClosingLabels, ReleaseLabels, keychain, handlers, locals, HookInv
  <2>9. OnRequest(p) => LookInv'
    BY ProcsFacts DEF OnRequest, Goto, HookInv, LookInv, BeforeConnect, TaskLabels,
         LookLabels, IsActive, StartInv, keychain, handlers
  <2>10. ASSUME OnProcess(p) PROVE KeyHeld'
    <3>1. CASE processing = 1
      BY <2>10, <3>1, Zenon DEF OnProcess, Goto, HookInv, KeyHeld, Holds, HoldLabels
    <3>2. CASE processing # 1
      <4>1. PICK t \in Tasks : pc[t] = "idle" /\ pc' = [pc EXCEPT ![p] = Return(p), ![t] = "task"]
        BY <2>10, <3>2, Zenon DEF OnProcess
      <4>2. t \notin unguarded /\ unguarded' = unguarded
        BY <2>10, <4>1, Zenon DEF OnProcess, KeyInv, CloseLabels
      <4> QED BY <4>1, <4>2, ProcsFacts, Zenon DEF KeyHeld, Holds, HoldLabels
    <3> QED BY <3>1, <3>2
  <2>11. OnProcess(p) => StartInv'
    BY DEF OnProcess, Return, Goto, HookInv, StartInv, IsActive, BeforeConnect, KeyHeld,
         Procs, HoldLabels, Holds, LifeInv, OnOperator, PlaceInv, CloseInv, UserPlace,
         PollerPlace, OrderInv, ConnectInv, handlers
  <2>12. OnProcess(p) => CaptureInv'
    BY <1>0, ProcsFacts DEF OnProcess, Goto, HookInv, CaptureInv, OrderInv, ConnectInv,
         handlers, ConnectLabels, TaskLabels
  <2>13. OnProcess(p) => LookInv'
    BY ProcsFacts DEF OnProcess, Goto, HookInv, LookInv, ConnectLabels, TaskLabels,
         LookLabels, IsActive, KeyHeld, HoldLabels, Holds, ClosingLabels, CloseLabels,
         LifeInv, CloseInv
  <2>14. OnProcess(p) => ReleaseInv'
    BY DEF OnProcess, Goto, HookInv, ReleaseInv, ConnectLabels, ClosingLabels,
         TaskLabels, CloseLabels, IsActive, ReleaseLabels, handlers
  <2>15. ASSUME CloseLock(p) PROVE StartInv' /\ CaptureInv' /\ LookInv'
    BY <2>15, StartMove, CaptureMove, LookMove, Zenon DEF CloseLock, Return, IsActive,
         BeforeConnect, ConnectLabels, TaskLabels, LookLabels, handlers, locals, HookInv
  <2>16. ASSUME CloseLock(p) PROVE KeyHeld'
    BY <2>16, Zenon DEF CloseLock, Goto, HookInv, KeyHeld, HoldLabels, Holds,
         CloseLabels, KeyInv, locals
  <2>17. CloseLock(p) => ReleaseInv'
    BY DEF CloseLock, Goto, HookInv, ReleaseInv, ConnectLabels, ClosingLabels,
         TaskLabels, CloseLabels, ReleaseLabels, KeyHeld, HoldLabels, Holds
  <2> QED BY <1>5, <2>1, <2>2, <2>3, <2>4, <2>5, <2>6, <2>7, <2>8, <2>9, <2>10, <2>11,
         <2>12, <2>13, <2>14, <2>15, <2>16, <2>17 DEF CallNext, HookInv
<1>6. ASSUME NEW u \in Users, UserNext(u) \/ CheckInput(u) PROVE HookInv'
  <2>1. CASE UserClose(u)
    BY <2>1, KeyHeldMove, StartMove, CaptureMove, LookMove, ReleaseMove, UserFacts,
         Zenon DEF UserClose, IsActive, HoldLabels, ConnectLabels, TaskLabels,
         LookLabels, CloseLabels, ClosingLabels, ReleaseLabels, keychain, handlers,
         locals, HookInv
  <2>2. ASSUME SetOnRequest(u) PROVE KeyHeld' /\ StartInv'
    BY <2>2, KeyHeldMove, StartMove, UserFacts, Zenon DEF SetOnRequest, IsActive,
         HoldLabels, keychain, locals, HookInv
  <2>3. SetOnRequest(u) => CaptureInv'
    BY DEF SetOnRequest, Goto, HookInv, CaptureInv, StartInv, HandlerFixed,
         ConnectLabels, TaskLabels
  <2>4. ASSUME SetOnRequest(u) PROVE LookInv'
    BY <2>4, UserFacts, Zenon DEF SetOnRequest, Goto, LookInv, LookLabels
  <2>5. ASSUME SetOnRequest(u) PROVE ReleaseInv'
    BY <2>5, Zenon DEF SetOnRequest, ReleaseInv
  <2>6. ASSUME CheckInput(u) PROVE KeyHeld' /\ StartInv' /\ CaptureInv' /\ ReleaseInv'
    BY <2>6, KeyHeldMove, StartMove, CaptureMove, ReleaseMove, UserFacts, Zenon DEF
         CheckInput, IsActive, HoldLabels, ConnectLabels, TaskLabels, CloseLabels,
         ClosingLabels, ReleaseLabels, keychain, handlers, locals, HookInv
  <2>7. ASSUME CheckInput(u) PROVE LookInv'
    BY <2>7, Zenon DEF CheckInput, Goto, HookInv, LookInv, LookLabels, IsActive,
         keychain, handlers
  <2> QED BY <1>6, <2>1, <2>2, <2>3, <2>4, <2>5, <2>6, <2>7 DEF UserNext, HookInv
<1>7. PeerSend => HookInv'
  BY HookFrame DEF PeerSend, keychain, handlers, locals
<1>8. PeerClose => HookInv'
  BY HookFrame DEF PeerClose, keychain, handlers, locals
<1>9. UNCHANGED vars => HookInv'
  BY HookFrame DEF vars, keychain, handlers, locals
<1> QED BY <1>1, <1>2, <1>3, <1>4, <1>5, <1>6, <1>7, <1>8, <1>9 DEF Next

(* With its handlers fixed, a connection keeps all of this. *)
LEMMA HookInvariant ==
  HandlerFixed => (Spec => [](TypeOK /\ KeyInv /\ LifeInv /\ OrderInv /\ HookInv))
<1> SUFFICES ASSUME HandlerFixed
             PROVE  Spec => [](TypeOK /\ KeyInv /\ LifeInv /\ OrderInv /\ HookInv)
  OBVIOUS
<1>1. TypeOK /\ KeyInv /\ LifeInv /\ OrderInv /\ HookInv /\ [Next]_vars
      => (TypeOK /\ KeyInv /\ LifeInv /\ OrderInv /\ HookInv)'
  BY TypeStep, KeyStep, LifeStep, OrderStep, HookStep
<1> QED BY TypeInit, KeyInit, LifeInit, OrderInit, HookInit, <1>1, PTL DEF Spec

(* When everything is quiet and the connection is open, OnRequest has read   *)
(* all of the input, whatever the poller, SetOnRequest and the task did in   *)
(* which order (inputAck, onRequest, onProcess's double check).              *)
THEOREM NoInputLeftBehind == HandlerFixed => (Spec => []NoStrandedInput)
<1> SUFFICES ASSUME HandlerFixed PROVE Spec => []NoStrandedInput OBVIOUS
<1>1. ASSUME TypeOK, HookInv PROVE NoStrandedInput
  BY <1>1 DEF HookInv, LookInv, LookLabels, TaskLabels, ConnectLabels, BeforeConnect,
              NoStrandedInput, Quiet, TypeOK, CountersOK
<1> QED BY HookInvariant, <1>1, PTL

(* When everything is quiet, a closed connection with handlers has been      *)
(* released, also when callbacks panic: a closer that gives up found another *)
(* owner of the processing key (closeCallback, onProcess's double check).    *)
THEOREM NothingLeaksAtRest == ~MaySetOnRequest => (Spec => []ReleasedAtRest)
<1> SUFFICES ASSUME ~MaySetOnRequest PROVE Spec => []ReleasedAtRest OBVIOUS
<1>1. HandlerFixed
  BY DEF HandlerFixed
<1>2. ASSUME HookInv PROVE ReleasedAtRest
  BY <1>2 DEF HookInv, ReleaseInv, ReleaseLabels, ClosingLabels, CloseLabels, TaskLabels,
              ConnectLabels, ReleasedAtRest, Quiet
<1> QED BY HookInvariant, <1>1, <1>2, PTL
=============================================================================
