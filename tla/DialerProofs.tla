---------------------------- MODULE DialerProofs ----------------------------
(* A dial that succeeds was accepted and leaves its fd to the connection, for *)
(* any number of dials; Pick is entered by one goroutine at a time, for any   *)
(* number of goroutines.                                                      *)
EXTENDS Dialer, TLAPS

Labels ==
    /\ dpc \in {"idle", "pick", "checkCtx", "waitWrite", "select", "delete", "check", "sockopt",
                "free", "return", "done"}
    /\ epc \in {"wait", "write", "writeDelete", "trigger", "hup", "hupDelete", "hupDone", "done"}
    /\ opState \in {0, 1, 2}
    /\ opDetached \in BOOLEAN /\ writeTrigger \in BOOLEAN /\ closeTrigger \in BOOLEAN
    /\ ctxDone \in BOOLEAN /\ err \in BOOLEAN

(* The poller works on the operator exactly while it holds it, and Free has    *)
(* waited for that.                                                            *)
HandlerInv ==
    /\ epc # "wait" <=> opState = 2
    /\ dpc \in {"idle", "pick", "checkCtx", "return", "done"} => opState = 0
    /\ dpc \in {"select", "delete", "check", "sockopt", "free"} => opState # 0

(* Who detached first has deleted the fd, or is about to; the poller wakes the *)
(* dialer after it detached.                                                   *)
DetachInv ==
    /\ dpc \in {"idle", "pick", "checkCtx"} => inEpoll = "none"
    /\ dpc = "waitWrite" /\ opState = 0 => inEpoll = "none" /\ ~opDetached /\ ~writeTrigger
    /\ opDetached /\ dpc \in {"waitWrite", "select", "check", "sockopt", "free"} =>
         inEpoll = "none" \/ epc \in {"writeDelete", "hupDelete"}
    /\ epc \in {"trigger", "writeDelete", "hupDelete"} \/ dpc = "delete" => opDetached
    /\ writeTrigger /\ dpc \in {"waitWrite", "select", "delete", "check", "sockopt", "free"} => opDetached
    /\ dpc \in {"check", "sockopt", "free"} /\ ~err => opDetached
    /\ dpc = "return" /\ ~err => inEpoll = "none"
    /\ dpc = "sockopt" => ~err
    /\ dpc = "done" => inEpoll = "conn"

(* Without an error the peer has accepted.                                     *)
SockInv ==
    /\ sock \in {"none", "connecting", "connected", "refused", "closed"}
    /\ dpc # "idle" => sock # "none"
    /\ dpc \in {"checkCtx", "done"} \/ (dpc \in {"free", "return"} /\ ~err) =>
         sock \in {"connected", "closed"}

DialInv == Labels /\ HandlerInv /\ DetachInv /\ SockInv

(* The invariant holds before the first dial (connect has not been called).   *)
LEMMA DialInvInit == DialInit => DialInv
<1>1. DialInit => Labels BY Zenon DEF DialInit, Labels
<1>2. DialInit => HandlerInv BY DEF DialInit, HandlerInv
<1>3. DialInit => DetachInv BY Zenon DEF DialInit, DetachInv
<1>4. DialInit => SockInv BY Zenon DEF DialInit, SockInv
<1> QED BY <1>1, <1>2, <1>3, <1>4, Zenon DEF DialInv

(* What the kernel and the context do preserves the invariant.                *)
LEMMA OutsidePreserves ==
  ASSUME DialInv,
         Connect \/ (\E answer \in {"connected", "refused"} : Resolve(answer)) \/ PeerClose
           \/ Spurious \/ Expire
  PROVE  DialInv'
<1> USE DEF DialInv, Labels, HandlerInv, DetachInv, SockInv, dialVars, kernel, operator, channels
<1>1. CASE Connect BY <1>1, Zenon DEF Connect
<1>2. ASSUME NEW answer \in {"connected", "refused"}, Resolve(answer) PROVE DialInv'
      BY <1>2 DEF Resolve
<1>3. CASE PeerClose BY <1>3 DEF PeerClose
<1>4. CASE Spurious BY <1>4 DEF Spurious
<1>5. CASE Expire BY <1>5 DEF Expire
<1> QED BY <1>1, <1>2, <1>3, <1>4, <1>5, Zenon

(* Each step of the dialing goroutine preserves the invariant (connect,       *)
(* WaitWrite, Free).                                                          *)
LEMMA DialerPreserves ==
  ASSUME DialInv,
         CheckCtx \/ WaitWrite \/ Select \/ SelectDelete \/ CheckTriggers \/ Getsockopt \/ Free
           \/ Fail \/ Succeed \/ newPollDesc
  PROVE  DialInv'
<1> USE DEF DialInv, Labels, HandlerInv, DetachInv, SockInv, DialTo, Delete, kernel, operator,
            channels
<1>1. CASE CheckCtx BY <1>1 DEF CheckCtx
<1>2. CASE WaitWrite BY <1>2 DEF WaitWrite
<1>3. CASE Select
  <2>1. Labels' BY <1>3, Zenon DEF Select
  <2>2. HandlerInv' BY <1>3, Zenon DEF Select
  <2>3. DetachInv' BY <1>3 DEF Select
  <2>4. SockInv' BY <1>3, Zenon DEF Select
  <2> QED BY <2>1, <2>2, <2>3, <2>4, Zenon
<1>4. CASE SelectDelete BY <1>4 DEF SelectDelete
<1>5. CASE CheckTriggers BY <1>5 DEF CheckTriggers
<1>6. CASE Getsockopt
  <2>1. Labels' BY <1>6, Zenon DEF Getsockopt
  <2>2. HandlerInv' BY <1>6, Zenon DEF Getsockopt
  <2>3. DetachInv' BY <1>6, Zenon DEF Getsockopt
  <2>4. SockInv' BY <1>6, Zenon DEF Getsockopt
  <2> QED BY <2>1, <2>2, <2>3, <2>4, Zenon
<1>7. CASE Free BY <1>7 DEF Free
<1>8. CASE Fail BY <1>8, Zenon DEF Fail
<1>9. CASE Succeed BY <1>9 DEF Succeed
<1>10. CASE newPollDesc
  <2>1. Labels' BY <1>10, Zenon DEF newPollDesc
  <2>2. HandlerInv' BY <1>10, Zenon DEF newPollDesc
  <2>3. DetachInv' BY <1>10 DEF newPollDesc
  <2>4. SockInv' BY <1>10, Zenon DEF newPollDesc
  <2> QED BY <2>1, <2>2, <2>3, <2>4, Zenon
<1> QED BY <1>1, <1>2, <1>3, <1>4, <1>5, <1>6, <1>7, <1>8, <1>9, <1>10, Zenon

(* Each step of the poller's handler preserves the invariant (onwrite, onhup). *)
LEMMA PollerPreserves == ASSUME DialInv, PollerStep PROVE DialInv'
<1> USE DEF DialInv, Labels, HandlerInv, DetachInv, SockInv, PollTo, Delete, kernel, operator,
            channels
<1>1. CASE Event BY <1>1 DEF Event
<1>2. CASE onwrite BY <1>2 DEF onwrite
<1>3. CASE PollDone BY <1>3 DEF PollDone
<1>4. CASE HupDone BY <1>4 DEF HupDone
<1>5. CASE Detach1("write", "writeDelete", "trigger") BY <1>5 DEF Detach1
<1>6. CASE PollDelete("writeDelete", "trigger") BY <1>6 DEF PollDelete
<1>7. CASE Detach1("hup", "hupDelete", "hupDone") BY <1>7 DEF Detach1
<1>8. CASE PollDelete("hupDelete", "hupDone") BY <1>8 DEF PollDelete
<1>9. ASSUME NEW d \in hups, onhup(d) PROVE DialInv' BY <1>9 DEF onhup
<1> QED BY <1>1, <1>2, <1>3, <1>4, <1>5, <1>6, <1>7, <1>8, <1>9, Zenon DEF PollerStep

(* Every step preserves the invariant; picking a poller touches nothing in it. *)
LEMMA DialInvNext == DialInv /\ [DialNext]_<<pollVars, dialVars>> => DialInv'
<1> SUFFICES ASSUME DialInv, [DialNext]_<<pollVars, dialVars>> PROVE DialInv'
    OBVIOUS
<1>1. ASSUME UNCHANGED dialVars PROVE DialInv'
      BY <1>1 DEF DialInv, Labels, HandlerInv, DetachInv, SockInv, dialVars, kernel, operator,
                  channels
<1>2. CASE DialStep BY <1>1, <1>2, DialerPreserves, PollerPreserves, Zenon DEF DialStep
<1> QED BY <1>1, <1>2, OutsidePreserves, Zenon DEF DialNext

(* The invariant holds in every reachable state of the dialer.                *)
LEMMA DialInvariant == DialSpec => []DialInv
  BY DialInvInit, DialInvNext, PTL DEF DialSpec

(* However many dials use the same descriptor, one that succeeds leaves it     *)
(* to its connection: no delayed detach deletes the connection's registration  *)
(* (connect, onwrite, FDOperator.Free).                                        *)
THEOREM HandedOver == DialSpec => []FdHandedOver
<1>1. DialInv => FdHandedOver BY Zenon DEF DialInv, DetachInv, FdHandedOver
<1> QED BY <1>1, DialInvariant, PTL

(* However the answer, spurious events and the context overlap, a dial succeeds *)
(* only when the peer accepted (connect).                                       *)
THEOREM Accepted == DialSpec => []DialTrue
<1>1. DialInv => DialTrue BY Zenon DEF DialInv, SockInv, DialTrue
<1> QED BY <1>1, DialInvariant, PTL

-----------------------------------------------------------------------------
PickLabels == InRun \cup {"idle", "start", "initialized", "size", "index", "picked", "panic", "second"}

(* While somebody is in Run the status is not Uninitialized, unless SetNumLoops *)
(* has reset it; Initialized it may be, by the compare-and-swap of an earlier   *)
(* Run that had ended when SetNumLoops was called.                              *)
RunInv ==
    /\ ppc \in [Pickers \cup {Setter} -> PickLabels] /\ overlap \in BOOLEAN
    /\ overlap \/ \A p \in Pickers :
          ppc[p] \in InRun =>
            status \in {Initializing, Initialized} /\ \A q \in Pickers : ppc[q] \in InRun => p = q

(* Nobody is in Run before the first Pick (newManager).                         *)
LEMMA RunInvInit == PollInit => RunInv
  BY Zenon DEF PollInit, RunInv, InRun, PickLabels

(* Each step of Pick, Run and SetNumLoops preserves the invariant.              *)
LEMMA RunInvNext == RunInv /\ [ManagerNext]_pollVars => RunInv'
<1> SUFFICES ASSUME RunInv, [ManagerNext]_pollVars PROVE RunInv'
    OBVIOUS
<1> USE ManagerAssumption
<1> USE DEF RunInv, InRun, PickLabels, At, Uninitialized, Initializing, Initialized, manager, locals, happened
<1>1. ASSUME NEW p \in Pickers PROVE PickFast(p) => RunInv' BY <1>1 DEF PickFast
<1>2. ASSUME NEW p \in Pickers PROVE PickLock(p) => RunInv' BY <1>2 DEF PickLock
<1>3. ASSUME NEW p \in Pickers PROVE Run(p) => RunInv' BY <1>3 DEF Run
<1>4. ASSUME NEW p \in Pickers PROVE openPoll(p) => RunInv' BY <1>4 DEF openPoll
<1>5. ASSUME NEW p \in Pickers PROVE openPollFails(p) => RunInv' BY <1>5 DEF openPollFails
<1>6. ASSUME NEW p \in Pickers PROVE SetPolls(p) => RunInv' BY <1>6 DEF SetPolls
<1>7. ASSUME NEW p \in Pickers PROVE Rebalance(p) => RunInv'
      BY <1>7 DEF Rebalance, RebalancePanics, RebalanceRest
<1>8. ASSUME NEW p \in Pickers PROVE SetInitialized(p) => RunInv' BY <1>8 DEF SetInitialized
<1>9. ASSUME NEW p \in Pickers PROVE PickIndex(p) => RunInv' BY <1>9 DEF PickIndex
<1>10. ASSUME NEW p \in Pickers PROVE PickPoll(p) => RunInv' BY <1>10 DEF PickPoll
<1>11. ASSUME NEW p \in Pickers PROVE Pick(p) \/ Picked(p) => RunInv' BY <1>11 DEF Pick, Picked
<1>12. ASSUME NEW n \in 1..MaxLoops, SetNumLoops(n) PROVE RunInv'
  <2>1. CASE CallSet /\ StoreNumLoops(n) BY <2>1, Zenon DEF CallSet, StoreNumLoops
  <2>2. CASE EndSet /\ ResetStatus
    <3>1. overlap' <=> overlap \/ \E p \in Pickers : ppc[p] \in InRun
          BY <2>2, Zenon DEF ResetStatus
    <3>2. overlap' \in BOOLEAN BY <2>2, Zenon DEF ResetStatus
    <3>3. /\ ppc' \in [Pickers \cup {Setter} -> PickLabels]
          /\ \A p \in Pickers : ppc'[p] = ppc[p]
          BY <2>2, Zenon DEF EndSet
    <3> QED BY <3>1, <3>2, <3>3, Zenon
  <2> QED BY <1>12, <2>1, <2>2, Zenon DEF SetNumLoops
<1>13. CASE UNCHANGED pollVars BY <1>13, Zenon DEF pollVars
<1> QED BY <1>1, <1>2, <1>3, <1>4, <1>5, <1>6, <1>7, <1>8, <1>9, <1>10, <1>11, <1>12, <1>13, Zenon
        DEF ManagerNext, PickStep

(* However many goroutines pick, one at a time adjusts the pollers, unless      *)
(* SetNumLoops resets the status under it (manager.Pick, SetNumLoops).          *)
THEOREM SingleRun == ManagerSpec => []OneRun
<1>1. RunInv => OneRun BY Zenon DEF RunInv, OneRun
<1> QED BY <1>1, RunInvInit, RunInvNext, PTL DEF ManagerSpec
-----------------------------------------------------------------------------
(* Which pollers run                                                        *)

ManagerTypes ==
    /\ numLoops \in Nat /\ status \in {Uninitialized, Initializing, Initialized}
    /\ polls \in Seq(Nat) /\ lbPolls \in Seq(Nat) /\ pollSize \in Nat
    /\ opened \in Nat /\ closedPolls \in SUBSET Nat
    /\ want \in [Pickers -> Nat] /\ new \in [Pickers -> Seq(Nat)] /\ idx \in [Pickers -> Nat]

\* s holds the pollers of 1..n that are not in C, each of them once.
AllOf(s, n, C) == C \in SUBSET (1..n) /\ Range(s) = (1..n) \ C /\ IsInjective(s)

(* Between its look at the number and the end of Run, a goroutine has a slice   *)
(* that holds all the pollers that run and grows to the number it read, and     *)
(* that number is out of date only while SetNumLoops is under way.  When nobody *)
(* is in Run the manager has these pollers itself.                              *)
RunPolls(p) ==
    /\ ppc[p] = "run" => AllOf(polls, opened, closedPolls)
    /\ ppc[p] \in {"open", "set", "rebalance", "resize"} =>
         /\ AllOf(new[p], opened, closedPolls)
         /\ ppc[Setter] = "idle" => want[p] = numLoops
    /\ ppc[p] = "open" => Len(new[p]) < want[p]
    /\ ppc[p] \in {"set", "rebalance", "resize"} => Len(new[p]) = want[p]
    /\ ppc[p] \in {"rebalance", "resize"} => polls = new[p]

PollsInv ==
    ~overlap /\ ~openFailed =>
        /\ \A p \in Pickers : RunPolls(p)
        /\ (\A p \in Pickers : ppc[p] \notin InRun) =>
             /\ AllOf(polls, opened, closedPolls)
             /\ status # Uninitialized /\ ppc[Setter] = "idle" => Len(polls) = numLoops

(* A poller that is opened is new.                                              *)
LEMMA AppendRuns ==
  ASSUME NEW s \in Seq(Nat), NEW n \in Nat, NEW C, AllOf(s, n, C)
  PROVE  AllOf(Append(s, n + 1), n + 1, C)
<1>0. C \in SUBSET (1..n) /\ Range(s) = (1..n) \ C /\ IsInjective(s) BY Zenon DEF AllOf
<1> USE <1>0
<1> DEFINE t == Append(s, n + 1)
<1>1. t \in Seq(Nat) /\ Len(t) = Len(s) + 1 /\ DOMAIN t = 1..(Len(s) + 1) /\ DOMAIN s = 1..Len(s)
      /\ t[Len(s) + 1] = n + 1 /\ \A i \in 1..Len(s) : t[i] = s[i]
      OBVIOUS
<1>2. \A i \in 1..Len(s) : s[i] \in (1..n) \ C
      BY <1>1, Zenon DEF Range
<1>3. IsInjective(t)
      BY <1>1, <1>2 DEF IsInjective
<1>4. Range(t) = (1..(n + 1)) \ C
  <2>1. ASSUME NEW x \in Range(t) PROVE x \in (1..(n + 1)) \ C
    <3>1. PICK i \in 1..(Len(s) + 1) : x = t[i] BY <1>1, Zenon DEF Range
    <3> QED BY <1>1, <1>2, <3>1
  <2>2. ASSUME NEW x \in (1..(n + 1)) \ C PROVE x \in Range(t)
    <3>1. CASE x = n + 1 BY <1>1, <3>1 DEF Range
    <3>2. CASE x # n + 1
      <4>1. x \in Range(s) BY <3>2
      <4>2. PICK i \in 1..Len(s) : x = s[i] BY <1>1, <4>1, Zenon DEF Range
      <4> QED BY <1>1, <4>2 DEF Range
    <3> QED BY <3>1, <3>2, Zenon
  <2> QED BY <2>1, <2>2, Zenon
<1>5. C \in SUBSET (1..(n + 1)) OBVIOUS
<1> HIDE DEF t
<1> QED BY <1>1, <1>3, <1>4, <1>5, Zenon DEF t, AllOf

Kept(s, k) == SubSeq(s, 1, k)
Dropped(s, k) == SubSeq(s, k + 1, Len(s))

(* Those that are closed when the number is reduced are not among the others.   *)
LEMMA ShrinkRuns ==
  ASSUME NEW s \in Seq(Nat), NEW n \in Nat, NEW C, NEW k \in Nat, AllOf(s, n, C), k < Len(s)
  PROVE  AllOf(Kept(s, k), n, C \cup Range(Dropped(s, k)))
<1>0. C \in SUBSET (1..n) /\ Range(s) = (1..n) \ C /\ IsInjective(s) BY Zenon DEF AllOf
<1> USE <1>0
<1> DEFINE keep == SubSeq(s, 1, k)
           drop == SubSeq(s, k + 1, Len(s))
<1>1. keep \in Seq(Nat) /\ Len(keep) = k /\ DOMAIN keep = 1..k /\ DOMAIN s = 1..Len(s)
      /\ \A i \in 1..k : keep[i] = s[i]
      OBVIOUS
<1>2. DOMAIN drop = 1..(Len(s) - k) /\ \A i \in 1..(Len(s) - k) : drop[i] = s[k + i]
      OBVIOUS
<1>3. Range(keep) = {s[i] : i \in 1..k}
      BY <1>1, Zenon DEF Range
<1>4. Range(drop) = {s[i] : i \in (k + 1)..Len(s)}
  <2>1. ASSUME NEW x \in Range(drop) PROVE x \in {s[i] : i \in (k + 1)..Len(s)}
    <3>1. PICK j \in 1..(Len(s) - k) : x = drop[j] BY <1>2, Zenon DEF Range
    <3>2. k + j \in (k + 1)..Len(s) /\ x = s[k + j] BY <1>2, <3>1
    <3> QED BY <3>2, Zenon
  <2>2. ASSUME NEW i \in (k + 1)..Len(s) PROVE s[i] \in Range(drop)
    <3>1. i - k \in 1..(Len(s) - k) /\ k + (i - k) = i OBVIOUS
    <3>2. drop[i - k] = s[i] BY <1>2, <3>1, Zenon
    <3> QED BY <1>2, <3>1, <3>2, Zenon DEF Range
  <2> QED BY <2>1, <2>2, Zenon
<1> HIDE DEF keep, drop
<1>5. IsInjective(keep)
      BY <1>1 DEF IsInjective
<1>6. Range(s) = {s[i] : i \in 1..Len(s)}
      BY <1>1, Zenon DEF Range
<1>7. C \cup Range(drop) \in SUBSET (1..n)
  <2>1. ASSUME NEW i \in (k + 1)..Len(s) PROVE s[i] \in 1..n
        BY <1>6
  <2> QED BY <1>4, <2>1, Zenon
<1>8. Range(keep) = (1..n) \ (C \cup Range(drop))
  <2>1. ASSUME NEW x \in Range(keep) PROVE x \in (1..n) \ (C \cup Range(drop))
    <3>1. PICK i \in 1..k : x = s[i] BY <1>3, Zenon
    <3>2. x \in (1..n) \ C BY <1>6, <3>1
    <3>3. ASSUME NEW j \in (k + 1)..Len(s) PROVE x # s[j]
      <4>1. i \in DOMAIN s /\ j \in DOMAIN s /\ i # j BY <1>1
      <4> QED BY <3>1, <4>1, Zenon DEF IsInjective
    <3>4. x \notin Range(drop) BY <1>4, <3>3, Zenon
    <3> QED BY <3>2, <3>4, Zenon
  <2>2. ASSUME NEW x \in (1..n) \ (C \cup Range(drop)) PROVE x \in Range(keep)
    <3>1. PICK i \in 1..Len(s) : x = s[i] BY <1>6, Zenon
    <3>2. i \notin (k + 1)..Len(s) BY <1>4, <3>1, Zenon
    <3> QED BY <1>3, <3>1, <3>2
  <2> QED BY <2>1, <2>2, Zenon
<1> QED BY <1>1, <1>5, <1>7, <1>8, Zenon DEF keep, drop, Kept, Dropped, AllOf

(* No poller runs before the first Pick (newManager).                           *)
LEMMA PollsInit == PollInit => ManagerTypes /\ PollsInv
<1> SUFFICES ASSUME PollInit PROVE ManagerTypes /\ PollsInv
    OBVIOUS
<1>1. ManagerTypes
      BY ManagerAssumption DEF PollInit, ManagerTypes, Uninitialized, Initializing, Initialized
<1>2. PollsInv
      BY DEF PollInit, PollsInv, RunPolls, AllOf, IsInjective, Range, InRun, Uninitialized
<1> QED BY <1>1, <1>2, Zenon

(* Each step keeps the types.                                                   *)
LEMMA ManagerTypesNext ==
  ASSUME ManagerTypes, RunInv, [ManagerNext]_pollVars PROVE ManagerTypes'
<1> USE ManagerAssumption DEF ManagerTypes, At, manager, locals, happened, Uninitialized,
        Initializing, Initialized
<1>0. ASSUME NEW s \in Seq(Nat) PROVE Range(s) \in SUBSET Nat BY DEF Range
<1>1. ASSUME NEW p \in Pickers, PickFast(p) PROVE ManagerTypes' BY <1>1, Zenon DEF PickFast
<1>2. ASSUME NEW p \in Pickers, PickLock(p) PROVE ManagerTypes' BY <1>2, Zenon DEF PickLock
<1>3. ASSUME NEW p \in Pickers, Run(p) PROVE ManagerTypes'
  <2>1. SubSeq(polls, 1, numLoops) \in Seq(Nat) \/ ~(numLoops < Len(polls)) OBVIOUS
  <2>2. SubSeq(polls, numLoops + 1, Len(polls)) \in Seq(Nat) \/ ~(numLoops < Len(polls)) OBVIOUS
  <2>3. closedPolls' \in SUBSET Nat BY <1>0, <1>3, <2>2, Zenon DEF Run
  <2>4. new' \in [Pickers -> Seq(Nat)] BY <1>3, <2>1, Zenon DEF Run
  <2> QED BY <1>3, <2>3, <2>4, Zenon DEF Run
<1>4. ASSUME NEW p \in Pickers, openPoll(p) PROVE ManagerTypes' BY <1>4 DEF openPoll
<1>5. ASSUME NEW p \in Pickers, openPollFails(p) PROVE ManagerTypes'
  <2>1. closedPolls' \in SUBSET Nat BY <1>0, <1>5, Zenon DEF openPollFails
  <2>2. polls' \in Seq(Nat) /\ numLoops' \in Nat BY <1>5 DEF openPollFails
  <2> QED BY <1>5, <2>1, <2>2, Zenon DEF openPollFails
<1>6. ASSUME NEW p \in Pickers, SetPolls(p) PROVE ManagerTypes' BY <1>6, Zenon DEF SetPolls
<1>7. ASSUME NEW p \in Pickers, Rebalance(p) PROVE ManagerTypes'
      BY <1>7 DEF Rebalance, RebalancePanics, RebalanceRest, StorePolls, StoreSize
<1>8. ASSUME NEW p \in Pickers, SetInitialized(p) PROVE ManagerTypes'
      BY <1>8 DEF SetInitialized
<1>9. ASSUME NEW p \in Pickers, PickIndex(p) PROVE ManagerTypes'
  <2>1. CASE balance /\ pollSize > 0
    <3>1. PICK i \in 1..pollSize : idx' = [idx EXCEPT ![p] = i] BY <1>9, <2>1, Zenon DEF PickIndex
    <3> QED BY <1>9, <2>1, <3>1 DEF PickIndex
  <2>2. CASE ~(balance /\ pollSize > 0) BY <1>9, <2>2, Zenon DEF PickIndex
  <2> QED BY <2>1, <2>2, Zenon
<1>10. ASSUME NEW p \in Pickers, PickPoll(p) PROVE ManagerTypes' BY <1>10, Zenon DEF PickPoll
<1>11. ASSUME NEW p \in Pickers, Pick(p) \/ Picked(p) PROVE ManagerTypes'
      BY <1>11, Zenon DEF Pick, Picked
<1>12. ASSUME NEW n \in 1..MaxLoops, SetNumLoops(n) PROVE ManagerTypes'
      BY <1>12 DEF SetNumLoops, CallSet, EndSet, StoreNumLoops, ResetStatus, SetRest
<1>13. CASE UNCHANGED pollVars BY <1>13, Zenon DEF pollVars
<1> HIDE DEF ManagerTypes
<1> QED BY <1>1, <1>2, <1>3, <1>4, <1>5, <1>6, <1>7, <1>8, <1>9, <1>10, <1>11, <1>12, <1>13, Zenon
        DEF ManagerNext, PickStep

(* Each step preserves the invariant: a Run that nobody disturbs ends with the  *)
(* number it read, which is the last one that was stored.                       *)
LEMMA PollsNext ==
  ASSUME ManagerTypes, RunInv, PollsInv, [ManagerNext]_pollVars PROVE PollsInv'
<1> SUFFICES ASSUME ~overlap', ~openFailed' PROVE PollsInv'
    BY Zenon DEF PollsInv
<1>0. ppc \in [Pickers \cup {Setter} -> PickLabels] BY Zenon DEF RunInv
<1> USE <1>0, ManagerAssumption DEF ManagerTypes, At, InRun, manager, locals, happened,
        Uninitialized, Initializing, Initialized, PollsInv, RunPolls
<1>1. ASSUME NEW p \in Pickers, PickFast(p) PROVE PollsInv' BY <1>1, Zenon DEF PickFast
<1>2. ASSUME NEW p \in Pickers, PickLock(p) PROVE PollsInv' BY <1>2 DEF PickLock, RunInv
<1>3. ASSUME NEW p \in Pickers, Run(p) PROVE PollsInv'
  <2>0. /\ AllOf(polls, opened, closedPolls) /\ ppc[p] = "run" /\ want'[p] = numLoops
        /\ \A q \in Pickers \ {p} : ppc'[q] = ppc[q] /\ ppc[q] \notin InRun
        /\ ppc'[Setter] = ppc[Setter] /\ UNCHANGED <<polls, numLoops, opened>>
        BY <1>3, Zenon DEF Run, RunInv
  <2>1. CASE At(p, "run", "initialized") /\ numLoops = Len(polls)
        BY <1>3, <2>0, <2>1, Zenon DEF Run
  <2>2. CASE At(p, "run", "set") /\ numLoops < Len(polls)
    <3>1. new'[p] = SubSeq(polls, 1, numLoops)
          /\ closedPolls' = closedPolls \cup Range(SubSeq(polls, numLoops + 1, Len(polls)))
          BY <1>3, <2>2, Zenon DEF Run
    <3>2. AllOf(Kept(polls, numLoops), opened, closedPolls \cup Range(Dropped(polls, numLoops)))
          BY <2>0, <2>2, ShrinkRuns, Zenon
    <3>3. AllOf(new'[p], opened', closedPolls') /\ Len(new'[p]) = numLoops
          BY <2>0, <2>2, <3>1, <3>2 DEF Kept, Dropped
    <3> QED BY <2>0, <2>2, <3>3, Zenon
  <2>3. CASE At(p, "run", "open") /\ numLoops > Len(polls)
        BY <1>3, <2>0, <2>3, Zenon DEF Run
  <2> QED BY <1>3, <2>1, <2>2, <2>3, Zenon DEF Run
<1>4. ASSUME NEW p \in Pickers, openPoll(p) PROVE PollsInv'
  <2>0. /\ AllOf(new[p], opened, closedPolls) /\ Len(new[p]) < want[p]
        /\ ppc[Setter] = "idle" => want[p] = numLoops
        /\ opened' = opened + 1 /\ new'[p] = Append(new[p], opened + 1)
        /\ ppc'[p] = IF Len(new'[p]) = want[p] THEN "set" ELSE "open"
        /\ \A q \in Pickers \ {p} : ppc'[q] = ppc[q] /\ ppc[q] \notin InRun
        /\ ppc'[Setter] = ppc[Setter] /\ UNCHANGED <<closedPolls, want, numLoops>>
        BY <1>4, Zenon DEF openPoll, RunInv
  <2>1. AllOf(new'[p], opened', closedPolls') /\ Len(new'[p]) = Len(new[p]) + 1
    <3>1. AllOf(Append(new[p], opened + 1), opened + 1, closedPolls) BY <2>0, AppendRuns, Zenon
    <3> QED BY <2>0, <3>1
  <2>2. ppc'[p] = "open" \/ ppc'[p] = "set" BY <2>0, Zenon
  <2>3. ppc'[p] = "open" => Len(new'[p]) < want'[p] BY <2>0, <2>1
  <2>4. ppc'[p] = "set" => Len(new'[p]) = want'[p] BY <2>0, <2>1, Zenon
  <2> QED BY <2>0, <2>1, <2>2, <2>3, <2>4, Zenon
<1>5. ASSUME NEW p \in Pickers, openPollFails(p) PROVE PollsInv'
      BY <1>5, Zenon DEF openPollFails
<1>6. ASSUME NEW p \in Pickers, SetPolls(p) PROVE PollsInv' BY <1>6, Zenon DEF SetPolls, RunInv
<1>7. ASSUME NEW p \in Pickers, Rebalance(p) PROVE PollsInv'
      BY <1>7 DEF Rebalance, RebalancePanics, RebalanceRest, RunInv
<1>8. ASSUME NEW p \in Pickers, SetInitialized(p) PROVE PollsInv'
      BY <1>8, Zenon DEF SetInitialized
<1>9. ASSUME NEW p \in Pickers, PickIndex(p) PROVE PollsInv' BY <1>9, Zenon DEF PickIndex
<1>10. ASSUME NEW p \in Pickers, PickPoll(p) PROVE PollsInv' BY <1>10 DEF PickPoll
<1>11. ASSUME NEW p \in Pickers, Pick(p) \/ Picked(p) PROVE PollsInv'
      BY <1>11, Zenon DEF Pick, Picked
<1>12. ASSUME NEW n \in 1..MaxLoops, SetNumLoops(n) PROVE PollsInv'
  <2>1. CASE CallSet /\ StoreNumLoops(n)
        BY <1>12, <2>1, Zenon DEF SetNumLoops, CallSet, StoreNumLoops, SetRest
  <2>2. CASE EndSet /\ ResetStatus
    <3>1. ~overlap /\ \A p \in Pickers : ppc[p] \notin InRun
          BY <2>2, Zenon DEF ResetStatus
    <3> QED BY <1>12, <2>2, <3>1, Zenon DEF SetNumLoops, EndSet, ResetStatus, SetRest
  <2> QED BY <1>12, <2>1, <2>2, Zenon DEF SetNumLoops
<1>13. CASE UNCHANGED pollVars BY <1>13, Zenon DEF pollVars
<1> HIDE DEF PollsInv
<1> QED BY <1>1, <1>2, <1>3, <1>4, <1>5, <1>6, <1>7, <1>8, <1>9, <1>10, <1>11, <1>12, <1>13, Zenon
        DEF ManagerNext, PickStep

(* The invariants of the poll manager hold in every reachable state.            *)
LEMMA ManagerInvariant == ManagerSpec => [](ManagerTypes /\ RunInv /\ PollsInv)
  BY RunInvInit, RunInvNext, PollsInit, ManagerTypesNext, PollsNext, PTL DEF ManagerSpec

(* However many goroutines pick while the number of pollers is set, up and      *)
(* down, the initialized manager has the number that was asked for last, and    *)
(* exactly the pollers that run (Run, SetNumLoops, manager.Pick).               *)
THEOREM LoopsAsAsked == ManagerSpec => []LoopsRun
<1>1. PollsInv => LoopsRun BY DEF PollsInv, LoopsRun, AllOf, Uninitialized, Initialized
<1> QED BY <1>1, ManagerInvariant, PTL

(* As long as pollers are only added, one Run at a time, the load balance is    *)
(* what the manager has, except that Rebalance stores the slice before its      *)
(* size; who has an index therefore finds it in the slice.                      *)
BalanceInv ==
    ~overlap /\ ~shrunk /\ ~openFailed =>
        /\ balance /\ ~panicked /\ numLoops >= 1 /\ pollSize <= Len(lbPolls)
        /\ status = Initialized => pollSize > 0
        /\ \A p \in Pickers :
             /\ ppc[p] \in {"initialized", "size", "index"} => pollSize > 0
             /\ ppc[p] = "index" => idx[p] \in 1..pollSize
             /\ ppc[p] \in {"open", "set", "rebalance", "resize"} =>
                  want[p] >= 1 /\ Len(polls) <= Len(new[p])
             /\ ppc[p] = "rebalance" => pollSize = Len(lbPolls) /\ pollSize <= Len(new[p])
             /\ ppc[p] = "resize" => lbPolls = new[p]
        /\ (\A p \in Pickers : ppc[p] \notin {"rebalance", "resize"}) =>
             lbPolls = polls /\ pollSize = Len(polls)

(* The load balance is empty as long as the manager is (newManager).            *)
LEMMA BalanceInit == PollInit => BalanceInv
  BY DEF PollInit, BalanceInv, Uninitialized, Initialized

(* Each step preserves it: nobody picks before the first Run has ended.         *)
LEMMA BalanceNext ==
  ASSUME ManagerTypes, RunInv, PollsInv, BalanceInv, [ManagerNext]_pollVars PROVE BalanceInv'
<1> SUFFICES ASSUME ~overlap', ~shrunk', ~openFailed' PROVE BalanceInv'
    BY Zenon DEF BalanceInv
<1>0. ppc \in [Pickers \cup {Setter} -> PickLabels] BY Zenon DEF RunInv
<1> USE <1>0, ManagerAssumption DEF ManagerTypes, At, InRun, manager, locals, happened,
        Uninitialized, Initializing, Initialized, BalanceInv
<1>1. ASSUME NEW p \in Pickers, PickFast(p) PROVE BalanceInv' BY <1>1, Zenon DEF PickFast
<1>2. ASSUME NEW p \in Pickers, PickLock(p) PROVE BalanceInv' BY <1>2 DEF PickLock
<1>3. ASSUME NEW p \in Pickers, Run(p) PROVE BalanceInv'
  <2>1. /\ ppc[p] = "run" /\ UNCHANGED <<manager, idx, panicked>> /\ want'[p] = numLoops
        /\ \A q \in Pickers \ {p} : ppc'[q] = ppc[q] /\ ppc[q] \notin InRun
        /\ ppc'[p] \in {"initialized", "open"}
        /\ ppc'[p] = "initialized" => numLoops = Len(polls)
        /\ ppc'[p] = "open" => new'[p] = polls
        BY <1>3, Zenon DEF Run, RunInv
  <2> QED BY <1>3, <2>1 DEF Run
<1>4. ASSUME NEW p \in Pickers, openPoll(p) PROVE BalanceInv'
  <2>1. /\ ppc[p] = "open" /\ UNCHANGED <<manager, idx, panicked, want>>
        /\ Len(new'[p]) = Len(new[p]) + 1
        /\ \A q \in Pickers \ {p} : ppc'[q] = ppc[q] /\ ppc[q] \notin InRun
        /\ ppc'[p] \in {"set", "open"}
        BY <1>4 DEF openPoll, RunInv
  <2> QED BY <1>4, <2>1 DEF openPoll
<1>5. ASSUME NEW p \in Pickers, openPollFails(p) PROVE BalanceInv'
      BY <1>5, Zenon DEF openPollFails
<1>6. ASSUME NEW p \in Pickers, SetPolls(p) PROVE BalanceInv'
      BY <1>6 DEF SetPolls, RunInv
<1>7. ASSUME NEW p \in Pickers, Rebalance(p) PROVE BalanceInv'
  <2>1. /\ \A q \in Pickers \ {p} : ppc'[q] = ppc[q] /\ ppc[q] \notin InRun
        /\ polls = new[p] /\ Len(new[p]) = want[p]
        BY <1>7, Zenon DEF Rebalance, RebalancePanics, RebalanceRest, RunInv, PollsInv, RunPolls
  <2>2. CASE At(p, "rebalance", "resize") /\ StorePolls(p) /\ UNCHANGED panicked
        BY <1>7, <2>1, <2>2, Zenon DEF Rebalance, RebalanceRest, StorePolls
  <2>3. CASE At(p, "resize", "initialized") /\ StoreSize(p) /\ UNCHANGED panicked
        BY <1>7, <2>1, <2>3 DEF Rebalance, RebalanceRest, StoreSize
  <2>4. ~RebalancePanics(p) BY <1>7, Zenon DEF Rebalance, RebalanceRest, RebalancePanics
  <2> QED BY <1>7, <2>2, <2>3, <2>4, Zenon DEF Rebalance
<1>8. ASSUME NEW p \in Pickers, SetInitialized(p) PROVE BalanceInv'
      BY <1>8, Zenon DEF SetInitialized
<1>9. ASSUME NEW p \in Pickers, PickIndex(p) PROVE BalanceInv'
  <2>1. balance /\ pollSize > 0 BY <1>9, Zenon DEF PickIndex
  <2>2. PICK i \in 1..pollSize : idx' = [idx EXCEPT ![p] = i] BY <1>9, <2>1, Zenon DEF PickIndex
  <2> QED BY <1>9, <2>1, <2>2, Zenon DEF PickIndex
<1>10. ASSUME NEW p \in Pickers, PickPoll(p) PROVE BalanceInv'
  <2>1. ppc[p] = "index" BY <1>10, Zenon DEF PickPoll
  <2>2. idx[p] <= Len(lbPolls) BY <1>10, <2>1 DEF PickPoll
  <2> QED BY <1>10, <2>2, Zenon DEF PickPoll
<1>11. ASSUME NEW p \in Pickers, Pick(p) \/ Picked(p) PROVE BalanceInv'
      BY <1>11, Zenon DEF Pick, Picked
<1>12. ASSUME NEW n \in 1..MaxLoops, SetNumLoops(n) PROVE BalanceInv'
  <2>1. CASE CallSet /\ StoreNumLoops(n)
        BY <1>12, <2>1 DEF SetNumLoops, CallSet, StoreNumLoops, SetRest
  <2>2. CASE EndSet /\ ResetStatus
    <3>1. ~overlap BY <2>2, Zenon DEF ResetStatus
    <3> QED BY <1>12, <2>2, <3>1 DEF SetNumLoops, EndSet, ResetStatus, SetRest
  <2> QED BY <1>12, <2>1, <2>2, Zenon DEF SetNumLoops
<1>13. CASE UNCHANGED pollVars BY <1>13, Zenon DEF pollVars
<1> HIDE DEF BalanceInv
<1> QED BY <1>1, <1>2, <1>3, <1>4, <1>5, <1>6, <1>7, <1>8, <1>9, <1>10, <1>11, <1>12, <1>13, Zenon
        DEF ManagerNext, PickStep

(* However many goroutines pick while pollers are added, none of them finds the *)
(* load balance without a poller or an index outside its slice, although it     *)
(* reads both without a lock (manager.Pick, Rebalance, balance.Pick).           *)
THEOREM GrowingIsSafe == ManagerSpec => []PickSafe
<1>1. BalanceInv => PickSafe BY Zenon DEF BalanceInv, PickSafe
<1>2. ManagerTypes /\ RunInv /\ PollsInv /\ BalanceInv /\ [ManagerNext]_pollVars => BalanceInv'
      BY BalanceNext, Zenon
<1> QED BY <1>1, <1>2, BalanceInit, ManagerInvariant, PTL DEF ManagerSpec
=============================================================================
