--------------------------- MODULE ShardQueueProofs ---------------------------
(***************************************************************************)
(* Proofs about ShardQueue: for any number of adders, closers and tasks,   *)
(* any number of shards and any batches.                                   *)
(***************************************************************************)
EXTENDS ShardQueue, TLAPS

(* The ring's index stays inside the ring. *)
LEMMA RingIndex ==
  ASSUME NEW i \in Shards
  PROVE  (i + 1) % Size \in Shards
BY SizeAssumption DEF Shards

(* The three kinds of goroutines are processes. *)
LEMMA ProcsFacts == Adders \subseteq Procs /\ Tasks \subseteq Procs /\ Closers \subseteq Procs
BY Zenon DEF Procs

-----------------------------------------------------------------------------
(* Type correctness.                                                       *)

(* The initial state is of the right types. *)
LEMMA TypeInit == Init => TypeOK
BY SizeAssumption DEF Init, TypeOK, Shards, Labels

(* Every step keeps every variable in its type. *)
LEMMA TypeStep ==
  ASSUME TypeOK, [Next]_vars
  PROVE  TypeOK'
<1> USE ProcsFacts, RingIndex, SizeAssumption
<1> USE DEF TypeOK, Goto, At, Labels, AddLabels, TaskLabels, CloseLabels,
            queue, queueTrigger, writer, locals
<1>1. ASSUME NEW a \in Adders, Add(a) PROVE TypeOK'
  <2>1. NextInt(idx) \in -MaxInt - 1 .. MaxInt
    BY DEF NextInt
  <2>2. PICK n \in Batches :
          batch' = [batch EXCEPT ![a] = [i \in 1 .. n |-> <<adds + 1, i>>]]
    BY <1>1, Zenon DEF Add
  <2>3. [i \in 1 .. n |-> <<adds + 1, i>>] \in Seq(Getter)
    <3>1. n \in Nat
      BY BoundsAssumption, Zenon
    <3>2. \A i \in 1 .. n : <<adds + 1, i>> \in Getter
      BY <3>1 DEF Getter
    <3> QED
      BY <3>1, <3>2
  <2>4. batch' \in [Adders -> Seq(Getter)]
    BY <2>2, <2>3, Zenon
  <2>5. (shard' \in [Procs -> Shards]) /\ (pc' \in [Procs -> Labels])
    BY <1>1, Zenon DEF Add
  <2> QED
    BY <1>1, <2>1, <2>4, <2>5 DEF Add
<1>2. ASSUME NEW a \in Adders, AddLock(a) PROVE TypeOK'
  BY <1>2, Zenon DEF AddLock, Lock
<1>3. ASSUME NEW a \in Adders, AppendGetters(a) PROVE TypeOK'
  <2>1. getters[shard[a]] \o batch[a] \in Seq(Getter)
    BY <1>3
  <2>2. getters' \in [Shards -> Seq(Getter)]
    BY <1>3, <2>1, Zenon DEF AppendGetters
  <2>3. batch' \in [Adders -> Seq(Getter)]
    BY <1>3 DEF AppendGetters
  <2> QED
    BY <1>3, <2>2, <2>3, Zenon DEF AppendGetters
<1>4. ASSUME NEW a \in Adders, Triggering(a) PROVE TypeOK'
  BY <1>4, Zenon DEF Triggering
<1>5. ASSUME NEW a \in Adders, AddTrigger(a) PROVE TypeOK'
  BY <1>5 DEF AddTrigger
<1>6. ASSUME NEW a \in Adders, Foreach(a) PROVE TypeOK'
  <2>1. pc' \in [Procs -> Labels]
    BY <1>6, Zenon DEF Foreach
  <2> QED
    BY <1>6, <2>1 DEF Foreach
<1>7. ASSUME NEW t \in Tasks, LoadTrigger(t) PROVE TypeOK'
  BY <1>7 DEF LoadTrigger
<1>8. ASSUME NEW t \in Tasks, ReadList(t) PROVE TypeOK'
  BY <1>8, Zenon DEF ReadList
<1>9. ASSUME NEW t \in Tasks, SwapLock(t) PROVE TypeOK'
  BY <1>9, Zenon DEF SwapLock, Lock
<1>10. ASSUME NEW t \in Tasks, Swap(t) PROVE TypeOK'
  <2>1. getters' \in [Shards -> Seq(Getter)]
    BY <1>10 DEF Swap
  <2>2. swap' \in Seq(Getter)
    BY <1>10, Zenon DEF Swap
  <2> QED
    BY <1>10, <2>1, <2>2, Zenon DEF Swap
<1>11. ASSUME NEW t \in Tasks, Deal(t) PROVE TypeOK'
  <2>1. swap \in Seq(Getter) /\ swap # <<>> /\ Head(swap) \in Getter /\ Tail(swap) \in Seq(Getter)
    BY <1>11 DEF Deal
  <2>2. {swap[i] : i \in DOMAIN swap} \subseteq Getter
    BY <2>1
  <2>3. swap' \in Seq(Getter) /\ written' \subseteq Getter /\ skipped' \subseteq Getter
        /\ conn' \in {"open", "closed"}
    <3>1. \/ written' = written \cup {Head(swap)} /\ swap' = Tail(swap)
              /\ skipped' = skipped /\ conn' = conn
          \/ skipped' = skipped \cup {Head(swap)} /\ swap' = Tail(swap)
              /\ written' = written /\ conn' = conn
          \/ skipped' = skipped \cup {swap[i] : i \in DOMAIN swap} /\ swap' = <<>>
              /\ written' = written /\ conn' = "closed"
      BY <1>11, Zenon DEF Deal
    <3>2. written \subseteq Getter /\ skipped \subseteq Getter /\ conn \in {"open", "closed"}
      OBVIOUS
    <3> HIDE DEF TypeOK
    <3>3. <<>> \in Seq(Getter)
      OBVIOUS
    <3>4. written \cup {Head(swap)} \subseteq Getter /\ skipped \cup {Head(swap)} \subseteq Getter
      BY <2>1, <3>2, Zenon
    <3>5. skipped \cup {swap[i] : i \in DOMAIN swap} \subseteq Getter
      BY <2>2, <3>2, Zenon
    <3> QED
      BY <2>1, <3>1, <3>2, <3>3, <3>4, <3>5, Zenon
  <2> QED
    BY <1>11, <2>3, Zenon DEF Deal
<1>12. ASSUME NEW t \in Tasks, Count(t) PROVE TypeOK'
  <2>1. trigger \in Int /\ triggerNum \in [Tasks -> Int] /\ negNum \in [Tasks -> Int]
    OBVIOUS
  <2>2. pc' \in [Procs -> Labels]
    BY <1>12, Zenon DEF Count
  <2>3. trigger' \in Int /\ triggerNum' \in [Tasks -> Int] /\ negNum' \in [Tasks -> Int]
    <3> HIDE DEF TypeOK
    <3> QED
      BY <1>12, <2>1 DEF Count
  <2> QED
    BY <1>12, <2>2, <2>3, Zenon DEF Count
<1>13. ASSUME NEW t \in Tasks, Flush(t) PROVE TypeOK'
  BY <1>13, Zenon DEF Flush
<1>14. ASSUME NEW t \in Tasks, Quit(t) PROVE TypeOK'
  BY <1>14, Zenon DEF Quit
<1>15. ASSUME NEW t \in Tasks, Again(t) PROVE TypeOK'
  BY <1>15, Zenon DEF Again
<1>16. ASSUME NEW t \in Tasks, Respawn(t) PROVE TypeOK'
  BY <1>16 DEF Respawn
<1>17. ASSUME NEW t \in Tasks, Closed(t) PROVE TypeOK'
  BY <1>17, Zenon DEF Closed
<1>18. ASSUME NEW c \in Closers, Close(c) PROVE TypeOK'
  BY <1>18, Zenon DEF Close
<1>19. ASSUME NEW c \in Closers, CloseLoop(c) PROVE TypeOK'
  BY <1>19, Zenon DEF CloseLoop
<1>20. ASSUME NEW c \in Closers, CheckTrigger(c) PROVE TypeOK'
  BY <1>20, Zenon DEF CheckTrigger
<1>21. ASSUME NEW c \in Closers, StoreClosed(c) PROVE TypeOK'
  BY <1>21, Zenon DEF StoreClosed
<1>22. CASE UNCHANGED vars
  BY <1>22, Zenon DEF vars
<1> QED
  BY <1>1, <1>2, <1>3, <1>4, <1>5, <1>6, <1>7, <1>8, <1>9, <1>10, <1>11, <1>12, <1>13, <1>14,
     <1>15, <1>16, <1>17, <1>18, <1>19, <1>20, <1>21, <1>22, Zenon DEF Next, AdderNext, TaskNext,
     CloserNext

(* Every variable keeps its type. *)
THEOREM TypeCorrect == Spec => []TypeOK
BY TypeInit, TypeStep, PTL DEF Spec

-----------------------------------------------------------------------------
(* One task at a time.                                                     *)

(* runNum is above zero while a task is dealing, so foreach starts no      *)
(* second one before the first has stored zero.                            *)
RunInv == OneTask /\ \A t \in Tasks : Dealing(t) => runNum >= 1

(* Every step keeps the run invariant. *)
LEMMA RunStep ==
  ASSUME TypeOK, RunInv, [Next]_vars
  PROVE  RunInv'
<1> USE ProcsFacts, ProcsAssumption
<1> USE DEF TypeOK, RunInv, OneTask, Dealing, Goto, At, queue, queueTrigger, writer, locals
<1>1. ASSUME NEW a \in Adders, Add(a) PROVE RunInv'
  BY <1>1 DEF Add
<1>2. ASSUME NEW a \in Adders, AddLock(a) PROVE RunInv'
  BY <1>2, Zenon DEF AddLock, Lock
<1>3. ASSUME NEW a \in Adders, AppendGetters(a) PROVE RunInv'
  BY <1>3, Zenon DEF AppendGetters
<1>4. ASSUME NEW a \in Adders, Triggering(a) PROVE RunInv'
  BY <1>4, Zenon DEF Triggering
<1>5. ASSUME NEW a \in Adders, AddTrigger(a) PROVE RunInv'
  BY <1>5, Zenon DEF AddTrigger
<1>6. ASSUME NEW a \in Adders, Foreach(a) PROVE RunInv'
  <2>1. CASE runNum + 1 > 1
    <3>1. pc' = [pc EXCEPT ![a] = "idle"] /\ runNum' = runNum + 1
      BY <1>6, <2>1, Zenon DEF Foreach
    <3>2. \A u \in Tasks : pc'[u] = pc[u]
      BY <3>1, Zenon
    <3> QED
      BY <2>1, <3>1, <3>2
  <2>2. CASE ~(runNum + 1 > 1)
    <3>1. PICK t \in Tasks : pc' = [pc EXCEPT ![a] = "idle", ![t] = "load"]
      BY <1>6, <2>2, Zenon DEF Foreach
    <3>2. \A u \in Tasks : ~Dealing(u)
      BY <2>2
    <3>3. \A u \in Tasks : Dealing(u)' => u = t
      BY <3>1, <3>2, Zenon
    <3>4. runNum' >= 1
      BY <1>6 DEF Foreach
    <3> QED
      BY <3>3, <3>4, Zenon
  <2> QED
    BY <2>1, <2>2, Zenon
<1>7. ASSUME NEW t \in Tasks, LoadTrigger(t) PROVE RunInv'
  BY <1>7, Zenon DEF LoadTrigger
<1>8. ASSUME NEW t \in Tasks, ReadList(t) PROVE RunInv'
  BY <1>8, Zenon DEF ReadList
<1>9. ASSUME NEW t \in Tasks, SwapLock(t) PROVE RunInv'
  BY <1>9, Zenon DEF SwapLock, Lock
<1>10. ASSUME NEW t \in Tasks, Swap(t) PROVE RunInv'
  BY <1>10, Zenon DEF Swap
<1>11. ASSUME NEW t \in Tasks, Deal(t) PROVE RunInv'
  BY <1>11, Zenon DEF Deal
<1>12. ASSUME NEW t \in Tasks, Count(t) PROVE RunInv'
  BY <1>12, Zenon DEF Count
<1>13. ASSUME NEW t \in Tasks, Flush(t) PROVE RunInv'
  BY <1>13, Zenon DEF Flush
<1>14. ASSUME NEW t \in Tasks, Quit(t) PROVE RunInv'
  BY <1>14, Zenon DEF Quit
<1>15. ASSUME NEW t \in Tasks, Again(t) PROVE RunInv'
  BY <1>15, Zenon DEF Again
<1>16. ASSUME NEW t \in Tasks, Respawn(t) PROVE RunInv'
  BY <1>16 DEF Respawn
<1>17. ASSUME NEW t \in Tasks, Closed(t) PROVE RunInv'
  BY <1>17, Zenon DEF Closed
<1>18. ASSUME NEW c \in Closers, Close(c) PROVE RunInv'
  BY <1>18 DEF Close
<1>19. ASSUME NEW c \in Closers, CloseLoop(c) PROVE RunInv'
  BY <1>19, Zenon DEF CloseLoop
<1>20. ASSUME NEW c \in Closers, CheckTrigger(c) PROVE RunInv'
  BY <1>20, Zenon DEF CheckTrigger
<1>21. ASSUME NEW c \in Closers, StoreClosed(c) PROVE RunInv'
  BY <1>21, Zenon DEF StoreClosed
<1>22. CASE UNCHANGED vars
  BY <1>22, Zenon DEF vars
<1> QED
  BY <1>1, <1>2, <1>3, <1>4, <1>5, <1>6, <1>7, <1>8, <1>9, <1>10, <1>11, <1>12, <1>13, <1>14,
     <1>15, <1>16, <1>17, <1>18, <1>19, <1>20, <1>21, <1>22, Zenon DEF Next, AdderNext, TaskNext,
     CloserNext

(* The run invariant holds in every state. *)
LEMMA RunInvariant == Spec => []RunInv
<1>1. Init => RunInv
  BY ProcsFacts, Zenon DEF Init, RunInv, OneTask, Dealing
<1> QED
  BY <1>1, TypeCorrect, RunStep, PTL DEF Spec

(* At most one task deals and flushes at any time, whoever triggers it. *)
THEOREM OneTaskAtATime == Spec => []OneTask
<1>1. RunInv => OneTask
  BY Zenon DEF RunInv
<1> QED
  BY <1>1, RunInvariant, PTL

-----------------------------------------------------------------------------
(* Where the getters are.                                                  *)

NoDup(seq) == \A i, j \in DOMAIN seq : seq[i] = seq[j] => i = j

(* The elements of a concatenation. *)
LEMMA ElemsConcat ==
  ASSUME NEW s \in Seq(Getter), NEW t \in Seq(Getter)
  PROVE  Elems(s \o t) = Elems(s) \cup Elems(t)
<1>1. \A g : g \in Elems(s \o t) => g \in Elems(s) \cup Elems(t)
  BY DEF Elems
<1>2. \A g : g \in Elems(s) => g \in Elems(s \o t)
  BY DEF Elems
<1>3. ASSUME NEW g, g \in Elems(t) PROVE g \in Elems(s \o t)
  <2>1. PICK i \in 1 .. Len(t) : g = t[i]
    BY <1>3 DEF Elems
  <2>2. Len(s) + i \in DOMAIN (s \o t) /\ (s \o t)[Len(s) + i] = g
    BY <2>1
  <2> QED
    BY <2>2, Zenon DEF Elems
<1> QED
  BY <1>1, <1>2, <1>3, Zenon

(* Two sequences without repetition and without a common element make one  *)
(* without repetition.                                                     *)
LEMMA NoDupConcat ==
  ASSUME NEW s \in Seq(Getter), NEW t \in Seq(Getter), NoDup(s), NoDup(t),
         Elems(s) \cap Elems(t) = {}
  PROVE  NoDup(s \o t)
<1> DEFINE u == s \o t
<1>1. Len(u) = Len(s) + Len(t) /\ u \in Seq(Getter)
  OBVIOUS
<1>2. \A i \in 1 .. Len(u) : IF i <= Len(s) THEN u[i] = s[i] ELSE u[i] = t[i - Len(s)]
  OBVIOUS
<1> SUFFICES ASSUME NEW i \in 1 .. Len(u), NEW j \in 1 .. Len(u), u[i] = u[j]
             PROVE  i = j
  BY <1>1 DEF NoDup
<1>3. \A k \in 1 .. Len(s) : s[k] \in Elems(s)
  BY DEF Elems
<1>4. \A k \in 1 .. Len(t) : t[k] \in Elems(t)
  BY DEF Elems
<1> HIDE DEF u
<1>5. CASE i <= Len(s) /\ j <= Len(s)
  BY <1>1, <1>2, <1>5 DEF NoDup
<1>6. CASE i > Len(s) /\ j > Len(s)
  <2>1. i - Len(s) \in 1 .. Len(t) /\ j - Len(s) \in 1 .. Len(t)
    BY <1>1, <1>6
  <2>2. t[i - Len(s)] = t[j - Len(s)]
    BY <1>2, <1>6
  <2>3. i - Len(s) = j - Len(s)
    BY <2>1, <2>2 DEF NoDup
  <2> QED
    BY <2>3
<1>7. CASE i <= Len(s) /\ j > Len(s)
  BY <1>1, <1>2, <1>3, <1>4, <1>7
<1>8. CASE i > Len(s) /\ j <= Len(s)
  BY <1>1, <1>2, <1>3, <1>4, <1>8
<1> QED
  BY <1>1, <1>5, <1>6, <1>7, <1>8

(* The empty sequence. *)
LEMMA EmptySeq == Elems(<<>>) = {} /\ NoDup(<<>>)
BY DEF Elems, NoDup

(* Taking the head off a sequence without repetition. *)
LEMMA HeadTail ==
  ASSUME NEW s \in Seq(Getter), s # <<>>, NoDup(s)
  PROVE  /\ Tail(s) \in Seq(Getter) /\ NoDup(Tail(s))
         /\ Elems(s) = {Head(s)} \cup Elems(Tail(s))
         /\ Head(s) \notin Elems(Tail(s))
<1>1. Tail(s) \in Seq(Getter) /\ Len(Tail(s)) = Len(s) - 1 /\ Len(s) >= 1
  OBVIOUS
<1>2. \A i \in 1 .. Len(s) - 1 : Tail(s)[i] = s[i + 1]
  OBVIOUS
<1>3. NoDup(Tail(s))
  BY <1>1, <1>2 DEF NoDup
<1>4. Head(s) \notin Elems(Tail(s))
  BY <1>1, <1>2 DEF NoDup, Elems
<1>5. \A g : g \in Elems(s) => g = Head(s) \/ g \in Elems(Tail(s))
  <2> SUFFICES ASSUME NEW i \in 1 .. Len(s), i # 1 PROVE s[i] \in Elems(Tail(s))
    BY <1>1 DEF Elems
  <2>1. i - 1 \in DOMAIN Tail(s) /\ Tail(s)[i - 1] = s[i]
    BY <1>1, <1>2
  <2> QED
    BY <2>1, Zenon DEF Elems
<1>6. \A g : g \in Elems(Tail(s)) => g \in Elems(s)
  BY <1>1, <1>2 DEF Elems
<1>7. Head(s) \in Elems(s)
  BY <1>1 DEF Elems
<1> QED
  BY <1>1, <1>3, <1>4, <1>5, <1>6, <1>7, Zenon

(* The batch is empty unless the task is dealing it. *)
SwapInv == swap # <<>> => \E t \in Tasks : pc[t] = "deal"

placement == <<getters, batch, swap, written, skipped, adds>>

(* The getters that Add calls still hold, that shards hold and that are    *)
(* being dealt: no repetition, no overlap, and only of calls made so far.  *)
PlaceInv ==
    /\ \A a \in Adders : NoDup(batch[a])
    /\ \A s \in Shards : NoDup(getters[s])
    /\ NoDup(swap)
    /\ \A a, b \in Adders : a # b => Elems(batch[a]) \cap Elems(batch[b]) = {}
    /\ \A a \in Adders, s \in Shards : Elems(batch[a]) \cap Elems(getters[s]) = {}
    /\ \A a \in Adders : Elems(batch[a]) \cap (Elems(swap) \cup written \cup skipped) = {}
    /\ \A s1, s2 \in Shards : s1 # s2 => Elems(getters[s1]) \cap Elems(getters[s2]) = {}
    /\ \A s \in Shards : Elems(getters[s]) \cap (Elems(swap) \cup written \cup skipped) = {}
    /\ Elems(swap) \cap (written \cup skipped) = {}
    /\ written \cap skipped = {}

(* No getter of a later call exists. *)
Old == {g \in Getter : g[1] <= adds}

OldInv ==
    /\ \A a \in Adders : Elems(batch[a]) \subseteq Old
    /\ \A s \in Shards : Elems(getters[s]) \subseteq Old
    /\ Elems(swap) \subseteq Old
    /\ written \subseteq Old
    /\ skipped \subseteq Old

(* The batch is empty whenever no task is at "deal". *)
LEMMA SwapStep ==
  ASSUME TypeOK, RunInv, SwapInv, [Next]_vars
  PROVE  SwapInv'
<1> USE ProcsFacts, ProcsAssumption
<1> USE DEF TypeOK, SwapInv, Goto, At, queue, queueTrigger, writer, locals
<1>1. ASSUME NEW a \in Adders, Add(a) PROVE SwapInv'
  BY <1>1, Zenon DEF Add
<1>2. ASSUME NEW a \in Adders, AddLock(a) PROVE SwapInv'
  BY <1>2, Zenon DEF AddLock, Lock
<1>3. ASSUME NEW a \in Adders, AppendGetters(a) PROVE SwapInv'
  BY <1>3, Zenon DEF AppendGetters
<1>4. ASSUME NEW a \in Adders, Triggering(a) PROVE SwapInv'
  BY <1>4, Zenon DEF Triggering
<1>5. ASSUME NEW a \in Adders, AddTrigger(a) PROVE SwapInv'
  BY <1>5, Zenon DEF AddTrigger
<1>6. ASSUME NEW a \in Adders, Foreach(a) PROVE SwapInv'
  BY <1>6, Zenon DEF Foreach
<1>7. ASSUME NEW t \in Tasks, LoadTrigger(t) PROVE SwapInv'
  BY <1>7, Zenon DEF LoadTrigger
<1>8. ASSUME NEW t \in Tasks, ReadList(t) PROVE SwapInv'
  BY <1>8, Zenon DEF ReadList
<1>9. ASSUME NEW t \in Tasks, SwapLock(t) PROVE SwapInv'
  BY <1>9, Zenon DEF SwapLock, Lock
<1>10. ASSUME NEW t \in Tasks, Swap(t) PROVE SwapInv'
  <2>1. pc'[t] = "deal"
    BY <1>10, Zenon DEF Swap
  <2> QED
    BY <2>1, Zenon
<1>11. ASSUME NEW t \in Tasks, Deal(t) PROVE SwapInv'
  BY <1>11, Zenon DEF Deal
<1>12. ASSUME NEW t \in Tasks, Count(t) PROVE SwapInv'
  BY <1>12, Zenon DEF Count
<1>13. ASSUME NEW t \in Tasks, Flush(t) PROVE SwapInv'
  BY <1>13, Zenon DEF Flush
<1>14. ASSUME NEW t \in Tasks, Quit(t) PROVE SwapInv'
  BY <1>14, Zenon DEF Quit
<1>15. ASSUME NEW t \in Tasks, Again(t) PROVE SwapInv'
  BY <1>15, Zenon DEF Again
<1>16. ASSUME NEW t \in Tasks, Respawn(t) PROVE SwapInv'
  BY <1>16, Zenon DEF Respawn
<1>17. ASSUME NEW t \in Tasks, Closed(t) PROVE SwapInv'
  BY <1>17, Zenon DEF Closed
<1>18. ASSUME NEW c \in Closers, Close(c) PROVE SwapInv'
  BY <1>18, Zenon DEF Close
<1>19. ASSUME NEW c \in Closers, CloseLoop(c) PROVE SwapInv'
  BY <1>19, Zenon DEF CloseLoop
<1>20. ASSUME NEW c \in Closers, CheckTrigger(c) PROVE SwapInv'
  BY <1>20, Zenon DEF CheckTrigger
<1>21. ASSUME NEW c \in Closers, StoreClosed(c) PROVE SwapInv'
  BY <1>21, Zenon DEF StoreClosed
<1>22. CASE UNCHANGED vars
  BY <1>22, Zenon DEF vars
<1> QED
  BY <1>1, <1>2, <1>3, <1>4, <1>5, <1>6, <1>7, <1>8, <1>9, <1>10, <1>11, <1>12, <1>13, <1>14,
     <1>15, <1>16, <1>17, <1>18, <1>19, <1>20, <1>21, <1>22, Zenon DEF Next, AdderNext, TaskNext,
     CloserNext

(* The steps that move no getter. *)
LEMMA OtherSteps ==
  ASSUME [Next]_vars,
         \A a \in Adders : ~Add(a) /\ ~AppendGetters(a),
         \A t \in Tasks : ~Swap(t) /\ ~Deal(t)
  PROVE  UNCHANGED placement
<1> USE DEF placement, queue, queueTrigger, writer, locals
<1>1. ASSUME NEW a \in Adders, AddLock(a) PROVE UNCHANGED placement
  BY <1>1, Zenon DEF AddLock, Lock
<1>2. ASSUME NEW a \in Adders, Triggering(a) PROVE UNCHANGED placement
  BY <1>2, Zenon DEF Triggering
<1>3. ASSUME NEW a \in Adders, AddTrigger(a) PROVE UNCHANGED placement
  BY <1>3, Zenon DEF AddTrigger
<1>4. ASSUME NEW a \in Adders, Foreach(a) PROVE UNCHANGED placement
  BY <1>4, Zenon DEF Foreach
<1>5. ASSUME NEW t \in Tasks, LoadTrigger(t) PROVE UNCHANGED placement
  BY <1>5, Zenon DEF LoadTrigger
<1>6. ASSUME NEW t \in Tasks, ReadList(t) PROVE UNCHANGED placement
  BY <1>6, Zenon DEF ReadList
<1>7. ASSUME NEW t \in Tasks, SwapLock(t) PROVE UNCHANGED placement
  BY <1>7, Zenon DEF SwapLock, Lock
<1>8. ASSUME NEW t \in Tasks, Count(t) PROVE UNCHANGED placement
  BY <1>8, Zenon DEF Count
<1>9. ASSUME NEW t \in Tasks, Flush(t) PROVE UNCHANGED placement
  BY <1>9, Zenon DEF Flush
<1>10. ASSUME NEW t \in Tasks, Quit(t) PROVE UNCHANGED placement
  BY <1>10, Zenon DEF Quit
<1>11. ASSUME NEW t \in Tasks, Again(t) PROVE UNCHANGED placement
  BY <1>11, Zenon DEF Again
<1>12. ASSUME NEW t \in Tasks, Respawn(t) PROVE UNCHANGED placement
  BY <1>12, Zenon DEF Respawn
<1>13. ASSUME NEW t \in Tasks, Closed(t) PROVE UNCHANGED placement
  BY <1>13, Zenon DEF Closed
<1>14. ASSUME NEW c \in Closers, Close(c) PROVE UNCHANGED placement
  BY <1>14, Zenon DEF Close
<1>15. ASSUME NEW c \in Closers, CloseLoop(c) PROVE UNCHANGED placement
  BY <1>15, Zenon DEF CloseLoop
<1>16. ASSUME NEW c \in Closers, CheckTrigger(c) PROVE UNCHANGED placement
  BY <1>16, Zenon DEF CheckTrigger
<1>17. ASSUME NEW c \in Closers, StoreClosed(c) PROVE UNCHANGED placement
  BY <1>17, Zenon DEF StoreClosed
<1>18. CASE UNCHANGED vars
  BY <1>18, Zenon DEF vars
<1> QED
  BY <1>1, <1>2, <1>3, <1>4, <1>5, <1>6, <1>7, <1>8, <1>9, <1>10, <1>11, <1>12, <1>13, <1>14,
     <1>15, <1>16, <1>17, <1>18, Zenon DEF Next, AdderNext, TaskNext, CloserNext

(* Add takes getters of a call that was not made before. *)
LEMMA PlaceAdd ==
  ASSUME TypeOK, PlaceInv, OldInv, NEW a \in Adders, Add(a)
  PROVE  PlaceInv' /\ OldInv'
<1>1. PICK n \in Batches :
        batch' = [batch EXCEPT ![a] = [i \in 1 .. n |-> <<adds + 1, i>>]]
  BY Zenon DEF Add
<1> DEFINE new == [i \in 1 .. n |-> <<adds + 1, i>>]
<1>2. n \in Nat /\ adds \in Nat
  BY BoundsAssumption, Zenon DEF TypeOK
<1>3. Elems(new) \cap Old = {} /\ NoDup(new)
  BY <1>2 DEF Elems, NoDup, Old
<1>4. adds' = adds + 1 /\ UNCHANGED <<getters, swap, written, skipped>>
  BY Zenon DEF Add, writer
<1>5. Elems(new) \subseteq Old'
  BY <1>2, <1>4 DEF Elems, Old, Getter
<1>6. Old \subseteq Old'
  BY <1>2, <1>4 DEF Old, Getter
<1>7. \A b \in Adders : batch'[b] = IF b = a THEN new ELSE batch[b]
  BY <1>1, Zenon DEF TypeOK
<1> HIDE DEF new
<1>8. OldInv'
  BY <1>4, <1>5, <1>6, <1>7, Zenon DEF OldInv
<1>9. PlaceInv'
  <2>1. \A b \in Adders : NoDup(batch'[b])
    BY <1>3, <1>7, Zenon DEF PlaceInv
  <2>2. \A b, c \in Adders : b # c => Elems(batch'[b]) \cap Elems(batch'[c]) = {}
    BY <1>3, <1>7, Zenon DEF PlaceInv, OldInv
  <2>3. \A b \in Adders, s \in Shards : Elems(batch'[b]) \cap Elems(getters[s]) = {}
    BY <1>3, <1>7, Zenon DEF PlaceInv, OldInv
  <2>4. \A b \in Adders : Elems(batch'[b]) \cap (Elems(swap) \cup written \cup skipped) = {}
    BY <1>3, <1>7, Zenon DEF PlaceInv, OldInv
  <2> QED
    BY <1>4, <2>1, <2>2, <2>3, <2>4, Zenon DEF PlaceInv
<1> QED
  BY <1>8, <1>9, Zenon

(* AppendGetters moves the call's getters to its shard. *)
LEMMA PlaceAppend ==
  ASSUME TypeOK, PlaceInv, OldInv, NEW a \in Adders, AppendGetters(a)
  PROVE  PlaceInv' /\ OldInv'
<1> DEFINE S == shard[a]
<1>1. S \in Shards /\ getters[S] \in Seq(Getter) /\ batch[a] \in Seq(Getter)
  BY ProcsFacts, Zenon DEF TypeOK
<1>2. UNCHANGED <<swap, written, skipped, adds>>
  BY Zenon DEF AppendGetters, writer
<1>3. \A s \in Shards : getters'[s] = IF s = S THEN getters[S] \o batch[a] ELSE getters[s]
  BY <1>1, Zenon DEF AppendGetters, TypeOK
<1>4. \A b \in Adders : batch'[b] = IF b = a THEN <<>> ELSE batch[b]
  BY Zenon DEF AppendGetters, TypeOK
<1> HIDE DEF S
<1>5. NoDup(getters[S] \o batch[a])
      /\ Elems(getters[S] \o batch[a]) = Elems(getters[S]) \cup Elems(batch[a])
  BY <1>1, ElemsConcat, NoDupConcat, Zenon DEF PlaceInv
<1>6. \A s \in Shards : Elems(getters'[s]) =
        IF s = S THEN Elems(getters[S]) \cup Elems(batch[a]) ELSE Elems(getters[s])
  BY <1>3, <1>5, Zenon
<1>7. \A b \in Adders : Elems(batch'[b]) = IF b = a THEN {} ELSE Elems(batch[b])
  BY <1>4, EmptySeq, Zenon
<1>8. OldInv'
  <2>1. Old' = Old
    BY <1>2, Zenon DEF Old
  <2> QED
    BY <1>1, <1>2, <1>6, <1>7, <2>1, Zenon DEF OldInv
<1>9. PlaceInv'
  <2>1. \A b \in Adders : NoDup(batch'[b])
    BY <1>4, EmptySeq, Zenon DEF PlaceInv
  <2>2. \A s \in Shards : NoDup(getters'[s])
    BY <1>3, <1>5, Zenon DEF PlaceInv
  <2>3. \A b, c \in Adders : b # c => Elems(batch'[b]) \cap Elems(batch'[c]) = {}
    BY <1>7, Zenon DEF PlaceInv
  <2>4. \A b \in Adders, s \in Shards : Elems(batch'[b]) \cap Elems(getters'[s]) = {}
    BY <1>1, <1>6, <1>7, Zenon DEF PlaceInv
  <2>5. \A b \in Adders : Elems(batch'[b]) \cap (Elems(swap) \cup written \cup skipped) = {}
    BY <1>7, Zenon DEF PlaceInv
  <2>6. \A s1, s2 \in Shards : s1 # s2 => Elems(getters'[s1]) \cap Elems(getters'[s2]) = {}
    BY <1>1, <1>6, Zenon DEF PlaceInv
  <2>7. \A s \in Shards : Elems(getters'[s]) \cap (Elems(swap) \cup written \cup skipped) = {}
    BY <1>1, <1>6, Zenon DEF PlaceInv
  <2> QED
    BY <1>2, <2>1, <2>2, <2>3, <2>4, <2>5, <2>6, <2>7, Zenon DEF PlaceInv
<1> QED
  BY <1>8, <1>9, Zenon

(* Swap moves the shard's getters to the empty batch. *)
LEMMA PlaceSwap ==
  ASSUME TypeOK, RunInv, SwapInv, PlaceInv, OldInv, NEW t \in Tasks, Swap(t)
  PROVE  PlaceInv' /\ OldInv' /\ Pending' = Pending
<1> DEFINE S == shard[t]
<1>1. S \in Shards /\ getters[S] \in Seq(Getter)
  BY ProcsFacts, Zenon DEF TypeOK
<1>2. UNCHANGED <<batch, written, skipped, adds>>
  BY Zenon DEF Swap, writer, locals
<1>3. \A s \in Shards : getters'[s] = IF s = S THEN <<>> ELSE getters[s]
  BY <1>1, Zenon DEF Swap, TypeOK
<1>4. swap' = getters[S]
  BY Zenon DEF Swap
<1>5. swap = <<>>
  BY Zenon DEF Swap, At, SwapInv, RunInv, OneTask, Dealing
<1> HIDE DEF S
<1>6. \A s \in Shards : Elems(getters'[s]) = IF s = S THEN {} ELSE Elems(getters[s])
  BY <1>3, EmptySeq, Zenon
<1>7. OldInv'
  <2>1. Old' = Old
    BY <1>2, Zenon DEF Old
  <2> QED
    BY <1>1, <1>2, <1>4, <1>6, <2>1, Zenon DEF OldInv
<1>8. PlaceInv'
  <2>1. \A s \in Shards : NoDup(getters'[s])
    BY <1>3, EmptySeq, Zenon DEF PlaceInv
  <2>2. \A b \in Adders, s \in Shards : Elems(batch[b]) \cap Elems(getters'[s]) = {}
    BY <1>6, Zenon DEF PlaceInv
  <2>3. \A b \in Adders : Elems(batch[b]) \cap (Elems(getters[S]) \cup written \cup skipped) = {}
    BY <1>1, Zenon DEF PlaceInv
  <2>4. \A s1, s2 \in Shards : s1 # s2 => Elems(getters'[s1]) \cap Elems(getters'[s2]) = {}
    BY <1>6, Zenon DEF PlaceInv
  <2>5. \A s \in Shards : Elems(getters'[s]) \cap (Elems(getters[S]) \cup written \cup skipped) = {}
    BY <1>1, <1>6, Zenon DEF PlaceInv
  <2> QED
    BY <1>1, <1>2, <1>4, <2>1, <2>2, <2>3, <2>4, <2>5, Zenon DEF PlaceInv
<1>9. Pending' = Pending
  <2>1. \A g : g \in Pending <=> \E s \in Shards : g \in Elems(getters[s])
    BY <1>5, EmptySeq, Zenon DEF Pending
  <2>2. \A g : g \in Pending' <=> (\E s \in Shards : g \in Elems(getters'[s])) \/ g \in Elems(getters[S])
    BY <1>4, Zenon DEF Pending
  <2>3. \A g : g \in Pending <=> g \in Pending'
    BY <1>1, <1>6, <2>1, <2>2, Zenon
  <2> QED
    BY <2>3, Zenon
<1> QED
  BY <1>7, <1>8, <1>9, Zenon

(* What deal does to the batch, in terms of sets. *)
LEMMA DealCases ==
  ASSUME TypeOK, PlaceInv, NEW t \in Tasks, Deal(t)
  PROVE  /\ UNCHANGED <<getters, batch, adds, sent>>
         /\ NoDup(swap')
         /\ \E G \in SUBSET Elems(swap) :
              /\ Elems(swap') = Elems(swap) \ G
              /\ \/ written' = written \cup G /\ skipped' = skipped /\ conn' = conn
                    /\ \E g \in Elems(swap) : G = {g}
                 \/ skipped' = skipped \cup G /\ written' = written /\ conn' = conn
                    /\ \E g \in Elems(swap) : G = {g}
                 \/ skipped' = skipped \cup G /\ written' = written /\ conn' = "closed"
                    /\ MayFail
<1>1. swap \in Seq(Getter) /\ swap # <<>> /\ NoDup(swap)
  BY Zenon DEF Deal, TypeOK, PlaceInv
<1>2. /\ NoDup(Tail(swap))
      /\ Elems(swap) = {Head(swap)} \cup Elems(Tail(swap))
      /\ Head(swap) \notin Elems(Tail(swap))
  BY <1>1, HeadTail, Zenon
<1>3. UNCHANGED <<getters, batch, adds, sent>>
  BY Zenon DEF Deal, queue, locals
<1>4. Elems(Tail(swap)) = Elems(swap) \ {Head(swap)} /\ {Head(swap)} \in SUBSET Elems(swap)
      /\ Head(swap) \in Elems(swap)
  BY <1>2, Zenon
<1>5. Elems(<<>>) = Elems(swap) \ Elems(swap) /\ Elems(swap) \in SUBSET Elems(swap)
  BY EmptySeq, Zenon
<1>6. CASE written' = written \cup {Head(swap)} /\ swap' = Tail(swap) /\ skipped' = skipped
           /\ conn' = conn
  BY <1>2, <1>3, <1>4, <1>6, Zenon
<1>7. CASE skipped' = skipped \cup {Head(swap)} /\ swap' = Tail(swap) /\ written' = written
           /\ conn' = conn
  BY <1>2, <1>3, <1>4, <1>7, Zenon
<1>8. CASE MayFail /\ conn' = "closed" /\ skipped' = skipped \cup Elems(swap)
           /\ swap' = <<>> /\ written' = written
  BY <1>3, <1>5, <1>8, EmptySeq, Zenon
<1> QED
  BY <1>6, <1>7, <1>8, Zenon DEF Deal, Elems

(* deal moves getters from the batch to what was written or skipped. *)
LEMMA PlaceDeal ==
  ASSUME TypeOK, PlaceInv, OldInv, NEW t \in Tasks, Deal(t)
  PROVE  PlaceInv' /\ OldInv'
<1>1. UNCHANGED <<getters, batch, adds>> /\ NoDup(swap')
  BY DealCases, Zenon
<1>2. PICK G \in SUBSET Elems(swap) :
        /\ Elems(swap') = Elems(swap) \ G
        /\ \/ written' = written \cup G /\ skipped' = skipped
           \/ skipped' = skipped \cup G /\ written' = written
  BY DealCases, Zenon
<1>3. OldInv'
  <2>1. Old' = Old
    BY <1>1, Zenon DEF Old
  <2> QED
    BY <1>1, <1>2, <2>1, Zenon DEF OldInv
<1>4. PlaceInv'
  <2>1. \A b \in Adders : Elems(batch[b]) \cap (Elems(swap') \cup written' \cup skipped') = {}
    BY <1>2, Zenon DEF PlaceInv
  <2>2. \A s \in Shards : Elems(getters[s]) \cap (Elems(swap') \cup written' \cup skipped') = {}
    BY <1>2, Zenon DEF PlaceInv
  <2>3. Elems(swap') \cap (written' \cup skipped') = {} /\ written' \cap skipped' = {}
    BY <1>2, Zenon DEF PlaceInv
  <2> QED
    BY <1>1, <2>1, <2>2, <2>3, Zenon DEF PlaceInv
<1> QED
  BY <1>3, <1>4, Zenon

(* The initial state. *)
LEMMA PlaceInit == Init => SwapInv /\ PlaceInv /\ OldInv
BY EmptySeq DEF Init, SwapInv, PlaceInv, OldInv

(* Every step keeps the getters apart. *)
LEMMA PlaceStep ==
  ASSUME TypeOK, RunInv, SwapInv, PlaceInv, OldInv, [Next]_vars
  PROVE  PlaceInv' /\ OldInv'
<1>1. ASSUME UNCHANGED placement PROVE PlaceInv' /\ OldInv'
  <2>1. UNCHANGED <<getters, batch, swap, written, skipped, adds>>
    BY <1>1, Zenon DEF placement
  <2>2. Old' = Old
    BY <2>1, Zenon DEF Old
  <2> QED
    BY <2>1, <2>2, Zenon DEF PlaceInv, OldInv
<1> QED
  BY <1>1, OtherSteps, PlaceAdd, PlaceAppend, PlaceSwap, PlaceDeal, Zenon

(* The placement invariant holds in every state. *)
LEMMA PlaceInvariant == Spec => [](SwapInv /\ PlaceInv /\ OldInv)
BY PlaceInit, SwapStep, PlaceStep, TypeCorrect, RunInvariant, PTL DEF Spec

(* No getter is dealt twice and none is in two places. *)
THEOREM GettersDealtOnce == Spec => []DealtOnce
<1>1. PlaceInv => DealtOnce
  <2> SUFFICES ASSUME PlaceInv PROVE DealtOnce
    OBVIOUS
  <2>1. \A g : g \in Pending => g \in Elems(swap) \/ \E s \in Shards : g \in Elems(getters[s])
    BY Zenon DEF Pending
  <2>2. Pending \cap (written \cup skipped) = {}
    BY <2>1, Zenon DEF PlaceInv
  <2> QED
    BY <2>2, Zenon DEF DealtOnce, PlaceInv
<1> QED
  BY <1>1, PlaceInvariant, PTL

-----------------------------------------------------------------------------
(* ShardQueue implements MuxQueue.                                         *)

(* Only an error closes the connection. *)
ConnInv == conn = "closed" => MayFail

(* The steps that do not touch the connection. *)
LEMMA ConnSteps ==
  ASSUME [Next]_vars, \A t \in Tasks : ~Deal(t) /\ ~Flush(t)
  PROVE  UNCHANGED <<conn, sent>>
<1> USE DEF queue, queueTrigger, writer, locals
<1>1. ASSUME NEW a \in Adders, AddLock(a) PROVE UNCHANGED <<conn, sent>>
  BY <1>1, Zenon DEF AddLock, Lock
<1>2. ASSUME NEW a \in Adders, Triggering(a) PROVE UNCHANGED <<conn, sent>>
  BY <1>2, Zenon DEF Triggering
<1>3. ASSUME NEW a \in Adders, AddTrigger(a) PROVE UNCHANGED <<conn, sent>>
  BY <1>3, Zenon DEF AddTrigger
<1>4. ASSUME NEW a \in Adders, Foreach(a) PROVE UNCHANGED <<conn, sent>>
  BY <1>4, Zenon DEF Foreach
<1>5. ASSUME NEW t \in Tasks, LoadTrigger(t) PROVE UNCHANGED <<conn, sent>>
  BY <1>5, Zenon DEF LoadTrigger
<1>6. ASSUME NEW t \in Tasks, ReadList(t) PROVE UNCHANGED <<conn, sent>>
  BY <1>6, Zenon DEF ReadList
<1>7. ASSUME NEW t \in Tasks, SwapLock(t) PROVE UNCHANGED <<conn, sent>>
  BY <1>7, Zenon DEF SwapLock, Lock
<1>8. ASSUME NEW t \in Tasks, Count(t) PROVE UNCHANGED <<conn, sent>>
  BY <1>8, Zenon DEF Count
<1>9. ASSUME NEW t \in Tasks, Quit(t) PROVE UNCHANGED <<conn, sent>>
  BY <1>9, Zenon DEF Quit
<1>10. ASSUME NEW t \in Tasks, Again(t) PROVE UNCHANGED <<conn, sent>>
  BY <1>10, Zenon DEF Again
<1>11. ASSUME NEW t \in Tasks, Respawn(t) PROVE UNCHANGED <<conn, sent>>
  BY <1>11, Zenon DEF Respawn
<1>12. ASSUME NEW t \in Tasks, Closed(t) PROVE UNCHANGED <<conn, sent>>
  BY <1>12, Zenon DEF Closed
<1>13. ASSUME NEW c \in Closers, Close(c) PROVE UNCHANGED <<conn, sent>>
  BY <1>13, Zenon DEF Close
<1>14. ASSUME NEW c \in Closers, CloseLoop(c) PROVE UNCHANGED <<conn, sent>>
  BY <1>14, Zenon DEF CloseLoop
<1>15. ASSUME NEW c \in Closers, CheckTrigger(c) PROVE UNCHANGED <<conn, sent>>
  BY <1>15, Zenon DEF CheckTrigger
<1>16. ASSUME NEW c \in Closers, StoreClosed(c) PROVE UNCHANGED <<conn, sent>>
  BY <1>16, Zenon DEF StoreClosed
<1>17. ASSUME NEW a \in Adders, Add(a) \/ AppendGetters(a) PROVE UNCHANGED <<conn, sent>>
  BY <1>17, Zenon DEF Add, AppendGetters
<1>18. ASSUME NEW t \in Tasks, Swap(t) PROVE UNCHANGED <<conn, sent>>
  BY <1>18, Zenon DEF Swap
<1>19. CASE UNCHANGED vars
  BY <1>19, Zenon DEF vars
<1> QED
  BY <1>1, <1>2, <1>3, <1>4, <1>5, <1>6, <1>7, <1>8, <1>9, <1>10, <1>11, <1>12, <1>13, <1>14,
     <1>15, <1>16, <1>17, <1>18, <1>19, Zenon DEF Next, AdderNext, TaskNext, CloserNext

(* Pending depends on the shards and the batch alone. *)
LEMMA SamePending ==
  ASSUME UNCHANGED <<getters, swap>>
  PROVE  Pending' = Pending
BY Zenon DEF Pending

(* AppendGetters accepts the call's getters. *)
LEMMA AppendAccepts ==
  ASSUME TypeOK, PlaceInv, NEW a \in Adders, AppendGetters(a)
  PROVE  Abstract!Accept
<1> DEFINE S == shard[a]
<1>1. S \in Shards /\ getters[S] \in Seq(Getter) /\ batch[a] \in Seq(Getter)
  BY ProcsFacts, Zenon DEF TypeOK
<1>2. \A s \in Shards : getters'[s] = IF s = S THEN getters[S] \o batch[a] ELSE getters[s]
  BY <1>1, Zenon DEF AppendGetters, TypeOK
<1>3. UNCHANGED <<swap, written, skipped, sent, conn>>
  BY Zenon DEF AppendGetters, writer
<1> HIDE DEF S
<1>4. \A s \in Shards : Elems(getters'[s]) =
        IF s = S THEN Elems(getters[S]) \cup Elems(batch[a]) ELSE Elems(getters[s])
  BY <1>1, <1>2, ElemsConcat, Zenon
<1>5. \A g : g \in Pending <=> (\E s \in Shards : g \in Elems(getters[s])) \/ g \in Elems(swap)
  BY Zenon DEF Pending
<1>6. \A g : g \in Pending' <=> (\E s \in Shards : g \in Elems(getters'[s])) \/ g \in Elems(swap)
  BY <1>3, Zenon DEF Pending
<1>7. \A g : g \in Pending' <=> g \in Pending \/ g \in Elems(batch[a])
  BY <1>1, <1>4, <1>5, <1>6, Zenon
<1>8. Elems(batch[a]) \subseteq Getter \ (written \cup skipped)
  BY <1>1 DEF Elems, PlaceInv
<1> QED
  BY <1>3, <1>7, <1>8, Zenon DEF Abstract!Accept

(* deal writes one, skips one, or gives up. *)
LEMMA DealImplements ==
  ASSUME TypeOK, PlaceInv, NEW t \in Tasks, Deal(t)
  PROVE  Abstract!Next
<1>1. UNCHANGED <<getters, sent>>
  BY DealCases, Zenon
<1>2. PICK G \in SUBSET Elems(swap) :
        /\ Elems(swap') = Elems(swap) \ G
        /\ \/ written' = written \cup G /\ skipped' = skipped /\ conn' = conn
              /\ \E g \in Elems(swap) : G = {g}
           \/ skipped' = skipped \cup G /\ written' = written /\ conn' = conn
              /\ \E g \in Elems(swap) : G = {g}
           \/ skipped' = skipped \cup G /\ written' = written /\ conn' = "closed"
              /\ MayFail
  BY DealCases, Zenon
<1>3. Pending' = Pending \ G /\ G \in SUBSET Pending
  <2>1. \A s \in Shards : Elems(getters[s]) \cap G = {}
    BY <1>2, Zenon DEF PlaceInv
  <2>2. \A g : g \in Pending <=> (\E s \in Shards : g \in Elems(getters[s])) \/ g \in Elems(swap)
    BY Zenon DEF Pending
  <2>3. \A g : g \in Pending' <=> (\E s \in Shards : g \in Elems(getters[s])) \/ g \in Elems(swap')
    BY <1>1, Zenon DEF Pending
  <2>4. \A g : g \in Pending' <=> g \in Pending /\ g \notin G
    BY <1>2, <2>1, <2>2, <2>3, Zenon
  <2> QED
    BY <1>2, <2>2, <2>4, Zenon
<1>4. CASE written' = written \cup G /\ skipped' = skipped /\ conn' = conn
           /\ \E g \in Elems(swap) : G = {g}
  BY <1>1, <1>3, <1>4, Zenon DEF Abstract!Next, Abstract!Write
<1>5. CASE skipped' = skipped \cup G /\ written' = written /\ conn' = conn
           /\ \E g \in Elems(swap) : G = {g}
  BY <1>1, <1>3, <1>5, Zenon DEF Abstract!Next, Abstract!Skip
<1>6. CASE skipped' = skipped \cup G /\ written' = written /\ conn' = "closed" /\ MayFail
  BY <1>1, <1>3, <1>6, Zenon DEF Abstract!Next, Abstract!GiveUp
<1> QED
  BY <1>2, <1>4, <1>5, <1>6, Zenon

(* flush sends all that was written, or fails. *)
LEMMA FlushImplements ==
  ASSUME NEW t \in Tasks, Flush(t), ConnInv
  PROVE  Abstract!Next /\ ConnInv'
<1>1. Pending' = Pending /\ UNCHANGED <<written, skipped>>
  BY SamePending, Zenon DEF Flush, queue
<1>2. CASE conn = "open" /\ sent' = written /\ conn' = conn
  BY <1>1, <1>2, Zenon DEF Abstract!Next, Abstract!Flush, ConnInv
<1>3. CASE MayFail /\ conn' = "closed" /\ sent' = sent
  BY <1>1, <1>3, Zenon DEF Abstract!Next, Abstract!FlushFails, ConnInv
<1> QED
  BY <1>2, <1>3, Zenon DEF Flush, ConnInv

(* Every step of ShardQueue is a step of MuxQueue or changes nothing there. *)
LEMMA ImplementStep ==
  ASSUME TypeOK, RunInv, SwapInv, PlaceInv, OldInv, ConnInv, [Next]_vars
  PROVE  [Abstract!Next]_(Abstract!vars) /\ ConnInv'
<1>1. ASSUME NEW a \in Adders, Add(a) PROVE UNCHANGED Abstract!vars /\ ConnInv'
  <2>1. UNCHANGED <<getters, swap, written, skipped, sent, conn>>
    BY <1>1, Zenon DEF Add, writer
  <2> QED
    BY <2>1, SamePending, Zenon DEF Abstract!vars, ConnInv
<1>2. ASSUME NEW a \in Adders, AppendGetters(a) PROVE Abstract!Next /\ ConnInv'
  <2>1. conn' = conn
    BY <1>2, Zenon DEF AppendGetters, writer
  <2> QED
    BY <1>2, <2>1, AppendAccepts, Zenon DEF Abstract!Next, ConnInv
<1>3. ASSUME NEW t \in Tasks, Swap(t) PROVE UNCHANGED Abstract!vars /\ ConnInv'
  <2>1. UNCHANGED <<written, skipped, sent, conn>>
    BY <1>3, Zenon DEF Swap, writer
  <2> QED
    BY <1>3, <2>1, PlaceSwap, Zenon DEF Abstract!vars, ConnInv
<1>4. ASSUME NEW t \in Tasks, Deal(t) PROVE Abstract!Next /\ ConnInv'
  <2>1. conn' = conn \/ MayFail
    BY <1>4, DealCases, Zenon
  <2> QED
    BY <1>4, <2>1, DealImplements, Zenon DEF ConnInv
<1>5. ASSUME NEW t \in Tasks, Flush(t) PROVE Abstract!Next /\ ConnInv'
  BY <1>5, FlushImplements, Zenon
<1>6. ASSUME \A a \in Adders : ~Add(a) /\ ~AppendGetters(a),
             \A t \in Tasks : ~Swap(t) /\ ~Deal(t) /\ ~Flush(t)
      PROVE  UNCHANGED Abstract!vars /\ ConnInv'
  <2>1. UNCHANGED placement /\ UNCHANGED <<conn, sent>>
    BY <1>6, OtherSteps, ConnSteps, Zenon
  <2> QED
    BY <2>1, SamePending, Zenon DEF Abstract!vars, ConnInv, placement
<1> QED
  BY <1>1, <1>2, <1>3, <1>4, <1>5, <1>6, Zenon

(* The shards, triggers and tasks implement the plain queue: every Add     *)
(* accepts fresh getters, each is dealt once, and a flush sends all that   *)
(* was dealt.                                                              *)
THEOREM QueueImplemented == Spec => ImplementsQueue
<1>1. Init => Abstract!Init /\ ConnInv
  <2> SUFFICES ASSUME Init PROVE Abstract!Init /\ ConnInv
    OBVIOUS
  <2>1. Pending = {}
    BY EmptySeq, Zenon DEF Init, Pending
  <2> QED
    BY <2>1, Zenon DEF Init, Abstract!Init, ConnInv
<1> QED
  BY <1>1, ImplementStep, PlaceInvariant, TypeCorrect, RunInvariant, PTL
     DEF Spec, ImplementsQueue, Abstract!Spec
====
