------------------------------ MODULE ShardQueue ------------------------------
(***************************************************************************)
(* mux/shard_queue.go: many goroutines Add writer getters to a queue that  *)
(* is split into shards, and one task at a time, started by whoever makes  *)
(* the trigger counter leave zero, deals the triggered shards to the       *)
(* connection's writer and flushes it.  Every atomic access that two       *)
(* goroutines can race on is a step of its own; a section under a shard's  *)
(* spin lock, or under listLock, is one step.  Add's load of the state and *)
(* its AddInt32 of idx are one step: whatever comes between them commutes. *)
(*                                                                         *)
(* The i-th getter of the c-th Add is <<c, i>>.  It moves from its shard   *)
(* to swap, then to written (appended to the connection's output buffer)   *)
(* or to skipped (a nil writer, or the connection was closed on an error), *)
(* and from written to sent when the buffer is flushed.                    *)
(***************************************************************************)
EXTENDS Integers, Sequences, FiniteSets

CONSTANTS
    Adders,      \* goroutines that call Add
    Closers,     \* goroutines that call Close
    Tasks,       \* goroutines of the runner pool
    Size,        \* number of shards
    MaxInt,      \* the largest int32 (2^31 - 1 in the program)
    Batches,     \* how many getters one Add may carry
    MaxAdds,     \* bound: calls of Add in a behaviour
    MayFail      \* whether Append and Flush of the connection may fail

ASSUME SizeAssumption == Size \in Nat \ {0} /\ MaxInt \in Nat \ {0}
ASSUME BoundsAssumption == Batches \subseteq Nat /\ MaxAdds \in Nat
ASSUME MayFailAssumption == MayFail \in BOOLEAN
ASSUME ProcsAssumption ==
    Adders \cap Closers = {} /\ Adders \cap Tasks = {} /\ Closers \cap Tasks = {}

Procs == Adders \cup Closers \cup Tasks
Shards == 0 .. Size - 1
Getter == Nat \X Nat

VARIABLES
    idx, getters, locks,               \* the shards
    state, trigger, runNum, w, r, list, \* queueTrigger
    swap,                              \* the batch being dealt
    conn,                              \* "open" or "closed": q.conn
    written, sent, skipped,            \* what became of the getters dealt
    pc, shard, batch,                  \* locals of Add (shard: the task's too)
    triggerNum, negNum,                \* locals of the task
    adds                               \* Add calls so far

queue == <<idx, getters, locks>>
queueTrigger == <<state, trigger, runNum, w, r, list>>
writer == <<conn, written, sent, skipped>>
locals == <<shard, batch, triggerNum, negNum, adds>>
vars == <<idx, getters, locks, state, trigger, runNum, w, r, list, swap, conn,
          written, sent, skipped, pc, shard, batch, triggerNum, negNum, adds>>

AddLabels == {"lock", "append", "triggering", "addTrigger", "foreach"}
TaskLabels == {"load", "read", "swapLock", "swap", "deal", "flush",
               "quit", "again", "respawn", "closed"}
CloseLabels == {"loop", "checkTrigger", "storeClosed"}
Labels == {"idle", "panicked", "returned"}
            \cup AddLabels \cup TaskLabels \cup CloseLabels

At(p, label) == pc[p] = label
Goto(p, label) == pc' = [pc EXCEPT ![p] = label]

(* NewShardQueue: every shard empty and unlocked. *)
Init ==
    /\ idx = 0
    /\ getters = [s \in Shards |-> <<>>]
    /\ locks = [s \in Shards |-> 0]
    /\ state = "active"
    /\ trigger = 0 /\ runNum = 0 /\ w = 0 /\ r = 0
    /\ list = [s \in Shards |-> 0]
    /\ swap = <<>>
    /\ conn = "open"
    /\ written = {} /\ sent = {} /\ skipped = {}
    /\ pc = [p \in Procs |-> "idle"]
    /\ shard = [p \in Procs |-> 0]
    /\ batch = [a \in Adders |-> <<>>]
    /\ triggerNum = [t \in Tasks |-> 0]
    /\ negNum = [t \in Tasks |-> 0]
    /\ adds = 0

-----------------------------------------------------------------------------
(* Add and triggering.                                                     *)

(* atomic.AddInt32 wraps. *)
NextInt(i) == IF i = MaxInt THEN -MaxInt - 1 ELSE i + 1

(* Go's remainder takes the sign of the dividend. *)
Rem(a, b) == IF a >= 0 THEN a % b ELSE -((-a) % b)

(* Add on an active queue: take the next shard.  An index that is not a    *)
(* shard panics in q.locks[shard].                                         *)
Add(a) ==
    /\ At(a, "idle")
    /\ adds < MaxAdds
    /\ state = "active"
    /\ idx' = NextInt(idx)
    /\ adds' = adds + 1
    /\ \E n \in Batches :
         batch' = [batch EXCEPT ![a] = [i \in 1 .. n |-> <<adds + 1, i>>]]
    /\ LET s == Rem(NextInt(idx), Size) IN
         IF s \in Shards
         THEN shard' = [shard EXCEPT ![a] = s] /\ Goto(a, "lock")
         ELSE shard' = shard /\ Goto(a, "panicked")
    /\ UNCHANGED <<getters, locks, queueTrigger, swap, writer, triggerNum, negNum>>

(* q.lock: a spin lock per shard. *)
Lock(p, from, to) ==
    /\ At(p, from)
    /\ locks[shard[p]] = 0
    /\ locks' = [locks EXCEPT ![shard[p]] = 1]
    /\ Goto(p, to)
    /\ UNCHANGED <<idx, getters, queueTrigger, swap, writer, locals>>

AddLock(a) == Lock(a, "lock", "append")

(* Under the shard's lock: note whether it was empty, append, unlock. *)
AppendGetters(a) ==
    /\ At(a, "append")
    /\ getters' = [getters EXCEPT ![shard[a]] = @ \o batch[a]]
    /\ locks' = [locks EXCEPT ![shard[a]] = 0]
    /\ batch' = [batch EXCEPT ![a] = <<>>]
    /\ Goto(a, IF getters[shard[a]] = <<>> THEN "triggering" ELSE "idle")
    /\ UNCHANGED <<idx, queueTrigger, swap, writer, shard, triggerNum, negNum, adds>>

(* triggering, under listLock: enter the shard in the ring. *)
Triggering(a) ==
    /\ At(a, "triggering")
    /\ w' = (w + 1) % Size
    /\ list' = [list EXCEPT ![(w + 1) % Size] = shard[a]]
    /\ Goto(a, "addTrigger")
    /\ UNCHANGED <<queue, state, trigger, runNum, r, swap, writer, locals>>

(* ... and count it: only the call that leaves zero goes on to foreach. *)
AddTrigger(a) ==
    /\ At(a, "addTrigger")
    /\ trigger' = trigger + 1
    /\ Goto(a, IF trigger + 1 > 1 THEN "idle" ELSE "foreach")
    /\ UNCHANGED <<queue, state, runNum, w, r, list, swap, writer, locals>>

(* foreach: the first to raise runNum starts the task. *)
Foreach(a) ==
    /\ At(a, "foreach")
    /\ runNum' = runNum + 1
    /\ IF runNum + 1 > 1
       THEN Goto(a, "idle")
       ELSE \E t \in Tasks :
              /\ At(t, "idle")
              /\ pc' = [pc EXCEPT ![a] = "idle", ![t] = "load"]
    /\ UNCHANGED <<queue, state, trigger, w, r, list, swap, writer, locals>>

-----------------------------------------------------------------------------
(* The task started by foreach.                                            *)

LoadTrigger(t) ==
    /\ At(t, "load")
    /\ triggerNum' = [triggerNum EXCEPT ![t] = trigger]
    /\ negNum' = [negNum EXCEPT ![t] = 0]
    /\ Goto(t, IF trigger > 0 THEN "read" ELSE "flush")
    /\ UNCHANGED <<queue, queueTrigger, swap, writer, shard, batch, adds>>

(* The next shard of the ring; list is read without listLock. *)
ReadList(t) ==
    /\ At(t, "read")
    /\ r' = (r + 1) % Size
    /\ shard' = [shard EXCEPT ![t] = list[(r + 1) % Size]]
    /\ Goto(t, "swapLock")
    /\ UNCHANGED <<queue, state, trigger, runNum, w, list, swap, writer, batch,
                   triggerNum, negNum, adds>>

SwapLock(t) == Lock(t, "swapLock", "swap")

(* Mutant of Swap: the shard keeps its getters. *)
Swap_kept(t) ==
    /\ At(t, "swap")
    /\ swap' = getters[shard[t]]
    /\ locks' = [locks EXCEPT ![shard[t]] = 0]
    /\ Goto(t, "deal")
    /\ UNCHANGED <<idx, getters, queueTrigger, writer, locals>>

(* Under the shard's lock: take its getters, leave an empty slice, unlock. *)
Swap(t) ==
    /\ At(t, "swap")
    /\ swap' = getters[shard[t]]
    /\ getters' = [getters EXCEPT ![shard[t]] = <<>>]
    /\ locks' = [locks EXCEPT ![shard[t]] = 0]
    /\ Goto(t, "deal")
    /\ UNCHANGED <<idx, queueTrigger, writer, locals>>

(* deal, one getter: appended to the connection's writer, or nil.  If the  *)
(* append fails the connection is closed and the rest of the batch skipped. *)
Deal(t) ==
    /\ At(t, "deal")
    /\ swap # <<>>
    /\ \/ /\ written' = written \cup {Head(swap)}
          /\ swap' = Tail(swap)
          /\ UNCHANGED <<conn, skipped>>
       \/ /\ skipped' = skipped \cup {Head(swap)}
          /\ swap' = Tail(swap)
          /\ UNCHANGED <<conn, written>>
       \/ /\ MayFail
          /\ conn' = "closed"
          /\ skipped' = skipped \cup {swap[i] : i \in DOMAIN swap}
          /\ swap' = <<>>
          /\ UNCHANGED written
    /\ UNCHANGED <<queue, queueTrigger, sent, pc, locals>>

(* Mutant of Count: the counter is reset to zero, so what was triggered    *)
(* since it was loaded is forgotten.                                       *)
Count_reset(t) ==
    /\ At(t, "deal")
    /\ swap = <<>>
    /\ IF triggerNum[t] + negNum[t] - 1 = 0
       THEN /\ trigger' = 0
            /\ triggerNum' = [triggerNum EXCEPT ![t] = 0]
            /\ negNum' = [negNum EXCEPT ![t] = 0]
            /\ Goto(t, "flush")
       ELSE /\ negNum' = [negNum EXCEPT ![t] = @ - 1]
            /\ Goto(t, "read")
            /\ UNCHANGED <<trigger, triggerNum>>
    /\ UNCHANGED <<queue, state, runNum, w, r, list, swap, writer, shard, batch, adds>>

(* After the batch: negNum--, and settle with trigger when all that were   *)
(* counted are done.                                                       *)
Count(t) ==
    /\ At(t, "deal")
    /\ swap = <<>>
    /\ IF triggerNum[t] + negNum[t] - 1 = 0
       THEN LET left == trigger + negNum[t] - 1 IN
              /\ trigger' = left
              /\ triggerNum' = [triggerNum EXCEPT ![t] = left]
              /\ negNum' = [negNum EXCEPT ![t] = 0]
              /\ Goto(t, IF left > 0 THEN "read" ELSE "flush")
       ELSE /\ negNum' = [negNum EXCEPT ![t] = @ - 1]
            /\ Goto(t, "read")
            /\ UNCHANGED <<trigger, triggerNum>>
    /\ UNCHANGED <<queue, state, runNum, w, r, list, swap, writer, shard, batch, adds>>

(* flush: what was appended is sent, or the connection is closed. *)
Flush(t) ==
    /\ At(t, "flush")
    /\ \/ /\ conn = "open"
          /\ sent' = written
          /\ UNCHANGED conn
       \/ /\ MayFail \/ conn = "closed"
          /\ conn' = "closed"
          /\ UNCHANGED sent
    /\ Goto(t, "quit")
    /\ UNCHANGED <<queue, queueTrigger, swap, written, skipped, locals>>

(* quit ... *)
Quit(t) ==
    /\ At(t, "quit")
    /\ runNum' = 0
    /\ Goto(t, "again")
    /\ UNCHANGED <<queue, state, trigger, w, r, list, swap, writer, locals>>

(* ... & check again. *)
Again(t) ==
    /\ At(t, "again")
    /\ Goto(t, IF trigger > 0 THEN "respawn" ELSE "closed")
    /\ UNCHANGED <<queue, queueTrigger, swap, writer, locals>>

(* foreach from the task: the new task takes the place of the old one,     *)
(* which returns.                                                          *)
Respawn(t) ==
    /\ At(t, "respawn")
    /\ runNum' = runNum + 1
    /\ Goto(t, IF runNum + 1 > 1 THEN "idle" ELSE "load")
    /\ UNCHANGED <<queue, state, trigger, w, r, list, swap, writer, locals>>

(* If state is closing, change it to closed. *)
Closed(t) ==
    /\ At(t, "closed")
    /\ state' = IF state = "closing" THEN "closed" ELSE state
    /\ Goto(t, "idle")
    /\ UNCHANGED <<queue, trigger, runNum, w, r, list, swap, writer, locals>>

-----------------------------------------------------------------------------
(* Close.                                                                  *)

(* A second Close returns an error. *)
Close(c) ==
    /\ At(c, "idle")
    /\ IF state = "active"
       THEN state' = "closing" /\ Goto(c, "loop")
       ELSE state' = state /\ Goto(c, "returned")
    /\ UNCHANGED <<queue, trigger, runNum, w, r, list, swap, writer, locals>>

(* Mutant of CheckTrigger: Close only waits for a task to close the queue. *)
CheckTrigger_waits(c) ==
    /\ At(c, "checkTrigger")
    /\ Goto(c, "loop")
    /\ UNCHANGED <<queue, queueTrigger, swap, writer, locals>>

CloseLoop(c) ==
    /\ At(c, "loop")
    /\ Goto(c, IF state = "closed" THEN "returned" ELSE "checkTrigger")
    /\ UNCHANGED <<queue, queueTrigger, swap, writer, locals>>

CheckTrigger(c) ==
    /\ At(c, "checkTrigger")
    /\ Goto(c, IF trigger = 0 THEN "storeClosed" ELSE "loop")
    /\ UNCHANGED <<queue, queueTrigger, swap, writer, locals>>

StoreClosed(c) ==
    /\ At(c, "storeClosed")
    /\ state' = "closed"
    /\ Goto(c, "returned")
    /\ UNCHANGED <<queue, trigger, runNum, w, r, list, swap, writer, locals>>

-----------------------------------------------------------------------------
AdderNext(a) ==
    \/ Add(a) \/ AddLock(a) \/ AppendGetters(a)
    \/ Triggering(a) \/ AddTrigger(a) \/ Foreach(a)

TaskNext(t) ==
    \/ LoadTrigger(t) \/ ReadList(t) \/ SwapLock(t) \/ Swap(t) \/ Deal(t)
    \/ Count(t) \/ Flush(t) \/ Quit(t) \/ Again(t) \/ Respawn(t) \/ Closed(t)

CloserNext(c) ==
    \/ Close(c) \/ CloseLoop(c) \/ CheckTrigger(c) \/ StoreClosed(c)

Next ==
    \/ \E a \in Adders : AdderNext(a)
    \/ \E t \in Tasks : TaskNext(t)
    \/ \E c \in Closers : CloserNext(c)

Spec == Init /\ [][Next]_vars

(* Goroutines are scheduled: a call in progress and a started task go on.  *)
(* Nobody is obliged to call Add or Close.                                 *)
Fairness ==
    /\ \A a \in Adders : WF_vars(AdderNext(a) /\ ~At(a, "idle"))
    /\ \A t \in Tasks : WF_vars(TaskNext(t))
    /\ \A c \in Closers : WF_vars(CloserNext(c) /\ ~At(c, "idle"))

FairSpec == Spec /\ Fairness

-----------------------------------------------------------------------------
(* Properties.                                                             *)

Elems(seq) == {seq[i] : i \in DOMAIN seq}

(* The getters that were accepted and not dealt yet. *)
Pending == (UNION {Elems(getters[s]) : s \in Shards}) \cup Elems(swap)

TypeOK ==
    /\ idx \in -MaxInt - 1 .. MaxInt
    /\ getters \in [Shards -> Seq(Getter)]
    /\ locks \in [Shards -> {0, 1}]
    /\ state \in {"active", "closing", "closed"}
    /\ trigger \in Int /\ runNum \in Nat
    /\ w \in Shards /\ r \in Shards
    /\ list \in [Shards -> Shards]
    /\ swap \in Seq(Getter)
    /\ conn \in {"open", "closed"}
    /\ written \subseteq Getter
    /\ sent \subseteq Getter
    /\ skipped \subseteq Getter
    /\ pc \in [Procs -> Labels]
    /\ shard \in [Procs -> Shards]
    /\ batch \in [Adders -> Seq(Getter)]
    /\ triggerNum \in [Tasks -> Int]
    /\ negNum \in [Tasks -> Int]
    /\ adds \in Nat

(* foreach "is not concurrency safe" (r, swap and the connection's writer  *)
(* have no lock), so between the start of a task and its store of runNum   *)
(* no other task may be in that stretch.                                   *)
Dealing(t) == pc[t] \in {"load", "read", "swapLock", "swap", "deal", "flush", "quit"}

OneTask == \A t, u \in Tasks : Dealing(t) /\ Dealing(u) => t = u

(* A getter is in one place only: its shard, the batch being dealt, or the *)
(* set it was dealt to.  None is dealt twice.                              *)
DealtOnce ==
    /\ written \cap skipped = {}
    /\ Pending \cap (written \cup skipped) = {}
    /\ \A s1, s2 \in Shards :
         s1 # s2 => Elems(getters[s1]) \cap Elems(getters[s2]) = {}
    /\ \A s \in Shards : Elems(getters[s]) \cap Elems(swap) = {}

(* "The Data Flush is passively triggered by ShardQueue.Add and does not   *)
(* require user operations": once no Add is in progress and no task is     *)
(* left, no shard holds a getter that nobody will deal, and what was       *)
(* written was flushed, unless the connection was closed on an error.      *)
Quiet ==
    /\ \A a \in Adders : pc[a] \in {"idle", "panicked"}
    /\ \A t \in Tasks : At(t, "idle")

(* A pending getter is eventually sent or skipped, or the connection was   *)
(* closed: the chain of triggers never breaks, whatever the interleaving   *)
(* of Adds with the task that is about to quit.                            *)
GettersSent ==
    \A c \in 1 .. MaxAdds :
        (<<c, 1>> \in Pending) ~> (<<c, 1>> \in sent \cup skipped \/ conn = "closed")

(* Close returns. *)
CloseReturns == \A c \in Closers : At(c, "loop") ~> At(c, "returned")

(* The shards, triggers and tasks implement the plain queue. *)
Abstract == INSTANCE MuxQueue WITH
    Getters <- Getter, pending <- Pending

ImplementsQueue == Abstract!Spec
====
