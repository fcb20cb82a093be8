----------------------------- MODULE FlushProofs -----------------------------
(***************************************************************************)
(* Proofs about Flush, for any number of writers and any amount of data.   *)
(***************************************************************************)
EXTENDS Flush, TLAPS

(* Who takes part. *)
LEMMA ProcsFacts ==
    /\ Writers \subseteq Procs /\ Closers \subseteq Procs
    /\ {Poller, Closer, Hup} \subseteq Procs
    /\ Writers \cap Closers = {} /\ Poller \notin Writers /\ Poller \notin Closers
BY FlushAssumption, Zenon DEF Procs, Closers

(* The flushing key belongs to the one writer inside flush; it is stopped  *)
(* before the operator is freed and never given out again.  The operator   *)
(* is at "do" exactly while the poller writes.                             *)
FlushInv ==
    /\ pc \in [Procs -> Labels]
    /\ flushing \in {0, 1, 2} /\ opState \in {0, 1, 2}
    /\ \A w \in Writers : pc[w] \in FlushLabels => flushing = 1
    /\ \A v, w \in Writers : pc[v] \in FlushLabels /\ pc[w] \in FlushLabels => v = w
    /\ \A c \in Closers : At(c, "free") => flushing = 2
    /\ opState = 0 => flushing = 2
    /\ pc[Poller] \in PollLabels \ {"do"} <=> opState = 2
    /\ \A w \in Writers : pc[w] \in {"idle", "lock"} \cup FlushLabels
    /\ \A c \in Closers : pc[c] \in {"idle", "onHup"} \cup CloseLabels
    /\ pc[Poller] \in {"idle"} \cup PollLabels

(* It holds at first. *)
LEMMA FlushInit == Init => FlushInv
BY ProcsFacts DEF Init, FlushInv, Labels, FlushLabels, PollLabels, CloseLabels, At

(* Every step keeps it. *)
LEMMA FlushStep ==
  ASSUME FlushInv, [Next]_vars
  PROVE  FlushInv'
<1> USE ProcsFacts, FlushAssumption
<1> USE DEF FlushInv, Labels, FlushLabels, PollLabels, CloseLabels, At, Goto, Return,
            Closers, keys
<1>1. ASSUME NEW w \in Writers, FlushCall(w) PROVE FlushInv'
  BY <1>1 DEF FlushCall
<1>2. ASSUME NEW w \in Writers, LockFlushing(w) PROVE FlushInv'
  BY <1>2 DEF LockFlushing
<1>3. ASSUME NEW w \in Writers, FlushBuffer(w) PROVE FlushInv'
  BY <1>3 DEF FlushBuffer
<1>4. ASSUME NEW w \in Writers, SendMsg(w) PROVE FlushInv'
  BY <1>4 DEF SendMsg
<1>5. ASSUME NEW w \in Writers, AskPoller(w) PROVE FlushInv'
  BY <1>5 DEF AskPoller
<1>6. ASSUME NEW w \in Writers, WaitFlush(w) PROVE FlushInv'
  BY <1>6 DEF WaitFlush
<1>7. ASSUME NEW w \in Writers, Expire(w) PROVE FlushInv'
  BY <1>7 DEF Expire
<1>8. ASSUME NEW w \in Writers, TryTrigger(w) PROVE FlushInv'
  BY <1>8 DEF TryTrigger
<1>9. ASSUME NEW w \in Writers, WriteTimedOut(w) PROVE FlushInv'
  BY <1>9 DEF WriteTimedOut
<1>10. ASSUME NEW w \in Writers, UnlockFlushing(w) PROVE FlushInv'
  BY <1>10 DEF UnlockFlushing
<1>11. CASE PollWait
  BY <1>11 DEF PollWait
<1>12. CASE PollDo
  BY <1>12 DEF PollDo
<1>13. CASE Outputs
  BY <1>13 DEF Outputs
<1>14. CASE IoSend
  BY <1>14 DEF IoSend
<1>15. CASE OutputAck
  BY <1>15 DEF OutputAck
<1>16. CASE RW2R
  BY <1>16 DEF RW2R
<1>17. CASE RW2RTrigger
  BY <1>17 DEF RW2RTrigger
<1>18. CASE PollDone
  BY <1>18 DEF PollDone
<1>19. CASE PeerClose
  BY <1>19 DEF PeerClose
<1>20. CASE OnHup
  BY <1>20 DEF OnHup
<1>21. CASE OnClose
  BY <1>21 DEF OnClose
<1>22. ASSUME NEW c \in Closers, CloseTrigger(c) PROVE FlushInv'
  BY <1>22 DEF CloseTrigger
<1>23. ASSUME NEW c \in Closers, CloseLock(c) PROVE FlushInv'
  BY <1>23 DEF CloseLock
<1>24. ASSUME NEW c \in Closers, Detach(c) PROVE FlushInv'
  BY <1>24 DEF Detach
<1>25. ASSUME NEW c \in Closers, StopFlushing(c) PROVE FlushInv'
  BY <1>25 DEF StopFlushing
<1>26. ASSUME NEW c \in Closers, Free(c) PROVE FlushInv'
  BY <1>26 DEF Free
<1>27. CASE UNCHANGED vars
  BY <1>27, Zenon DEF vars
<1> HIDE DEF FlushInv, Labels, FlushLabels, PollLabels, CloseLabels, At, Goto, Return,
             Closers, keys
<1> QED
  BY <1>1, <1>2, <1>3, <1>4, <1>5, <1>6, <1>7, <1>8, <1>9, <1>10, <1>11, <1>12,
     <1>13, <1>14, <1>15, <1>16, <1>17, <1>18, <1>19, <1>20, <1>21, <1>22,
     <1>23, <1>24, <1>25, <1>26, <1>27, Zenon
     DEF Next, InFlush, InPoll, InClose

(* "closing should wait for flushing finished": the operator is freed only *)
(* when no writer is in flush and the poller is not writing.               *)
THEOREM FlushBeforeFree == Spec => []FreedAfterFlush
<1>1. FlushInv => FreedAfterFlush
  BY DEF FlushInv, FreedAfterFlush
<1> QED
  BY <1>1, FlushInit, FlushStep, PTL DEF Spec

-----------------------------------------------------------------------------
(* What is sent.                                                           *)

Errors == {"nil", "concurrent", "io", "timeout", "connClosed"}

(* The types of the data.  The bytes of a flush are counted in goal and no *)
(* other writer adds to the buffer before it has returned; only a close    *)
(* leaves an error in the channel.                                         *)
DataInv ==
    /\ head \in Nat /\ tail \in Nat /\ sentTo \in Nat /\ head <= tail
    /\ lo \in [Procs -> Nat] /\ hi \in [Procs -> Nat]
    /\ goal \in [Writers -> Nat] /\ err \in [Writers -> Errors]
    /\ writeTrigger \in {"empty", "nil", "connClosed"}
    /\ pc[Poller] \in {"iosend", "ack"} => lo[Poller] <= hi[Poller]
    /\ writeTrigger = "connClosed" => closing # "none"
    /\ \A c \in Closers : At(c, "closeTrigger") => closing # "none"
    /\ \A w \in Writers : pc[w] \in {"send", "empty", "wait", "try", "rw2r"} => goal[w] = tail
    /\ ~MayClose => /\ closing = "none" /\ hupErr = FALSE
                    /\ At(Hup, "idle")

(* Without a timeout, and until a close can meet a second writer, nobody   *)
(* sends but the writer inside flush or, while it waits, the poller.       *)
Calm == ~writeTimeout /\ (closing = "none" \/ \A v, w \in Writers : v = w)

PollerSends == pc[Poller] \in {"do", "outputs", "iosend", "ack", "control", "trigger"}

(* The only writer was woken by a close and left the rest to the poller. *)
Abandoned == closing # "none" /\ \A w \in Writers : pc[w] \in {"idle", "unlock"}

(* The poller works, may be called, or has left its trigger, only for a    *)
(* writer that waits (or is gone for good); the trigger is its last deed   *)
(* and says that the buffer is empty.  What was sent is what was skipped,  *)
(* except between the poller's send and its outputAck.                     *)
TurnInv ==
    /\ epollOut \/ PollerSends \/ writeTrigger = "nil" =>
         (\E w \in Writers : At(w, "wait")) \/ Abandoned
    /\ writeTrigger = "nil" => ~epollOut /\ ~PollerSends /\ head = tail
    /\ pc[Poller] \in {"control", "trigger"} => head = tail
    /\ At(Poller, "trigger") => ~epollOut
    /\ ~At(Poller, "ack") => sentTo = head
    /\ At(Poller, "iosend") => lo[Poller] = head /\ hi[Poller] = tail
    /\ At(Poller, "ack") => /\ lo[Poller] = head /\ hi[Poller] = sentTo
                            /\ head <= sentTo /\ sentTo <= tail
    /\ \A w \in Writers : At(w, "send") => lo[w] = head /\ hi[w] = tail

(* Nothing was sent out of place, and who returned nil has sent its bytes. *)
SentInv ==
    /\ ordered
    /\ \A w \in Writers : At(w, "unlock") /\ err[w] = "nil" => sentTo >= goal[w]

OutputInv == DataInv /\ (Calm => TurnInv /\ SentInv)

LEMMA OutputInit == Init => OutputInv
BY ProcsFacts DEF Init, OutputInv, DataInv, TurnInv, SentInv, PollerSends, At, Errors, Closers

(* Every step keeps the types. *)
LEMMA DataStep ==
  ASSUME FlushInv, DataInv, [Next]_vars
  PROVE  DataInv'
<1> USE ProcsFacts, FlushAssumption
<1> USE DEF DataInv, FlushInv, FlushLabels, PollLabels, CloseLabels, At, Goto, Return, Errors,
            Closers, keys, buffer, wire, epoll, bytes, results, Skip, TriggerWrite, Send
<1>1. ASSUME NEW w \in Writers, FlushCall(w) PROVE DataInv'
  BY <1>1 DEF FlushCall
<1>2. ASSUME NEW w \in Writers, LockFlushing(w) PROVE DataInv'
  BY <1>2 DEF LockFlushing
<1>3. ASSUME NEW w \in Writers, FlushBuffer(w) PROVE DataInv'
  BY <1>3 DEF FlushBuffer
<1>4. ASSUME NEW w \in Writers, SendMsg(w) PROVE DataInv'
  BY <1>4 DEF SendMsg
<1>5. ASSUME NEW w \in Writers, AskPoller(w) PROVE DataInv'
  BY <1>5 DEF AskPoller
<1>6. ASSUME NEW w \in Writers, WaitFlush(w) PROVE DataInv'
  BY <1>6 DEF WaitFlush
<1>7. ASSUME NEW w \in Writers, Expire(w) PROVE DataInv'
  BY <1>7 DEF Expire
<1>8. ASSUME NEW w \in Writers, TryTrigger(w) PROVE DataInv'
  BY <1>8 DEF TryTrigger
<1>9. ASSUME NEW w \in Writers, WriteTimedOut(w) PROVE DataInv'
  BY <1>9 DEF WriteTimedOut
<1>10. ASSUME NEW w \in Writers, UnlockFlushing(w) PROVE DataInv'
  BY <1>10 DEF UnlockFlushing
<1>11. CASE PollWait
  BY <1>11 DEF PollWait
<1>12. CASE PollDo
  BY <1>12 DEF PollDo
<1>13. CASE Outputs
  BY <1>13 DEF Outputs
<1>14. CASE IoSend
  BY <1>14 DEF IoSend
<1>15. CASE OutputAck
  BY <1>15 DEF OutputAck
<1>16. CASE RW2R
  BY <1>16 DEF RW2R
<1>17. CASE RW2RTrigger
  BY <1>17 DEF RW2RTrigger
<1>18. CASE PollDone
  BY <1>18 DEF PollDone
<1>19. CASE PeerClose
  BY <1>19, Zenon DEF PeerClose
<1>20. CASE OnHup
  BY <1>20 DEF OnHup
<1>21. CASE OnClose
  BY <1>21, Zenon DEF OnClose
<1>22. ASSUME NEW c \in Closers, CloseTrigger(c) PROVE DataInv'
  BY <1>22, Zenon DEF CloseTrigger
<1>23. ASSUME NEW c \in Closers, CloseLock(c) PROVE DataInv'
  BY <1>23 DEF CloseLock
<1>24. ASSUME NEW c \in Closers, Detach(c) PROVE DataInv'
  BY <1>24 DEF Detach
<1>25. ASSUME NEW c \in Closers, StopFlushing(c) PROVE DataInv'
  BY <1>25 DEF StopFlushing
<1>26. ASSUME NEW c \in Closers, Free(c) PROVE DataInv'
  BY <1>26, Zenon DEF Free
<1>27. CASE UNCHANGED vars
  BY <1>27, Zenon DEF vars
<1> HIDE DEF DataInv, FlushInv, FlushLabels, PollLabels, CloseLabels, At, Goto, Return, Errors,
             Closers, keys, buffer, wire, epoll, bytes, results, Skip, TriggerWrite, Send
<1> QED
  BY <1>1, <1>2, <1>3, <1>4, <1>5, <1>6, <1>7, <1>8, <1>9, <1>10, <1>11, <1>12,
     <1>13, <1>14, <1>15, <1>16, <1>17, <1>18, <1>19, <1>20, <1>21, <1>22,
     <1>23, <1>24, <1>25, <1>26, <1>27, Zenon
     DEF Next, InFlush, InPoll, InClose

(* Writer and poller keep their turns.  Calm held before if it holds now:  *)
(* a timeout is set for good, and a connection does not open again.        *)
LEMMA TurnStep ==
  ASSUME FlushInv, DataInv, DataInv', Calm, TurnInv, Calm', [Next]_vars
  PROVE  TurnInv'
<1> USE ProcsFacts, FlushAssumption
<1> USE DEF DataInv, FlushInv, TurnInv, Calm, Abandoned, PollerSends, FlushLabels, PollLabels,
            CloseLabels, At, Goto, Return, Errors, Closers, keys, buffer, wire, epoll, bytes,
            results, Skip, TriggerWrite, Send
<1>1. ASSUME NEW w \in Writers, FlushCall(w) PROVE TurnInv'
  BY <1>1 DEF FlushCall
<1>2. ASSUME NEW w \in Writers, LockFlushing(w) PROVE TurnInv'
  BY <1>2 DEF LockFlushing
<1>3. ASSUME NEW w \in Writers, FlushBuffer(w) PROVE TurnInv'
  BY <1>3 DEF FlushBuffer
<1>4. ASSUME NEW w \in Writers, SendMsg(w) PROVE TurnInv'
  BY <1>4 DEF SendMsg
<1>5. ASSUME NEW w \in Writers, AskPoller(w) PROVE TurnInv'
  BY <1>5 DEF AskPoller
<1>6. ASSUME NEW w \in Writers, WaitFlush(w) PROVE TurnInv'
  BY <1>6 DEF WaitFlush
<1>7. ASSUME NEW w \in Writers, Expire(w) PROVE TurnInv'
  BY <1>7, Zenon DEF Expire
<1>8. ASSUME NEW w \in Writers, TryTrigger(w) PROVE TurnInv'
  BY <1>8 DEF TryTrigger
<1>9. ASSUME NEW w \in Writers, WriteTimedOut(w) PROVE TurnInv'
  BY <1>9 DEF WriteTimedOut
<1>10. ASSUME NEW w \in Writers, UnlockFlushing(w) PROVE TurnInv'
  BY <1>10 DEF UnlockFlushing
<1>11. CASE PollWait
  BY <1>11 DEF PollWait
<1>12. CASE PollDo
  BY <1>12 DEF PollDo
<1>13. CASE Outputs
  BY <1>13 DEF Outputs
<1>14. CASE IoSend
  BY <1>14 DEF IoSend
<1>15. CASE OutputAck
  BY <1>15 DEF OutputAck
<1>16. CASE RW2R
  BY <1>16 DEF RW2R
<1>17. CASE RW2RTrigger
  BY <1>17 DEF RW2RTrigger
<1>18. CASE PollDone
  BY <1>18 DEF PollDone
<1>19. CASE PeerClose
  BY <1>19 DEF PeerClose
<1>20. CASE OnHup
  BY <1>20 DEF OnHup
<1>21. CASE OnClose
  BY <1>21 DEF OnClose
<1>22. ASSUME NEW c \in Closers, CloseTrigger(c) PROVE TurnInv'
  BY <1>22 DEF CloseTrigger
<1>23. ASSUME NEW c \in Closers, CloseLock(c) PROVE TurnInv'
  BY <1>23 DEF CloseLock
<1>24. ASSUME NEW c \in Closers, Detach(c) PROVE TurnInv'
  BY <1>24 DEF Detach
<1>25. ASSUME NEW c \in Closers, StopFlushing(c) PROVE TurnInv'
  BY <1>25 DEF StopFlushing
<1>26. ASSUME NEW c \in Closers, Free(c) PROVE TurnInv'
  BY <1>26 DEF Free
<1>27. CASE UNCHANGED vars
  BY <1>27, Zenon DEF vars
<1> HIDE DEF DataInv, FlushInv, TurnInv, Calm, Abandoned, PollerSends, FlushLabels, PollLabels,
             CloseLabels, At, Goto, Return, Errors, Closers, keys, buffer, wire, epoll, bytes,
             results, Skip, TriggerWrite, Send
<1> QED
  BY <1>1, <1>2, <1>3, <1>4, <1>5, <1>6, <1>7, <1>8, <1>9, <1>10, <1>11, <1>12,
     <1>13, <1>14, <1>15, <1>16, <1>17, <1>18, <1>19, <1>20, <1>21, <1>22,
     <1>23, <1>24, <1>25, <1>26, <1>27, Zenon
     DEF Next, InFlush, InPoll, InClose

LEMMA SentStep ==
  ASSUME FlushInv, DataInv, DataInv', Calm, TurnInv, SentInv, Calm', [Next]_vars
  PROVE  SentInv'
<1> USE ProcsFacts, FlushAssumption
<1> USE DEF DataInv, FlushInv, TurnInv, SentInv, Calm, Abandoned, PollerSends, FlushLabels,
            PollLabels, CloseLabels, At, Goto, Return, Errors, Closers, keys, buffer, wire, epoll,
            bytes, results, Skip, TriggerWrite, Send
<1>1. ASSUME NEW w \in Writers, FlushCall(w) PROVE SentInv'
  BY <1>1, Zenon DEF FlushCall
<1>2. ASSUME NEW w \in Writers, LockFlushing(w) PROVE SentInv'
  BY <1>2 DEF LockFlushing
<1>3. ASSUME NEW w \in Writers, FlushBuffer(w) PROVE SentInv'
  BY <1>3 DEF FlushBuffer
<1>4. ASSUME NEW w \in Writers, SendMsg(w) PROVE SentInv'
  <2>1. ASSUME NEW m \in lo[w] .. hi[w], Send(w, m),
               (err' = err /\ Goto(w, "empty")) \/ Return(w, "io")
        PROVE  SentInv'
    <3>1. ordered' BY <1>4, <2>1 DEF SendMsg
    <3>2. sentTo' >= sentTo BY <1>4, <2>1 DEF SendMsg
    <3>3. \A v \in Writers : v # w => pc'[v] = pc[v] /\ err'[v] = err[v] /\ goal'[v] = goal[v]
      BY <1>4, <2>1 DEF SendMsg
    <3>4. ~(pc'[w] = "unlock" /\ err'[w] = "nil") BY <2>1
    <3> QED BY <1>4, <3>1, <3>2, <3>3, <3>4 DEF SendMsg
  <2>2. CASE Return(w, "io") /\ UNCHANGED <<head, wire>> BY <1>4, <2>2 DEF SendMsg
  <2> QED BY <1>4, <2>1, <2>2, Zenon DEF SendMsg
<1>5. ASSUME NEW w \in Writers, AskPoller(w) PROVE SentInv'
  BY <1>5 DEF AskPoller
<1>6. ASSUME NEW w \in Writers, WaitFlush(w) PROVE SentInv'
  BY <1>6 DEF WaitFlush
<1>7. ASSUME NEW w \in Writers, Expire(w) PROVE SentInv'
  BY <1>7, Zenon DEF Expire
<1>8. ASSUME NEW w \in Writers, TryTrigger(w) PROVE SentInv'
  BY <1>8 DEF TryTrigger
<1>9. ASSUME NEW w \in Writers, WriteTimedOut(w) PROVE SentInv'
  BY <1>9, Zenon DEF WriteTimedOut
<1>10. ASSUME NEW w \in Writers, UnlockFlushing(w) PROVE SentInv'
  BY <1>10, Zenon DEF UnlockFlushing
<1>11. CASE PollWait
  BY <1>11, Zenon DEF PollWait
<1>12. CASE PollDo
  BY <1>12 DEF PollDo
<1>13. CASE Outputs
  BY <1>13 DEF Outputs
<1>14. CASE IoSend
  <2>1. lo[Poller] = sentTo /\ sentTo \in Nat
    BY <1>14, Zenon DEF IoSend
  <2>2. ordered' /\ sentTo' >= sentTo
    <3>1. CASE UNCHANGED wire
      BY <2>1, <3>1
    <3>2. ASSUME NEW m \in lo[Poller] + 1 .. hi[Poller], Send(Poller, m)
          PROVE  ordered' /\ sentTo' >= sentTo
      <4>1. ordered'
        BY <2>1, <3>2, Zenon
      <4>2. m \in Int /\ sentTo' = IF m > sentTo THEN m ELSE sentTo
        BY <2>1, <3>2
      <4> QED
        BY <2>1, <4>1, <4>2
    <3>3. UNCHANGED wire \/ \E m \in lo[Poller] + 1 .. hi[Poller] : Send(Poller, m)
      BY <1>14, Zenon DEF IoSend
    <3> QED
      BY <3>1, <3>2, <3>3, Zenon
  <2>3. err' = err /\ goal' = goal /\ \A w \in Writers : pc'[w] = pc[w]
    BY <1>14 DEF IoSend
  <2>4. sentTo' \in Nat /\ \A w \in Writers : goal[w] \in Nat
    OBVIOUS
  <2> QED
    BY <2>1, <2>2, <2>3, <2>4
<1>15. CASE OutputAck
  BY <1>15, Zenon DEF OutputAck
<1>16. CASE RW2R
  BY <1>16, Zenon DEF RW2R
<1>17. CASE RW2RTrigger
  BY <1>17, Zenon DEF RW2RTrigger
<1>18. CASE PollDone
  BY <1>18 DEF PollDone
<1>19. CASE PeerClose
  BY <1>19, Zenon DEF PeerClose
<1>20. CASE OnHup
  BY <1>20 DEF OnHup
<1>21. CASE OnClose
  BY <1>21, Zenon DEF OnClose
<1>22. ASSUME NEW c \in Closers, CloseTrigger(c) PROVE SentInv'
  BY <1>22, Zenon DEF CloseTrigger
<1>23. ASSUME NEW c \in Closers, CloseLock(c) PROVE SentInv'
  BY <1>23 DEF CloseLock
<1>24. ASSUME NEW c \in Closers, Detach(c) PROVE SentInv'
  BY <1>24, Zenon DEF Detach
<1>25. ASSUME NEW c \in Closers, StopFlushing(c) PROVE SentInv'
  BY <1>25, Zenon DEF StopFlushing
<1>26. ASSUME NEW c \in Closers, Free(c) PROVE SentInv'
  BY <1>26, Zenon DEF Free
<1>27. CASE UNCHANGED vars
  BY <1>27, Zenon DEF vars
<1> HIDE DEF DataInv, FlushInv, TurnInv, SentInv, Calm, Abandoned, PollerSends, FlushLabels,
             PollLabels, CloseLabels, At, Goto, Return, Errors, Closers, keys, buffer, wire, epoll,
             bytes, results, Skip, TriggerWrite, Send
<1> QED
  BY <1>1, <1>2, <1>3, <1>4, <1>5, <1>6, <1>7, <1>8, <1>9, <1>10, <1>11, <1>12,
     <1>13, <1>14, <1>15, <1>16, <1>17, <1>18, <1>19, <1>20, <1>21, <1>22,
     <1>23, <1>24, <1>25, <1>26, <1>27, Zenon
     DEF Next, InFlush, InPoll, InClose

(* All of it is kept. *)
LEMMA OutputStep ==
  ASSUME FlushInv, OutputInv, [Next]_vars
  PROVE  OutputInv'
<1>1. DataInv'
  BY DataStep, Zenon DEF OutputInv
<1>2. ASSUME Calm' PROVE Calm
  <2> DEFINE Kept == writeTimeout' = writeTimeout /\ (closing # "none" => closing' # "none")
  <2>1. ASSUME NEW w \in Writers, FlushCall(w) \/ InFlush(w) PROVE Kept
    BY <2>1, Zenon DEF InFlush, FlushCall, LockFlushing, FlushBuffer, SendMsg, AskPoller,
                       WaitFlush, Expire, TryTrigger, WriteTimedOut, UnlockFlushing, keys
  <2>2. ASSUME PollWait \/ InPoll \/ PeerClose PROVE Kept
    BY <2>2, Zenon DEF InPoll, PollWait, PollDo, Outputs, IoSend, OutputAck, RW2R, RW2RTrigger,
                       PollDone, PeerClose, keys
  <2>3. ASSUME OnHup \/ OnClose PROVE Kept
    BY <2>3, Zenon DEF OnHup, OnClose
  <2>4. ASSUME NEW c \in Closers, InClose(c) PROVE Kept
    BY <2>4, Zenon DEF InClose, CloseTrigger, CloseLock, Detach, StopFlushing, Free, keys
  <2>5. ASSUME UNCHANGED vars PROVE Kept
    BY <2>5, Zenon DEF vars
  <2>6. Kept
    BY <2>1, <2>2, <2>3, <2>4, <2>5, Zenon DEF Next
  <2> QED
    BY <1>2, <2>6 DEF Calm
<1> QED
  BY <1>1, <1>2, TurnStep, SentStep, Zenon DEF OutputInv

LEMMA OutputInvariant == Spec => [](FlushInv /\ OutputInv)
<1>1. FlushInv /\ OutputInv /\ [Next]_vars => (FlushInv /\ OutputInv)'
  BY FlushStep, OutputStep, Zenon
<1> QED
  BY <1>1, FlushInit, OutputInit, PTL DEF Spec

(* Writer and poller take turns: without a timeout and until the close,    *)
(* every byte goes to the kernel once and in its place, for any number of  *)
(* writers.                                                                *)
THEOREM BytesInOrder == Spec => []SentInOrder
<1>1. FlushInv /\ OutputInv => SentInOrder
  <2> SUFFICES ASSUME FlushInv, OutputInv, ~writeTimeout, closing = "none"
               PROVE  /\ ordered
                      /\ \A p \in Procs : At(p, "send") \/ At(p, "iosend") => lo[p] = sentTo
    BY Zenon DEF SentInOrder
  <2>1. TurnInv /\ SentInv
    BY Zenon DEF OutputInv, Calm
  <2>2. ASSUME NEW w \in Writers, At(w, "send") \/ At(w, "iosend") PROVE lo[w] = sentTo
    <3>1. ~At(w, "wait") /\ \A v \in Writers : ~At(v, "wait")
      BY <2>2, Zenon DEF FlushInv, At, FlushLabels
    <3>2. ~At(Poller, "ack") /\ At(w, "send")
      BY <2>1, <2>2, <3>1, Zenon DEF FlushInv, TurnInv, PollerSends, Abandoned, At, FlushLabels
    <3> QED
      BY <2>1, <3>2, Zenon DEF TurnInv
  <2>3. At(Poller, "send") \/ At(Poller, "iosend") => lo[Poller] = sentTo
    BY <2>1, Zenon DEF FlushInv, TurnInv, At, PollLabels
  <2>4. \A c \in Closers : ~At(c, "send") /\ ~At(c, "iosend")
    BY Zenon DEF FlushInv, At, CloseLabels
  <2> QED
    BY <2>1, <2>2, <2>3, <2>4, ProcsFacts, Zenon DEF Procs, Closers, SentInv
<1> QED
  BY <1>1, OutputInvariant, PTL

(* A Flush that returns nil has sent its bytes: with one writer, whoever   *)
(* closes and whenever, and with any number of them while nobody closes.   *)
THEOREM NilMeansSent == Spec => []FlushSends
<1>1. FlushInv /\ OutputInv => FlushSends
  <2> SUFFICES ASSUME FlushInv, OutputInv, ~writeTimeout,
                      MayClose => \A v, w \in Writers : v = w
               PROVE  \A w \in Writers : At(w, "unlock") /\ err[w] = "nil" => sentTo >= goal[w]
    BY Zenon DEF FlushSends
  <2>1. Calm
    BY FlushAssumption, Zenon DEF OutputInv, DataInv, Calm
  <2> QED
    BY <2>1, Zenon DEF OutputInv, SentInv
<1> QED
  BY <1>1, OutputInvariant, PTL
====
