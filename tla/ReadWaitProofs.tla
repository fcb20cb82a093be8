---------------------------- MODULE ReadWaitProofs ----------------------------
(***************************************************************************)
(* Proofs about ReadWait, for reads, chunks and inputs of any size.        *)
(***************************************************************************)
EXTENDS ReadWait, TLAPS

Triggers == {"empty", "nil", "EOF", "closed"}
ReaderLabels == {"idle", "store", "len", "status", "select", "ret", "defer", "consume"}

(* The types of what the proof looks at. *)
Types ==
    /\ inputLen \in Nat /\ n \in Nat /\ length \in Nat /\ acked \in Nat /\ received \in Nat
    /\ waitReadSize \in Nat
    /\ readTrigger \in Triggers
    /\ pc \in ReaderLabels
    /\ ppc \in {"idle", "onRequest", "load", "trigger"}
    /\ reading \in BOOLEAN /\ needTrigger \in BOOLEAN
    /\ hup \in {"idle", "trigger", "done"}
    /\ closing \in {"none", "poller", "user"}

(* The timer runs, or holds a value, only inside the loop and until RET. *)
TimerInv == pc \in {"idle", "store", "defer", "consume"} => timer = "stopped"

(* A result of nil means that the loop, or the look after a timeout, saw   *)
(* the bytes; only the reader takes bytes away.                            *)
ResultInv ==
    /\ pc \in {"store", "len", "status", "select"} => err = "nil"
    /\ pc \in {"ret", "defer"} /\ err = "nil" => inputLen >= n
    /\ pc = "consume" => inputLen >= n

(* The reader has published its size before it looks at the buffer.  If    *)
(* the bytes came after that look, the poller is on its way to a trigger   *)
(* or has left one that is not EOF, since the hangup waits for inputAck.   *)
(* Whoever closes after the reader's look at the key triggers it.          *)
WakeInv ==
    /\ pc \in {"len", "status", "select"} => waitReadSize = n
    /\ pc # "idle" => reading
    /\ hup # "idle" => ppc = "idle"
    /\ readTrigger = "EOF" => hup = "done"
    /\ pc \in {"status", "select"} /\ inputLen >= n =>
         \/ readTrigger \in {"nil", "closed"}
         \/ /\ ppc # "idle" /\ length >= n
            /\ ppc = "load" => needTrigger
    /\ pc = "select" /\ closing # "none" =>
         readTrigger # "empty" \/ hup = "trigger" \/ closer = "trigger"

ReadInv == Types /\ TimerInv /\ ResultInv /\ WakeInv

(* It holds at first. *)
LEMMA ReadInit == Init => ReadInv
<1> SUFFICES ASSUME Init PROVE ReadInv
  OBVIOUS
<1>1. reading \in BOOLEAN
  BY Zenon DEF Init
<1> QED
  BY <1>1, Zenon DEF Init, ReadInv, Types, TimerInv, ResultInv, WakeInv, Triggers, ReaderLabels

(* Every step keeps it. *)
LEMMA ReadStep ==
  ASSUME ReadInv, [Next]_vars
  PROVE  ReadInv'
<1> USE ReadWaitAssumption
<1> USE DEF ReadInv, Types, TimerInv, ResultInv, WakeInv, Triggers, ReaderLabels, conf, reader,
            ack, TriggerRead
<1>1. CASE StartReader
  BY <1>1 DEF StartReader
<1>2. CASE WaitRead
  BY <1>2 DEF WaitRead
<1>3. CASE StoreSize
  BY <1>3, Zenon DEF StoreSize
<1>4. CASE LoopLen
  BY <1>4 DEF LoopLen
<1>5. CASE LoopStatus
  BY <1>5, Zenon DEF LoopStatus
<1>6. CASE Receive
  BY <1>6, Zenon DEF Receive
<1>7. CASE Expire
  BY <1>7, Zenon DEF Expire
<1>8. CASE StopTimer
  BY <1>8, Zenon DEF StopTimer
<1>9. CASE ResetSize
  BY <1>9 DEF ResetSize
<1>10. CASE Consume
  BY <1>10 DEF Consume
<1>11. CASE BookAck
  BY <1>11 DEF BookAck
<1>12. CASE OnRequest
  <2>1. reading' \in BOOLEAN /\ needTrigger' \in BOOLEAN
    BY <1>12, Zenon DEF OnRequest
  <2>2. reading => reading' /\ needTrigger'
    BY <1>12, Zenon DEF OnRequest
  <2> QED
    BY <1>12, <2>1, <2>2 DEF OnRequest
<1>13. CASE LoadSize
  BY <1>13 DEF LoadSize
<1>14. CASE InputTrigger
  BY <1>14 DEF InputTrigger
<1>15. CASE OnHup
  BY <1>15 DEF OnHup
<1>16. CASE HupTrigger
  BY <1>16 DEF HupTrigger
<1>17. CASE OnClose
  BY <1>17 DEF OnClose
<1>18. CASE CloseTrigger
  BY <1>18 DEF CloseTrigger
<1>19. CASE Fire
  BY <1>19 DEF Fire
<1>20. CASE UNCHANGED vars
  BY <1>20 DEF vars
<1> QED
  BY <1>1, <1>2, <1>3, <1>4, <1>5, <1>6, <1>7, <1>8, <1>9, <1>10, <1>11, <1>12, <1>13, <1>14,
     <1>15, <1>16, <1>17, <1>18, <1>19, <1>20, Zenon
     DEF Next, ReaderNext, InWaitRead, PollerNext, HupNext, CloserNext

LEMMA ReadInvariant == Spec => []ReadInv
BY ReadInit, ReadStep, PTL DEF Spec

(* waitRead goes on with nil only when its bytes are there, and a blocked  *)
(* reader whose bytes have arrived never finds EOF in the channel.         *)
THEOREM ReadsAreFull == Spec => []FullRead
<1>1. ReadInv => FullRead
  BY DEF ReadInv, Types, ResultInv, WakeInv, FullRead
<1> QED
  BY <1>1, ReadInvariant, PTL

(* No wake-up is lost: what a blocked reader waits for is in the channel,  *)
(* or on its way there.                                                    *)
THEOREM WakeUpsAreNotLost == Spec => []WakeUpUnderway
<1>1. ReadInv => WakeUpUnderway
  BY Zenon DEF ReadInv, Types, WakeInv, WakeUpUnderway
<1> QED
  BY <1>1, ReadInvariant, PTL

(* Between two calls the timer is stopped and its channel empty. *)
THEOREM TimerIsClean == Spec => []TimerClean
<1>1. ReadInv => TimerClean
  BY Zenon DEF ReadInv, TimerInv, TimerClean
<1> QED
  BY <1>1, ReadInvariant, PTL
====
