---------------------------- MODULE ServerProofs ----------------------------
(* The server's map holds no closed connection but those that were closed     *)
(* before onAccept stored them, for any number of connections and of          *)
(* goroutines that accept.                                                    *)
EXTENDS EventLoop, TLAPS

Labels == {"idle", "serve", "serveFifo", "onQuit", "closeManager", "wait", "done", "active", "add",
           "store", "retry", "resume", "detach", "closeListener", "range", "visit", "close",
           "sleep", "deadline", "closedServer", "quit"}
InAccept == {"active", "add", "store"}

Types ==
    /\ pc \in [Procs -> Labels]
    /\ st \in [Conns -> {"none", "queued", "open", "closing", "closed"}]
    /\ at \in [Accepters \cup {Shut} -> Conns \cup {None}]
    /\ busy \subseteq Conns /\ added \subseteq Conns /\ connections \subseteq added
    /\ todo \subseteq Conns

(* What is in the map was accepted, and leaves the map when it is closed.      *)
Stored ==
    /\ \A c \in connections : st[c] \notin {"none", "queued"}
    /\ NoStaleEntry

(* A goroutine in onAccept has a connection of its own, which is not in the    *)
(* map yet and, when it is closed meanwhile, is known to be early.             *)
Accepting ==
    \A p \in Accepters : pc[p] \in InAccept =>
        /\ at[p] \in Conns \ connections /\ st[at[p]] \notin {"none", "queued"}
        /\ st[at[p]] = "closed" => at[p] \in early
        /\ pc[p] = "store" => at[p] \in added
        /\ \A q \in Accepters : pc[q] \in InAccept /\ at[q] = at[p] => q = p

(* Close closes a connection that it found in the map.                         *)
Closing == pc[Shut] = "close" => at[Shut] \in Conns

MapInv == Types /\ Stored /\ Accepting /\ Closing

(* The map is empty before Serve, and nobody accepts (newServer).              *)
LEMMA MapInvInit == Init => MapInv
<1> USE GoroutinesAssumption DEF Init, ServerInit, Start, Procs, Accepters, Labels
<1>1. Init => Types BY DEF Types
<1>2. Init => Stored BY Zenon DEF Stored, NoStaleEntry
<1>3. Init => Accepting BY Zenon DEF Accepting, InAccept
<1>4. Init => Closing BY Zenon DEF Closing
<1> QED BY <1>1, <1>2, <1>3, <1>4, Zenon DEF MapInv

(* A step that moves a goroutine, but neither into nor out of onAccept, and     *)
(* leaves the connections alone, preserves the invariant.                       *)
LEMMA MoveOnly ==
  ASSUME MapInv, UNCHANGED <<st, at, busy, added, connections, early>>, todo' \subseteq Conns,
         pc' \in [Procs -> Labels],
         \A p \in Accepters : pc'[p] \in InAccept => pc'[p] = pc[p],
         pc'[Shut] = "close" => pc[Shut] = "close"
  PROVE  MapInv'
<1> USE DEF MapInv
<1>1. Types' BY Zenon DEF Types
<1>2. Stored' BY Zenon DEF Stored, NoStaleEntry
<1>3. Accepting' BY Zenon DEF Accepting
<1>4. Closing' BY Zenon DEF Closing
<1> QED BY <1>1, <1>2, <1>3, <1>4, Zenon

(* A step that moves no goroutine but changes what becomes of connections       *)
(* outside the map and outside onAccept preserves the invariant.                *)
LEMMA ConnsOnly ==
  ASSUME MapInv, UNCHANGED <<pc, at, added, connections, early, todo>>, busy' \subseteq Conns,
         st' \in [Conns -> {"none", "queued", "open", "closing", "closed"}],
         \A c \in Conns : st'[c] = st[c] \/ st[c] \in {"none", "queued"}
  PROVE  MapInv'
<1> USE DEF MapInv
<1>1. Types' BY Zenon DEF Types
<1>2. Stored' BY Zenon DEF Stored, NoStaleEntry, Types
<1>3. Accepting' BY Zenon DEF Accepting, Types
<1>4. Closing' BY Zenon DEF Closing
<1> QED BY <1>1, <1>2, <1>3, <1>4, Zenon

(* A connection that is closed leaves the map, if it is there; if it is not,   *)
(* it becomes early (the close callbacks of onAccept).                         *)
LEMMA ClosedOnly ==
  ASSUME MapInv, NEW c \in Conns, Closed(c), st[c] \in {"open", "closing"},
         UNCHANGED <<added, todo>>, busy' \subseteq Conns,
         pc' \in [Procs -> Labels], at' \in [Accepters \cup {Shut} -> Conns \cup {None}],
         \A p \in Accepters : pc'[p] = pc[p] /\ at'[p] = at[p],
         pc'[Shut] = "close" => at'[Shut] \in Conns
  PROVE  MapInv'
<1> USE DEF MapInv, Closed
<1>1. Types' BY Zenon DEF Types
<1>2. Stored' BY Zenon DEF Stored, NoStaleEntry, Types
<1>3. Accepting' BY DEF Accepting, Types
<1>4. Closing' BY Zenon DEF Closing
<1> QED BY <1>1, <1>2, <1>3, <1>4, Zenon

(* An accepted connection is new: no other goroutine has it, and it is not in  *)
(* the map (OnRead).                                                           *)
LEMMA AcceptPreserves ==
  ASSUME MapInv, NEW p \in Accepters, NEW from \in {"idle", "retry"}, NEW c \in Conns,
         Accept(p, from, c)
  PROVE  MapInv'
<1> USE GoroutinesAssumption
    DEF MapInv, Accept, Go, queued, listener, closing, Procs
<1>1. Types' BY Zenon DEF Types, Labels
<1>2. Stored' BY Zenon DEF Stored, NoStaleEntry, Types
<1>3. Accepting' BY DEF Accepting, Types, Stored, InAccept, Accepters
<1>4. Closing' BY Zenon DEF Closing, Types
<1> QED BY <1>1, <1>2, <1>3, <1>4, Zenon

(* The steps of onAccept: a connection is stored once its callback is there.   *)
LEMMA OnAcceptPreserves ==
  ASSUME MapInv, NEW p \in Accepters, CheckActive(p) \/ AddCallback(p) \/ Store(p)
  PROVE  MapInv'
<1> USE GoroutinesAssumption DEF MapInv, Go, Back, listener, closing, conns, Procs
<1>1. CASE CheckActive(p)
  <2> USE <1>1 DEF CheckActive
  <2>1. Types' BY Zenon DEF Types, Labels
  <2>2. Stored' BY Zenon DEF Stored, NoStaleEntry
  <2>3. Accepting' BY DEF Accepting, Types, InAccept
  <2>4. Closing' BY Zenon DEF Closing, Types
  <2> QED BY <2>1, <2>2, <2>3, <2>4, Zenon
<1>2. CASE AddCallback(p)
  <2> USE <1>2 DEF AddCallback
  <2>1. Types' BY Zenon DEF Types, Labels, Accepting, InAccept
  <2>2. Stored' BY Zenon DEF Stored, NoStaleEntry
  <2>3. Accepting' BY DEF Accepting, Types, InAccept
  <2>4. Closing' BY Zenon DEF Closing, Types
  <2> QED BY <2>1, <2>2, <2>3, <2>4, Zenon
<1>3. CASE Store(p)
  <2> USE <1>3 DEF Store
  <2>1. Types' BY Zenon DEF Types, Labels, Accepting, InAccept
  <2>2. Stored' BY Zenon DEF Stored, NoStaleEntry, Types, Accepting, InAccept
  <2>3. Accepting' BY Zenon DEF Accepting, Types, InAccept
  <2>4. Closing' BY Zenon DEF Closing, Types
  <2> QED BY <2>1, <2>2, <2>3, <2>4, Zenon
<1> QED BY <1>1, <1>2, <1>3, Zenon

(* The goroutine that OnRead starts, and its end (OnRead).                      *)
LEMMA RetryPreserves ==
  ASSUME MapInv, NEW r \in Retriers, OnReadFull(r) \/ RetryEmpty(r) \/ Resume(r)
  PROVE  MapInv'
<1>1. /\ UNCHANGED <<st, at, busy, added, connections, early, todo>>
      /\ \E l \in {"retry", "resume", "idle"} : pc' = [pc EXCEPT ![r] = l]
      BY Zenon DEF OnReadFull, RetryEmpty, Resume, Go, serverVars, conns, closing
<1> QED BY <1>1, MoveOnly, GoroutinesAssumption
        DEF MapInv, Types, Labels, InAccept, Procs, Accepters

(* Close, which may close a connection that it saw idle before (server.Close). *)
LEMMA ClosePreserves == ASSUME MapInv, CloseStep \/ Deadline PROVE MapInv'
<1> USE GoroutinesAssumption
    DEF Go, serverVars, listener, conns, closing, Procs, Accepters
<1>1. CASE CloseDetach \/ RangeEnd \/ SleepEnd \/ Deadline
  <2>1. /\ UNCHANGED <<st, at, busy, added, connections, early, todo>>
        /\ \E l \in Labels \ {"close"} : pc' = [pc EXCEPT ![Shut] = l]
        BY <1>1, Zenon DEF CloseDetach, RangeEnd, SleepEnd, Deadline, Labels
  <2> QED BY <2>1, MoveOnly DEF MapInv, Types
<1>2. CASE RangeBegin
  <2>1. /\ UNCHANGED <<st, at, busy, added, connections, early>> /\ todo' = connections
        /\ pc' = [pc EXCEPT ![Shut] = "visit"]
        BY <1>2, Zenon DEF RangeBegin
  <2> QED BY <2>1, MoveOnly, Zenon DEF MapInv, Types, Labels
<1>3. CASE CloseListener
  <2> USE <1>3 DEF CloseListener, MapInv, queued
  <2>1. Types' BY Zenon DEF Types, Labels
  <2>2. Stored' BY Zenon DEF Stored, NoStaleEntry, Types
  <2>3. Accepting' BY Zenon DEF Accepting, Types
  <2>4. Closing' BY Zenon DEF Closing, Types
  <2> QED BY <2>1, <2>2, <2>3, <2>4, Zenon
<1>4. ASSUME NEW c \in Conns, Visit(c) PROVE MapInv'
  <2> USE <1>4 DEF Visit, MapInv
  <2>1. Types' BY DEF Types, Labels
  <2>2. Stored' BY Zenon DEF Stored, NoStaleEntry
  <2>3. Accepting' BY DEF Accepting, Types
  <2>4. Closing' BY Zenon DEF Closing, Types
  <2> QED BY <2>1, <2>2, <2>3, <2>4, Zenon
<1>5. CASE CloseIdle
  <2> DEFINE c == at[Shut]
  <2>1. c \in Conns BY <1>5, Zenon DEF CloseIdle, MapInv, Closing
  <2>2. CASE st[c] = "open" /\ Closed(c)
        BY <1>5, <2>1, <2>2, ClosedOnly, Zenon DEF CloseIdle, MapInv, Types, Labels
  <2>3. CASE /\ UNCHANGED <<connections, early>>
             /\ st' = st \/ (st[c] = "open" /\ st' = [st EXCEPT ![c] = "closing"])
    <3> USE <1>5, <2>1, <2>3 DEF CloseIdle, MapInv
    <3>1. Types' BY Zenon DEF Types, Labels
    <3>2. Stored' BY Zenon DEF Stored, NoStaleEntry, Types
    <3>3. Accepting' BY Zenon DEF Accepting, Types
    <3>4. Closing' BY Zenon DEF Closing, Types
    <3> QED BY <3>1, <3>2, <3>3, <3>4, Zenon
  <2> QED BY <1>5, <2>2, <2>3, Zenon DEF CloseIdle
<1> QED BY <1>1, <1>2, <1>3, <1>4, <1>5, Zenon DEF CloseStep

(* Peers, requests and descriptors (OnRequest, the close of a connection).     *)
LEMMA OutsidePreserves ==
  ASSUME MapInv,
         \/ Exhaust \/ Recover \/ ListenerShut
         \/ \E c \in Conns : Dial(c) \/ Request(c) \/ CloseConn(c) \/ RequestDone(c)
  PROVE  MapInv'
<1> USE DEF listener, conns, closing
<1>1. CASE Exhaust \/ Recover BY <1>1, ConnsOnly, Zenon DEF Exhaust, Recover, MapInv, Types
<1>2. CASE ListenerShut BY <1>2, ConnsOnly, Zenon DEF ListenerShut, MapInv, Types, queued
<1>3. ASSUME NEW c \in Conns, Dial(c) \/ Request(c) PROVE MapInv'
      BY <1>3, ConnsOnly, Zenon DEF Dial, Request, MapInv, Types
<1>4. ASSUME NEW c \in Conns, CloseConn(c) PROVE MapInv'
      BY <1>4, ClosedOnly, Zenon DEF CloseConn, MapInv, Types, Closing
<1>5. ASSUME NEW c \in Conns, RequestDone(c) PROVE MapInv'
  <2>1. CASE st[c] = "closing"
        BY <1>5, <2>1, ClosedOnly, Zenon DEF RequestDone, MapInv, Types, Closing
  <2>2. CASE st[c] # "closing" BY <1>5, <2>2, ConnsOnly, Zenon DEF RequestDone, MapInv, Types
  <2> QED BY <2>1, <2>2, Zenon
<1> QED BY <1>1, <1>2, <1>3, <1>4, <1>5, Zenon

(* The event loop moves its goroutines and leaves the connections to the server *)
(* (Serve, waitQuit, onQuit, Shutdown).                                         *)
LEMMA LoopPreserves ==
  ASSUME MapInv,
         \/ Serve \/ RunFails \/ (\E p \in {S, F} : ServeFifo(p) \/ waitQuit(p))
         \/ onServerQuit(Hup, "done") \/ onServerQuit(Poller, "idle")
         \/ onFifoManagerQuit(User, "closeManager", "done")
         \/ onFifoManagerQuit(Shut, "closeManager", "quit")
         \/ OnHup \/ (\E r \in Retriers : OnHupFull(r)) \/ OnReadClosed \/ GetFifoManager \/ Shutdown
         \/ ServerClosed("closedServer") \/ ServerClosed("deadline") \/ quit
  PROVE  MapInv'
<1> USE DEF Go, serverVars, conns, closing
<1>1. UNCHANGED <<st, at, busy, added, connections, early, todo>>
      BY Zenon DEF Serve, RunFails, ServeFifo, waitQuit, onServerQuit, onFifoManagerQuit, OnHup,
             OnHupFull, OnReadClosed, GetFifoManager, Shutdown, ServerClosed, quit
<1>2. \/ \E p \in Procs, l \in Labels \ (InAccept \cup {"close"}) : pc' = [pc EXCEPT ![p] = l]
      \/ pc' = [pc EXCEPT ![Poller] = "onQuit", ![Hup] = "done"]
      \/ \E r \in Retriers : pc' = [pc EXCEPT ![r] = "retry", ![Hup] = "onQuit"]
  <2> DEFINE Moves(p) ==
        \E l \in Labels \ (InAccept \cup {"close"}) : pc' = [pc EXCEPT ![p] = l]
  <2> USE DEF Labels, InAccept
  <2>1. Serve \/ RunFails => Moves(S) BY Zenon DEF Serve, RunFails
  <2>2. ASSUME NEW p \in {S, F}, ServeFifo(p) \/ waitQuit(p) PROVE Moves(p)
        BY <2>2, Zenon DEF ServeFifo, waitQuit
  <2>3. onServerQuit(Hup, "done") \/ OnHup => Moves(Hup) BY Zenon DEF onServerQuit, OnHup
  <2>4. onServerQuit(Poller, "idle") => Moves(Poller) BY Zenon DEF onServerQuit
  <2>5. onFifoManagerQuit(User, "closeManager", "done") \/ GetFifoManager => Moves(User)
        BY Zenon DEF onFifoManagerQuit, GetFifoManager
  <2>6. onFifoManagerQuit(Shut, "closeManager", "quit") \/ quit => Moves(Shut)
        BY Zenon DEF onFifoManagerQuit, quit
  <2>7. Shutdown => Moves(Shut) BY Zenon DEF Shutdown
  <2>8. ServerClosed("closedServer") \/ ServerClosed("deadline") => Moves(Shut)
        BY Zenon DEF ServerClosed
  <2>9. OnReadClosed => pc' = [pc EXCEPT ![Poller] = "onQuit", ![Hup] = "done"]
        BY Zenon DEF OnReadClosed
  <2>10. {S, F, Hup, User, Shut, Poller} \subseteq Procs BY Zenon DEF Procs, Accepters
  <2>11. ASSUME NEW r \in Retriers, OnHupFull(r)
         PROVE  pc' = [pc EXCEPT ![r] = "retry", ![Hup] = "onQuit"]
         BY <2>11, Zenon DEF OnHupFull
  <2> HIDE DEF Moves, Labels, InAccept
  <2>12. \/ \E p \in Procs : Moves(p)
         \/ pc' = [pc EXCEPT ![Poller] = "onQuit", ![Hup] = "done"]
         \/ \E r \in Retriers : pc' = [pc EXCEPT ![r] = "retry", ![Hup] = "onQuit"]
         BY <2>1, <2>2, <2>3, <2>4, <2>5, <2>6, <2>7, <2>8, <2>9, <2>10, <2>11, Zenon
  <2> QED BY <2>12, Zenon DEF Moves
<1>3. pc \in [Procs -> Labels] /\ todo' \subseteq Conns BY <1>1, Zenon DEF MapInv, Types
<1>4. pc' \in [Procs -> Labels] BY <1>2, <1>3, Zenon DEF Labels
<1>5. /\ \A p \in Accepters : pc'[p] \in InAccept => pc'[p] = pc[p]
      /\ pc'[Shut] = "close" => pc[Shut] = "close"
      BY <1>2, <1>3, GoroutinesAssumption, Zenon DEF Procs, Accepters, InAccept
<1> QED BY <1>1, <1>3, <1>4, <1>5, MoveOnly, Zenon

(* Every step preserves the invariant.                                          *)
LEMMA MapInvNext == MapInv /\ [Next]_vars => MapInv'
<1> SUFFICES ASSUME MapInv, [Next]_vars PROVE MapInv'
    OBVIOUS
<1>1. ASSUME AcceptStep PROVE MapInv'
  <2>1. ASSUME NEW c \in Conns, OnRead(c) PROVE MapInv'
        BY <2>1, AcceptPreserves, Zenon DEF OnRead, Accepters
  <2>2. ASSUME NEW r \in Retriers, NEW c \in Conns, Retry(r, c) PROVE MapInv'
        BY <2>2, AcceptPreserves, Zenon DEF Retry, Accepters
  <2> QED BY <1>1, <2>1, <2>2, RetryPreserves, OnAcceptPreserves, Zenon DEF AcceptStep
<1>2. CASE UNCHANGED vars
      BY <1>2, ConnsOnly, Zenon DEF vars, serverVars, conns, closing, MapInv, Types
<1>3. CASE Step
      BY <1>1, <1>3, LoopPreserves, ClosePreserves, OutsidePreserves, Zenon DEF Step, ShutdownStep
<1>4. CASE Outside
      BY <1>4, LoopPreserves, ClosePreserves, OutsidePreserves, Zenon DEF Outside
<1> QED BY <1>2, <1>3, <1>4, Zenon DEF Next

(* However many connections come, are accepted by however many goroutines, and *)
(* are closed at whatever point, one that was stored before it was closed has  *)
(* left the map when it is closed (onAccept, server.Close).                    *)
THEOREM MapClean == Spec => []NoStaleEntry
<1>1. MapInv => NoStaleEntry BY Zenon DEF MapInv, Stored
<1> QED BY <1>1, MapInvInit, MapInvNext, PTL DEF Spec

-----------------------------------------------------------------------------
(* Who accepts                                                              *)

(* Before Serve nothing is registered.  Until the descriptors have run out     *)
(* twice, a detach takes the listener out of epoll whenever it has to: the     *)
(* goroutine that retries is then the only one, and a later Register finds     *)
(* that it has ended.                                                          *)
ListenerInv ==
    /\ exhausted \in Nat /\ (full => exhausted > 0)
    /\ pc[S] = "serve" =>
         /\ ln = "none" /\ ~lnEpoll /\ ~lnDetached /\ ~svr
         /\ pc[Shut] \in {"idle", "closeManager", "quit", "done"}
         /\ \A r \in Retriers : pc[r] = "idle"
    /\ exhausted = 0 => \A r \in Retriers : pc[r] = "idle"
    /\ exhausted <= 1 /\ (full \/ exhausted = 0) =>
         /\ lnDetached => ~lnEpoll
         /\ \A r \in Retriers : pc[r] \in {"idle", "retry"}
    /\ OneAccepter

(* Nothing is registered, and nobody retries, before Serve.                    *)
LEMMA ListenerInit == Init => ListenerInv
BY GoroutinesAssumption
   DEF Init, ServerInit, Start, Procs, Accepters, ListenerInv, OneAccepter

(* Every step preserves it.  A detach is the first one as long as it matters.  *)
LEMMA ListenerStep == MapInv /\ ListenerInv /\ [Next]_vars => ListenerInv'
<1> SUFFICES ASSUME MapInv, ListenerInv, [Next]_vars PROVE ListenerInv'
    OBVIOUS
<1>0. pc \in [Procs -> Labels]
      BY Zenon DEF MapInv, Types
<1> USE <1>0, GoroutinesAssumption, ServerAssumption
    DEF ListenerInv, OneAccepter, Go, Back, Procs, Accepters, Detach, listener, closing, conns,
        serverVars, loop
<1>1. ASSUME NEW r \in Retriers, OnReadFull(r), UNCHANGED loop PROVE ListenerInv'
  <2>1. exhausted <= 1 => ~lnEpoll'
        BY <1>1, Zenon DEF OnReadFull
  <2>2. exhausted' = exhausted /\ \A q \in Procs \ {r} : pc'[q] = pc[q]
        BY <1>1, Zenon DEF OnReadFull
  <2>3. lnEpoll /\ full /\ pc[S] # "serve" /\ UNCHANGED <<full, svr, ln>>
        BY <1>1, Zenon DEF OnReadFull
  <2>4. exhausted <= 1 => \A q \in Retriers : pc[q] = "idle"
        BY <2>3, Zenon
  <2>5. pc'[r] = "retry" /\ S # r
        BY <1>1, Zenon DEF OnReadFull
  <2> QED BY <2>1, <2>2, <2>3, <2>4, <2>5
<1>2. ASSUME NEW r \in Retriers, RetryEmpty(r), UNCHANGED loop PROVE ListenerInv'
      BY <1>2, Zenon DEF RetryEmpty
<1>3. ASSUME NEW r \in Retriers, Resume(r), UNCHANGED loop PROVE ListenerInv'
      BY <1>3, Zenon DEF Resume, Register
<1>4. ASSUME NEW p \in Accepters, NEW c \in Conns, NEW from \in {"idle", "retry"},
             p = Poller \/ from = "retry", Accept(p, from, c), UNCHANGED loop
      PROVE ListenerInv'
      BY <1>4 DEF Accept
<1>5. ASSUME NEW p \in Accepters, CheckActive(p), UNCHANGED loop PROVE ListenerInv'
      BY <1>5, Zenon DEF CheckActive
<1>6. ASSUME NEW p \in Accepters, AddCallback(p), UNCHANGED loop PROVE ListenerInv'
      BY <1>6, Zenon DEF AddCallback
<1>7. ASSUME NEW p \in Accepters, Store(p), UNCHANGED loop PROVE ListenerInv'
      BY <1>7, Zenon DEF Store
<1>8. CASE Serve
      BY <1>8, Zenon DEF Serve, Started
<1>9. CASE RunFails
      BY <1>9, Zenon DEF RunFails, Started
<1>10. ASSUME NEW p \in {S, F}, ServeFifo(p) \/ waitQuit(p) PROVE ListenerInv'
      BY <1>10 DEF ServeFifo, waitQuit
<1>11. CASE onServerQuit(Hup, "done") \/ onServerQuit(Poller, "idle")
  <2>1. CASE onServerQuit(Hup, "done")
        BY <2>1, Zenon DEF onServerQuit
  <2>2. CASE onServerQuit(Poller, "idle")
        BY <2>2, Zenon DEF onServerQuit
  <2> QED BY <1>11, <2>1, <2>2, Zenon
<1>12. CASE onFifoManagerQuit(User, "closeManager", "done")
      BY <1>12, Zenon DEF onFifoManagerQuit
<1>13. CASE onFifoManagerQuit(Shut, "closeManager", "quit")
      BY <1>13, Zenon DEF onFifoManagerQuit
<1>14. CASE OnHup
      BY <1>14, Zenon DEF OnHup
<1>15. CASE OnReadClosed
      BY <1>15, Zenon DEF OnReadClosed
<1>16. CASE GetFifoManager
      BY <1>16, Zenon DEF GetFifoManager
<1>17. CASE Shutdown
      BY <1>17, Zenon DEF Shutdown
<1>18. CASE ServerClosed("closedServer") \/ ServerClosed("deadline")
      BY <1>18 DEF ServerClosed
<1>19. CASE quit
      BY <1>19, Zenon DEF quit
<1>20. CASE CloseDetach /\ UNCHANGED loop
      BY <1>20, Zenon DEF CloseDetach
<1>21. CASE CloseListener /\ UNCHANGED loop
      BY <1>21, Zenon DEF CloseListener
<1>22. CASE (RangeBegin \/ RangeEnd \/ SleepEnd \/ Deadline) /\ UNCHANGED loop
      BY <1>22 DEF RangeBegin, RangeEnd, SleepEnd, Deadline
<1>23. CASE CloseIdle /\ UNCHANGED loop
      BY <1>23, Zenon DEF CloseIdle
<1>24. ASSUME NEW c \in Conns, Visit(c), UNCHANGED loop PROVE ListenerInv'
      BY <1>24 DEF Visit
<1>25. CASE (Exhaust \/ Recover) /\ UNCHANGED loop
      BY <1>25 DEF Exhaust, Recover
<1>26. CASE ListenerShut /\ UNCHANGED loop
      BY <1>26, Zenon DEF ListenerShut
<1>27. ASSUME NEW c \in Conns, Dial(c) \/ Request(c) \/ CloseConn(c) \/ RequestDone(c),
              UNCHANGED loop
       PROVE ListenerInv'
      BY <1>27 DEF Dial, Request, CloseConn, RequestDone
<1>28. CASE UNCHANGED vars
      BY <1>28, Zenon DEF vars
<1>29. ASSUME NEW c \in Conns, OnRead(c), UNCHANGED loop PROVE ListenerInv'
      BY <1>4, <1>29, Zenon DEF OnRead
<1>30. ASSUME NEW r \in Retriers, NEW c \in Conns, Retry(r, c), UNCHANGED loop PROVE ListenerInv'
      BY <1>4, <1>30, Zenon DEF Retry
<1>31. ASSUME NEW r \in Retriers, OnHupFull(r) PROVE ListenerInv'
  <2>1. exhausted <= 1 => ~lnEpoll'
        BY <1>31, Zenon DEF OnHupFull
  <2>2. exhausted' = exhausted /\ \A q \in Procs \ {r, Hup} : pc'[q] = pc[q]
        BY <1>31, Zenon DEF OnHupFull
  <2>3. lnEpoll /\ full /\ pc[S] # "serve" /\ UNCHANGED <<full, svr, ln>>
        BY <1>31, Zenon DEF OnHupFull
  <2>4. exhausted <= 1 => \A q \in Retriers : pc[q] = "idle"
        BY <2>3, Zenon
  <2>5. pc'[r] = "retry" /\ S # r
        BY <1>31, Zenon DEF OnHupFull
  <2> QED BY <2>1, <2>2, <2>3, <2>4, <2>5
<1> HIDE DEF ListenerInv
<1> QED BY <1>1, <1>2, <1>3, <1>5, <1>6, <1>7, <1>8, <1>9, <1>10, <1>11, <1>12, <1>13, <1>14,
           <1>15, <1>16, <1>17, <1>18, <1>19, <1>20, <1>21, <1>22, <1>23, <1>24, <1>25, <1>26,
           <1>27, <1>28, <1>29, <1>30, <1>31, Zenon
        DEF Next, Step, Outside, AcceptStep, ShutdownStep, CloseStep

(* Until the descriptors run out a second time, a goroutine that retries is    *)
(* the only one and has the listener out of epoll, however the shutdown, the    *)
(* hang-up of the listener and the retries overlap (OnRead).                    *)
THEOREM OneAccepts == Spec => []OneAccepter
<1>1. MapInv /\ ListenerInv /\ [Next]_vars => (MapInv /\ ListenerInv)'
      BY MapInvNext, ListenerStep, Zenon
<1>2. ListenerInv => OneAccepter
      BY Zenon DEF ListenerInv
<1> QED BY <1>1, <1>2, MapInvInit, ListenerInit, PTL DEF Spec

-----------------------------------------------------------------------------
(* What survives Close                                                      *)

Opened == {c \in Conns : st[c] = "open"}

(* The listener is closed by Shutdown and leaves an empty backlog.             *)
BacklogInv ==
    /\ ln = "closed" => /\ \A c \in Conns : st[c] # "queued"
                        /\ pc[Shut] \notin {"idle", "detach", "closeListener"}
    /\ pc[Shut] \in {"range", "visit", "close", "sleep", "deadline", "closedServer"} =>
         ln = "closed"

(* An open connection is in the map or on its way there, and what Range has    *)
(* still to visit is in the map or was closed.                                 *)
OpenInv ==
    /\ \A c \in Opened : c \in connections
                          \/ \E p \in Accepters : pc[p] \in InAccept /\ at[p] = c
    /\ \A c \in todo : c \in connections \/ st[c] = "closed"

(* As long as Range has met no busy connection, whatever is open is yet to be  *)
(* visited, is being closed, or was in onAccept when Range began.              *)
RangeInv ==
    /\ pc[Shut] \in {"visit", "close"} /\ ~active =>
         \A c \in Opened : c \in todo \cup late \/ (pc[Shut] = "close" /\ c = at[Shut])
    /\ pc[Shut] = "closedServer" => Opened \subseteq late
    /\ pc[Shut] \in {"closeManager", "quit", "done"} /\ ln = "closed" /\ ~failed =>
         Opened \subseteq late

SurviveInv == BacklogInv /\ OpenInv /\ RangeInv

(* There are no connections before Serve.                                      *)
LEMMA SurviveInit == Init => SurviveInv
BY GoroutinesAssumption, Zenon
   DEF Init, ServerInit, Start, Procs, Accepters, SurviveInv, BacklogInv, OpenInv, RangeInv, Opened

(* A step of anybody but Shutdown that opens no connection, closes what it     *)
(* takes from the map and moves none out of onAccept unless it is stored or    *)
(* closed preserves the invariant.                                             *)
LEMMA OthersPreserve ==
  ASSUME MapInv, SurviveInv, UNCHANGED <<todo, late, active, failed>>,
         pc'[Shut] = pc[Shut], at'[Shut] = at[Shut], ln' = ln,
         \A c \in Conns : /\ st'[c] = "open" => st[c] = "open"
                          /\ ln = "closed" => (st'[c] = "queued" => st[c] = "queued")
                          /\ st[c] = "closed" => st'[c] = "closed"
                          /\ c \in connections => c \in connections' \/ st'[c] = "closed",
         \A p \in Accepters : pc[p] \in InAccept =>
           \/ pc'[p] \in InAccept /\ at'[p] = at[p]
           \/ at[p] \in connections' \/ st'[at[p]] # "open"
  PROVE  SurviveInv'
<1>1. BacklogInv' BY Zenon DEF SurviveInv, BacklogInv
<1>2. OpenInv' BY DEF SurviveInv, OpenInv, Opened, MapInv, Types
<1>3. RangeInv' BY Zenon DEF SurviveInv, RangeInv, Opened
<1> QED BY <1>1, <1>2, <1>3, Zenon DEF SurviveInv

(* Every step preserves it.                                                    *)
LEMMA SurviveStep ==
  MapInv /\ ListenerInv /\ SurviveInv /\ [Next]_vars => SurviveInv'
<1> SUFFICES ASSUME MapInv, ListenerInv, SurviveInv, [Next]_vars PROVE SurviveInv'
    OBVIOUS
<1>0. Types /\ Accepting /\ Closing /\ BacklogInv /\ OpenInv /\ RangeInv
      BY Zenon DEF MapInv, SurviveInv
<1> USE <1>0, GoroutinesAssumption, ServerAssumption
    DEF Types, InAccept, Go, Back, Procs, Accepters, listener, closing, conns, serverVars, loop
<1>1. ASSUME NEW p \in Accepters, NEW c \in Conns, NEW from \in {"idle", "retry"},
             Accept(p, from, c), UNCHANGED loop
      PROVE SurviveInv'
  <2> USE <1>1 DEF Accept, queued
  <2>1. BacklogInv' BY Zenon DEF BacklogInv
  <2>2. OpenInv' BY DEF OpenInv, Opened
  <2>3. RangeInv' BY Zenon DEF RangeInv, BacklogInv
  <2> QED BY <2>1, <2>2, <2>3, Zenon DEF SurviveInv
<1>2. ASSUME NEW p \in Accepters, CheckActive(p), UNCHANGED loop PROVE SurviveInv'
      BY <1>2, OthersPreserve, Zenon DEF CheckActive
<1>3. ASSUME NEW p \in Accepters, AddCallback(p), UNCHANGED loop PROVE SurviveInv'
      BY <1>3, OthersPreserve, Zenon DEF AddCallback
<1>4. ASSUME NEW p \in Accepters, Store(p), UNCHANGED loop PROVE SurviveInv'
      BY <1>4, OthersPreserve, Zenon DEF Store
<1>5. ASSUME NEW r \in Retriers, OnReadFull(r) \/ RetryEmpty(r) \/ Resume(r), UNCHANGED loop
      PROVE SurviveInv'
      BY <1>5, OthersPreserve, Zenon DEF OnReadFull, RetryEmpty, Resume, Detach, Register
<1>6. CASE Serve
  <2> USE <1>6 DEF Serve, Started, ListenerInv
  <2>1. BacklogInv' BY Zenon DEF BacklogInv
  <2>2. OpenInv' BY DEF OpenInv, Opened
  <2>3. RangeInv' BY Zenon DEF RangeInv
  <2> QED BY <2>1, <2>2, <2>3, Zenon DEF SurviveInv
<1>7. CASE RunFails
      BY <1>7, OthersPreserve, Zenon DEF RunFails, Started
<1>8. ASSUME NEW p \in {S, F}, ServeFifo(p) \/ waitQuit(p) PROVE SurviveInv'
      BY <1>8, OthersPreserve, Zenon DEF ServeFifo, waitQuit
<1>9. CASE onServerQuit(Hup, "done")
      BY <1>9, OthersPreserve, Zenon DEF onServerQuit
<1>10. CASE onServerQuit(Poller, "idle")
      BY <1>10, OthersPreserve, Zenon DEF onServerQuit
<1>11. CASE onFifoManagerQuit(User, "closeManager", "done")
      BY <1>11, OthersPreserve, Zenon DEF onFifoManagerQuit
<1>12. CASE OnHup \/ \E r \in Retriers : OnHupFull(r)
  <2>1. CASE OnHup BY <2>1, OthersPreserve, Zenon DEF OnHup, Detach
  <2>2. ASSUME NEW r \in Retriers, OnHupFull(r) PROVE SurviveInv'
        BY <2>2, OthersPreserve, Zenon DEF OnHupFull, Detach
  <2> QED BY <1>12, <2>1, <2>2, Zenon
<1>13. CASE OnReadClosed
      BY <1>13, OthersPreserve, Zenon DEF OnReadClosed, Detach
<1>14. CASE GetFifoManager
      BY <1>14, OthersPreserve, Zenon DEF GetFifoManager
<1>15. CASE (Exhaust \/ Recover) /\ UNCHANGED loop
      BY <1>15, OthersPreserve, Zenon DEF Exhaust, Recover
<1>16. CASE ListenerShut /\ UNCHANGED loop
  <2> USE <1>16 DEF ListenerShut, queued
  <2>1. BacklogInv' BY Zenon DEF BacklogInv
  <2>2. OpenInv' BY Zenon DEF OpenInv, Opened
  <2>3. RangeInv' BY Zenon DEF RangeInv, BacklogInv
  <2> QED BY <2>1, <2>2, <2>3, Zenon DEF SurviveInv
<1>17. ASSUME NEW c \in Conns, Dial(c) \/ Request(c), UNCHANGED loop PROVE SurviveInv'
      BY <1>17, OthersPreserve, Zenon DEF Dial, Request
<1>18. ASSUME NEW c \in Conns, CloseConn(c) \/ RequestDone(c), UNCHANGED loop PROVE SurviveInv'
      BY <1>18, OthersPreserve, Zenon DEF CloseConn, RequestDone, Closed
<1>19. CASE UNCHANGED vars
      BY <1>19, OthersPreserve, Zenon DEF vars
<1>20. CASE Shutdown \/ quit \/ onFifoManagerQuit(Shut, "closeManager", "quit")
  <2>1. UNCHANGED serverVars /\ \A p \in Accepters : pc'[p] = pc[p]
        BY <1>20, Zenon DEF Shutdown, quit, onFifoManagerQuit
  <2>2. OpenInv' BY <2>1, Zenon DEF OpenInv, Opened
  <2> USE <1>20 DEF Shutdown, quit, onFifoManagerQuit
  <2>3. BacklogInv' BY Zenon DEF BacklogInv
  <2>4. RangeInv' BY Zenon DEF RangeInv, BacklogInv, Opened
  <2> QED BY <2>2, <2>3, <2>4, Zenon DEF SurviveInv
<1>21. CASE ServerClosed("closedServer") \/ ServerClosed("deadline")
  <2> USE <1>21 DEF ServerClosed
  <2>1. BacklogInv' BY Zenon DEF BacklogInv
  <2>2. OpenInv' BY DEF OpenInv, Opened
  <2>3. RangeInv' BY Zenon DEF RangeInv, BacklogInv, Opened
  <2> QED BY <2>1, <2>2, <2>3, Zenon DEF SurviveInv
<1>22. CASE (CloseDetach \/ SleepEnd \/ Deadline \/ RangeEnd) /\ UNCHANGED loop
  <2> USE <1>22 DEF CloseDetach, SleepEnd, Deadline, RangeEnd, Detach
  <2>1. BacklogInv' BY Zenon DEF BacklogInv
  <2>2. OpenInv' BY DEF OpenInv, Opened
  <2>3. RangeInv' BY Zenon DEF RangeInv, BacklogInv, Opened
  <2> QED BY <2>1, <2>2, <2>3, Zenon DEF SurviveInv
<1>23. CASE CloseListener /\ UNCHANGED loop
  <2> USE <1>23 DEF CloseListener, queued
  <2>1. BacklogInv' BY Zenon DEF BacklogInv
  <2>2. OpenInv' BY Zenon DEF OpenInv, Opened
  <2>3. RangeInv' BY Zenon DEF RangeInv
  <2> QED BY <2>1, <2>2, <2>3, Zenon DEF SurviveInv
<1>24. CASE RangeBegin /\ UNCHANGED loop
  <2> USE <1>24 DEF RangeBegin
  <2>1. BacklogInv' BY Zenon DEF BacklogInv
  <2>2. OpenInv' BY Zenon DEF OpenInv, Opened
  <2>3. RangeInv' BY DEF RangeInv, OpenInv, Opened
  <2> QED BY <2>1, <2>2, <2>3, Zenon DEF SurviveInv
<1>25. ASSUME NEW c \in Conns, Visit(c), UNCHANGED loop PROVE SurviveInv'
  <2> USE <1>25
  <2>1. BacklogInv' BY DEF BacklogInv, Visit
  <2>2. OpenInv' BY DEF OpenInv, Opened, Visit
  <2>3. RangeInv'
    <3>1. CASE c \in connections /\ isIdle(c)
          BY <3>1 DEF RangeInv, Opened, Visit
    <3>2. CASE ~(c \in connections /\ isIdle(c))
      <4>1. ~active' => ~active /\ c \notin connections
            BY <3>2, Zenon DEF Visit
      <4>2. c \notin connections => c \in todo /\ st[c] = "closed"
            BY Zenon DEF Visit, OpenInv
      <4> QED BY <3>2, <4>1, <4>2, Zenon DEF RangeInv, Opened, Visit
    <3> QED BY <3>1, <3>2, Zenon
  <2> QED BY <2>1, <2>2, <2>3, Zenon DEF SurviveInv
<1>26. CASE CloseIdle /\ UNCHANGED loop
  <2> USE <1>26 DEF CloseIdle, Closed, Closing
  <2>1. BacklogInv' BY Zenon DEF BacklogInv
  <2>2. OpenInv' BY DEF OpenInv, Opened
  <2>3. RangeInv' BY Zenon DEF RangeInv, Opened
  <2> QED BY <2>1, <2>2, <2>3, Zenon DEF SurviveInv
<1>27. ASSUME NEW c \in Conns, OnRead(c), UNCHANGED loop PROVE SurviveInv'
      BY <1>1, <1>27, Zenon DEF OnRead
<1>28. ASSUME NEW r \in Retriers, NEW c \in Conns, Retry(r, c), UNCHANGED loop PROVE SurviveInv'
      BY <1>1, <1>28, Zenon DEF Retry
<1> HIDE DEF SurviveInv
<1> QED BY <1>2, <1>3, <1>4, <1>5, <1>6, <1>7, <1>8, <1>9, <1>10, <1>11, <1>12, <1>13, <1>14,
           <1>15, <1>16, <1>17, <1>18, <1>19, <1>20, <1>21, <1>22, <1>23, <1>24, <1>25, <1>26,
           <1>27, <1>28, Zenon
        DEF Next, Step, Outside, AcceptStep, ShutdownStep, CloseStep

(* When Close succeeded, no connection is open but those that onAccept had not *)
(* stored when the last pass began, whatever was accepted, requested and       *)
(* closed while it ran (server.Close).                                         *)
THEOREM CloseLeavesOnlyLate == Spec => []OnlyLateSurvive
<1>1. MapInv /\ ListenerInv /\ SurviveInv /\ [Next]_vars => (MapInv /\ ListenerInv /\ SurviveInv)'
      BY MapInvNext, ListenerStep, SurviveStep, Zenon
<1>2. SurviveInv => OnlyLateSurvive
      BY Zenon DEF SurviveInv, RangeInv, OnlyLateSurvive, Opened
<1> QED BY <1>1, <1>2, MapInvInit, ListenerInit, SurviveInit, PTL DEF Spec

-----------------------------------------------------------------------------
(* When Serve returns                                                       *)

NotStarted == pc[S] \in {"serve", "serveFifo"}

(* As long as nobody shuts down: a part that does not run has not started or   *)
(* has quit, and the stop channel is used when both are so.                    *)
LoopInv ==
    /\ mode \in {"serve", "fifo", "all", "both"}
    /\ mode # "both" /\ ~forceQuit =>
         /\ pc[Shut] = "idle" /\ ln # "closed"
         /\ pc[F] = "done" /\ (pc[S] = "serve" => mode # "fifo")
         /\ pc[S] = "serveFifo" => mode = "fifo"
         /\ mode = "fifo" => ln = "none"
         /\ \A p \in {Hup, Poller} : pc[p] = "onQuit" => ~Unlocked \/ ln = "shut"
         /\ fifoManager \/ pc[User] = "closeManager" => mode # "serve" /\ ~NotStarted
         /\ ~svrRunning /\ mode # "fifo" => NotStarted \/ ln = "shut"
         /\ ~fifoRunning /\ mode # "serve" => NotStarted \/ pc[User] = "done"
         /\ stop \/ pc[S] = "done" => /\ mode # "fifo" => ln = "shut"
                                      /\ mode # "serve" => pc[User] = "done"

(* Nothing has started at first.                                               *)
LEMMA LoopInit == Init => LoopInv
BY GoroutinesAssumption, ModesAssumption, Zenon
   DEF Init, ServerInit, Start, Procs, Accepters, LoopInv, NotStarted

(* Every step preserves it: checkQuit looks at both parts.                     *)
LEMMA LoopStep == MapInv /\ ListenerInv /\ LoopInv /\ [Next]_vars => LoopInv'
<1> SUFFICES ASSUME MapInv, ListenerInv, LoopInv, [Next]_vars PROVE LoopInv'
    OBVIOUS
<1>0. pc \in [Procs -> Labels] BY Zenon DEF MapInv, Types
<1> USE <1>0, GoroutinesAssumption, ServerAssumption
    DEF Go, Back, Procs, Accepters, LoopInv, NotStarted, Unlocked, ListenerInv,
        listener, closing, conns, serverVars, loop
<1>1. CASE AcceptStep /\ UNCHANGED loop
  <2>1. UNCHANGED <<ln, loop>> /\ \A p \in Procs \ Accepters : pc'[p] = pc[p]
        BY <1>1 DEF AcceptStep, OnRead, Retry, Accept, OnReadFull, RetryEmpty, Resume, Register,
                    Detach, CheckActive, AddCallback, Store
  <2>2. pc'[Poller] = "onQuit" => pc[Poller] = "onQuit"
        BY <1>1 DEF AcceptStep, OnRead, Retry, Accept, OnReadFull, RetryEmpty, Resume,
                    CheckActive, AddCallback, Store
  <2> QED BY <2>1, <2>2, Zenon
<1>2. CASE Serve
      BY <1>2, Zenon DEF Serve, Started
<1>3. CASE RunFails
      BY <1>3, Zenon DEF RunFails, Started
<1>4. ASSUME NEW p \in {S, F}, ServeFifo(p) PROVE LoopInv'
      BY <1>4, Zenon DEF ServeFifo
<1>5. ASSUME NEW p \in {S, F}, waitQuit(p) PROVE LoopInv'
      BY <1>5, Zenon DEF waitQuit
<1>6. CASE onServerQuit(Hup, "done")
      BY <1>6, Zenon DEF onServerQuit, checkQuit
<1>7. CASE onServerQuit(Poller, "idle")
      BY <1>7, Zenon DEF onServerQuit, checkQuit
<1>8. CASE onFifoManagerQuit(User, "closeManager", "done")
      BY <1>8, Zenon DEF onFifoManagerQuit, checkQuit
<1>9. CASE onFifoManagerQuit(Shut, "closeManager", "quit")
      BY <1>9, Zenon DEF onFifoManagerQuit
<1>10. CASE OnHup \/ \E r \in Retriers : OnHupFull(r)
  <2>1. CASE OnHup BY <2>1, Zenon DEF OnHup, Detach
  <2>2. ASSUME NEW r \in Retriers, OnHupFull(r) PROVE LoopInv'
        BY <2>2, Zenon DEF OnHupFull, Detach
  <2> QED BY <1>10, <2>1, <2>2, Zenon
<1>11. CASE OnReadClosed
      BY <1>11, Zenon DEF OnReadClosed, Detach
<1>12. CASE GetFifoManager
      BY <1>12, Zenon DEF GetFifoManager
<1>13. CASE Shutdown
      BY <1>13, Zenon DEF Shutdown
<1>14. CASE (CloseStep \/ Deadline) /\ UNCHANGED loop
      BY <1>14, Zenon DEF CloseStep, Deadline, CloseDetach, CloseListener, RangeBegin, CloseIdle,
                   RangeEnd, SleepEnd, Visit
<1>15. CASE ServerClosed("closedServer") \/ ServerClosed("deadline") \/ quit
      BY <1>15, Zenon DEF ServerClosed, quit
<1>16. CASE (Exhaust \/ Recover) /\ UNCHANGED loop
      BY <1>16, Zenon DEF Exhaust, Recover
<1>17. CASE ListenerShut /\ UNCHANGED loop
      BY <1>17, Zenon DEF ListenerShut
<1>18. ASSUME NEW c \in Conns, Dial(c) \/ Request(c) \/ CloseConn(c) \/ RequestDone(c),
              UNCHANGED loop
       PROVE LoopInv'
      BY <1>18, Zenon DEF Dial, Request, CloseConn, RequestDone
<1>19. CASE UNCHANGED vars
      BY <1>19, Zenon DEF vars
<1> HIDE DEF LoopInv
<1> QED BY <1>1, <1>2, <1>3, <1>4, <1>5, <1>6, <1>7, <1>8, <1>9, <1>10, <1>11, <1>12, <1>13,
           <1>14, <1>15, <1>16, <1>17, <1>18, <1>19, Zenon
        DEF Next, Step, Outside, ShutdownStep

(* Without a Shutdown, Serve, ServeAll or ServeFifo returns only when all it   *)
(* serves has quit: the end of the server alone, or of the FIFO manager alone, *)
(* does not end the loop (checkQuit).                                          *)
THEOREM ServeOutlives == Spec => []LoopOutlives
<1>1. MapInv /\ ListenerInv /\ LoopInv /\ [Next]_vars => (MapInv /\ ListenerInv /\ LoopInv)'
      BY MapInvNext, ListenerStep, LoopStep, Zenon
<1>2. LoopInv => LoopOutlives
      BY Zenon DEF LoopInv, LoopOutlives
<1> QED BY <1>1, <1>2, MapInvInit, ListenerInit, LoopInit, PTL DEF Spec
=============================================================================
