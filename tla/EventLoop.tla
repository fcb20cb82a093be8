----------------------------- MODULE EventLoop -----------------------------
(***************************************************************************)
(* The event loop: Serve, ServeFifo or ServeAll wait for the stop channel, *)
(* Shutdown closes the server and the FIFO manager, and either part may    *)
(* quit by itself.  The mutex is held across steps only by a Serve whose   *)
(* Run fails; the other critical sections are single steps.  An event loop *)
(* serves once, and one hang-up of the listener is followed.               *)
(***************************************************************************)
EXTENDS Server

CONSTANTS
    S, F,        \* the goroutines in Serve or ServeAll, and in ServeFifo
    User,        \* a goroutine that closes the FIFO manager
    Hup,         \* the goroutine of onhups
    Modes        \* subset of {"serve", "fifo", "all", "both"}

ASSUME GoroutinesAssumption ==
    /\ {Shut, S, F, User, Hup} \cap Accepters = {} /\ Shut \notin {S, F, User, Hup}
    /\ S \notin {F, User, Hup} /\ F \notin {User, Hup} /\ User # Hup
ASSUME ModesAssumption == Modes \subseteq {"serve", "fifo", "all", "both"}

VARIABLES
    mode,        \* which of Serve, ServeFifo and ServeAll are called
    svr, fifoManager,              \* the pointers are set
    svrRunning, fifoRunning, forceQuit,
    stop,        \* the channel holds a value
    shutManager, \* Shutdown took a FIFO manager
    failed       \* the server was not closed in time

loop == <<mode, svr, fifoManager, svrRunning, fifoRunning, forceQuit, stop,
          shutManager, failed>>
vars == <<serverVars, pc, loop>>

Procs == Accepters \cup {Shut, S, F, User, Hup}
\* A Serve whose Run failed is in onServerQuit, which waits for the mutex that
\* Serve itself holds: it goes no further, and nobody else gets the mutex.
Unlocked == pc[S] # "onQuit"

\* What the goroutine in S calls: it is ServeFifo when there is no server.
Start == [p \in Procs |-> IF p = S THEN (IF mode = "fifo" THEN "serveFifo" ELSE "serve")
                          ELSE IF p # F THEN "idle"
                          ELSE IF mode = "both" THEN "serveFifo" ELSE "done"]

Init ==
    /\ ServerInit /\ mode \in Modes /\ pc = Start
    /\ svr = FALSE /\ fifoManager = FALSE
    /\ svrRunning = FALSE /\ fifoRunning = FALSE /\ forceQuit = FALSE
    /\ stop = FALSE /\ shutManager = FALSE /\ failed = FALSE

-----------------------------------------------------------------------------
(* Serve, ServeAll, ServeFifo and waitQuit *)

\* newServer and Run, and the FIFO manager of ServeAll
Started ==
    /\ Unlocked /\ svr' = TRUE /\ svrRunning' = TRUE
    /\ fifoManager' = (fifoManager \/ mode = "all")
    /\ fifoRunning' = (fifoRunning \/ mode = "all")
    /\ UNCHANGED <<mode, forceQuit, stop, shutManager, failed>>

Serve ==
    /\ Go(S, "serve", "wait") /\ Started
    /\ ln' = "open" /\ lnEpoll' = TRUE
    /\ UNCHANGED <<lnDetached, full, exhausted, conns, closing, at>>

\* Run calls onQuit while Serve holds the mutex.
RunFails ==
    /\ Go(S, "serve", "onQuit") /\ Started /\ UNCHANGED serverVars

ServeFifo(p) ==
    /\ Go(p, "serveFifo", "wait") /\ Unlocked
    /\ fifoManager' = TRUE /\ fifoRunning' = TRUE
    /\ UNCHANGED <<serverVars, mode, svr, svrRunning, forceQuit, stop, shutManager, failed>>

waitQuit(p) ==
    /\ Go(p, "wait", "done") /\ stop /\ stop' = FALSE
    /\ UNCHANGED <<serverVars, mode, svr, fifoManager, svrRunning, fifoRunning, forceQuit,
                   shutManager, failed>>

-----------------------------------------------------------------------------
(* onServerQuit, onFifoManagerQuit and checkQuit: a value that finds the *)
(* channel full is dropped.                                              *)

\* Mutant: the loop quits when either part does.
checkQuit_either(server, fifo) == stop' = (stop \/ forceQuit \/ ~server \/ ~fifo)

checkQuit(server, fifo) == stop' = (stop \/ forceQuit \/ (~server /\ ~fifo))

onServerQuit(p, to) ==
    /\ Go(p, "onQuit", to) /\ Unlocked /\ svrRunning' = FALSE /\ checkQuit(FALSE, fifoRunning)
    /\ UNCHANGED <<serverVars, mode, svr, fifoManager, fifoRunning, forceQuit, shutManager,
                   failed>>

onFifoManagerQuit(p, from, to) ==
    /\ Go(p, from, to) /\ Unlocked /\ fifoRunning' = FALSE /\ checkQuit(svrRunning, FALSE)
    /\ UNCHANGED <<serverVars, mode, svr, fifoManager, svrRunning, forceQuit, shutManager,
                   failed>>

\* appendHup detaches the listener, and another goroutine calls OnHup.
OnHup ==
    /\ ln = "shut" /\ lnEpoll /\ ~full /\ pc[Poller] = "idle" /\ Go(Hup, "idle", "onQuit") /\ Detach
    /\ UNCHANGED <<full, exhausted, conns, closing, at, loop>>

\* Without file descriptors OnRead comes first, and starts the goroutine that
\* retries, with nothing to accept any more.
OnHupFull(r) ==
    /\ ln = "shut" /\ lnEpoll /\ full /\ pc[Poller] = "idle" /\ pc[Hup] = "idle" /\ pc[r] = "idle"
    /\ pc' = [pc EXCEPT ![r] = "retry", ![Hup] = "onQuit"] /\ Detach
    /\ UNCHANGED <<full, exhausted, conns, closing, at, loop>>

\* Accept says that the listener is closed: the poller itself quits.
OnReadClosed ==
    /\ ln = "shut" /\ lnEpoll /\ pc[Poller] = "idle" /\ pc[Hup] = "idle"
    /\ pc' = [pc EXCEPT ![Poller] = "onQuit", ![Hup] = "done"] /\ Detach
    /\ UNCHANGED <<full, exhausted, conns, closing, at, loop>>

GetFifoManager ==
    /\ Go(User, "idle", "closeManager") /\ Unlocked /\ fifoManager /\ UNCHANGED <<serverVars, loop>>

-----------------------------------------------------------------------------
(* Shutdown *)

Shutdown ==
    /\ Go(Shut, "idle", IF svr THEN "detach"
                        ELSE IF fifoManager THEN "closeManager" ELSE "quit")
    /\ Unlocked /\ forceQuit' = TRUE /\ shutManager' = fifoManager
    /\ svr' = FALSE /\ fifoManager' = FALSE /\ svrRunning' = FALSE /\ fifoRunning' = FALSE
    /\ UNCHANGED <<serverVars, mode, stop, failed>>

ServerClosed(from) ==
    /\ Go(Shut, from, IF shutManager THEN "closeManager" ELSE "quit")
    /\ failed' = (from = "deadline")
    /\ UNCHANGED <<serverVars, mode, svr, fifoManager, svrRunning, fifoRunning, forceQuit,
                   stop, shutManager>>

quit ==
    /\ Go(Shut, "quit", "done") /\ stop' = TRUE
    /\ UNCHANGED <<serverVars, mode, svr, fifoManager, svrRunning, fifoRunning, forceQuit,
                   shutManager, failed>>

ShutdownStep ==
    \/ CloseStep /\ UNCHANGED loop
    \/ ServerClosed("closedServer") \/ ServerClosed("deadline") \/ quit
    \/ onFifoManagerQuit(Shut, "closeManager", "quit")

-----------------------------------------------------------------------------
\* What happens without anybody's help: handlers return, too.
Step ==
    \/ Serve \/ \E p \in {S, F} : ServeFifo(p) \/ waitQuit(p)
    \/ onServerQuit(Hup, "done") \/ onServerQuit(Poller, "idle")
    \/ onFifoManagerQuit(User, "closeManager", "done")
    \/ OnHup \/ OnReadClosed \/ ShutdownStep \/ \E r \in Retriers : OnHupFull(r)
    \/ AcceptStep /\ UNCHANGED loop
    \/ (\E c \in Conns : RequestDone(c)) /\ UNCHANGED loop

Outside ==
    \/ RunFails \/ GetFifoManager \/ Shutdown
    \/ (Deadline \/ Exhaust \/ Recover \/ ListenerShut) /\ UNCHANGED loop
    \/ (\E c \in Conns : Dial(c) \/ Request(c) \/ CloseConn(c)) /\ UNCHANGED loop

Next == Step \/ Outside
Spec == Init /\ [][Next]_vars
Quiescent == ~ENABLED Step

-----------------------------------------------------------------------------
(* Properties *)

\* One accepts at a time: until the file descriptors run out a second time,
\* a goroutine that retries is alone and has the listener out of epoll
\* (netpoll_server.go: OnRead).
OneAccepter ==
    exhausted <= 1 =>
        \A r \in Retriers : pc[r] # "idle" =>
            ~lnEpoll /\ \A q \in Retriers \ {r} : pc[q] = "idle"

\* No connection waits in the backlog of an open listener once the file
\* descriptors are back, whatever the retries met (OnRead).
BacklogAccepted ==
    ln = "open" /\ ~full /\ pc[Shut] = "idle" /\ queued # {} => ~Quiescent

\* The map of the server holds no closed connection, unless that connection
\* was closed before onAccept stored it (onAccept).
NoStaleEntry == \A c \in connections : st[c] = "closed" => c \in early

\* When Close succeeded, only connections that onAccept had not stored when
\* the last pass began are still open (server.Close).
OnlyLateSurvive ==
    pc[Shut] = "done" /\ ln = "closed" /\ ~failed => {c \in Conns : st[c] = "open"} \subseteq late

\* Everything that is served has quit by itself.  The hang-up of the listener is
\* not seen while a goroutine retries.
Ended ==
    /\ mode # "fifo" => ln = "shut" /\ \A r \in Retriers : pc[r] = "idle"
    /\ mode # "serve" => pc[User] = "done"

\* Without a Shutdown, Serve with one caller returns only when everything it
\* serves has quit, because the loop outlives either of its parts (checkQuit).
LoopOutlives ==
    mode # "both" /\ pc[S] = "done" /\ ~forceQuit =>
        /\ mode # "fifo" => ln = "shut"
        /\ mode # "serve" => pc[User] = "done"

\* With one caller, Serve returns after Shutdown and also when everything it
\* serves has quit by itself, unless Run failed; without a Shutdown it returns
\* only then (waitQuit, checkQuit, quit).
ServeReturns ==
    /\ mode # "both" /\ Unlocked /\ pc[S] # "done" /\ (pc[Shut] = "done" \/ Ended) => ~Quiescent
    /\ LoopOutlives

\* Shutdown returns without a deadline once the handlers do, unless the map
\* holds a connection that was closed before it was stored, or Run failed
\* (Shutdown, Close).
ShutdownReturns ==
    /\ pc[Shut] \notin {"idle", "done"} /\ Unlocked
    /\ \A c \in connections : st[c] # "closed"
    => ~Quiescent
============================================================================
