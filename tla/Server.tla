------------------------------- MODULE Server -------------------------------
(***************************************************************************)
(* The server: the poller accepts connections from the listener, another   *)
(* goroutine does when file descriptors ran out, connections come and go,  *)
(* and Close waits for those that are busy.  What a connection does inside *)
(* is the subject of Connection; here it is open, busy with a request,     *)
(* closing or closed.                                                      *)
(***************************************************************************)
EXTENDS Integers

CONSTANTS
    Conns,          \* connections that may be made
    Retriers,       \* goroutines that OnRead may start
    Poller,         \* the goroutine of Poll.Wait
    Shut,           \* the goroutine that shuts down
    MaxExhausted    \* bound on how often the file descriptors run out

VARIABLES
    ln,          \* the listener: "none" before Run, "open", "shut" or "closed"
    lnEpoll,     \* its fd is registered
    lnDetached,  \* operator.detached > 0
    full,        \* accept fails with EMFILE or ENFILE
    exhausted,   \* how often that happened
    st,          \* "none", "queued" in the backlog, "open", "closing", "closed"
    busy,        \* connections that process a request
    added,       \* connections with the callback that deletes them
    connections, \* the map of the server
    early,       \* connections that were closed before they were stored
    todo,        \* connections left to visit by Range
    late,        \* connections in onAccept when the last Range began
    active,      \* activeConn > 0
    at,          \* the connection at which a goroutine is
    pc

listener == <<ln, lnEpoll, lnDetached>>
conns == <<st, busy, added, connections, early>>
closing == <<todo, late, active>>
serverVars == <<listener, full, exhausted, conns, closing, at>>

Accepters == Retriers \cup {Poller}
None == "no connection"
ASSUME ServerAssumption == None \notin Conns /\ Poller \notin Retriers
queued == {c \in Conns : st[c] = "queued"}

ServerInit ==
    /\ ln = "none" /\ lnEpoll = FALSE /\ lnDetached = FALSE /\ full = FALSE /\ exhausted = 0
    /\ st = [c \in Conns |-> "none"] /\ busy = {} /\ added = {} /\ connections = {} /\ early = {}
    /\ todo = {} /\ late = {} /\ active = FALSE
    /\ at = [p \in Accepters \cup {Shut} |-> None]

Go(p, from, to) == pc[p] = from /\ pc' = [pc EXCEPT ![p] = to]

-----------------------------------------------------------------------------
(* The outside: peers connect, send requests and close, files run out *)

Dial(c) ==
    /\ ln = "open" /\ st[c] = "none" /\ st' = [st EXCEPT ![c] = "queued"]
    /\ UNCHANGED <<listener, full, exhausted, busy, added, connections, early, closing, at, pc>>

Request(c) ==
    /\ st[c] = "open" /\ c \notin busy /\ busy' = busy \cup {c}
    /\ UNCHANGED <<listener, full, exhausted, st, added, connections, early, closing, at, pc>>

Exhaust ==
    /\ ~full /\ exhausted < MaxExhausted /\ full' = TRUE /\ exhausted' = exhausted + 1
    /\ UNCHANGED <<listener, conns, closing, at, pc>>

Recover ==
    /\ full /\ full' = FALSE /\ UNCHANGED <<listener, exhausted, conns, closing, at, pc>>

\* The listening socket is shut down under the server.
ListenerShut ==
    /\ ln = "open" /\ ln' = "shut"
    /\ st' = [c \in Conns |-> IF c \in queued THEN "closed" ELSE st[c]]
    /\ UNCHANGED <<lnEpoll, lnDetached, full, exhausted, busy, added, connections, early, closing,
                   at, pc>>

\* The close callbacks that are there by now run.
Closed(c) ==
    /\ st' = [st EXCEPT ![c] = "closed"]
    /\ connections' = IF c \in added THEN connections \ {c} ELSE connections
    /\ early' = IF c \in connections THEN early ELSE early \cup {c}

CloseConn(c) ==
    /\ st[c] = "open" /\ c \notin busy /\ Closed(c)
    /\ UNCHANGED <<listener, full, exhausted, busy, added, closing, at, pc>>

\* Mutant: the handler does not close what was closed meanwhile.
RequestDone_open(c) ==
    /\ c \in busy /\ busy' = busy \ {c}
    /\ UNCHANGED <<listener, full, exhausted, st, connections, early, added, closing, at, pc>>

RequestDone(c) ==
    /\ c \in busy /\ busy' = busy \ {c}
    /\ IF st[c] = "closing" THEN Closed(c) ELSE UNCHANGED <<st, connections, early>>
    /\ UNCHANGED <<listener, full, exhausted, added, closing, at, pc>>

-----------------------------------------------------------------------------
(* OnRead and the goroutine that it starts *)

Register == lnEpoll' = (ln \in {"open", "shut"}) /\ UNCHANGED <<ln, lnDetached>>
Detach == lnEpoll' = (lnEpoll /\ lnDetached) /\ lnDetached' = TRUE /\ UNCHANGED ln

\* Accept, and init of the connection, which registers it
Accept(p, from, c) ==
    /\ Go(p, from, "active") /\ c \in queued /\ ~full
    /\ st' = [st EXCEPT ![c] = "open"] /\ at' = [at EXCEPT ![p] = c]
    /\ UNCHANGED <<listener, full, exhausted, busy, added, connections, early, closing>>

\* Mutant: a listener that was detached once is taken for detached.
OnRead_once(c) == lnEpoll /\ ~lnDetached /\ Accept(Poller, "idle", c)

OnRead(c) == lnEpoll /\ Accept(Poller, "idle", c)

\* Mutant: the listener stays registered while another goroutine accepts.
OnReadFull_attached(r) ==
    /\ lnEpoll /\ full /\ queued # {} /\ pc[Poller] = "idle"
    /\ pc[r] = "idle" /\ pc' = [pc EXCEPT ![r] = "retry"]
    /\ UNCHANGED <<listener, full, exhausted, conns, closing, at>>

OnReadFull(r) ==
    /\ lnEpoll /\ full /\ queued # {} /\ pc[Poller] = "idle"
    /\ pc[r] = "idle" /\ pc' = [pc EXCEPT ![r] = "retry"] /\ Detach
    /\ UNCHANGED <<full, exhausted, conns, closing, at>>

Retry(r, c) == ln = "open" /\ Accept(r, "retry", c)

\* Nothing to accept: the poller takes over.  While accept fails, which it
\* does for ever once the listener is gone, the goroutine tries again.
RetryEmpty(r) ==
    /\ Go(r, "retry", "resume") /\ ln = "open" /\ ~full /\ queued = {}
    /\ UNCHANGED serverVars

Resume(r) ==
    /\ Go(r, "resume", "idle") /\ Register
    /\ UNCHANGED <<full, exhausted, conns, closing, at>>

(* onAccept *)

Back(p) == IF p = Poller THEN "idle" ELSE "retry"

CheckActive(p) ==
    /\ Go(p, "active", IF st[at[p]] = "open" THEN "add" ELSE Back(p))
    /\ at' = IF st[at[p]] = "open" THEN at ELSE [at EXCEPT ![p] = None]
    /\ UNCHANGED <<listener, full, exhausted, conns, closing>>

\* Mutant: the connection does not leave the map when it is closed.
AddCallback_dropped(p) ==
    /\ Go(p, "add", "store")
    /\ UNCHANGED <<listener, full, exhausted, conns, closing, at>>

AddCallback(p) ==
    /\ Go(p, "add", "store") /\ added' = added \cup {at[p]}
    /\ UNCHANGED <<listener, full, exhausted, st, busy, connections, early, closing, at>>

Store(p) ==
    /\ Go(p, "store", Back(p)) /\ connections' = connections \cup {at[p]}
    /\ at' = [at EXCEPT ![p] = None]
    /\ UNCHANGED <<listener, full, exhausted, st, busy, added, early, closing>>

AcceptStep ==
    \/ \E c \in Conns : OnRead(c)
    \/ \E r \in Retriers : OnReadFull(r) \/ RetryEmpty(r) \/ Resume(r) \/ (\E c \in Conns : Retry(r, c))
    \/ \E p \in Accepters : CheckActive(p) \/ AddCallback(p) \/ Store(p)

-----------------------------------------------------------------------------
(* Close.  Range visits the connections of the map, and may or may not visit *)
(* those that are stored meanwhile.                                         *)

CloseDetach ==
    /\ Go(Shut, "detach", "closeListener") /\ Detach
    /\ UNCHANGED <<full, exhausted, conns, closing, at>>

\* Connections in the backlog are reset.
CloseListener ==
    /\ Go(Shut, "closeListener", "range") /\ ln' = "closed" /\ lnEpoll' = FALSE
    /\ st' = [c \in Conns |-> IF c \in queued THEN "closed" ELSE st[c]]
    /\ UNCHANGED <<lnDetached, full, exhausted, busy, added, connections, early, closing, at>>

RangeBegin ==
    /\ Go(Shut, "range", "visit")
    /\ todo' = connections /\ active' = FALSE
    /\ late' = {at[p] : p \in Accepters} \ {None}
    /\ UNCHANGED <<listener, full, exhausted, conns, at>>

\* processing is unlocked and the buffers are empty: neither holds for a
\* connection that is closing or closed.
isIdle(c) == st[c] = "open" /\ c \notin busy

\* Mutant: a connection that is not idle is not counted.
Visit_uncounted(c) ==
    /\ c \in todo \cup (late \cap connections)
    /\ todo' = todo \ {c} /\ late' = late \ {c}
    /\ IF c \in connections /\ isIdle(c)
         THEN Go(Shut, "visit", "close") /\ at' = [at EXCEPT ![Shut] = c]
         ELSE Go(Shut, "visit", "visit") /\ UNCHANGED at
    /\ UNCHANGED <<listener, full, exhausted, conns, active>>

Visit(c) ==
    /\ c \in todo \cup (late \cap connections)
    /\ todo' = todo \ {c} /\ late' = late \ {c}
    /\ IF c \in connections /\ isIdle(c)
         THEN Go(Shut, "visit", "close") /\ at' = [at EXCEPT ![Shut] = c] /\ UNCHANGED active
         ELSE Go(Shut, "visit", "visit") /\ active' = (active \/ c \in connections) /\ UNCHANGED at
    /\ UNCHANGED <<listener, full, exhausted, conns>>

\* A request that came since isIdle is finished first.
CloseIdle ==
    LET c == at[Shut]
    IN /\ Go(Shut, "close", "visit") /\ at' = [at EXCEPT ![Shut] = None]
       /\ \/ st[c] = "open" /\ c \notin busy /\ Closed(c)
          \/ /\ st[c] = "open" /\ c \in busy /\ st' = [st EXCEPT ![c] = "closing"]
             /\ UNCHANGED <<connections, early>>
          \/ st[c] # "open" /\ UNCHANGED <<st, connections, early>>
       /\ UNCHANGED <<listener, full, exhausted, busy, added, closing>>

RangeEnd ==
    /\ Go(Shut, "visit", IF active THEN "sleep" ELSE "closedServer") /\ todo = {}
    /\ UNCHANGED serverVars

\* Another pass matters when it finds no connection or closes one.
SleepEnd ==
    /\ Go(Shut, "sleep", "range") /\ (connections = {} \/ \E c \in connections : isIdle(c))
    /\ UNCHANGED serverVars

Deadline == Go(Shut, "sleep", "deadline") /\ UNCHANGED serverVars

CloseStep ==
    \/ CloseDetach \/ CloseListener \/ RangeBegin \/ CloseIdle \/ RangeEnd \/ SleepEnd
    \/ \E c \in Conns : Visit(c)
=============================================================================
