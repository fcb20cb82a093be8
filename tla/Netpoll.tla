------------------------------ MODULE Netpoll ------------------------------
(***************************************************************************)
(* A program that uses the library: an event loop that serves, a dialer,   *)
(* or goroutines that pick pollers while their number is set.  The three   *)
(* share the poll manager and nothing else, and a run follows one of them. *)
(***************************************************************************)
EXTENDS EventLoop, Dialer, TLC

VARIABLE use

clientVars == <<pollVars, dialVars>>
allVars == <<use, vars, clientVars>>

\* What belongs to another use has one initial value.
NetpollInit ==
    /\ use \in {"server", "dialer", "manager"} /\ Init /\ DialInit
    /\ use # "server" => mode = "serve"
    /\ use # "manager" => numLoops = MaxLoops

NetpollNext ==
    /\ UNCHANGED use
    /\ \/ use = "server" /\ Next /\ UNCHANGED clientVars
       \/ use = "dialer" /\ DialNext /\ UNCHANGED vars
       \/ use = "manager" /\ ManagerNext /\ UNCHANGED <<vars, dialVars>>

NetpollSpec == NetpollInit /\ [][NetpollNext]_allVars

\* Connections and retrying goroutines are interchangeable.
Symmetry == Permutations(Conns) \cup Permutations(Retriers)
============================================================================
