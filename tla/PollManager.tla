---------------------------- MODULE PollManager ----------------------------
(***************************************************************************)
(* The manager of the pollers: they are started by the first Pick, and     *)
(* SetNumLoops lets a later Pick adjust their number.  A poller is the     *)
(* number under which it was opened.  Either load balance may pick any     *)
(* index below its pollSize, and so may this one.                          *)
(***************************************************************************)
EXTENDS Integers, Sequences, Functions

CONSTANTS
    Pickers,     \* goroutines that call Pick
    Setter,      \* a goroutine that calls SetNumLoops
    MaxLoops,    \* bound on the argument of SetNumLoops
    MaxSets      \* bound on its calls

ASSUME ManagerAssumption == Setter \notin Pickers /\ MaxLoops \in Nat

VARIABLES
    numLoops, status, polls,      \* manager
    balance,                      \* manager.balance # nil
    lbPolls, pollSize,            \* the load balance
    opened, closedPolls,          \* number of pollers opened, those told to exit
    want, new, idx,               \* locals of Run and Pick
    picked,                       \* what Pick returned last
    sets,                         \* calls of SetNumLoops so far
    ppc,
    overlap,                      \* history: SetNumLoops reset the status of a running Run
    shrunk, openFailed, panicked  \* history

manager == <<numLoops, status, polls, balance, lbPolls, pollSize>>
locals == <<want, new, idx, picked>>
happened == <<overlap, shrunk, openFailed, panicked>>
pollVars == <<manager, opened, closedPolls, locals, sets, ppc, happened>>

Uninitialized == 0
Initializing == 1
Initialized == 2
InRun == {"run", "open", "set", "rebalance", "resize"}

\* newManager
PollInit ==
    /\ numLoops \in 1..MaxLoops /\ status = Uninitialized /\ polls = <<>> /\ balance = TRUE
    /\ lbPolls = <<>> /\ pollSize = 0 /\ opened = 0 /\ closedPolls = {}
    /\ want = [p \in Pickers |-> 0] /\ new = [p \in Pickers |-> <<>>]
    /\ idx = [p \in Pickers |-> 0] /\ picked = [p \in Pickers |-> 0]
    /\ sets = 0
    /\ ppc = [p \in Pickers \cup {Setter} |-> "idle"]
    /\ overlap = FALSE /\ shrunk = FALSE /\ openFailed = FALSE /\ panicked = FALSE

At(p, from, to) == ppc[p] = from /\ ppc' = [ppc EXCEPT ![p] = to]

-----------------------------------------------------------------------------
(* SetNumLoops *)

CallSet == At(Setter, "idle", "second") /\ sets < MaxSets /\ sets' = sets + 1
EndSet == At(Setter, "second", "idle") /\ UNCHANGED sets
StoreNumLoops(n) == numLoops' = n /\ UNCHANGED <<status, overlap>>
ResetStatus ==
    /\ status' = Uninitialized /\ UNCHANGED numLoops
    /\ overlap' = (overlap \/ \E p \in Pickers : ppc[p] \in InRun)
SetRest == <<polls, balance, lbPolls, pollSize, opened, closedPolls, locals, shrunk,
             openFailed, panicked>>

\* Mutant: the status is reset before the number is stored.
SetNumLoops_late(n) ==
    /\ (CallSet /\ ResetStatus) \/ (EndSet /\ StoreNumLoops(n))
    /\ UNCHANGED SetRest

SetNumLoops(n) ==
    /\ (CallSet /\ StoreNumLoops(n)) \/ (EndSet /\ ResetStatus)
    /\ UNCHANGED SetRest

-----------------------------------------------------------------------------
(* Pick: a goroutine that finds the status Initializing spins. *)

PickFast(p) ==
    /\ At(p, "start", "size") /\ status = Initialized
    /\ UNCHANGED <<manager, opened, closedPolls, locals, sets, happened>>

PickLock(p) ==
    /\ At(p, "start", "run") /\ status = Uninitialized /\ status' = Initializing
    /\ UNCHANGED <<numLoops, polls, balance, lbPolls, pollSize, opened, closedPolls, locals, sets,
                   happened>>

\* Run: nothing to do, close the pollers that are too many, or open more
Run(p) ==
    /\ want' = [want EXCEPT ![p] = numLoops]
    /\ \/ /\ At(p, "run", "initialized") /\ numLoops = Len(polls)
          /\ UNCHANGED <<new, closedPolls, shrunk>>
       \/ /\ At(p, "run", "set") /\ numLoops < Len(polls)
          /\ new' = [new EXCEPT ![p] = SubSeq(polls, 1, numLoops)]
          /\ closedPolls' = closedPolls \cup Range(SubSeq(polls, numLoops + 1, Len(polls)))
          /\ shrunk' = TRUE
       \/ /\ At(p, "run", "open") /\ numLoops > Len(polls) /\ new' = [new EXCEPT ![p] = polls]
          /\ UNCHANGED <<closedPolls, shrunk>>
    /\ UNCHANGED <<manager, opened, idx, picked, sets, overlap, openFailed, panicked>>

openPoll(p) ==
    /\ ppc[p] = "open" /\ opened' = opened + 1
    /\ new' = [new EXCEPT ![p] = Append(@, opened')]
    /\ At(p, "open", IF Len(new'[p]) = want[p] THEN "set" ELSE "open")
    /\ UNCHANGED <<manager, closedPolls, want, idx, picked, sets, happened>>

\* Run closes the manager, and Pick goes on.
openPollFails(p) ==
    /\ At(p, "open", "initialized") /\ openFailed' = TRUE
    /\ closedPolls' = closedPolls \cup Range(polls)
    /\ numLoops' = 0 /\ balance' = FALSE /\ polls' = <<>>
    /\ UNCHANGED <<status, lbPolls, pollSize, opened, locals, sets, overlap, shrunk, panicked>>

SetPolls(p) ==
    /\ At(p, "set", "rebalance") /\ polls' = new[p]
    /\ UNCHANGED <<numLoops, status, balance, lbPolls, pollSize, opened, closedPolls, locals, sets,
                   happened>>

StorePolls(p) == lbPolls' = new[p] /\ UNCHANGED pollSize
StoreSize(p) == pollSize' = Len(new[p]) /\ UNCHANGED lbPolls
RebalanceRest == <<numLoops, status, polls, balance, opened, closedPolls, locals, sets,
                   overlap, shrunk, openFailed>>
RebalancePanics(p) ==
    /\ At(p, "rebalance", "panic") /\ ~balance /\ panicked' = TRUE
    /\ UNCHANGED <<lbPolls, pollSize>>

\* Mutant: the size is stored first.
Rebalance_size(p) ==
    /\ \/ At(p, "rebalance", "resize") /\ balance /\ StoreSize(p) /\ UNCHANGED panicked
       \/ At(p, "resize", "initialized") /\ StorePolls(p) /\ UNCHANGED panicked
       \/ RebalancePanics(p)
    /\ UNCHANGED RebalanceRest

\* Two stores without a lock, which the compiler and amd64 leave in this order.
\* A load balance that Close has dropped meanwhile is a panic.
Rebalance(p) ==
    /\ \/ At(p, "rebalance", "resize") /\ balance /\ StorePolls(p) /\ UNCHANGED panicked
       \/ At(p, "resize", "initialized") /\ StoreSize(p) /\ UNCHANGED panicked
       \/ RebalancePanics(p)
    /\ UNCHANGED RebalanceRest

\* The compare-and-swap fails when SetNumLoops was called meanwhile.
SetInitialized(p) ==
    /\ At(p, "initialized", "size")
    /\ want' = [want EXCEPT ![p] = 0] /\ new' = [new EXCEPT ![p] = <<>>]
    /\ status' = IF status = Initializing THEN Initialized ELSE status
    /\ UNCHANGED <<numLoops, polls, balance, lbPolls, pollSize, opened, closedPolls, idx, picked,
                   sets, happened>>

\* balance.Pick: no load balance, or no poller, is a panic.
PickIndex(p) ==
    /\ ppc[p] = "size"
    /\ IF balance /\ pollSize > 0
         THEN At(p, "size", "index") /\ (\E i \in 1..pollSize : idx' = [idx EXCEPT ![p] = i])
              /\ UNCHANGED panicked
         ELSE At(p, "size", "panic") /\ panicked' = TRUE /\ UNCHANGED idx
    /\ UNCHANGED <<manager, opened, closedPolls, want, new, picked, sets, overlap, shrunk,
                   openFailed>>

PickPoll(p) ==
    /\ idx' = [idx EXCEPT ![p] = 0]
    /\ IF idx[p] <= Len(lbPolls)
         THEN At(p, "index", "picked") /\ picked' = [picked EXCEPT ![p] = lbPolls[idx[p]]]
              /\ UNCHANGED panicked
         ELSE At(p, "index", "panic") /\ panicked' = TRUE /\ UNCHANGED picked
    /\ UNCHANGED <<manager, opened, closedPolls, want, new, sets, overlap, shrunk, openFailed>>

Pick(p) ==
    /\ At(p, "idle", "start")
    /\ UNCHANGED <<manager, opened, closedPolls, locals, sets, happened>>

Picked(p) ==
    /\ At(p, "picked", "idle") /\ picked' = [picked EXCEPT ![p] = 0]
    /\ UNCHANGED <<manager, opened, closedPolls, want, new, idx, sets, happened>>

PickStep(p) ==
    \/ PickFast(p) \/ PickLock(p) \/ Run(p) \/ openPoll(p) \/ SetPolls(p)
    \/ Rebalance(p) \/ SetInitialized(p) \/ PickIndex(p) \/ PickPoll(p)

\* A panic ends the program.
ManagerNext ==
    /\ ~panicked
    /\ \/ \E p \in Pickers : Pick(p) \/ PickStep(p) \/ openPollFails(p) \/ Picked(p)
       \/ \E n \in 1..MaxLoops : SetNumLoops(n)
ManagerSpec == PollInit /\ [][ManagerNext]_pollVars

-----------------------------------------------------------------------------
(* Properties *)

\* One goroutine adjusts the pollers at a time, unless SetNumLoops resets the
\* status under it (manager.Pick, SetNumLoops).
OneRun == \A p, q \in Pickers : ppc[p] \in InRun /\ ppc[q] \in InRun => p = q \/ overlap

\* Once initialized, the manager has the number of pollers that was asked for
\* last, all of them running, and no other poller runs (Run, SetNumLoops).
LoopsRun ==
    status = Initialized /\ ppc[Setter] = "idle" /\ ~openFailed /\ ~overlap
        /\ (\A p \in Pickers : ppc[p] \notin InRun)
    => Len(polls) = numLoops /\ Range(polls) = (1..opened) \ closedPolls

\* Pick does not panic, also while the load balance grows, unless a poller could
\* not be opened, the number was reduced or the Runs overlapped (manager.Pick,
\* Rebalance, balance.Pick).
PickSafe == panicked => openFailed \/ shrunk \/ overlap

\* Pick returns: whoever is to initialize the manager can go on, and the others
\* then do; it does not panic either (manager.Pick, Rebalance, balance.Pick).
PickReturns ==
    /\ PickSafe
    /\ (\E p \in Pickers : ppc[p] = "start") /\ ~panicked => \E p \in Pickers : ENABLED PickStep(p)
============================================================================
