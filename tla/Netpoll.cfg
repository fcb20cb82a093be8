SPECIFICATION NetpollSpec
CONSTANTS
    Conns = {c1, c2}
    Retriers = {r1, r2}
    Poller = poller
    Shut = shut
    MaxExhausted = 2
    S = s
    F = f
    User = user
    Hup = hup
    Modes = {"serve", "fifo", "all", "both"}
    Pickers = {p1, p2}
    Dial1 = p1
    Setter = setter
    MaxLoops = 2
    MaxSets = 2
    MaxDials = 2
SYMMETRY Symmetry
INVARIANTS OneAccepter BacklogAccepted NoStaleEntry OnlyLateSurvive ServeReturns ShutdownReturns LoopsRun PickReturns FdHandedOver DialReturns
CHECK_DEADLOCK FALSE
