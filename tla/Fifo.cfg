SPECIFICATION Spec
CONSTANTS
    Tasks = {t1, t2}
    Poller = poller
    Hup = hup
    User = user
    Owner = owner
    Writer = writer
    Callers = {w1, w2}
    Kinds = {"read", "attach", "write", "conn"}
    Endings = {"close", "panic", "timeout"}
    Early = {"attach", "conn"}
    MaxBytes = 2
    Room = 1
    MaxWrite = 2
    MaxFlushes = 3
    MaxWaits = 3
SYMMETRY CallerSymmetry
INVARIANTS HandlerAlone Finalized FlushTrue OutputOwned WriterInitOnce InputHandled Released
CHECK_DEADLOCK FALSE
