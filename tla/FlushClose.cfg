CONSTANTS
    Writers = {w1}
    Poller = poller
    Closer = closer
    Hup = hup
    Handlers = FALSE
    MayClose = TRUE
    MaxFlush = 4
SPECIFICATION FairSpec
INVARIANTS FlushSends FreedAfterFlush
PROPERTIES CloseCompletes
CHECK_DEADLOCK FALSE
