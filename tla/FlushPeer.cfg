CONSTANTS
    Writers = {w1, w2}
    Poller = poller
    Closer = closer
    Hup = hup
    Handlers = TRUE
    MayClose = FALSE
    MaxFlush = 3
SPECIFICATION ReadingPeerSpec
INVARIANTS SentInOrder
PROPERTIES FlushReturns
CHECK_DEADLOCK FALSE
