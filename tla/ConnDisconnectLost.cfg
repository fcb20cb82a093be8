SPECIFICATION Spec
CONSTANTS
  Tasks = {t1, t2}
  Users = {}
  Poller = poller
  Hup = hup
  Acceptor = acceptor
  Accepted = TRUE
  MaySetOnRequest = FALSE
  MayPanic = FALSE
  MaxInput = 1
SYMMETRY TaskSymmetry
INVARIANT DisconnectHelped
CHECK_DEADLOCK FALSE
