SPECIFICATION Spec
CONSTANTS
  Tasks = {t1, t2}
  Users = {u1}
  Poller = poller
  Hup = hup
  Acceptor = acceptor
  Accepted = FALSE
  MaySetOnRequest = TRUE
  MayPanic = TRUE
  MaxInput = 2
SYMMETRY TaskSymmetry
INVARIANTS NoStrandedInput
CHECK_DEADLOCK FALSE
