SPECIFICATION Spec
CONSTANTS
  Tasks = {t1, t2}
  Users = {u1}
  Poller = poller
  Hup = hup
  Acceptor = acceptor
  Accepted = TRUE
  MaySetOnRequest = FALSE
  MayPanic = FALSE
  MaxInput = 2
SYMMETRY TaskSymmetry
INVARIANTS SerialCallbacks CallbackOrder NoUseAfterFree
CHECK_DEADLOCK FALSE
