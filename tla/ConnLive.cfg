SPECIFICATION FairSpec
CONSTANTS
  Tasks = {t1}
  Users = {u1}
  Poller = poller
  Hup = hup
  Acceptor = acceptor
  Accepted = TRUE
  MaySetOnRequest = FALSE
  MayPanic = FALSE
  MaxInput = 1
PROPERTIES NoConnectionLeak InputHandled
CHECK_DEADLOCK FALSE
