SPECIFICATION FairSpec
CONSTANTS
  Loops = {"poller", "escalator"}
  Requests = {1, 2}
INVARIANT RecoveryIsAlone
INVARIANT StoreOutlivesUsers
PROPERTY ReadyMeansRunning
PROPERTY ProcessEnds
\* the process ends
CHECK_DEADLOCK FALSE
