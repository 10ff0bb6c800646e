CONSTANTS
  Worker = {w1, w2}
  NoWorker = NoWorker
  Intent = {i1}
  NoIntent = NoIntent
  MaxVersion = 4
  MaxToken = 1
  Trader = {w1}
  Disturbance = {"armLapse", "pause", "watchFail", "crash"}
  SubmitterCancelMayFail = FALSE
SPECIFICATION FairSpec
CHECK_DEADLOCK FALSE
PROPERTIES
    StopReachesExchange
    StopCompletes
