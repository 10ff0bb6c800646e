CONSTANTS
  Worker = {w1}
  NoWorker = NoWorker
  Intent = {i1, i2}
  NoIntent = NoIntent
  MaxVersion = 5
  MaxToken = 1
  Trader = {w1}
  Disturbance <- AnyDisturbance
  SubmitterCancelMayFail = FALSE
SPECIFICATION Spec
CHECK_DEADLOCK FALSE
SYMMETRY Symmetry
INVARIANTS
    AtMostOncePost

    
