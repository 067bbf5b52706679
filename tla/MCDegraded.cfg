SPECIFICATION Spec
CONSTANTS
  Ops = {o1, o2}
  AutoRetryMax = 3
  Sockets = 2
  Clicks = 4
CHECK_DEADLOCK FALSE
INVARIANT LossIsRetried
