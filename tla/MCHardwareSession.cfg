\* The last click may leave the page with nothing to do: the system really stops.
SPECIFICATION Spec
CONSTANTS
  Ops = {o1, o2}
  AutoRetryMax = 3
  Sockets = 2
  Clicks = 4
CHECK_DEADLOCK FALSE
INVARIANTS
  TypeOK
  ActiveOwnsPort
  AdapterFollows
  AllReleased
PROPERTY OpsEnd
