SPECIFICATION EndpointSpec
CONSTANTS
  d1 = d1
  d2 = d2
  d3 = d3
  NoDialog = NoDialog
  Wild = Wild
  Dialog <- MCDialog3
  MaxIce = 1
  Env <- MCOrderly
CHECK_DEADLOCK FALSE
INVARIANTS
  EndpointTypeOK
  ObjectsInHand
  SummaryOnce
  StackFreedIdle
PROPERTIES
  CallEventsReported
