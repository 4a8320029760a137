SPECIFICATION EndpointSpec
CONSTANTS
  d1 = d1
  d2 = d2
  d3 = d3
  NoDialog = NoDialog
  Wild = Wild
  Dialog <- MCDialog2
  MaxIce = 1
  Env <- MCOnlyPushless
CHECK_DEADLOCK FALSE
INVARIANTS
  RingingCallShown
