SPECIFICATION FairSpec
CONSTANTS
  t1 = t1
  t2 = t2
  t3 = t3
  t4 = t4
  Nobody = Nobody
  Thread <- MCThread4
  Env <- MCAnyTime
CHECK_DEADLOCK FALSE
INVARIANTS
  TypeOK
  WaiterHasNotifier
  SessionServed
PROPERTIES
  LogoutReturns
  ReceiversStop
  LoginAnswered
