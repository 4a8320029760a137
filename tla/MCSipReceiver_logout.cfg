SPECIFICATION FairSpec
CONSTANTS
  t1 = t1
  t2 = t2
  t3 = t3
  t4 = t4
  Nobody = Nobody
  Thread <- MCThread2
  Env <- MCOneByOne
CHECK_DEADLOCK FALSE
PROPERTIES
  LogoutUnbinds
