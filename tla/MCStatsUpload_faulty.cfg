SPECIFICATION FairSpec
CONSTANTS
  MaxConn = 2
  MaxMessage = 3
  NoConn = NoConn
  Conn <- MCConn
  Payload <- MCPayload
  Net <- MCFaulty
CHECK_DEADLOCK FALSE
INVARIANTS
  TypeOK
  OneStepBack
PROPERTIES
  ImplementsUpload
  AllUploaded
