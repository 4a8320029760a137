SPECIFICATION FairSpec
CONSTANTS
  d1 = d1
  d2 = d2
  d3 = d3
  NoDialog = NoDialog
  Wild = Wild
  Dialog <- MCDialog3
  MaxIce = 1
  Env <- MCOrderly
CHECK_DEADLOCK FALSE
INVARIANTS
  TypeOK
  PointersAllocated
  LiveDialogsOwned
  CleanSlate
  AnsweredByConsent
  RejectedByUser
  SingleInvite
  BusyWhenConnected
  HungUpStaysDown
  CallNotForgotten
  NoBadAnswer
  AnswerRendezvous
  OfferRendezvous
PROPERTIES
  RejectIsFinal
  HangupEnds
  ConsentHonoured
  OutcomeReported
