---------------------------- MODULE SipCallProofs ----------------------------
(***************************************************************************)
(* Safety of call control, for any set of dialogs.                         *)
(***************************************************************************)
EXTENDS SipCall, TLAPS

-----------------------------------------------------------------------------
(* The type invariant, under any conditions of the environment              *)

\* What the parts shared by the handlers leave in the variables they assign.
LEMMA EndSessionsType ==
  ASSUME NEW S, NEW st \in [Dialog -> DialogState], isSecondaryUAC \in BOOLEAN, EndSessions(S, st)
  PROVE  dlg' \in [Dialog -> DialogState] /\ isSecondaryUAC' \in BOOLEAN
BY DEF EndSessions, DialogState

LEMMA TearDownType ==
  ASSUME TypeOK, NEW cs, NEW ss, NEW st \in [Dialog -> DialogState], TearDown(cs, ss, st)
  PROVE  /\ dlg' \in [Dialog -> DialogState] /\ isSecondaryUAC' \in BOOLEAN
         /\ mProgress' \in DialProgress /\ isUACRejected' \in BOOLEAN
         /\ m_isCaller' \in BOOLEAN /\ m_inInBoundAccepted' \in BOOLEAN
         /\ m_inCall' \in BOOLEAN /\ m_localCandidatesCollected' \in BOOLEAN
         /\ m_clientInviteSession' \in Dialog \cup {NoDialog, Wild}
         /\ m_serverInviteSession' \in Dialog \cup {NoDialog, Wild}
         /\ appInCall' \in BOOLEAN
         /\ fault' \in {"none", "null", "dangling", "usage"}
<1>1. dlg' \in [Dialog -> DialogState] /\ isSecondaryUAC' \in BOOLEAN
  BY EndSessionsType DEF TearDown, TypeOK
<1> QED BY <1>1 DEF TearDown, TypeOK, DialProgress, ReportTerminate, ClearCall,
        ForgetRejection, ForgetSessions

LEMMA SendSdpOfferType ==
  ASSUME TypeOK, SendSdpOffer
  PROVE  dlg' \in [Dialog -> DialogState]
BY DEF SendSdpOffer, TypeOK, DialogState

LEMMA SendSdpAnswerType ==
  ASSUME TypeOK, SendSdpAnswer
  PROVE  dlg' \in [Dialog -> DialogState] /\ fault' \in {"none", "null", "dangling", "usage"}
BY DEF SendSdpAnswer, TypeOK, DialogState

LEMMA RejectSessionType ==
  ASSUME TypeOK, NEW s \in Dialog \cup {NoDialog, Wild}, NEW p \in DialProgress,
         RejectSession(s, dlg, p)
  PROVE  /\ dlg' \in [Dialog -> DialogState] /\ isSecondaryUAC' \in BOOLEAN
         /\ mProgress' \in DialProgress /\ isUACRejected' \in BOOLEAN
         /\ m_isCaller' \in BOOLEAN /\ m_inInBoundAccepted' \in BOOLEAN
         /\ m_inCall' \in BOOLEAN /\ m_localCandidatesCollected' \in BOOLEAN
         /\ m_clientInviteSession' \in Dialog \cup {NoDialog, Wild}
         /\ m_serverInviteSession' \in Dialog \cup {NoDialog, Wild}
         /\ appInCall' \in BOOLEAN
         /\ fault' \in {"none", "null", "dangling", "usage"}
         /\ refused' \subseteq Dialog
<1> USE DEF TypeOK, DialProgress
<1>1. CASE s = NoDialog
  BY <1>1 DEF RejectSession, ReportTerminate, ClearCall, sessions
<1>2. CASE s # NoDialog /\ (Dangling(s, dlg) \/ dlg[s] # "connected")
  <2>1. EndSessions({s}, dlg)
    BY <1>2 DEF RejectSession
  <2>2. dlg' \in [Dialog -> DialogState] /\ isSecondaryUAC' \in BOOLEAN
    BY <2>1, EndSessionsType
  <2> QED BY <1>2, <2>2 DEF RejectSession, ReportTerminate, ClearCall
<1>3. CASE s # NoDialog /\ ~(Dangling(s, dlg) \/ dlg[s] # "connected") /\ p = "Done"
  BY <1>3 DEF RejectSession, ClearCall, sessions
<1>4. CASE s # NoDialog /\ ~(Dangling(s, dlg) \/ dlg[s] # "connected") /\ p # "Done"
  <2>1. TearDown(m_clientInviteSession, s, dlg) /\ refused' = refused \cup ({s} \cap Dialog)
    BY <1>4 DEF RejectSession
  <2> QED BY <2>1, TearDownType
<1> QED BY <1>1, <1>2, <1>3, <1>4

LEMMA TypeStep == TypeOK /\ [Next]_vars => TypeOK'
<1> SUFFICES ASSUME TypeOK, [Next]_vars
             PROVE  TypeOK'
  OBVIOUS
<1> USE DEF flags, sessions, user
<1>1. CASE StartOutgoing
  BY <1>1, MaxIceAssumption DEF StartOutgoing, TypeOK
<1>2. CASE CreateSession
  <2>1. dlg' \in [Dialog -> DialogState]
    BY <1>2, SendSdpOfferType DEF CreateSession, TypeOK
  <2> QED BY <1>2, <2>1 DEF CreateSession, TypeOK, DialProgress
<1>3. CASE TerminateSession
  <2>1. CASE mProgress = "Done"
    BY <1>3, <2>1 DEF TerminateSession, TypeOK
  <2>2. CASE mProgress # "Done"
    <3>1. TearDown(m_clientInviteSession, m_serverInviteSession, dlg)
      BY <1>3, <2>2 DEF TerminateSession
    <3> QED BY <1>3, <3>1, TearDownType DEF TerminateSession, TypeOK
  <2> QED BY <2>1, <2>2
<1>4. CASE OnIceGatheringFinished
  <2>1. dlg' \in [Dialog -> DialogState] /\ fault' \in {"none", "null", "dangling", "usage"}
    BY <1>4, SendSdpOfferType, SendSdpAnswerType DEF OnIceGatheringFinished, TypeOK
  <2>2. m_localCandidatesCollected' \in BOOLEAN /\ m_inCall' \in BOOLEAN
    BY <1>4 DEF OnIceGatheringFinished, CandidatesCollected, TypeOK
  <2> QED BY <1>4, <2>1, <2>2, MaxIceAssumption DEF OnIceGatheringFinished, TypeOK
<1>5. ASSUME NEW d \in Dialog, AcceptSession(d)
      PROVE  TypeOK'
  <2>1. dlg' \in [Dialog -> DialogState] /\ fault' \in {"none", "null", "dangling", "usage"}
    BY <1>5, SendSdpAnswerType DEF AcceptSession, TypeOK
  <2> QED BY <1>5, <2>1 DEF AcceptSession, TypeOK, DialProgress
<1>6. ASSUME NEW d \in Dialog, Reject(d)
      PROVE  TypeOK'
  <2>1. CASE mProgress = "Done" /\ isUACRejected
    BY <1>6, <2>1 DEF Reject, TypeOK
  <2>2. CASE ~(mProgress = "Done" /\ isUACRejected)
    <3>1. RejectSession(m_serverInviteSession, dlg, mProgress)
      BY <1>6, <2>2 DEF Reject
    <3>2. m_serverInviteSession \in Dialog \cup {NoDialog, Wild} /\ mProgress \in DialProgress
      BY DEF TypeOK
    <3> QED BY <1>6, <3>1, <3>2, RejectSessionType DEF Reject, TypeOK
  <2> QED BY <2>1, <2>2
<1>7. ASSUME NEW d \in Dialog, PushArrives(d) \/ InviteNeverComes(d)
      PROVE  TypeOK'
  <2>1. dlg' \in [Dialog -> DialogState]
    BY <1>7 DEF PushArrives, InviteNeverComes, TypeOK, DialogState
  <2>2. isUACRejected' \in BOOLEAN /\ appInCall' \in BOOLEAN
    BY <1>7 DEF PushArrives, InviteNeverComes, ForgetRejection, TypeOK
  <2>3. UNCHANGED <<mProgress, isSecondaryUAC, flags, sessions, ice, draft, user, fault>>
    BY <1>7 DEF PushArrives, InviteNeverComes
  <2> QED BY <2>1, <2>2, <2>3 DEF TypeOK
<1>8. ASSUME NEW d \in Dialog, OnNewClientSession(d)
      PROVE  TypeOK'
  <2>1. PICK valid \in BOOLEAN :
          LET cs == IF valid THEN d ELSE m_clientInviteSession
              st == [dlg EXCEPT ![d] = "responded"]
          IN IF mProgress = "Done"
             THEN TearDown(cs, m_serverInviteSession, st)
             ELSE /\ mProgress' = "Dialing" /\ ForgetRejection
                  /\ m_clientInviteSession' = cs /\ dlg' = st
                  /\ UNCHANGED <<isSecondaryUAC, flags, m_serverInviteSession, appInCall, fault>>
    BY <1>8 DEF OnNewClientSession, ValidUserAgent
  <2>2. [dlg EXCEPT ![d] = "responded"] \in [Dialog -> DialogState]
    BY DEF TypeOK, DialogState
  <2>3. CASE mProgress = "Done"
    BY <1>8, <2>1, <2>2, <2>3, TearDownType DEF OnNewClientSession, TypeOK
  <2>4. CASE mProgress # "Done"
    BY <1>8, <2>1, <2>2, <2>4 DEF OnNewClientSession, ForgetRejection, TypeOK, DialProgress
  <2> QED BY <2>3, <2>4
<1>9. ASSUME NEW d \in Dialog,
             OnProvisional(d) \/ OnEarlyMedia(d) \/ OnAnswer(d) \/ OnFailure(d) \/ OnConnected(d)
      PROVE  TypeOK'
  <2>1. dlg' \in [Dialog -> DialogState]
    BY <1>9 DEF OnProvisional, OnEarlyMedia, OnAnswer, OnFailure, OnConnected, TypeOK, DialogState
  <2>2. mProgress' \in DialProgress /\ m_inCall' \in BOOLEAN
    BY <1>9 DEF OnProvisional, OnEarlyMedia, OnAnswer, OnFailure, OnConnected, flags, TypeOK, DialProgress
  <2>3. UNCHANGED <<isUACRejected, isSecondaryUAC, m_isCaller, m_inInBoundAccepted,
                    m_localCandidatesCollected, sessions, ice, draft, appInCall, user, fault>>
    BY <1>9 DEF OnProvisional, OnEarlyMedia, OnAnswer, OnFailure, OnConnected
  <2> QED BY <2>1, <2>2, <2>3 DEF TypeOK
<1>10. ASSUME NEW d \in Dialog, OnTerminated(d)
       PROVE  TypeOK'
  <2>1. dlg' \in [Dialog -> DialogState]
    BY <1>10 DEF OnTerminated, TypeOK, DialogState
  <2> QED BY <1>10, <2>1 DEF OnTerminated, ReportTerminate, ClearCall, ForgetSessions, TypeOK, DialProgress
<1>11. ASSUME NEW d \in Dialog, OnNewServerSession(d)
       PROVE  TypeOK'
  <2>1. CASE mProgress = "Connected"
    <3>1. dlg' \in [Dialog -> DialogState]
      BY <1>11, <2>1 DEF OnNewServerSession, RejectOtherCall, TypeOK, DialogState
    <3> QED BY <1>11, <2>1, <3>1 DEF OnNewServerSession, RejectOtherCall, TypeOK
  <2>2. CASE mProgress # "Connected"
    <3> DEFINE st == [dlg EXCEPT ![d] = "invited"]
    <3>1. st \in [Dialog -> DialogState]
      BY DEF TypeOK, DialogState
    <3>2. dlg' \in [Dialog -> DialogState] /\ isSecondaryUAC' \in BOOLEAN
      BY <1>11, <2>2, <3>1, EndSessionsType DEF OnNewServerSession, TypeOK
    <3> QED BY <1>11, <2>2, <3>2 DEF OnNewServerSession, ForgetRejection, ReportTerminate,
            ClearCall, TypeOK, DialProgress
  <2> QED BY <2>1, <2>2
<1>12. ASSUME NEW d \in Dialog, OnOffer(d)
       PROVE  TypeOK'
  <2>1. dlg' \in [Dialog -> DialogState]
    BY <1>12 DEF OnOffer, TypeOK, DialogState
  <2>2. ice' \in 0..MaxIce
    BY <1>12, MaxIceAssumption DEF OnOffer, TypeOK
  <2>3. rung' \subseteq Dialog /\ appInCall' \in BOOLEAN /\ m_isCaller' \in BOOLEAN /\ m_inCall' \in BOOLEAN
    BY <1>12 DEF OnOffer, TypeOK
  <2>4. UNCHANGED <<mProgress, isUACRejected, isSecondaryUAC, m_inInBoundAccepted,
                    m_localCandidatesCollected, sessions, draft, consent, declined, hungup,
                    refused, fault>>
    BY <1>12 DEF OnOffer
  <2> QED BY <2>1, <2>2, <2>3, <2>4 DEF TypeOK
<1>13. CASE UNCHANGED vars
  BY <1>13 DEF vars, TypeOK
<1> QED BY <1>1, <1>2, <1>3, <1>4, <1>5, <1>6, <1>7, <1>8, <1>9, <1>10, <1>11, <1>12, <1>13
        DEF Next, AppNext, DumNext

LEMMA InitType == Init => TypeOK
<1> SUFFICES ASSUME Init PROVE TypeOK
  OBVIOUS
<1>1. dlg \in [Dialog -> DialogState]
  BY DEF Init, DialogState
<1>2. ice \in 0..MaxIce
  BY MaxIceAssumption DEF Init
<1>3. mProgress \in DialProgress
  BY DEF Init, DialProgress
<1>4. /\ isUACRejected \in BOOLEAN /\ isSecondaryUAC \in BOOLEAN
      /\ m_isCaller \in BOOLEAN /\ m_inInBoundAccepted \in BOOLEAN
      /\ m_inCall \in BOOLEAN /\ m_localCandidatesCollected \in BOOLEAN
      /\ draft \in BOOLEAN /\ appInCall \in BOOLEAN
  BY DEF Init
<1>5. /\ m_clientInviteSession \in Dialog \cup {NoDialog, Wild}
      /\ m_serverInviteSession \in Dialog \cup {NoDialog, Wild}
  BY DEF Init
<1>6. /\ rung \subseteq Dialog /\ consent \subseteq Dialog /\ declined \subseteq Dialog
      /\ hungup \subseteq Dialog /\ refused \subseteq Dialog
      /\ fault \in {"none", "null", "dangling", "usage"}
  BY DEF Init
<1> QED BY <1>1, <1>2, <1>3, <1>4, <1>5, <1>6 DEF TypeOK

\* The type invariant of SipCall: whatever the environment does, the flags,
\* pointers and dialogs of the handlers keep their types.
THEOREM TypeCorrect == Spec => []TypeOK
BY InitType, TypeStep, PTL DEF Spec

=============================================================================
