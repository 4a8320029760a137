------------------------- MODULE PlivoEndpointProofs -------------------------
(***************************************************************************)
(* The endpoint keeps to call control's specification, so what SipCall     *)
(* promises holds of the two together; and with one call at a time its     *)
(* objects follow the calls closely enough that the delegate hears of      *)
(* every answer and every end, and each call is summed up once.            *)
(***************************************************************************)
EXTENDS PlivoEndpoint, SipCallOrderly

\* The object and the last callInfo name a dialog where they are used.
CallsNamed ==
  /\ HasIncoming => curIncomingCall.call \in Dialog
  /\ \A d \in Dialog : dlg[d] = "invited" => callData \in Dialog

NamedInv == EndpointTypeOK /\ CallsNamed

-----------------------------------------------------------------------------
(* The endpoint's steps are steps of call control                           *)

LEMMA ApplicationInCore ==
  ASSUME NamedInv, Application
  PROVE  AppNext \/ UNCHANGED vars
<1> USE DEF NamedInv, EndpointTypeOK, TypeOK
<1>1. CASE CallOut
  BY <1>1 DEF CallOut, AppNext
<1>2. CASE Answer
  BY <1>2 DEF Answer, AppNext, CallsNamed, coreVars
<1>3. CASE RejectIncoming
  BY <1>3 DEF RejectIncoming, AppNext, CallsNamed
<1>4. CASE Hangup
  BY <1>4 DEF Hangup, AppNext
<1>5. CASE DidEnterBackground \/ WillEnterForeground
  BY <1>5 DEF DidEnterBackground, WillEnterForeground, coreVars
<1>6. CASE \E d \in Dialog : RelayVoipPushNotification(d) \/ CheckRingIncomingInviteTimer(d)
  BY <1>6 DEF RelayVoipPushNotification, CheckRingIncomingInviteTimer, AppNext
<1> QED BY <1>1, <1>2, <1>3, <1>4, <1>5, <1>6 DEF Application

LEMMA WebRTCInCore ==
  ASSUME NamedInv, WebRTC
  PROVE  AppNext \/ UNCHANGED vars
<1> USE DEF NamedInv, EndpointTypeOK, TypeOK
<1>1. CASE MakeCall
  BY <1>1 DEF MakeCall, AppNext
<1>2. CASE SendAnswer
  BY <1>2 DEF SendAnswer, AppNext, coreVars
<1>3. CASE OnIceGatheringFinish
  BY <1>3 DEF OnIceGatheringFinish, AppNext
<1>4. CASE DidConnectCall
  BY <1>4 DEF DidConnectCall, coreVars
<1> QED BY <1>1, <1>2, <1>3, <1>4 DEF WebRTC

LEMMA HandlersInCore ==
  ASSUME Handlers
  PROVE  DumNext
BY DEF Handlers, DumNext, NewClientSession, Provisional, EarlyMedia, RemoteAnswer, Failure,
       Connected, Terminated, NewServerSession, OnIncomingCall

LEMMA CoreStep ==
  ASSUME NamedInv, [EndpointNext]_allVars
  PROVE  [Next]_vars
BY ApplicationInCore, WebRTCInCore, HandlersInCore DEF EndpointNext, Next, allVars

-----------------------------------------------------------------------------
(* The types, and the names                                                 *)

LEMMA EndpointTypeInit == EndpointInit => NamedInv
<1> SUFFICES ASSUME EndpointInit PROVE NamedInv
  OBVIOUS
<1>1. TypeOK
  BY InitType DEF EndpointInit
<1>2. summaries \in [Dialog -> 0..2]
  BY DEF EndpointInit
<1>3. \A d \in Dialog : dlg[d] = "free"
  BY DEF EndpointInit, Init
<1> QED BY <1>1, <1>2, <1>3
        DEF EndpointInit, NamedInv, EndpointTypeOK, CallsNamed, HasIncoming, NilIncoming, Incoming, CallState

LEMMA SummaryType ==
  ASSUME summaries \in [Dialog -> 0..2], NEW id \in Dialog \cup {NoDialog}, SendSummary(id)
  PROVE  summaries' \in [Dialog -> 0..2]
BY DialogAssumption DEF SendSummary

LEMMA EndStateType ==
  ASSUME NEW reason, NEW code
  PROVE  EndState(reason, code) \subseteq IncomingEvent \cup OutgoingEvent
<1>1. IncomingEnd(code) \subseteq IncomingEvent
  BY DEF IncomingEnd, IncomingEvent
<1>2. OutgoingEnd(code) \subseteq OutgoingEvent
  BY DEF OutgoingEnd, OutgoingEvent
<1> QED BY <1>1, <1>2 DEF EndState

\* The endpoint's own part of the type invariant.
OwnTypeOK ==
  /\ curIncomingCall \in Incoming /\ curOutCall \in CallState
  /\ preparing \in Dialog \cup {NoDialog}
  /\ isIncomingCall \in BOOLEAN /\ isSipToSipInvite \in BOOLEAN
  /\ callId \in Dialog \cup {NoDialog} /\ callData \in Dialog \cup {NoDialog}
  /\ incomingDelegate \in BOOLEAN
  /\ known \subseteq Dialog /\ summaries \in [Dialog -> 0..2]
  /\ isApplicationinBackground \in BOOLEAN /\ stack \in BOOLEAN /\ orphans \subseteq Dialog
  /\ said \subseteq IncomingEvent \cup OutgoingEvent

LEMMA HeldType == Held(dlg) \subseteq Dialog /\ Held(dlg') \subseteq Dialog
BY DEF Held

LEMMA TerminateType ==
  ASSUME OwnTypeOK, NEW id \in Dialog \cup {NoDialog},
         NEW before \in SUBSET (IncomingEvent \cup OutgoingEvent), Terminate(id, before),
         callData' \in Dialog \cup {NoDialog}, known' \subseteq Dialog
  PROVE  OwnTypeOK' /\ curIncomingCall' = NilIncoming
<1> USE DEF OwnTypeOK, Terminate
<1>1. summaries' \in [Dialog -> 0..2]
  BY SummaryType
<1>2. isApplicationinBackground' \in BOOLEAN /\ stack' \in BOOLEAN /\ orphans' \subseteq Dialog
  BY HeldType DEF ResetEndpoint, platform
<1>3. said' \subseteq IncomingEvent \cup OutgoingEvent
  BY DEF IncomingEvent, OutgoingEvent
<1>4. curIncomingCall' \in Incoming /\ curOutCall' \in CallState
  BY DEF NilIncoming, Incoming, CallState
<1> QED BY <1>1, <1>2, <1>3, <1>4

LEMMA CallAcceptedType ==
  ASSUME OwnTypeOK, CallAccepted
  PROVE  said' \subseteq IncomingEvent \cup OutgoingEvent /\ curOutCall' \in CallState
BY DEF OwnTypeOK, CallAccepted, IncomingEvent, OutgoingEvent, CallState

LEMMA CallingType ==
  ASSUME OwnTypeOK, Calling
  PROVE  said' \subseteq IncomingEvent \cup OutgoingEvent /\ curOutCall' \in CallState
BY DEF OwnTypeOK, Calling, IncomingEvent, OutgoingEvent, CallState

LEMMA OwnApplication ==
  ASSUME NamedInv, Application
  PROVE  OwnTypeOK' /\ (HasIncoming => curIncomingCall.call \in Dialog)'
<1> OwnTypeOK /\ (HasIncoming => curIncomingCall.call \in Dialog)
  BY DEF NamedInv, EndpointTypeOK, OwnTypeOK, CallsNamed
<1> USE DEF objects, routing, platform, IncomingEvent, OutgoingEvent, HasIncoming, HasOutgoing
<1>1. CASE CallOut
  BY <1>1 DEF CallOut, OwnTypeOK, CallState
<1>2. CASE Answer
  <2>1. said' \subseteq IncomingEvent \cup OutgoingEvent /\ curOutCall' \in CallState
    BY <1>2, CallAcceptedType DEF Answer, OwnTypeOK
  <2>2. curIncomingCall' = [curIncomingCall EXCEPT !.isCallAnswered = TRUE]
    BY <1>2 DEF Answer
  <2>3. curIncomingCall' \in Incoming /\ (HasIncoming => curIncomingCall.call \in Dialog)'
    BY <2>2 DEF OwnTypeOK, Incoming
  <2> QED BY <1>2, <2>1, <2>3 DEF Answer, OwnTypeOK
<1>3. CASE RejectIncoming
  <2>1. CASE RejectReports
    BY <1>3, <2>1, TerminateType DEF RejectIncoming, OwnTypeOK, NilIncoming
  <2>2. CASE ~RejectReports
    <3>1. curIncomingCall' = [curIncomingCall EXCEPT !.state = "Terminated"]
      BY <1>3, <2>2 DEF RejectIncoming
    <3>2. curIncomingCall' \in Incoming /\ (HasIncoming => curIncomingCall.call \in Dialog)'
      BY <1>3, <3>1 DEF OwnTypeOK, Incoming, CallState, RejectIncoming
    <3> QED BY <1>3, <2>2, <3>2 DEF RejectIncoming, OwnTypeOK
  <2> QED BY <2>1, <2>2
<1>4. CASE Hangup
  <2>1. CASE mProgress # "Done"
    BY <1>4, <2>1, TerminateType DEF Hangup, OwnTypeOK, NilIncoming
  <2>2. CASE mProgress = "Done"
    <3>1. CASE curOutCall' = "Terminated" /\ UNCHANGED curIncomingCall
      BY <1>4, <2>2, <3>1 DEF Hangup, OwnTypeOK, CallState
    <3>2. CASE /\ curIncomingCall.state \in {"Ringing", "Ongoing"}
               /\ curIncomingCall' = [curIncomingCall EXCEPT !.state = "Terminated"]
               /\ UNCHANGED curOutCall
      <4>1. curIncomingCall' \in Incoming /\ (HasIncoming => curIncomingCall.call \in Dialog)'
        BY <3>2 DEF OwnTypeOK, Incoming, CallState
      <4> QED BY <1>4, <2>2, <3>2, <4>1 DEF Hangup, OwnTypeOK
    <3> QED BY <1>4, <2>2, <3>1, <3>2 DEF Hangup
  <2> QED BY <2>1, <2>2
<1>5. CASE DidEnterBackground \/ WillEnterForeground
  BY <1>5, HeldType DEF DidEnterBackground, WillEnterForeground, OwnTypeOK
<1>6. ASSUME NEW d \in Dialog, RelayVoipPushNotification(d)
      PROVE  OwnTypeOK' /\ (HasIncoming => curIncomingCall.call \in Dialog)'
  <2>1. curIncomingCall' \in Incoming /\ (HasIncoming => curIncomingCall.call \in Dialog)'
    BY <1>6 DEF RelayVoipPushNotification, NilIncoming, Incoming, CallState
  <2>2. isApplicationinBackground' \in BOOLEAN
    BY <1>6 DEF RelayVoipPushNotification, OwnTypeOK
  <2> QED BY <1>6, <2>1, <2>2 DEF RelayVoipPushNotification, OwnTypeOK
<1>7. ASSUME NEW d \in Dialog, CheckRingIncomingInviteTimer(d)
      PROVE  OwnTypeOK' /\ (HasIncoming => curIncomingCall.call \in Dialog)'
  BY <1>7 DEF CheckRingIncomingInviteTimer, OwnTypeOK
<1> QED BY <1>1, <1>2, <1>3, <1>4, <1>5, <1>6, <1>7 DEF Application

LEMMA OwnWebRTC ==
  ASSUME NamedInv, WebRTC
  PROVE  OwnTypeOK' /\ (HasIncoming => curIncomingCall.call \in Dialog)'
<1> OwnTypeOK /\ (HasIncoming => curIncomingCall.call \in Dialog)
  BY DEF NamedInv, EndpointTypeOK, OwnTypeOK, CallsNamed
<1> USE DEF objects, routing, platform, HasIncoming, HasOutgoing
<1>1. CASE MakeCall
  BY <1>1, CallingType DEF MakeCall, OwnTypeOK
<1>2. CASE SendAnswer
  <2>1. said' \subseteq IncomingEvent \cup OutgoingEvent /\ curOutCall' \in CallState
    BY <1>2, CallAcceptedType DEF SendAnswer, OwnTypeOK
  <2>2. \/ curIncomingCall' = curIncomingCall
        \/ HasIncoming /\ curIncomingCall' = [curIncomingCall EXCEPT !.localSdp = TRUE]
    BY <1>2 DEF SendAnswer
  <2>3. curIncomingCall' \in Incoming /\ (HasIncoming => curIncomingCall.call \in Dialog)'
    BY <2>2 DEF OwnTypeOK, Incoming
  <2> QED BY <1>2, <2>1, <2>3 DEF SendAnswer, OwnTypeOK
<1>3. CASE OnIceGatheringFinish
  BY <1>3, CallingType, CallAcceptedType DEF OnIceGatheringFinish, OwnTypeOK
<1>4. CASE DidConnectCall
  <2>1. \/ curIncomingCall' = curIncomingCall
        \/ HasIncoming /\ curIncomingCall' = [curIncomingCall EXCEPT !.state = "Ongoing"]
    BY <1>4 DEF DidConnectCall
  <2>2. curIncomingCall' \in Incoming /\ (HasIncoming => curIncomingCall.call \in Dialog)'
    BY <2>1 DEF OwnTypeOK, Incoming, CallState
  <2> QED BY <1>4, <2>2 DEF DidConnectCall, OwnTypeOK, CallState
<1> QED BY <1>1, <1>2, <1>3, <1>4 DEF WebRTC

LEMMA OwnHandlers ==
  ASSUME NamedInv, Handlers
  PROVE  OwnTypeOK' /\ (HasIncoming => curIncomingCall.call \in Dialog)'
<1> OwnTypeOK /\ (HasIncoming => curIncomingCall.call \in Dialog)
  BY DEF NamedInv, EndpointTypeOK, OwnTypeOK, CallsNamed
<1> USE DEF objects, routing, platform, HasIncoming, HasOutgoing
<1> DEFINE Goal == OwnTypeOK' /\ (HasIncoming => curIncomingCall.call \in Dialog)'
<1>1. ASSUME NEW d \in Dialog, NewClientSession(d) PROVE Goal
  BY <1>1, TerminateType DEF NewClientSession, CallInfo, OwnTypeOK, NilIncoming
<1>2. ASSUME NEW d \in Dialog, Provisional(d) \/ Connected(d) PROVE Goal
  BY <1>2 DEF Provisional, Connected, OwnTypeOK
<1>3. ASSUME NEW d \in Dialog, EarlyMedia(d) PROVE Goal
  BY <1>3 DEF EarlyMedia, OwnTypeOK, CallState, IncomingEvent, OutgoingEvent
<1>4. ASSUME NEW d \in Dialog, RemoteAnswer(d) PROVE Goal
  BY <1>4, CallAcceptedType DEF RemoteAnswer, OwnTypeOK
<1>5. ASSUME NEW d \in Dialog, Failure(d) PROVE Goal
  BY <1>5 DEF Failure, CallInfo, OwnTypeOK
<1>6. ASSUME NEW d \in Dialog, Terminated(d) PROVE Goal
  <2>1. CASE isSecondaryUAC \/ mProgress = "Done"
    BY <1>6, <2>1 DEF Terminated, OwnTypeOK
  <2>2. CASE ~(isSecondaryUAC \/ mProgress = "Done")
    <3>1. UNCHANGED <<callData, known>>
      BY <1>6, <2>2 DEF Terminated
    <3>2. PICK before \in SUBSET (IncomingEvent \cup OutgoingEvent) : Terminate(callId, before)
      <4>1. \/ Terminate(callId, {})
            \/ \E r \in Reasons(dlg[d]) : Terminate(callId, EndState(r[1], r[2]))
        BY <1>6, <2>2 DEF Terminated
      <4> QED BY <4>1, EndStateType
    <3> QED BY <3>1, <3>2, TerminateType DEF OwnTypeOK, NilIncoming
  <2> QED BY <2>1, <2>2
<1>7. ASSUME NEW d \in Dialog, NewServerSession(d) PROVE Goal
  <2>1. CASE mProgress = "Connected"
    BY <1>7, <2>1 DEF NewServerSession, OwnTypeOK
  <2>2. CASE mProgress # "Connected" /\ isUACRejected
    BY <1>7, <2>2, TerminateType DEF NewServerSession, OwnTypeOK, NilIncoming
  <2>3. CASE mProgress # "Connected" /\ ~isUACRejected
    BY <1>7, <2>3 DEF NewServerSession, CallInfo, OwnTypeOK
  <2> QED BY <2>1, <2>2, <2>3
<1>8. ASSUME NEW d \in Dialog, OnIncomingCall(d) PROVE Goal
  <2>1. callData \in Dialog
    BY <1>8 DEF OnIncomingCall, OnOffer, NamedInv, CallsNamed
  <2>2. curIncomingCall' = [curIncomingCall EXCEPT
                              !.state = "Ringing", !.call = callData,
                              !.shown = IF isSipToSipInvite THEN callData ELSE @]
    BY <1>8 DEF OnIncomingCall
  <2>3. curIncomingCall' \in Incoming /\ curIncomingCall'.call = callData
    BY <2>1, <2>2 DEF OwnTypeOK, Incoming, CallState
  <2> QED BY <1>8, <2>1, <2>3 DEF OnIncomingCall, OwnTypeOK, IncomingEvent, OutgoingEvent
<1> QED BY <1>1, <1>2, <1>3, <1>4, <1>5, <1>6, <1>7, <1>8 DEF Handlers

-----------------------------------------------------------------------------
\* Only onNewSession brings an INVITE, and callInfo comes with it.
LEMMA InvitedFirst ==
  ASSUME NamedInv, Application \/ WebRTC, NEW e \in Dialog, dlg'[e] = "invited"
  PROVE  dlg[e] = "invited" /\ callData' = callData
<1> USE DEF NamedInv, EndpointTypeOK, TypeOK
<1>1. callData' = callData
  BY DEF Application, WebRTC, CallOut, Answer, RejectIncoming, Hangup, DidEnterBackground,
         WillEnterForeground, RelayVoipPushNotification, CheckRingIncomingInviteTimer,
         MakeCall, SendAnswer, OnIceGatheringFinish, DidConnectCall, routing
<1>2. dlg[e] = "invited"
  <2>1. CASE UNCHANGED vars
    BY <2>1 DEF vars
  <2>2. CASE StartOutgoing \/ CreateSession \/ OnIceGatheringFinished
    BY <2>2 DEF StartOutgoing, CreateSession, OnIceGatheringFinished, SendSdpOffer, SendSdpAnswer
  <2>3. CASE TerminateSession
    BY <2>3 DEF TerminateSession, TearDown, EndSessions
  <2>4. ASSUME NEW d \in Dialog, AcceptSession(d) PROVE dlg[e] = "invited"
    BY <2>4 DEF AcceptSession, SendSdpAnswer
  <2>5. ASSUME NEW d \in Dialog, Reject(d) PROVE dlg[e] = "invited"
    BY <2>5 DEF Reject, RejectSession, TearDown, EndSessions
  <2>6. ASSUME NEW d \in Dialog, PushArrives(d) \/ InviteNeverComes(d) PROVE dlg[e] = "invited"
    BY <2>6 DEF PushArrives, InviteNeverComes
  <2> QED BY <2>1, <2>2, <2>3, <2>4, <2>5, <2>6, ApplicationInCore, WebRTCInCore DEF AppNext
<1> QED BY <1>1, <1>2

LEMMA NamedHandlers ==
  ASSUME NamedInv, Handlers, NEW e \in Dialog, dlg'[e] = "invited"
  PROVE  callData' \in Dialog
<1> USE DEF NamedInv, EndpointTypeOK, TypeOK, CallsNamed
<1>1. ASSUME NEW d \in Dialog, NewClientSession(d) PROVE callData' \in Dialog
  BY <1>1 DEF NewClientSession, CallInfo
<1>2. ASSUME NEW d \in Dialog, Provisional(d) \/ EarlyMedia(d) PROVE callData' \in Dialog
  BY <1>2 DEF Provisional, EarlyMedia, OnProvisional, OnEarlyMedia, routing
<1>3. ASSUME NEW d \in Dialog, RemoteAnswer(d) \/ Connected(d) PROVE callData' \in Dialog
  BY <1>3 DEF RemoteAnswer, Connected, OnAnswer, OnConnected, routing
<1>4. ASSUME NEW d \in Dialog, Failure(d) PROVE callData' \in Dialog
  BY <1>4 DEF Failure, CallInfo
<1>5. ASSUME NEW d \in Dialog, Terminated(d) PROVE callData' \in Dialog
  BY <1>5 DEF Terminated, OnTerminated, routing
<1>6. ASSUME NEW d \in Dialog, NewServerSession(d) PROVE callData' \in Dialog
  BY <1>6 DEF NewServerSession, OnNewServerSession, RejectOtherCall, CallInfo, routing
<1>7. ASSUME NEW d \in Dialog, OnIncomingCall(d) PROVE callData' \in Dialog
  BY <1>7 DEF OnIncomingCall, OnOffer
<1> QED BY <1>1, <1>2, <1>3, <1>4, <1>5, <1>6, <1>7 DEF Handlers

LEMMA NamedStep ==
  ASSUME NamedInv, [EndpointNext]_allVars
  PROVE  NamedInv'
<1>1. TypeOK'
  BY CoreStep, TypeStep DEF NamedInv, EndpointTypeOK
<1>2. CASE Application \/ WebRTC
  BY <1>1, <1>2, OwnApplication, OwnWebRTC, InvitedFirst
     DEF NamedInv, EndpointTypeOK, OwnTypeOK, CallsNamed
<1>3. CASE Handlers
  BY <1>1, <1>3, OwnHandlers, NamedHandlers DEF NamedInv, EndpointTypeOK, OwnTypeOK, CallsNamed
<1>4. CASE UNCHANGED allVars
  BY <1>4 DEF NamedInv, EndpointTypeOK, TypeOK, CallsNamed, HasIncoming, allVars, vars, epVars,
              objects, routing, platform, flags, sessions, user
<1> QED BY <1>2, <1>3, <1>4 DEF EndpointNext

\* The endpoint keeps its objects and flags in their types, in every environment.
THEOREM EndpointTypeCorrect == EndpointSpec => []EndpointTypeOK
<1>1. EndpointInit => NamedInv
  BY EndpointTypeInit
<1>2. NamedInv /\ [EndpointNext]_allVars => NamedInv'
  BY NamedStep
<1>3. NamedInv => EndpointTypeOK
  BY DEF NamedInv
<1> QED BY <1>1, <1>2, <1>3, PTL DEF EndpointSpec

\* What the endpoint and its core do together is what call control allows, in
\* every environment: each step is one of SipCall or leaves the core alone.
THEOREM EndpointImplementsCall == EndpointSpec => Spec
<1>1. EndpointInit => NamedInv /\ Init
  BY EndpointTypeInit DEF EndpointInit
<1>2. NamedInv /\ [EndpointNext]_allVars => NamedInv' /\ [Next]_vars
  BY NamedStep, CoreStep
<1> QED BY <1>1, <1>2, PTL DEF EndpointSpec, Spec

-----------------------------------------------------------------------------
(* What the delegate hears, with one call at a time                         *)

\* Call control's invariant holds under the endpoint.
THEOREM EndpointOrderly ==
  ASSUME Orderly
  PROVE  EndpointSpec => []IInv
BY EndpointImplementsCall, OrderlyCorrect, PTL

\* An outgoing call is on its way: before its INVITE, and while it has no answer.
Placing    == draft \/ (m_isCaller /\ mProgress # "Done")
Dialled(d) == dlg[d] \in {"responded", "early"} \/ (dlg[d] = "inviting" /\ mProgress # "Done")

\* The objects there are, and isIncomingCall, fit the call the core has.
ObjectsSound ==
  /\ appInCall => HasIncoming \/ HasOutgoing
  /\ Placing => HasOutgoing /\ ~isIncomingCall
  /\ isIncomingCall => appInCall
  /\ \A d \in Dialog :
       /\ Dialled(d) => HasOutgoing /\ ~isIncomingCall
       /\ dlg[d] = "offered" => isIncomingCall /\ curIncomingCall.state \in {"Ringing", "Ongoing"}
       /\ dlg[d] = "announced" => ~isIncomingCall /\ (appInCall => HasIncoming)

EInv == NamedInv /\ IInv /\ ObjectsSound

\* What every end of a call comes down to: no object is left, and no dialog that
\* would need one.
LEMMA EndedSound ==
  ASSUME IInv, mProgress' = "Done", ~draft', ~appInCall', ~isIncomingCall',
         \A d \in Dialog : dlg'[d] \notin {"responded", "early", "offered"}
  PROVE  ObjectsSound'
BY DEF ObjectsSound, Placing, Dialled

\* A step that keeps the objects there are.
LEMMA KeptObjects ==
  ASSUME ObjectsSound, HasIncoming => HasIncoming', HasOutgoing => HasOutgoing',
         curIncomingCall.state \in {"Ringing", "Ongoing"} => curIncomingCall'.state \in {"Ringing", "Ongoing"},
         isIncomingCall' = isIncomingCall, appInCall' = appInCall, Placing' => Placing,
         \A d \in Dialog : /\ Dialled(d)' => Dialled(d) \/ Placing
                           /\ dlg'[d] = "offered" => dlg[d] = "offered"
                           /\ dlg'[d] = "announced" => dlg[d] = "announced"
  PROVE  ObjectsSound'
BY DEF ObjectsSound

LEMMA CallStateKeeps ==
  ASSUME Calling \/ CallAccepted
  PROVE  HasOutgoing => HasOutgoing'
BY DEF Calling, CallAccepted, HasOutgoing

\* In the orderly environment a call that is answered is an incoming one that rings.
LEMMA AcceptKeeps ==
  ASSUME Orderly, EInv, NEW d \in Dialog, AcceptSession(d)
  PROVE  /\ dlg[d] = "offered" /\ ~Placing' /\ appInCall' = appInCall
         /\ \A e \in Dialog : /\ ~Dialled(e)'
                              /\ dlg'[e] = "offered" => dlg[e] = "offered"
                              /\ dlg'[e] = "announced" => dlg[e] = "announced"
<1> USE DEF EInv, IInv, OrderlyInv
<1>1. dlg[d] = "offered"
  BY DEF AcceptSession, MayAnswer, Orderly
<1>2. mProgress # "Done"
  BY <1>1, DialogAssumption DEF PointersComplete, DoneIsClean
<1>3. ~m_isCaller /\ ~draft
  BY <1>1, <1>2 DEF ObjectsSound, Placing
<1>4. \A e \in Dialog : e # d => dlg[e] \in {"free", "ended"}
  BY <1>1 DEF OneDialog, Active
<1>5. \A e \in Dialog : dlg'[e] = dlg[e] \/ dlg'[e] = "accepted"
  BY DEF AcceptSession, SendSdpAnswer, TypeOK
<1>6. \A e \in Dialog : dlg'[e] \in {"free", "ended", "offered", "accepted"}
  BY <1>1, <1>4, <1>5
<1>7. ~m_isCaller' /\ ~draft' /\ appInCall' = appInCall
  BY <1>3 DEF AcceptSession
<1> QED BY <1>1, <1>5, <1>6, <1>7 DEF Placing, Dialled

LEMMA SoundApplication ==
  ASSUME Orderly, EInv, IInv', Application
  PROVE  ObjectsSound'
<1> USE DEF EInv, NamedInv, EndpointTypeOK, IInv, OrderlyInv
<1> USE DEF objects, routing, platform
<1>1. CASE CallOut
  <2>1. StartOutgoing /\ curOutCall' = "Dialing" /\ UNCHANGED <<curIncomingCall, isIncomingCall>>
    BY <1>1 DEF CallOut
  <2>2. Quiet /\ ~appInCall /\ appInCall' /\ dlg' = dlg
    BY <2>1 DEF StartOutgoing, MayBegin, Orderly
  <2>3. ~isIncomingCall'
    BY <2>1, <2>2 DEF ObjectsSound
  <2> QED BY <2>1, <2>2, <2>3 DEF ObjectsSound, HasIncoming, HasOutgoing, Quiet, Dialled
<1>2. CASE Answer
  <2>1. curIncomingCall' = [curIncomingCall EXCEPT !.isCallAnswered = TRUE] /\ isIncomingCall' = isIncomingCall
    BY <1>2 DEF Answer
  <2>2. curIncomingCall'.state = curIncomingCall.state
    BY <2>1 DEF Incoming
  <2>3. CASE UNCHANGED coreVars /\ UNCHANGED curOutCall
    BY <2>1, <2>2, <2>3, KeptObjects DEF coreVars, vars, flags, HasIncoming, HasOutgoing, Placing, Dialled
  <2>4. CASE AcceptSession(curIncomingCall.call)
    <3>1. curIncomingCall.call \in Dialog
      BY <1>2 DEF Answer, CallsNamed
    <3>2. HasOutgoing => HasOutgoing'
      BY <1>2, CallStateKeeps DEF Answer, HasOutgoing
    <3> QED BY <2>1, <2>2, <2>4, <3>1, <3>2, AcceptKeeps, KeptObjects DEF HasIncoming
  <2> QED BY <1>2, <2>3, <2>4 DEF Answer
<1>3. CASE RejectIncoming
  <2>1. PICK d \in Dialog : Reject(d)
    BY <1>3 DEF RejectIncoming, CallsNamed
  <2>2. dlg[d] \in {"announced", "offered", "connected"} /\ Active(d) /\ ~draft /\ ~draft'
    BY <2>1 DEF Reject, Orderly, Active, IceSound, Quiet
  <2>3. \A e \in Dialog : e # d => dlg[e] \in {"free", "ended"}
    BY <2>2 DEF OneDialog, Active
  <2>4. CASE RejectReports
    <3>1. ~isIncomingCall'
      BY <1>3, <2>4 DEF RejectIncoming, Terminate
    <3>2. RejectSession(m_serverInviteSession, dlg, mProgress)
      BY <2>1, <2>4 DEF Reject, RejectReports
    <3>3. CASE m_serverInviteSession = NoDialog
      <4>1. mProgress' = "Done" /\ ~appInCall' /\ dlg' = dlg
        BY <3>2, <3>3 DEF RejectSession, ReportTerminate
      <4>2. dlg[d] # "offered"
        BY <3>3, DialogAssumption DEF PointersComplete
      <4> QED BY <2>2, <2>3, <3>1, <4>1, <4>2, EndedSound
    <3>4. CASE m_serverInviteSession # NoDialog
      <4>1. m_serverInviteSession = d /\ dlg[d] \in {"offered", "connected"}
        BY <2>2, <2>3, <3>4 DEF PointersSound
      <4>2. mProgress' = "Done" /\ ~appInCall' /\ \E S : d \in S /\ EndSessions(S, dlg)
        BY <2>4, <3>2, <3>4, <4>1, DialogAssumption
           DEF RejectSession, TearDown, ReportTerminate, RejectReports, Dangling, Allocated, Engaged
      <4>3. \A e \in Dialog : dlg'[e] \in {"ended", "closing", "free"}
        BY <2>3, <4>1, <4>2, Ended DEF TypeOK, Engaged
      <4> QED BY <2>2, <3>1, <4>2, <4>3, EndedSound
    <3> QED BY <3>3, <3>4
  <2>5. CASE ~RejectReports
    <3>1. curIncomingCall' = [curIncomingCall EXCEPT !.state = "Terminated"] /\ UNCHANGED <<curOutCall, isIncomingCall>>
      BY <1>3, <2>5 DEF RejectIncoming
    <3>2. mProgress = "Done" /\ isUACRejected
      BY <2>5 DEF RejectReports, BusySound
    <3>3. UNCHANGED <<mProgress, flags, dlg, appInCall, draft>>
      BY <2>1, <3>2 DEF Reject
    <3>4. \A e \in Dialog : dlg[e] # "offered"
      BY <3>2, DialogAssumption DEF PointersComplete, DoneIsClean
    <3>5. curIncomingCall'.state = "Terminated"
      BY <3>1 DEF Incoming
    <3> QED BY <3>1, <3>3, <3>4, <3>5 DEF ObjectsSound, Placing, Dialled, HasIncoming, HasOutgoing, flags
  <2> QED BY <2>4, <2>5
<1>4. CASE Hangup
  <2>1. TerminateSession /\ ~draft /\ draft' = draft
    BY <1>4 DEF Hangup, TerminateSession
  <2>2. CASE mProgress # "Done"
    <3>1. ~isIncomingCall'
      BY <1>4, <2>2 DEF Hangup, Terminate
    <3>2. /\ mProgress' = "Done" /\ ~appInCall'
          /\ EndSessions({m_clientInviteSession, m_serverInviteSession}, dlg)
      BY <2>1, <2>2 DEF TerminateSession, TearDown, ReportTerminate
    <3>3. \A e \in Dialog : dlg'[e] \notin {"responded", "early", "offered"}
      BY <3>2, Ended DEF TypeOK, Engaged, PointersComplete
    <3> QED BY <2>1, <3>1, <3>2, <3>3, EndedSound
  <2>3. CASE mProgress = "Done"
    <3>1. UNCHANGED <<mProgress, m_isCaller, dlg, appInCall, draft>>
      BY <2>1, <2>3 DEF TerminateSession
    <3>2. \A e \in Dialog : dlg[e] # "offered"
      BY <2>3, DialogAssumption DEF PointersComplete, DoneIsClean
    <3>3. (HasOutgoing => HasOutgoing') /\ (HasIncoming => HasIncoming') /\ isIncomingCall' = isIncomingCall
      <4>1. \/ curOutCall' = "Terminated" /\ UNCHANGED curIncomingCall
            \/ /\ curIncomingCall' = [curIncomingCall EXCEPT !.state = "Terminated"]
               /\ UNCHANGED curOutCall
        BY <1>4, <2>3 DEF Hangup
      <4>2. isIncomingCall' = isIncomingCall
        BY <1>4, <2>3 DEF Hangup
      <4> QED BY <4>1, <4>2 DEF HasIncoming, HasOutgoing, Incoming
    <3> QED BY <3>1, <3>2, <3>3 DEF ObjectsSound, Placing, Dialled
  <2> QED BY <2>2, <2>3
<1>5. CASE DidEnterBackground
  <2>1. UNCHANGED <<coreVars, curIncomingCall, curOutCall>>
        /\ (isIncomingCall' = isIncomingCall \/ (~Busy /\ ~isIncomingCall'))
    BY <1>5 DEF DidEnterBackground
  <2>2. ~Busy => \A d \in Dialog : dlg[d] # "offered"
    BY DEF ObjectsSound, Busy
  <2> QED BY <2>1, <2>2 DEF ObjectsSound, Placing, Dialled, HasIncoming, HasOutgoing, coreVars, vars, flags
<1>6. CASE WillEnterForeground
  BY <1>6 DEF WillEnterForeground, ObjectsSound, Placing, Dialled, HasIncoming, HasOutgoing, coreVars, vars, flags
<1>7. ASSUME NEW d \in Dialog, RelayVoipPushNotification(d)
      PROVE  ObjectsSound'
  <2>1. PushArrives(d) /\ curIncomingCall'.state = "Dialing" /\ UNCHANGED <<curOutCall, isIncomingCall>>
    BY <1>7 DEF RelayVoipPushNotification, NilIncoming
  <2>2. Quiet /\ ~appInCall /\ appInCall' /\ UNCHANGED <<mProgress, flags, draft>>
    BY <2>1 DEF PushArrives, MayBegin, Orderly
  <2>3. \A e \in Dialog : dlg'[e] \in {"free", "ended", "announced"}
    BY <2>1, <2>2 DEF PushArrives, Quiet, TypeOK
  <2>4. ~isIncomingCall'
    BY <2>1, <2>2 DEF ObjectsSound
  <2> QED BY <2>1, <2>2, <2>3, <2>4 DEF ObjectsSound, Placing, Dialled, HasIncoming, HasOutgoing, flags
<1>8. ASSUME NEW d \in Dialog, CheckRingIncomingInviteTimer(d)
      PROVE  ObjectsSound'
  <2>1. InviteNeverComes(d) /\ UNCHANGED <<curIncomingCall, curOutCall, isIncomingCall>>
    BY <1>8 DEF CheckRingIncomingInviteTimer
  <2>2. /\ dlg[d] = "announced" /\ dlg' = [dlg EXCEPT ![d] = "ended"] /\ ~appInCall'
        /\ UNCHANGED <<mProgress, flags, draft>>
    BY <2>1 DEF InviteNeverComes
  <2>3. \A e \in Dialog : dlg'[e] \in {"free", "ended"}
    BY <2>2 DEF OneDialog, Active, TypeOK
  <2>4. ~isIncomingCall'
    BY <2>1, <2>2 DEF ObjectsSound
  <2> QED BY <2>1, <2>2, <2>3, <2>4 DEF ObjectsSound, Placing, Dialled, HasIncoming, HasOutgoing, flags
<1> QED BY <1>1, <1>2, <1>3, <1>4, <1>5, <1>6, <1>7, <1>8 DEF Application

LEMMA SoundWebRTC ==
  ASSUME Orderly, EInv, IInv', WebRTC
  PROVE  ObjectsSound'
<1> USE DEF EInv, NamedInv, EndpointTypeOK, IInv, OrderlyInv
<1> USE DEF objects, routing, platform
<1>1. CASE MakeCall
  <2>1. CreateSession /\ UNCHANGED <<curIncomingCall, isIncomingCall>> /\ (HasOutgoing => HasOutgoing')
    BY <1>1, CallStateKeeps DEF MakeCall, HasOutgoing
  <2>2. Placing /\ appInCall' = appInCall
    BY <2>1 DEF CreateSession, Placing
  <2>3. \A e \in Dialog : dlg'[e] = dlg[e] \/ dlg'[e] = "inviting"
    BY <2>1 DEF CreateSession, SendSdpOffer, TypeOK
  <2> QED BY <2>1, <2>2, <2>3, KeptObjects DEF HasIncoming
<1>2. CASE SendAnswer
  <2>1. isIncomingCall' = isIncomingCall
    BY <1>2 DEF SendAnswer
  <2>2. CASE curIncomingCall.isCallAnswered
    <3>1. AcceptSession(preparing) /\ UNCHANGED curIncomingCall /\ preparing \in Dialog
      BY <1>2, <2>2 DEF SendAnswer
    <3>2. HasOutgoing => HasOutgoing'
      BY <1>2, <2>2, CallStateKeeps DEF SendAnswer, HasOutgoing
    <3> QED BY <2>1, <3>1, <3>2, AcceptKeeps, KeptObjects DEF HasIncoming
  <2>3. CASE ~curIncomingCall.isCallAnswered
    <3>1. UNCHANGED <<coreVars, curOutCall>>
      BY <1>2, <2>3 DEF SendAnswer
    <3>2. curIncomingCall'.state = curIncomingCall.state
      BY <1>2, <2>3 DEF SendAnswer, Incoming
    <3> QED BY <2>1, <3>1, <3>2, KeptObjects
            DEF coreVars, vars, flags, HasIncoming, HasOutgoing, Placing, Dialled
  <2> QED BY <2>2, <2>3
<1>3. CASE OnIceGatheringFinish
  <2>1. OnIceGatheringFinished /\ UNCHANGED <<curIncomingCall, isIncomingCall>> /\ (HasOutgoing => HasOutgoing')
    BY <1>3, CallStateKeeps DEF OnIceGatheringFinish, HasOutgoing
  <2>2. UNCHANGED <<mProgress, m_isCaller, draft, appInCall>>
    BY <2>1 DEF OnIceGatheringFinished
  <2>3. CASE Placing
    <3>1. \A e \in Dialog : dlg'[e] = dlg[e] \/ dlg'[e] \in {"inviting", "accepted"}
      BY <2>1 DEF OnIceGatheringFinished, SendSdpOffer, SendSdpAnswer, TypeOK
    <3> QED BY <2>1, <2>2, <2>3, <3>1, KeptObjects DEF HasIncoming
  <2>4. CASE ~Placing
    <3>1. \A e \in Dialog : dlg'[e] = dlg[e] \/ dlg'[e] = "accepted"
      BY <2>1, <2>4 DEF OnIceGatheringFinished, SendSdpAnswer, TypeOK, Placing
    <3> QED BY <2>1, <2>2, <2>4, <3>1, KeptObjects DEF HasIncoming, Placing, Dialled
  <2> QED BY <2>3, <2>4
<1>4. CASE DidConnectCall
  <2>1. UNCHANGED <<coreVars, isIncomingCall>> /\ (HasOutgoing => HasOutgoing')
    BY <1>4 DEF DidConnectCall, HasOutgoing
  <2>2. curIncomingCall'.state = curIncomingCall.state \/ (HasIncoming /\ curIncomingCall'.state = "Ongoing")
    BY <1>4 DEF DidConnectCall, Incoming
  <2> QED BY <2>1, <2>2, KeptObjects DEF coreVars, vars, flags, HasIncoming, Placing, Dialled
<1> QED BY <1>1, <1>2, <1>3, <1>4 DEF WebRTC

\* A dialog that moves is the only one there is.
LEMMA Alone ==
  ASSUME IInv, NEW d \in Dialog, Active(d)
  PROVE  ~draft /\ \A e \in Dialog : e # d => dlg[e] \in {"free", "ended"}
BY DEF IInv, OrderlyInv, OneDialog, Active, IceSound, Quiet

\* A call that has its session is not done.
LEMMA InProgress ==
  ASSUME IInv, NEW d \in Dialog, dlg[d] \in {"responded", "early", "answered", "invited", "offered", "accepted"}
  PROVE  mProgress # "Done"
BY DialogAssumption DEF IInv, OrderlyInv, PointersComplete, DoneIsClean

LEMMA SoundOutgoing ==
  ASSUME Orderly, EInv, IInv', NEW d \in Dialog,
         NewClientSession(d) \/ Provisional(d) \/ EarlyMedia(d) \/ RemoteAnswer(d) \/ Failure(d) \/ Connected(d)
  PROVE  ObjectsSound'
<1> USE DEF EInv, NamedInv, EndpointTypeOK, IInv, OrderlyInv
<1> USE DEF objects, routing, platform
<1>1. CASE NewClientSession(d)
  <2>1. OnNewClientSession(d) /\ dlg[d] = "inviting" /\ draft' = draft
    BY <1>1 DEF NewClientSession, OnNewClientSession
  <2>2. ~draft /\ \A e \in Dialog : e # d => dlg[e] \in {"free", "ended"}
    BY <2>1, Alone DEF Active
  <2>3. CASE mProgress = "Done"
    <3>1. ~isIncomingCall'
      BY <1>1, <2>3 DEF NewClientSession, Terminate
    <3> DEFINE st == [dlg EXCEPT ![d] = "responded"]
    <3>2. TearDown(d, m_serverInviteSession, st)
      BY <2>1, <2>3 DEF OnNewClientSession, ValidUserAgent, Orderly
    <3>3. mProgress' = "Done" /\ ~appInCall' /\ EndSessions({d, m_serverInviteSession}, st)
      BY <3>2 DEF TearDown, ReportTerminate
    <3>4. st \in [Dialog -> DialogState] /\ st[d] = "responded" /\ \A e \in Dialog : e # d => st[e] = dlg[e]
      BY DEF TypeOK, DialogState
    <3> HIDE DEF st
    <3>5. \A e \in Dialog : dlg'[e] \notin {"responded", "early", "offered"}
      BY <2>2, <3>3, <3>4, Ended DEF Engaged
    <3> QED BY <2>1, <2>2, <3>1, <3>3, <3>5, EndedSound
  <2>4. CASE mProgress # "Done"
    <3>1. UNCHANGED <<curIncomingCall, curOutCall, isIncomingCall>>
      BY <1>1, <2>4 DEF NewClientSession
    <3>2. dlg' = [dlg EXCEPT ![d] = "responded"] /\ UNCHANGED <<flags, appInCall>>
      BY <2>1, <2>4 DEF OnNewClientSession
    <3>3. Dialled(d) /\ (Placing' => Placing)
      BY <2>1, <2>4, <3>2 DEF Dialled, Placing, flags
    <3>4. \A e \in Dialog : e # d => dlg'[e] \in {"free", "ended"}
      BY <2>2, <3>2 DEF TypeOK
    <3>5. dlg'[d] = "responded"
      BY <3>2 DEF TypeOK
    <3> QED BY <3>1, <3>2, <3>3, <3>4, <3>5, KeptObjects DEF HasIncoming, HasOutgoing, Dialled
  <2> QED BY <2>3, <2>4
<1>2. CASE Provisional(d) \/ EarlyMedia(d)
  <2>1. OnProvisional(d) /\ UNCHANGED <<curIncomingCall, isIncomingCall>> /\ (HasOutgoing => HasOutgoing')
    BY <1>2 DEF Provisional, EarlyMedia, OnEarlyMedia, HasOutgoing
  <2>2. /\ dlg[d] \in {"responded", "early"} /\ dlg' = [dlg EXCEPT ![d] = "early"]
        /\ UNCHANGED <<flags, draft, appInCall>>
    BY <2>1 DEF OnProvisional
  <2>3. Dialled(d) /\ (Placing' => Placing)
    BY <2>2, InProgress DEF Dialled, Placing, flags
  <2>4. dlg'[d] = "early" /\ \A e \in Dialog : e # d => dlg'[e] \in {"free", "ended"}
    BY <2>2, Alone DEF TypeOK, Active
  <2> QED BY <2>1, <2>2, <2>3, <2>4, KeptObjects DEF HasIncoming, Dialled
<1>3. CASE RemoteAnswer(d)
  <2>1. OnAnswer(d) /\ UNCHANGED curIncomingCall /\ isIncomingCall' = FALSE /\ (HasOutgoing => HasOutgoing')
    BY <1>3, CallStateKeeps DEF RemoteAnswer
  <2>2. /\ dlg[d] \in {"responded", "early"} /\ dlg' = [dlg EXCEPT ![d] = "answered"]
        /\ UNCHANGED <<mProgress, m_isCaller, draft, appInCall>>
    BY <2>1 DEF OnAnswer
  <2>3. isIncomingCall = FALSE
    BY <2>2 DEF ObjectsSound, Dialled
  <2>4. dlg'[d] = "answered" /\ \A e \in Dialog : e # d => dlg'[e] \in {"free", "ended"}
    BY <2>2, Alone DEF TypeOK, Active
  <2> QED BY <2>1, <2>2, <2>3, <2>4, KeptObjects DEF HasIncoming, Dialled, Placing
<1>4. CASE Failure(d)
  <2>1. OnFailure(d) /\ UNCHANGED <<curIncomingCall, curOutCall, isIncomingCall>>
    BY <1>4 DEF Failure
  <2>2. /\ dlg[d] \in {"responded", "early"} /\ dlg' = [dlg EXCEPT ![d] = "failed"]
        /\ UNCHANGED <<mProgress, flags, draft, appInCall>>
    BY <2>1 DEF OnFailure
  <2>3. dlg'[d] = "failed" /\ \A e \in Dialog : e # d => dlg'[e] \in {"free", "ended"}
    BY <2>2, Alone DEF TypeOK, Active
  <2> QED BY <2>1, <2>2, <2>3, KeptObjects DEF HasIncoming, HasOutgoing, Dialled, Placing, flags
<1>5. CASE Connected(d)
  <2>1. OnConnected(d) /\ UNCHANGED <<curIncomingCall, curOutCall, isIncomingCall>>
    BY <1>5 DEF Connected
  <2>2. /\ dlg[d] \in {"answered", "accepted"} /\ dlg' = [dlg EXCEPT ![d] = "connected"]
        /\ UNCHANGED <<flags, draft, appInCall>>
    BY <2>1 DEF OnConnected
  <2>3. Placing' => Placing
    BY <2>2, InProgress DEF Placing, flags
  <2>4. dlg'[d] = "connected" /\ \A e \in Dialog : e # d => dlg'[e] \in {"free", "ended"}
    BY <2>2, Alone DEF TypeOK, Active
  <2> QED BY <2>1, <2>2, <2>3, <2>4, KeptObjects DEF HasIncoming, HasOutgoing, Dialled
<1> QED BY <1>1, <1>2, <1>3, <1>4, <1>5

LEMMA SoundIncoming ==
  ASSUME Orderly, EInv, IInv', NEW d \in Dialog,
         Terminated(d) \/ NewServerSession(d) \/ OnIncomingCall(d)
  PROVE  ObjectsSound'
<1> USE DEF EInv, NamedInv, EndpointTypeOK, IInv, OrderlyInv
<1> USE DEF objects, routing, platform
<1>1. CASE Terminated(d)
  <2>1. /\ OnTerminated(d) /\ Active(d) /\ dlg' = [dlg EXCEPT ![d] = "ended"] /\ draft' = draft
    BY <1>1 DEF Terminated, OnTerminated, Active
  <2>2. ~draft /\ \A e \in Dialog : dlg'[e] \in {"free", "ended"}
    BY <2>1, Alone DEF TypeOK
  <2>3. CASE mProgress = "Done"
    <3>1. UNCHANGED <<curIncomingCall, curOutCall, isIncomingCall, mProgress, appInCall>>
      BY <1>1, <2>1, <2>3 DEF Terminated, OnTerminated
    <3> QED BY <2>1, <2>2, <2>3, <3>1, KeptObjects DEF HasIncoming, HasOutgoing, Dialled, Placing
  <2>4. CASE mProgress # "Done"
    <3>1. ~isIncomingCall'
      BY <1>1, <2>4 DEF Terminated, Terminate
    <3>2. mProgress' = "Done" /\ ~appInCall'
      BY <2>1, <2>4 DEF OnTerminated, ReportTerminate
    <3> QED BY <2>1, <2>2, <3>1, <3>2, EndedSound
  <2> QED BY <2>3, <2>4
<1>2. CASE NewServerSession(d)
  <2>1. OnNewServerSession(d) /\ draft' = draft
    BY <1>2 DEF NewServerSession, OnNewServerSession
  <2>2. CASE mProgress = "Connected"
    <3>1. UNCHANGED <<curIncomingCall, curOutCall, isIncomingCall>>
      BY <1>2, <2>2 DEF NewServerSession
    <3>2. dlg' = [dlg EXCEPT ![d] = "ended"] /\ UNCHANGED <<mProgress, flags, appInCall>>
      BY <2>1, <2>2 DEF OnNewServerSession, RejectOtherCall
    <3>3. \A e \in Dialog : dlg'[e] = dlg[e] \/ dlg'[e] = "ended"
      BY <3>2 DEF TypeOK
    <3> QED BY <2>1, <3>1, <3>2, <3>3, KeptObjects DEF HasIncoming, HasOutgoing, Dialled, Placing, flags
  <2>3. CASE mProgress # "Connected"
    <3>1. ~draft /\ \A e \in Dialog : e # d => dlg[e] \in {"free", "ended"}
      <4>1. CASE dlg[d] = "announced"
        BY <4>1, Alone DEF Active
      <4>2. CASE MayBegin
        BY <4>2 DEF MayBegin, Orderly, Quiet
      <4> QED BY <2>1, <2>3, <4>1, <4>2 DEF OnNewServerSession, InviteMayArrive
    <3> DEFINE st == [dlg EXCEPT ![d] = "invited"]
    <3>2. st \in [Dialog -> DialogState] /\ st[d] = "invited" /\ \A e \in Dialog : e # d => st[e] = dlg[e]
      BY DEF TypeOK, DialogState
    <3>3. CASE isUACRejected
      <4>1. ~isIncomingCall'
        BY <1>2, <2>3, <3>3 DEF NewServerSession, Terminate
      <4>2. mProgress' = "Done" /\ ~appInCall' /\ EndSessions({d}, st)
        BY <2>1, <2>3, <3>3 DEF OnNewServerSession, ValidUserAgent, Orderly, ReportTerminate
      <4> HIDE DEF st
      <4>3. \A e \in Dialog : dlg'[e] \notin {"responded", "early", "offered"}
        BY <3>1, <3>2, <4>2, Ended DEF Engaged
      <4> QED BY <2>1, <3>1, <4>1, <4>2, <4>3, EndedSound
    <3>4. CASE ~isUACRejected
      <4>1. UNCHANGED <<curIncomingCall, curOutCall, isIncomingCall>>
        BY <1>2, <2>3, <3>4 DEF NewServerSession
      <4>2. dlg' = st /\ UNCHANGED <<flags, appInCall>>
        BY <2>1, <2>3, <3>4 DEF OnNewServerSession
      <4>3. Placing' => Placing
        BY <2>1, <4>2 DEF Placing, flags, DoneIsClean
      <4> HIDE DEF st
      <4> QED BY <3>1, <3>2, <4>1, <4>2, <4>3, KeptObjects DEF HasIncoming, HasOutgoing, Dialled
    <3> QED BY <3>3, <3>4
  <2> QED BY <2>2, <2>3
<1>3. CASE OnIncomingCall(d)
  <2>1. OnOffer(d) /\ isIncomingCall' /\ UNCHANGED curOutCall
    BY <1>3 DEF OnIncomingCall
  <2>2. curIncomingCall'.state = "Ringing"
    BY <1>3 DEF OnIncomingCall, Incoming
  <2>3. /\ dlg[d] = "invited" /\ dlg' = [dlg EXCEPT ![d] = "offered"]
        /\ appInCall' /\ ~m_isCaller' /\ draft' = draft
    BY <2>1 DEF OnOffer
  <2>4. ~draft /\ \A e \in Dialog : e # d => dlg'[e] \in {"free", "ended"}
    BY <2>3, Alone DEF TypeOK, Active
  <2>5. dlg'[d] = "offered"
    BY <2>3 DEF TypeOK
  <2> QED BY <2>1, <2>2, <2>3, <2>4, <2>5 DEF ObjectsSound, Placing, Dialled, HasIncoming
<1> QED BY <1>1, <1>2, <1>3

LEMMA ObjectsStep ==
  ASSUME Orderly, EInv, [EndpointNext]_allVars
  PROVE  EInv'
<1>1. NamedInv' /\ IInv'
  BY NamedStep, CoreStep, OrderlyStep DEF EInv
<1>2. CASE Application \/ WebRTC
  BY <1>1, <1>2, SoundApplication, SoundWebRTC DEF EInv
<1>3. CASE Handlers
  BY <1>1, <1>3, SoundOutgoing, SoundIncoming DEF EInv, Handlers
<1>4. CASE UNCHANGED allVars
  <2>1. ObjectsSound'
    BY <1>4, KeptObjects DEF EInv, HasIncoming, HasOutgoing, Placing, Dialled, allVars, vars, flags,
                             epVars, objects, routing
  <2> QED BY <1>1, <2>1 DEF EInv
<1> QED BY <1>2, <1>3, <1>4 DEF EndpointNext

\* With one call at a time the call objects and isIncomingCall fit the call the
\* core has, whatever was announced, dialled, answered and ended before.
THEOREM ObjectsCorrect ==
  ASSUME Orderly
  PROVE  EndpointSpec => []EInv
<1>1. EndpointInit => EInv
  <2> SUFFICES ASSUME EndpointInit PROVE EInv
    OBVIOUS
  <2>1. NamedInv /\ IInv
    BY EndpointTypeInit, InitOrderly, InitType DEF EndpointInit, IInv
  <2>2. ObjectsSound
    BY DEF EndpointInit, Init, ObjectsSound, Placing, Dialled
  <2> QED BY <2>1, <2>2 DEF EInv
<1>2. EInv /\ [EndpointNext]_allVars => EInv'
  BY ObjectsStep
<1> QED BY <1>1, <1>2, PTL DEF EndpointSpec

-----------------------------------------------------------------------------
Ends == {"onIncomingCallHangup", "onIncomingCallInvalid", "onOutgoingCallHangup"}

\* A step that answers nothing.
LEMMA NothingAnswered ==
  ASSUME \A d \in Dialog : dlg'[d] \in {"accepted", "answered"} => dlg'[d] = dlg[d],
         appInCall /\ ~appInCall' => said' \cap Ends # {}
  PROVE  EventsTold
BY DEF EventsTold, Ends

\* TerminateCall reports the end on an object there is.
LEMMA EndTold ==
  ASSUME ObjectsSound, NEW id, NEW before, Terminate(id, before), appInCall
  PROVE  said' \cap Ends # {}
BY DEF ObjectsSound, Terminate, Ends

\* What ends sessions answers none.
LEMMA EndsAnswerNothing ==
  ASSUME NEW S, NEW st \in [Dialog -> DialogState], ~isSecondaryUAC, EndSessions(S, st),
         \A d \in Dialog : st[d] \in {"accepted", "answered"} => st[d] = dlg[d]
  PROVE  \A d \in Dialog : dlg'[d] \in {"accepted", "answered"} => dlg'[d] = dlg[d]
BY Ended

\* answer() reaches the delegate when the core sends the answer.
LEMMA AnswerTold ==
  ASSUME Orderly, EInv, NEW e \in Dialog, AcceptSession(e), m_localCandidatesCollected => CallAccepted
  PROVE  EventsTold
<1> USE DEF EInv, IInv, OrderlyInv
<1>1. dlg[e] = "offered" /\ appInCall' = appInCall
  BY AcceptKeeps DEF AcceptSession
<1>2. isIncomingCall /\ HasIncoming
  BY <1>1 DEF ObjectsSound, HasIncoming
<1>3. CASE m_localCandidatesCollected
  <2>1. "onIncomingCallAnswered" \in said'
    BY <1>2, <1>3 DEF CallAccepted
  <2>2. \A d \in Dialog : dlg'[d] = "answered" => dlg'[d] = dlg[d]
    BY <1>3 DEF AcceptSession, SendSdpAnswer, TypeOK
  <2> QED BY <1>1, <2>1, <2>2 DEF EventsTold
<1>4. CASE ~m_localCandidatesCollected
  BY <1>1, <1>4, NothingAnswered DEF AcceptSession
<1> QED BY <1>3, <1>4

LEMMA EventsApplication ==
  ASSUME Orderly, EInv, Application
  PROVE  EventsTold
<1> USE DEF EInv, NamedInv, EndpointTypeOK, IInv, OrderlyInv
<1>1. CASE CallOut
  BY <1>1, NothingAnswered DEF CallOut, StartOutgoing
<1>2. CASE Answer
  <2>1. CASE UNCHANGED coreVars
    BY <2>1, NothingAnswered DEF coreVars, vars
  <2>2. CASE /\ AcceptSession(curIncomingCall.call)
             /\ m_localCandidatesCollected => CallAccepted
    BY <1>2, <2>2, AnswerTold DEF Answer, CallsNamed
  <2> QED BY <1>2, <2>1, <2>2 DEF Answer
<1>3. CASE RejectIncoming
  <2>1. PICK d \in Dialog : Reject(d)
    BY <1>3 DEF RejectIncoming, CallsNamed
  <2>2. CASE RejectReports
    <3>1. appInCall => said' \cap Ends # {}
      BY <1>3, <2>2, EndTold DEF RejectIncoming
    <3>2. CASE m_serverInviteSession = NoDialog
      BY <2>1, <2>2, <3>1, <3>2, NothingAnswered DEF Reject, RejectReports, RejectSession
    <3>3. CASE m_serverInviteSession # NoDialog
      <4>1. m_serverInviteSession \in Dialog /\ dlg[m_serverInviteSession] \in Engaged
        BY <3>3 DEF PointersSound, Engaged
      <4>2. \E S : EndSessions(S, dlg)
        BY <2>1, <2>2, <3>3, <4>1, DialogAssumption
           DEF Reject, RejectReports, RejectSession, TearDown
      <4> QED BY <3>1, <4>2, EndsAnswerNothing, NothingAnswered DEF TypeOK
    <3> QED BY <3>2, <3>3
  <2>3. CASE ~RejectReports
    <3>1. mProgress = "Done" /\ isUACRejected
      BY <2>3 DEF RejectReports, BusySound
    <3> QED BY <2>1, <3>1, NothingAnswered DEF Reject
  <2> QED BY <2>2, <2>3
<1>4. CASE Hangup
  <2>1. CASE mProgress = "Done"
    BY <1>4, <2>1, NothingAnswered DEF Hangup, TerminateSession
  <2>2. CASE mProgress # "Done"
    <3>1. appInCall => said' \cap Ends # {}
      BY <1>4, <2>2, EndTold DEF Hangup
    <3>2. \E S : EndSessions(S, dlg)
      BY <1>4, <2>2 DEF Hangup, TerminateSession, TearDown
    <3> QED BY <3>1, <3>2, EndsAnswerNothing, NothingAnswered DEF TypeOK
  <2> QED BY <2>1, <2>2
<1>5. CASE DidEnterBackground \/ WillEnterForeground
  BY <1>5, NothingAnswered DEF DidEnterBackground, WillEnterForeground, coreVars, vars
<1>6. ASSUME NEW d \in Dialog, RelayVoipPushNotification(d) PROVE EventsTold
  <2>1. /\ \A e \in Dialog : dlg'[e] \in {"accepted", "answered"} => dlg'[e] = dlg[e]
        /\ appInCall'
    BY <1>6 DEF RelayVoipPushNotification, PushArrives, TypeOK
  <2> QED BY <2>1, NothingAnswered
<1>7. ASSUME NEW d \in Dialog, CheckRingIncomingInviteTimer(d) PROVE EventsTold
  <2>1. \A e \in Dialog : dlg'[e] \in {"accepted", "answered"} => dlg'[e] = dlg[e]
    BY <1>7 DEF CheckRingIncomingInviteTimer, InviteNeverComes, TypeOK
  <2>2. appInCall => "onIncomingCallInvalid" \in said'
    BY <1>7 DEF CheckRingIncomingInviteTimer, InviteNeverComes, ObjectsSound
  <2> QED BY <2>1, <2>2, NothingAnswered DEF Ends
<1> QED BY <1>1, <1>2, <1>3, <1>4, <1>5, <1>6, <1>7 DEF Application

LEMMA EventsWebRTC ==
  ASSUME Orderly, EInv, WebRTC
  PROVE  EventsTold
<1> USE DEF EInv, NamedInv, EndpointTypeOK, IInv, OrderlyInv
<1>1. CASE MakeCall
  <2>1. /\ \A e \in Dialog : dlg'[e] \in {"accepted", "answered"} => dlg'[e] = dlg[e]
        /\ appInCall' = appInCall
    BY <1>1 DEF MakeCall, CreateSession, SendSdpOffer, TypeOK
  <2> QED BY <2>1, NothingAnswered
<1>2. CASE SendAnswer
  <2>1. CASE UNCHANGED coreVars
    BY <2>1, NothingAnswered DEF coreVars, vars
  <2>2. CASE AcceptSession(preparing) /\ (m_localCandidatesCollected => CallAccepted)
    BY <1>2, <2>2, AnswerTold DEF SendAnswer
  <2> QED BY <1>2, <2>1, <2>2 DEF SendAnswer
<1>3. CASE OnIceGatheringFinish
  <2>1. OnIceGatheringFinished /\ appInCall' = appInCall
    BY <1>3 DEF OnIceGatheringFinish, OnIceGatheringFinished
  <2>2. CASE mProgress # "Done" /\ ~m_isCaller /\ m_inInBoundAccepted
    <3>1. CallAccepted
      BY <1>3, <2>2 DEF OnIceGatheringFinish
    <3>2. \A d \in Dialog : dlg[d] = "offered" => "onIncomingCallAnswered" \in said'
      BY <3>1 DEF CallAccepted, ObjectsSound, HasIncoming
    <3>3. \A d \in Dialog : dlg'[d] = "answered" => dlg'[d] = dlg[d]
      BY <2>1, <2>2 DEF OnIceGatheringFinished, SendSdpAnswer, TypeOK
    <3> QED BY <2>1, <3>2, <3>3 DEF EventsTold
  <2>3. CASE ~(mProgress # "Done" /\ ~m_isCaller /\ m_inInBoundAccepted)
    <3>1. \A e \in Dialog : dlg'[e] \in {"accepted", "answered"} => dlg'[e] = dlg[e]
      BY <2>1, <2>3 DEF OnIceGatheringFinished, SendSdpOffer, TypeOK
    <3> QED BY <2>1, <3>1, NothingAnswered
  <2> QED BY <2>2, <2>3
<1>4. CASE DidConnectCall
  BY <1>4, NothingAnswered DEF DidConnectCall, coreVars, vars
<1> QED BY <1>1, <1>2, <1>3, <1>4 DEF WebRTC

LEMMA EventsHandlers ==
  ASSUME Orderly, EInv, NEW d \in Dialog,
         \/ NewClientSession(d) \/ Provisional(d) \/ EarlyMedia(d) \/ RemoteAnswer(d)
         \/ Failure(d) \/ Connected(d) \/ Terminated(d) \/ NewServerSession(d) \/ OnIncomingCall(d)
  PROVE  EventsTold
<1> USE DEF EInv, NamedInv, EndpointTypeOK, IInv, OrderlyInv
<1> DEFINE Moves(x) == dlg' = [dlg EXCEPT ![d] = x]
<1>m. ASSUME NEW x \in DialogState \ {"accepted", "answered"}, Moves(x)
      PROVE  \A e \in Dialog : dlg'[e] \in {"accepted", "answered"} => dlg'[e] = dlg[e]
  BY <1>m DEF TypeOK
<1>s. ASSUME NEW x \in DialogState \ {"accepted", "answered"}
      PROVE  /\ [dlg EXCEPT ![d] = x] \in [Dialog -> DialogState]
             /\ \A e \in Dialog : [dlg EXCEPT ![d] = x][e] \in {"accepted", "answered"}
                                    => [dlg EXCEPT ![d] = x][e] = dlg[e]
  BY DEF TypeOK
<1>1. CASE NewClientSession(d)
  <2>1. CASE mProgress = "Done"
    <3>1. appInCall => said' \cap Ends # {}
      BY <1>1, <2>1, EndTold DEF NewClientSession
    <3>2. \E S : EndSessions(S, [dlg EXCEPT ![d] = "responded"])
      BY <1>1, <2>1 DEF NewClientSession, OnNewClientSession, TearDown
    <3> QED BY <1>s, <3>1, <3>2, EndsAnswerNothing, NothingAnswered DEF DialogState
  <2>2. CASE mProgress # "Done"
    BY <1>1, <2>2, <1>m, NothingAnswered DEF NewClientSession, OnNewClientSession, DialogState
  <2> QED BY <2>1, <2>2
<1>2. CASE Provisional(d) \/ EarlyMedia(d)
  BY <1>2, <1>m, NothingAnswered DEF Provisional, EarlyMedia, OnEarlyMedia, OnProvisional, DialogState
<1>3. CASE RemoteAnswer(d)
  <2>1. /\ dlg[d] \in {"responded", "early"} /\ dlg' = [dlg EXCEPT ![d] = "answered"]
        /\ appInCall' = appInCall /\ CallAccepted
    BY <1>3 DEF RemoteAnswer, OnAnswer
  <2>2. "onOutgoingCallAnswered" \in said'
    BY <2>1 DEF ObjectsSound, Dialled, CallAccepted
  <2>3. \A e \in Dialog : dlg'[e] = "accepted" => dlg'[e] = dlg[e]
    BY <2>1 DEF TypeOK
  <2> QED BY <2>1, <2>2, <2>3 DEF EventsTold
<1>4. CASE Failure(d) \/ Connected(d)
  BY <1>4, <1>m, NothingAnswered DEF Failure, Connected, OnFailure, OnConnected, DialogState
<1>5. CASE Terminated(d)
  <2>1. Moves("ended") /\ (mProgress = "Done" => appInCall' = appInCall)
    BY <1>5 DEF Terminated, OnTerminated
  <2>2. mProgress # "Done" /\ appInCall => said' \cap Ends # {}
    BY <1>5, EndTold DEF Terminated
  <2> QED BY <1>m, <2>1, <2>2, NothingAnswered DEF DialogState
<1>6. CASE NewServerSession(d)
  <2>1. CASE mProgress = "Connected"
    BY <1>6, <2>1, <1>m, NothingAnswered DEF NewServerSession, OnNewServerSession, RejectOtherCall, DialogState
  <2>2. CASE mProgress # "Connected" /\ isUACRejected
    <3>1. appInCall => said' \cap Ends # {}
      BY <1>6, <2>2, EndTold DEF NewServerSession
    <3>2. EndSessions({d}, [dlg EXCEPT ![d] = "invited"])
      BY <1>6, <2>2 DEF NewServerSession, OnNewServerSession, ValidUserAgent, Orderly
    <3> QED BY <1>s, <3>1, <3>2, EndsAnswerNothing, NothingAnswered DEF DialogState
  <2>3. CASE mProgress # "Connected" /\ ~isUACRejected
    BY <1>6, <2>3, <1>m, NothingAnswered DEF NewServerSession, OnNewServerSession, DialogState
  <2> QED BY <2>1, <2>2, <2>3
<1>7. CASE OnIncomingCall(d)
  BY <1>7, <1>m, NothingAnswered DEF OnIncomingCall, OnOffer, DialogState
<1> QED BY <1>1, <1>2, <1>3, <1>4, <1>5, <1>6, <1>7

\* With one call at a time, pushed or not, the delegate hears of every answer, on
\* the object of its direction, and of every end.
THEOREM EventsAreReported ==
  ASSUME Orderly
  PROVE  EndpointSpec => CallEventsReported
<1>1. EInv /\ [EndpointNext]_allVars => [EventsTold]_allVars
  BY EventsApplication, EventsWebRTC, EventsHandlers DEF EndpointNext, Handlers
<1> QED BY <1>1, ObjectsCorrect, PTL DEF EndpointSpec, CallEventsReported

-----------------------------------------------------------------------------
(* One call summary per call: with one call at a time, pushed or not, the  *)
(* call id is that of the session the core points to, so each TerminateCall*)
(* sums up the call that ends and leaves no id to the next.                *)

\* No response or INVITE of the dialog has come.
Fresh == {"free", "announced", "inviting"}

\* The call id is that of the session there is.
CallIdIsCurrent == Current \subseteq {callId, NoDialog} /\ callId \in Current \cup {NoDialog}

KnownSound ==
  /\ callId # NoDialog => callId \in known
  /\ \A d \in known : dlg[d] \notin Fresh

SummedUp == \A d \in Dialog : summaries[d] = IF d \in known \ {callId} THEN 1 ELSE 0

SummarySound == CallIdIsCurrent /\ KnownSound /\ SummedUp

SInv == EInv /\ SummarySound

\* No dialog becomes fresh again, and none becomes unused.
LEMMA NeverFreshAgain ==
  ASSUME IInv, [Next]_vars, NEW e \in Dialog, dlg[e] \notin Fresh
  PROVE  dlg'[e] \notin Fresh
<1> USE DEF IInv, OrderlyInv, TypeOK
<1>1. CASE \/ StartOutgoing \/ CreateSession \/ OnIceGatheringFinished \/ UNCHANGED vars
           \/ \E d \in Dialog : AcceptSession(d) \/ PushArrives(d) \/ InviteNeverComes(d)
  BY <1>1 DEF StartOutgoing, CreateSession, OnIceGatheringFinished, AcceptSession, PushArrives, InviteNeverComes,
              SendSdpOffer, SendSdpAnswer, vars, Fresh
<1>2. CASE \E d \in Dialog : \/ OnProvisional(d) \/ OnEarlyMedia(d) \/ OnAnswer(d) \/ OnFailure(d)
                             \/ OnConnected(d) \/ OnTerminated(d) \/ OnOffer(d)
  BY <1>2 DEF OnProvisional, OnEarlyMedia, OnAnswer, OnFailure, OnConnected, OnTerminated, OnOffer, Fresh
<1>3. CASE TerminateSession \/ \E d \in Dialog : OnNewClientSession(d) \/ OnNewServerSession(d) \/ Reject(d)
  <2>1. PICK st : /\ st \in [Dialog -> DialogState] /\ st[e] \notin Fresh
                  /\ dlg' = st \/ \E S : EndSessions(S, st)
    <3>1. CASE (\E d \in Dialog : Reject(d)) \/ TerminateSession
      BY <3>1 DEF Reject, RejectSession, TerminateSession, TearDown
    <3>2. ASSUME NEW d \in Dialog, OnNewClientSession(d) \/ OnNewServerSession(d)
          PROVE  \E x \in {"responded", "invited", "ended"} :
                   \/ dlg' = [dlg EXCEPT ![d] = x]
                   \/ \E S : EndSessions(S, [dlg EXCEPT ![d] = x])
      BY <3>2 DEF OnNewClientSession, OnNewServerSession, RejectOtherCall, TearDown
    <3>3. \A d \in Dialog : \A x \in {"responded", "invited", "ended"} :
            /\ [dlg EXCEPT ![d] = x] \in [Dialog -> DialogState]
            /\ [dlg EXCEPT ![d] = x][e] \notin Fresh
      BY DEF DialogState, Fresh
    <3> QED BY <1>3, <3>1, <3>2, <3>3
  <2>2. dlg'[e] = st[e] \/ dlg'[e] \in {"ended", "closing"}
    BY <2>1, Ended
  <2> QED BY <2>1, <2>2 DEF Fresh
<1> QED BY <1>1, <1>2, <1>3 DEF Next, AppNext, DumNext

\* A step that tells the endpoint of no call.
LEMMA SummaryKept ==
  ASSUME SInv, [Next]_vars, UNCHANGED <<sessions, callId, known, summaries>>
  PROVE  SummarySound'
<1>1. \A d \in known : dlg'[d] \notin Fresh
  BY NeverFreshAgain DEF SInv, EInv, NamedInv, EndpointTypeOK, SummarySound, KnownSound
<1> QED BY <1>1 DEF SInv, SummarySound, CallIdIsCurrent, KnownSound, SummedUp, Current, sessions

\* TerminateCall for the current call.
LEMMA SummarySent ==
  ASSUME SInv, IInv', [Next]_vars, NEW before, Terminate(callId, before), UNCHANGED known, mProgress' = "Done"
  PROVE  SummarySound'
<1> USE DEF SInv, EInv, NamedInv, EndpointTypeOK, SummarySound
<1>1. \A d \in known' : dlg'[d] \notin Fresh
  BY NeverFreshAgain DEF KnownSound
<1>2. callId' = NoDialog /\ CallIdIsCurrent'
  BY DEF Terminate, CallIdIsCurrent, Current, IInv, OrderlyInv, DoneIsClean
<1>3. SummedUp'
  BY <1>2, DialogAssumption DEF Terminate, SendSummary, SummedUp, KnownSound
<1> QED BY <1>1, <1>2, <1>3 DEF KnownSound

\* A call over before the endpoint heard of it: callInfo, then TerminateCall.
LEMMA SummarySentAtOnce ==
  ASSUME SInv, IInv', [Next]_vars, NEW d \in Dialog, NEW before, Terminate(d, before), callId = NoDialog,
         dlg[d] \in Fresh, dlg'[d] \notin Fresh, known' = known \cup {d}, mProgress' = "Done"
  PROVE  SummarySound'
<1> USE DEF SInv, EInv, NamedInv, EndpointTypeOK, SummarySound
<1>1. \A e \in known' : dlg'[e] \notin Fresh
  BY NeverFreshAgain DEF KnownSound
<1>2. callId' = NoDialog /\ CallIdIsCurrent'
  BY DEF Terminate, CallIdIsCurrent, Current, IInv, OrderlyInv, DoneIsClean
<1>3. SummedUp'
  BY <1>2, DialogAssumption DEF Terminate, SendSummary, SummedUp, KnownSound
<1> QED BY <1>1, <1>2, <1>3 DEF KnownSound

\* callInfo of a new call.
LEMMA SummaryBegun ==
  ASSUME SInv, IInv', [Next]_vars, NEW d \in Dialog, CallInfo(d), UNCHANGED summaries, callId = NoDialog,
         dlg[d] \in Fresh, dlg'[d] \notin Fresh, d \in Current', Active(d)'
  PROVE  SummarySound'
<1> USE DEF SInv, EInv, NamedInv, EndpointTypeOK, SummarySound, CallInfo
<1>1. \A e \in known' : dlg'[e] \notin Fresh
  BY NeverFreshAgain DEF KnownSound
<1>2. Current' \subseteq {d, NoDialog}
  BY DEF IInv, OrderlyInv, PointersSound, OneDialog, Active, Current
<1>3. CallIdIsCurrent'
  BY <1>2 DEF CallIdIsCurrent
<1>4. SummedUp'
  BY DialogAssumption DEF SummedUp, KnownSound
<1> QED BY <1>1, <1>3, <1>4 DEF KnownSound

LEMMA SummaryApplication ==
  ASSUME Orderly, SInv, IInv', [Next]_vars, Application \/ WebRTC
  PROVE  SummarySound'
<1> USE DEF routing
<1>1. CASE RejectIncoming
  <2>1. RejectReports => mProgress' = "Done"
    BY <1>1 DEF RejectIncoming, Reject, RejectSession, TearDown
  <2>2. ~RejectReports => UNCHANGED sessions
    BY <1>1 DEF RejectIncoming, Reject, RejectSession, RejectReports, SInv, EInv, IInv, OrderlyInv, BusySound
  <2> QED BY <1>1, <2>1, <2>2, SummarySent, SummaryKept DEF RejectIncoming
<1>2. CASE Hangup
  <2>1. mProgress' = "Done" /\ (mProgress = "Done" => UNCHANGED sessions)
    BY <1>2 DEF Hangup, TerminateSession, TearDown
  <2> QED BY <1>2, <2>1, SummarySent, SummaryKept DEF Hangup
<1>3. CASE CallOut \/ Answer \/ DidEnterBackground \/ WillEnterForeground \/ WebRTC
  <2>1. UNCHANGED <<sessions, callId, known, summaries>>
    BY <1>3 DEF CallOut, StartOutgoing, Answer, AcceptSession, DidEnterBackground, WillEnterForeground, coreVars,
                vars, WebRTC, MakeCall, CreateSession, SendAnswer, OnIceGatheringFinish, OnIceGatheringFinished,
                DidConnectCall
  <2> QED BY <2>1, SummaryKept
<1>4. CASE \E d \in Dialog : RelayVoipPushNotification(d) \/ CheckRingIncomingInviteTimer(d)
  <2>1. UNCHANGED <<sessions, callId, known, summaries>>
    BY <1>4 DEF RelayVoipPushNotification, PushArrives, CheckRingIncomingInviteTimer, InviteNeverComes
  <2> QED BY <2>1, SummaryKept
<1> QED BY <1>1, <1>2, <1>3, <1>4 DEF Application

LEMMA SummaryHandlers ==
  ASSUME Orderly, SInv, IInv', [Next]_vars, Handlers
  PROVE  SummarySound'
<1> USE DEF SInv, EInv, IInv, OrderlyInv
<1>1. PICK d \in Dialog \ orphans :
        \/ NewClientSession(d) \/ Provisional(d) \/ EarlyMedia(d) \/ RemoteAnswer(d) \/ Failure(d)
        \/ Connected(d) \/ Terminated(d) \/ NewServerSession(d) \/ OnIncomingCall(d)
  BY DEF Handlers
<1>n. dlg[d] \in {"free", "announced", "inviting"} /\ (dlg[d] = "free" => Quiet) => callId = NoDialog
  BY DEF SummarySound, CallIdIsCurrent, Current, PointersSound, OneDialog, Active, Quiet
<1>2. CASE Provisional(d) \/ EarlyMedia(d) \/ RemoteAnswer(d) \/ Connected(d) \/ OnIncomingCall(d)
  <2>1. UNCHANGED <<sessions, callId, known, summaries>>
    BY <1>2 DEF Provisional, EarlyMedia, OnEarlyMedia, OnProvisional, RemoteAnswer, OnAnswer, Connected, OnConnected,
                OnIncomingCall, OnOffer, routing
  <2> QED BY <2>1, SummaryKept
<1>3. CASE Failure(d)
  <2>1. OnFailure(d) /\ CallInfo(d) /\ UNCHANGED summaries
    BY <1>3 DEF Failure
  <2>2. callId = d /\ d \in known
    BY <2>1, DialogAssumption DEF OnFailure, PointersComplete, SummarySound, CallIdIsCurrent, KnownSound, Current
  <2> QED BY <2>1, <2>2, SummaryKept DEF OnFailure, CallInfo
<1>4. CASE Terminated(d)
  <2>1. mProgress' = "Done" /\ (mProgress = "Done" => UNCHANGED sessions)
    BY <1>4 DEF Terminated, OnTerminated
  <2> QED BY <1>4, <2>1, SummarySent, SummaryKept DEF Terminated, routing
<1>5. CASE NewClientSession(d)
  <2>1. dlg[d] = "inviting" /\ callId = NoDialog /\ OnNewClientSession(d)
    BY <1>5, <1>n DEF NewClientSession, OnNewClientSession
  <2> DEFINE st == [dlg EXCEPT ![d] = "responded"]
  <2>2. st \in [Dialog -> DialogState] /\ st[d] = "responded"
    BY DEF TypeOK, DialogState
  <2>3. CASE mProgress = "Done"
    <3>1. mProgress' = "Done" /\ \E S : EndSessions(S, st)
      BY <2>1, <2>3 DEF OnNewClientSession, TearDown
    <3> HIDE DEF st
    <3>2. dlg'[d] \notin Fresh
      BY <2>2, <3>1, Ended DEF Fresh
    <3> QED BY <1>5, <2>1, <2>3, <3>1, <3>2, SummarySentAtOnce DEF NewClientSession, Fresh
  <2>4. CASE mProgress # "Done"
    <3>1. dlg'[d] = "responded" /\ d \in Current'
      BY <2>1, <2>2, <2>4 DEF OnNewClientSession, ValidUserAgent, Orderly, Current
    <3> QED BY <1>5, <2>1, <2>4, <3>1, SummaryBegun DEF NewClientSession, Fresh, Active
  <2> QED BY <2>3, <2>4
<1>6. CASE NewServerSession(d)
  <2>1. OnNewServerSession(d)
    BY <1>6 DEF NewServerSession
  <2>2. CASE mProgress = "Connected"
    BY <1>6, <2>1, <2>2, SummaryKept DEF NewServerSession, OnNewServerSession, RejectOtherCall, routing
  <2>3. CASE mProgress # "Connected"
    <3> DEFINE st == [dlg EXCEPT ![d] = "invited"]
    <3>1. st \in [Dialog -> DialogState] /\ st[d] = "invited"
      BY DEF TypeOK, DialogState
    <3>2. dlg[d] \in Fresh /\ callId = NoDialog
      BY <1>n, <2>1, <2>3 DEF OnNewServerSession, InviteMayArrive, MayBegin, Orderly, Fresh
    <3>3. CASE isUACRejected
      <4>1. mProgress' = "Done" /\ EndSessions({d}, st)
        BY <2>1, <2>3, <3>3 DEF OnNewServerSession, ValidUserAgent, Orderly
      <4> HIDE DEF st
      <4>2. dlg'[d] \notin Fresh
        BY <3>1, <4>1, Ended DEF Fresh
      <4> QED BY <1>6, <2>3, <3>2, <3>3, <4>1, <4>2, SummarySentAtOnce DEF NewServerSession
    <3>4. CASE ~isUACRejected
      <4>1. dlg'[d] = "invited" /\ d \in Current'
        BY <2>1, <2>3, <3>1, <3>4 DEF OnNewServerSession, ValidUserAgent, Orderly, Current
      <4> QED BY <1>6, <2>3, <3>2, <3>4, <4>1, SummaryBegun DEF NewServerSession, Fresh, Active
    <3> QED BY <3>3, <3>4
  <2> QED BY <2>2, <2>3
<1> QED BY <1>1, <1>2, <1>3, <1>4, <1>5, <1>6

-----------------------------------------------------------------------------
(* The theorem                                                              *)

\* Every call the endpoint heard of is summed up once, under its own id, by the
\* time it is over.
THEOREM CallsAreSummedUpOnce ==
  ASSUME Orderly
  PROVE  EndpointSpec => []SummaryOnce
<1>1. EndpointInit => SummarySound
  BY DEF Orderly, EndpointInit, Init, SummarySound, CallIdIsCurrent, KnownSound, SummedUp, Current
<1>2. SInv /\ EInv' /\ [EndpointNext]_allVars => SummarySound'
  <2> SUFFICES ASSUME SInv, EInv', [EndpointNext]_allVars PROVE SummarySound'
    OBVIOUS
  <2>1. IInv' /\ [Next]_vars
    BY CoreStep DEF SInv, EInv
  <2>2. CASE UNCHANGED allVars
    BY <2>1, <2>2, SummaryKept DEF allVars, vars, epVars, routing
  <2> QED BY <2>1, <2>2, SummaryApplication, SummaryHandlers DEF EndpointNext
<1>3. SInv => SummaryOnce
  <2> SUFFICES ASSUME SInv PROVE SummaryOnce
    OBVIOUS
  <2>1. \A d \in Dialog : dlg[d] = "ended" => callId # d
    BY DialogAssumption DEF SInv, EInv, IInv, OrderlyInv, SummarySound, CallIdIsCurrent, Current, PointersSound
  <2> QED BY <2>1 DEF SInv, SummarySound, SummedUp, SummaryOnce
<1>4. EndpointSpec => []EInv
  BY ObjectsCorrect
<1> QED BY <1>1, <1>2, <1>3, <1>4, PTL DEF EndpointSpec, SInv
=============================================================================
