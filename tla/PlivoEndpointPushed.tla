-------------------------- MODULE PlivoEndpointPushed --------------------------
(***************************************************************************)
(* When a push announces every incoming call, the object the application   *)
(* was shown is the object of the call, its state says that the call       *)
(* lives, and so the background never frees the stack under a call.        *)
(***************************************************************************)
EXTENDS PlivoEndpointProofs

Live     == {"Dialing", "Ringing", "Ongoing"}
Rings    == curIncomingCall.state \in {"Ringing", "Ongoing"}
Shown(d) == curIncomingCall.call = d /\ curIncomingCall.shown = d

\* An object in use is that of a call the application believes in, and no object
\* outlives its call as Terminated.
AppBelieves ==
  /\ HasOutgoing \/ Rings => appInCall
  /\ \A d \in Dialog : dlg[d] \in Engaged \ {"invited"} => appInCall
  /\ curOutCall \in Live \cup {"nil"} /\ curIncomingCall.state \in Live \cup {"nil"}

\* An announced call has the object the push showed, unless it was declined; the
\* INVITE finds that object.
AnnouncedShown ==
  \A d \in Dialog :
    /\ dlg[d] = "announced" =>
         /\ ~HasOutgoing /\ ~Rings
         /\ IF isUACRejected THEN ~HasIncoming ELSE HasIncoming /\ Shown(d) /\ ~isSipToSipInvite
    /\ dlg[d] = "invited" =>
         HasIncoming /\ curIncomingCall.shown = d /\ callData = d /\ ~isSipToSipInvite

\* The object of the call has the state of the call.
ObjectsMatch ==
  \A d \in Dialog :
    /\ dlg[d] \in {"offered", "accepted"} \/ (dlg[d] = "connected" /\ d \in rung) => Rings /\ Shown(d)
    /\ dlg[d] = "answered" \/ (dlg[d] = "connected" /\ d \notin rung) => curOutCall = "Ongoing"
    /\ dlg[d] = "failed" /\ mProgress # "Done" => HasOutgoing

\* A dialog whose stack was freed carries no call.
Idle        == {"inviting", "failed", "closing", "ended"}
OrphansIdle == \A d \in orphans : dlg[d] \in Idle

PushedSound == AppBelieves /\ AnnouncedShown /\ ObjectsMatch

\* The session of an outgoing call is none that rang.
CallerApart == m_clientInviteSession \notin rung

PInv == EInv /\ PushedSound /\ OrphansIdle /\ CallerApart

LEMMA PushedIsOrderly == Pushed => Orderly
BY DEF Pushed, Orderly

-----------------------------------------------------------------------------
(* Steps                                                                    *)

\* The end of a call leaves nothing to match.
LEMMA EndedPushed ==
  ASSUME mProgress' = "Done", curIncomingCall' = NilIncoming, curOutCall' = "nil",
         \A d \in Dialog : /\ dlg'[d] \notin Engaged
                           /\ dlg'[d] = "announced" => isUACRejected'
  PROVE  PushedSound'
BY DEF PushedSound, AppBelieves, AnnouncedShown, ObjectsMatch, NilIncoming, HasIncoming, HasOutgoing,
       Rings, Live, Engaged

LEMMA TerminateDrops ==
  ASSUME NEW id, NEW before, Terminate(id, before)
  PROVE  curIncomingCall' = NilIncoming /\ curOutCall' = "nil"
BY DEF Terminate

\* A step that keeps the objects and moves no dialog.
LEMMA SamePushed ==
  ASSUME PushedSound, UNCHANGED <<dlg, rung, appInCall, isUACRejected, mProgress, curOutCall,
                                  isSipToSipInvite, callData>>,
         curIncomingCall'.state = curIncomingCall.state, curIncomingCall'.call = curIncomingCall.call,
         curIncomingCall'.shown = curIncomingCall.shown
  PROVE  PushedSound'
BY DEF PushedSound, AppBelieves, AnnouncedShown, ObjectsMatch, HasIncoming, HasOutgoing, Rings, Shown

\* The answer of the call that rings.
LEMMA AcceptPushed ==
  ASSUME Orderly, PInv, NEW d \in Dialog, AcceptSession(d),
         IF m_localCandidatesCollected THEN CallAccepted ELSE UNCHANGED curOutCall,
         UNCHANGED <<isSipToSipInvite, callData>>,
         curIncomingCall'.state = curIncomingCall.state, curIncomingCall'.call = curIncomingCall.call,
         curIncomingCall'.shown = curIncomingCall.shown
  PROVE  PushedSound'
<1> USE DEF PInv, EInv, IInv, OrderlyInv
<1>1. dlg[d] = "offered" /\ UNCHANGED <<appInCall, isUACRejected, rung>> /\ d \in rung
  BY AcceptKeeps DEF AcceptSession, MayAnswer
<1>2. curOutCall' = curOutCall
  BY <1>1 DEF ObjectsSound, CallAccepted
<1>3. \A e \in Dialog : e # d => dlg[e] \in {"free", "ended"}
  BY <1>1, Alone DEF Active
<1>4. dlg' = dlg \/ dlg' = [dlg EXCEPT ![d] = "accepted"]
  BY <1>1 DEF AcceptSession, SendSdpAnswer, PointersComplete
<1>5. dlg'[d] \in {"offered", "accepted"} /\ \A e \in Dialog : e # d => dlg'[e] \in {"free", "ended"}
  BY <1>1, <1>3, <1>4 DEF TypeOK
<1>6. appInCall /\ Rings /\ Shown(d) /\ AppBelieves
  BY <1>1 DEF PushedSound, AppBelieves, ObjectsMatch, Engaged
<1> QED BY <1>1, <1>2, <1>5, <1>6
        DEF PushedSound, AppBelieves, AnnouncedShown, ObjectsMatch, HasIncoming, HasOutgoing, Rings, Shown

LEMMA PushedApplication ==
  ASSUME Pushed, PInv, EInv', Application
  PROVE  PushedSound'
<1> USE DEF PInv, EInv, NamedInv, EndpointTypeOK, IInv, OrderlyInv
<1> Orderly
  BY PushedIsOrderly
<1>1. CASE CallOut
  <2>1. /\ StartOutgoing /\ curOutCall' = "Dialing"
        /\ UNCHANGED <<curIncomingCall, isSipToSipInvite, callData>>
    BY <1>1 DEF CallOut, routing
  <2>2. Quiet /\ appInCall' /\ dlg' = dlg
    BY <2>1 DEF StartOutgoing, MayBegin, Orderly
  <2> QED BY <2>1, <2>2 DEF PushedSound, AppBelieves, AnnouncedShown, ObjectsMatch, Quiet, Engaged, Live
<1>2. CASE Answer
  <2>1. /\ curIncomingCall' = [curIncomingCall EXCEPT !.isCallAnswered = TRUE]
        /\ UNCHANGED <<isSipToSipInvite, callData>>
    BY <1>2 DEF Answer, routing
  <2>2. /\ curIncomingCall'.state = curIncomingCall.state /\ curIncomingCall'.call = curIncomingCall.call
        /\ curIncomingCall'.shown = curIncomingCall.shown
    BY <2>1 DEF Incoming
  <2>3. CASE UNCHANGED coreVars /\ UNCHANGED curOutCall
    BY <2>1, <2>2, <2>3, SamePushed DEF coreVars, vars, user
  <2>4. CASE /\ AcceptSession(curIncomingCall.call)
             /\ IF m_localCandidatesCollected THEN CallAccepted ELSE UNCHANGED curOutCall
    <3>1. curIncomingCall.call \in Dialog
      BY <1>2 DEF Answer, CallsNamed
    <3> QED BY <2>1, <2>2, <2>4, <3>1, AcceptPushed
  <2> QED BY <1>2, <2>3, <2>4 DEF Answer
<1>3. CASE RejectIncoming
  <2>1. PICK d \in Dialog : Reject(d) /\ HasIncoming /\ d = curIncomingCall.call
    BY <1>3 DEF RejectIncoming, CallsNamed
  <2>2. dlg[d] \in {"announced", "offered", "connected"} /\ Active(d)
    BY <2>1 DEF Reject, Orderly, Active
  <2>3. \A e \in Dialog : e # d => dlg[e] \in {"free", "ended"}
    BY <2>2, Alone
  <2>4. ~isUACRejected
    BY <2>1, <2>2 DEF PushedSound, AnnouncedShown, TerminationClears
  <2>5. RejectReports
    BY <2>4 DEF RejectReports, BusySound
  <2>6. curIncomingCall' = NilIncoming /\ curOutCall' = "nil"
    BY <1>3, <2>5, TerminateDrops DEF RejectIncoming
  <2>7. RejectSession(m_serverInviteSession, dlg, mProgress)
    BY <2>1, <2>4 DEF Reject
  <2>8. CASE m_serverInviteSession = NoDialog
    <3>1. mProgress' = "Done" /\ isUACRejected' /\ dlg' = dlg
      BY <2>7, <2>8 DEF RejectSession
    <3>2. dlg[d] \in {"announced", "connected"} /\ (dlg[d] = "connected" => d \notin rung)
      BY <2>2, <2>8, DialogAssumption DEF PointersComplete
    <3>3. dlg[d] = "announced"
      BY <2>1, <3>2 DEF Reject
    <3> QED BY <2>3, <2>6, <3>1, <3>3, EndedPushed DEF Engaged
  <2>9. CASE m_serverInviteSession # NoDialog
    <3>1. m_serverInviteSession = d /\ dlg[d] \in {"offered", "connected"}
      BY <2>2, <2>3, <2>9 DEF PointersSound
    <3>2. mProgress' = "Done" /\ \E S : d \in S /\ EndSessions(S, dlg)
      BY <2>5, <2>7, <2>9, <3>1, DialogAssumption
         DEF RejectSession, TearDown, RejectReports, Dangling, Allocated, Engaged
    <3>3. \A e \in Dialog : dlg'[e] \in {"ended", "closing", "free"}
      BY <2>3, <3>1, <3>2, Ended DEF TypeOK, Engaged
    <3> QED BY <2>6, <3>2, <3>3, EndedPushed DEF Engaged
  <2> QED BY <2>8, <2>9
<1>4. CASE Hangup
  <2>1. TerminateSession /\ ~draft /\ (HasOutgoing \/ Rings)
    BY <1>4 DEF Hangup, TerminateSession, Rings
  <2>2. appInCall /\ \A e \in Dialog : dlg[e] # "announced"
    BY <2>1 DEF PushedSound, AppBelieves, AnnouncedShown
  <2>3. mProgress # "Done"
    BY <2>1, <2>2, InProgress DEF DoneIsClean
  <2>4. curIncomingCall' = NilIncoming /\ curOutCall' = "nil"
    BY <1>4, <2>3, TerminateDrops DEF Hangup
  <2>5. /\ mProgress' = "Done"
        /\ EndSessions({m_clientInviteSession, m_serverInviteSession}, dlg)
    BY <2>1, <2>3 DEF TerminateSession, TearDown
  <2>6. \A e \in Dialog : dlg'[e] \notin Engaged \cup {"announced"}
    BY <2>2, <2>5, Ended DEF TypeOK, Engaged, PointersComplete
  <2> QED BY <2>4, <2>5, <2>6, EndedPushed
<1>5. CASE DidEnterBackground \/ WillEnterForeground
  BY <1>5, SamePushed DEF DidEnterBackground, WillEnterForeground, objects, routing, coreVars, vars, user
<1>6. ASSUME NEW d \in Dialog, RelayVoipPushNotification(d)
      PROVE  PushedSound'
  <2>1. /\ PushArrives(d) /\ UNCHANGED curOutCall /\ isSipToSipInvite' = FALSE
        /\ curIncomingCall' = [NilIncoming EXCEPT !.state = "Dialing", !.call = d, !.shown = d]
    BY <1>6 DEF RelayVoipPushNotification
  <2>2. Quiet /\ ~appInCall /\ appInCall' /\ isUACRejected' = FALSE
    BY <2>1 DEF PushArrives, MayBegin, Orderly, ForgetRejection
  <2>3. dlg'[d] = "announced" /\ \A e \in Dialog : e # d => dlg'[e] \in {"free", "ended"}
    BY <2>1, <2>2 DEF PushArrives, Quiet, TypeOK
  <2>4. curIncomingCall'.state = "Dialing" /\ curIncomingCall'.call = d /\ curIncomingCall'.shown = d
    BY <2>1 DEF NilIncoming
  <2>5. ~HasOutgoing' /\ curOutCall' = "nil"
    BY <2>1, <2>2 DEF PushedSound, AppBelieves, HasOutgoing
  <2> QED BY <2>1, <2>2, <2>3, <2>4, <2>5
          DEF PushedSound, AppBelieves, AnnouncedShown, ObjectsMatch, HasIncoming, Rings, Shown, Engaged, Live
<1>7. ASSUME NEW d \in Dialog, CheckRingIncomingInviteTimer(d)
      PROVE  PushedSound'
  <2>1. InviteNeverComes(d) /\ UNCHANGED <<curIncomingCall, curOutCall>>
    BY <1>7 DEF CheckRingIncomingInviteTimer, objects
  <2>2. dlg[d] = "announced" /\ dlg' = [dlg EXCEPT ![d] = "ended"]
    BY <2>1 DEF InviteNeverComes
  <2>3. \A e \in Dialog : dlg'[e] \in {"free", "ended"}
    BY <2>2, Alone DEF Active, TypeOK
  <2>4. ~HasOutgoing /\ ~Rings /\ AppBelieves
    BY <2>2 DEF PushedSound, AnnouncedShown
  <2> QED BY <2>1, <2>3, <2>4
          DEF PushedSound, AppBelieves, AnnouncedShown, ObjectsMatch, HasOutgoing, Rings, Engaged
<1> QED BY <1>1, <1>2, <1>3, <1>4, <1>5, <1>6, <1>7 DEF Application

LEMMA PushedWebRTC ==
  ASSUME Pushed, PInv, EInv', WebRTC
  PROVE  PushedSound'
<1> USE DEF PInv, EInv, NamedInv, EndpointTypeOK, IInv, OrderlyInv
<1> Orderly
  BY PushedIsOrderly
<1>1. CASE MakeCall
  <2>1. /\ CreateSession /\ UNCHANGED <<curIncomingCall, isSipToSipInvite, callData>>
        /\ ~m_localCandidatesCollected => curOutCall' = curOutCall
    BY <1>1 DEF MakeCall, routing
  <2>2. draft /\ Quiet /\ ~m_localCandidatesCollected
    BY <2>1 DEF CreateSession, IceSound
  <2>3. UNCHANGED <<dlg, rung, appInCall, isUACRejected, curOutCall>>
    BY <2>1, <2>2 DEF CreateSession, user
  <2> QED BY <2>1, <2>2, <2>3 DEF PushedSound, AppBelieves, AnnouncedShown, ObjectsMatch, HasIncoming,
                                  HasOutgoing, Rings, Shown, Quiet, Engaged
<1>2. CASE SendAnswer
  <2>1. UNCHANGED <<isSipToSipInvite, callData>>
    BY <1>2 DEF SendAnswer, routing
  <2>2. CASE curIncomingCall.isCallAnswered
    <3>1. /\ AcceptSession(preparing) /\ UNCHANGED curIncomingCall /\ preparing \in Dialog
          /\ IF m_localCandidatesCollected THEN CallAccepted ELSE UNCHANGED curOutCall
      BY <1>2, <2>2 DEF SendAnswer
    <3> QED BY <2>1, <3>1, AcceptPushed
  <2>3. CASE ~curIncomingCall.isCallAnswered
    <3>1. UNCHANGED <<coreVars, curOutCall>>
      BY <1>2, <2>3 DEF SendAnswer
    <3>2. /\ curIncomingCall'.state = curIncomingCall.state /\ curIncomingCall'.call = curIncomingCall.call
          /\ curIncomingCall'.shown = curIncomingCall.shown
      BY <1>2, <2>3 DEF SendAnswer, Incoming
    <3> QED BY <2>1, <3>1, <3>2, SamePushed DEF coreVars, vars, user
  <2> QED BY <2>2, <2>3
<1>3. CASE OnIceGatheringFinish
  <2>1. /\ OnIceGatheringFinished /\ UNCHANGED <<curIncomingCall, isSipToSipInvite, callData>>
    BY <1>3 DEF OnIceGatheringFinish, routing
  <2>2. /\ UNCHANGED <<mProgress, rung, appInCall, isUACRejected>> /\ ~draft /\ ice = 1
    BY <2>1 DEF OnIceGatheringFinished, user, IceSound, Orderly
  <2>3. CASE mProgress = "Done" \/ (~m_isCaller /\ ~m_inInBoundAccepted)
    <3>1. dlg' = dlg /\ curOutCall' = curOutCall
      BY <1>3, <2>1, <2>3 DEF OnIceGatheringFinish, OnIceGatheringFinished
    <3> QED BY <2>1, <2>2, <3>1, SamePushed
  <2>4. CASE mProgress # "Done" /\ m_isCaller
    <3>1. Quiet /\ HasOutgoing
      BY <2>2, <2>4 DEF IceSound, ObjectsSound, Placing
    <3>2. \A e \in Dialog : dlg'[e] \in {"free", "ended", "inviting"}
      BY <2>1, <2>4, <3>1 DEF OnIceGatheringFinished, SendSdpOffer, Quiet, TypeOK
    <3>3. curOutCall' = curOutCall \/ curOutCall' = "Dialing"
      BY <1>3, <2>4 DEF OnIceGatheringFinish, Calling
    <3>4. appInCall /\ AppBelieves
      BY <3>1 DEF PushedSound, AppBelieves
    <3> QED BY <2>1, <2>2, <3>2, <3>3, <3>4
            DEF PushedSound, AppBelieves, AnnouncedShown, ObjectsMatch, Rings, Engaged, Live
  <2>5. CASE mProgress # "Done" /\ ~m_isCaller /\ m_inInBoundAccepted
    <3>1. PICK d \in Dialog : dlg[d] = "offered"
      BY <2>2, <2>5 DEF IceSound
    <3>2. m_serverInviteSession = d /\ d \in rung /\ \A e \in Dialog : e # d => dlg[e] \in {"free", "ended"}
      BY <3>1, Alone DEF PointersComplete, ConsentSound, Active
    <3>3. dlg'[d] = "accepted" /\ \A e \in Dialog : e # d => dlg'[e] \in {"free", "ended"}
      BY <2>1, <2>5, <3>1, <3>2 DEF OnIceGatheringFinished, SendSdpAnswer, TypeOK
    <3>4. curOutCall' = curOutCall
      BY <1>3, <2>5, <3>1 DEF OnIceGatheringFinish, CallAccepted, ObjectsSound
    <3>5. appInCall /\ Rings /\ Shown(d) /\ AppBelieves
      BY <3>1 DEF PushedSound, AppBelieves, ObjectsMatch, Engaged
    <3> QED BY <2>1, <2>2, <3>2, <3>3, <3>4, <3>5
            DEF PushedSound, AppBelieves, AnnouncedShown, ObjectsMatch, HasOutgoing, Rings, Shown
  <2> QED BY <2>3, <2>4, <2>5
<1>4. CASE DidConnectCall
  <2>1. PICK d \in Dialog : dlg[d] \in {"answered", "accepted", "connected"}
    BY <1>4 DEF DidConnectCall
  <2>2. UNCHANGED <<dlg, rung, appInCall, isUACRejected, mProgress, isSipToSipInvite, callData>>
    BY <1>4 DEF DidConnectCall, coreVars, vars, user, routing
  <2>3. \A e \in Dialog : dlg[e] \in {"free", "ended", "answered", "accepted", "connected"}
    BY <2>1, Alone DEF Active
  <2>4. IF HasIncoming THEN /\ curIncomingCall'.state = "Ongoing" /\ curIncomingCall'.call = curIncomingCall.call
                            /\ curIncomingCall'.shown = curIncomingCall.shown
        ELSE curIncomingCall' = curIncomingCall
    BY <1>4 DEF DidConnectCall, Incoming
  <2>5. curOutCall' = IF HasOutgoing THEN "Ongoing" ELSE curOutCall
    BY <1>4 DEF DidConnectCall
  <2>6. appInCall
    BY <2>1 DEF PushedSound, AppBelieves, Engaged
  <2> QED BY <2>2, <2>3, <2>4, <2>5, <2>6
          DEF PushedSound, AppBelieves, AnnouncedShown, ObjectsMatch, HasIncoming, HasOutgoing, Rings, Shown, Live
<1> QED BY <1>1, <1>2, <1>3, <1>4 DEF WebRTC

LEMMA PushedOutgoing ==
  ASSUME Pushed, PInv, EInv', NEW d \in Dialog,
         NewClientSession(d) \/ Provisional(d) \/ EarlyMedia(d) \/ RemoteAnswer(d) \/ Failure(d) \/ Connected(d)
  PROVE  PushedSound'
<1> USE DEF PInv, EInv, NamedInv, EndpointTypeOK, IInv, OrderlyInv
<1> Orderly
  BY PushedIsOrderly
<1>1. CASE NewClientSession(d)
  <2>1. OnNewClientSession(d) /\ dlg[d] = "inviting" /\ UNCHANGED rung
    BY <1>1 DEF NewClientSession, OnNewClientSession, user
  <2>2. \A e \in Dialog : e # d => dlg[e] \in {"free", "ended"}
    BY <2>1, Alone DEF Active
  <2>3. CASE mProgress = "Done"
    <3>1. curIncomingCall' = NilIncoming /\ curOutCall' = "nil"
      BY <1>1, <2>3, TerminateDrops DEF NewClientSession
    <3> DEFINE st == [dlg EXCEPT ![d] = "responded"]
    <3>2. TearDown(d, m_serverInviteSession, st)
      BY <2>1, <2>3 DEF OnNewClientSession, ValidUserAgent, Orderly
    <3>3. mProgress' = "Done" /\ EndSessions({d, m_serverInviteSession}, st)
      BY <3>2 DEF TearDown
    <3>4. st \in [Dialog -> DialogState] /\ st[d] = "responded" /\ \A e \in Dialog : e # d => st[e] = dlg[e]
      BY DEF TypeOK, DialogState
    <3> HIDE DEF st
    <3>5. \A e \in Dialog : dlg'[e] \in {"free", "ended", "closing"}
      BY <2>2, <3>3, <3>4, Ended DEF Engaged
    <3> QED BY <3>1, <3>3, <3>5, EndedPushed DEF Engaged
  <2>4. CASE mProgress # "Done"
    <3>1. UNCHANGED <<curIncomingCall, curOutCall, isSipToSipInvite>>
      BY <1>1, <2>4 DEF NewClientSession, objects
    <3>2. dlg' = [dlg EXCEPT ![d] = "responded"] /\ UNCHANGED appInCall
      BY <2>1, <2>4 DEF OnNewClientSession
    <3>3. HasOutgoing /\ appInCall /\ AppBelieves
      BY <2>1, <2>4 DEF ObjectsSound, Dialled, PushedSound, AppBelieves
    <3>4. dlg'[d] = "responded" /\ \A e \in Dialog : e # d => dlg'[e] \in {"free", "ended"}
      BY <2>2, <3>2 DEF TypeOK
    <3> QED BY <3>1, <3>2, <3>3, <3>4
            DEF PushedSound, AppBelieves, AnnouncedShown, ObjectsMatch, HasOutgoing, Rings
  <2> QED BY <2>3, <2>4
<1>2. CASE Provisional(d) \/ EarlyMedia(d)
  <2>1. OnProvisional(d) /\ UNCHANGED curIncomingCall /\ curOutCall' \in {curOutCall, "Ringing"}
    BY <1>2 DEF Provisional, EarlyMedia, OnEarlyMedia, objects
  <2>2. /\ dlg[d] \in {"responded", "early"} /\ dlg' = [dlg EXCEPT ![d] = "early"] /\ UNCHANGED appInCall
    BY <2>1 DEF OnProvisional
  <2>3. dlg'[d] = "early" /\ \A e \in Dialog : e # d => dlg'[e] \in {"free", "ended"}
    BY <2>2, Alone DEF TypeOK, Active
  <2>4. appInCall /\ AppBelieves
    BY <2>2 DEF ObjectsSound, Dialled, PushedSound, AppBelieves
  <2> QED BY <2>1, <2>2, <2>3, <2>4
          DEF PushedSound, AppBelieves, AnnouncedShown, ObjectsMatch, Rings, Live
<1>3. CASE RemoteAnswer(d)
  <2>1. OnAnswer(d) /\ UNCHANGED curIncomingCall /\ CallAccepted
    BY <1>3 DEF RemoteAnswer
  <2>2. /\ dlg[d] \in {"responded", "early"} /\ dlg' = [dlg EXCEPT ![d] = "answered"] /\ UNCHANGED appInCall
    BY <2>1 DEF OnAnswer
  <2>3. dlg'[d] = "answered" /\ \A e \in Dialog : e # d => dlg'[e] \in {"free", "ended"}
    BY <2>2, Alone DEF TypeOK, Active
  <2>4. HasOutgoing /\ ~isIncomingCall /\ appInCall /\ AppBelieves
    BY <2>2 DEF ObjectsSound, Dialled, PushedSound, AppBelieves
  <2>5. curOutCall' = "Ongoing"
    BY <2>1, <2>4 DEF CallAccepted
  <2> QED BY <2>1, <2>2, <2>3, <2>4, <2>5
          DEF PushedSound, AppBelieves, AnnouncedShown, ObjectsMatch, Rings, Live
<1>4. CASE Failure(d)
  <2>1. OnFailure(d) /\ UNCHANGED <<curIncomingCall, curOutCall>>
    BY <1>4 DEF Failure, objects
  <2>2. /\ dlg[d] \in {"responded", "early"} /\ dlg' = [dlg EXCEPT ![d] = "failed"] /\ UNCHANGED appInCall
    BY <2>1 DEF OnFailure
  <2>3. dlg'[d] = "failed" /\ \A e \in Dialog : e # d => dlg'[e] \in {"free", "ended"}
    BY <2>2, Alone DEF TypeOK, Active
  <2>4. HasOutgoing /\ appInCall /\ AppBelieves
    BY <2>2 DEF ObjectsSound, Dialled, PushedSound, AppBelieves
  <2> QED BY <2>1, <2>2, <2>3, <2>4
          DEF PushedSound, AppBelieves, AnnouncedShown, ObjectsMatch, HasOutgoing, Rings, Engaged
<1>5. CASE Connected(d)
  <2>1. OnConnected(d) /\ UNCHANGED <<curIncomingCall, curOutCall>>
    BY <1>5 DEF Connected, objects
  <2>2. /\ dlg[d] \in {"answered", "accepted"} /\ dlg' = [dlg EXCEPT ![d] = "connected"]
        /\ UNCHANGED <<appInCall, rung>>
    BY <2>1 DEF OnConnected, user
  <2>3. dlg'[d] = "connected" /\ \A e \in Dialog : e # d => dlg'[e] \in {"free", "ended"}
    BY <2>2, Alone DEF TypeOK, Active
  <2>4. IF d \in rung THEN dlg[d] = "accepted" ELSE dlg[d] = "answered"
    BY <2>2 DEF ConsentSound, UacSetup
  <2>5. appInCall /\ AppBelieves /\ IF d \in rung THEN Rings /\ Shown(d) ELSE curOutCall = "Ongoing"
    BY <2>2, <2>4 DEF PushedSound, AppBelieves, ObjectsMatch, Engaged
  <2> QED BY <2>1, <2>2, <2>3, <2>5
          DEF PushedSound, AppBelieves, AnnouncedShown, ObjectsMatch, HasOutgoing, Rings, Shown
<1> QED BY <1>1, <1>2, <1>3, <1>4, <1>5

LEMMA PushedIncoming ==
  ASSUME Pushed, PInv, EInv', NEW d \in Dialog,
         Terminated(d) \/ NewServerSession(d) \/ OnIncomingCall(d)
  PROVE  PushedSound'
<1> USE DEF PInv, EInv, NamedInv, EndpointTypeOK, IInv, OrderlyInv
<1> Orderly
  BY PushedIsOrderly
<1>1. CASE Terminated(d)
  <2>1. OnTerminated(d) /\ Active(d) /\ dlg' = [dlg EXCEPT ![d] = "ended"]
    BY <1>1 DEF Terminated, OnTerminated, Active
  <2>2. \A e \in Dialog : dlg'[e] \in {"free", "ended"}
    BY <2>1, Alone DEF TypeOK
  <2>3. CASE mProgress = "Done"
    <3>1. UNCHANGED <<curIncomingCall, curOutCall, appInCall>>
      BY <1>1, <2>1, <2>3 DEF Terminated, OnTerminated, objects
    <3> QED BY <2>2, <3>1 DEF PushedSound, AppBelieves, AnnouncedShown, ObjectsMatch, HasOutgoing, Rings, Engaged
  <2>4. CASE mProgress # "Done"
    <3>1. curIncomingCall' = NilIncoming /\ curOutCall' = "nil"
      BY <1>1, <2>4, TerminateDrops DEF Terminated
    <3>2. mProgress' = "Done"
      BY <2>1, <2>4 DEF OnTerminated
    <3> QED BY <2>2, <3>1, <3>2, EndedPushed DEF Engaged
  <2> QED BY <2>3, <2>4
<1>2. CASE NewServerSession(d)
  <2>1. OnNewServerSession(d) /\ UNCHANGED rung
    BY <1>2 DEF NewServerSession, OnNewServerSession
  <2>2. CASE mProgress = "Connected"
    <3>1. UNCHANGED <<curIncomingCall, curOutCall, isSipToSipInvite, callData>>
      BY <1>2, <2>2 DEF NewServerSession, objects, routing
    <3>2. dlg' = [dlg EXCEPT ![d] = "ended"] /\ UNCHANGED <<mProgress, appInCall, isUACRejected>>
      BY <2>1, <2>2 DEF OnNewServerSession, RejectOtherCall
    <3>3. \A e \in Dialog : dlg'[e] = dlg[e] \/ dlg'[e] = "ended"
      BY <3>2 DEF TypeOK
    <3> QED BY <2>1, <3>1, <3>2, <3>3
            DEF PushedSound, AppBelieves, AnnouncedShown, ObjectsMatch, HasIncoming, HasOutgoing, Rings, Shown, Engaged
  <2>3. CASE mProgress # "Connected"
    <3>1. dlg[d] = "announced"
      BY <2>1, <2>3 DEF OnNewServerSession, InviteMayArrive, Pushed
    <3>2. \A e \in Dialog : e # d => dlg[e] \in {"free", "ended"}
      BY <3>1, Alone DEF Active
    <3> DEFINE st == [dlg EXCEPT ![d] = "invited"]
    <3>3. st \in [Dialog -> DialogState] /\ st[d] = "invited" /\ \A e \in Dialog : e # d => st[e] = dlg[e]
      BY DEF TypeOK, DialogState
    <3>4. CASE isUACRejected
      <4>1. curIncomingCall' = NilIncoming /\ curOutCall' = "nil"
        BY <1>2, <2>3, <3>4, TerminateDrops DEF NewServerSession
      <4>2. mProgress' = "Done" /\ EndSessions({d}, st)
        BY <2>1, <2>3, <3>4 DEF OnNewServerSession, ValidUserAgent, Orderly
      <4> HIDE DEF st
      <4>3. \A e \in Dialog : dlg'[e] \in {"free", "ended", "closing"}
        BY <3>2, <3>3, <4>2, Ended DEF Engaged
      <4> QED BY <4>1, <4>2, <4>3, EndedPushed DEF Engaged
    <3>5. CASE ~isUACRejected
      <4>1. UNCHANGED <<curIncomingCall, curOutCall, isSipToSipInvite>> /\ callData' = d
        BY <1>2, <2>3, <3>5 DEF NewServerSession, CallInfo, objects
      <4>2. dlg' = st /\ UNCHANGED appInCall
        BY <2>1, <2>3, <3>5 DEF OnNewServerSession
      <4>3. HasIncoming /\ curIncomingCall.shown = d /\ ~isSipToSipInvite /\ AppBelieves
        BY <3>1, <3>5 DEF PushedSound, AnnouncedShown, Shown
      <4> HIDE DEF st
      <4> QED BY <3>2, <3>3, <4>1, <4>2, <4>3
              DEF PushedSound, AppBelieves, AnnouncedShown, ObjectsMatch, HasIncoming, HasOutgoing, Rings
    <3> QED BY <3>4, <3>5
  <2> QED BY <2>2, <2>3
<1>3. CASE OnIncomingCall(d)
  <2>1. OnOffer(d) /\ UNCHANGED curOutCall
    BY <1>3 DEF OnIncomingCall
  <2>2. /\ dlg[d] = "invited" /\ dlg' = [dlg EXCEPT ![d] = "offered"] /\ appInCall'
    BY <2>1 DEF OnOffer
  <2>3. HasIncoming /\ curIncomingCall.shown = d /\ callData = d /\ ~isSipToSipInvite /\ AppBelieves
    BY <2>2 DEF PushedSound, AnnouncedShown
  <2>4. curIncomingCall' = [curIncomingCall EXCEPT !.state = "Ringing", !.call = d, !.shown = d]
    BY <1>3, <2>3 DEF OnIncomingCall, Incoming
  <2>5. curIncomingCall'.state = "Ringing" /\ curIncomingCall'.call = d /\ curIncomingCall'.shown = d
    BY <2>4 DEF Incoming
  <2>6. dlg'[d] = "offered" /\ \A e \in Dialog : e # d => dlg'[e] \in {"free", "ended"}
    BY <2>2, Alone DEF TypeOK, Active
  <2> QED BY <2>1, <2>2, <2>3, <2>5, <2>6
          DEF PushedSound, AppBelieves, AnnouncedShown, ObjectsMatch, Rings, Shown, Live
<1> QED BY <1>1, <1>2, <1>3

-----------------------------------------------------------------------------
(* The stack is freed idle                                                  *)

\* A call that is over has left no dialog that carries one.
LEMMA DoneIsIdle ==
  ASSUME IInv, mProgress = "Done"
  PROVE  \A d \in Dialog : dlg[d] \notin Engaged
BY DialogAssumption DEF IInv, OrderlyInv, DoneIsClean, PointersComplete, Engaged

\* Nothing but a response brings a dialog without a call back to one.
LEMMA AppLeavesIdle ==
  ASSUME IInv, AppNext \/ UNCHANGED vars, NEW e \in Dialog, dlg[e] \in Idle
  PROVE  dlg'[e] \in Idle
<1> USE DEF IInv, OrderlyInv, TypeOK
<1>1. CASE UNCHANGED vars
  BY <1>1 DEF vars
<1>2. CASE StartOutgoing \/ CreateSession \/ OnIceGatheringFinished \/ \E d \in Dialog : AcceptSession(d)
  BY <1>2 DEF StartOutgoing, CreateSession, OnIceGatheringFinished, AcceptSession, SendSdpOffer, SendSdpAnswer, Idle
<1>3. CASE \E d \in Dialog : PushArrives(d) \/ InviteNeverComes(d)
  BY <1>3 DEF PushArrives, InviteNeverComes, Idle
<1>4. CASE TerminateSession \/ \E d \in Dialog : Reject(d)
  <2>1. dlg' = dlg \/ \E S : EndSessions(S, dlg)
    BY <1>4 DEF TerminateSession, Reject, RejectSession, TearDown
  <2>2. dlg'[e] = dlg[e] \/ dlg'[e] \in {"ended", "closing"}
    BY <2>1, Ended
  <2> QED BY <2>2 DEF Idle
<1> QED BY <1>1, <1>2, <1>3, <1>4 DEF AppNext

\* A handler moves its own dialog, and ends others at most.
LEMMA HandlerLeavesIdle ==
  ASSUME IInv, NEW d \in Dialog, NEW e \in Dialog, e # d, dlg[e] \in Idle,
         \/ OnNewClientSession(d) \/ OnProvisional(d) \/ OnAnswer(d) \/ OnFailure(d)
         \/ OnConnected(d) \/ OnTerminated(d) \/ OnNewServerSession(d) \/ OnOffer(d)
  PROVE  dlg'[e] \in Idle
<1> USE DEF IInv, OrderlyInv, TypeOK
<1>1. CASE OnProvisional(d) \/ OnAnswer(d) \/ OnFailure(d) \/ OnConnected(d) \/ OnTerminated(d) \/ OnOffer(d)
  BY <1>1 DEF OnProvisional, OnAnswer, OnFailure, OnConnected, OnTerminated, OnOffer
<1>2. CASE OnNewClientSession(d) \/ OnNewServerSession(d)
  <2>1. PICK x \in DialogState : dlg' = [dlg EXCEPT ![d] = x] \/ \E S : EndSessions(S, [dlg EXCEPT ![d] = x])
    BY <1>2 DEF OnNewClientSession, OnNewServerSession, RejectOtherCall, TearDown, DialogState
  <2> DEFINE st == [dlg EXCEPT ![d] = x]
  <2>2. st \in [Dialog -> DialogState] /\ st[e] = dlg[e]
    OBVIOUS
  <2>3. dlg' = st \/ \E S : EndSessions(S, st)
    BY <2>1
  <2> HIDE DEF st
  <2>4. dlg'[e] = dlg[e] \/ dlg'[e] \in {"ended", "closing"}
    BY <2>2, <2>3, Ended
  <2> QED BY <2>4 DEF Idle
<1> QED BY <1>1, <1>2

\* What the endpoint's steps do to the stack: they free it when no dialog carries a
\* call, or leave it to the dialogs it has.
LEMMA FreedIdle ==
  ASSUME Pushed, PInv, IInv', EndpointNext
  PROVE  \/ orphans' = orphans
         \/ orphans' = orphans \cup Held(dlg') /\ \A d \in Dialog : dlg'[d] \notin Engaged
<1> USE DEF PInv, EInv, IInv, OrderlyInv
<1>t. ASSUME NEW id, NEW before, Terminate(id, before)
      PROVE  orphans' = orphans \/ orphans' = orphans \cup Held(dlg')
  BY <1>t DEF Terminate, ResetEndpoint, platform
<1>d. mProgress' = "Done" => \A d \in Dialog : dlg'[d] \notin Engaged
  BY DialogAssumption DEF DoneIsClean, PointersComplete, Engaged
<1>1. CASE RejectIncoming
  <2>1. (\E d \in Dialog : Reject(d)) => mProgress' = "Done"
    BY DEF Reject, RejectSession, TearDown
  <2>2. curIncomingCall.call \in Dialog /\ Reject(curIncomingCall.call)
    BY <1>1 DEF RejectIncoming, NamedInv, CallsNamed
  <2> QED BY <1>1, <1>t, <1>d, <2>1, <2>2 DEF RejectIncoming, platform
<1>2. CASE Hangup
  <2>1. mProgress' = "Done"
    BY <1>2 DEF Hangup, TerminateSession, TearDown
  <2> QED BY <1>2, <1>t, <1>d, <2>1 DEF Hangup, platform
<1>3. CASE DidEnterBackground
  <2>1. dlg' = dlg
    BY <1>3 DEF DidEnterBackground, coreVars, vars
  <2>2. ~Busy => \A d \in Dialog : dlg[d] \notin Engaged
    BY DEF Busy, PushedSound, AppBelieves, AnnouncedShown, ObjectsMatch, ObjectsSound, Dialled,
           HasIncoming, HasOutgoing, Rings, Live, Engaged
  <2> QED BY <1>3, <2>1, <2>2 DEF DidEnterBackground
<1>4. CASE \/ CallOut \/ Answer \/ WillEnterForeground \/ WebRTC
           \/ \E d \in Dialog : RelayVoipPushNotification(d) \/ CheckRingIncomingInviteTimer(d)
  BY <1>4 DEF CallOut, Answer, WillEnterForeground, RelayVoipPushNotification, CheckRingIncomingInviteTimer,
              WebRTC, MakeCall, SendAnswer, OnIceGatheringFinish, DidConnectCall, platform
<1>5. ASSUME NEW d \in Dialog,
             Provisional(d) \/ EarlyMedia(d) \/ RemoteAnswer(d) \/ Failure(d) \/ Connected(d) \/ OnIncomingCall(d)
      PROVE  orphans' = orphans
  BY <1>5 DEF Provisional, EarlyMedia, RemoteAnswer, Failure, Connected, OnIncomingCall, platform
<1>6. ASSUME NEW d \in Dialog, NewClientSession(d), orphans' # orphans
      PROVE  mProgress' = "Done" /\ orphans' = orphans \cup Held(dlg')
  <2>1. mProgress = "Done"
    BY <1>6 DEF NewClientSession, platform
  <2> QED BY <1>6, <1>t, <2>1 DEF NewClientSession, OnNewClientSession, TearDown
<1>7. ASSUME NEW d \in Dialog, Terminated(d), orphans' # orphans
      PROVE  mProgress' = "Done" /\ orphans' = orphans \cup Held(dlg')
  BY <1>7, <1>t DEF Terminated, OnTerminated, platform
<1>8. ASSUME NEW d \in Dialog, NewServerSession(d), orphans' # orphans
      PROVE  mProgress' = "Done" /\ orphans' = orphans \cup Held(dlg')
  <2>1. mProgress # "Connected" /\ isUACRejected
    BY <1>8 DEF NewServerSession, platform
  <2>2. mProgress' = "Done"
    BY <1>8, <2>1, PushedIsOrderly DEF NewServerSession, OnNewServerSession, ValidUserAgent, Orderly
  <2> QED BY <1>8, <1>t, <2>1, <2>2 DEF NewServerSession
<1> QED BY <1>1, <1>2, <1>3, <1>4, <1>5, <1>6, <1>7, <1>8, <1>d DEF EndpointNext, Application, Handlers

LEMMA OrphansStep ==
  ASSUME Pushed, PInv, EInv', EndpointNext
  PROVE  OrphansIdle'
<1> USE DEF PInv, EInv
<1>1. TypeOK' /\ orphans \subseteq Dialog /\ orphans' \subseteq Dialog
  BY DEF IInv, NamedInv, EndpointTypeOK
<1>2. \A e \in orphans : dlg'[e] \in Idle
  <2>1. CASE Application \/ WebRTC
    BY <1>1, <2>1, ApplicationInCore, WebRTCInCore, AppLeavesIdle DEF OrphansIdle
  <2>2. CASE Handlers
    BY <1>1, <2>2, HandlerLeavesIdle
       DEF OrphansIdle, Handlers, NewClientSession, Provisional, EarlyMedia, OnEarlyMedia, RemoteAnswer, Failure,
           Connected, Terminated, NewServerSession, OnIncomingCall
  <2> QED BY <2>1, <2>2 DEF EndpointNext
<1>3. (\A d \in Dialog : dlg'[d] \notin Engaged) => \A e \in Held(dlg') : dlg'[e] \in Idle
  BY <1>1 DEF TypeOK, DialogState, Held, Idle, Engaged
<1> QED BY <1>2, <1>3, FreedIdle DEF OrphansIdle

LEMMA CallerStep ==
  ASSUME Orderly, IInv, CallerApart, Next, TypeOK'
  PROVE  CallerApart'
<1> USE DialogAssumption DEF IInv, OrderlyInv, TypeOK, CallerApart
<1>1. ASSUME UNCHANGED <<m_clientInviteSession, rung>> PROVE CallerApart'
  BY <1>1
<1>2. ASSUME NEW d \in Dialog, OnOffer(d) PROVE CallerApart'
  BY <1>2 DEF OnOffer, sessions, PointersSound
<1>3. ASSUME NEW d \in Dialog, OnNewClientSession(d) PROVE CallerApart'
  <2>1. d \notin rung /\ rung' = rung /\ m_clientInviteSession' \in {NoDialog, d}
    BY <1>3 DEF OnNewClientSession, user, ConsentSound, UacSetup, ValidUserAgent, Orderly, TearDown, ForgetSessions
  <2> QED BY <2>1
<1>4. ASSUME NEW d \in Dialog, OnTerminated(d) \/ OnNewServerSession(d) \/ Reject(d)
      PROVE  CallerApart'
  <2>1. rung' = rung /\ m_clientInviteSession' \in {NoDialog, m_clientInviteSession}
    BY <1>4 DEF OnTerminated, OnNewServerSession, RejectOtherCall, Reject, RejectSession, TearDown,
                ForgetSessions, user, sessions
  <2> QED BY <2>1
<1>5. CASE TerminateSession
  <2>1. rung' = rung /\ m_clientInviteSession' \in {NoDialog, m_clientInviteSession}
    BY <1>5 DEF TerminateSession, TearDown, ForgetSessions, sessions
  <2> QED BY <2>1
<1>6. CASE StartOutgoing \/ CreateSession \/ OnIceGatheringFinished \/ \E d \in Dialog : AcceptSession(d)
  BY <1>1, <1>6 DEF StartOutgoing, CreateSession, OnIceGatheringFinished, AcceptSession, sessions, user
<1>7. CASE \E d \in Dialog : PushArrives(d) \/ InviteNeverComes(d) \/ OnProvisional(d) \/ OnEarlyMedia(d)
                              \/ OnAnswer(d) \/ OnFailure(d) \/ OnConnected(d)
  BY <1>1, <1>7 DEF PushArrives, InviteNeverComes, OnProvisional, OnEarlyMedia, OnAnswer, OnFailure, OnConnected,
                    sessions, user
<1> QED BY <1>2, <1>3, <1>4, <1>5, <1>6, <1>7 DEF Next, AppNext, DumNext

LEMMA PushedStep ==
  ASSUME Pushed, PInv, [EndpointNext]_allVars
  PROVE  PInv'
<1>1. EInv'
  BY PushedIsOrderly, ObjectsStep DEF PInv
<1>2. CASE EndpointNext
  <2>1. PushedSound'
    BY <1>1, <1>2, PushedApplication, PushedWebRTC, PushedOutgoing, PushedIncoming DEF EndpointNext, Handlers
  <2>2. CallerApart'
    BY <1>1, <1>2, PushedIsOrderly, CoreStep, CallerStep DEF PInv, EInv, IInv, CallerApart, vars, user, sessions
  <2> QED BY <1>1, <1>2, <2>1, <2>2, OrphansStep DEF PInv
<1>3. CASE UNCHANGED allVars
  <2>1. OrphansIdle'
    BY <1>3 DEF PInv, OrphansIdle, allVars, vars, epVars, platform
  <2>2. PushedSound'
    BY <1>3, SamePushed DEF PInv, allVars, vars, user, epVars, objects, routing
  <2>3. CallerApart'
    BY <1>3 DEF PInv, CallerApart, allVars, vars, user, sessions
  <2> QED BY <1>1, <2>1, <2>2, <2>3 DEF PInv
<1> QED BY <1>2, <1>3

\* Types, call control, the objects and the orphans together, with a push before each
\* incoming call.
THEOREM PushedCorrect ==
  ASSUME Pushed
  PROVE  EndpointSpec => []PInv
<1>1. EndpointInit => PushedSound /\ OrphansIdle /\ CallerApart
  BY DEF EndpointInit, Init, PushedSound, AppBelieves, AnnouncedShown, ObjectsMatch, OrphansIdle, CallerApart,
         NilIncoming, HasIncoming, HasOutgoing, Rings, Live, Engaged
<1>2. PInv /\ [EndpointNext]_allVars => PInv'
  BY PushedStep
<1>3. EndpointSpec => []EInv
  BY PushedIsOrderly, ObjectsCorrect
<1>4. EndpointInit /\ EInv => PInv
  BY <1>1 DEF PInv
<1> QED BY <1>2, <1>3, <1>4, PTL DEF EndpointSpec

\* The application holds the object of every call that lives, in the state of the call.
THEOREM ObjectsStayInHand ==
  ASSUME Pushed
  PROVE  EndpointSpec => []ObjectsInHand
<1>1. PInv => ObjectsInHand
  <2> SUFFICES ASSUME PInv PROVE ObjectsInHand
    OBVIOUS
  <2> USE DEF PInv, EInv, IInv, OrderlyInv, PushedSound
  <2>1. ASSUME m_clientInviteSession # NoDialog
        PROVE  /\ curOutCall \in Live
               /\ dlg[m_clientInviteSession] \in {"answered", "connected"} => curOutCall = "Ongoing"
    <3> DEFINE c == m_clientInviteSession
    <3>1. c \in Dialog /\ dlg[c] \in {"responded", "early", "answered", "failed", "connected"} /\ c \notin rung
      BY <2>1, DialogAssumption DEF PointersSound, CallerApart
    <3>2. mProgress # "Done"
      BY <2>1 DEF DoneIsClean
    <3> QED BY <3>1, <3>2 DEF ObjectsMatch, ObjectsSound, Dialled, AppBelieves, HasOutgoing, Live
  <2>2. ASSUME m_serverInviteSession \in rung
        PROVE  Rings /\ Shown(m_serverInviteSession)
    <3>1. m_serverInviteSession \in Dialog /\ m_serverInviteSession # NoDialog
      BY <2>2, DialogAssumption DEF TypeOK
    <3>2. dlg[m_serverInviteSession] \in {"offered", "accepted", "connected"}
      BY <2>2, <3>1 DEF PointersSound, ConsentSound
    <3> QED BY <2>2, <3>1, <3>2 DEF ObjectsMatch
  <2> QED BY <2>1, <2>2 DEF ObjectsInHand, AppBelieves, Live, Rings, Shown
<1> QED BY <1>1, PushedCorrect, PTL

\* Going to the background frees no stack under a call that lives.
THEOREM StackIsFreedIdle ==
  ASSUME Pushed
  PROVE  EndpointSpec => []StackFreedIdle
<1>1. PInv => StackFreedIdle
  BY DEF PInv, OrphansIdle, Idle, StackFreedIdle, Engaged
<1> QED BY <1>1, PushedCorrect, PTL

=============================================================================
