---------------------------- MODULE PlivoEndpoint ----------------------------
(***************************************************************************)
(* PlivoEndpoint and its call objects on top of call control: each action  *)
(* is an action of SipCall together with what the events it emits do to    *)
(* the endpoint, or a step of the endpoint alone that leaves call control  *)
(* as it is.  The events are delivered by SipAdapter at once, on the       *)
(* calling thread.                                                         *)
(*                                                                         *)
(* said holds the delegate methods called in the last step.  The stack of  *)
(* reSIProcate comes and goes with the application's state: resetEndpoint  *)
(* frees it, a registration makes a new one, and dialogs of a stack that   *)
(* was freed (orphans) never move again.                                   *)
(***************************************************************************)
EXTENDS SipCall

VARIABLES
  curIncomingCall,           \* the PlivoIncoming object
  curOutCall,                \* the state of the PlivoOutgoing object
  isIncomingCall, isSipToSipInvite, isApplicationinBackground,
  callId, callData,          \* the dialog of the last callInfo event
  incomingDelegate,          \* WebrtcAdapter.incomingDelegate is set
  preparing,                 \* the dialog WebRTC prepares the local answer for
  said,
  stack,                     \* there is a stack, and DUM is served
  orphans,
  known,                     \* dialogs of which a callInfo event told
  summaries                  \* call summaries sent, by call id

objects  == <<curIncomingCall, curOutCall, preparing>>
routing  == <<isIncomingCall, isSipToSipInvite, callId, callData, incomingDelegate, known, summaries>>
platform == <<isApplicationinBackground, stack, orphans>>
epVars   == <<objects, routing, platform, said>>
coreVars == vars
allVars  == <<vars, epVars>>

\* shown is the dialog the object was handed to the application for.
NilIncoming == [state |-> "nil", call |-> NoDialog, shown |-> NoDialog,
                isCallAnswered |-> FALSE, localSdp |-> FALSE]
CallState   == {"nil", "Dialing", "Ringing", "Ongoing", "Terminated"}
Incoming    == [state : CallState, call : Dialog \cup {NoDialog}, shown : Dialog \cup {NoDialog},
                isCallAnswered : BOOLEAN, localSdp : BOOLEAN]
IncomingEvent == {"onIncomingCall", "onIncomingCallAnswered", "onIncomingCallRejected",
                  "onIncomingCallInvalid", "onIncomingCallHangup"}
OutgoingEvent == {"onCalling", "onOutgoingCallRinging", "onOutgoingCallAnswered",
                  "onOutgoingCallRejected", "onOutgoingCallInvalid", "onOutgoingCallHangup"}

HasIncoming == curIncomingCall.state # "nil"
HasOutgoing == curOutCall # "nil"

EndpointInit ==
  /\ Init
  /\ curIncomingCall = NilIncoming /\ curOutCall = "nil" /\ preparing = NoDialog
  /\ isIncomingCall = FALSE /\ isSipToSipInvite = TRUE
  /\ callId = NoDialog /\ callData = NoDialog /\ incomingDelegate = FALSE
  /\ known = {} /\ summaries = [d \in Dialog |-> 0]
  /\ isApplicationinBackground = FALSE /\ stack = TRUE /\ orphans = {}
  /\ said = {}

-----------------------------------------------------------------------------
(* What the events of the core do                                           *)

Held(st) == {d \in Dialog : st[d] \notin {"free", "announced", "ended"}}

\* resetEndpoint: the stack is freed, with the dialogs it holds.
ResetEndpoint ==
  /\ stack' = FALSE
  /\ orphans' = orphans \cup Held(dlg')
  /\ UNCHANGED isApplicationinBackground

CallInfo(d) == callId' = d /\ callData' = d /\ known' = known \cup {d}

\* sendCallSummaryStats, if the call has an id.
SendSummary(id) ==
  summaries' = IF id = NoDialog THEN summaries
               ELSE [summaries EXCEPT ![id] = IF @ = 2 THEN 2 ELSE @ + 1]

\* (a call whose id stays when it is over)
TerminateKeepsId(id, before) ==
  /\ SendSummary(id)
  /\ said' = before \cup (IF HasOutgoing THEN {"onOutgoingCallHangup"} ELSE {})
                    \cup (IF HasIncoming THEN {"onIncomingCallHangup"} ELSE {})
  /\ curIncomingCall' = NilIncoming /\ curOutCall' = "nil" /\ preparing' = NoDialog
  /\ isIncomingCall' = FALSE
  /\ callId' = id
  /\ IF isApplicationinBackground THEN ResetEndpoint ELSE UNCHANGED platform
  /\ UNCHANGED <<isSipToSipInvite, incomingDelegate>>

\* (objects that are dropped before the delegate hears of them)
TerminateSilent(id, before) ==
  /\ SendSummary(id)
  /\ said' = before
  /\ curIncomingCall' = NilIncoming /\ curOutCall' = "nil" /\ preparing' = NoDialog
  /\ isIncomingCall' = FALSE
  /\ callId' = NoDialog
  /\ IF isApplicationinBackground THEN ResetEndpoint ELSE UNCHANGED platform
  /\ UNCHANGED <<isSipToSipInvite, incomingDelegate>>

\* TerminateCall, when the call id is id and the delegate heard before already:
\* both objects are reported and dropped, whichever call it is that ended, and
\* WebRTC hangs up.
Terminate(id, before) ==
  /\ SendSummary(id)
  /\ said' = before \cup (IF HasOutgoing THEN {"onOutgoingCallHangup"} ELSE {})
                    \cup (IF HasIncoming THEN {"onIncomingCallHangup"} ELSE {})
  /\ curIncomingCall' = NilIncoming /\ curOutCall' = "nil" /\ preparing' = NoDialog
  /\ isIncomingCall' = FALSE
  /\ callId' = NoDialog
  /\ IF isApplicationinBackground THEN ResetEndpoint ELSE UNCHANGED platform
  /\ UNCHANGED <<isSipToSipInvite, incomingDelegate>>

\* The call state "Calling".
Calling ==
  IF ~isIncomingCall /\ HasOutgoing
  THEN curOutCall' = "Dialing" /\ said' = {"onCalling"}
  ELSE UNCHANGED curOutCall /\ said' = {}

\* (an answer reported on an object that stays as it is)
CallAcceptedUnmarked ==
  /\ said' = IF isIncomingCall THEN (IF HasIncoming THEN {"onIncomingCallAnswered"} ELSE {})
             ELSE IF HasOutgoing THEN {"onOutgoingCallAnswered"} ELSE {}
  /\ UNCHANGED curOutCall

\* The call state "CallAccepted", reported on whichever object isIncomingCall
\* says it is about.
CallAccepted ==
  IF isIncomingCall
  THEN /\ said' = IF HasIncoming THEN {"onIncomingCallAnswered"} ELSE {}
       /\ UNCHANGED curOutCall
  ELSE /\ said' = IF HasOutgoing THEN {"onOutgoingCallAnswered"} ELSE {}
       /\ curOutCall' = IF HasOutgoing THEN "Ongoing" ELSE curOutCall

(***************************************************************************)
(* The end of a call is also a call state: onTerminated turns DUM's reason *)
(* into a text and a status code, and onCallState looks for the text among *)
(* the raw values of its enumeration, where it never is: EndState is empty,*)
(* and TerminateCall alone reports the end.                                *)
(***************************************************************************)
ReasonText ==
  [RemoteBye |-> "Remote Terminated", RemoteCancel |-> "Remote Ignored",
   Rejected |-> "Remote Rejected", LocalBye |-> "Local Terminated",
   LocalCancel |-> "Local Ignored", Timeout |-> "Remote Timeout", Error |-> "Remote Error"]

TerminatedReason == {"Error", "Timeout ", "Replaced", "LocalBye", "RemoteBye", "LocalCancel",
                     "RemoteCancel", "Rejected", "Referred"}

Text(reason, code) == IF code = 486 THEN "Remote Rejected"
                      ELSE IF code = 487 THEN "Remote Ignored" ELSE ReasonText[reason]

IncomingEnd(code) == CASE code \in {486, 487, 603} -> {"onIncomingCallRejected"}
                       [] code = 408 -> {"onIncomingCallInvalid"}
                       [] code = 200 -> {"onIncomingCallHangup"}
                       [] OTHER -> {}
OutgoingEnd(code) == CASE code \in 480..489 -> {"onOutgoingCallRejected"}
                       [] code \in (404..408) \cup {503} -> {"onOutgoingCallInvalid"}
                       [] code = 200 -> {"onOutgoingCallHangup"}
                       [] OTHER -> {}

EndState(reason, code) ==
  IF Text(reason, code) \notin TerminatedReason THEN {}
  ELSE IF isIncomingCall THEN (IF HasIncoming THEN IncomingEnd(code) ELSE {})
  ELSE IF HasOutgoing THEN OutgoingEnd(code) ELSE {}

\* The reasons DUM gives for the end of a dialog in state st; for a call the
\* callee refused, the code is that of the response.
Reasons(st) ==
  CASE st = "failed"    -> {<<"Rejected", c>> : c \in {404, 408, 486, 503}}
    [] st = "offered"   -> {<<"RemoteCancel", 487>>}
    [] st = "connected" -> {<<"RemoteBye", 200>>, <<"Timeout", 603>>}
    [] st = "closing"   -> {<<"LocalCancel", 603>>, <<"LocalBye", 603>>}
    [] OTHER            -> {<<"Timeout", 603>>, <<"Error", 603>>}

-----------------------------------------------------------------------------
(* The application                                                          *)

\* createOutgoingCall and call() on the new object, which takes over
\* WebRTC's callbacks.
CallOut ==
  /\ stack /\ StartOutgoing
  /\ curOutCall' = "Dialing" /\ said' = {}
  /\ UNCHANGED <<curIncomingCall, preparing, routing, platform>>

\* answer(): at once if the local answer is ready, otherwise when it is.
Answer ==
  /\ Up /\ HasIncoming /\ ~curIncomingCall.isCallAnswered
  /\ curIncomingCall.call = curIncomingCall.shown /\ dlg[curIncomingCall.call] # "ended"
  /\ curIncomingCall' = [curIncomingCall EXCEPT !.isCallAnswered = TRUE]
  /\ IF curIncomingCall.localSdp
     THEN /\ AcceptSession(curIncomingCall.call)
          /\ IF m_localCandidatesCollected THEN CallAccepted ELSE UNCHANGED curOutCall /\ said' = {}
     ELSE UNCHANGED coreVars /\ UNCHANGED curOutCall /\ said' = {}
  /\ UNCHANGED <<preparing, routing, platform>>

\* reject() on the object shown; what the core reports depends on what it
\* finds (see RejectSession).
RejectReports ==
  /\ ~(mProgress = "Done" /\ isUACRejected)
  /\ ~(/\ m_serverInviteSession \in Dialog /\ dlg[m_serverInviteSession] = "connected"
       /\ mProgress = "Done")

RejectIncoming ==
  /\ HasIncoming /\ curIncomingCall.call = curIncomingCall.shown
  /\ Reject(curIncomingCall.call)
  /\ IF RejectReports THEN Terminate(callId, {}) /\ UNCHANGED <<callData, known>>
     ELSE /\ curIncomingCall' = [curIncomingCall EXCEPT !.state = "Terminated"]
          /\ preparing' = NoDialog /\ said' = {}
          /\ UNCHANGED <<curOutCall, routing, platform>>

\* hangup() on either object.  Hanging up one that is only announced is left
\* out: it ends nothing, and the call rings when its INVITE comes.
Hangup ==
  /\ HasOutgoing \/ curIncomingCall.state \in {"Ringing", "Ongoing"}
  /\ TerminateSession
  /\ IF mProgress # "Done" THEN Terminate(callId, {}) /\ UNCHANGED <<callData, known>>
     ELSE /\ preparing' = NoDialog /\ said' = {}
          /\ \/ HasOutgoing /\ curOutCall' = "Terminated" /\ UNCHANGED curIncomingCall
             \/ /\ curIncomingCall.state \in {"Ringing", "Ongoing"}
                /\ curIncomingCall' = [curIncomingCall EXCEPT !.state = "Terminated"]
                /\ UNCHANGED curOutCall
          /\ UNCHANGED <<routing, platform>>

\* relayVoipPushNotification: unless a call rings or is dialled, a new object
\* is shown, and the registration it makes brings the stack back.
RelayVoipPushNotification(d) ==
  /\ curIncomingCall.state \notin {"Ringing", "Ongoing"} /\ curOutCall \notin {"Dialing", "Ongoing"}
  /\ PushArrives(d)
  /\ curIncomingCall' = [NilIncoming EXCEPT !.state = "Dialing", !.call = d, !.shown = d]
  /\ said' = {"onIncomingCall"}
  /\ isSipToSipInvite' = FALSE
  /\ stack' = TRUE
  /\ \E inBackground \in BOOLEAN :
       isApplicationinBackground' = (isApplicationinBackground \/ inBackground)
  /\ UNCHANGED <<curOutCall, preparing, isIncomingCall, callId, callData, incomingDelegate,
                 known, summaries, orphans>>

\* checkRingIncomingInviteTimer: the object stays, in the state Dialing.
CheckRingIncomingInviteTimer(d) ==
  /\ InviteNeverComes(d)
  /\ said' = IF HasIncoming THEN {"onIncomingCallInvalid"} ELSE {}
  /\ UNCHANGED <<objects, routing, platform>>

(***************************************************************************)
(* The application's state.  An object whose call is over and that was not *)
(* dropped is hung up by applicationDidEnterBackground before the reset;   *)
(* ObjectsInHand says that there is none.                                  *)
(***************************************************************************)
\* (a check that forgets the incoming object)
BusyOutgoing == curOutCall \in {"Ongoing", "Ringing", "Dialing"}

Busy == {curOutCall, curIncomingCall.state} \cap {"Ongoing", "Ringing", "Dialing"} # {}

DidEnterBackground ==
  /\ ~isApplicationinBackground /\ isApplicationinBackground' = TRUE
  /\ IF Busy THEN UNCHANGED <<isIncomingCall, stack, orphans>>
     ELSE /\ isIncomingCall' = FALSE /\ stack' = FALSE
          /\ orphans' = orphans \cup Held(dlg)
  /\ said' = {}
  /\ UNCHANGED <<coreVars, objects, isSipToSipInvite, callId, callData, incomingDelegate, known, summaries>>

\* The user who logged in last is registered again.
WillEnterForeground ==
  /\ isApplicationinBackground /\ isApplicationinBackground' = FALSE
  /\ stack' = (stack \/ ~Busy)
  /\ said' = {}
  /\ UNCHANGED <<coreVars, objects, routing, orphans>>

-----------------------------------------------------------------------------
(* WebRTC                                                                   *)

\* The local offer is ready.
MakeCall ==
  /\ CreateSession
  /\ IF m_localCandidatesCollected THEN Calling ELSE UNCHANGED curOutCall /\ said' = {}
  /\ UNCHANGED <<curIncomingCall, preparing, routing, platform>>

\* The local answer is ready: sent if the user has answered, kept otherwise.
SendAnswer ==
  /\ Up /\ preparing # NoDialog
  /\ preparing' = NoDialog
  /\ IF curIncomingCall.isCallAnswered
     THEN /\ AcceptSession(preparing)
          /\ IF m_localCandidatesCollected THEN CallAccepted ELSE UNCHANGED curOutCall /\ said' = {}
          /\ UNCHANGED curIncomingCall
     ELSE /\ curIncomingCall' = IF HasIncoming THEN [curIncomingCall EXCEPT !.localSdp = TRUE]
                                ELSE curIncomingCall
          /\ said' = {} /\ UNCHANGED <<coreVars, curOutCall>>
  /\ UNCHANGED <<routing, platform>>

OnIceGatheringFinish ==
  /\ OnIceGatheringFinished
  /\ IF mProgress = "Done" THEN UNCHANGED curOutCall /\ said' = {}
     ELSE IF m_isCaller THEN Calling
     ELSE IF m_inInBoundAccepted THEN CallAccepted
     ELSE UNCHANGED curOutCall /\ said' = {}
  /\ UNCHANGED <<curIncomingCall, preparing, routing, platform>>

\* didConnectCall: media flows.  Both objects are Ongoing then, whichever it is.
DidConnectCall ==
  /\ Up /\ incomingDelegate
  /\ \E d \in Dialog : dlg[d] \in {"answered", "accepted", "connected"}
  /\ curIncomingCall' = IF HasIncoming THEN [curIncomingCall EXCEPT !.state = "Ongoing"]
                        ELSE curIncomingCall
  /\ curOutCall' = IF HasOutgoing THEN "Ongoing" ELSE curOutCall
  /\ said' = {}
  /\ UNCHANGED <<coreVars, preparing, routing, platform>>

-----------------------------------------------------------------------------
(* DUM's handlers                                                           *)

\* The first response: callInfo, and TerminateCall if the user has hung up.
NewClientSession(d) ==
  /\ OnNewClientSession(d)
  /\ IF mProgress = "Done"
     THEN Terminate(d, {}) /\ callData' = d /\ known' = known \cup {d}
     ELSE /\ CallInfo(d) /\ said' = {}
          /\ UNCHANGED <<objects, isIncomingCall, isSipToSipInvite, incomingDelegate, summaries, platform>>

\* A provisional response without a body tells the endpoint nothing.
Provisional(d) ==
  /\ OnProvisional(d)
  /\ said' = {} /\ UNCHANGED <<objects, routing, platform>>

\* (a state that is none of the call object's)
EarlyMediaState(d) ==
  /\ OnEarlyMedia(d)
  /\ IF ~isIncomingCall /\ HasOutgoing
     THEN curOutCall' = "EarlyMedia" /\ said' = {"onOutgoingCallRinging"}
     ELSE UNCHANGED curOutCall /\ said' = {}
  /\ UNCHANGED <<curIncomingCall, preparing, routing, platform>>

\* The call state "EarlyMedia" with a code of 180 to 183.
EarlyMedia(d) ==
  /\ OnEarlyMedia(d)
  /\ IF ~isIncomingCall /\ HasOutgoing
     THEN curOutCall' = "Ringing" /\ said' = {"onOutgoingCallRinging"}
     ELSE UNCHANGED curOutCall /\ said' = {}
  /\ UNCHANGED <<curIncomingCall, preparing, routing, platform>>

\* The call state, then the remote answer, then the event CallAccepted.
RemoteAnswer(d) ==
  /\ OnAnswer(d)
  /\ CallAccepted
  /\ isIncomingCall' = FALSE
  /\ UNCHANGED <<curIncomingCall, preparing, isSipToSipInvite, callId, callData, incomingDelegate,
                 known, summaries, platform>>

Failure(d) ==
  /\ OnFailure(d)
  /\ CallInfo(d) /\ said' = {}
  /\ UNCHANGED <<objects, isIncomingCall, isSipToSipInvite, incomingDelegate, summaries, platform>>

Connected(d) ==
  /\ OnConnected(d)
  /\ said' = {} /\ UNCHANGED <<objects, routing, platform>>

\* A call state and then TerminateCall, or nothing when the core has dealt with
\* the end already; only TerminateCall when a rejection stands.
Terminated(d) ==
  /\ OnTerminated(d)
  /\ IF isSecondaryUAC \/ mProgress = "Done"
     THEN said' = {} /\ UNCHANGED <<objects, routing, platform>>
     ELSE /\ IF isUACRejected THEN Terminate(callId, {})
             ELSE \E r \in Reasons(dlg[d]) : Terminate(callId, EndState(r[1], r[2]))
          /\ UNCHANGED <<callData, known>>

\* (callInfo before the check for a call that goes on)
NewServerSessionInfoFirst(d) ==
  /\ OnNewServerSession(d)
  /\ IF mProgress # "Connected" /\ isUACRejected
     THEN Terminate(d, {}) /\ callData' = d /\ known' = known \cup {d}
     ELSE /\ CallInfo(d) /\ said' = {}
          /\ UNCHANGED <<objects, isIncomingCall, isSipToSipInvite, incomingDelegate, summaries, platform>>

\* A second caller is refused in silence, the INVITE of a declined call after
\* its callInfo.
NewServerSession(d) ==
  /\ OnNewServerSession(d)
  /\ IF mProgress = "Connected" THEN said' = {} /\ UNCHANGED <<objects, routing, platform>>
     ELSE IF isUACRejected
     THEN Terminate(d, {}) /\ callData' = d /\ known' = known \cup {d}
     ELSE /\ CallInfo(d) /\ said' = {}
          /\ UNCHANGED <<objects, isIncomingCall, isSipToSipInvite, incomingDelegate, summaries, platform>>

\* The event IncomingCall, then the remote offer: on_incoming_call gives the
\* call to the object there is, or to a new one, and shows it if no push did.
OnIncomingCall(d) ==
  /\ OnOffer(d)
  /\ isIncomingCall' = TRUE /\ incomingDelegate' = TRUE /\ preparing' = d
  /\ curIncomingCall' = [curIncomingCall EXCEPT
                           !.state = "Ringing", !.call = callData,
                           !.shown = IF isSipToSipInvite THEN callData ELSE @]
  /\ said' = IF isSipToSipInvite THEN {"onIncomingCall"} ELSE {}
  /\ isSipToSipInvite' = TRUE
  /\ UNCHANGED <<curOutCall, callId, callData, known, summaries, platform>>

-----------------------------------------------------------------------------
Application ==
  \/ CallOut \/ Answer \/ RejectIncoming \/ Hangup \/ DidEnterBackground \/ WillEnterForeground
  \/ \E d \in Dialog : RelayVoipPushNotification(d) \/ CheckRingIncomingInviteTimer(d)

WebRTC == MakeCall \/ SendAnswer \/ OnIceGatheringFinish \/ DidConnectCall

\* Only dialogs of a stack that is there move.
Handlers ==
  \E d \in Dialog \ orphans :
    /\ stack
    /\ \/ NewClientSession(d) \/ Provisional(d) \/ EarlyMedia(d) \/ RemoteAnswer(d)
       \/ Failure(d) \/ Connected(d) \/ Terminated(d) \/ NewServerSession(d) \/ OnIncomingCall(d)

EndpointNext == Application \/ WebRTC \/ Handlers

EndpointSpec == EndpointInit /\ [][EndpointNext]_allVars

-----------------------------------------------------------------------------
(* What the module promises                                                 *)

\* Type invariant: the core's, and that of the endpoint's own variables.
EndpointTypeOK ==
  /\ TypeOK
  /\ curIncomingCall \in Incoming /\ curOutCall \in CallState
  /\ preparing \in Dialog \cup {NoDialog}
  /\ isIncomingCall \in BOOLEAN /\ isSipToSipInvite \in BOOLEAN
  /\ callId \in Dialog \cup {NoDialog} /\ callData \in Dialog \cup {NoDialog}
  /\ incomingDelegate \in BOOLEAN
  /\ known \subseteq Dialog /\ summaries \in [Dialog -> 0..2]
  /\ isApplicationinBackground \in BOOLEAN /\ stack \in BOOLEAN /\ orphans \subseteq Dialog
  /\ said \subseteq IncomingEvent \cup OutgoingEvent

\* The application holds the object of every call that lives: a ringing or
\* connected incoming call has the object that was shown for it, an outgoing one
\* an object that says Ongoing once the callee has answered.
ObjectsInHand ==
  /\ m_clientInviteSession # NoDialog =>
       /\ curOutCall \in {"Dialing", "Ringing", "Ongoing"}
       /\ dlg[m_clientInviteSession] \in {"answered", "connected"} => curOutCall = "Ongoing"
  /\ m_serverInviteSession \in rung =>
       /\ curIncomingCall.state \in {"Ringing", "Ongoing"}
       /\ curIncomingCall.call = m_serverInviteSession
       /\ curIncomingCall.shown = m_serverInviteSession
  /\ "Terminated" \notin {curOutCall, curIncomingCall.state}

\* A call that rings is one its application was shown: by onIncomingCall for it, or
\* by the push that announced it.
RingingCallShown == curIncomingCall.state = "Ringing" => curIncomingCall.shown = curIncomingCall.call

EventsTold ==
  /\ \A d \in Dialog :
       /\ dlg[d] = "offered" /\ dlg'[d] = "accepted" => "onIncomingCallAnswered" \in said'
       /\ dlg[d] # "answered" /\ dlg'[d] = "answered" => "onOutgoingCallAnswered" \in said'
  /\ appInCall /\ ~appInCall' =>
       said' \cap {"onIncomingCallHangup", "onIncomingCallInvalid", "onOutgoingCallHangup"} # {}

\* The delegate hears of each answer on the object of its own direction, and of
\* each end of what it believes to be its call.
CallEventsReported == [][EventsTold]_allVars

\* Every call whose id the endpoint learned is summed up once, under its own
\* id, by the time it is over: no id is left from the call before, or taken
\* from a caller refused meanwhile.
SummaryOnce ==
  \A d \in Dialog :
    /\ summaries[d] <= 1 /\ (summaries[d] = 1 => d \in known)
    /\ d \in known /\ dlg[d] = "ended" => summaries[d] = 1

\* The stack is never freed under a call that lives.
StackFreedIdle == \A d \in orphans : dlg[d] \notin Engaged
=============================================================================
