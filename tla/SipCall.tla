------------------------------- MODULE SipCall -------------------------------
(***************************************************************************)
(* Call control of the SDK: the class SipControllerCore, with its flags,   *)
(* its two session pointers and every handler that changes them, driven by *)
(* the application above it and by reSIProcate's DialogUsageManager (DUM)  *)
(* below it.  One action is one handler, executed without interruption;    *)
(* the actions of the application and the callbacks of DUM interleave in   *)
(* any order the guards on the environment allow.                          *)
(*                                                                         *)
(* dlg is what DUM knows of each dialog.  The code itself keeps only the   *)
(* two pointers, and its callbacks ignore the handle DUM passes them: that *)
(* is where most of the hazards come from.                                 *)
(*                                                                         *)
(* A definition named just before another, with the same parameters, that  *)
(* no action uses is a plausible slip in the code the second one models;   *)
(* README.md says which property each of them breaks.                      *)
(***************************************************************************)
EXTENDS FiniteSets, Naturals

CONSTANTS Dialog,     \* the dialogs a behaviour may use (bounds the calls)
          NoDialog,   \* the null session pointer
          Wild,       \* a session pointer that was never assigned
          MaxIce,     \* bound on pending "ICE gathering finished" callbacks
          Env         \* which of the conditions below the environment shows

(***************************************************************************)
(* Conditions a run may admit.  With Env = {} the application uses the SDK *)
(* for one call at a time, a push announces each incoming one, and each     *)
(* call settles before the next begins.                                    *)
(*   pushless     an INVITE arrives with no push before it (SIP to SIP)    *)
(*   overlap      a call begins while an earlier one is still torn down    *)
(*   glare        a call begins while another is being set up              *)
(*   lateAnswer   answer() on the object of a call that is over            *)
(*   doubleAnswer answer() twice on one object                             *)
(*   lateReject   reject() on the object of a call already answered or over*)
(*   lostInvite   the INVITE a push announced, and the user declined,      *)
(*                never arrives                                            *)
(*   staleIce     the ICE callback of a call outlives it into the next     *)
(*   earlyIce     the ICE callback overtakes createSession                 *)
(*   foreignAgent messages whose User-Agent is not a Plivo one             *)
(*   garbage      the members the constructor leaves uninitialised hold    *)
(*                arbitrary values                                         *)
(***************************************************************************)
Conditions == {"pushless", "overlap", "glare", "lateAnswer", "doubleAnswer",
               "lateReject", "lostInvite", "staleIce", "earlyIce", "foreignAgent", "garbage"}

ASSUME DialogAssumption == NoDialog \notin Dialog /\ Wild \notin Dialog \cup {NoDialog}
ASSUME EnvAssumption == Env \subseteq Conditions
ASSUME MaxIceAssumption == MaxIce \in Nat

VARIABLES
  mProgress, isUACRejected, isSecondaryUAC, m_isCaller, m_inInBoundAccepted,
  m_inCall, m_localCandidatesCollected,
  m_clientInviteSession, m_serverInviteSession,
  dlg,        \* DUM: the state of each dialog
  ice,        \* pending ICE callbacks (WebRTCClient's one-second delays)
  draft,      \* a local offer exists, createSession is about to be called
  appInCall,  \* the application believes it has a call
  rung,       \* dialogs shown to the application by an IncomingCall event
  consent,    \* dialogs the user answered
  declined,   \* dialogs the user declined
  hungup,     \* dialogs that existed when the user hung up
  refused,    \* dialogs the SDK refused other than as busy
  fault       \* "none", or how the process died

flags    == <<m_isCaller, m_inInBoundAccepted, m_inCall, m_localCandidatesCollected>>
sessions == <<m_clientInviteSession, m_serverInviteSession>>
user     == <<rung, consent, declined, hungup, refused>>
vars     == <<mProgress, isUACRejected, isSecondaryUAC, flags, sessions,
              dlg, ice, draft, appInCall, user, fault>>

DialProgress == {"Dialing", "Ringing", "Connected", "Done"}

(***************************************************************************)
(* A dialog's life in DUM.  As UAC: inviting (INVITE sent, no response),   *)
(* responded (onNewSession delivered), early (18x), answered (2xx, its     *)
(* onConnected still to come), failed (onFailure delivered).  As UAS:      *)
(* announced (a push named it, no INVITE yet), invited (onNewSession       *)
(* delivered), offered (onOffer delivered), accepted (2xx sent, no ACK).   *)
(* closing: we ended it and DUM still owes onTerminated.                   *)
(***************************************************************************)
DialogState == {"free", "inviting", "responded", "early", "answered", "failed",
                "announced", "invited", "offered", "accepted",
                "connected", "closing", "ended"}
UacSetup  == {"inviting", "responded", "early", "answered"}
Engaged   == {"responded", "early", "answered", "invited", "offered",
              "accepted", "connected"}
Allocated == Engaged \cup {"failed", "closing"}

Quiet == \A d \in Dialog : dlg[d] \in {"free", "ended"}
Up    == fault = "none"

\* A new call may begin: the application has none, and nothing of an earlier
\* call is left unless the run admits it.  The code checks none of this, only
\* IS_CALL_RUNNING (in StartOutgoing): it is how the SDK is used.
MayBegin ==
  \/ "glare" \in Env
  \/ /\ ~appInCall /\ ~draft
     /\ "overlap" \in Env \/ Quiet
     /\ "staleIce" \in Env \/ ice = 0

-----------------------------------------------------------------------------
(* Initial state: what the constructor sets, and what it leaves to the heap *)

Init ==
  /\ IF "garbage" \in Env
     THEN /\ mProgress \in DialProgress
          /\ isUACRejected \in BOOLEAN /\ isSecondaryUAC \in BOOLEAN
          /\ m_inInBoundAccepted \in BOOLEAN
          /\ m_clientInviteSession \in {NoDialog, Wild}
          /\ m_serverInviteSession \in {NoDialog, Wild}
     ELSE /\ mProgress = "Dialing"
          /\ isUACRejected = FALSE /\ isSecondaryUAC = FALSE
          /\ m_inInBoundAccepted = FALSE
          /\ m_clientInviteSession = NoDialog
          /\ m_serverInviteSession = NoDialog
  /\ m_isCaller = FALSE /\ m_inCall = FALSE
  /\ m_localCandidatesCollected = FALSE
  /\ dlg = [d \in Dialog |-> "free"]
  /\ ice = 0 /\ draft = FALSE /\ appInCall = FALSE
  /\ rung = {} /\ consent = {} /\ declined = {} /\ hungup = {} /\ refused = {}
  /\ fault = "none"

-----------------------------------------------------------------------------
(* Pieces shared by several handlers                                        *)

\* DUM's part of InviteSession::end and reject on the sessions S, from the
\* dialog states st.  A BYE or a rejection calls onTerminated before it
\* returns; a CANCEL, or a BYE that must wait for the ACK, later; a dialog that
\* just got its first response may be in either case.  Every caller has set
\* mProgress to Done, so the nested onTerminated only changes isSecondaryUAC.
EndSessions(S, st) ==
  LET ending == {d \in S \cap Dialog : st[d] \in Engaged}
      now    == {d \in ending : st[d] \notin {"early", "accepted"}}
  IN \E later \in SUBSET {d \in now : st[d] = "responded"} :
       /\ dlg' = [d \in Dialog |-> IF d \in now \ later THEN "ended"
                                  ELSE IF d \in ending THEN "closing" ELSE st[d]]
       /\ isSecondaryUAC' = (isSecondaryUAC /\ now \ later = {})

\* Using the pointer p to a dialog in state st[p] goes wrong.
Dangling(p, st) == p # NoDialog /\ (p = Wild \/ st[p] \notin Allocated)

\* handleCall(TerminateCall, ...): the application learns its call is over.
DropTerminate == UNCHANGED appInCall

ReportTerminate == appInCall' = FALSE

\* A call to come is no longer one the user declined.
KeepRejection == UNCHANGED isUACRejected

ForgetRejection == isUACRejected' = FALSE

\* The session pointers are cleared together.
ForgetClientSession ==
  m_clientInviteSession' = NoDialog /\ UNCHANGED m_serverInviteSession

ForgetSessions ==
  m_clientInviteSession' = NoDialog /\ m_serverInviteSession' = NoDialog

\* The candidates are there; from now on the call counts as one in progress.
ForgetCandidates == UNCHANGED m_localCandidatesCollected /\ m_inCall' = TRUE

CandidatesCollected == m_localCandidatesCollected' = TRUE /\ m_inCall' = TRUE

\* The members every teardown clears.
ClearCallKeepsAccepted ==
  /\ m_isCaller' = FALSE
  /\ UNCHANGED m_inInBoundAccepted
  /\ m_inCall' = FALSE
  /\ m_localCandidatesCollected' = FALSE

ClearCall ==
  /\ m_isCaller' = FALSE
  /\ m_inInBoundAccepted' = FALSE
  /\ m_inCall' = FALSE
  /\ m_localCandidatesCollected' = FALSE

\* (a teardown that ends the incoming session only)
TearDownServerOnly(cs, ss, st) ==
  /\ mProgress' = "Done"
  /\ EndSessions({ss}, st)
  /\ fault' = IF Dangling(cs, st) \/ Dangling(ss, st) THEN "dangling" ELSE fault
  /\ ReportTerminate
  /\ ClearCall
  /\ ForgetRejection
  /\ ForgetSessions

\* terminateSession past its check of mProgress, with the session pointers cs
\* and ss and the dialog states st it finds.
TearDown(cs, ss, st) ==
  /\ mProgress' = "Done"
  /\ EndSessions({cs, ss}, st)
  /\ fault' = IF Dangling(cs, st) \/ Dangling(ss, st) THEN "dangling" ELSE fault
  /\ ReportTerminate
  /\ ClearCall
  /\ ForgetRejection
  /\ ForgetSessions

\* makeInviteSession and send: DUM opens a dialog for a new INVITE.
SendNoOffer == UNCHANGED dlg

SendSdpOffer ==
  \E d \in Dialog :
    /\ dlg[d] = "free"
    /\ dlg' = [dlg EXCEPT ![d] = "inviting"]

\* provideAnswer and accept through m_serverInviteSession, unchecked.
SendSdpAnswer ==
  LET s == m_serverInviteSession
      takesAnswer == s \in Dialog /\ dlg[s] = "offered"
  IN /\ dlg' = IF takesAnswer THEN [dlg EXCEPT ![s] = "accepted"] ELSE dlg
     /\ fault' = IF takesAnswer THEN fault
                 ELSE IF s = NoDialog THEN "null"
                 ELSE IF Dangling(s, dlg) THEN "dangling" ELSE "usage"

-----------------------------------------------------------------------------
(* Called by the application, through PlivoEndpoint and its call objects    *)

\* PlivoOutgoing.call: WebRTC prepares the local offer, which starts the ICE
\* gathering; createSession follows when the offer is ready.
StartOutgoing ==
  /\ Up /\ MayBegin /\ ~draft /\ ice < MaxIce
  /\ \E d \in Dialog : dlg[d] = "free"
  /\ \A d \in Dialog : dlg[d] # "connected"   \* Utils.IS_CALL_RUNNING
  /\ draft' = TRUE /\ ice' = ice + 1 /\ appInCall' = TRUE
  /\ UNCHANGED <<mProgress, isUACRejected, isSecondaryUAC, flags, sessions, dlg, user, fault>>

\* createSession: sends the INVITE at once when the candidates are there.
CreateSessionSends ==
  /\ Up /\ draft
  /\ draft' = FALSE
  /\ mProgress' = "Dialing"
  /\ m_isCaller' = TRUE
  /\ SendSdpOffer
  /\ UNCHANGED <<isUACRejected, isSecondaryUAC, m_inInBoundAccepted, m_inCall,
                 m_localCandidatesCollected, sessions, ice, appInCall, user, fault>>

CreateSession ==
  /\ Up /\ draft
  /\ draft' = FALSE
  /\ mProgress' = "Dialing"
  /\ m_isCaller' = TRUE
  /\ IF m_localCandidatesCollected THEN SendSdpOffer ELSE UNCHANGED dlg
  /\ UNCHANGED <<isUACRejected, isSecondaryUAC, m_inInBoundAccepted, m_inCall,
                 m_localCandidatesCollected, sessions, ice, appInCall, user, fault>>

\* The application answers calls it was shown, once and while they ring, unless
\* the run admits more.  answer() itself checks none of this.
MayAnswer(d) ==
  /\ d \in rung
  /\ dlg[d] = "offered" \/ "lateAnswer" \in Env \/ (d \in consent /\ dlg[d] \in {"accepted", "connected"})
  /\ d \notin consent \/ "doubleAnswer" \in Env

\* (an answer sent without waiting for the candidates)
AcceptAtOnce(d) ==
  /\ Up /\ MayAnswer(d)
  /\ consent' = consent \cup {d}
  /\ mProgress' = "Ringing" /\ m_inInBoundAccepted' = TRUE
  /\ SendSdpAnswer /\ m_inCall' = TRUE
  /\ UNCHANGED <<isUACRejected, isSecondaryUAC, m_isCaller, m_localCandidatesCollected,
                 sessions, ice, draft, appInCall, rung, declined, hungup, refused>>

\* acceptSession, for answer() on the call object of dialog d.  The code does
\* not look at d: it answers whatever m_serverInviteSession is.  An answer()
\* given while the call is only announced, or before WebRTC has the local
\* answer, is kept by the call object and made here when both are there.
AcceptSession(d) ==
  /\ Up /\ MayAnswer(d)
  /\ consent' = consent \cup {d}
  /\ mProgress' = "Ringing" /\ m_inInBoundAccepted' = TRUE
  /\ IF m_localCandidatesCollected
     THEN SendSdpAnswer /\ m_inCall' = TRUE
     ELSE UNCHANGED <<dlg, fault, m_inCall>>
  /\ UNCHANGED <<isUACRejected, isSecondaryUAC, m_isCaller, m_localCandidatesCollected,
                 sessions, ice, draft, appInCall, rung, declined, hungup, refused>>

\* terminateSession, for hangup() or logout().  Between call() and
\* createSession the WebRTC layer decides what a hang-up does, which is not
\* modelled here.
TerminateSession ==
  /\ Up /\ ~draft
  /\ hungup' = hungup \cup {d \in Dialog : dlg[d] \in Engaged \cup {"inviting"}}
  /\ IF mProgress = "Done"
     THEN /\ m_localCandidatesCollected' = FALSE
          /\ UNCHANGED <<mProgress, isUACRejected, isSecondaryUAC, m_isCaller,
                         m_inInBoundAccepted, m_inCall, sessions, dlg, appInCall, fault>>
     ELSE TearDown(m_clientInviteSession, m_serverInviteSession, dlg)
  /\ UNCHANGED <<ice, draft, rung, consent, declined, refused>>

\* What reject does past its first check, to the server session s in the
\* dialog states st, when mProgress is p.
RejectSession(s, st, p) ==
  IF s = NoDialog
  THEN /\ mProgress' = "Done" /\ isUACRejected' = TRUE
       /\ ReportTerminate /\ ClearCall /\ dlg' = st
       /\ UNCHANGED <<isSecondaryUAC, sessions, refused, fault>>
  ELSE /\ refused' = refused \cup ({s} \cap Dialog)
       /\ IF Dangling(s, st) \/ st[s] # "connected"
          THEN /\ mProgress' = "Done" /\ isUACRejected' = TRUE
               /\ EndSessions({s}, st)
               /\ fault' = IF Dangling(s, st) THEN "dangling"
                           ELSE IF st[s] \in {"invited", "offered"} THEN fault ELSE "usage"
               /\ ReportTerminate /\ ClearCall
               /\ m_serverInviteSession' = NoDialog
               /\ UNCHANGED m_clientInviteSession
          ELSE IF p = "Done"
          THEN /\ isUACRejected' = TRUE /\ ClearCall /\ dlg' = st /\ mProgress' = p
               /\ UNCHANGED <<isSecondaryUAC, sessions, appInCall, fault>>
          ELSE TearDown(m_clientInviteSession, s, st)

\* reject, for reject() on the call object of dialog d, ignored here too.
Reject(d) ==
  /\ Up
  /\ \/ dlg[d] = "announced"
     \/ d \in rung /\ (dlg[d] \in {"offered", "connected"} \/ "lateReject" \in Env)
  /\ declined' = declined \cup {d}
  /\ IF mProgress = "Done" /\ isUACRejected
     THEN UNCHANGED <<mProgress, isUACRejected, isSecondaryUAC, flags, sessions,
                      dlg, appInCall, refused, fault>>
     ELSE RejectSession(m_serverInviteSession, dlg, mProgress)
  /\ UNCHANGED <<ice, draft, rung, consent, hungup>>

\* relayVoipPushNotification, when no call is ringing, dialing or ongoing.  The
\* code would also take a second push over a call that is only announced, or over
\* an outgoing one that rings: pushes are taken to come one call at a time.  The
\* call object is shown before the INVITE, and registerUser with a proxy
\* forgets an earlier rejection.
PushArrives(d) ==
  /\ Up /\ MayBegin /\ ~appInCall /\ dlg[d] = "free" /\ \A e \in Dialog : dlg[e] # "announced"
  /\ dlg' = [dlg EXCEPT ![d] = "announced"]
  /\ ForgetRejection /\ appInCall' = TRUE
  /\ UNCHANGED <<mProgress, isSecondaryUAC, flags, sessions, ice, draft, user, fault>>

\* The announced INVITE never comes; the ring timer tells the application.
InviteNeverComes(d) ==
  /\ Up /\ dlg[d] = "announced" /\ (d \notin declined \/ "lostInvite" \in Env)
  /\ dlg' = [dlg EXCEPT ![d] = "ended"]
  /\ appInCall' = FALSE
  /\ UNCHANGED <<mProgress, isUACRejected, isSecondaryUAC, flags, sessions, ice, draft, user, fault>>

\* onIceGatheringFinished, one second after the gathering began.
OnIceGatheringFinished ==
  /\ Up /\ ice > 0 /\ (~draft \/ "earlyIce" \in Env)
  /\ ice' = ice - 1
  /\ IF mProgress = "Done"
     THEN UNCHANGED <<dlg, fault, m_localCandidatesCollected, m_inCall>>
     ELSE /\ IF m_isCaller THEN SendSdpOffer /\ UNCHANGED fault
             ELSE IF m_inInBoundAccepted THEN SendSdpAnswer
             ELSE UNCHANGED <<dlg, fault>>
          /\ CandidatesCollected
  /\ UNCHANGED <<mProgress, isUACRejected, isSecondaryUAC, m_isCaller,
                 m_inInBoundAccepted, sessions, draft, appInCall, user>>

-----------------------------------------------------------------------------
(* Called by DUM: outgoing dialogs                                          *)

NeverValid == {FALSE}

ValidUserAgent == IF "foreignAgent" \in Env THEN BOOLEAN ELSE {TRUE}

\* onNewSession(ClientInviteSession): the first response to our INVITE.  When
\* the user has hung up meanwhile the dialog is ended on the spot.
OnNewClientSession(d) ==
  /\ Up /\ dlg[d] = "inviting"
  /\ \E valid \in ValidUserAgent :
       LET cs == IF valid THEN d ELSE m_clientInviteSession
           st == [dlg EXCEPT ![d] = "responded"]
       IN IF mProgress = "Done"
          THEN TearDown(cs, m_serverInviteSession, st)
          ELSE /\ mProgress' = "Dialing" /\ ForgetRejection
               /\ m_clientInviteSession' = cs /\ dlg' = st
               /\ UNCHANGED <<isSecondaryUAC, flags, m_serverInviteSession, appInCall, fault>>
  /\ UNCHANGED <<ice, draft, user>>

\* onProvisional and onEarlyMedia: an 18x without and with a body.
OnProvisionalEarly(d) ==
  /\ Up /\ dlg[d] \in {"responded", "early"}
  /\ dlg' = [dlg EXCEPT ![d] = "early"]
  /\ mProgress' = "Early"
  /\ UNCHANGED <<isUACRejected, isSecondaryUAC, flags, sessions, ice, draft, appInCall, user, fault>>

OnProvisional(d) ==
  /\ Up /\ dlg[d] \in {"responded", "early"}
  /\ dlg' = [dlg EXCEPT ![d] = "early"]
  /\ mProgress' = "Dialing"
  /\ UNCHANGED <<isUACRejected, isSecondaryUAC, flags, sessions, ice, draft, appInCall, user, fault>>

OnEarlyMedia(d) == OnProvisional(d)

\* onAnswer: the 2xx carries the remote answer.
OnAnswer(d) ==
  /\ Up /\ dlg[d] \in {"responded", "early"}
  /\ dlg' = [dlg EXCEPT ![d] = "answered"]
  /\ m_inCall' = TRUE
  /\ UNCHANGED <<mProgress, isUACRejected, isSecondaryUAC, m_isCaller, m_inInBoundAccepted,
                 m_localCandidatesCollected, sessions, ice, draft, appInCall, user, fault>>

\* onFailure(ClientInviteSession): a final error; onTerminated follows.
OnFailure(d) ==
  /\ Up /\ dlg[d] \in {"responded", "early"}
  /\ dlg' = [dlg EXCEPT ![d] = "failed"]
  /\ UNCHANGED <<mProgress, isUACRejected, isSecondaryUAC, flags, sessions, ice, draft, appInCall, user, fault>>

\* onConnected, in its UAC and its UAS form.
OnConnectedSilent(d) ==
  /\ Up /\ dlg[d] \in {"answered", "accepted"}
  /\ dlg' = [dlg EXCEPT ![d] = "connected"]
  /\ UNCHANGED <<mProgress, isUACRejected, isSecondaryUAC, flags, sessions, ice, draft, appInCall, user, fault>>

OnConnected(d) ==
  /\ Up /\ dlg[d] \in {"answered", "accepted"}
  /\ dlg' = [dlg EXCEPT ![d] = "connected"]
  /\ mProgress' = "Connected"
  /\ UNCHANGED <<isUACRejected, isSecondaryUAC, flags, sessions, ice, draft, appInCall, user, fault>>

\* onTerminated, whatever the dialog d: BYE, CANCEL, failure, timeout, or the
\* end of a dialog we ended ourselves.
OnTerminated(d) ==
  /\ Up /\ dlg[d] \in {"early", "failed", "offered", "accepted", "connected", "closing"}
  /\ dlg' = [dlg EXCEPT ![d] = "ended"]
  /\ isSecondaryUAC' = FALSE
  /\ IF isSecondaryUAC
     THEN UNCHANGED <<mProgress, flags, sessions, appInCall>>
     ELSE IF mProgress = "Done"
     THEN /\ m_localCandidatesCollected' = FALSE
          /\ UNCHANGED <<mProgress, m_isCaller, m_inInBoundAccepted, m_inCall, sessions, appInCall>>
     ELSE /\ mProgress' = "Done"
          /\ ReportTerminate
          /\ IF isUACRejected \/ ~m_inCall
             THEN /\ m_localCandidatesCollected' = FALSE
                  /\ UNCHANGED <<m_isCaller, m_inInBoundAccepted, m_inCall, sessions>>
             ELSE ClearCall /\ ForgetSessions
  /\ UNCHANGED <<isUACRejected, ice, draft, user, fault>>

-----------------------------------------------------------------------------
(* Called by DUM: incoming dialogs                                          *)

\* The INVITE of d may reach us now: it was announced, or it is a second call
\* while one is connected, or it comes without a push.
InviteMayArrive(d) ==
  \/ dlg[d] = "announced" /\ ("glare" \in Env \/ ~draft)
  \/ dlg[d] = "free" /\ (("pushless" \in Env /\ MayBegin) \/ mProgress = "Connected")

\* (a refused caller whose onTerminated does not spend isSecondaryUAC)
RejectOtherUnspent(d) ==
  /\ dlg' = [dlg EXCEPT ![d] = "ended"]
  /\ isSecondaryUAC' = TRUE
  /\ UNCHANGED <<mProgress, isUACRejected, flags, sessions, appInCall, refused, fault>>

\* rejectOtherCall, from onNewSession when a call is connected: 486 to the
\* second caller.  isSecondaryUAC, set before it, is spent on the onTerminated
\* that reject(486) calls before it returns, so no other step sees it set; what
\* it holds before the first INVITE is the heap's.
RejectOtherCall(d) ==
  /\ dlg' = [dlg EXCEPT ![d] = "ended"]
  /\ isSecondaryUAC' = FALSE
  /\ UNCHANGED <<mProgress, isUACRejected, flags, sessions, appInCall, refused, fault>>

\* onNewSession(ServerInviteSession).
OnNewServerSession(d) ==
  /\ Up /\ InviteMayArrive(d)
  /\ IF mProgress = "Connected" THEN RejectOtherCall(d)
     ELSE \E valid \in ValidUserAgent :
       LET st == [dlg EXCEPT ![d] = "invited"] IN
       /\ ForgetRejection
       /\ IF valid /\ isUACRejected
          THEN \* reject() finds the new session not connected
               /\ mProgress' = "Done"
               /\ refused' = refused \cup {d}
               /\ EndSessions({d}, st)
               /\ ReportTerminate /\ ClearCall
               /\ m_serverInviteSession' = NoDialog
          ELSE /\ mProgress' = "Ringing" /\ dlg' = st
               /\ isSecondaryUAC' = FALSE
               /\ m_serverInviteSession' = IF valid THEN d ELSE m_serverInviteSession
               /\ UNCHANGED <<flags, appInCall, refused>>
       /\ UNCHANGED <<m_clientInviteSession, fault>>
  /\ UNCHANGED <<ice, draft, rung, consent, declined, hungup>>

\* onOffer: the IncomingCall event and the remote offer go to the
\* application, whose WebRTC layer starts gathering for the answer.
OnOffer(d) ==
  /\ Up /\ dlg[d] = "invited" /\ ice < MaxIce
  /\ dlg' = [dlg EXCEPT ![d] = "offered"]
  /\ rung' = rung \cup {d} /\ appInCall' = TRUE
  /\ ice' = ice + 1
  /\ m_isCaller' = FALSE /\ m_inCall' = TRUE
  /\ UNCHANGED <<mProgress, isUACRejected, isSecondaryUAC, m_inInBoundAccepted,
                 m_localCandidatesCollected, sessions, draft, consent, declined, hungup,
                 refused, fault>>

-----------------------------------------------------------------------------
AppNext ==
  \/ StartOutgoing \/ CreateSession \/ TerminateSession \/ OnIceGatheringFinished
  \/ \E d \in Dialog : AcceptSession(d) \/ Reject(d) \/ PushArrives(d) \/ InviteNeverComes(d)

DumNext ==
  \E d \in Dialog :
    \/ OnNewClientSession(d) \/ OnProvisional(d) \/ OnEarlyMedia(d) \/ OnAnswer(d)
    \/ OnFailure(d) \/ OnConnected(d) \/ OnTerminated(d)
    \/ OnNewServerSession(d) \/ OnOffer(d)

Next == AppNext \/ DumNext

Spec == Init /\ [][Next]_vars

(***************************************************************************)
(* Fairness: DUM answers for its timers (a final response or a stale-call   *)
(* timeout, an ACK or its absence, the end of what was ended), WebRTC for   *)
(* the offer and the delayed ICE callback.  The users and the peers owe     *)
(* nothing: a ringing or connected call may stay so for ever.               *)
(***************************************************************************)
Settles(d) == dlg[d] # "offered" /\ dlg[d] # "connected" /\ OnTerminated(d)

Fairness ==
  /\ WF_vars(CreateSession)
  /\ WF_vars(OnIceGatheringFinished)
  /\ \A d \in Dialog :
       /\ WF_vars(OnNewClientSession(d))
       /\ WF_vars(OnAnswer(d) \/ OnFailure(d) \/ Settles(d))
       /\ WF_vars(OnConnected(d) \/ Settles(d))
       /\ WF_vars(OnOffer(d))

FairSpec == Spec /\ Fairness

-----------------------------------------------------------------------------
(* What the module promises                                                 *)

\* Type invariant: every variable holds a value the code or DUM can give it.
TypeOK ==
  /\ mProgress \in DialProgress
  /\ isUACRejected \in BOOLEAN /\ isSecondaryUAC \in BOOLEAN
  /\ m_isCaller \in BOOLEAN /\ m_inInBoundAccepted \in BOOLEAN
  /\ m_inCall \in BOOLEAN /\ m_localCandidatesCollected \in BOOLEAN
  /\ m_clientInviteSession \in Dialog \cup {NoDialog, Wild}
  /\ m_serverInviteSession \in Dialog \cup {NoDialog, Wild}
  /\ dlg \in [Dialog -> DialogState]
  /\ ice \in 0..MaxIce
  /\ draft \in BOOLEAN /\ appInCall \in BOOLEAN
  /\ rung \subseteq Dialog /\ consent \subseteq Dialog /\ declined \subseteq Dialog
  /\ hungup \subseteq Dialog /\ refused \subseteq Dialog
  /\ fault \in {"none", "null", "dangling", "usage"}

Current == {m_clientInviteSession, m_serverInviteSession}

\* The session pointers never outlive what they point to: networkChange,
\* ringing, terminateSession and sendSdpAnswer use them after a null check at
\* most, while DUM frees the session once it has called onTerminated.
PointersAllocated == \A p \in Current : p # NoDialog => p # Wild /\ dlg[p] \in Allocated

\* Every dialog that can still carry a call is one a later hang-up would reach:
\* overwriting or clearing a pointer never strands a dialog.
LiveDialogsOwned == \A d \in Dialog : dlg[d] \in Engaged => d \in Current

\* When a call is over and nothing of it is pending, no member still holds a
\* value that would change the course of the next call (isUACRejected is meant
\* to outlive a rejection: RejectedByUser is about where it goes).
CleanSlate ==
  mProgress = "Done" /\ Quiet /\ ~draft =>
    /\ m_clientInviteSession = NoDialog /\ m_serverInviteSession = NoDialog
    /\ ~m_isCaller /\ ~m_inInBoundAccepted /\ ~m_localCandidatesCollected

\* isSecondaryUAC makes onTerminated return without a word: it is never set while
\* a call that was shown can end, whether it was set to refuse another caller or
\* came from the heap.
ShownEndHeard == isSecondaryUAC => \A d \in rung : dlg[d] = "ended"

\* An incoming call is answered only when its user called answer() on it:
\* acceptSession and onIceGatheringFinished answer the current session, whatever
\* call that is.
AnsweredByConsent ==
  \A d \in Dialog : dlg[d] \in {"accepted", "connected"} /\ d \in rung => d \in consent

\* The SDK refuses a call (other than as busy) only when its user declined it:
\* isUACRejected, set by reject() for a call to come, is not spent on another.
RejectedByUser == refused \subseteq declined

\* One INVITE per outgoing call, although createSession and every ICE callback
\* may send one.
SingleInvite == Cardinality({d \in Dialog : dlg[d] \in UacSetup \cup {"connected"} /\ d \notin rung}) <= 1

\* mProgress says Connected exactly while the current call is connected;
\* onNewSession relies on it to refuse a second call instead of taking it.
BusyWhenConnected == (\E d \in Current \cap Dialog : dlg[d] = "connected") <=> mProgress = "Connected"

\* Once reject() has reported a call over, onTerminated does not report it
\* again: it finds mProgress Done for as long as isUACRejected stands.
RejectIsFinal == [][(\E d \in Dialog : OnTerminated(d)) /\ isUACRejected => UNCHANGED <<mProgress, appInCall>>]_vars

\* A call the user hung up never connects afterwards, even when the hang-up came
\* before any response told the SDK of its session.
HungUpStaysDown == \A d \in hungup : dlg[d] \notin {"answered", "accepted", "connected"}

\* While the application believes it is in a call, something is still under way
\* that can end or connect it: no call is lost without a TerminateCall event.
CallNotForgotten ==
  appInCall => \/ draft
               \/ \E d \in Dialog : dlg[d] \notin {"free", "ended"}
               \/ m_isCaller /\ mProgress = "Dialing" /\ ice > 0

\* sendSdpAnswer never goes through a null, a freed or a session in no state
\* to be answered.
NoBadAnswer == fault = "none"

\* The answer waits for the ICE candidates or the ICE callback for the answer,
\* never both for each other: a call the user answered and that is not answered
\* yet still has a callback coming.
AnswerRendezvous ==
  \A d \in consent : dlg[d] = "offered" /\ m_serverInviteSession = d => ice > 0

\* The same rendezvous of createSession and the candidates on the offer's side.
OfferRendezvous ==
  m_isCaller /\ mProgress = "Dialing" /\ ~(\E d \in Dialog : dlg[d] \in UacSetup \cup {"failed", "closing"})
    => ice > 0

\* A call the user hung up ends in DUM too: BYE, CANCEL or, before the first
\* response, the end onNewSession makes of it.
HangupEnds == \A d \in Dialog : d \in hungup ~> dlg[d] = "ended"

\* A call the user answered is answered, or over.
ConsentHonoured == \A d \in Dialog : d \in consent ~> dlg[d] \in {"accepted", "connected", "closing", "ended"}

\* Every outgoing call connects or is reported over to the application.
OutcomeReported == draft ~> (~appInCall \/ mProgress = "Connected")
=============================================================================
