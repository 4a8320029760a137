--------------------------- MODULE SipCallDisorder ---------------------------
(***************************************************************************)
(* What of call control survives when calls are not orderly, for any set of*)
(* dialogs.  First: one call at a time, but answered and declined late or  *)
(* twice, with foreign agents and garbage in the members.  Second: ICE     *)
(* callbacks of earlier calls, however many.  Third: one of them at a time. *)
(***************************************************************************)
EXTENDS SipCallOrderly, FiniteSetTheorems

-----------------------------------------------------------------------------
(* One call at a time, whatever the users, the peers and the heap do: calls *)
(* answered and declined late or twice, foreign agents, garbage in the      *)
(* members.  The pointers and flags are then unsound, but the dialogs still *)
(* come one at a time, and the ICE callback still meets the answer.         *)

Sequential == Env \cap {"overlap", "glare", "staleIce", "earlyIce"} = {}

\* Only calls that were shown can have been answered.
RungSound ==
  /\ consent \subseteq rung
  /\ \A d \in rung : dlg[d] \in {"offered", "accepted", "connected", "closing", "ended"}

\* An ICE callback is pending only while nothing but an offered call is there;
\* the candidates it leaves are those of a call, or of one the application
\* believes in.
IcePlaced ==
  /\ ice \in {0, 1}
  /\ draft => Quiet /\ ice = 1
  /\ ice = 1 => \A d \in Dialog : Active(d) => dlg[d] = "offered"
  /\ m_localCandidatesCollected =>
       /\ ice = 0
       /\ \A d \in Dialog : dlg[d] \notin {"announced", "invited"}
       /\ Up => ~Quiet \/ appInCall

\* Nobody is called while a call rings, and a callback that would leave candidates
\* with no dialog there sends an INVITE or fails, or the application has a call.
IceAwaited ==
  /\ \A d \in Dialog : dlg[d] = "offered" => ~m_isCaller
  /\ ice = 1 /\ Quiet /\ ~draft /\ mProgress # "Done" => appInCall \/ m_inInBoundAccepted \/ m_isCaller

\* A random isSecondaryUAC does not outlive the first incoming call, and until
\* then the application knows of the call the candidates are for.
SecondaryUnset ==
  isSecondaryUAC =>
    /\ rung = {}
    /\ \A d \in Dialog : dlg[d] \notin {"invited", "offered", "accepted"}
    /\ m_localCandidatesCollected \/ draft \/ (ice = 1 /\ mProgress # "Done") => appInCall

\* The current call that rings waits for its candidates, or has them and waits
\* for its user.
RingingCurrent ==
  LET s == m_serverInviteSession IN
  s \in Dialog =>
    /\ dlg[s] \in {"invited", "offered"} => mProgress # "Done"
    /\ dlg[s] = "offered" => /\ ice = 1 \/ (m_localCandidatesCollected /\ s \notin consent)
                             /\ s \in consent => m_inInBoundAccepted

HostileInv == /\ TypeOK /\ OneDialog /\ RungSound /\ IcePlaced /\ IceAwaited
              /\ SecondaryUnset /\ RingingCurrent

\* What EndSessions does, whatever isSecondaryUAC is.
LEMMA EndedHow ==
  ASSUME NEW S, NEW st \in [Dialog -> DialogState], EndSessions(S, st)
  PROVE  /\ isSecondaryUAC' => isSecondaryUAC
         /\ \A e \in Dialog : \/ dlg'[e] = st[e] /\ (e \in S => st[e] \notin Engaged)
                              \/ dlg'[e] = "ended" /\ st[e] \in Engaged
                              \/ dlg'[e] = "closing" /\ st[e] \in {"responded", "early", "accepted"}
BY DEF EndSessions, Engaged

\* A teardown, of whatever sessions, keeps the invariant.
LEMMA TornDownHostile ==
  ASSUME HostileInv, TypeOK', ~draft \/ ~isSecondaryUAC, mProgress' = "Done", ClearCall,
         m_serverInviteSession' \notin Dialog, isSecondaryUAC' => isSecondaryUAC,
         UNCHANGED <<ice, draft, rung, consent>>,
         \A e \in Dialog : \/ dlg'[e] = dlg[e]
                           \/ Active(e) /\ dlg'[e] = "ended"
                           \/ dlg[e] \in {"inviting", "responded", "early", "accepted"} /\ dlg'[e] = "closing"
  PROVE  HostileInv'
<1> USE DEF HostileInv, ClearCall
<1>1. OneDialog'
  BY DEF OneDialog, Active
<1>2. RungSound'
  BY DEF RungSound, TypeOK
<1>3. IcePlaced'
  BY DEF IcePlaced, Active, Quiet
<1>4. IceAwaited'
  BY DEF IceAwaited
<1>5. SecondaryUnset'
  BY DEF SecondaryUnset, Quiet
<1>6. RingingCurrent'
  BY DEF RingingCurrent
<1> QED BY <1>1, <1>2, <1>3, <1>4, <1>5, <1>6

LEMMA InitHostile == Init => HostileInv
<1> SUFFICES ASSUME Init PROVE HostileInv
  OBVIOUS
<1>1. TypeOK
  BY InitType
<1>2. \A d \in Dialog : dlg[d] = "free"
  BY DEF Init
<1>3. m_serverInviteSession \notin Dialog
  BY DialogAssumption DEF Init
<1> QED BY <1>1, <1>2, <1>3 DEF Init, HostileInv, OneDialog, Active, RungSound, IcePlaced, IceAwaited,
                                SecondaryUnset, RingingCurrent

\* A call begins when nothing of an earlier one is left.
LEMMA BeginsAlone ==
  ASSUME Sequential, HostileInv, MayBegin, Up
  PROVE  Quiet /\ ice = 0 /\ ~appInCall /\ ~draft /\ ~m_localCandidatesCollected
<1>1. Quiet /\ ice = 0 /\ ~appInCall /\ ~draft
  BY DEF Sequential, MayBegin
<1> QED BY <1>1 DEF HostileInv, IcePlaced

LEMMA StartOutgoingHostile ==
  ASSUME Sequential, HostileInv, TypeOK', StartOutgoing
  PROVE  HostileInv'
<1>1. Quiet /\ ice = 0 /\ ~m_localCandidatesCollected /\ ~draft
  BY BeginsAlone DEF StartOutgoing
<1>2. /\ draft' /\ ice' = 1 /\ appInCall'
      /\ UNCHANGED <<mProgress, isUACRejected, isSecondaryUAC, flags, sessions, dlg, user, fault>>
  BY <1>1 DEF StartOutgoing, TypeOK
<1> QED BY <1>1, <1>2 DEF HostileInv, OneDialog, Active, RungSound, IcePlaced, IceAwaited,
               SecondaryUnset, RingingCurrent, Quiet, flags, sessions, user

LEMMA CreateSessionHostile ==
  ASSUME Sequential, HostileInv, TypeOK', CreateSession
  PROVE  HostileInv'
<1>1. Quiet /\ ice = 1 /\ ~m_localCandidatesCollected
  BY DEF CreateSession, HostileInv, IcePlaced
<1>2. /\ dlg' = dlg /\ ~draft' /\ mProgress' = "Dialing" /\ m_isCaller'
      /\ UNCHANGED <<isSecondaryUAC, m_inInBoundAccepted, m_localCandidatesCollected,
                     sessions, ice, appInCall, user, fault>>
  BY <1>1 DEF CreateSession
<1> QED BY <1>1, <1>2 DEF HostileInv, OneDialog, Active, RungSound, IcePlaced, IceAwaited, CreateSession,
               SecondaryUnset, RingingCurrent, Quiet, sessions, user

LEMMA AcceptSessionHostile ==
  ASSUME Sequential, HostileInv, TypeOK', NEW d \in Dialog, AcceptSession(d)
  PROVE  HostileInv'
<1> DEFINE s == m_serverInviteSession
<1>1. /\ d \in rung /\ consent' = consent \cup {d} /\ m_inInBoundAccepted' /\ mProgress' = "Ringing"
      /\ UNCHANGED <<isSecondaryUAC, m_isCaller, m_localCandidatesCollected, sessions, ice, draft,
                     appInCall, rung>>
      /\ ~isSecondaryUAC
  BY DEF AcceptSession, MayAnswer, HostileInv, SecondaryUnset
<1> USE DEF HostileInv, sessions
<1>2. CASE m_localCandidatesCollected /\ s \in Dialog /\ dlg[s] = "offered"
  <2>1. PICK e \in Dialog : e = s
    BY <1>2
  <2>2. dlg' = [dlg EXCEPT ![e] = "accepted"] /\ fault' = fault /\ ice = 0 /\ Active(e)
    BY <1>2, <2>1 DEF AcceptSession, SendSdpAnswer, IcePlaced, Active
  <2>3. dlg'[e] = "accepted" /\ \A f \in Dialog : f # e => dlg'[f] = dlg[f] /\ dlg[f] \in {"free", "ended"}
    BY <2>2, OneMoves DEF DialogState
  <2> QED BY <1>1, <1>2, <2>1, <2>2, <2>3 DEF OneDialog, Active, RungSound, IcePlaced, IceAwaited,
               SecondaryUnset, RingingCurrent, Quiet, TypeOK, Up
<1>3. CASE m_localCandidatesCollected /\ ~(s \in Dialog /\ dlg[s] = "offered")
  <2>1. dlg' = dlg /\ fault' # "none"
    BY <1>3 DEF AcceptSession, SendSdpAnswer
  <2> QED BY <1>1, <1>3, <2>1 DEF OneDialog, Active, RungSound, IcePlaced, IceAwaited,
               SecondaryUnset, RingingCurrent, Quiet, Up
<1>4. CASE ~m_localCandidatesCollected
  <2>1. dlg' = dlg /\ fault' = fault
    BY <1>4 DEF AcceptSession
  <2> QED BY <1>1, <1>4, <2>1 DEF OneDialog, Active, RungSound, IcePlaced, IceAwaited,
               SecondaryUnset, RingingCurrent, Quiet, Up
<1> QED BY <1>2, <1>3, <1>4

LEMMA TerminateHostile ==
  ASSUME Sequential, HostileInv, TypeOK', TerminateSession
  PROVE  HostileInv'
<1>1. CASE mProgress = "Done"
  BY <1>1 DEF TerminateSession, HostileInv, OneDialog, Active, RungSound, IcePlaced, IceAwaited,
              SecondaryUnset, RingingCurrent, Quiet, Up, sessions
<1>2. CASE mProgress # "Done"
  <2>1. TearDown(m_clientInviteSession, m_serverInviteSession, dlg)
    BY <1>2 DEF TerminateSession
  <2>2. EndSessions({m_clientInviteSession, m_serverInviteSession}, dlg)
    BY <2>1 DEF TearDown
  <2>3. /\ isSecondaryUAC' => isSecondaryUAC
        /\ \A e \in Dialog : \/ dlg'[e] = dlg[e]
                             \/ Active(e) /\ dlg'[e] = "ended"
                             \/ dlg[e] \in {"inviting", "responded", "early", "accepted"} /\ dlg'[e] = "closing"
    BY <2>2, EndedHow DEF HostileInv, TypeOK, Active, Engaged
  <2>4. m_serverInviteSession' \notin Dialog /\ mProgress' = "Done" /\ ClearCall
    BY <2>1, DialogAssumption DEF TearDown, ForgetSessions
  <2>5. ~draft /\ UNCHANGED <<ice, draft, rung, consent>>
    BY DEF TerminateSession
  <2> QED BY <2>3, <2>4, <2>5, TornDownHostile
<1> QED BY <1>1, <1>2

LEMMA RejectHostile ==
  ASSUME Sequential, HostileInv, TypeOK', NEW d \in Dialog, Reject(d)
  PROVE  HostileInv'
<1>1. /\ UNCHANGED <<ice, draft, rung, consent, hungup>>
      /\ dlg[d] = "announced" \/ d \in rung
  BY DEF Reject
<1>2. ~draft \/ ~isSecondaryUAC
  BY <1>1 DEF HostileInv, SecondaryUnset, IcePlaced, Quiet
<1>3. CASE mProgress = "Done" /\ isUACRejected
  <2>1. UNCHANGED <<mProgress, isUACRejected, isSecondaryUAC, flags, sessions, dlg, appInCall, fault>>
    BY <1>3 DEF Reject
  <2> QED BY <1>1, <2>1 DEF HostileInv, OneDialog, Active, RungSound, IcePlaced, IceAwaited,
              SecondaryUnset, RingingCurrent, Quiet, Up, sessions, flags
<1>4. CASE ~(mProgress = "Done" /\ isUACRejected)
  <2> DEFINE s == m_serverInviteSession
  <2>1. RejectSession(s, dlg, mProgress)
    BY <1>4 DEF Reject
  <2>2. CASE s = NoDialog
    <3>1. mProgress' = "Done" /\ ClearCall /\ UNCHANGED <<dlg, isSecondaryUAC, sessions>>
      BY <2>1, <2>2 DEF RejectSession
    <3>2. m_serverInviteSession' \notin Dialog
      BY <2>2, <3>1, DialogAssumption DEF sessions
    <3> QED BY <1>1, <1>2, <3>1, <3>2, TornDownHostile
  <2>3. CASE s # NoDialog /\ ~Dangling(s, dlg) /\ dlg[s] = "connected" /\ mProgress = "Done"
    <3>1. s \in Dialog
      BY <2>3 DEF Dangling, HostileInv, TypeOK
    <3>2. /\ ClearCall /\ UNCHANGED <<dlg, mProgress, isSecondaryUAC, sessions, appInCall, fault>>
          /\ Active(s)
      BY <2>1, <2>3 DEF RejectSession, Active
    <3> QED BY <1>1, <1>2, <2>3, <3>1, <3>2 DEF HostileInv, OneDialog, Active, RungSound, IcePlaced, IceAwaited,
              SecondaryUnset, RingingCurrent, Quiet, Up, sessions, ClearCall
  <2>4. CASE s # NoDialog /\ ~(~Dangling(s, dlg) /\ dlg[s] = "connected" /\ mProgress = "Done")
    <3>1. /\ mProgress' = "Done" /\ ClearCall /\ m_serverInviteSession' = NoDialog
          /\ EndSessions({s}, dlg) \/ EndSessions({m_clientInviteSession, s}, dlg)
      BY <2>1, <2>4 DEF RejectSession, TearDown, ForgetSessions
    <3>2. /\ isSecondaryUAC' => isSecondaryUAC
          /\ \A e \in Dialog : \/ dlg'[e] = dlg[e]
                               \/ Active(e) /\ dlg'[e] = "ended"
                               \/ dlg[e] \in {"inviting", "responded", "early", "accepted"} /\ dlg'[e] = "closing"
      BY <3>1, EndedHow DEF HostileInv, TypeOK, Active, Engaged
    <3>3. m_serverInviteSession' \notin Dialog
      BY <3>1, DialogAssumption
    <3> QED BY <1>1, <1>2, <3>1, <3>2, <3>3, TornDownHostile
  <2> QED BY <2>2, <2>3, <2>4
<1> QED BY <1>3, <1>4

LEMMA PushHostile ==
  ASSUME Sequential, HostileInv, TypeOK', NEW d \in Dialog, PushArrives(d) \/ InviteNeverComes(d)
  PROVE  HostileInv'
<1>1. CASE PushArrives(d)
  <2>1. Quiet /\ ice = 0 /\ ~m_localCandidatesCollected /\ ~draft
    BY <1>1, BeginsAlone DEF PushArrives
  <2>2. dlg'[d] = "announced" /\ \A e \in Dialog : e # d => dlg'[e] = dlg[e] /\ dlg[e] \in {"free", "ended"}
    BY <1>1, <2>1, QuietMoves DEF PushArrives, HostileInv, DialogState
  <2> QED BY <1>1, <2>1, <2>2 DEF PushArrives, HostileInv, OneDialog, Active, RungSound, IcePlaced,
              IceAwaited, SecondaryUnset, RingingCurrent, Quiet, Up, sessions, flags, user, TypeOK
<1>2. CASE InviteNeverComes(d)
  <2>1. Active(d) /\ ice = 0 /\ ~draft /\ ~m_localCandidatesCollected
    BY <1>2 DEF InviteNeverComes, HostileInv, IcePlaced, Active, Quiet
  <2>2. dlg'[d] = "ended" /\ \A e \in Dialog : e # d => dlg'[e] = dlg[e] /\ dlg[e] \in {"free", "ended"}
    BY <1>2, <2>1, OneMoves DEF InviteNeverComes, HostileInv, DialogState
  <2> QED BY <1>2, <2>1, <2>2 DEF InviteNeverComes, HostileInv, OneDialog, Active, RungSound, IcePlaced,
              IceAwaited, SecondaryUnset, RingingCurrent, Quiet, Up, sessions, flags, user, TypeOK
<1> QED BY <1>1, <1>2

\* The ICE callback sends the INVITE when no dialog is there, or answers the
\* current call, or fails; it never calls while a call rings.
LEMMA OnIceHostile ==
  ASSUME Sequential, HostileInv, TypeOK', OnIceGatheringFinished
  PROVE  HostileInv'
<1> DEFINE s == m_serverInviteSession
<1>1. /\ ~draft /\ ice = 1 /\ ice' = 0 /\ ~m_localCandidatesCollected
      /\ UNCHANGED <<mProgress, isUACRejected, isSecondaryUAC, m_isCaller, m_inInBoundAccepted, sessions,
                     draft, appInCall, user>>
  BY DEF OnIceGatheringFinished, Sequential, HostileInv, IcePlaced
<1> USE DEF HostileInv
<1>2. CASE mProgress = "Done"
  <2>1. UNCHANGED <<dlg, fault, m_localCandidatesCollected, m_inCall>>
    BY <1>2 DEF OnIceGatheringFinished
  <2> QED BY <1>1, <1>2, <2>1 DEF OneDialog, Active, RungSound, IcePlaced, IceAwaited,
              SecondaryUnset, RingingCurrent, Quiet, Up, sessions, user
<1>3. CASE mProgress # "Done" /\ m_isCaller
  <2>1. Quiet
    BY <1>1, <1>3 DEF IcePlaced, IceAwaited, Quiet, Active
  <2>2. PICK d \in Dialog : dlg[d] = "free" /\ dlg' = [dlg EXCEPT ![d] = "inviting"]
    BY <1>3 DEF OnIceGatheringFinished, SendSdpOffer
  <2>3. dlg'[d] = "inviting" /\ \A e \in Dialog : e # d => dlg'[e] = dlg[e] /\ dlg[e] \in {"free", "ended"}
    BY <2>1, <2>2, QuietMoves DEF DialogState
  <2>4. m_localCandidatesCollected'
    BY <1>3 DEF OnIceGatheringFinished, CandidatesCollected
  <2> QED BY <1>1, <1>3, <2>1, <2>2, <2>3, <2>4 DEF OneDialog, Active, RungSound, IcePlaced, IceAwaited,
              SecondaryUnset, RingingCurrent, Quiet, Up, sessions, user, TypeOK
<1>4. CASE mProgress # "Done" /\ ~m_isCaller /\ ~m_inInBoundAccepted
  <2>1. UNCHANGED <<dlg, fault>> /\ m_localCandidatesCollected'
    BY <1>4 DEF OnIceGatheringFinished, CandidatesCollected
  <2> QED BY <1>1, <1>4, <2>1 DEF OneDialog, Active, RungSound, IcePlaced, IceAwaited,
              SecondaryUnset, RingingCurrent, Quiet, Up, sessions, user
<1>5. CASE mProgress # "Done" /\ ~m_isCaller /\ m_inInBoundAccepted
  <2>1. SendSdpAnswer /\ m_localCandidatesCollected'
    BY <1>5 DEF OnIceGatheringFinished, CandidatesCollected
  <2>2. CASE s \in Dialog /\ dlg[s] = "offered"
    <3>1. PICK d \in Dialog : d = s
      BY <2>2
    <3>2. dlg' = [dlg EXCEPT ![d] = "accepted"] /\ Active(d)
      BY <2>1, <2>2, <3>1 DEF SendSdpAnswer, Active
    <3>3. dlg'[d] = "accepted" /\ \A e \in Dialog : e # d => dlg'[e] = dlg[e] /\ dlg[e] \in {"free", "ended"}
      BY <3>2, OneMoves DEF DialogState
    <3> QED BY <1>1, <1>5, <2>1, <2>2, <3>1, <3>2, <3>3 DEF OneDialog, Active, RungSound, IcePlaced,
                IceAwaited, SecondaryUnset, RingingCurrent, Quiet, Up, sessions, user
  <2>3. CASE ~(s \in Dialog /\ dlg[s] = "offered")
    <3>1. dlg' = dlg /\ fault' # "none"
      BY <2>1, <2>3 DEF SendSdpAnswer
    <3> QED BY <1>1, <1>5, <2>1, <2>3, <3>1 DEF OneDialog, Active, RungSound, IcePlaced, IceAwaited,
                SecondaryUnset, RingingCurrent, Quiet, Up, sessions, user
  <2> QED BY <2>2, <2>3
<1> QED BY <1>2, <1>3, <1>4, <1>5

-----------------------------------------------------------------------------
(* DUM's handlers in that environment                                       *)

LEMMA OnNewClientSessionHostile ==
  ASSUME Sequential, HostileInv, TypeOK', NEW d \in Dialog, OnNewClientSession(d)
  PROVE  HostileInv'
<1> DEFINE st == [dlg EXCEPT ![d] = "responded"]
<1>1. /\ dlg[d] = "inviting" /\ Active(d) /\ ~draft /\ ice = 0
      /\ UNCHANGED <<ice, draft, rung, consent>>
  BY DEF OnNewClientSession, Active, HostileInv, IcePlaced, Quiet, user
<1>2. \A e \in Dialog : e # d => dlg[e] \in {"free", "ended"}
  BY <1>1 DEF HostileInv, OneDialog, Active, TypeOK
<1>3. st \in [Dialog -> DialogState] /\ st[d] = "responded" /\ \A e \in Dialog : e # d => st[e] = dlg[e]
  BY DEF HostileInv, TypeOK, DialogState
<1>4. PICK valid \in BOOLEAN :
        LET cs == IF valid THEN d ELSE m_clientInviteSession
        IN IF mProgress = "Done"
           THEN TearDown(cs, m_serverInviteSession, st)
           ELSE /\ mProgress' = "Dialing" /\ dlg' = st
                /\ UNCHANGED <<isSecondaryUAC, flags, m_serverInviteSession, appInCall, fault>>
  BY DEF OnNewClientSession, ValidUserAgent
<1> HIDE DEF st
<1>5. CASE mProgress = "Done"
  <2>1. \E cs : TearDown(cs, m_serverInviteSession, st)
    BY <1>4, <1>5
  <2>2. /\ mProgress' = "Done" /\ ClearCall /\ m_serverInviteSession' \notin Dialog
        /\ \E S : EndSessions(S, st)
    BY <2>1, DialogAssumption DEF TearDown, ForgetSessions
  <2>3. /\ isSecondaryUAC' => isSecondaryUAC
        /\ \A e \in Dialog : \/ dlg'[e] = st[e]
                             \/ st[e] \in Engaged /\ dlg'[e] = "ended"
                             \/ st[e] \in {"responded", "early", "accepted"} /\ dlg'[e] = "closing"
    BY <1>3, <2>2, EndedHow
  <2>4. dlg'[d] \in {"responded", "ended", "closing"} /\ \A e \in Dialog : e # d => dlg'[e] = dlg[e]
    BY <1>2, <1>3, <2>3 DEF Engaged
  <2> QED BY <1>1, <1>2, <2>2, <2>3, <2>4 DEF HostileInv, OneDialog, Active, RungSound, IcePlaced, IceAwaited,
              SecondaryUnset, RingingCurrent, Quiet, ClearCall, TypeOK
<1>6. CASE mProgress # "Done"
  <2>1. /\ mProgress' = "Dialing" /\ dlg' = st
        /\ UNCHANGED <<isSecondaryUAC, flags, m_serverInviteSession, appInCall, fault>>
    BY <1>4, <1>6
  <2> QED BY <1>1, <1>2, <1>3, <2>1 DEF HostileInv, OneDialog, Active, RungSound, IcePlaced, IceAwaited,
              SecondaryUnset, RingingCurrent, Quiet, Up, flags, TypeOK
<1> QED BY <1>5, <1>6

LEMMA ProgressHostile ==
  ASSUME Sequential, HostileInv, TypeOK', NEW d \in Dialog,
         OnProvisional(d) \/ OnAnswer(d) \/ OnFailure(d) \/ OnConnected(d)
  PROVE  HostileInv'
<1>1. PICK x \in {"early", "answered", "failed", "connected"} : dlg' = [dlg EXCEPT ![d] = x]
  BY DEF OnProvisional, OnAnswer, OnFailure, OnConnected
<1>2. /\ dlg[d] \in {"responded", "early"} \/ (x = "connected" /\ dlg[d] \in {"answered", "accepted"})
      /\ mProgress' # "Done" \/ mProgress' = mProgress
      /\ UNCHANGED <<isSecondaryUAC, m_isCaller, m_inInBoundAccepted, m_localCandidatesCollected,
                     sessions, ice, draft, appInCall, user, fault>>
  BY <1>1 DEF OnProvisional, OnAnswer, OnFailure, OnConnected, HostileInv, TypeOK, flags
<1>3. Active(d) /\ ice = 0 /\ ~draft
  BY <1>2 DEF Active, HostileInv, IcePlaced, Quiet
<1>4. dlg'[d] = x /\ \A e \in Dialog : e # d => dlg'[e] = dlg[e] /\ dlg[e] \in {"free", "ended"}
  BY <1>1, <1>3, OneMoves DEF HostileInv, DialogState
<1> QED BY <1>2, <1>3, <1>4 DEF HostileInv, OneDialog, Active, RungSound, IcePlaced, IceAwaited,
              SecondaryUnset, RingingCurrent, Quiet, Up, sessions, user, TypeOK

\* The only call is over: what is left of it is what the application knows of.
LEMMA OnTerminatedHostile ==
  ASSUME Sequential, HostileInv, TypeOK', NEW d \in Dialog, OnTerminated(d)
  PROVE  HostileInv'
<1>1. /\ dlg[d] \in {"early", "failed", "offered", "accepted", "connected", "closing"}
      /\ dlg' = [dlg EXCEPT ![d] = "ended"] /\ ~isSecondaryUAC'
      /\ UNCHANGED <<ice, draft, user, fault>>
  BY DEF OnTerminated
<1>2. Active(d) /\ ~draft
  BY <1>1 DEF Active, HostileInv, IcePlaced, Quiet
<1>3. dlg'[d] = "ended" /\ \A e \in Dialog : e # d => dlg'[e] = dlg[e] /\ dlg[e] \in {"free", "ended"}
  BY <1>1, <1>2, OneMoves DEF HostileInv, DialogState
<1>4. m_localCandidatesCollected' => m_localCandidatesCollected /\ appInCall'
  BY DEF OnTerminated, ClearCall, flags, HostileInv, SecondaryUnset
<1>5. mProgress' # "Done" => \/ isSecondaryUAC /\ UNCHANGED <<mProgress, flags, appInCall>>
  BY DEF OnTerminated
<1>6. ice = 1 /\ mProgress' # "Done" => appInCall'
  BY <1>5 DEF HostileInv, SecondaryUnset
<1> QED BY <1>1, <1>2, <1>3, <1>4, <1>6 DEF HostileInv, OneDialog, Active, RungSound, IcePlaced, IceAwaited,
              SecondaryUnset, RingingCurrent, Quiet, Up, user, TypeOK

\* An INVITE is refused as busy, refused for the user, or becomes the only call.
LEMMA OnNewServerSessionHostile ==
  ASSUME Sequential, HostileInv, TypeOK', NEW d \in Dialog, OnNewServerSession(d)
  PROVE  HostileInv'
<1>1. /\ dlg[d] \in {"free", "announced"} /\ Up
      /\ UNCHANGED <<ice, draft, rung, consent, fault, m_clientInviteSession>>
      /\ d \notin rung
  BY DEF OnNewServerSession, InviteMayArrive, RejectOtherCall, HostileInv, RungSound, sessions
<1>2. CASE mProgress = "Connected"
  <2>1. /\ dlg' = [dlg EXCEPT ![d] = "ended"] /\ ~isSecondaryUAC'
        /\ UNCHANGED <<mProgress, flags, m_serverInviteSession, appInCall>>
    BY <1>2 DEF OnNewServerSession, RejectOtherCall, sessions
  <2>2. dlg'[d] = "ended" /\ \A e \in Dialog : e # d => dlg'[e] = dlg[e]
    BY <2>1, <1>1 DEF HostileInv, TypeOK
  <2>3. dlg[d] = "announced" => ice = 0 /\ ~draft /\ ~m_localCandidatesCollected
    BY DEF HostileInv, IcePlaced, Active, Quiet
  <2>4. Quiet' => Quiet \/ dlg[d] = "announced"
    BY <1>1, <2>2 DEF Quiet
  <2>5. Quiet => Quiet'
    BY <2>2 DEF Quiet
  <2> QED BY <1>1, <2>1, <2>2, <2>3, <2>4, <2>5 DEF HostileInv, OneDialog, Active, RungSound, IcePlaced,
                IceAwaited, SecondaryUnset, RingingCurrent, Up, flags
<1>3. CASE mProgress # "Connected"
  <2>1. ice = 0 /\ ~draft /\ ~m_localCandidatesCollected
    <3>1. CASE dlg[d] = "announced"
      BY <3>1 DEF HostileInv, IcePlaced, Active, Quiet
    <3>2. CASE MayBegin
      BY <1>1, <3>2, BeginsAlone
    <3> QED BY <1>3, <3>1, <3>2 DEF OnNewServerSession, InviteMayArrive
  <2>2. \A e \in Dialog : e # d => dlg[e] \in {"free", "ended"}
    <3>1. CASE dlg[d] = "announced"
      BY <3>1 DEF HostileInv, OneDialog, Active
    <3>2. CASE MayBegin
      BY <1>1, <3>2, BeginsAlone DEF Quiet
    <3> QED BY <1>3, <3>1, <3>2 DEF OnNewServerSession, InviteMayArrive
  <2> DEFINE st == [dlg EXCEPT ![d] = "invited"]
  <2>3. st \in [Dialog -> DialogState] /\ st[d] = "invited" /\ \A e \in Dialog : e # d => st[e] = dlg[e]
    BY DEF HostileInv, TypeOK, DialogState
  <2>4. \/ /\ mProgress' = "Done" /\ EndSessions({d}, st) /\ ClearCall
           /\ m_serverInviteSession' = NoDialog
        \/ /\ mProgress' = "Ringing" /\ dlg' = st /\ ~isSecondaryUAC'
           /\ m_serverInviteSession' \in {d, m_serverInviteSession}
           /\ UNCHANGED <<flags, appInCall>>
    BY <1>3 DEF OnNewServerSession
  <2> HIDE DEF st
  <2>5. CASE mProgress' = "Done" /\ EndSessions({d}, st) /\ ClearCall /\ m_serverInviteSession' = NoDialog
    <3>1. /\ \A e \in Dialog : \/ dlg'[e] = st[e] /\ (e = d => st[e] \notin Engaged)
                               \/ st[e] \in Engaged /\ dlg'[e] = "ended"
                               \/ st[e] \in {"responded", "early", "accepted"} /\ dlg'[e] = "closing"
      BY <2>3, <2>5, EndedHow
    <3>2. dlg'[d] = "ended" /\ \A e \in Dialog : e # d => dlg'[e] = dlg[e]
      BY <2>2, <2>3, <3>1 DEF Engaged
    <3>3. ~isSecondaryUAC'
      BY <2>3, <2>5 DEF EndSessions, Engaged
    <3>4. m_serverInviteSession' \notin Dialog
      BY <2>5, DialogAssumption
    <3>5. OneDialog' /\ RungSound'
      BY <1>1, <2>2, <3>2 DEF HostileInv, OneDialog, Active, RungSound, TypeOK
    <3>6. IcePlaced' /\ IceAwaited'
      BY <1>1, <2>1, <2>5, <3>2 DEF IcePlaced, IceAwaited, ClearCall
    <3>7. SecondaryUnset' /\ RingingCurrent'
      BY <3>3, <3>4 DEF SecondaryUnset, RingingCurrent
    <3> QED BY <3>5, <3>6, <3>7 DEF HostileInv
  <2>6. CASE /\ mProgress' = "Ringing" /\ dlg' = st /\ ~isSecondaryUAC'
             /\ m_serverInviteSession' \in {d, m_serverInviteSession}
             /\ UNCHANGED <<flags, appInCall>>
    <3>1. dlg'[d] = "invited" /\ \A e \in Dialog : e # d => dlg'[e] = dlg[e]
      BY <2>3, <2>6
    <3>2. OneDialog' /\ RungSound'
      BY <1>1, <2>2, <3>1 DEF HostileInv, OneDialog, Active, RungSound, TypeOK
    <3>3. IcePlaced' /\ IceAwaited'
      BY <1>1, <2>1, <2>2, <2>6, <3>1 DEF IcePlaced, IceAwaited, flags
    <3>4. SecondaryUnset'
      BY <2>6 DEF SecondaryUnset
    <3>5. RingingCurrent'
      BY <2>2, <2>6, <3>1 DEF RingingCurrent
    <3> QED BY <3>2, <3>3, <3>4, <3>5 DEF HostileInv
  <2> QED BY <2>4, <2>5, <2>6
<1> QED BY <1>2, <1>3

LEMMA OnOfferHostile ==
  ASSUME Sequential, HostileInv, TypeOK', NEW d \in Dialog, OnOffer(d)
  PROVE  HostileInv'
<1>1. /\ dlg[d] = "invited" /\ dlg' = [dlg EXCEPT ![d] = "offered"] /\ Active(d)
      /\ rung' = rung \cup {d} /\ appInCall' /\ ~m_isCaller'
      /\ UNCHANGED <<mProgress, isSecondaryUAC, m_inInBoundAccepted, m_localCandidatesCollected,
                     sessions, draft, consent, fault>>
  BY DEF OnOffer, Active
<1>2. /\ ice = 0 /\ ~draft /\ ~m_localCandidatesCollected /\ ~isSecondaryUAC
      /\ d \notin rung /\ d \notin consent
  BY <1>1 DEF HostileInv, IcePlaced, SecondaryUnset, RungSound, Quiet
<1>3. ice' = 1
  BY <1>2 DEF OnOffer
<1>4. dlg'[d] = "offered" /\ \A e \in Dialog : e # d => dlg'[e] = dlg[e] /\ dlg[e] \in {"free", "ended"}
  BY <1>1, OneMoves DEF HostileInv, DialogState
<1>5. m_serverInviteSession = d => mProgress # "Done"
  BY <1>1 DEF HostileInv, RingingCurrent
<1> QED BY <1>1, <1>2, <1>3, <1>4, <1>5 DEF HostileInv, OneDialog, Active, RungSound, IcePlaced, IceAwaited,
              SecondaryUnset, RingingCurrent, Quiet, sessions

LEMMA HostileStep ==
  ASSUME Sequential, HostileInv, [Next]_vars
  PROVE  HostileInv'
<1>1. TypeOK'
  BY TypeStep DEF HostileInv
<1>2. CASE StartOutgoing \/ CreateSession \/ TerminateSession \/ OnIceGatheringFinished
  BY <1>1, <1>2, StartOutgoingHostile, CreateSessionHostile, TerminateHostile, OnIceHostile
<1>3. CASE \E d \in Dialog : AcceptSession(d) \/ Reject(d) \/ PushArrives(d) \/ InviteNeverComes(d)
  BY <1>1, <1>3, AcceptSessionHostile, RejectHostile, PushHostile
<1>4. CASE \E d \in Dialog : \/ OnNewClientSession(d) \/ OnProvisional(d) \/ OnEarlyMedia(d)
                             \/ OnAnswer(d) \/ OnFailure(d) \/ OnConnected(d)
  BY <1>1, <1>4, OnNewClientSessionHostile, ProgressHostile DEF OnEarlyMedia
<1>5. CASE \E d \in Dialog : OnTerminated(d) \/ OnNewServerSession(d) \/ OnOffer(d)
  BY <1>1, <1>5, OnTerminatedHostile, OnNewServerSessionHostile, OnOfferHostile
<1>6. CASE UNCHANGED vars
  BY <1>6 DEF vars, flags, sessions, user, HostileInv, TypeOK, OneDialog, Active, RungSound, IcePlaced,
              IceAwaited, SecondaryUnset, RingingCurrent, Quiet, Up
<1> QED BY <1>2, <1>3, <1>4, <1>5, <1>6 DEF Next, AppNext, DumNext

\* One call at a time is all the invariant asks for: answers given late or twice,
\* foreign agents and garbage members leave it standing.
THEOREM HostileCorrect ==
  ASSUME Sequential
  PROVE  Spec => []HostileInv
<1>1. HostileInv /\ [Next]_vars => HostileInv'
  BY HostileStep
<1> QED BY InitHostile, <1>1, PTL DEF Spec

\* One INVITE per outgoing call, whatever else goes wrong: the ICE callback of
\* onIceGatheringFinished never calls while another dialog is there.
THEOREM InvitesAreSingle ==
  ASSUME Sequential
  PROVE  Spec => []SingleInvite
<1>1. OneDialog => SingleInvite
  <2> DEFINE out == {d \in Dialog : dlg[d] \in UacSetup \cup {"connected"} /\ d \notin rung}
  <2> SUFFICES ASSUME OneDialog PROVE Cardinality(out) <= 1
    BY DEF SingleInvite
  <2>1. CASE out = {}
    BY <2>1, FS_EmptySet
  <2>2. CASE out # {}
    <3>1. PICK d \in Dialog : d \in out
      BY <2>2
    <3>2. out = {d}
      BY <3>1 DEF OneDialog, Active, UacSetup
    <3>3. Cardinality({d}) = 1
      BY FS_Singleton
    <3> HIDE DEF out
    <3> QED BY <3>2, <3>3
  <2> QED BY <2>1, <2>2
<1>2. HostileInv => OneDialog
  BY DEF HostileInv
<1> QED BY <1>1, <1>2, HostileCorrect, PTL

\* A call the user answered still has its ICE callback coming, also when it was
\* answered twice, or when another answer() came first.
THEOREM AnswersMeetCandidates ==
  ASSUME Sequential
  PROVE  Spec => []AnswerRendezvous
<1>1. HostileInv => AnswerRendezvous
  BY DEF HostileInv, RingingCurrent, AnswerRendezvous, RungSound, TypeOK
<1> QED BY <1>1, HostileCorrect, PTL

\* The onTerminated of a call that was shown never takes the return of a caller
\* refused as busy, not even when isSecondaryUAC began with a value of the heap's:
\* onNewSession clears it before it shows the first call.
THEOREM ShownEndsAreHeard ==
  ASSUME Sequential
  PROVE  Spec => []ShownEndHeard
<1>1. HostileInv => ShownEndHeard
  BY DEF HostileInv, SecondaryUnset, ShownEndHeard
<1> QED BY <1>1, HostileCorrect, PTL

-----------------------------------------------------------------------------
(* ICE callbacks of earlier calls.  One that comes late sends an INVITE for *)
(* the outgoing call under way, or answers the incoming one: there may be   *)
(* several outgoing dialogs, and pointers to none of them.  But an incoming *)
(* call is still alone, and each end is told.                               *)

Stale == Env \subseteq {"lostInvite", "pushless", "staleIce"}

Incoming(d) == \/ dlg[d] \in {"announced", "invited", "offered", "accepted"}
               \/ dlg[d] = "connected" /\ d \in rung

\* An incoming call has no other dialog beside it, and the server session pointer.
IncomingAlone ==
  /\ \A d, e \in Dialog : Incoming(d) /\ Active(e) => d = e
  /\ m_serverInviteSession # NoDialog => m_serverInviteSession \in Dialog
  /\ \A d \in Dialog : Incoming(d) /\ dlg[d] # "announced" <=> m_serverInviteSession = d
  /\ \A d \in Dialog : dlg[d] \in {"offered", "accepted"} => d \in rung
  /\ \A d \in rung : dlg[d] \in {"offered", "accepted", "connected", "closing", "ended"}

\* onTerminated finds a call of the core's own in progress, and clears it.
IncomingClears ==
  \A d \in Dialog : Incoming(d) /\ dlg[d] # "announced" =>
    /\ mProgress # "Done"
    /\ dlg[d] # "invited" => m_inCall

\* The caller's flag stands for a call the application has, that has no incoming
\* one beside it, and that onTerminated would clear.
CallerSound ==
  /\ draft => Quiet /\ appInCall /\ ice > 0
  /\ m_isCaller => /\ appInCall /\ mProgress # "Done"
                   /\ \A d \in Dialog : ~Incoming(d)
                   /\ Quiet \/ m_inCall
  /\ m_localCandidatesCollected => m_inCall

\* A rejection stands only while no dialog can be ended that is not over for the
\* application already.
RejectionStands ==
  isUACRejected =>
    \A d \in Dialog : /\ dlg[d] \in {"free", "ended", "announced", "inviting", "closing"}
                      /\ dlg[d] = "closing" => mProgress = "Done"

\* Once a call is over the application has none, or one that is to begin.
DoneIsTold ==
  mProgress = "Done" /\ appInCall => draft \/ \E d \in Dialog : dlg[d] = "announced"

StaleInv == /\ TypeOK /\ ~isSecondaryUAC
            /\ IncomingAlone /\ IncomingClears /\ CallerSound /\ RejectionStands /\ DoneIsTold
            /\ mProgress = "Connected" => \E d \in Dialog : dlg[d] = "connected"
            /\ CallNotForgotten

\* A step of an outgoing dialog, or one that calls while no call is incoming,
\* leaves the incoming ones as they are.
LEMMA OutgoingMoves ==
  ASSUME StaleInv, NEW d \in Dialog, NEW x \in DialogState, dlg' = [dlg EXCEPT ![d] = x],
         ~Incoming(d), Active(d) \/ x = "ended" \/ \A e \in Dialog : ~Incoming(e),
         x \notin {"announced", "invited", "offered", "accepted"}, d \notin rung \/ x \in {"closing", "ended"},
         UNCHANGED <<m_serverInviteSession, rung>>
  PROVE  /\ IncomingAlone'
         /\ dlg'[d] = x /\ \A e \in Dialog : e # d => dlg'[e] = dlg[e]
         /\ \A e \in Dialog : Incoming(e)' <=> Incoming(e)
<1>1. dlg'[d] = x /\ \A e \in Dialog : e # d => dlg'[e] = dlg[e]
  BY DEF StaleInv, TypeOK
<1>2. \A e \in Dialog : Incoming(e)' <=> Incoming(e)
  BY <1>1 DEF Incoming
<1>3. \A e \in Dialog : Active(e)' => Active(e) \/ \A f \in Dialog : ~Incoming(f)
  BY <1>1 DEF Active
<1>4. IncomingAlone'
  BY <1>1, <1>2, <1>3 DEF StaleInv, IncomingAlone, Incoming
<1> QED BY <1>1, <1>2, <1>4

\* A teardown that leaves no incoming call but an announced one keeps the invariant.
LEMMA StaleTornDown ==
  ASSUME StaleInv, TypeOK', ~draft, ~draft', ~isSecondaryUAC', m_serverInviteSession' = NoDialog,
         mProgress' = "Done", ClearCall, ~appInCall', rung' = rung,
         \A e \in Dialog : \/ dlg'[e] = dlg[e] /\ (Incoming(e) => dlg[e] = "announced")
                           \/ dlg'[e] = "ended" \/ (dlg'[e] = "closing" /\ Active(e))
                           \/ dlg[e] = "inviting" /\ dlg'[e] = "responded",
         isUACRejected' =>
           \A e \in Dialog : dlg'[e] \in {"free", "ended", "announced", "inviting", "closing"}
  PROVE  StaleInv'
<1>1. \A e \in Dialog : Incoming(e)' => dlg'[e] = "announced" /\ Incoming(e)
  BY DEF Incoming
<1>2. \A e \in Dialog : Active(e)' => Active(e)
  BY DEF Active
<1>3. IncomingAlone'
  <2>1. \A d, e \in Dialog : Incoming(d)' /\ Active(e)' => d = e
    <3> SUFFICES ASSUME NEW d \in Dialog, NEW e \in Dialog, Incoming(d)', Active(e)', d # e
                 PROVE  FALSE
      OBVIOUS
    <3>1. Incoming(d) /\ Active(e)
      BY <1>1, <1>2
    <3> QED BY <3>1 DEF StaleInv, IncomingAlone
  <2>2. \A d \in Dialog : dlg'[d] \notin {"invited", "offered", "accepted"}
    BY <1>1 DEF Incoming
  <2>3. \A d \in Dialog : dlg'[d] = "connected" => d \notin rung'
    BY <1>1 DEF Incoming
  <2>4. \A d \in rung : dlg'[d] \in {"offered", "accepted", "connected", "closing", "ended"}
    BY DEF StaleInv, TypeOK, IncomingAlone
  <2> QED BY <2>1, <2>2, <2>3, <2>4, DialogAssumption DEF IncomingAlone, Incoming
<1> QED BY <1>1, <1>3 DEF StaleInv, IncomingClears, CallerSound, RejectionStands, DoneIsTold,
        CallNotForgotten, ClearCall

LEMMA InitStale == Stale /\ Init => StaleInv
<1> SUFFICES ASSUME Stale, Init PROVE StaleInv
  OBVIOUS
<1>1. TypeOK
  BY InitType
<1>2. /\ \A d \in Dialog : dlg[d] = "free"
      /\ m_serverInviteSession = NoDialog /\ ~isSecondaryUAC /\ ~isUACRejected /\ mProgress = "Dialing"
  BY DEF Init, Stale
<1> QED BY <1>1, <1>2, DialogAssumption DEF Init, StaleInv, IncomingAlone, Incoming, Active, IncomingClears,
               CallerSound, RejectionStands, DoneIsTold, CallNotForgotten, Quiet

\* A call begins when no dialog is there and no call is under way.
LEMMA BeginsFresh ==
  ASSUME Stale, StaleInv, MayBegin
  PROVE  /\ Quiet /\ ~appInCall /\ ~draft /\ ~m_isCaller /\ m_serverInviteSession = NoDialog
         /\ \A d \in Dialog : dlg[d] \in {"free", "ended"} /\ ~Incoming(d)
<1>1. Quiet /\ ~appInCall /\ ~draft
  BY DEF Stale, MayBegin
<1>2. \A d \in Dialog : dlg[d] \in {"free", "ended"} /\ ~Incoming(d)
  BY <1>1 DEF Quiet, Incoming
<1> QED BY <1>1, <1>2 DEF StaleInv, CallerSound, IncomingAlone

LEMMA StartOutgoingStale ==
  ASSUME Stale, StaleInv, TypeOK', StartOutgoing
  PROVE  StaleInv'
<1>1. Quiet /\ ~m_isCaller
  BY BeginsFresh DEF StartOutgoing
<1>2. /\ draft' /\ ice' > 0 /\ appInCall'
      /\ UNCHANGED <<mProgress, isUACRejected, isSecondaryUAC, flags, sessions, dlg, user, fault>>
  BY DEF StartOutgoing, StaleInv, TypeOK
<1> QED BY <1>1, <1>2 DEF StaleInv, IncomingAlone, Incoming, Active, IncomingClears, CallerSound,
               RejectionStands, DoneIsTold, CallNotForgotten, Quiet, flags, sessions, user

LEMMA CreateSessionStale ==
  ASSUME Stale, StaleInv, TypeOK', CreateSession
  PROVE  StaleInv'
<1>1. /\ Quiet /\ appInCall /\ ice > 0
      /\ \A d \in Dialog : dlg[d] \in {"free", "ended"} /\ ~Incoming(d)
  BY DEF CreateSession, StaleInv, CallerSound, Quiet, Incoming
<1>2. /\ ~draft' /\ mProgress' = "Dialing" /\ m_isCaller'
      /\ UNCHANGED <<isUACRejected, isSecondaryUAC, m_inCall, m_localCandidatesCollected, sessions, ice,
                     appInCall, user>>
  BY DEF CreateSession
<1>3. CASE m_localCandidatesCollected
  <2>1. PICK d \in Dialog : dlg[d] = "free" /\ dlg' = [dlg EXCEPT ![d] = "inviting"]
    BY <1>3 DEF CreateSession, SendSdpOffer
  <2>2. d \notin rung
    BY <2>1 DEF StaleInv, IncomingAlone
  <2>3. /\ IncomingAlone' /\ \A e \in Dialog : Incoming(e)' <=> Incoming(e)
        /\ dlg'[d] = "inviting" /\ \A e \in Dialog : e # d => dlg'[e] = dlg[e]
    BY <1>1, <1>2, <2>1, <2>2, OutgoingMoves DEF sessions, user, DialogState
  <2> QED BY <1>1, <1>2, <1>3, <2>3 DEF StaleInv, IncomingClears, CallerSound, RejectionStands, DoneIsTold,
              CallNotForgotten
<1>4. CASE ~m_localCandidatesCollected
  <2>1. dlg' = dlg
    BY <1>4 DEF CreateSession
  <2> QED BY <1>1, <1>2, <1>4, <2>1 DEF StaleInv, IncomingAlone, Incoming, Active, IncomingClears, CallerSound,
              RejectionStands, DoneIsTold, CallNotForgotten, Quiet, sessions, user
<1> QED BY <1>3, <1>4

\* The answer goes to the incoming call, which it leaves incoming.
LEMMA IncomingAnswered ==
  ASSUME StaleInv, SendSdpAnswer, UNCHANGED <<m_serverInviteSession, rung>>
  PROVE  /\ IncomingAlone'
         /\ \A e \in Dialog : \/ dlg'[e] = dlg[e]
                              \/ dlg[e] = "offered" /\ dlg'[e] = "accepted"
         /\ \A e \in Dialog : Incoming(e)' <=> Incoming(e)
<1>1. \A e \in Dialog : \/ dlg'[e] = dlg[e]
                        \/ dlg[e] = "offered" /\ dlg'[e] = "accepted"
  BY DEF SendSdpAnswer, StaleInv, TypeOK
<1>2. \A e \in Dialog : Incoming(e)' <=> Incoming(e)
  BY <1>1 DEF Incoming
<1>3. \A e \in Dialog : Active(e)' <=> Active(e)
  BY <1>1 DEF Active
<1>4. \A d, e \in Dialog : Incoming(d)' /\ Active(e)' => d = e
  BY <1>2, <1>3 DEF StaleInv, IncomingAlone
<1>5. IncomingAlone'
  BY <1>1, <1>2, <1>4 DEF StaleInv, TypeOK, IncomingAlone
<1> QED BY <1>1, <1>2, <1>5

LEMMA AcceptSessionStale ==
  ASSUME Stale, StaleInv, TypeOK', NEW d \in Dialog, AcceptSession(d)
  PROVE  StaleInv'
<1>1. /\ dlg[d] = "offered" /\ Incoming(d) /\ Active(d) /\ mProgress' = "Ringing"
      /\ UNCHANGED <<isUACRejected, isSecondaryUAC, m_isCaller, m_localCandidatesCollected, sessions, ice, draft,
                     appInCall, rung>>
  BY DEF AcceptSession, MayAnswer, Stale, Incoming, Active
<1>2. m_inCall /\ ~m_isCaller /\ ~isUACRejected /\ ~draft
  BY <1>1 DEF StaleInv, IncomingClears, CallerSound, RejectionStands, Quiet
<1>3. m_inCall'
  BY <1>2 DEF AcceptSession
<1>4. /\ IncomingAlone'
      /\ \A e \in Dialog : \/ dlg'[e] = dlg[e]
                           \/ dlg[e] = "offered" /\ dlg'[e] = "accepted"
      /\ \A e \in Dialog : Incoming(e)' <=> Incoming(e)
  <2>1. CASE m_localCandidatesCollected
    BY <1>1, <2>1, IncomingAnswered DEF AcceptSession, sessions
  <2>2. CASE ~m_localCandidatesCollected
    BY <1>1, <2>2 DEF AcceptSession, StaleInv, IncomingAlone, Incoming, Active, sessions
  <2> QED BY <2>1, <2>2
<1> QED BY <1>1, <1>2, <1>3, <1>4 DEF StaleInv, IncomingClears, CallerSound, RejectionStands, DoneIsTold,
               CallNotForgotten

LEMMA TerminateStale ==
  ASSUME Stale, StaleInv, TypeOK', TerminateSession
  PROVE  StaleInv'
<1>1. ~draft /\ UNCHANGED <<ice, draft, rung>>
  BY DEF TerminateSession
<1>2. CASE mProgress = "Done"
  BY <1>1, <1>2 DEF TerminateSession, StaleInv, IncomingAlone, Incoming, Active, IncomingClears, CallerSound,
              RejectionStands, DoneIsTold, CallNotForgotten, Quiet, sessions
<1>3. CASE mProgress # "Done"
  <2>1. TearDown(m_clientInviteSession, m_serverInviteSession, dlg)
    BY <1>3 DEF TerminateSession
  <2>2. EndSessions({m_clientInviteSession, m_serverInviteSession}, dlg)
    BY <2>1 DEF TearDown
  <2>3. /\ ~isSecondaryUAC'
        /\ \A e \in Dialog : IF e \in {m_clientInviteSession, m_serverInviteSession} /\ dlg[e] \in Engaged
                             THEN dlg'[e] \in {"ended", "closing"} ELSE dlg'[e] = dlg[e]
    BY <2>2, Ended DEF StaleInv, TypeOK
  <2>4. \A e \in Dialog : Incoming(e) /\ dlg[e] # "announced" =>
                            e = m_serverInviteSession /\ dlg[e] \in Engaged
    BY DEF StaleInv, IncomingAlone, Incoming, Engaged
  <2>5. \A e \in Dialog : \/ dlg'[e] = dlg[e] /\ (Incoming(e) => dlg[e] = "announced")
                          \/ dlg'[e] = "ended" \/ (dlg'[e] = "closing" /\ Active(e))
                          \/ dlg[e] = "inviting" /\ dlg'[e] = "responded"
    BY <2>3, <2>4 DEF Active, Engaged
  <2>6. /\ m_serverInviteSession' = NoDialog /\ mProgress' = "Done" /\ ClearCall /\ ~appInCall'
        /\ ~isUACRejected'
    BY <2>1 DEF TearDown, ForgetSessions, ReportTerminate, ForgetRejection
  <2> QED BY <1>1, <2>3, <2>5, <2>6, StaleTornDown
<1> QED BY <1>2, <1>3

LEMMA RejectStale ==
  ASSUME Stale, StaleInv, TypeOK', NEW d \in Dialog, Reject(d)
  PROVE  StaleInv'
<1> DEFINE s == m_serverInviteSession
<1>1. /\ dlg[d] \in {"announced", "offered", "connected"} /\ Incoming(d) /\ Active(d)
      /\ UNCHANGED <<ice, draft, rung>>
  BY DEF Reject, Stale, Incoming, Active
<1>2. ~draft /\ \A e \in Dialog : e # d => dlg[e] \in {"free", "ended"}
  BY <1>1 DEF StaleInv, CallerSound, Quiet, IncomingAlone, Active
<1>3. CASE mProgress = "Done" /\ isUACRejected
  BY <1>1, <1>3 DEF Reject, StaleInv, IncomingAlone, Incoming, Active, IncomingClears, CallerSound,
              RejectionStands, DoneIsTold, CallNotForgotten, Quiet, flags, sessions
<1>4. CASE ~(mProgress = "Done" /\ isUACRejected)
  <2>1. RejectSession(s, dlg, mProgress)
    BY <1>4 DEF Reject
  <2>2. CASE dlg[d] = "announced"
    <3>1. s = NoDialog
      BY <1>1, <1>2, <2>2 DEF StaleInv, IncomingAlone, Incoming
    <3>2. /\ mProgress' = "Done" /\ ClearCall /\ ~appInCall' /\ dlg' = dlg
          /\ UNCHANGED <<isSecondaryUAC, sessions>>
      BY <2>1, <3>1 DEF RejectSession, ReportTerminate
    <3> QED BY <1>1, <1>2, <2>2, <3>1, <3>2, StaleTornDown DEF StaleInv, Incoming, sessions
  <2>3. CASE dlg[d] # "announced"
    <3>1. s = d /\ d # NoDialog /\ mProgress # "Done" /\ dlg[d] \in Engaged /\ ~Dangling(d, dlg)
      BY <1>1, <2>3, DialogAssumption DEF StaleInv, IncomingAlone, IncomingClears, Engaged, Dangling, Allocated
    <3>2. PICK S : d \in S /\ EndSessions(S, dlg)
      BY <2>1, <3>1 DEF RejectSession, TearDown
    <3>3. /\ m_serverInviteSession' = NoDialog /\ mProgress' = "Done" /\ ClearCall /\ ~appInCall'
      BY <2>1, <3>1 DEF RejectSession, TearDown, ForgetSessions, ReportTerminate
    <3>4. /\ ~isSecondaryUAC'
          /\ \A e \in Dialog : IF e \in S /\ dlg[e] \in Engaged
                               THEN dlg'[e] \in {"ended", "closing"} ELSE dlg'[e] = dlg[e]
      BY <3>2, Ended DEF StaleInv, TypeOK
    <3>5. dlg'[d] \in {"ended", "closing"} /\ \A e \in Dialog : e # d => dlg'[e] = dlg[e]
      BY <1>2, <3>1, <3>2, <3>4 DEF Engaged
    <3> QED BY <1>1, <1>2, <3>3, <3>4, <3>5, StaleTornDown DEF Incoming
  <2> QED BY <2>2, <2>3
<1> QED BY <1>3, <1>4

LEMMA PushStale ==
  ASSUME Stale, StaleInv, TypeOK', NEW d \in Dialog, PushArrives(d) \/ InviteNeverComes(d)
  PROVE  StaleInv'
<1>1. CASE PushArrives(d)
  <2>1. /\ Quiet /\ ~appInCall /\ ~draft /\ ~m_isCaller /\ m_serverInviteSession = NoDialog
        /\ \A e \in Dialog : dlg[e] \in {"free", "ended"} /\ ~Incoming(e)
    BY <1>1, BeginsFresh DEF PushArrives
  <2>2. /\ dlg[d] = "free" /\ ~isUACRejected' /\ appInCall'
        /\ UNCHANGED <<mProgress, isSecondaryUAC, flags, sessions, ice, draft, user, fault>>
    BY <1>1 DEF PushArrives, ForgetRejection
  <2>3. dlg'[d] = "announced" /\ \A e \in Dialog : e # d => dlg'[e] = dlg[e]
    BY <1>1 DEF PushArrives, StaleInv, TypeOK
  <2>4. mProgress # "Connected"
    BY <2>1 DEF StaleInv
  <2>5. \A e \in Dialog : /\ Incoming(e)' <=> e = d
                          /\ Active(e)' => e = d
    BY <2>1, <2>2, <2>3 DEF Incoming, Active
  <2>6. \A e \in rung : e # d /\ e \in Dialog
    BY <2>2 DEF StaleInv, IncomingAlone, TypeOK
  <2>7. IncomingAlone'
    BY <2>1, <2>2, <2>3, <2>5, <2>6, DialogAssumption DEF StaleInv, IncomingAlone, sessions, user
  <2>8. IncomingClears' /\ RejectionStands' /\ DoneIsTold' /\ CallNotForgotten'
    BY <2>2, <2>3, <2>5 DEF IncomingClears, RejectionStands, DoneIsTold, CallNotForgotten
  <2>9. CallerSound'
    BY <2>1, <2>2 DEF StaleInv, CallerSound, flags
  <2> QED BY <2>2, <2>4, <2>7, <2>8, <2>9 DEF StaleInv
<1>2. CASE InviteNeverComes(d)
  <2>1. dlg[d] = "announced" /\ Incoming(d) /\ \A e \in Dialog : e # d => dlg[e] \in {"free", "ended"}
    BY <1>2 DEF InviteNeverComes, Incoming, StaleInv, IncomingAlone, Active
  <2>2. /\ ~appInCall'
        /\ UNCHANGED <<mProgress, isUACRejected, isSecondaryUAC, flags, sessions, ice, draft, user, fault>>
    BY <1>2 DEF InviteNeverComes
  <2>3. dlg'[d] = "ended" /\ \A e \in Dialog : e # d => dlg'[e] = dlg[e]
    BY <1>2 DEF InviteNeverComes, StaleInv, TypeOK
  <2>4. mProgress # "Connected" /\ ~draft /\ ~m_isCaller /\ d \notin rung /\ m_serverInviteSession # d
    BY <2>1 DEF StaleInv, CallerSound, Quiet, IncomingAlone
  <2>5. \A e \in Dialog : ~Incoming(e)' /\ ~Active(e)'
    BY <2>1, <2>3 DEF Incoming, Active
  <2>6. m_serverInviteSession = NoDialog
    BY <2>1, <2>4 DEF StaleInv, IncomingAlone, Incoming
  <2>7. IncomingAlone'
    BY <2>2, <2>3, <2>4, <2>5, <2>6, DialogAssumption DEF StaleInv, TypeOK, IncomingAlone, sessions, user
  <2>8. IncomingClears' /\ RejectionStands' /\ DoneIsTold' /\ CallNotForgotten'
    BY <2>1, <2>2, <2>3, <2>5 DEF IncomingClears, RejectionStands, DoneIsTold, CallNotForgotten
  <2>9. CallerSound'
    BY <2>2, <2>4 DEF StaleInv, CallerSound, flags
  <2> QED BY <2>2, <2>4, <2>7, <2>8, <2>9 DEF StaleInv
<1> QED BY <1>1, <1>2

LEMMA OnIceStale ==
  ASSUME Stale, StaleInv, TypeOK', OnIceGatheringFinished
  PROVE  StaleInv'
<1>1. /\ ~draft
      /\ UNCHANGED <<mProgress, isUACRejected, isSecondaryUAC, m_isCaller, sessions, draft, appInCall, user>>
  BY DEF OnIceGatheringFinished, Stale
<1>2. CASE mProgress = "Done"
  BY <1>1, <1>2 DEF OnIceGatheringFinished, StaleInv, IncomingAlone, Incoming, Active, IncomingClears, CallerSound,
              RejectionStands, DoneIsTold, CallNotForgotten, Quiet, sessions, user
<1>3. CASE mProgress # "Done"
  <2>1. m_localCandidatesCollected' /\ m_inCall'
    BY <1>3 DEF OnIceGatheringFinished, CandidatesCollected
  <2>2. CASE m_isCaller
    <3>1. PICK d \in Dialog : dlg[d] = "free" /\ dlg' = [dlg EXCEPT ![d] = "inviting"]
      BY <1>3, <2>2 DEF OnIceGatheringFinished, SendSdpOffer
    <3>2. d \notin rung /\ ~Incoming(d) /\ \A e \in Dialog : ~Incoming(e)
      BY <2>2, <3>1 DEF StaleInv, IncomingAlone, CallerSound
    <3>3. /\ IncomingAlone' /\ \A e \in Dialog : Incoming(e)' <=> Incoming(e)
          /\ dlg'[d] = "inviting" /\ \A e \in Dialog : e # d => dlg'[e] = dlg[e]
      BY <1>1, <3>1, <3>2, OutgoingMoves DEF sessions, user, DialogState
    <3> QED BY <1>1, <1>3, <2>1, <2>2, <3>1, <3>2, <3>3 DEF StaleInv, IncomingClears, CallerSound,
                RejectionStands, DoneIsTold, CallNotForgotten
  <2>3. CASE ~m_isCaller
    <3>1. /\ IncomingAlone'
          /\ \A e \in Dialog : \/ dlg'[e] = dlg[e]
                               \/ dlg[e] = "offered" /\ dlg'[e] = "accepted"
          /\ \A e \in Dialog : Incoming(e)' <=> Incoming(e)
      <4>1. CASE m_inInBoundAccepted
        BY <1>1, <1>3, <2>3, <4>1, IncomingAnswered DEF OnIceGatheringFinished, sessions, user
      <4>2. CASE ~m_inInBoundAccepted
        BY <1>1, <1>3, <2>3, <4>2 DEF OnIceGatheringFinished, StaleInv, IncomingAlone, Incoming, Active,
                    sessions, user
      <4> QED BY <4>1, <4>2
    <3> QED BY <1>1, <1>3, <2>1, <2>3, <3>1 DEF StaleInv, IncomingClears, CallerSound, RejectionStands,
                DoneIsTold, CallNotForgotten
  <2> QED BY <2>2, <2>3
<1> QED BY <1>2, <1>3

LEMMA OnNewClientSessionStale ==
  ASSUME Stale, StaleInv, TypeOK', NEW d \in Dialog, OnNewClientSession(d)
  PROVE  StaleInv'
<1> DEFINE st == [dlg EXCEPT ![d] = "responded"]
<1>1. /\ dlg[d] = "inviting" /\ Active(d) /\ ~Incoming(d) /\ UNCHANGED <<ice, draft, rung>>
  BY DEF OnNewClientSession, Active, Incoming, user
<1>2. ~draft /\ d \notin rung /\ \A e \in Dialog : Incoming(e) => FALSE
  BY <1>1 DEF StaleInv, CallerSound, Quiet, IncomingAlone
<1>3. st \in [Dialog -> DialogState] /\ st[d] = "responded" /\ \A e \in Dialog : e # d => st[e] = dlg[e]
  BY DEF StaleInv, TypeOK, DialogState
<1>4. IF mProgress = "Done"
      THEN TearDown(d, m_serverInviteSession, st)
      ELSE /\ mProgress' = "Dialing" /\ ~isUACRejected' /\ dlg' = st
           /\ UNCHANGED <<isSecondaryUAC, flags, m_serverInviteSession, appInCall, fault>>
  BY DEF OnNewClientSession, ValidUserAgent, Stale, ForgetRejection
<1>5. CASE mProgress = "Done"
  <2>1. TearDown(d, m_serverInviteSession, st)
    BY <1>4, <1>5
  <2> HIDE DEF st
  <2>2. EndSessions({d, m_serverInviteSession}, st)
    BY <2>1 DEF TearDown
  <2>3. /\ ~isSecondaryUAC'
        /\ \A e \in Dialog : IF e \in {d, m_serverInviteSession} /\ st[e] \in Engaged
                             THEN dlg'[e] \in {"ended", "closing"} ELSE dlg'[e] = st[e]
    BY <1>3, <2>2, Ended DEF StaleInv
  <2>4. \A e \in Dialog : \/ dlg'[e] = dlg[e] /\ (Incoming(e) => dlg[e] = "announced")
                          \/ dlg'[e] = "ended" \/ (dlg'[e] = "closing" /\ Active(e))
                          \/ dlg[e] = "inviting" /\ dlg'[e] = "responded"
    BY <1>1, <1>2, <1>3, <2>3 DEF Active, Engaged
  <2>5. /\ m_serverInviteSession' = NoDialog /\ mProgress' = "Done" /\ ClearCall /\ ~appInCall'
        /\ ~isUACRejected'
    BY <2>1 DEF TearDown, ForgetSessions, ReportTerminate, ForgetRejection
  <2> QED BY <1>1, <1>2, <2>3, <2>4, <2>5, StaleTornDown
<1>6. CASE mProgress # "Done"
  <2>1. /\ IncomingAlone' /\ \A e \in Dialog : Incoming(e)' <=> Incoming(e)
        /\ dlg'[d] = "responded" /\ \A e \in Dialog : e # d => dlg'[e] = dlg[e]
    BY <1>1, <1>2, <1>4, <1>6, OutgoingMoves DEF DialogState
  <2>2. /\ mProgress' = "Dialing" /\ ~isUACRejected'
        /\ UNCHANGED <<isSecondaryUAC, flags, appInCall>>
    BY <1>4, <1>6
  <2>3. m_isCaller => m_inCall
    BY <1>1 DEF StaleInv, CallerSound, Quiet, Active
  <2> QED BY <1>1, <1>2, <2>1, <2>2, <2>3 DEF StaleInv, IncomingClears, CallerSound, RejectionStands, DoneIsTold,
              CallNotForgotten, flags
<1> QED BY <1>5, <1>6

LEMMA ProgressStale ==
  ASSUME Stale, StaleInv, TypeOK', NEW d \in Dialog, OnProvisional(d) \/ OnAnswer(d) \/ OnFailure(d)
  PROVE  StaleInv'
<1>1. PICK x \in {"early", "answered", "failed"} : dlg' = [dlg EXCEPT ![d] = x]
  BY DEF OnProvisional, OnAnswer, OnFailure
<1>2. /\ dlg[d] \in {"responded", "early"} /\ Active(d) /\ ~Incoming(d)
      /\ mProgress' \in {"Dialing", mProgress} /\ (m_inCall => m_inCall')
      /\ UNCHANGED <<isUACRejected, isSecondaryUAC, m_isCaller, m_localCandidatesCollected, sessions, ice, draft,
                     appInCall, rung>>
  BY DEF OnProvisional, OnAnswer, OnFailure, flags, user, Active, Incoming
<1>3. ~isUACRejected /\ ~draft /\ d \notin rung /\ \A e \in Dialog : ~Incoming(e)
  BY <1>2 DEF StaleInv, RejectionStands, CallerSound, Quiet, IncomingAlone
<1>4. /\ IncomingAlone' /\ \A e \in Dialog : Incoming(e)' <=> Incoming(e)
      /\ dlg'[d] = x /\ \A e \in Dialog : e # d => dlg'[e] = dlg[e]
  BY <1>1, <1>2, <1>3, OutgoingMoves DEF DialogState, sessions
<1>5. mProgress' = "Connected" => \E e \in Dialog : dlg'[e] = "connected"
  BY <1>2, <1>4 DEF StaleInv
<1>6. m_isCaller => m_inCall
  BY <1>2 DEF StaleInv, CallerSound, Quiet, Active
<1>7. IncomingClears' /\ RejectionStands' /\ DoneIsTold'
  BY <1>2, <1>3, <1>4 DEF StaleInv, IncomingClears, RejectionStands, DoneIsTold, Incoming
<1>8. CallerSound' /\ CallNotForgotten'
  BY <1>1, <1>2, <1>3, <1>4, <1>6 DEF StaleInv, CallerSound, CallNotForgotten
<1> QED BY <1>2, <1>4, <1>5, <1>7, <1>8 DEF StaleInv

LEMMA OnConnectedStale ==
  ASSUME Stale, StaleInv, TypeOK', NEW d \in Dialog, OnConnected(d)
  PROVE  StaleInv'
<1>1. /\ dlg[d] \in {"answered", "accepted"} /\ Active(d) /\ mProgress' = "Connected"
      /\ UNCHANGED <<isUACRejected, isSecondaryUAC, flags, sessions, ice, draft, appInCall, user, fault>>
  BY DEF OnConnected, Active
<1>2. dlg'[d] = "connected" /\ \A e \in Dialog : e # d => dlg'[e] = dlg[e]
  BY DEF OnConnected, StaleInv, TypeOK
<1>3. ~isUACRejected /\ ~draft /\ (m_isCaller => m_inCall) /\ (d \in rung <=> dlg[d] = "accepted")
  BY <1>1 DEF StaleInv, RejectionStands, CallerSound, Quiet, Active, IncomingAlone
<1>4. \A e \in Dialog : Incoming(e)' <=> Incoming(e)
  BY <1>1, <1>2, <1>3 DEF Incoming, user
<1>5. \A e \in Dialog : Active(e)' <=> Active(e)
  BY <1>1, <1>2 DEF Active
<1>6. \A e, f \in Dialog : Incoming(e)' /\ Active(f)' => e = f
  BY <1>4, <1>5 DEF StaleInv, IncomingAlone
<1>7. \A e \in Dialog : dlg'[e] = "announced" <=> dlg[e] = "announced"
  BY <1>1, <1>2
<1>8. IncomingAlone'
  BY <1>1, <1>2, <1>4, <1>6, <1>7 DEF StaleInv, TypeOK, IncomingAlone, sessions, user
<1>9. IncomingClears'
  BY <1>1, <1>2, <1>4, <1>7 DEF StaleInv, IncomingClears, flags
<1>10. CallerSound' /\ RejectionStands' /\ DoneIsTold' /\ CallNotForgotten'
  BY <1>1, <1>2, <1>3, <1>4 DEF StaleInv, CallerSound, RejectionStands, DoneIsTold, CallNotForgotten, flags
<1> QED BY <1>1, <1>2, <1>8, <1>9, <1>10 DEF StaleInv

\* The end of a dialog is told, or was, whichever branch onTerminated takes.
LEMMA OnTerminatedStale ==
  ASSUME Stale, StaleInv, TypeOK', NEW d \in Dialog, OnTerminated(d)
  PROVE  StaleInv'
<1>1. /\ dlg[d] \in {"early", "failed", "offered", "accepted", "connected", "closing"} /\ Active(d)
      /\ dlg' = [dlg EXCEPT ![d] = "ended"] /\ ~isSecondaryUAC'
      /\ UNCHANGED <<isUACRejected, ice, draft, rung>>
  BY DEF OnTerminated, Active, user
<1>2. ~draft /\ ~isSecondaryUAC
  BY <1>1 DEF StaleInv, CallerSound, Quiet, Active
<1>3. dlg'[d] = "ended" /\ \A e \in Dialog : e # d => dlg'[e] = dlg[e] /\ ~Incoming(e)
  BY <1>1 DEF StaleInv, TypeOK, IncomingAlone
<1>4. CASE mProgress = "Done"
  <2>1. ~m_localCandidatesCollected'
        /\ UNCHANGED <<mProgress, m_isCaller, m_inCall, sessions, appInCall>>
    BY <1>2, <1>4 DEF OnTerminated
  <2>2. ~Incoming(d) /\ ~appInCall /\ ~m_isCaller
    BY <1>1, <1>2, <1>3, <1>4 DEF StaleInv, IncomingClears, DoneIsTold, CallerSound, Incoming
  <2>3. IncomingAlone' /\ \A e \in Dialog : Incoming(e)' <=> Incoming(e)
    BY <1>1, <2>1, <2>2, OutgoingMoves DEF DialogState, sessions
  <2> QED BY <1>1, <1>2, <1>3, <1>4, <2>1, <2>2, <2>3 DEF StaleInv, IncomingClears, CallerSound, RejectionStands,
              DoneIsTold, CallNotForgotten
<1>5. CASE mProgress # "Done"
  <2>1. mProgress' = "Done" /\ ~appInCall' /\ ~isUACRejected
    BY <1>1, <1>2, <1>5 DEF OnTerminated, ReportTerminate, StaleInv, RejectionStands
  <2>2. CASE m_inCall
    <3>1. ClearCall /\ m_serverInviteSession' = NoDialog
      BY <1>2, <1>5, <2>1, <2>2 DEF OnTerminated, ForgetSessions
    <3> QED BY <1>1, <1>2, <1>3, <2>1, <3>1, StaleTornDown
  <2>3. CASE ~m_inCall
    <3>1. ~m_localCandidatesCollected' /\ UNCHANGED <<m_isCaller, m_inCall, sessions>>
      BY <1>2, <1>5, <2>1, <2>3 DEF OnTerminated
    <3>2. ~Incoming(d) /\ ~m_isCaller
      BY <1>1, <2>3 DEF StaleInv, IncomingClears, CallerSound, Quiet, Active
    <3>3. IncomingAlone' /\ \A e \in Dialog : Incoming(e)' <=> Incoming(e)
      BY <1>1, <3>1, <3>2, OutgoingMoves DEF DialogState, sessions
    <3> QED BY <1>1, <1>2, <1>3, <2>1, <3>1, <3>2, <3>3 DEF StaleInv, IncomingClears, CallerSound, RejectionStands,
                DoneIsTold, CallNotForgotten
  <2> QED BY <2>2, <2>3
<1> QED BY <1>4, <1>5

LEMMA OnNewServerSessionStale ==
  ASSUME Stale, StaleInv, TypeOK', NEW d \in Dialog, OnNewServerSession(d)
  PROVE  StaleInv'
<1>1. UNCHANGED <<ice, draft, rung>> /\ InviteMayArrive(d)
  BY DEF OnNewServerSession
<1>2. CASE mProgress = "Connected"
  <2>1. PICK c \in Dialog : dlg[c] = "connected"
    BY <1>2 DEF StaleInv
  <2>2. Active(c) /\ ~draft
    BY <2>1 DEF StaleInv, CallerSound, Quiet, Active
  <2>3. dlg[d] = "free" /\ c # d /\ ~Incoming(d)
    BY <1>1, <2>1, <2>2 DEF StaleInv, IncomingAlone, InviteMayArrive, Incoming
  <2>4. /\ dlg' = [dlg EXCEPT ![d] = "ended"] /\ ~isSecondaryUAC'
        /\ UNCHANGED <<mProgress, isUACRejected, flags, sessions, appInCall>>
    BY <1>2 DEF OnNewServerSession, RejectOtherCall
  <2>5. /\ IncomingAlone' /\ \A e \in Dialog : Incoming(e)' <=> Incoming(e)
        /\ dlg'[d] = "ended" /\ \A e \in Dialog : e # d => dlg'[e] = dlg[e]
    BY <1>1, <2>3, <2>4, OutgoingMoves DEF DialogState, sessions
  <2>6. CallerSound' /\ CallNotForgotten'
    BY <1>1, <2>1, <2>2, <2>3, <2>4, <2>5 DEF StaleInv, CallerSound, CallNotForgotten, Quiet, flags
  <2>7. IncomingClears' /\ RejectionStands' /\ DoneIsTold'
    BY <1>1, <2>3, <2>4, <2>5 DEF StaleInv, IncomingClears, RejectionStands, DoneIsTold, flags
  <2> QED BY <2>1, <2>3, <2>4, <2>5, <2>6, <2>7 DEF StaleInv
<1>3. CASE mProgress # "Connected"
  <2>1. /\ ~draft /\ ~m_isCaller /\ m_serverInviteSession = NoDialog /\ d \notin rung
        /\ \A e \in Dialog : e # d => dlg[e] \in {"free", "ended"}
        /\ \A e \in Dialog : Incoming(e) => e = d /\ dlg[d] = "announced"
    <3>1. CASE dlg[d] = "announced"
      <4>1. Incoming(d) /\ Active(d)
        BY <3>1 DEF Incoming, Active
      <4>2. \A e \in Dialog : Incoming(e) \/ Active(e) => e = d
        BY <4>1 DEF StaleInv, IncomingAlone, Active, Incoming
      <4> QED BY <3>1, <4>1, <4>2 DEF StaleInv, IncomingAlone, CallerSound, Quiet, Active
    <3>2. CASE dlg[d] = "free" /\ MayBegin
      BY <3>2, BeginsFresh DEF StaleInv, IncomingAlone
    <3> QED BY <1>1, <1>3, <3>1, <3>2 DEF InviteMayArrive
  <2> DEFINE st == [dlg EXCEPT ![d] = "invited"]
  <2>2. st \in [Dialog -> DialogState] /\ st[d] = "invited" /\ \A e \in Dialog : e # d => st[e] = dlg[e]
    BY DEF StaleInv, TypeOK, DialogState
  <2>3. ~isUACRejected'
    BY <1>3 DEF OnNewServerSession, ForgetRejection
  <2>4. \/ /\ mProgress' = "Done" /\ EndSessions({d}, st) /\ ~appInCall' /\ ClearCall
           /\ m_serverInviteSession' = NoDialog
        \/ /\ mProgress' = "Ringing" /\ dlg' = st /\ ~isSecondaryUAC' /\ m_serverInviteSession' = d
           /\ UNCHANGED <<flags, appInCall>>
    BY <1>3 DEF OnNewServerSession, ValidUserAgent, Stale, ReportTerminate
  <2> HIDE DEF st
  <2>5. CASE /\ mProgress' = "Done" /\ EndSessions({d}, st) /\ ~appInCall' /\ ClearCall
             /\ m_serverInviteSession' = NoDialog
    <3>1. /\ ~isSecondaryUAC'
          /\ \A e \in Dialog : IF e \in {d} /\ st[e] \in Engaged
                               THEN dlg'[e] \in {"ended", "closing"} ELSE dlg'[e] = st[e]
      BY <2>2, <2>5, Ended DEF StaleInv
    <3>2. dlg'[d] # "closing"
      BY <2>2, <2>5, EndedHow
    <3>3. dlg'[d] = "ended" /\ \A e \in Dialog : e # d => dlg'[e] = dlg[e]
      BY <2>2, <3>1, <3>2 DEF Engaged
    <3> QED BY <1>1, <2>1, <2>3, <2>5, <3>1, <3>3, StaleTornDown
  <2>6. CASE /\ mProgress' = "Ringing" /\ dlg' = st /\ ~isSecondaryUAC' /\ m_serverInviteSession' = d
             /\ UNCHANGED <<flags, appInCall>>
    <3>1. dlg'[d] = "invited" /\ \A e \in Dialog : e # d => dlg'[e] = dlg[e]
      BY <2>2, <2>6
    <3>2. \A e \in Dialog : (Incoming(e)' <=> e = d) /\ (Active(e)' => e = d)
      BY <1>1, <2>1, <3>1 DEF Incoming, Active
    <3>3. \A e \in rung : e \in Dialog /\ e # d
      BY <2>1 DEF StaleInv, TypeOK
    <3>4. IncomingAlone'
      BY <1>1, <2>1, <2>6, <3>1, <3>2, <3>3, DialogAssumption DEF StaleInv, IncomingAlone
    <3>5. IncomingClears' /\ RejectionStands' /\ DoneIsTold' /\ CallNotForgotten'
      BY <2>3, <2>6, <3>1, <3>2 DEF IncomingClears, RejectionStands, DoneIsTold, CallNotForgotten
    <3>6. CallerSound'
      BY <1>1, <2>1, <2>6 DEF StaleInv, CallerSound, flags
    <3> QED BY <2>6, <3>4, <3>5, <3>6 DEF StaleInv
  <2> QED BY <2>4, <2>5, <2>6
<1> QED BY <1>2, <1>3

LEMMA OnOfferStale ==
  ASSUME Stale, StaleInv, TypeOK', NEW d \in Dialog, OnOffer(d)
  PROVE  StaleInv'
<1>1. /\ dlg[d] = "invited" /\ Incoming(d) /\ Active(d)
      /\ rung' = rung \cup {d} /\ ~m_isCaller' /\ m_inCall'
      /\ UNCHANGED <<mProgress, isUACRejected, isSecondaryUAC, sessions, draft>>
  BY DEF OnOffer, Incoming, Active
<1>2. dlg'[d] = "offered" /\ \A e \in Dialog : e # d => dlg'[e] = dlg[e]
  BY DEF OnOffer, StaleInv, TypeOK
<1>3. ~isUACRejected /\ ~draft /\ mProgress # "Done"
  BY <1>1 DEF StaleInv, RejectionStands, CallerSound, Quiet, IncomingClears
<1>4. \A e \in Dialog : Incoming(e)' <=> Incoming(e)
  BY <1>1, <1>2 DEF Incoming
<1>5. \A e \in Dialog : Active(e)' <=> Active(e)
  BY <1>1, <1>2 DEF Active
<1>6. \A e, f \in Dialog : Incoming(e)' /\ Active(f)' => e = f
  BY <1>4, <1>5 DEF StaleInv, IncomingAlone
<1>7. \A e \in Dialog : (dlg'[e] = "announced" <=> dlg[e] = "announced") /\ (dlg'[e] = "connected" <=> dlg[e] = "connected")
  BY <1>1, <1>2
<1>8. IncomingAlone'
  BY <1>1, <1>2, <1>4, <1>6, <1>7 DEF StaleInv, TypeOK, IncomingAlone, sessions
<1>9. IncomingClears' /\ RejectionStands' /\ DoneIsTold' /\ CallNotForgotten'
  BY <1>1, <1>2, <1>3 DEF StaleInv, IncomingClears, RejectionStands, DoneIsTold, CallNotForgotten
<1>10. CallerSound'
  BY <1>1, <1>3 DEF CallerSound
<1> QED BY <1>1, <1>7, <1>8, <1>9, <1>10 DEF StaleInv

LEMMA StaleStep ==
  ASSUME Stale, StaleInv, [Next]_vars
  PROVE  StaleInv'
<1>1. TypeOK'
  BY TypeStep DEF StaleInv
<1>2. CASE StartOutgoing \/ CreateSession \/ TerminateSession \/ OnIceGatheringFinished
  BY <1>1, <1>2, StartOutgoingStale, CreateSessionStale, TerminateStale, OnIceStale
<1>3. CASE \E d \in Dialog : AcceptSession(d) \/ Reject(d) \/ PushArrives(d) \/ InviteNeverComes(d)
  BY <1>1, <1>3, AcceptSessionStale, RejectStale, PushStale
<1>4. CASE \E d \in Dialog : \/ OnNewClientSession(d) \/ OnProvisional(d) \/ OnEarlyMedia(d)
                             \/ OnAnswer(d) \/ OnFailure(d) \/ OnConnected(d)
  BY <1>1, <1>4, OnNewClientSessionStale, ProgressStale, OnConnectedStale DEF OnEarlyMedia
<1>5. CASE \E d \in Dialog : OnTerminated(d) \/ OnNewServerSession(d) \/ OnOffer(d)
  BY <1>1, <1>5, OnTerminatedStale, OnNewServerSessionStale, OnOfferStale
<1>6. CASE UNCHANGED vars
  BY <1>6 DEF vars, flags, sessions, user, StaleInv, TypeOK, IncomingAlone, Incoming, Active, IncomingClears,
              CallerSound, RejectionStands, DoneIsTold, CallNotForgotten, Quiet
<1> QED BY <1>2, <1>3, <1>4, <1>5, <1>6 DEF Next, AppNext, DumNext

\* However many ICE callbacks of earlier calls come late, incoming calls stay alone
\* with the pointer that answers and ends them.
THEOREM StaleCorrect ==
  ASSUME Stale
  PROVE  Spec => []StaleInv
<1>1. StaleInv /\ [Next]_vars => StaleInv'
  BY StaleStep
<1> QED BY InitStale, <1>1, PTL DEF Spec

\* No call the application believes in is left with nothing under way for it: the
\* TerminateCall event of onTerminated, terminateSession or reject came.
THEOREM CallsAreReported ==
  ASSUME Stale
  PROVE  Spec => []CallNotForgotten
<1>1. StaleInv => CallNotForgotten
  BY DEF StaleInv
<1> QED BY <1>1, StaleCorrect, PTL

\* After reject() has reported a call over, onTerminated reports nothing more.
THEOREM RejectionsAreFinal ==
  ASSUME Stale
  PROVE  Spec => RejectIsFinal
<1> DEFINE Silent == (\E d \in Dialog : OnTerminated(d)) /\ isUACRejected
                       => UNCHANGED <<mProgress, appInCall>>
<1>1. StaleInv => Silent
  <2> SUFFICES ASSUME StaleInv, NEW d \in Dialog, OnTerminated(d), isUACRejected
               PROVE  UNCHANGED <<mProgress, appInCall>>
    OBVIOUS
  <2>1. mProgress = "Done"
    BY DEF OnTerminated, StaleInv, RejectionStands
  <2> QED BY <2>1 DEF OnTerminated, StaleInv
<1> QED BY <1>1, StaleCorrect, PTL DEF RejectIsFinal

-----------------------------------------------------------------------------
(* One late ICE callback.  It makes a second outgoing dialog at most, and   *)
(* the client session pointer and the members survive that.  A second late  *)
(* callback makes a third dialog, and no longer: with MaxIce = 3 the pointer*)
(* can dangle.                                                              *)

OneLate == Stale /\ MaxIce <= 2

\* A callback still to come leaves room for the INVITE it sends.
TwoDialogs ==
  /\ \A d, e, f \in Dialog : Active(d) /\ Active(e) /\ Active(f) => d = e \/ e = f \/ d = f
  /\ m_isCaller /\ ice = 2 => Quiet
  /\ m_isCaller /\ ice = 1 => OneDialog

Responding(d) == dlg[d] \in {"responded", "early", "answered"}

\* The client session pointer is null or that of a dialog DUM has, and onTerminated
\* would clear it.
ClientSound ==
  /\ m_clientInviteSession # NoDialog =>
       /\ m_clientInviteSession \in Dialog
       /\ Responding(m_clientInviteSession) \/ dlg[m_clientInviteSession] \in {"failed", "connected"}
       /\ mProgress # "Done" /\ m_inCall
  /\ m_isCaller /\ (\E d \in Dialog : Responding(d)) => m_clientInviteSession # NoDialog

\* The first response to an INVITE finds a call in progress, or one that is over and
\* that nothing can bring back before it.
InvitesHeeded ==
  \A d, e \in Dialog :
    dlg[d] = "inviting" =>
      IF mProgress = "Done" THEN ~Responding(e)
      ELSE m_inCall /\ (Responding(e) => m_clientInviteSession # NoDialog)

\* The candidates and the answer of a call are forgotten with it.
MembersForgotten ==
  /\ draft => ~m_isCaller
  /\ (\A d \in Dialog : dlg[d] \in {"free", "ended", "announced"}) /\ ~m_isCaller =>
       ~m_localCandidatesCollected /\ (draft \/ mProgress = "Done" \/ ice = 0)
  /\ m_inInBoundAccepted => mProgress # "Done" /\ m_inCall

LateInv == StaleInv /\ TwoDialogs /\ ClientSound /\ InvitesHeeded /\ MembersForgotten

\* What a teardown leaves of the dialogs and members is sound if no INVITE is left
\* with another dialog that could bring mProgress back.
LEMMA LateTornDown ==
  ASSUME LateInv, StaleInv', mProgress' = "Done", ClearCall, m_clientInviteSession' = NoDialog, ~draft',
         \A e \in Dialog : \/ dlg'[e] = dlg[e] \/ dlg'[e] = "ended"
                           \/ dlg'[e] = "closing" /\ Active(e),
         \A d, e \in Dialog : dlg'[d] = "inviting" => ~Responding(e)'
  PROVE  LateInv'
<1>1. \A e \in Dialog : Active(e)' => Active(e)
  BY DEF Active
<1>2. TwoDialogs'
  BY <1>1 DEF LateInv, TwoDialogs, ClearCall
<1>3. ClientSound' /\ InvitesHeeded' /\ MembersForgotten'
  BY DEF ClientSound, InvitesHeeded, MembersForgotten, ClearCall
<1> QED BY <1>2, <1>3 DEF LateInv

\* Beside an incoming call nothing is left of an outgoing one.
LEMMA IncomingOnly ==
  ASSUME LateInv, NEW d \in Dialog, Incoming(d)
  PROVE  /\ \A e \in Dialog : e # d => dlg[e] \in {"free", "ended"}
         /\ dlg[d] # "connected" => m_clientInviteSession = NoDialog
         /\ ~m_isCaller /\ ~draft /\ \A e \in Dialog : dlg[e] # "inviting" /\ ~Responding(e)
<1>1. Active(d) /\ dlg[d] # "inviting" /\ ~Responding(d) /\ dlg[d] # "failed"
  BY DEF Incoming, Active, Responding
<1>2. \A e \in Dialog : e # d => dlg[e] \in {"free", "ended"}
  BY DEF LateInv, StaleInv, IncomingAlone, Active
<1> QED BY <1>1, <1>2 DEF LateInv, StaleInv, CallerSound, Quiet, Active, ClientSound, Responding

LEMMA InitLate == OneLate /\ Init => LateInv
<1> SUFFICES ASSUME OneLate, Init PROVE LateInv
  OBVIOUS
<1>1. StaleInv
  BY InitStale DEF OneLate
<1>2. \A d \in Dialog : dlg[d] = "free"
  BY DEF Init
<1> QED BY <1>1, <1>2 DEF OneLate, Stale, Init, LateInv, TwoDialogs, Active, ClientSound, Responding, InvitesHeeded,
               MembersForgotten

LEMMA StartOutgoingLate ==
  ASSUME OneLate, LateInv, StaleInv', StartOutgoing
  PROVE  LateInv'
<1>1. /\ ~m_isCaller /\ \A d \in Dialog : dlg[d] \in {"free", "ended"}
      /\ draft'
      /\ UNCHANGED <<mProgress, isUACRejected, isSecondaryUAC, flags, sessions, dlg, user, fault>>
  BY BeginsFresh DEF StartOutgoing, OneLate, LateInv
<1> QED BY <1>1 DEF LateInv, TwoDialogs, Active, ClientSound, Responding, InvitesHeeded, MembersForgotten,
               flags, sessions

LEMMA CreateSessionLate ==
  ASSUME OneLate, LateInv, StaleInv', CreateSession
  PROVE  LateInv'
<1>1. /\ Quiet /\ ~m_isCaller /\ \A d \in Dialog : dlg[d] \in {"free", "ended"}
  BY DEF CreateSession, LateInv, StaleInv, CallerSound, Quiet, MembersForgotten
<1>2. ~m_localCandidatesCollected
  BY <1>1 DEF LateInv, MembersForgotten
<1>3. /\ dlg' = dlg /\ ~draft' /\ mProgress' = "Dialing"
      /\ UNCHANGED <<m_inInBoundAccepted, m_inCall, m_localCandidatesCollected, sessions, ice>>
      /\ m_isCaller'
  BY <1>2 DEF CreateSession
<1> QED BY <1>1, <1>2, <1>3 DEF LateInv, OneDialog, TwoDialogs, Active, Quiet, ClientSound, Responding,
               InvitesHeeded, MembersForgotten, sessions

LEMMA AcceptSessionLate ==
  ASSUME OneLate, LateInv, StaleInv', NEW d \in Dialog, AcceptSession(d)
  PROVE  LateInv'
<1>1. /\ dlg[d] = "offered" /\ Incoming(d) /\ mProgress' = "Ringing" /\ m_inCall
      /\ UNCHANGED <<m_isCaller, m_localCandidatesCollected, sessions, ice, draft>>
  BY DEF AcceptSession, MayAnswer, OneLate, Stale, Incoming, LateInv, StaleInv, IncomingClears
<1>2. /\ m_inCall' /\ \A e \in Dialog : \/ dlg'[e] = dlg[e]
                                        \/ dlg[e] = "offered" /\ dlg'[e] = "accepted"
  <2>1. CASE m_localCandidatesCollected
    BY <1>1, <2>1, IncomingAnswered DEF AcceptSession, sessions, LateInv
  <2>2. CASE ~m_localCandidatesCollected
    BY <1>1, <2>2 DEF AcceptSession
  <2> QED BY <2>1, <2>2
<1>3. /\ m_clientInviteSession = NoDialog /\ ~m_isCaller /\ ~draft
      /\ \A e \in Dialog : e # d => dlg'[e] \in {"free", "ended"}
      /\ \A e \in Dialog : dlg'[e] # "inviting" /\ ~Responding(e)'
  BY <1>1, <1>2, IncomingOnly DEF Responding
<1>4. dlg'[d] \in {"offered", "accepted"}
  BY <1>1, <1>2
<1> QED BY <1>1, <1>2, <1>3, <1>4 DEF LateInv, TwoDialogs, Active, ClientSound, InvitesHeeded, MembersForgotten,
               sessions

LEMMA TerminateLate ==
  ASSUME OneLate, LateInv, StaleInv', TerminateSession
  PROVE  LateInv'
<1> DEFINE c == m_clientInviteSession
<1>1. ~draft /\ UNCHANGED <<ice, draft, rung>>
  BY DEF TerminateSession
<1>2. CASE mProgress = "Done"
  <2>1. /\ ~m_localCandidatesCollected'
        /\ UNCHANGED <<mProgress, m_isCaller, m_inInBoundAccepted, m_inCall, sessions, dlg>>
    BY <1>2 DEF TerminateSession
  <2> QED BY <1>1, <1>2, <2>1 DEF LateInv, OneDialog, TwoDialogs, Active, Quiet, ClientSound, Responding,
              InvitesHeeded, MembersForgotten, sessions
<1>3. CASE mProgress # "Done"
  <2>1. TearDown(c, m_serverInviteSession, dlg)
    BY <1>3 DEF TerminateSession
  <2>2. EndSessions({c, m_serverInviteSession}, dlg)
    BY <2>1 DEF TearDown
  <2>3. \A e \in Dialog : IF e \in {c, m_serverInviteSession} /\ dlg[e] \in Engaged
                          THEN dlg'[e] \in {"ended", "closing"} ELSE dlg'[e] = dlg[e]
    BY <2>2, Ended DEF LateInv, StaleInv, TypeOK
  <2>4. \A d, e \in Dialog : dlg'[d] = "inviting" => ~Responding(e)'
    <3> SUFFICES ASSUME NEW d \in Dialog, NEW e \in Dialog, dlg'[d] = "inviting", Responding(e)'
                 PROVE  FALSE
      OBVIOUS
    <3>1. dlg[d] = "inviting" /\ Responding(e)
      BY <2>3 DEF Responding
    <3>2. c # NoDialog
      BY <1>3, <3>1 DEF LateInv, InvitesHeeded
    <3>3. c \in Dialog /\ (Responding(c) \/ dlg[c] \in {"failed", "connected"})
      BY <3>2 DEF LateInv, ClientSound
    <3>4. c = e
      BY <3>1, <3>3 DEF LateInv, TwoDialogs, Active, Responding
    <3> QED BY <2>3, <3>1, <3>4 DEF Responding, Engaged
  <2>5. /\ m_clientInviteSession' = NoDialog /\ mProgress' = "Done" /\ ClearCall
    BY <2>1 DEF TearDown, ForgetSessions
  <2>6. \A e \in Dialog : \/ dlg'[e] = dlg[e] \/ dlg'[e] = "ended"
                          \/ dlg'[e] = "closing" /\ Active(e)
    BY <2>3 DEF Active, Engaged
  <2> QED BY <1>1, <2>4, <2>5, <2>6, LateTornDown
<1> QED BY <1>2, <1>3

LEMMA RejectLate ==
  ASSUME OneLate, LateInv, StaleInv', NEW d \in Dialog, Reject(d)
  PROVE  LateInv'
<1> DEFINE s == m_serverInviteSession
<1>1. /\ dlg[d] \in {"announced", "offered", "connected"} /\ Incoming(d)
      /\ UNCHANGED <<ice, draft, rung>>
  BY DEF Reject, OneLate, Stale, Incoming
<1>2. /\ ~draft /\ \A e \in Dialog : e # d => dlg[e] \in {"free", "ended"}
      /\ dlg[d] # "connected" => m_clientInviteSession = NoDialog
      /\ \A e \in Dialog : dlg[e] # "inviting" /\ ~Responding(e)
  BY <1>1, IncomingOnly
<1>3. CASE mProgress = "Done" /\ isUACRejected
  <2>1. UNCHANGED <<mProgress, flags, sessions, dlg>>
    BY <1>3 DEF Reject
  <2> QED BY <1>1, <2>1 DEF LateInv, OneDialog, TwoDialogs, Active, Quiet, ClientSound, Responding,
              InvitesHeeded, MembersForgotten, flags, sessions
<1>4. CASE ~(mProgress = "Done" /\ isUACRejected)
  <2>1. RejectSession(s, dlg, mProgress)
    BY <1>4 DEF Reject
  <2>2. CASE dlg[d] = "announced"
    <3>1. s = NoDialog
      BY <1>1, <1>2, <2>2 DEF LateInv, StaleInv, IncomingAlone, Incoming
    <3>2. /\ mProgress' = "Done" /\ ClearCall /\ dlg' = dlg /\ UNCHANGED sessions
      BY <2>1, <3>1 DEF RejectSession
    <3> QED BY <1>1, <1>2, <2>2, <3>2, LateTornDown DEF sessions
  <2>3. CASE dlg[d] # "announced"
    <3>1. s = d /\ d # NoDialog /\ mProgress # "Done" /\ ~Dangling(d, dlg)
      BY <1>1, <2>3, DialogAssumption DEF LateInv, StaleInv, IncomingAlone, IncomingClears, Dangling, Allocated, Engaged
    <3>2. PICK S : EndSessions(S, dlg)
      BY <2>1, <3>1 DEF RejectSession, TearDown
    <3>3. m_clientInviteSession' = NoDialog /\ mProgress' = "Done" /\ ClearCall
      BY <1>2, <2>1, <3>1 DEF RejectSession, TearDown, ForgetSessions
    <3>4. \A e \in Dialog : \/ dlg'[e] = dlg[e] \/ dlg'[e] = "ended"
                            \/ dlg'[e] = "closing" /\ Active(e)
      BY <3>2, EndedHow DEF LateInv, StaleInv, TypeOK, Active
    <3> QED BY <1>1, <1>2, <3>3, <3>4, LateTornDown
  <2> QED BY <2>2, <2>3
<1> QED BY <1>3, <1>4

LEMMA PushLate ==
  ASSUME OneLate, LateInv, StaleInv', NEW d \in Dialog, PushArrives(d) \/ InviteNeverComes(d)
  PROVE  LateInv'
<1>1. UNCHANGED <<mProgress, flags, sessions, ice, draft>>
  BY DEF PushArrives, InviteNeverComes
<1>2. /\ \A e \in Dialog : dlg[e] \in {"free", "ended", "announced"} /\ (e # d => dlg[e] \in {"free", "ended"})
      /\ ~m_isCaller /\ ~draft
  <2>1. CASE PushArrives(d)
    BY <2>1, BeginsFresh DEF PushArrives, OneLate, LateInv
  <2>2. CASE InviteNeverComes(d)
    BY <2>2, IncomingOnly DEF InviteNeverComes, Incoming
  <2> QED BY <2>1, <2>2
<1>3. dlg'[d] \in {"announced", "ended"} /\ \A e \in Dialog : e # d => dlg'[e] = dlg[e]
  BY DEF PushArrives, InviteNeverComes, LateInv, StaleInv, TypeOK
<1>4. m_clientInviteSession = NoDialog
  BY <1>2 DEF LateInv, ClientSound, Responding
<1>5. \A e \in Dialog : dlg'[e] # "inviting" /\ ~Responding(e)'
  BY <1>2, <1>3 DEF Responding
<1>6. TwoDialogs'
  BY <1>1, <1>2, <1>3 DEF LateInv, TwoDialogs, Active, flags
<1>7. ClientSound' /\ InvitesHeeded'
  BY <1>1, <1>4, <1>5 DEF ClientSound, InvitesHeeded, sessions
<1>8. MembersForgotten'
  BY <1>1, <1>2 DEF LateInv, MembersForgotten, flags
<1> QED BY <1>6, <1>7, <1>8 DEF LateInv

LEMMA OnIceLate ==
  ASSUME OneLate, LateInv, StaleInv', OnIceGatheringFinished
  PROVE  LateInv'
<1>1. /\ ~draft /\ ice' = ice - 1 /\ ice \in {1, 2}
      /\ UNCHANGED <<mProgress, m_isCaller, m_inInBoundAccepted, sessions, draft, rung>>
  BY MaxIceAssumption DEF OnIceGatheringFinished, OneLate, Stale, LateInv, StaleInv, TypeOK, user
<1>2. CASE mProgress = "Done"
  <2>1. UNCHANGED <<dlg, m_localCandidatesCollected, m_inCall>> /\ ~m_isCaller
    BY <1>2 DEF OnIceGatheringFinished, LateInv, StaleInv, CallerSound
  <2> QED BY <1>1, <1>2, <2>1 DEF LateInv, TwoDialogs, Active, ClientSound, Responding, InvitesHeeded,
              MembersForgotten, sessions
<1>3. CASE mProgress # "Done" /\ m_isCaller
  <2>1. m_inCall'
    BY <1>3 DEF OnIceGatheringFinished, CandidatesCollected
  <2>2. PICK d \in Dialog : dlg[d] = "free" /\ dlg' = [dlg EXCEPT ![d] = "inviting"]
    BY <1>3 DEF OnIceGatheringFinished, SendSdpOffer
  <2>3. dlg'[d] = "inviting" /\ \A e \in Dialog : e # d => dlg'[e] = dlg[e]
    BY <2>2 DEF LateInv, StaleInv, TypeOK
  <2>4. \A e \in Dialog : Active(e)' <=> Active(e) \/ e = d
    BY <2>2, <2>3 DEF Active
  <2>5. TwoDialogs'
    <3>1. CASE ice = 2
      <4>1. Quiet /\ ice' = 1
        BY <1>1, <1>3, <3>1 DEF LateInv, TwoDialogs
      <4>2. \A e \in Dialog : Active(e)' => e = d
        BY <2>4, <4>1 DEF Quiet, Active
      <4> QED BY <4>1, <4>2 DEF TwoDialogs, OneDialog
    <3>2. CASE ice = 1
      <4>1. OneDialog /\ ice' = 0
        BY <1>1, <1>3, <3>2 DEF LateInv, TwoDialogs
      <4> QED BY <2>4, <4>1 DEF TwoDialogs, OneDialog
    <3> QED BY <1>1, <3>1, <3>2
  <2>6. \A e \in Dialog : Responding(e)' <=> Responding(e)
    BY <2>2, <2>3 DEF Responding
  <2>7. ClientSound'
    <3>1. m_clientInviteSession # NoDialog =>
            /\ m_clientInviteSession \in Dialog /\ dlg'[m_clientInviteSession] = dlg[m_clientInviteSession]
      BY <2>2, <2>3 DEF LateInv, ClientSound, Responding
    <3> QED BY <1>1, <1>3, <2>1, <2>6, <3>1 DEF LateInv, ClientSound, Responding, sessions
  <2>8. InvitesHeeded'
    BY <1>1, <1>3, <2>1, <2>6 DEF LateInv, ClientSound, InvitesHeeded, sessions
  <2>9. MembersForgotten'
    BY <1>1, <1>3, <2>1 DEF LateInv, MembersForgotten
  <2> QED BY <2>5, <2>7, <2>8, <2>9 DEF LateInv
<1>4. CASE mProgress # "Done" /\ ~m_isCaller
  <2>1. m_inCall'
    BY <1>4 DEF OnIceGatheringFinished, CandidatesCollected
  <2>2. PICK d \in Dialog : dlg[d] \notin {"free", "ended", "announced"}
    BY <1>1, <1>4 DEF LateInv, MembersForgotten
  <2>3. \A e \in Dialog : \/ dlg'[e] = dlg[e]
                          \/ dlg[e] = "offered" /\ dlg'[e] = "accepted"
    <3>1. CASE m_inInBoundAccepted
      BY <1>1, <1>4, <3>1, IncomingAnswered DEF OnIceGatheringFinished, sessions, LateInv
    <3>2. CASE ~m_inInBoundAccepted
      BY <1>4, <3>2 DEF OnIceGatheringFinished
    <3> QED BY <3>1, <3>2
  <2>4. \A e \in Dialog : (Active(e)' <=> Active(e)) /\ (Responding(e)' <=> Responding(e))
    BY <2>3 DEF Active, Responding
  <2>5. TwoDialogs'
    BY <1>1, <1>4, <2>4 DEF LateInv, TwoDialogs
  <2>6. ClientSound'
    BY <1>1, <1>4, <2>1, <2>3, <2>4 DEF LateInv, ClientSound, sessions
  <2>7. InvitesHeeded'
    BY <1>1, <1>4, <2>1, <2>3, <2>4 DEF LateInv, InvitesHeeded, sessions
  <2>8. MembersForgotten'
    BY <1>1, <1>4, <2>1, <2>2, <2>3 DEF LateInv, MembersForgotten
  <2> QED BY <2>5, <2>6, <2>7, <2>8 DEF LateInv
<1> QED BY <1>2, <1>3, <1>4

LEMMA OnNewClientSessionLate ==
  ASSUME OneLate, LateInv, StaleInv', NEW d \in Dialog, OnNewClientSession(d)
  PROVE  LateInv'
<1> DEFINE st == [dlg EXCEPT ![d] = "responded"]
<1>1. /\ dlg[d] = "inviting" /\ Active(d) /\ ~Responding(d) /\ UNCHANGED <<ice, draft>>
  BY DEF OnNewClientSession, Active, Responding
<1>2. ~draft
  BY <1>1 DEF LateInv, StaleInv, CallerSound, Quiet
<1>3. st \in [Dialog -> DialogState] /\ st[d] = "responded" /\ \A e \in Dialog : e # d => st[e] = dlg[e]
  BY DEF LateInv, StaleInv, TypeOK, DialogState
<1>4. IF mProgress = "Done"
      THEN TearDown(d, m_serverInviteSession, st)
      ELSE /\ mProgress' = "Dialing" /\ m_clientInviteSession' = d /\ dlg' = st
           /\ UNCHANGED <<isSecondaryUAC, flags, m_serverInviteSession, appInCall, fault>>
  BY DEF OnNewClientSession, ValidUserAgent, OneLate, Stale
<1>5. CASE mProgress = "Done"
  <2>1. TearDown(d, m_serverInviteSession, st)
    BY <1>4, <1>5
  <2> HIDE DEF st
  <2>2. EndSessions({d, m_serverInviteSession}, st)
    BY <2>1 DEF TearDown
  <2>3. \A e \in Dialog : IF e \in {d, m_serverInviteSession} /\ st[e] \in Engaged
                          THEN dlg'[e] \in {"ended", "closing"} ELSE dlg'[e] = st[e]
    BY <1>3, <2>2, Ended DEF LateInv, StaleInv
  <2>4. dlg'[d] \in {"ended", "closing"}
    BY <1>3, <2>3 DEF Engaged
  <2>5. \A e \in Dialog : \/ dlg'[e] = dlg[e] \/ dlg'[e] = "ended"
                          \/ dlg'[e] = "closing" /\ Active(e)
    BY <1>1, <1>3, <2>3 DEF Active, Engaged
  <2>6. \A e \in Dialog : ~Responding(e)'
    BY <1>1, <1>5, <2>4, <2>5 DEF LateInv, InvitesHeeded, Responding
  <2>7. /\ m_clientInviteSession' = NoDialog /\ mProgress' = "Done" /\ ClearCall
    BY <2>1 DEF TearDown, ForgetSessions
  <2> QED BY <1>1, <1>2, <2>5, <2>6, <2>7, LateTornDown
<1>6. CASE mProgress # "Done"
  <2>1. /\ mProgress' = "Dialing" /\ m_clientInviteSession' = d /\ UNCHANGED flags
        /\ dlg'[d] = "responded" /\ \A e \in Dialog : e # d => dlg'[e] = dlg[e]
    BY <1>3, <1>4, <1>6
  <2>2. m_inCall
    BY <1>1, <1>6 DEF LateInv, InvitesHeeded
  <2>3. \A e \in Dialog : Active(e)' <=> Active(e)
    BY <1>1, <2>1 DEF Active
  <2>4. TwoDialogs'
    BY <1>1, <2>1, <2>3 DEF LateInv, TwoDialogs, OneDialog, Quiet, Active, flags
  <2>5. ClientSound' /\ InvitesHeeded'
    BY <2>1, <2>2, DialogAssumption DEF ClientSound, InvitesHeeded, Responding, flags
  <2>6. MembersForgotten'
    BY <1>1, <2>1, <2>2 DEF LateInv, MembersForgotten, flags
  <2> QED BY <2>4, <2>5, <2>6 DEF LateInv
<1> QED BY <1>5, <1>6

LEMMA ProgressLate ==
  ASSUME OneLate, LateInv, StaleInv', NEW d \in Dialog,
         OnProvisional(d) \/ OnAnswer(d) \/ OnFailure(d) \/ OnConnected(d)
  PROVE  LateInv'
<1>1. PICK x \in {"early", "answered", "failed", "connected"} :
        /\ dlg' = [dlg EXCEPT ![d] = x]
        /\ Responding(d) \/ (dlg[d] = "accepted" /\ x = "connected")
  BY DEF OnProvisional, OnAnswer, OnFailure, OnConnected, Responding
<1>2. /\ mProgress' \in {"Dialing", "Connected", mProgress} /\ (m_inCall => m_inCall')
      /\ UNCHANGED <<m_isCaller, m_inInBoundAccepted, m_localCandidatesCollected, sessions, ice, draft>>
  BY DEF OnProvisional, OnAnswer, OnFailure, OnConnected, flags
<1>3. dlg'[d] = x /\ \A e \in Dialog : e # d => dlg'[e] = dlg[e]
  BY <1>1 DEF LateInv, StaleInv, TypeOK
<1>4. \A e \in Dialog : (Active(e)' <=> Active(e)) /\ (Responding(e)' => Responding(e))
  BY <1>1, <1>3 DEF Active, Responding
<1>5. Active(d)
  BY <1>1 DEF Active, Responding
<1>6. TwoDialogs'
  BY <1>2, <1>4 DEF LateInv, TwoDialogs, OneDialog, Quiet, Active
<1>7. ClientSound'
  BY <1>1, <1>2, <1>3, <1>4 DEF LateInv, ClientSound, Responding, sessions
<1>8. InvitesHeeded'
  <2>1. CASE Responding(d)
    BY <1>2, <1>3, <1>4, <2>1 DEF LateInv, InvitesHeeded, sessions
  <2>2. CASE dlg[d] = "accepted"
    <3>1. \A e \in Dialog : dlg[e] # "inviting"
      BY <2>2, IncomingOnly DEF Incoming
    <3> QED BY <1>3, <3>1 DEF InvitesHeeded
  <2> QED BY <1>1, <2>1, <2>2
<1>9. MembersForgotten'
  BY <1>2, <1>3 DEF LateInv, MembersForgotten
<1> QED BY <1>6, <1>7, <1>8, <1>9 DEF LateInv

LEMMA OnTerminatedLate ==
  ASSUME OneLate, LateInv, StaleInv', NEW d \in Dialog, OnTerminated(d)
  PROVE  LateInv'
<1>1. /\ Active(d) /\ dlg[d] # "inviting" /\ dlg' = [dlg EXCEPT ![d] = "ended"]
      /\ UNCHANGED <<isUACRejected, ice, draft>>
  BY DEF OnTerminated, Active
<1>2. ~draft /\ ~isSecondaryUAC
  BY <1>1 DEF LateInv, StaleInv, CallerSound, Quiet, Active
<1>3. dlg'[d] = "ended" /\ \A e \in Dialog : e # d => dlg'[e] = dlg[e]
  BY <1>1 DEF LateInv, StaleInv, TypeOK
<1>4. \A e \in Dialog : (Active(e)' => Active(e)) /\ (Responding(e)' => Responding(e) /\ e # d)
  BY <1>3 DEF Active, Responding
<1>5. CASE mProgress = "Done"
  <2>1. /\ ~m_localCandidatesCollected'
        /\ UNCHANGED <<mProgress, m_isCaller, m_inInBoundAccepted, m_inCall, sessions>>
    BY <1>2, <1>5 DEF OnTerminated
  <2>2. ~m_isCaller /\ m_clientInviteSession = NoDialog
    BY <1>5 DEF LateInv, StaleInv, CallerSound, ClientSound
  <2>3. TwoDialogs' /\ ClientSound' /\ InvitesHeeded' /\ MembersForgotten'
    BY <1>1, <1>2, <1>3, <1>4, <1>5, <2>1, <2>2 DEF LateInv, TwoDialogs, ClientSound, InvitesHeeded,
          MembersForgotten, sessions
  <2> QED BY <2>3 DEF LateInv
<1>6. CASE mProgress # "Done"
  <2>1. mProgress' = "Done" /\ ~isUACRejected
    BY <1>2, <1>6 DEF OnTerminated, LateInv, StaleInv, RejectionStands
  <2>2. CASE m_inCall
    <3>1. ClearCall /\ m_clientInviteSession' = NoDialog
      BY <1>2, <1>6, <2>1, <2>2 DEF OnTerminated, ForgetSessions
    <3>2. \A e, f \in Dialog : dlg'[e] = "inviting" => ~Responding(f)'
      BY <1>1, <1>3, <1>4 DEF LateInv, TwoDialogs, Active, Responding
    <3> QED BY <1>1, <1>2, <1>3, <2>1, <3>1, <3>2, LateTornDown
  <2>3. CASE ~m_inCall
    <3>1. ~m_localCandidatesCollected' /\ UNCHANGED <<m_isCaller, m_inInBoundAccepted, sessions>>
      BY <1>2, <1>6, <2>1, <2>3 DEF OnTerminated
    <3>2. ~m_isCaller /\ m_clientInviteSession = NoDialog /\ ~m_inInBoundAccepted
      BY <1>1, <2>3 DEF LateInv, StaleInv, CallerSound, Quiet, Active, ClientSound, MembersForgotten
    <3>3. \A e \in Dialog : dlg'[e] # "inviting"
      BY <1>3, <1>6, <2>3 DEF LateInv, InvitesHeeded
    <3>4. TwoDialogs' /\ ClientSound' /\ InvitesHeeded' /\ MembersForgotten'
      BY <1>1, <1>2, <1>4, <2>1, <3>1, <3>2, <3>3 DEF LateInv, TwoDialogs, ClientSound, InvitesHeeded,
            MembersForgotten, sessions
    <3> QED BY <3>4 DEF LateInv
  <2> QED BY <2>2, <2>3
<1> QED BY <1>5, <1>6

LEMMA OnNewServerSessionLate ==
  ASSUME OneLate, LateInv, StaleInv', NEW d \in Dialog, OnNewServerSession(d)
  PROVE  LateInv'
<1>1. UNCHANGED <<ice, draft, m_clientInviteSession>> /\ InviteMayArrive(d)
  BY DEF OnNewServerSession, RejectOtherCall, sessions
<1>2. CASE mProgress = "Connected"
  <2>1. PICK c \in Dialog : dlg[c] = "connected"
    BY <1>2 DEF LateInv, StaleInv
  <2>2. dlg[d] = "free" /\ c # d
    BY <1>1, <2>1 DEF LateInv, StaleInv, IncomingAlone, InviteMayArrive, Incoming, Active
  <2>3. /\ dlg' = [dlg EXCEPT ![d] = "ended"]
        /\ UNCHANGED <<mProgress, flags>>
    BY <1>2 DEF OnNewServerSession, RejectOtherCall
  <2>4. dlg'[d] = "ended" /\ \A e \in Dialog : e # d => dlg'[e] = dlg[e]
    BY <2>3 DEF LateInv, StaleInv, TypeOK
  <2>5. \A e \in Dialog : (Active(e)' <=> Active(e)) /\ (Responding(e)' <=> Responding(e))
    BY <2>2, <2>4 DEF Active, Responding
  <2>6. TwoDialogs'
    BY <1>1, <2>3, <2>5 DEF LateInv, TwoDialogs, OneDialog, Quiet, Active, flags
  <2>7. ClientSound'
    BY <1>1, <2>2, <2>3, <2>4, <2>5 DEF LateInv, ClientSound, Responding, flags
  <2>8. InvitesHeeded'
    BY <1>1, <2>3, <2>4, <2>5 DEF LateInv, InvitesHeeded, flags
  <2>9. MembersForgotten'
    BY <1>1, <2>1, <2>2, <2>3, <2>4 DEF LateInv, MembersForgotten, flags
  <2> QED BY <2>6, <2>7, <2>8, <2>9 DEF LateInv
<1>3. CASE mProgress # "Connected"
  <2>1. /\ ~draft /\ ~m_isCaller /\ m_clientInviteSession = NoDialog
        /\ \A e \in Dialog : e # d => dlg[e] \in {"free", "ended"}
    <3>1. CASE dlg[d] = "announced"
      BY <3>1, IncomingOnly DEF Incoming
    <3>2. CASE dlg[d] = "free" /\ MayBegin
      <4>1. ~draft /\ ~m_isCaller /\ \A e \in Dialog : dlg[e] \in {"free", "ended"}
        BY <3>2, BeginsFresh DEF OneLate, LateInv
      <4> QED BY <4>1 DEF LateInv, ClientSound, Responding
    <3> QED BY <1>1, <1>3, <3>1, <3>2 DEF InviteMayArrive
  <2> DEFINE st == [dlg EXCEPT ![d] = "invited"]
  <2>2. st \in [Dialog -> DialogState] /\ st[d] = "invited" /\ \A e \in Dialog : e # d => st[e] = dlg[e]
    BY DEF LateInv, StaleInv, TypeOK, DialogState
  <2>3. \/ mProgress' = "Done" /\ EndSessions({d}, st) /\ ClearCall
        \/ mProgress' = "Ringing" /\ dlg' = st /\ UNCHANGED flags
    BY <1>3 DEF OnNewServerSession, ValidUserAgent, OneLate, Stale
  <2> HIDE DEF st
  <2>4. /\ dlg'[d] \in {"invited", "ended"} /\ \A e \in Dialog : e # d => dlg'[e] = dlg[e]
        /\ mProgress' = "Ringing" => dlg'[d] = "invited"
    <3>1. CASE EndSessions({d}, st) /\ mProgress' = "Done"
      <4>1. \A e \in Dialog : /\ e = d => dlg'[e] = "ended"
                              /\ e # d => dlg'[e] = st[e]
        BY <2>2, <3>1 DEF EndSessions, Engaged
      <4> QED BY <2>2, <3>1, <4>1
    <3>2. CASE dlg' = st
      BY <2>2, <3>2
    <3> QED BY <2>3, <3>1, <3>2
  <2>5. \A e \in Dialog : /\ dlg'[e] # "inviting" /\ ~Responding(e)'
                          /\ Active(e)' => e = d
    BY <2>1, <2>4 DEF Responding, Active
  <2>6. ~m_isCaller'
    BY <2>1, <2>3 DEF ClearCall, flags
  <2>7. TwoDialogs' /\ ClientSound' /\ InvitesHeeded'
    BY <1>1, <2>1, <2>5, <2>6 DEF TwoDialogs, ClientSound, InvitesHeeded
  <2>8. MembersForgotten'
    BY <1>1, <2>1, <2>3, <2>4 DEF LateInv, MembersForgotten, ClearCall, flags
  <2> QED BY <2>7, <2>8 DEF LateInv
<1> QED BY <1>2, <1>3

LEMMA OnOfferLate ==
  ASSUME OneLate, LateInv, StaleInv', NEW d \in Dialog, OnOffer(d)
  PROVE  LateInv'
<1>1. /\ dlg[d] = "invited" /\ Incoming(d) /\ ~m_isCaller' /\ m_inCall'
      /\ UNCHANGED <<mProgress, m_inInBoundAccepted, m_localCandidatesCollected, sessions, draft>>
  BY DEF OnOffer, Incoming
<1>2. dlg'[d] = "offered" /\ \A e \in Dialog : e # d => dlg'[e] = dlg[e]
  BY DEF OnOffer, LateInv, StaleInv, TypeOK
<1>3. /\ m_clientInviteSession = NoDialog
      /\ \A e \in Dialog : e # d => dlg[e] \in {"free", "ended"}
  BY <1>1, IncomingOnly
<1>4. \A e \in Dialog : /\ dlg'[e] # "inviting" /\ ~Responding(e)'
                        /\ Active(e)' => e = d
  BY <1>2, <1>3 DEF Responding, Active
<1>5. TwoDialogs' /\ ClientSound' /\ InvitesHeeded'
  BY <1>1, <1>3, <1>4 DEF TwoDialogs, ClientSound, InvitesHeeded, sessions
<1>6. MembersForgotten'
  BY <1>1, <1>2 DEF LateInv, MembersForgotten
<1> QED BY <1>5, <1>6 DEF LateInv

LEMMA LateStep ==
  ASSUME OneLate, LateInv, [Next]_vars
  PROVE  LateInv'
<1>1. StaleInv'
  BY StaleStep DEF OneLate, LateInv
<1>2. CASE StartOutgoing \/ CreateSession \/ TerminateSession \/ OnIceGatheringFinished
  BY <1>1, <1>2, StartOutgoingLate, CreateSessionLate, TerminateLate, OnIceLate
<1>3. CASE \E d \in Dialog : AcceptSession(d) \/ Reject(d) \/ PushArrives(d) \/ InviteNeverComes(d)
  BY <1>1, <1>3, AcceptSessionLate, RejectLate, PushLate
<1>4. CASE \E d \in Dialog : \/ OnNewClientSession(d) \/ OnProvisional(d) \/ OnEarlyMedia(d)
                             \/ OnAnswer(d) \/ OnFailure(d) \/ OnConnected(d)
  BY <1>1, <1>4, OnNewClientSessionLate, ProgressLate DEF OnEarlyMedia
<1>5. CASE \E d \in Dialog : OnTerminated(d) \/ OnNewServerSession(d) \/ OnOffer(d)
  BY <1>1, <1>5, OnTerminatedLate, OnNewServerSessionLate, OnOfferLate
<1>6. CASE UNCHANGED vars
  BY <1>1, <1>6 DEF vars, flags, sessions, LateInv, TwoDialogs, OneDialog, Active, Quiet, ClientSound, Responding,
              InvitesHeeded, MembersForgotten
<1> QED BY <1>2, <1>3, <1>4, <1>5, <1>6 DEF Next, AppNext, DumNext

\* One late ICE callback makes at most one dialog too many, and the flags that guard
\* terminateSession, onTerminated and onNewSession stay right about both.
THEOREM LateCorrect ==
  ASSUME OneLate
  PROVE  Spec => []LateInv
<1>1. LateInv /\ [Next]_vars => LateInv'
  BY LateStep
<1> QED BY InitLate, <1>1, PTL DEF Spec

\* With one late callback no session pointer outlives the session DUM frees.
THEOREM LatePointersAreAllocated ==
  ASSUME OneLate
  PROVE  Spec => []PointersAllocated
<1>1. LateInv => PointersAllocated
  BY DialogAssumption DEF LateInv, ClientSound, Responding, StaleInv, IncomingAlone, Incoming, PointersAllocated,
     Current, Allocated, Engaged
<1> QED BY <1>1, LateCorrect, PTL

\* With one late callback no member of a call that is over decides about the next.
THEOREM LateSlateIsClean ==
  ASSUME OneLate
  PROVE  Spec => []CleanSlate
<1>1. LateInv => CleanSlate
  <2> SUFFICES ASSUME LateInv, mProgress = "Done", Quiet, ~draft
               PROVE  /\ m_clientInviteSession = NoDialog /\ m_serverInviteSession = NoDialog
                      /\ ~m_isCaller /\ ~m_inInBoundAccepted /\ ~m_localCandidatesCollected
                      /\ ~isSecondaryUAC
    BY DEF CleanSlate
  <2>1. ~m_isCaller /\ ~m_inInBoundAccepted /\ ~isSecondaryUAC /\ m_clientInviteSession = NoDialog
    BY DEF LateInv, StaleInv, CallerSound, MembersForgotten, ClientSound
  <2>2. ~m_localCandidatesCollected
    BY <2>1 DEF LateInv, MembersForgotten, Quiet
  <2>3. m_serverInviteSession = NoDialog
    BY DEF LateInv, StaleInv, IncomingAlone, IncomingClears
  <2> QED BY <2>1, <2>2, <2>3
<1> QED BY <1>1, LateCorrect, PTL
=============================================================================
