--------------------------- MODULE SipCallOrderly ---------------------------
(***************************************************************************)
(* Call control with one call at a time, announced by a push or not: the   *)
(* inductive invariant that ties the members of the core to DUM's dialogs, *)
(* for any set of dialogs, and the promises that follow from it.           *)
(*                                                                         *)
(* The handlers ignore which dialog calls them.  They are right as long as *)
(* there is only one it can be (OneDialog), the pointers are exactly that  *)
(* one (PointersSound, PointersComplete), onTerminated always reaches the  *)
(* branch that clears everything (TerminationClears), and at most one ICE  *)
(* callback is pending, which finds what it was started for (IceSound).    *)
(***************************************************************************)
EXTENDS SipCallProofs

\* DUM has something for the dialog.
Active(d) == dlg[d] \notin {"free", "ended"}

\* DUM has at most one dialog that is neither unused nor over.
OneDialog == \A d, e \in Dialog : Active(d) /\ Active(e) => d = e

\* Once a call is over nothing of it is left in the members.
DoneIsClean ==
  mProgress = "Done" =>
    /\ ~m_isCaller /\ ~m_inInBoundAccepted /\ ~m_localCandidatesCollected
    /\ m_clientInviteSession = NoDialog /\ m_serverInviteSession = NoDialog
    /\ appInCall => draft \/ \E d \in Dialog : dlg[d] \in {"announced", "invited"}

\* Each pointer is null or points to a live dialog of its kind...
PointersSound ==
  /\ m_clientInviteSession # NoDialog =>
       /\ m_clientInviteSession \in Dialog
       /\ dlg[m_clientInviteSession] \in {"responded", "early", "answered", "failed", "connected"}
  /\ m_serverInviteSession # NoDialog =>
       /\ m_serverInviteSession \in Dialog
       /\ dlg[m_serverInviteSession] \in {"invited", "offered", "accepted", "connected"}

\* ... and each live dialog has its pointer.
PointersComplete ==
  \A d \in Dialog :
    /\ dlg[d] \in {"responded", "early", "answered"} => m_clientInviteSession = d
    /\ dlg[d] = "failed" => m_clientInviteSession = d \/ mProgress = "Done"
    /\ dlg[d] \in {"invited", "offered", "accepted"} => m_serverInviteSession = d
    /\ dlg[d] = "connected" => IF d \in rung THEN m_serverInviteSession = d ELSE m_clientInviteSession = d
    /\ dlg[d] = "closing" => mProgress = "Done"

\* onTerminated takes the branch that clears everything.
TerminationClears ==
  \A d \in Dialog :
    /\ dlg[d] = "inviting" /\ mProgress # "Done" => m_inCall
    /\ dlg[d] = "invited" => ~isUACRejected
    /\ dlg[d] \in {"responded", "early", "answered", "offered", "accepted", "connected"}
       \/ m_clientInviteSession = d => m_inCall /\ ~isUACRejected

\* Where an ICE callback can be pending, and what it will find.
IceSound ==
  /\ ice \in {0, 1}
  /\ \A d \in Dialog : dlg[d] \in {"announced", "invited"} => ice = 0
  /\ draft => Quiet /\ ice = 1
  /\ ice = 1 /\ ~draft /\ mProgress # "Done" =>
       \/ m_isCaller /\ Quiet
       \/ ~m_isCaller /\ \E d \in Dialog : dlg[d] = "offered"
  /\ OfferRendezvous
  /\ \A d \in Dialog : dlg[d] = "offered" =>
       ice = 1 \/ (m_localCandidatesCollected /\ d \notin consent)
  /\ m_localCandidatesCollected =>
       /\ ice = 0
       /\ \E d \in Dialog : Active(d) /\ dlg[d] \notin {"announced", "invited"}

\* m_inInBoundAccepted stands for the consent to the current call.
ConsentSound ==
  /\ m_inInBoundAccepted =>
       \E d \in consent : d \in Dialog /\ dlg[d] \in {"offered", "accepted", "connected"}
  /\ \A d \in consent : dlg[d] = "offered" => m_inInBoundAccepted
  /\ consent \subseteq rung
  /\ \A d \in Dialog : dlg[d] \in {"offered", "accepted"} => d \in rung
  /\ \A d \in Dialog : dlg[d] = "accepted" => d \in consent
  /\ \A d \in Dialog : dlg[d] = "connected" /\ d \in rung => d \in consent
  /\ \A d \in rung : dlg[d] \notin {"free", "announced", "invited", "failed"} \cup UacSetup

\* What was under way at a hang-up is on its way out; without a response yet, only
\* mProgress remembers it, and no new call may overwrite that.
HangupSound ==
  \A d \in hungup : dlg[d] \in {"closing", "ended"} \/ (dlg[d] = "inviting" /\ mProgress = "Done")

\* mProgress is Connected exactly when a dialog is.
BusySound ==
  /\ \A d \in Dialog : dlg[d] = "connected" => mProgress = "Connected"
  /\ mProgress = "Connected" => \E d \in Dialog : dlg[d] = "connected"

\* The invariant beyond the types.
OrderlyInv ==
  /\ ~isSecondaryUAC /\ fault = "none"
  /\ OneDialog /\ DoneIsClean /\ PointersSound /\ PointersComplete /\ TerminationClears
  /\ IceSound /\ ConsentSound /\ HangupSound /\ BusySound /\ CallNotForgotten
-----------------------------------------------------------------------------
(* The whole invariant, and the environment it is for                       *)

IInv == TypeOK /\ OrderlyInv

Orderly == Env \subseteq {"lostInvite", "pushless"}

-----------------------------------------------------------------------------
(* What the shared parts of the handlers do to the dialogs                  *)

\* A step on the one active dialog leaves only that one to look at.
LEMMA OneMoves ==
  ASSUME TypeOK, OneDialog, NEW d \in Dialog, Active(d), NEW x \in DialogState,
         dlg' = [dlg EXCEPT ![d] = x]
  PROVE  /\ dlg'[d] = x
         /\ \A e \in Dialog : e # d => dlg'[e] = dlg[e] /\ dlg[e] \in {"free", "ended"}
BY DEF TypeOK, OneDialog, Active

\* The same when no dialog is active.
LEMMA QuietMoves ==
  ASSUME TypeOK, Quiet, NEW d \in Dialog, NEW x \in DialogState,
         dlg' = [dlg EXCEPT ![d] = x]
  PROVE  /\ dlg'[d] = x
         /\ \A e \in Dialog : e # d => dlg'[e] = dlg[e] /\ dlg[e] \in {"free", "ended"}
BY DEF TypeOK, Quiet

\* What EndSessions does to each dialog.
LEMMA Ended ==
  ASSUME NEW S, NEW st \in [Dialog -> DialogState], ~isSecondaryUAC, EndSessions(S, st)
  PROVE  /\ ~isSecondaryUAC'
         /\ \A e \in Dialog : IF e \in S /\ st[e] \in Engaged THEN dlg'[e] \in {"ended", "closing"}
                                                              ELSE dlg'[e] = st[e]
BY DEF EndSessions

\* Every teardown restores the invariant: with mProgress Done and the members
\* cleared, the dialogs left are ones that no pointer needs to reach.
LEMMA TornDown ==
  ASSUME IInv, TypeOK', OneDialog', ~draft,
         mProgress' = "Done", ClearCall, ReportTerminate, ForgetSessions,
         ~isSecondaryUAC', fault' = "none", UNCHANGED <<ice, draft, rung, consent>>,
         \A e \in Dialog : \/ dlg'[e] \in {"ended", "closing"}
                           \/ dlg'[e] = dlg[e] /\ dlg[e] \in {"free", "announced", "inviting", "failed"},
         \A e \in hungup' : dlg'[e] \in {"inviting", "closing", "ended"}
  PROVE  OrderlyInv'
<1> USE DEF IInv, OrderlyInv, ClearCall, ReportTerminate, ForgetSessions
<1>1. OneDialog'
  BY DEF OneDialog
<1>2. DoneIsClean'
  BY DEF DoneIsClean
<1>3. PointersSound'
  BY DEF PointersSound
<1>4. PointersComplete'
  BY DEF PointersComplete
<1>5. TerminationClears'
  BY DialogAssumption DEF TerminationClears
<1>6. IceSound'
  BY DEF IceSound, OfferRendezvous
<1>7. ConsentSound'
  BY DEF ConsentSound, UacSetup, TypeOK
<1>8. HangupSound'
  BY DEF HangupSound
<1>9. BusySound'
  BY DEF BusySound
<1>10. CallNotForgotten'
  BY DEF CallNotForgotten
<1> QED BY <1>1, <1>2, <1>3, <1>4, <1>5, <1>6, <1>7, <1>8, <1>9, <1>10

-----------------------------------------------------------------------------
(* The initial state and the application's actions                          *)

LEMMA InitOrderly ==
  ASSUME Orderly, Init
  PROVE  OrderlyInv
<1>1. /\ mProgress = "Dialing" /\ ~isUACRejected /\ ~isSecondaryUAC /\ ~m_inInBoundAccepted
      /\ m_clientInviteSession = NoDialog /\ m_serverInviteSession = NoDialog
  BY DEF Init, Orderly
<1>2. \A d \in Dialog : dlg[d] = "free"
  BY DEF Init
<1>3. PointersSound /\ PointersComplete /\ TerminationClears /\ OneDialog /\ DoneIsClean
  BY <1>1, <1>2, DialogAssumption
     DEF PointersSound, PointersComplete, TerminationClears, OneDialog, Active, DoneIsClean
<1>4. IceSound /\ ConsentSound /\ HangupSound
  BY <1>1, <1>2 DEF Init, IceSound, OfferRendezvous, ConsentSound, HangupSound
<1>5. BusySound /\ CallNotForgotten
  BY <1>1, <1>2 DEF Init, BusySound, CallNotForgotten
<1> QED BY <1>1, <1>3, <1>4, <1>5 DEF Init, OrderlyInv

LEMMA StartOutgoingOrderly ==
  ASSUME Orderly, IInv, TypeOK', StartOutgoing
  PROVE  OrderlyInv'
<1>1. Quiet /\ ~appInCall /\ ~draft /\ ice = 0
  BY DEF StartOutgoing, MayBegin, Orderly
<1>2. /\ draft' /\ ice' = 1 /\ appInCall'
      /\ UNCHANGED <<mProgress, isUACRejected, isSecondaryUAC, flags, sessions, dlg, user, fault>>
  BY <1>1 DEF StartOutgoing, TypeOK
<1> USE <1>1, <1>2 DEF IInv, OrderlyInv, flags, sessions, user
<1>3. OneDialog'
  BY DEF OneDialog, Active
<1>4. DoneIsClean'
  BY DEF DoneIsClean
<1>5. PointersSound'
  BY DEF PointersSound
<1>6. PointersComplete'
  BY DEF PointersComplete
<1>7. TerminationClears'
  BY DEF TerminationClears
<1>8. IceSound'
  BY DEF IceSound, OfferRendezvous, Quiet, Active
<1>9. ConsentSound'
  BY DEF ConsentSound
<1>10. HangupSound'
  BY DEF HangupSound
<1>11. BusySound'
  BY DEF BusySound
<1>12. CallNotForgotten'
  BY DEF CallNotForgotten
<1> QED BY <1>3, <1>4, <1>5, <1>6, <1>7, <1>8, <1>9, <1>10, <1>11, <1>12

LEMMA CreateSessionOrderly ==
  ASSUME Orderly, IInv, TypeOK', CreateSession
  PROVE  OrderlyInv'
<1>1. Quiet /\ ice = 1 /\ ~m_localCandidatesCollected
  BY DEF CreateSession, IInv, OrderlyInv, IceSound, Quiet, Active
<1>2. dlg' = dlg
  BY <1>1 DEF CreateSession
<1> USE <1>1, <1>2 DEF IInv, OrderlyInv, CreateSession, sessions, user
<1>3. OneDialog'
  BY DEF OneDialog, Active
<1>4. DoneIsClean'
  BY DEF DoneIsClean
<1>5. PointersSound'
  BY DEF PointersSound
<1>6. PointersComplete'
  BY DEF PointersComplete, Quiet
<1>7. TerminationClears'
  BY DEF TerminationClears, Quiet
<1>8. IceSound'
  BY DEF IceSound, OfferRendezvous, Quiet
<1>9. ConsentSound'
  BY DEF ConsentSound
<1>10. HangupSound'
  BY DEF HangupSound, TypeOK, Quiet
<1>11. BusySound'
  BY DEF BusySound, Quiet
<1>12. CallNotForgotten'
  BY DEF CallNotForgotten
<1> QED BY <1>3, <1>4, <1>5, <1>6, <1>7, <1>8, <1>9, <1>10, <1>11, <1>12

LEMMA AcceptSessionOrderly ==
  ASSUME Orderly, IInv, TypeOK', NEW d \in Dialog, AcceptSession(d)
  PROVE  OrderlyInv'
<1>1. dlg[d] = "offered" /\ m_serverInviteSession = d /\ d \notin consent /\ Active(d) /\ d \in rung
  BY DEF AcceptSession, MayAnswer, Orderly, IInv, OrderlyInv, PointersComplete, Active
<1>2. \A e \in Dialog : e # d => dlg[e] \in {"free", "ended"}
  BY <1>1 DEF IInv, OrderlyInv, OneDialog, Active, TypeOK
<1>3. CASE m_localCandidatesCollected
  <2>1. dlg' = [dlg EXCEPT ![d] = "accepted"] /\ fault' = fault
    BY <1>1, <1>3 DEF AcceptSession, SendSdpAnswer
  <2>2. /\ dlg'[d] = "accepted"
        /\ \A e \in Dialog : e # d => dlg'[e] = dlg[e] /\ dlg[e] \in {"free", "ended"}
    BY <1>1, <2>1, OneMoves DEF IInv, OrderlyInv, DialogState
  <2> USE <1>1, <1>3, <2>1, <2>2 DEF IInv, OrderlyInv, AcceptSession, sessions
  <2>3. OneDialog'
    BY DEF OneDialog, Active
  <2>4. DoneIsClean'
    BY DEF DoneIsClean
  <2>5. PointersSound'
    BY DEF PointersSound
  <2>6. PointersComplete'
    BY DEF PointersComplete
  <2>7. TerminationClears'
    BY DEF TerminationClears
  <2>8. IceSound'
    BY DEF IceSound, OfferRendezvous, Active
  <2>9. ConsentSound'
    BY DEF ConsentSound, UacSetup
  <2>10. HangupSound'
    BY DEF HangupSound, TypeOK
  <2>11. BusySound'
    BY DEF BusySound
  <2>12. CallNotForgotten'
    BY DEF CallNotForgotten
  <2> QED BY <2>3, <2>4, <2>5, <2>6, <2>7, <2>8, <2>9, <2>10, <2>11, <2>12
<1>4. CASE ~m_localCandidatesCollected
  <2> USE <1>1, <1>2, <1>4 DEF IInv, OrderlyInv, AcceptSession, sessions
  <2>1. OneDialog'
    BY DEF OneDialog, Active
  <2>2. DoneIsClean'
    BY DEF DoneIsClean
  <2>3. PointersSound'
    BY DEF PointersSound
  <2>4. PointersComplete'
    BY DEF PointersComplete
  <2>5. TerminationClears'
    BY DEF TerminationClears
  <2>6. IceSound'
    BY DEF IceSound, OfferRendezvous, Quiet, DoneIsClean
  <2>7. ConsentSound'
    BY DEF ConsentSound
  <2>8. HangupSound'
    BY DEF HangupSound, TypeOK
  <2>9. BusySound'
    BY DEF BusySound
  <2>10. CallNotForgotten'
    BY DEF CallNotForgotten
  <2> QED BY <2>1, <2>2, <2>3, <2>4, <2>5, <2>6, <2>7, <2>8, <2>9, <2>10
<1> QED BY <1>3, <1>4

LEMMA TerminateOrderly ==
  ASSUME Orderly, IInv, TypeOK', TerminateSession
  PROVE  OrderlyInv'
<1>1. CASE mProgress = "Done"
  <2> USE <1>1 DEF IInv, OrderlyInv, TerminateSession, sessions
  <2>1. OneDialog'
    BY DEF OneDialog, Active
  <2>2. DoneIsClean'
    BY DEF DoneIsClean
  <2>3. PointersSound'
    BY DEF PointersSound
  <2>4. PointersComplete'
    BY DEF PointersComplete
  <2>5. TerminationClears'
    BY DEF TerminationClears
  <2>6. IceSound'
    BY DEF IceSound, OfferRendezvous, DoneIsClean
  <2>7. ConsentSound'
    BY DEF ConsentSound
  <2>8. HangupSound'
    BY DialogAssumption DEF HangupSound, PointersComplete, DoneIsClean, Engaged
  <2>9. BusySound'
    BY DEF BusySound
  <2>10. CallNotForgotten'
    BY DEF CallNotForgotten
  <2> QED BY <2>1, <2>2, <2>3, <2>4, <2>5, <2>6, <2>7, <2>8, <2>9, <2>10
<1>2. CASE mProgress # "Done"
  <2>1. TearDown(m_clientInviteSession, m_serverInviteSession, dlg)
    BY <1>2 DEF TerminateSession
  <2>2. /\ ~isSecondaryUAC'
        /\ \A e \in Dialog : IF e \in Current /\ dlg[e] \in Engaged THEN dlg'[e] \in {"ended", "closing"}
                                                              ELSE dlg'[e] = dlg[e]
    BY <2>1, Ended DEF TearDown, IInv, OrderlyInv, TypeOK, Current
  <2>3. \A e \in Dialog : dlg[e] \in Engaged => e \in Current
    BY DEF IInv, OrderlyInv, PointersComplete, Engaged, Current
  <2>4. \A e \in Dialog : dlg[e] \notin Engaged =>
          dlg[e] \in {"free", "announced", "inviting", "failed", "closing", "ended"}
    BY DEF IInv, TypeOK, DialogState, Engaged
  <2>5. OneDialog'
    BY <2>2, <2>3, <2>4 DEF IInv, OrderlyInv, OneDialog, Active, Engaged
  <2>6. fault' = "none"
    BY <2>1, DialogAssumption DEF TearDown, IInv, OrderlyInv, Dangling, PointersSound, Allocated, Engaged
  <2>7. \A e \in hungup' : dlg'[e] \in {"inviting", "closing", "ended"}
    BY <2>2, <2>3 DEF TerminateSession, IInv, OrderlyInv, HangupSound, TypeOK, Engaged
  <2>8. \A e \in Dialog : dlg'[e] \in {"ended", "closing"}
                           \/ (dlg'[e] = dlg[e] /\ dlg[e] \in {"free", "announced", "inviting", "failed"})
    BY <2>2, <2>3, <2>4
  <2>9. /\ mProgress' = "Done" /\ ClearCall /\ ReportTerminate /\ ForgetSessions /\ ~draft
        /\ UNCHANGED <<ice, draft, rung, consent>>
    BY <2>1 DEF TearDown, TerminateSession
  <2> QED BY <2>2, <2>5, <2>6, <2>7, <2>8, <2>9, TornDown
<1> QED BY <1>1, <1>2

LEMMA RejectOrderly ==
  ASSUME Orderly, IInv, TypeOK', NEW d \in Dialog, Reject(d)
  PROVE  OrderlyInv'
<1>1. /\ UNCHANGED <<ice, draft, rung, consent, hungup>>
      /\ dlg[d] \in {"announced", "offered", "connected"} /\ Active(d)
      /\ dlg[d] \in {"offered", "connected"} => d \in rung
  BY DEF Reject, Orderly, Active
<1>2. ~draft /\ \A e \in Dialog : e # d => dlg[e] \in {"free", "ended"}
  BY <1>1 DEF IInv, OrderlyInv, OneDialog, Active, IceSound, Quiet
<1>3. CASE mProgress = "Done" /\ isUACRejected
  <2>1. UNCHANGED <<mProgress, isUACRejected, isSecondaryUAC, flags, sessions, dlg, appInCall, fault>>
    BY <1>3 DEF Reject
  <2> USE <1>1, <1>2, <1>3, <2>1 DEF IInv, OrderlyInv, flags, sessions
  <2>2. OneDialog'
    BY DEF OneDialog, Active
  <2>3. DoneIsClean'
    BY DEF DoneIsClean
  <2>4. PointersSound'
    BY DEF PointersSound
  <2>5. PointersComplete'
    BY DEF PointersComplete
  <2>6. TerminationClears'
    BY DEF TerminationClears
  <2>7. IceSound'
    BY DEF IceSound, OfferRendezvous, Active
  <2>8. ConsentSound'
    BY DEF ConsentSound
  <2>9. HangupSound'
    BY DEF HangupSound
  <2>10. BusySound'
    BY DEF BusySound
  <2>11. CallNotForgotten'
    BY DEF CallNotForgotten
  <2> QED BY <2>2, <2>3, <2>4, <2>5, <2>6, <2>7, <2>8, <2>9, <2>10, <2>11
<1>4. CASE ~(mProgress = "Done" /\ isUACRejected) /\ dlg[d] = "announced"
  <2>1. m_clientInviteSession = NoDialog /\ m_serverInviteSession = NoDialog
    BY <1>2, <1>4 DEF IInv, OrderlyInv, PointersSound
  <2>2. /\ mProgress' = "Done" /\ ReportTerminate /\ ClearCall /\ ForgetSessions
        /\ UNCHANGED <<dlg, isSecondaryUAC, fault>>
    BY <1>4, <2>1 DEF Reject, RejectSession, ForgetSessions, sessions
  <2>3. OneDialog'
    BY <2>2 DEF IInv, OrderlyInv, OneDialog, Active
  <2>4. \A e \in Dialog : dlg'[e] \in {"ended", "closing"}
                       \/ (dlg'[e] = dlg[e] /\ dlg[e] \in {"free", "announced", "inviting", "failed"})
    BY <1>2, <1>4, <2>2
  <2>5. \A e \in hungup' : dlg'[e] \in {"inviting", "closing", "ended"}
    BY <1>1, <2>2 DEF IInv, OrderlyInv, HangupSound
  <2>6. fault' = "none" /\ ~isSecondaryUAC'
    BY <2>2 DEF IInv, OrderlyInv
  <2> QED BY <1>1, <1>2, <2>2, <2>3, <2>4, <2>5, <2>6, TornDown
<1>5. CASE ~(mProgress = "Done" /\ isUACRejected) /\ dlg[d] # "announced"
  <2>1. /\ m_serverInviteSession = d /\ d # NoDialog /\ d # Wild
        /\ m_clientInviteSession \in {NoDialog, d}
        /\ dlg[d] = "offered" => m_clientInviteSession = NoDialog
    BY <1>1, <1>2, <1>5, DialogAssumption DEF IInv, OrderlyInv, PointersComplete, PointersSound
  <2>2. ~Dangling(d, dlg) /\ (dlg[d] = "connected" => mProgress # "Done")
    BY <1>1, <2>1, <1>5 DEF Dangling, Allocated, Engaged, IInv, OrderlyInv, BusySound
  <2>3. \/ /\ mProgress' = "Done" /\ EndSessions({d}, dlg) /\ fault' = fault /\ dlg[d] = "offered"
           /\ ReportTerminate /\ ClearCall /\ m_serverInviteSession' = NoDialog
           /\ UNCHANGED m_clientInviteSession
        \/ TearDown(m_clientInviteSession, d, dlg)
    BY <1>1, <1>3, <1>5, <2>1, <2>2 DEF Reject, RejectSession
  <2>4. EndSessions({m_clientInviteSession, d}, dlg) \/ EndSessions({d}, dlg)
    BY <2>3 DEF TearDown
  <2>5. /\ ~isSecondaryUAC' /\ dlg'[d] \in {"ended", "closing"}
        /\ \A e \in Dialog : e # d => dlg'[e] = dlg[e]
    BY <1>1, <1>2, <1>5, <2>4, Ended DEF IInv, OrderlyInv, TypeOK, Engaged
  <2>6. /\ mProgress' = "Done" /\ ReportTerminate /\ ClearCall /\ ForgetSessions /\ fault' = "none"
    BY <2>1, <2>2, <2>3 DEF TearDown, ForgetSessions, Dangling, IInv, OrderlyInv
  <2>7. OneDialog'
    BY <1>2, <2>5 DEF OneDialog, Active
  <2>8. \A e \in Dialog : dlg'[e] \in {"ended", "closing"}
                       \/ (dlg'[e] = dlg[e] /\ dlg[e] \in {"free", "announced", "inviting", "failed"})
    BY <1>2, <2>5
  <2>9. \A e \in hungup' : dlg'[e] \in {"inviting", "closing", "ended"}
    BY <1>1, <2>5 DEF IInv, OrderlyInv, HangupSound, TypeOK
  <2> QED BY <1>1, <1>2, <2>5, <2>6, <2>7, <2>8, <2>9, TornDown
<1> QED BY <1>3, <1>4, <1>5

LEMMA PushArrivesOrderly ==
  ASSUME Orderly, IInv, TypeOK', NEW d \in Dialog, PushArrives(d)
  PROVE  OrderlyInv'
<1>1. /\ Quiet /\ ~appInCall /\ ~draft /\ ice = 0 /\ dlg[d] = "free"
      /\ dlg' = [dlg EXCEPT ![d] = "announced"]
  BY DEF PushArrives, MayBegin, Orderly
<1>2. /\ dlg'[d] = "announced"
      /\ \A e \in Dialog : e # d => dlg'[e] = dlg[e] /\ dlg[e] \in {"free", "ended"}
  BY <1>1, QuietMoves DEF IInv, DialogState
<1> USE <1>1, <1>2 DEF IInv, OrderlyInv, PushArrives, ForgetRejection, flags, sessions, user
<1>3. OneDialog'
  BY DEF OneDialog, Active
<1>4. DoneIsClean'
  BY DEF DoneIsClean
<1>5. PointersSound'
  BY DEF PointersSound
<1>6. PointersComplete'
  BY DEF PointersComplete
<1>7. TerminationClears'
  BY DEF TerminationClears
<1>8. IceSound'
  BY DEF IceSound, OfferRendezvous, Active, UacSetup
<1>9. ConsentSound'
  BY DEF ConsentSound
<1>10. HangupSound'
  BY DEF HangupSound
<1>11. BusySound'
  BY DEF BusySound
<1>12. CallNotForgotten'
  BY DEF CallNotForgotten
<1> QED BY <1>3, <1>4, <1>5, <1>6, <1>7, <1>8, <1>9, <1>10, <1>11, <1>12

LEMMA InviteNeverComesOrderly ==
  ASSUME Orderly, IInv, TypeOK', NEW d \in Dialog, InviteNeverComes(d)
  PROVE  OrderlyInv'
<1>1. /\ dlg[d] = "announced" /\ Active(d)
      /\ dlg' = [dlg EXCEPT ![d] = "ended"]
  BY DEF InviteNeverComes, Active
<1>2. /\ dlg'[d] = "ended"
      /\ \A e \in Dialog : e # d => dlg'[e] = dlg[e] /\ dlg[e] \in {"free", "ended"}
  BY <1>1, OneMoves DEF IInv, OrderlyInv, DialogState
<1> USE <1>1, <1>2 DEF IInv, OrderlyInv, InviteNeverComes, sessions, flags, user
<1>3. OneDialog'
  BY DEF OneDialog, Active
<1>4. DoneIsClean'
  BY DEF DoneIsClean
<1>5. PointersSound'
  BY DEF PointersSound
<1>6. PointersComplete'
  BY DEF PointersComplete
<1>7. TerminationClears'
  BY DEF TerminationClears
<1>8. IceSound'
  BY DEF IceSound, OfferRendezvous, Active, UacSetup
<1>9. ConsentSound'
  BY DEF ConsentSound
<1>10. HangupSound'
  BY DEF HangupSound
<1>11. BusySound'
  BY DEF BusySound
<1>12. CallNotForgotten'
  BY DEF CallNotForgotten
<1> QED BY <1>3, <1>4, <1>5, <1>6, <1>7, <1>8, <1>9, <1>10, <1>11, <1>12

LEMMA OnIceOrderly ==
  ASSUME Orderly, IInv, TypeOK', OnIceGatheringFinished
  PROVE  OrderlyInv'
<1>1. /\ ~draft /\ ice = 1 /\ ice' = 0 /\ ~m_localCandidatesCollected
      /\ UNCHANGED <<mProgress, isUACRejected, isSecondaryUAC, m_isCaller,
                     m_inInBoundAccepted, sessions, draft, appInCall, user>>
  BY DEF OnIceGatheringFinished, Orderly, IInv, OrderlyInv, IceSound
<1>2. CASE mProgress = "Done"
  <2>1. UNCHANGED <<dlg, fault, m_localCandidatesCollected, m_inCall>>
    BY <1>2 DEF OnIceGatheringFinished
  <2>2. \A e \in Dialog : dlg[e] # "offered"
    BY <1>2, DialogAssumption DEF IInv, OrderlyInv, DoneIsClean, PointersComplete
  <2> USE <1>1, <1>2, <2>1, <2>2 DEF IInv, OrderlyInv, sessions, user
  <2>3. OneDialog'
    BY DEF OneDialog, Active
  <2>4. DoneIsClean'
    BY DEF DoneIsClean
  <2>5. PointersSound'
    BY DEF PointersSound
  <2>6. PointersComplete'
    BY DEF PointersComplete
  <2>7. TerminationClears'
    BY DEF TerminationClears
  <2>8. IceSound'
    BY DEF IceSound, OfferRendezvous
  <2>9. ConsentSound'
    BY DEF ConsentSound
  <2>10. HangupSound'
    BY DEF HangupSound
  <2>11. BusySound'
    BY DEF BusySound
  <2>12. CallNotForgotten'
    BY DEF CallNotForgotten
  <2> QED BY <2>3, <2>4, <2>5, <2>6, <2>7, <2>8, <2>9, <2>10, <2>11, <2>12
<1>3. CASE mProgress # "Done" /\ m_isCaller
  <2>1. Quiet
    BY <1>1, <1>3 DEF IInv, OrderlyInv, IceSound
  <2>2. SendSdpOffer /\ UNCHANGED fault /\ m_localCandidatesCollected' /\ m_inCall'
    BY <1>3 DEF OnIceGatheringFinished, CandidatesCollected
  <2>3. PICK d \in Dialog : dlg[d] = "free" /\ dlg' = [dlg EXCEPT ![d] = "inviting"]
    BY <2>2 DEF SendSdpOffer
  <2>4. /\ dlg'[d] = "inviting"
        /\ \A e \in Dialog : e # d => dlg'[e] = dlg[e] /\ dlg[e] \in {"free", "ended"}
    BY <2>1, <2>3, QuietMoves DEF IInv, DialogState
  <2> USE <1>1, <1>3, <2>1, <2>2, <2>3, <2>4 DEF IInv, OrderlyInv, sessions, user
  <2>5. OneDialog'
    BY DEF OneDialog, Active
  <2>6. DoneIsClean'
    BY DEF DoneIsClean
  <2>7. PointersSound'
    BY DEF PointersSound
  <2>8. PointersComplete'
    BY DEF PointersComplete
  <2>9. TerminationClears'
    BY DEF TerminationClears
  <2>10. IceSound'
    BY DEF IceSound, OfferRendezvous, Active, UacSetup
  <2>11. ConsentSound'
    BY DEF ConsentSound
  <2>12. HangupSound'
    BY DEF HangupSound
  <2>13. BusySound'
    BY DEF BusySound
  <2>14. CallNotForgotten'
    BY DEF CallNotForgotten
  <2> QED BY <2>5, <2>6, <2>7, <2>8, <2>9, <2>10, <2>11, <2>12, <2>13, <2>14
<1>4. CASE mProgress # "Done" /\ ~m_isCaller
  <2>1. PICK d \in Dialog : dlg[d] = "offered"
    BY <1>1, <1>4 DEF IInv, OrderlyInv, IceSound
  <2>2. m_serverInviteSession = d /\ Active(d)
    BY <2>1 DEF IInv, OrderlyInv, PointersComplete, Active
  <2>3. m_localCandidatesCollected' /\ m_inCall'
    BY <1>4 DEF OnIceGatheringFinished, CandidatesCollected
  <2>4. CASE m_inInBoundAccepted
    <3>1. d \in consent
      BY <2>1, <2>4 DEF IInv, OrderlyInv, ConsentSound, OneDialog, Active
    <3>2. dlg' = [dlg EXCEPT ![d] = "accepted"] /\ fault' = fault
      BY <1>4, <2>1, <2>2, <2>4 DEF OnIceGatheringFinished, SendSdpAnswer
    <3>3. /\ dlg'[d] = "accepted"
          /\ \A e \in Dialog : e # d => dlg'[e] = dlg[e] /\ dlg[e] \in {"free", "ended"}
      BY <2>2, <3>2, OneMoves DEF IInv, OrderlyInv, DialogState
    <3> USE <1>1, <1>4, <2>1, <2>2, <2>3, <2>4, <3>1, <3>2, <3>3 DEF IInv, OrderlyInv, sessions, user
    <3>4. OneDialog'
      BY DEF OneDialog, Active
    <3>5. DoneIsClean'
      BY DEF DoneIsClean
    <3>6. PointersSound'
      BY DEF PointersSound
    <3>7. PointersComplete'
      BY DEF PointersComplete
    <3>8. TerminationClears'
      BY DEF TerminationClears
    <3>9. IceSound'
      BY DEF IceSound, OfferRendezvous, Active
    <3>10. ConsentSound'
      BY DEF ConsentSound, UacSetup
    <3>11. HangupSound'
      BY DEF HangupSound
    <3>12. BusySound'
      BY DEF BusySound
    <3>13. CallNotForgotten'
      BY DEF CallNotForgotten
    <3> QED BY <3>4, <3>5, <3>6, <3>7, <3>8, <3>9, <3>10, <3>11, <3>12, <3>13
  <2>5. CASE ~m_inInBoundAccepted
    <3>1. UNCHANGED <<dlg, fault>>
      BY <1>4, <2>5 DEF OnIceGatheringFinished
    <3> USE <1>1, <1>4, <2>1, <2>2, <2>3, <2>5, <3>1 DEF IInv, OrderlyInv, sessions, user
    <3>2. OneDialog'
      BY DEF OneDialog, Active
    <3>3. DoneIsClean'
      BY DEF DoneIsClean
    <3>4. PointersSound'
      BY DEF PointersSound
    <3>5. PointersComplete'
      BY DEF PointersComplete
    <3>6. TerminationClears'
      BY DEF TerminationClears
    <3>7. IceSound'
      BY DEF IceSound, OfferRendezvous, Active, ConsentSound
    <3>8. ConsentSound'
      BY DEF ConsentSound
    <3>9. HangupSound'
      BY DEF HangupSound
    <3>10. BusySound'
      BY DEF BusySound
    <3>11. CallNotForgotten'
      BY DEF CallNotForgotten
    <3> QED BY <3>2, <3>3, <3>4, <3>5, <3>6, <3>7, <3>8, <3>9, <3>10, <3>11
  <2> QED BY <2>4, <2>5
<1> QED BY <1>2, <1>3, <1>4

-----------------------------------------------------------------------------
(* DUM's callbacks                                                          *)

LEMMA OnNewClientSessionOrderly ==
  ASSUME Orderly, IInv, TypeOK', NEW d \in Dialog, OnNewClientSession(d)
  PROVE  OrderlyInv'
<1> DEFINE st == [dlg EXCEPT ![d] = "responded"]
<1>1. /\ dlg[d] = "inviting" /\ Active(d) /\ ~draft
      /\ UNCHANGED <<ice, draft, user>>
      /\ IF mProgress = "Done"
         THEN TearDown(d, m_serverInviteSession, st)
         ELSE /\ mProgress' = "Dialing" /\ ForgetRejection
              /\ m_clientInviteSession' = d /\ dlg' = st
              /\ UNCHANGED <<isSecondaryUAC, flags, m_serverInviteSession, appInCall, fault>>
  BY DEF OnNewClientSession, ValidUserAgent, Orderly, Active, IInv, OrderlyInv, IceSound, Quiet
<1>2. /\ st \in [Dialog -> DialogState] /\ st[d] = "responded"
      /\ \A e \in Dialog : e # d => st[e] = dlg[e] /\ dlg[e] \in {"free", "ended"}
  BY <1>1 DEF IInv, OrderlyInv, TypeOK, OneDialog, Active, DialogState
<1>3. CASE mProgress = "Done"
  <2>1. TearDown(d, m_serverInviteSession, st) /\ m_serverInviteSession = NoDialog
    BY <1>1, <1>3 DEF IInv, OrderlyInv, DoneIsClean
  <2>2. /\ ~isSecondaryUAC' /\ dlg'[d] \in {"ended", "closing"}
        /\ \A e \in Dialog : e # d => dlg'[e] = dlg[e]
    <3> HIDE DEF st
    <3> QED BY <1>2, <2>1, Ended, DialogAssumption DEF TearDown, IInv, OrderlyInv, Engaged
  <2>3. fault' = "none"
    <3> HIDE DEF st
    <3> QED BY <1>2, <2>1, DialogAssumption DEF TearDown, Dangling, Allocated, Engaged, IInv, OrderlyInv
  <2>4. OneDialog'
    BY <1>2, <2>2 DEF OneDialog, Active
  <2>5. \A e \in hungup' : dlg'[e] \in {"inviting", "closing", "ended"}
    BY <1>1, <2>2 DEF IInv, OrderlyInv, HangupSound, TypeOK, user
  <2>6. /\ mProgress' = "Done" /\ ClearCall /\ ReportTerminate /\ ForgetSessions /\ ~draft
        /\ UNCHANGED <<ice, draft, rung, consent>>
    BY <1>1, <2>1 DEF TearDown, user
  <2>7. \A e \in Dialog : dlg'[e] \in {"ended", "closing"}
                           \/ (dlg'[e] = dlg[e] /\ dlg[e] \in {"free", "announced", "inviting", "failed"})
    BY <1>2, <2>2
  <2> QED BY <2>2, <2>3, <2>4, <2>5, <2>6, <2>7, TornDown
<1>4. CASE mProgress # "Done"
  <2>1. dlg'[d] = "responded" /\ \A e \in Dialog : e # d => dlg'[e] = dlg[e] /\ dlg[e] \in {"free", "ended"}
    BY <1>1, <1>2, <1>4
  <2>2. /\ mProgress' = "Dialing" /\ ~isUACRejected' /\ m_clientInviteSession' = d 
        /\ UNCHANGED <<isSecondaryUAC, flags, m_serverInviteSession, appInCall, fault, ice, draft, user>>
    BY <1>1, <1>4 DEF ForgetRejection
  <2> HIDE DEF st
  <2> USE <2>1, <2>2, <1>4, <1>1 DEF IInv, OrderlyInv, flags, user
  <2>3. OneDialog'
    BY DEF OneDialog, Active
  <2>4. DoneIsClean'
    BY DEF DoneIsClean
  <2>5. PointersSound'
    BY DEF PointersSound
  <2>6. PointersComplete'
    BY DEF PointersComplete
  <2>7. TerminationClears'
    BY DEF TerminationClears
  <2>8. IceSound'
    BY DEF IceSound, OfferRendezvous, Quiet, Active, UacSetup
  <2>9. ConsentSound'
    BY DEF ConsentSound, UacSetup, TypeOK
  <2>10. HangupSound'
    BY DEF HangupSound, TypeOK
  <2>11. BusySound'
    BY DEF BusySound
  <2>12. CallNotForgotten'
    BY DEF CallNotForgotten
  <2> QED BY <2>3, <2>4, <2>5, <2>6, <2>7, <2>8, <2>9, <2>10, <2>11, <2>12
<1> QED BY <1>3, <1>4

LEMMA OnProvisionalOrderly ==
  ASSUME Orderly, IInv, TypeOK', NEW d \in Dialog, OnProvisional(d)
  PROVE  OrderlyInv'
<1>1. /\ dlg[d] \in {"responded", "early"} /\ Active(d)
      /\ dlg' = [dlg EXCEPT ![d] = "early"]
  BY DEF OnProvisional, Active
<1>2. /\ dlg'[d] = "early"
      /\ \A e \in Dialog : e # d => dlg'[e] = dlg[e] /\ dlg[e] \in {"free", "ended"}
  BY <1>1, OneMoves DEF IInv, OrderlyInv, DialogState
<1> USE <1>1, <1>2 DEF IInv, OrderlyInv, OnProvisional, sessions, flags, user
<1>3. OneDialog'
  BY DEF OneDialog, Active
<1>4. DoneIsClean'
  BY DEF DoneIsClean
<1>5. PointersSound'
  BY DEF PointersSound
<1>6. PointersComplete'
  BY DEF PointersComplete
<1>7. TerminationClears'
  BY DEF TerminationClears
<1>8. IceSound'
  BY DialogAssumption DEF IceSound, OfferRendezvous, Quiet, Active, UacSetup, DoneIsClean, PointersComplete
<1>9. ConsentSound'
  BY DEF ConsentSound, UacSetup
<1>10. HangupSound'
  BY DEF HangupSound, TypeOK
<1>11. BusySound'
  BY DEF BusySound
<1>12. CallNotForgotten'
  BY DEF CallNotForgotten
<1> QED BY <1>3, <1>4, <1>5, <1>6, <1>7, <1>8, <1>9, <1>10, <1>11, <1>12

LEMMA OnAnswerOrderly ==
  ASSUME Orderly, IInv, TypeOK', NEW d \in Dialog, OnAnswer(d)
  PROVE  OrderlyInv'
<1>1. /\ dlg[d] \in {"responded", "early"} /\ Active(d)
      /\ dlg' = [dlg EXCEPT ![d] = "answered"]
  BY DEF OnAnswer, Active
<1>2. /\ dlg'[d] = "answered"
      /\ \A e \in Dialog : e # d => dlg'[e] = dlg[e] /\ dlg[e] \in {"free", "ended"}
  BY <1>1, OneMoves DEF IInv, OrderlyInv, DialogState
<1> USE <1>1, <1>2 DEF IInv, OrderlyInv, OnAnswer, sessions, flags, user
<1>3. OneDialog'
  BY DEF OneDialog, Active
<1>4. DoneIsClean'
  BY DEF DoneIsClean
<1>5. PointersSound'
  BY DEF PointersSound
<1>6. PointersComplete'
  BY DEF PointersComplete
<1>7. TerminationClears'
  BY DEF TerminationClears
<1>8. IceSound'
  BY DEF IceSound, OfferRendezvous, Quiet, Active, UacSetup
<1>9. ConsentSound'
  BY DEF ConsentSound, UacSetup
<1>10. HangupSound'
  BY DEF HangupSound
<1>11. BusySound'
  BY DEF BusySound
<1>12. CallNotForgotten'
  BY DEF CallNotForgotten
<1> QED BY <1>3, <1>4, <1>5, <1>6, <1>7, <1>8, <1>9, <1>10, <1>11, <1>12

LEMMA OnFailureOrderly ==
  ASSUME Orderly, IInv, TypeOK', NEW d \in Dialog, OnFailure(d)
  PROVE  OrderlyInv'
<1>1. /\ dlg[d] \in {"responded", "early"} /\ Active(d)
      /\ dlg' = [dlg EXCEPT ![d] = "failed"]
  BY DEF OnFailure, Active
<1>2. /\ dlg'[d] = "failed"
      /\ \A e \in Dialog : e # d => dlg'[e] = dlg[e] /\ dlg[e] \in {"free", "ended"}
  BY <1>1, OneMoves DEF IInv, OrderlyInv, DialogState
<1> USE <1>1, <1>2 DEF IInv, OrderlyInv, OnFailure, sessions, flags, user
<1>3. OneDialog'
  BY DEF OneDialog, Active
<1>4. DoneIsClean'
  BY DEF DoneIsClean
<1>5. PointersSound'
  BY DEF PointersSound
<1>6. PointersComplete'
  BY DEF PointersComplete
<1>7. TerminationClears'
  BY DEF TerminationClears
<1>8. IceSound'
  BY DEF IceSound, OfferRendezvous, Quiet, Active
<1>9. ConsentSound'
  BY DEF ConsentSound, UacSetup
<1>10. HangupSound'
  BY DEF HangupSound
<1>11. BusySound'
  BY DEF BusySound
<1>12. CallNotForgotten'
  BY DEF CallNotForgotten
<1> QED BY <1>3, <1>4, <1>5, <1>6, <1>7, <1>8, <1>9, <1>10, <1>11, <1>12

LEMMA OnConnectedOrderly ==
  ASSUME Orderly, IInv, TypeOK', NEW d \in Dialog, OnConnected(d)
  PROVE  OrderlyInv'
<1>1. /\ dlg[d] \in {"answered", "accepted"} /\ Active(d)
      /\ dlg' = [dlg EXCEPT ![d] = "connected"]
  BY DEF OnConnected, Active
<1>2. /\ dlg'[d] = "connected"
      /\ \A e \in Dialog : e # d => dlg'[e] = dlg[e] /\ dlg[e] \in {"free", "ended"}
  BY <1>1, OneMoves DEF IInv, OrderlyInv, DialogState
<1> USE <1>1, <1>2 DEF IInv, OrderlyInv, OnConnected, sessions, flags, user
<1>3. OneDialog'
  BY DEF OneDialog, Active
<1>4. DoneIsClean'
  BY DEF DoneIsClean
<1>5. PointersSound'
  BY DEF PointersSound
<1>6. PointersComplete'
  BY DEF PointersComplete, ConsentSound, UacSetup
<1>7. TerminationClears'
  BY DEF TerminationClears
<1>8. IceSound'
  BY DialogAssumption DEF IceSound, OfferRendezvous, Quiet, Active, DoneIsClean, PointersComplete
<1>9. ConsentSound'
  BY DEF ConsentSound, UacSetup
<1>10. HangupSound'
  BY DEF HangupSound, TypeOK
<1>11. BusySound'
  BY DEF BusySound
<1>12. CallNotForgotten'
  BY DEF CallNotForgotten
<1> QED BY <1>3, <1>4, <1>5, <1>6, <1>7, <1>8, <1>9, <1>10, <1>11, <1>12

LEMMA OnTerminatedOrderly ==
  ASSUME Orderly, IInv, TypeOK', NEW d \in Dialog, OnTerminated(d)
  PROVE  OrderlyInv'
<1>1. /\ dlg' = [dlg EXCEPT ![d] = "ended"] /\ Active(d) /\ ~isSecondaryUAC
      /\ dlg[d] \in {"early", "failed", "offered", "accepted", "connected", "closing"}
  BY DEF OnTerminated, Active, IInv, OrderlyInv
<1>2. /\ dlg'[d] = "ended"
      /\ \A e \in Dialog : e # d => dlg'[e] = dlg[e] /\ dlg[e] \in {"free", "ended"}
  BY <1>1, OneMoves DEF IInv, OrderlyInv, DialogState
<1>3. CASE mProgress = "Done"
  <2> USE <1>1, <1>2, <1>3 DEF IInv, OrderlyInv, OnTerminated, sessions, user
  <2>1. OneDialog'
    BY DEF OneDialog, Active
  <2>2. DoneIsClean'
    BY DEF DoneIsClean
  <2>3. PointersSound'
    BY DEF PointersSound, DoneIsClean
  <2>4. PointersComplete'
    BY DEF PointersComplete
  <2>5. TerminationClears'
    BY DEF TerminationClears
  <2>6. IceSound'
    BY DEF IceSound, OfferRendezvous, Quiet
  <2>7. ConsentSound'
    BY DEF ConsentSound, UacSetup, DoneIsClean
  <2>8. HangupSound'
    BY DEF HangupSound
  <2>9. BusySound'
    BY DEF BusySound
  <2>10. CallNotForgotten'
    BY DEF CallNotForgotten, DoneIsClean
  <2> QED BY <2>1, <2>2, <2>3, <2>4, <2>5, <2>6, <2>7, <2>8, <2>9, <2>10
<1>4. CASE mProgress # "Done"
  <2>1. m_inCall /\ ~isUACRejected
    BY <1>1, <1>4 DEF IInv, OrderlyInv, TerminationClears, PointersComplete
  <2>2. /\ ClearCall /\ ForgetSessions /\ mProgress' = "Done" /\ ~appInCall' /\ ~isSecondaryUAC'
        /\ UNCHANGED <<isUACRejected, ice, draft, user, fault>>
    BY <1>1, <1>4, <2>1 DEF OnTerminated, ReportTerminate
  <2> USE <1>1, <1>2, <1>4, <2>1, <2>2 DEF IInv, OrderlyInv, ClearCall, ForgetSessions, user
  <2>3. OneDialog'
    BY DEF OneDialog, Active
  <2>4. DoneIsClean'
    BY DEF DoneIsClean
  <2>5. PointersSound'
    BY DEF PointersSound
  <2>6. PointersComplete'
    BY DEF PointersComplete
  <2>7. TerminationClears'
    BY DialogAssumption DEF TerminationClears
  <2>8. IceSound'
    BY DEF IceSound, OfferRendezvous, Quiet
  <2>9. ConsentSound'
    BY DEF ConsentSound, UacSetup, TypeOK
  <2>10. HangupSound'
    BY DEF HangupSound
  <2>11. BusySound'
    BY DEF BusySound
  <2>12. CallNotForgotten'
    BY DEF CallNotForgotten
  <2> QED BY <2>3, <2>4, <2>5, <2>6, <2>7, <2>8, <2>9, <2>10, <2>11, <2>12
<1> QED BY <1>3, <1>4

LEMMA OnNewServerSessionOrderly ==
  ASSUME Orderly, IInv, TypeOK', NEW d \in Dialog, OnNewServerSession(d)
  PROVE  OrderlyInv'
<1>1. CASE mProgress = "Connected"
  <2>1. PICK c \in Dialog : dlg[c] = "connected"
    BY <1>1 DEF IInv, OrderlyInv, BusySound
  <2>2. dlg[d] = "free"
    BY <2>1 DEF OnNewServerSession, InviteMayArrive, IInv, OrderlyInv, OneDialog, Active
  <2>3. dlg'[d] = "ended" /\ \A e \in Dialog : e # d => dlg'[e] = dlg[e]
    BY <1>1 DEF OnNewServerSession, RejectOtherCall, IInv, TypeOK
  <2>4. /\ ~isSecondaryUAC'
        /\ UNCHANGED <<mProgress, isUACRejected, flags, sessions, appInCall, fault, ice, draft,
                       rung, consent, hungup>>
    BY <1>1 DEF OnNewServerSession, RejectOtherCall
  <2> USE <1>1, <2>1, <2>2, <2>3, <2>4 DEF IInv, OrderlyInv, flags, sessions
  <2>5. OneDialog'
    BY DEF OneDialog, Active
  <2>6. DoneIsClean'
    BY DEF DoneIsClean
  <2>7. PointersSound'
    BY DEF PointersSound
  <2>8. PointersComplete'
    BY DEF PointersComplete
  <2>9. TerminationClears'
    BY DEF TerminationClears
  <2>10. IceSound'
    BY DEF IceSound, OfferRendezvous, Quiet, Active
  <2>11. ConsentSound'
    BY DEF ConsentSound, TypeOK
  <2>12. HangupSound'
    BY DEF HangupSound, TypeOK
  <2>13. BusySound'
    BY DEF BusySound
  <2>14. CallNotForgotten'
    BY DEF CallNotForgotten
  <2> QED BY <2>5, <2>6, <2>7, <2>8, <2>9, <2>10, <2>11, <2>12, <2>13, <2>14
<1>2. CASE mProgress # "Connected"
  <2> DEFINE st == [dlg EXCEPT ![d] = "invited"]
  <2>1. ~draft /\ ice = 0 /\ \A e \in Dialog : e # d => dlg[e] \in {"free", "ended"}
    BY <1>2 DEF OnNewServerSession, InviteMayArrive, MayBegin, Orderly, IInv, OrderlyInv,
       OneDialog, Active, Quiet, IceSound
  <2>2. dlg[d] \in {"free", "announced"}
    BY <1>2 DEF OnNewServerSession, InviteMayArrive
  <2>3. m_clientInviteSession = NoDialog /\ m_serverInviteSession = NoDialog
    BY <2>1, <2>2 DEF IInv, OrderlyInv, PointersSound
  <2>4. /\ st \in [Dialog -> DialogState] /\ st[d] = "invited"
        /\ \A e \in Dialog : e # d => st[e] = dlg[e]
    BY DEF IInv, TypeOK, DialogState
  <2>5. /\ ForgetRejection
        /\ IF isUACRejected
           THEN /\ mProgress' = "Done" /\ EndSessions({d}, st)
                /\ ReportTerminate /\ ClearCall /\ m_serverInviteSession' = NoDialog
           ELSE /\ mProgress' = "Ringing" /\ dlg' = st
                /\ isSecondaryUAC' = FALSE /\ m_serverInviteSession' = d
                /\ UNCHANGED <<flags, appInCall>>
        /\ UNCHANGED <<m_clientInviteSession, fault, ice, draft, rung, consent, hungup>>
    BY <1>2 DEF OnNewServerSession, ValidUserAgent, Orderly
  <2> HIDE DEF st
  <2>6. CASE isUACRejected
    <3>1. /\ ~isSecondaryUAC' /\ dlg'[d] \in {"ended", "closing"}
          /\ \A e \in Dialog : e # d => dlg'[e] = dlg[e]
      BY <2>4, <2>5, <2>6, Ended DEF IInv, OrderlyInv, Engaged
    <3>2. OneDialog'
      BY <2>1, <3>1 DEF OneDialog, Active
    <3>3. \A e \in hungup' : dlg'[e] \in {"inviting", "closing", "ended"}
      BY <2>5, <3>1 DEF IInv, OrderlyInv, HangupSound, TypeOK
    <3>4. \A e \in Dialog : dlg'[e] \in {"ended", "closing"}
                         \/ (dlg'[e] = dlg[e] /\ dlg[e] \in {"free", "announced", "inviting", "failed"})
      BY <2>1, <3>1
    <3>5. /\ mProgress' = "Done" /\ ClearCall /\ ReportTerminate /\ ForgetSessions
          /\ fault' = "none" /\ UNCHANGED <<ice, draft, rung, consent>>
      BY <2>3, <2>5, <2>6 DEF ForgetSessions, IInv, OrderlyInv
    <3> QED BY <2>1, <3>1, <3>2, <3>3, <3>4, <3>5, TornDown
  <2>7. CASE ~isUACRejected
    <3>1. dlg'[d] = "invited" /\ \A e \in Dialog : e # d => dlg'[e] = dlg[e] /\ dlg[e] \in {"free", "ended"}
      BY <2>1, <2>4, <2>5, <2>7
    <3>2. /\ mProgress' = "Ringing" /\ ~isSecondaryUAC' /\ ~isUACRejected' /\ m_serverInviteSession' = d
          /\ UNCHANGED <<flags, appInCall, m_clientInviteSession, fault, ice, draft, rung, consent, hungup>>
      BY <2>5, <2>7 DEF ForgetRejection
    <3> USE <1>2, <2>1, <2>2, <2>3, <3>1, <3>2, DialogAssumption DEF IInv, OrderlyInv, flags
    <3>3. OneDialog'
      BY DEF OneDialog, Active
    <3>4. DoneIsClean'
      BY DEF DoneIsClean
    <3>5. PointersSound'
      BY DEF PointersSound
    <3>6. PointersComplete'
      BY DEF PointersComplete
    <3>7. TerminationClears'
      BY DEF TerminationClears
    <3>8. IceSound'
      BY DEF IceSound, OfferRendezvous, Active
    <3>9. ConsentSound'
      BY DEF ConsentSound, TypeOK
    <3>10. HangupSound'
      BY DEF HangupSound, TypeOK
    <3>11. BusySound'
      BY DEF BusySound
    <3>12. CallNotForgotten'
      BY DEF CallNotForgotten
    <3> QED BY <3>3, <3>4, <3>5, <3>6, <3>7, <3>8, <3>9, <3>10, <3>11, <3>12
  <2> QED BY <2>6, <2>7
<1> QED BY <1>1, <1>2

LEMMA OnOfferOrderly ==
  ASSUME Orderly, IInv, TypeOK', NEW d \in Dialog, OnOffer(d)
  PROVE  OrderlyInv'
<1>1. /\ dlg[d] = "invited" /\ Active(d) /\ ice = 0 /\ ice' = 1 /\ ~draft
      /\ dlg' = [dlg EXCEPT ![d] = "offered"]
  BY DEF OnOffer, Active, IInv, OrderlyInv, IceSound, Quiet
<1>2. /\ dlg'[d] = "offered"
      /\ \A e \in Dialog : e # d => dlg'[e] = dlg[e] /\ dlg[e] \in {"free", "ended"}
  BY <1>1, OneMoves DEF IInv, OrderlyInv, DialogState
<1> USE <1>1, <1>2 DEF IInv, OrderlyInv, OnOffer, sessions
<1>3. OneDialog'
  BY DEF OneDialog, Active
<1>4. DoneIsClean'
  BY DialogAssumption DEF DoneIsClean, PointersComplete
<1>5. PointersSound'
  BY DEF PointersSound
<1>6. PointersComplete'
  BY DEF PointersComplete
<1>7. TerminationClears'
  BY DEF TerminationClears
<1>8. IceSound'
  BY DEF IceSound, OfferRendezvous, Active
<1>9. ConsentSound'
  BY DEF ConsentSound, UacSetup
<1>10. HangupSound'
  BY DEF HangupSound
<1>11. BusySound'
  BY DEF BusySound
<1>12. CallNotForgotten'
  BY DEF CallNotForgotten
<1> QED BY <1>3, <1>4, <1>5, <1>6, <1>7, <1>8, <1>9, <1>10, <1>11, <1>12

-----------------------------------------------------------------------------
(* The theorems                                                             *)

LEMMA OrderlyStep ==
  ASSUME Orderly, IInv, [Next]_vars
  PROVE  IInv'
<1>1. TypeOK'
  BY TypeStep DEF IInv
<1>2. OrderlyInv'
  <2>1. CASE AppNext
    BY <1>1, <2>1, StartOutgoingOrderly, CreateSessionOrderly, TerminateOrderly, OnIceOrderly,
       AcceptSessionOrderly, RejectOrderly, PushArrivesOrderly, InviteNeverComesOrderly DEF AppNext
  <2>2. CASE DumNext
    BY <1>1, <2>2, OnNewClientSessionOrderly, OnProvisionalOrderly, OnAnswerOrderly, OnFailureOrderly,
       OnConnectedOrderly, OnTerminatedOrderly, OnNewServerSessionOrderly, OnOfferOrderly
       DEF DumNext, OnEarlyMedia
  <2>3. CASE UNCHANGED vars
    <3> USE <2>3 DEF IInv, OrderlyInv, vars, flags, sessions, user
    <3>1. OneDialog'
      BY DEF OneDialog, Active
    <3>2. DoneIsClean'
      BY DEF DoneIsClean
    <3>3. PointersSound'
      BY DEF PointersSound
    <3>4. PointersComplete'
      BY DEF PointersComplete
    <3>5. TerminationClears'
      BY DEF TerminationClears
    <3>6. IceSound'
      BY DEF IceSound, OfferRendezvous, Quiet, Active
    <3>7. ConsentSound'
      BY DEF ConsentSound
    <3>8. HangupSound'
      BY DEF HangupSound
    <3>9. BusySound'
      BY DEF BusySound
    <3>10. CallNotForgotten'
      BY DEF CallNotForgotten
    <3> QED BY <3>1, <3>2, <3>3, <3>4, <3>5, <3>6, <3>7, <3>8, <3>9, <3>10
  <2> QED BY <2>1, <2>2, <2>3 DEF Next
<1> QED BY <1>1, <1>2 DEF IInv

\* With one call at a time, pushed or not, call control keeps its pointers, its
\* flags and its pending callbacks in step with DUM's dialogs.
THEOREM OrderlyCorrect ==
  ASSUME Orderly
  PROVE  Spec => []IInv
<1>1. Init => IInv
  BY InitOrderly, InitType DEF IInv
<1>2. IInv /\ [Next]_vars => IInv'
  BY OrderlyStep
<1> QED BY <1>1, <1>2, PTL DEF Spec

\* No incoming call is answered that its user did not answer.
THEOREM AnswersAreConsented ==
  ASSUME Orderly
  PROVE  Spec => []AnsweredByConsent
<1>1. IInv => AnsweredByConsent
  BY DialogAssumption DEF IInv, OrderlyInv, AnsweredByConsent, ConsentSound, TypeOK
<1> QED BY <1>1, OrderlyCorrect, PTL

\* A session pointer is null or points to a session DUM has not freed.
THEOREM PointersStayAllocated ==
  ASSUME Orderly
  PROVE  Spec => []PointersAllocated
<1>1. IInv => PointersAllocated
  BY DialogAssumption DEF IInv, OrderlyInv, PointersAllocated, PointersSound, Current, Allocated, Engaged
<1> QED BY <1>1, OrderlyCorrect, PTL

\* A hang-up reaches every dialog that can still carry a call.
THEOREM LiveDialogsStayOwned ==
  ASSUME Orderly
  PROVE  Spec => []LiveDialogsOwned
<1>1. IInv => LiveDialogsOwned
  BY DialogAssumption DEF IInv, OrderlyInv, LiveDialogsOwned, PointersComplete, Current, Engaged
<1> QED BY <1>1, OrderlyCorrect, PTL

\* A call that is over leaves no member set for the next one.
THEOREM CallsEndClean ==
  ASSUME Orderly
  PROVE  Spec => []CleanSlate
<1>1. IInv => CleanSlate
  BY DialogAssumption DEF IInv, OrderlyInv, CleanSlate, DoneIsClean, Quiet
<1> QED BY <1>1, OrderlyCorrect, PTL

\* No handler goes through a null, a freed or an unfit session.
THEOREM AnswersAreWellPlaced ==
  ASSUME Orderly
  PROVE  Spec => []NoBadAnswer
<1>1. IInv => NoBadAnswer
  BY DialogAssumption DEF IInv, OrderlyInv, NoBadAnswer
<1> QED BY <1>1, OrderlyCorrect, PTL

\* A call the user hung up never connects.
THEOREM HangUpsAreFinal ==
  ASSUME Orderly
  PROVE  Spec => []HungUpStaysDown
<1>1. IInv => HungUpStaysDown
  BY DialogAssumption DEF IInv, OrderlyInv, HungUpStaysDown, HangupSound
<1> QED BY <1>1, OrderlyCorrect, PTL

\* mProgress tells onNewSession of a connected call exactly when there is one.
THEOREM SecondCallersAreBusy ==
  ASSUME Orderly
  PROVE  Spec => []BusyWhenConnected
<1>1. IInv => BusyWhenConnected
  BY DialogAssumption DEF IInv, OrderlyInv, BusyWhenConnected, BusySound, PointersComplete, Current
<1> QED BY <1>1, OrderlyCorrect, PTL

\* The offer and the ICE candidates never wait for each other.
THEOREM OffersMeetCandidates ==
  ASSUME Orderly
  PROVE  Spec => []OfferRendezvous
<1>1. IInv => OfferRendezvous
  BY DialogAssumption DEF IInv, OrderlyInv, OfferRendezvous, IceSound
<1> QED BY <1>1, OrderlyCorrect, PTL

-----------------------------------------------------------------------------
(* A rejection is spent on the call it was for, when a push announces each  *)

Pushed == Env \subseteq {"lostInvite"}

\* A rejection that stands is one of the call to come, if there is one.
RejectionSound ==
  /\ RejectedByUser
  /\ isUACRejected => \A d \in Dialog : dlg[d] = "announced" => d \in declined

LEMMA RejectionStep ==
  ASSUME Pushed, IInv, RejectionSound, [Next]_vars
  PROVE  RejectionSound'
<1> USE DEF IInv, OrderlyInv, TypeOK, RejectionSound, RejectedByUser
<1>1. ASSUME NEW d \in Dialog, Reject(d)
      PROVE  RejectionSound'
  <2>1. Active(d) /\ declined' = declined \cup {d}
    BY <1>1 DEF Reject, Pushed, Active
  <2>2. m_serverInviteSession = NoDialog \/ m_serverInviteSession = d
    BY <2>1 DEF PointersSound, OneDialog, Active
  <2>3. refused' \subseteq refused \cup {d}
    BY <1>1, <2>2 DEF Reject, RejectSession
  <2>4. dlg' = dlg \/ \E S : EndSessions(S, dlg)
    BY <1>1 DEF Reject, RejectSession, TearDown
  <2>5. \A e \in Dialog : dlg'[e] = "announced" => dlg[e] = "announced"
    BY <2>4, Ended
  <2>6. \A e \in Dialog : dlg[e] = "announced" => e = d
    BY <2>1 DEF OneDialog, Active
  <2> QED BY <2>1, <2>3, <2>5, <2>6
<1>2. ASSUME NEW d \in Dialog, OnNewServerSession(d)
      PROVE  RejectionSound'
  <2>1. CASE mProgress = "Connected"
    <3>1. dlg' = [dlg EXCEPT ![d] = "ended"] /\ UNCHANGED <<isUACRejected, refused, declined>>
      BY <1>2, <2>1 DEF OnNewServerSession, RejectOtherCall
    <3> QED BY <3>1
  <2>2. CASE mProgress # "Connected"
    <3>1. dlg[d] = "announced" /\ isUACRejected' = FALSE /\ declined' = declined
      BY <1>2, <2>2 DEF OnNewServerSession, InviteMayArrive, Pushed, ForgetRejection
    <3>2. refused' = refused \/ (isUACRejected /\ refused' = refused \cup {d})
      BY <1>2, <2>2 DEF OnNewServerSession
    <3> QED BY <3>1, <3>2
  <2> QED BY <2>1, <2>2
<1>3. ASSUME NEW d \in Dialog, PushArrives(d)
      PROVE  RejectionSound'
  BY <1>3 DEF PushArrives, ForgetRejection, user
<1>4. CASE TerminateSession \/ \E d \in Dialog : OnNewClientSession(d)
  <2>1. UNCHANGED <<refused, declined>> /\ (isUACRejected' => isUACRejected)
    BY <1>4 DEF TerminateSession, OnNewClientSession, TearDown, ForgetRejection, user
  <2>2. PICK st \in [Dialog -> DialogState] :
          /\ \A e \in Dialog : st[e] = "announced" => dlg[e] = "announced"
          /\ dlg' = st \/ \E S : EndSessions(S, st)
    <3>1. CASE TerminateSession
      BY <3>1 DEF TerminateSession, TearDown
    <3>2. ASSUME NEW d \in Dialog, OnNewClientSession(d)
          PROVE  dlg' = [dlg EXCEPT ![d] = "responded"] \/ \E S : EndSessions(S, [dlg EXCEPT ![d] = "responded"])
      BY <3>2 DEF OnNewClientSession, TearDown
    <3>3. \A d \in Dialog : /\ [dlg EXCEPT ![d] = "responded"] \in [Dialog -> DialogState]
                            /\ \A e \in Dialog : [dlg EXCEPT ![d] = "responded"][e] = "announced"
                                                   => dlg[e] = "announced"
      BY DEF DialogState
    <3> QED BY <1>4, <3>1, <3>2, <3>3
  <2>3. \A e \in Dialog : dlg'[e] = "announced" => dlg[e] = "announced"
    BY <2>2, Ended
  <2> QED BY <2>1, <2>3
<1>5. CASE \/ StartOutgoing \/ CreateSession \/ OnIceGatheringFinished \/ UNCHANGED vars
           \/ \E d \in Dialog : AcceptSession(d) \/ InviteNeverComes(d)
  BY <1>5 DEF StartOutgoing, CreateSession, OnIceGatheringFinished, AcceptSession, InviteNeverComes,
              SendSdpOffer, SendSdpAnswer, vars, user
<1>6. CASE \E d \in Dialog : \/ OnProvisional(d) \/ OnEarlyMedia(d) \/ OnAnswer(d) \/ OnFailure(d)
                             \/ OnConnected(d) \/ OnTerminated(d) \/ OnOffer(d)
  BY <1>6 DEF OnProvisional, OnEarlyMedia, OnAnswer, OnFailure, OnConnected, OnTerminated, OnOffer, user
<1> QED BY <1>1, <1>2, <1>3, <1>4, <1>5, <1>6 DEF Next, AppNext, DumNext

\* With a push before each incoming call, the SDK refuses only calls their user
\* declined.
THEOREM RefusalsAreMeant ==
  ASSUME Pushed
  PROVE  Spec => []RejectedByUser
<1>1. Orderly
  BY DEF Pushed, Orderly
<1>2. Init => RejectionSound
  BY DEF Pushed, Init, RejectionSound, RejectedByUser
<1>3. IInv /\ RejectionSound /\ [Next]_vars => RejectionSound'
  BY RejectionStep
<1>4. RejectionSound => RejectedByUser
  BY DEF RejectionSound
<1>5. Spec => []IInv
  BY <1>1, OrderlyCorrect
<1> QED BY <1>2, <1>3, <1>4, <1>5, PTL DEF Spec
=============================================================================
