-------------------------- MODULE SipReceiverProofs --------------------------
(***************************************************************************)
(* Safety of the receiver threads, for any set of threads and any of the   *)
(* conditions of the environment.                                          *)
(***************************************************************************)
EXTENDS SipReceiver, TLAPS

\* TypeOK is inductive: every handler leaves every variable of SipReceiver in
\* its type.
LEMMA TypeStep == TypeOK /\ [Next]_vars => TypeOK'
<1> SUFFICES ASSUME TypeOK, [Next]_vars
             PROVE  TypeOK'
  OBVIOUS
<1> USE DEF TypeOK, Place, MainAt, Phase
<1>1. CASE RegisterUser
  BY <1>1 DEF RegisterUser, SetupTransport
<1>2. CASE UnregisterUser
  BY <1>2 DEF UnregisterUser, SetupTransport
<1>3. CASE ResetStack
  BY <1>3 DEF ResetStack, threads
<1>4. CASE StopReceivers
  BY <1>4 DEF StopReceivers, sip
<1>5. CASE WaitForClose
  BY <1>5 DEF WaitForClose, sip
<1>6. CASE EndWait
  BY <1>6 DEF EndWait, sip
<1>7. ASSUME NEW t \in Thread, Receive(t)
      PROVE  TypeOK'
  <2>1. CASE BeginProcess(t)
    BY <2>1 DEF BeginProcess, sip
  <2>2. CASE EndProcess(t)
    BY <2>2 DEF EndProcess
  <2>3. CASE ReadRun(t)
    BY <2>3 DEF ReadRun, sip
  <2>4. CASE EndSleep(t)
    BY <2>4 DEF EndSleep, sip
  <2>5. CASE CloseReceiver(t)
    BY <2>5 DEF CloseReceiver, sip
  <2>6. CASE NotifyClosed(t)
    BY <2>6 DEF NotifyClosed, sip
  <2> QED BY <1>7, <2>1, <2>2, <2>3, <2>4, <2>5, <2>6 DEF Receive
<1>8. CASE Challenge
  BY <1>8 DEF Challenge, threads
<1>9. CASE Decide
  BY <1>9 DEF Decide, threads
<1>10. CASE UNCHANGED vars
  BY <1>10 DEF vars, threads, sip
<1> QED BY <1>1, <1>2, <1>3, <1>4, <1>5, <1>6, <1>7, <1>8, <1>9, <1>10 DEF Next

\* The type invariant holds of every behaviour: the threads, the mutex and the
\* REGISTER in progress keep their types.
THEOREM TypeCorrect == Spec => []TypeOK
<1>1. Init => TypeOK
  BY DEF Init, TypeOK, Place, MainAt, Phase
<1> QED BY <1>1, TypeStep, PTL DEF Spec

-----------------------------------------------------------------------------
(***************************************************************************)
(* Why logout() always has someone to wake it, and a login someone to      *)
(* serve it.  A receiver that has not closed will set m_receiveClosed      *)
(* before it notifies; setupTransport resets the flag only together with   *)
(* starting a receiver.  So from the moment unregisterUser starts its own  *)
(* receiver until it looks at the flag, either the flag is set or some     *)
(* receiver has still to set it.                                           *)
(***************************************************************************)
Unclosed(t) == pc[t] \in {"process", "inside", "lock", "sleep", "close"}

LoggedInServed == session = "in" => main = "idle" /\ m_run /\ \E t \in Thread : Serving(t)
CloserAhead    == main \in {"stop", "check"} /\ ~m_receiveClosed => \E t \in Thread : Unclosed(t)

ReceiverInv == LoggedInServed /\ CloserAhead /\ WaiterHasNotifier

\* Starting a receiver makes all three parts true at once, whatever the others do.
LEMMA SetupServes ==
  ASSUME TypeOK, NEW b \in BOOLEAN, SetupTransport(b)
  PROVE  /\ m_run'
         /\ \E t \in Thread : Serving(t)'
         /\ \E t \in Thread : Unclosed(t)'
<1>1. PICK t \in Thread : pc' = [pc EXCEPT ![t] = "process"]
  BY DEF SetupTransport
<1>2. pc'[t] = "process"
  BY <1>1 DEF TypeOK
<1> QED BY <1>2 DEF SetupTransport, Serving, Unclosed

\* A receiver's step leaves the other receivers where they are.
LEMMA OthersStay ==
  ASSUME TypeOK, NEW t \in Thread, Receive(t)
  PROVE  \A u \in Thread \ {t} : pc'[u] = pc[u] /\ run'[u] = run[u]
BY DEF TypeOK, Receive, BeginProcess, EndProcess, ReadRun, EndSleep, CloseReceiver, NotifyClosed

\* While m_run is set a serving receiver goes on serving.
LEMMA ServingStays ==
  ASSUME TypeOK, NEW t \in Thread, Receive(t), m_run,
         \E u \in Thread : Serving(u)
  PROVE  \E u \in Thread : Serving(u)'
<1>1. PICK u \in Thread : Serving(u)
  OBVIOUS
<1>2. CASE u # t
  BY <1>1, <1>2, OthersStay DEF Serving
<1>3. CASE u = t
  <2>1. BeginProcess(t) \/ EndProcess(t) \/ ReadRun(t) \/ EndSleep(t)
    BY <1>1, <1>3 DEF Serving, Receive, CloseReceiver, NotifyClosed
  <2> QED BY <2>1, <1>1, <1>3 DEF TypeOK, Serving, BeginProcess, EndProcess, ReadRun, EndSleep
<1> QED BY <1>2, <1>3

\* A receiver stays ahead of its closing until it has set m_receiveClosed.
LEMMA UnclosedStays ==
  ASSUME TypeOK, NEW t \in Thread, Receive(t), ~m_receiveClosed',
         \E u \in Thread : Unclosed(u)
  PROVE  \E u \in Thread : Unclosed(u)'
<1>1. PICK u \in Thread : Unclosed(u)
  OBVIOUS
<1>2. CASE u # t
  BY <1>1, <1>2, OthersStay DEF Unclosed
<1>3. CASE u = t
  <2>1. BeginProcess(t) \/ EndProcess(t) \/ ReadRun(t) \/ EndSleep(t)
    BY <1>1, <1>3 DEF Unclosed, Receive, CloseReceiver, NotifyClosed
  <2> QED BY <2>1, <1>1, <1>3 DEF TypeOK, Unclosed, BeginProcess, EndProcess, ReadRun, EndSleep
<1> QED BY <1>2, <1>3

\* A receiver dies only by notifying, which ends the wait.
LEMMA WaiterStays ==
  ASSUME TypeOK, NEW t \in Thread, Receive(t), main' = "waiting",
         \E u \in Thread : Alive(u)
  PROVE  \E u \in Thread : Alive(u)'
<1>1. PICK u \in Thread : Alive(u)
  OBVIOUS
<1>2. CASE u # t
  BY <1>1, <1>2, OthersStay DEF Alive
<1>3. CASE u = t
  <2>1. ~NotifyClosed(t)
    BY DEF NotifyClosed, TypeOK, MainAt
  <2> QED BY <2>1, <1>1, <1>3 DEF TypeOK, Alive, Receive, BeginProcess, EndProcess,
          ReadRun, EndSleep, CloseReceiver
<1> QED BY <1>2, <1>3

LEMMA ReceiverStep == TypeOK /\ ReceiverInv /\ [Next]_vars => ReceiverInv'
<1> SUFFICES ASSUME TypeOK, ReceiverInv, [Next]_vars
             PROVE  ReceiverInv'
  OBVIOUS
<1> USE DEF ReceiverInv, LoggedInServed, CloserAhead, WaiterHasNotifier
<1>1. CASE RegisterUser
  BY <1>1, SetupServes DEF RegisterUser
<1>2. CASE UnregisterUser
  BY <1>2, SetupServes DEF UnregisterUser
<1>3. CASE ResetStack
  BY <1>3 DEF ResetStack, threads, Serving, Unclosed, Alive
<1>4. CASE StopReceivers
  BY <1>4 DEF StopReceivers, Serving, Unclosed, Alive
<1>5. CASE WaitForClose
  BY <1>5 DEF WaitForClose, Serving, Unclosed, Alive
<1>6. CASE EndWait
  BY <1>6 DEF EndWait, Serving, Unclosed, Alive
<1>7. ASSUME NEW t \in Thread, Receive(t)
      PROVE  ReceiverInv'
  <2>1. UNCHANGED <<session, m_run>>
    BY <1>7 DEF Receive, BeginProcess, EndProcess, ReadRun, EndSleep, CloseReceiver, NotifyClosed
  <2>2. main' = main \/ (main = "waiting" /\ main' = "woken")
    BY <1>7 DEF Receive, BeginProcess, EndProcess, ReadRun, EndSleep, CloseReceiver, NotifyClosed
  <2>3. m_receiveClosed => m_receiveClosed'
    BY <1>7 DEF Receive, BeginProcess, EndProcess, ReadRun, EndSleep, CloseReceiver, NotifyClosed
  <2>4. LoggedInServed'
    BY <1>7, <2>1, <2>2, ServingStays
  <2>5. CloserAhead'
    BY <1>7, <2>2, <2>3, UnclosedStays
  <2>6. WaiterHasNotifier'
    BY <1>7, <2>2, WaiterStays
  <2> QED BY <2>4, <2>5, <2>6
<1>8. CASE Challenge \/ Decide
  BY <1>8 DEF Challenge, Decide, threads, Serving, Unclosed, Alive
<1>9. CASE UNCHANGED vars
  BY <1>9 DEF vars, threads, Serving, Unclosed, Alive
<1> QED BY <1>1, <1>2, <1>3, <1>4, <1>5, <1>6, <1>7, <1>8, <1>9 DEF Next

LEMMA ReceiverSafe == Spec => []ReceiverInv
<1>1. Init => ReceiverInv
  BY DEF Init, ReceiverInv, LoggedInServed, CloserAhead, WaiterHasNotifier
<1> QED BY <1>1, ReceiverStep, TypeCorrect, PTL DEF Spec

\* logout() never waits on m_receiveCondition without a receiver left to notify
\* it: unregisterUser's unguarded wait cannot miss the notification of receive().
THEOREM LogoutIsWoken == Spec => []WaiterHasNotifier
<1>1. ReceiverInv => WaiterHasNotifier
  BY DEF ReceiverInv
<1> QED BY <1>1, ReceiverSafe, PTL

\* While the endpoint is logged in m_run is set and a receiver calls process().
THEOREM LoginIsServed == Spec => []SessionServed
<1>1. ReceiverInv => SessionServed
  BY DEF ReceiverInv, LoggedInServed, SessionServed
<1> QED BY <1>1, ReceiverSafe, PTL
=============================================================================
