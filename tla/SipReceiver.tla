----------------------------- MODULE SipReceiver -----------------------------
(***************************************************************************)
(* The threads of SipControllerCore.  registerUser starts a receiver       *)
(* thread that calls DUM's process() ten times a second until m_run is     *)
(* false; unregisterUser sends the un-REGISTER, which starts one receiver  *)
(* more, clears m_run and waits on a condition variable for a receiver to  *)
(* close.  One action is what a thread does between two points where       *)
(* another may run: a lock, a wait, the start and the end of process().    *)
(*                                                                         *)
(* The registrar is external: it challenges each REGISTER once, because    *)
(* setupTransport installs a new ClientAuthManager each time, and answers  *)
(* the retry.  Only the REGISTER sent last is followed.                    *)
(***************************************************************************)
EXTENDS FiniteSets, Naturals

CONSTANTS Thread,     \* the receiver threads a behaviour may start (bound)
          Nobody,     \* owner of a free mutex
          Env         \* conditions below that the run admits

(***************************************************************************)
(*   relogin     login() while receivers of an earlier session still run   *)
(*   background  the application goes to the background, which resets the  *)
(*               stack, and comes back                                     *)
(***************************************************************************)
Conditions == {"relogin", "background"}

ASSUME OwnerAssumption == Nobody \notin Thread
ASSUME EnvAssumption == Env \subseteq Conditions

VARIABLES
  m_run, m_receiveClosed,
  m_receiveMutex,   \* the receiver asleep with it, or Nobody: the application's
                    \* thread releases it within one step
  pc,               \* where each receiver is
  run,              \* the receivers' local copy of m_run
  main,             \* where the application's thread is in unregisterUser
  m_stack,          \* "none", "live", or "freed" by resetStack
  session,          \* what the application asked last: "out" or "in"
  request,          \* the last REGISTER: who must act on it next
  binds,            \* whether that REGISTER has a nonzero expiry
  bound,            \* the registrar holds a binding for the endpoint
  isRegistered,     \* PlivoEndpoint's idea of it
  loginFailed,      \* the last REGISTER was refused, and the application told
  fault             \* DUM used a stack that was freed

threads == <<m_run, m_receiveClosed, m_receiveMutex, pc, run, main>>
sip     == <<request, binds, bound, isRegistered, loginFailed>>
vars    == <<threads, m_stack, session, sip, fault>>

Place    == {"none", "process", "inside", "lock", "sleep", "close", "notify", "done"}
MainAt   == {"idle", "stop", "check", "waiting", "woken"}
Phase    == {"none", "sent", "challenged", "retried", "accepted", "refused"}
Free     == m_receiveMutex = Nobody
Alive(t) == pc[t] \notin {"none", "done"}

Init ==
  /\ m_run = FALSE /\ m_receiveClosed = FALSE /\ m_receiveMutex = Nobody
  /\ pc = [t \in Thread |-> "none"] /\ run = [t \in Thread |-> TRUE]
  /\ main = "idle" /\ m_stack = "none" /\ session = "out"
  /\ request = "none" /\ binds = FALSE /\ bound = FALSE
  /\ isRegistered = FALSE /\ loginFailed = FALSE /\ fault = FALSE

-----------------------------------------------------------------------------
(* The application's thread                                                 *)

\* (a receiver started only if there never was one)
SpawnFirstOnly(b) ==
  /\ \E t \in Thread :
       /\ pc[t] = "none"
       /\ pc' = IF \E u \in Thread : pc[u] # "none" THEN pc ELSE [pc EXCEPT ![t] = "process"]
       /\ run' = [run EXCEPT ![t] = TRUE]
  /\ m_run' = TRUE /\ m_receiveClosed' = FALSE
  /\ m_stack' = "live"
  /\ request' = "sent" /\ binds' = b
  /\ UNCHANGED <<m_receiveMutex, bound>>

\* setupTransport outside a push: a stack when there is none, the REGISTER, and
\* one more receiver whatever receivers there are.
SetupTransport(b) ==
  /\ \E t \in Thread :
       /\ pc[t] = "none"
       /\ pc' = [pc EXCEPT ![t] = "process"]
       /\ run' = [run EXCEPT ![t] = TRUE]
  /\ m_run' = TRUE /\ m_receiveClosed' = FALSE
  /\ m_stack' = "live"
  /\ request' = "sent" /\ binds' = b
  /\ UNCHANGED <<m_receiveMutex, bound>>

\* registerUser, from login() or on the way back to the foreground.
RegisterUser ==
  /\ ~fault /\ main = "idle"
  /\ \/ "relogin" \in Env
     \/ session = "out" /\ \A t \in Thread : ~Alive(t)
     \/ m_stack = "freed"
  /\ SetupTransport(TRUE)
  /\ session' = "in" /\ loginFailed' = FALSE
  /\ UNCHANGED <<main, isRegistered, fault>>

\* unregisterUser: reports the logout, sends the un-REGISTER, and goes on to
\* stop the receivers.
UnregisterUser ==
  /\ ~fault /\ main = "idle" /\ session = "in"
  /\ SetupTransport(FALSE)
  /\ session' = "out" /\ isRegistered' = FALSE /\ loginFailed' = FALSE
  /\ main' = "stop"
  /\ UNCHANGED fault

\* (m_run left set)
StopWithoutClear ==
  /\ ~fault /\ main = "stop" /\ Free
  /\ main' = "check"
  /\ UNCHANGED <<m_run, m_receiveClosed, m_receiveMutex, pc, run, m_stack, session, sip, fault>>

\* m_run is cleared under m_receiveMutex.
StopReceivers ==
  /\ ~fault /\ main = "stop" /\ Free
  /\ m_run' = FALSE /\ main' = "check"
  /\ UNCHANGED <<m_receiveClosed, m_receiveMutex, pc, run, m_stack, session, sip, fault>>

\* (the check of m_receiveClosed forgotten)
WaitAlways ==
  /\ ~fault /\ main = "check" /\ Free
  /\ main' = "waiting"
  /\ UNCHANGED <<m_run, m_receiveClosed, m_receiveMutex, pc, run, m_stack, session, sip, fault>>

\* The wait has no predicate: whoever notifies, it ends.
WaitForClose ==
  /\ ~fault /\ main = "check" /\ Free
  /\ main' = IF m_receiveClosed THEN "idle" ELSE "waiting"
  /\ UNCHANGED <<m_run, m_receiveClosed, m_receiveMutex, pc, run, m_stack, session, sip, fault>>

EndWait ==
  /\ ~fault /\ main = "woken" /\ Free
  /\ main' = "idle"
  /\ UNCHANGED <<m_run, m_receiveClosed, m_receiveMutex, pc, run, m_stack, session, sip, fault>>

\* (a reset that leaves the pointer in a state of its own)
ResetStackHalf ==
  /\ ~fault /\ main = "idle" /\ "background" \in Env /\ m_stack = "live"
  /\ m_stack' = "shut down" /\ isRegistered' = FALSE
  /\ UNCHANGED <<threads, session, request, binds, bound, loginFailed, fault>>

\* resetStack, when the application goes to the background: the receivers go on.
ResetStack ==
  /\ ~fault /\ main = "idle" /\ "background" \in Env /\ m_stack = "live"
  /\ m_stack' = "freed" /\ isRegistered' = FALSE
  /\ UNCHANGED <<threads, session, request, binds, bound, loginFailed, fault>>

-----------------------------------------------------------------------------
(* A receiver thread t                                                      *)

BeginProcess(t) ==
  /\ ~fault /\ pc[t] = "process"
  /\ pc' = [pc EXCEPT ![t] = "inside"]
  /\ fault' = (m_stack # "live")
  /\ UNCHANGED <<m_run, m_receiveClosed, m_receiveMutex, run, main, m_stack, session, sip>>

\* What process() found for the REGISTER: a challenge is answered, a result goes
\* to onSuccess, onRemoved or onFailure.
EndProcess(t) ==
  /\ ~fault /\ pc[t] = "inside"
  /\ pc' = [pc EXCEPT ![t] = "lock"]
  /\ fault' = (m_stack # "live")
  /\ request' = IF request = "challenged" THEN "retried"
                ELSE IF request \in {"accepted", "refused"} THEN "none" ELSE request
  /\ isRegistered' = (isRegistered \/ (request = "accepted" /\ binds))
  /\ loginFailed' = (loginFailed \/ request = "refused")
  /\ UNCHANGED <<m_run, m_receiveClosed, m_receiveMutex, run, main, m_stack, session, binds, bound>>

\* It sleeps with the mutex held.
ReadRun(t) ==
  /\ ~fault /\ pc[t] = "lock" /\ Free
  /\ m_receiveMutex' = t
  /\ run' = [run EXCEPT ![t] = m_run]
  /\ pc' = [pc EXCEPT ![t] = "sleep"]
  /\ UNCHANGED <<m_run, m_receiveClosed, main, m_stack, session, sip, fault>>

EndSleep(t) ==
  /\ ~fault /\ pc[t] = "sleep"
  /\ m_receiveMutex' = Nobody
  /\ pc' = [pc EXCEPT ![t] = IF run[t] THEN "process" ELSE "close"]
  /\ UNCHANGED <<m_run, m_receiveClosed, run, main, m_stack, session, sip, fault>>

CloseReceiver(t) ==
  /\ ~fault /\ pc[t] = "close" /\ Free
  /\ m_receiveClosed' = TRUE
  /\ pc' = [pc EXCEPT ![t] = "notify"]
  /\ UNCHANGED <<m_run, m_receiveMutex, run, main, m_stack, session, sip, fault>>

\* (the exit of receive() that never notifies)
ExitSilently(t) ==
  /\ ~fault /\ pc[t] = "notify"
  /\ pc' = [pc EXCEPT ![t] = "done"]
  /\ UNCHANGED <<m_run, m_receiveClosed, m_receiveMutex, run, main, m_stack, session, sip, fault>>

NotifyClosed(t) ==
  /\ ~fault /\ pc[t] = "notify"
  /\ pc' = [pc EXCEPT ![t] = "done"]
  /\ main' = IF main = "waiting" THEN "woken" ELSE main
  /\ UNCHANGED <<m_run, m_receiveClosed, m_receiveMutex, run, m_stack, session, sip, fault>>

-----------------------------------------------------------------------------
(* The registrar, through the stack's own thread                            *)

Challenge ==
  /\ ~fault /\ request = "sent" /\ m_stack = "live"
  /\ request' = "challenged"
  /\ UNCHANGED <<threads, m_stack, session, binds, bound, isRegistered, loginFailed, fault>>

Decide ==
  /\ ~fault /\ request = "retried" /\ m_stack = "live"
  /\ \/ request' = "accepted" /\ bound' = binds
     \/ request' = "refused" /\ UNCHANGED bound
  /\ UNCHANGED <<threads, m_stack, session, binds, isRegistered, loginFailed, fault>>

-----------------------------------------------------------------------------
Receive(t) == \/ BeginProcess(t) \/ EndProcess(t) \/ ReadRun(t)
              \/ EndSleep(t) \/ CloseReceiver(t) \/ NotifyClosed(t)

Next == \/ RegisterUser \/ UnregisterUser \/ ResetStack
        \/ StopReceivers \/ WaitForClose \/ EndWait
        \/ \E t \in Thread : Receive(t)
        \/ Challenge \/ Decide

Spec == Init /\ [][Next]_vars

(***************************************************************************)
(* Fairness: threads that can go on do; the registrar answers.  unregister- *)
(* User takes the mutex from receivers that hold it nearly all the time, so *)
(* it needs strong fairness: the code relies on a mutex that starves nobody.*)
(***************************************************************************)
Fairness == /\ SF_vars(StopReceivers) /\ WF_vars(WaitForClose) /\ WF_vars(EndWait)
            /\ \A t \in Thread : WF_vars(Receive(t))
            /\ WF_vars(Challenge) /\ WF_vars(Decide)

FairSpec == Spec /\ Fairness

-----------------------------------------------------------------------------
(* What the module promises                                                 *)

\* Type invariant: every variable holds a value the code can give it.
TypeOK ==
  /\ m_run \in BOOLEAN /\ m_receiveClosed \in BOOLEAN
  /\ m_receiveMutex \in Thread \cup {Nobody}
  /\ pc \in [Thread -> Place] /\ run \in [Thread -> BOOLEAN]
  /\ main \in MainAt /\ m_stack \in {"none", "live", "freed"}
  /\ session \in {"in", "out"} /\ request \in Phase
  /\ binds \in BOOLEAN /\ bound \in BOOLEAN /\ isRegistered \in BOOLEAN
  /\ loginFailed \in BOOLEAN /\ fault \in BOOLEAN

\* A logout that waits still has a receiver that will notify it: the check of
\* m_receiveClosed and the notification cannot miss each other, although the
\* flag is reset by every registerUser and set by receivers of older sessions.
WaiterHasNotifier == main = "waiting" => \E t \in Thread : Alive(t)

\* A receiver that will call process() again.
Serving(t) == pc[t] \in {"process", "inside", "lock"} \/ (pc[t] = "sleep" /\ run[t])

\* While the endpoint is logged in some receiver serves DUM, even when the login
\* came while receivers of the session before were on their way out.
SessionServed == session = "in" => m_run /\ \E t \in Thread : Serving(t)

\* logout() returns.
LogoutReturns == main # "idle" ~> main = "idle" \/ fault

\* After a logout every receiver stops, not only the one logout() waits for.
ReceiversStop == session = "out" ~> (\A t \in Thread : ~Alive(t)) \/ session = "in" \/ fault

\* A login is answered: registered, or reported as failed, unless it is undone.
LoginAnswered == session = "in" ~> isRegistered \/ loginFailed \/ session = "out" \/ fault

\* logout() removes the registrar's binding, unless the registrar refuses to or
\* the endpoint logs in again.
LogoutUnbinds ==
  session = "out" ~> ~bound \/ request = "refused" \/ loginFailed \/ session = "in"
=============================================================================
