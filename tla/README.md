# Verification of the Plivo iOS voice SDK

TLA+ models of the SDK in this repository (`src/PlivoVoiceKit`), the TLC runs that
check them on small instances, and the theorems the TLA+ proof system proves about
them for every instance. `PROJECT.json` ties every definition to the lines it models.

## The system

    application
      | login, call, answer, reject, hangup, push        ^ delegate events
    PlivoEndpoint  PlivoOutgoing  PlivoIncoming  (Swift)  |
      |                                  |
    SipAdapter (ObjC++)               WebRTCAdapter -> WebRTCClient (Swift)
      |                                  | offer / answer / ICE callbacks
    SipControllerCore (C++)  <-----------+  (through PlivoEndpoint)
      |  handlers called inside process()
    reSIProcate DUM and stack (lib/, external)

    PlivoEndpoint -> FeedbackManager -> WebSocketClient -> WebSocket  (call statistics)
    Reachability -> PlivoEndpoint                                     (network changes)

| component | state it keeps | operations | what makes it hard | modelled in |
|---|---|---|---|---|
| call control (`SipControllerCore`) | `mProgress`, `isUACRejected`, `isSecondaryUAC`, `m_isCaller`, `m_inInBoundAccepted`, `m_inCall`, `m_localCandidatesCollected`, a client and a server session pointer | createSession, acceptSession, reject, terminateSession, onIceGatheringFinished; DUM's handlers | the flags belong to no call; handlers ignore the handle DUM gives them; the user, WebRTC and DUM interleave | `SipCall` |
| registration and threads (`SipControllerCore`) | `m_run`, `m_receiveClosed`, mutex, condition variable, the stack | registerUser, unregisterUser, setupTransport, receive, resetStack | one more receiver thread per registration, all sharing one flag; a wait without a predicate | `SipReceiver` |
| `PlivoEndpoint`, `PlivoOutgoing`, `PlivoIncoming`, `SipAdapter` | the call objects, `isIncomingCall`, `isSipToSipInvite`, `callId`, the application's state | call, answer, reject, hangup, push, ring timer, background, foreground; the core's events | one object of each kind serves every call; the flag and the id that route an event belong to no call | `PlivoEndpoint` |
| `WebRTCAdapter`, `WebRTCClient` | peer connection, tracks, `callMuted`, `callHolded`, `isConnected`, `IS_CALL_RUNNING` | offer, answer, mute, hold, hang-up | the switches outlive the connection they were set on; a hang-up takes two steps | `WebRTCClient`; its pending callbacks in `SipCall` and `PlivoEndpoint` |
| statistics upload (`FeedbackManager`, `WebSocketClient`) | `statsBuffer`, `statsMessage`, `readyState`, the current socket | sendStats, webSocketOpen, webSocketError | a socket that opens late or is replaced while it opens acts on the same buffer | `StatsUpload`, against `Upload` |
| `WebSocket.swift` | stage, streams, queue of frames, error | step() by the manager's thread | ends while frames are queued; errors in every stage | `WebSocketConn` |
| `RTPStats`, `Reachability`, `LogManager`, `Utils`, `SRWebSocket`, `CertManager`, `lib/` | | | | not modelled, see below |

What makes each correct, in a line: the right call is answered, refused, ended and
reported, exactly once (call control); a logged-in endpoint is served and a logout
returns (threads); the application's objects and events are those of the call (endpoint);
a muted call is not heard (WebRTC); each message is uploaded, or lost only with a
connection that failed (statistics).

## Modules

| module | content |
|---|---|
| `SipCall` | call control, between the application and DUM |
| `SipCallProofs`, `SipCallOrderly` | its types; its inductive invariant and the promises that follow |
| `SipCallDisorder` | three weaker invariants, and the promises that need no more, when calls are not orderly |
| `PlivoEndpoint` | extends `SipCall`: each of its actions is one of call control together with what its events do to the endpoint, or a step of the endpoint alone |
| `PlivoEndpointProofs`, `PlivoEndpointPushed` | it implements `SipCall`, and its promises |
| `SipReceiver`, `SipReceiverProofs` | the receiver threads, logout's wait, the registrar's dialogue |
| `Upload` | what the upload of statistics promises, abstractly |
| `WebSocketConn` | the connections of `WebSocket.swift`, and the server |
| `StatsUpload`, `StatsUploadProofs` | extends `WebSocketConn` with the buffer and the client; it implements `Upload` |
| `WebRTCClient`, `WebRTCClientProofs` | the peer connection, its tracks and the switches |
| `MC...` | the instances for TLC |

The models contain, next to some definitions, a variant that no action uses, announced
by a comment in parentheses or by its name: a plausible slip in that code. Put in the
place of the definition, it must break the property the list of mutants in
`PROJECT.json` pairs it with, which shows that the property looks at that code.

### SipCall

One action is one handler, run to its end. The variables with the code's names are the
members; `dlg` is what DUM knows of each dialog, and is the only place where a dialog
has an identity, since the handlers do not look at the handle they receive. `ice` counts
the one-second ICE callbacks still to come, `draft` says that WebRTC is preparing an
offer for which `createSession` will be called, `appInCall` is the application's belief,
and `rung`, `consent`, `declined`, `hungup`, `refused` are history: what the user was
shown and decided, and what the SDK did.

DUM is external. From the code's use of it and its headers: `end()` on a connected or
not yet answered session and `reject()` call `onTerminated` before they return, while a
CANCEL, or a BYE that must wait for the ACK, calls it later (`EndSessions`); a session is
freed after `onTerminated`, and a pointer used after that is recorded in `fault`, as is a
null pointer used without a check. The User-Agent test is a choice (`ValidUserAgent`).

`Env` names the conditions a run admits beyond one call at a time: no push before an
INVITE, calls begun while another is torn down or set up, `answer()` and `reject()` on the
object of another call, an INVITE that never follows its push, an ICE callback that
outlives its call or overtakes `createSession`, foreign User-Agents, and arbitrary values
in the members the constructor leaves unset (`garbage`). A property is checked in the
environments where it holds; where the documentation promises more than the code does, a
run shows the disagreement. `overlap` is admitted by `call_redial` only, and no run admits
`glare` or `earlyIce`. With two calls set up at once the core has one `mProgress` for both,
about which the repository promises nothing; it is listed as a hazard and not pursued. The
ICE callback sleeps for a second after the gathering, which begins with the local
description whose completion calls `createSession`, so it does not come first.

`MayBegin`, `MayAnswer` and `InviteMayArrive` are these assumptions about the application
and the peers, not guards of the code, which checks only `IS_CALL_RUNNING` in `call()` and
nothing in `answer()`. A refused second caller passes in one step: `rejectOtherCall` sets
`isSecondaryUAC` and the `onTerminated` inside `reject(486)` spends it, so it is seen set
only where the heap left it so (`garbage`). `ShownEndHeard` says that it then costs no
call that was shown its end; the end of a first outgoing call it does swallow.

### PlivoEndpoint

`SipAdapter` delivers the core's events at once, on the calling thread, so an event and
its handler are one step: `Terminated(d)` is `OnTerminated(d)` and what `onCallState` and
`TerminateCall` make of it. `curIncomingCall` and `curOutCall` are the two call objects
there are; `shown` in the first is the dialog it was handed to the application for, which
the code does not keep and which `ObjectsInHand` compares with the call it now stands for.
The text of `onTerminated`'s reason is never among the values `onCallState` looks it up in
(`EndState` is empty), so a call the callee refused is told as a hang-up only.
`said` is what the delegate heard in the last step, `known` and `summaries` the history of
the call ids. `resetEndpoint` frees the stack; dialogs of a freed stack (`orphans`) never
move again, and a registration brings a new one.

Left out, in each case because of what call control does not model: `hangup()` on an
object that is only announced (it ends nothing and the call rings when its INVITE comes),
hang-up between `call()` and `createSession`, which WebRTC decides, logout, pushes during
a call that runs, which make no object and only register again (the INVITE that follows,
refused as busy, is there), a second push over a call that is only announced, pushes while
an outgoing call is set up (see `glare`), and `createOutgoingCall` without the `call()` that follows it.

### SipReceiver

One action is what a thread does between two points where another may run. `pc` is where
each receiver is, `run` its local copy of `m_run`, `main` where the application's thread
is in `unregisterUser`. A receiver sleeps with the mutex held, as in the code. The
registrar challenges each REGISTER once, since every `setupTransport` installs a new
`ClientAuthManager`, and answers the retry. `fault` records DUM at work on a stack that
`resetStack` freed; what happens afterwards is undefined and nothing moves, so the
liveness properties end there (`\/ fault`). Not in this module: the push registration
through a proxy, which starts no receiver.

### StatsUpload, WebSocketConn, Upload

A connection of `WebSocketConn` is created by its client, goes through the stages of
`InnerWebSocket.step()` and may fail at each of them in the ways `Net` admits; actions
that make a callback are conjoined with the client's handler. `StatsUpload` has one
buffer, the copy that waits in `statsMessage` for a socket to open, and the current socket;
a replaced one is not closed and its callbacks reach the client too. Messages are numbers
in the order they are made, since nothing looks into them.

`Upload` is the promise: a message made is held until the server has it, may arrive
again, and may be lost only once a connection failed (`lossy`). The refinement mapping
takes `held` to what is in the buffer, its copy, the queues and on the wire, and `lossy`
to `Lossy`: an established connection failed, or an attempt failed to which messages were
sent because a replaced one had opened. So a refused attempt alone loses nothing.

### WebRTCClient

The peer connection is made by the first offer or answer after a hang-up, with a new
enabled local track; the switches are the client's and are cleared at the start of a
hang-up, the connection closed in its second step. `EarlyControls` says whether the
application may mute or hold a call that has no audio yet.

## Runs

| run | instance | shows |
|---|---|---|
| `call_orderly` | 3 dialogs, one ICE callback, INVITEs announced and possibly lost | every promise of call control, safety and liveness |
| `call_staleice` | 3 dialogs, 2 ICE callbacks, no push needed | which promises survive one late ICE callback, that of an earlier call |
| `call_hostile` | 3 dialogs; no push, late and repeated `answer()` and `reject()`, foreign User-Agents, unset members | one INVITE per call, the rendezvous of answer and candidates and the ends of calls shown survive all of it |
| `call_declined` | violation | a `reject()` is spent on another, later call |
| `call_redial` | violation | a call hung up before its first response connects after a redial |
| `call_lateanswer` | violation | `answer()` on an old object answers the next call |
| `endpoint_calls` | 3 dialogs, pushes, ring timer, background and foreground at any step | objects, ids and delegate events follow the calls; the stack is freed under none |
| `endpoint_unshown` | violation, 2 dialogs, no push needed | after a push whose INVITE never came, a call without a push rings unannounced |
| `media_muted` | violation | `mute()` before there is audio, after an earlier call, leaves the call heard |
| `threads_anytime` | 4 receivers, logins at any time, backgrounding | logout never waits for nobody; a session is served; logout returns, receivers stop, logins are answered |
| `threads_logout` | violation, 2 receivers | a logout may leave the registrar's binding |
| `upload_faulty` | 2 connections, 3 messages, every kind of failure | the upload implements `Upload`, goes back at most one step, and completes unless a connection failed |

Bounds. Three dialogs are a call, a second caller refused as busy, and the call after
them, which is where what the first left behind does its harm; two calls suffice for the
disagreements. One ICE callback is pending per call, two when an old one may survive. That is as far as
`PointersAllocated` and `CleanSlate` hold: with three pending (two late ones) TLC finds, in
19 steps, three INVITEs sent for one call. The second response takes the pointer from the
first, the hang-up ends only the second, the first keeps `mProgress` going, and the third
is taken for a call whose end clears nothing. `CallNotForgotten` and `RejectIsFinal` hold
there too, and are proved for any number. `SingleInvite` is no promise of that run: the
late callback does send another INVITE. Four
receivers are two sessions with a login and a logout each. Two connections are one that
fails or is replaced and one after it; three messages fill the buffer before, during and
after an attempt. `summaries` counts to two, which is already one too many. Deadlock is
not checked: the dialogs, threads, connections or messages of a behaviour run out, and a
ringing or connected call may last. `WebRTCClient` has 45 states in all, and a run of its
own would add nothing to the proof below.

Fairness. DUM bounds every transaction and every unanswered dialog with a timer, so a
response, a failure or the end comes; WebRTC delivers an offer and its ICE callback. The
user and the peer owe nothing. Threads that can run do, and the mutex of `unregisterUser`
needs strong fairness, because the receivers hold it nearly always: that is what the code
relies on, so `LogoutReturns` says nothing of a mutex that starves the caller. The thread of the socket manager serves every connection, streams open or time
out, and a server that is not cut off answers the handshake and reads what it is sent.

## Proofs

Every theorem is for any set of dialogs, threads, connections or messages. The
assumptions are those of the modules: null values are no dialogs or threads, conditions
are known ones, bounds are natural numbers, connections and messages are numbered.

**Call control.** `SipCallProofs` proves the types under every environment.
`SipCallOrderly` proves the promises when `Env` is a subset of `{"lostInvite",
"pushless"}` (`Orderly`): one call at a time, with or without a push, second callers
included. None of them is inductive, because each rests on the others: `onTerminated`
clears the right call only if no second dialog can call it, the pointers are right only
if `onTerminated` cleared them, the ICE callback answers the right call only if no
callback of an earlier one is left. `IInv` states all of it at once:

- `OneDialog`: at most one dialog is neither unused nor over;
- `DoneIsClean`: with `mProgress` Done no member, pointer or belief of a call is left;
- `PointersSound`, `PointersComplete`: each pointer is null or a live dialog of its kind,
  and each live dialog has its pointer;
- `TerminationClears`: `onTerminated` never takes the early return that keeps the pointers;
- `IceSound`: at most one ICE callback is pending, only where its call waits for it;
- `ConsentSound`, `HangupSound`, `BusySound`, `CallNotForgotten`: what the user decided,
  and `mProgress`, agree with the dialogs.

There is one lemma per action. An action on the active dialog leaves only that one to look
at (`OneMoves`), and every teardown restores the invariant in the same way (`TornDown`).
`RefusalsAreMeant` needs a push before each incoming call (`Pushed`): a rejection that
stands is then one of the call announced (`RejectionSound`). `call_declined`,
`call_redial` and `call_lateanswer` show that the restrictions are needed.

`SipCallDisorder` asks which promises need less than that, in three environments that
`IInv` does not survive:

- `Sequential`: one call at a time, and otherwise all that `Env` knows. Pointers and
  flags may be wrong, so `HostileInv` speaks of the dialogs alone: there is one at most
  (`OneDialog`), only a call that was shown was answered (`RungSound`), and a pending ICE
  callback and the candidates it leaves belong to it (`IcePlaced`, `IceAwaited`). Of
  the members it keeps only that the current call, while it rings, waits for its
  candidates or has them and waits for its user (`RingingCurrent`), and that a garbage
  `isSecondaryUAC` is gone once a call was shown (`SecondaryUnset`).
  `SingleInvite`, `AnswerRendezvous` and `ShownEndHeard` follow.
- `Stale`: any number of ICE callbacks of earlier calls. Each may send an INVITE nobody
  asked for, so outgoing dialogs multiply; an incoming one is still alone and has its
  pointer (`IncomingAlone`, `IncomingClears`), because `m_isCaller`, without which a late
  callback sends nothing, stands only while no call is incoming (`CallerSound`). `StaleInv`
  adds that a rejection stands only while no dialog can end that is not over for the
  application already (`RejectionStands`), and that with Done the application has no call
  but one about to begin (`DoneIsTold`).
  `CallNotForgotten` and `RejectIsFinal` follow.
- `OneLate`: the same with at most one late callback pending. `TwoDialogs` counts the
  callbacks to come against the dialogs, so that there are never three; the pointer of the
  outgoing call is then one that `onTerminated` will clear (`ClientSound`), the first
  response to an INVITE finds a call in progress or one that nothing can bring back
  (`InvitesHeeded`), and what is over left nothing (`MembersForgotten`). `PointersAllocated` and `CleanSlate` follow. The count
  cannot be left out: it is what the trace with two late callbacks breaks.

**Endpoint.** `EndpointImplementsCall`: in every environment, each step of the endpoint is
one of call control or leaves its state alone, so `SipCall`'s theorems hold of the two
together (`EndpointOrderly`). Under `Orderly`:

- `ObjectsCorrect`: `EInv` adds to `IInv` that the objects and `isIncomingCall` fit the
  call the core has (`ObjectsSound`). From it, `EventsAreReported`: every answer is told
  on the object of its direction, every end is told.
- `CallsAreSummedUpOnce`: the call id is that of the session the core points to
  (`CallIdIsCurrent`), so each `TerminateCall` sums up the call that ends.

Under `Pushed`, `PInv` adds that the objects have the state of the call (`ObjectsMatch`),
that the announced one is the one shown (`AnnouncedShown`), that no object in use outlives
the application's belief in a call (`AppBelieves`), and that dialogs of a freed stack
carry no call (`OrphansIdle`). From it, `ObjectsStayInHand` and `StackIsFreedIdle`: going
to the background asks the objects whether a call lives, and they know. Without a push
the object is made by the INVITE and the two differ for a moment; after a push whose INVITE
never came such a call takes over the announced object and is never shown
(`endpoint_unshown`). So this part is proved for announced calls.

**Threads.** `SipReceiverProofs`: types, a logout that waits has a receiver left to wake
it, and a logged-in endpoint is served. The first needs that while the flag is unset and
the wait possible some receiver is still ahead of its notification (`CloserAhead`), the
second that `session = "in"` keeps `m_run` set (`LoggedInServed`).

**Upload.** `UploadCorrect` is the invariant that links the client to its connections:
the current one is not forgotten before it closed, messages queue on an unestablished one
only after another opened late, and what waits in `statsMessage` is still in the buffer
(`CopyInBuffer`), which is why a failed attempt loses nothing. `UploadRefines` maps every
step to one of `Upload` or a stutter, and `NothingLostUnlessBroken` follows.
`OneStepBackOnly` looks at the order on each connection. What a connection has carried is
in order until the buffer is sent again, and then steps back once; that it never does so
twice needs `FlowInv`: the buffer and its copy are in order and nothing was sent that was
not made (`InOrderSoFar`), the connection the copy waits for has carried nothing
(`NothingYet`), and while the buffer is not empty the current one has not stepped back
(`FirstRun`).

**Audio.** With `EarlyControls` false, `AudioCorrect`: the tracks follow the switches
through any number of calls, and so `MuteIsHeeded`; `media_muted` is the same claim
without the restriction.

Only model-checked: all liveness (`HangupEnds`, `ConsentHonoured`, `OutcomeReported`,
`LogoutReturns`, `ReceiversStop`, `LoginAnswered`, `AllUploaded`), for which the prover has
no ENABLED. Every invariant and every action property of the passing runs is a theorem,
under the environments stated here, which include those of its run.

## Findings

The six violation runs are disagreements of the code with what the repository's comments
and delegate documentation say; `PROJECT.json` quotes the lines. In each the model is the
code as it is, and the run's counterexample is the sequence of calls that leads there.

## Not modelled

- `lib/`, the vendored headers of reSIProcate, OpenSSL and WebRTC, which are nine tenths
  of the repository's lines. `SRWebSocket`, which nothing calls. `CertManager`, a string.
- `RTPStats`: arithmetic on doubles and wording of reports; its windows are copies that
  are not stored back, so it keeps no history of which a property could speak.
- `Reachability`, and the five-second rule of `PlivoEndpoint` about it: changes that come
  close together are dropped, about which the repository promises nothing.
- `LogManager`, `Utils`, `Constant`, `Environment`, the extensions, and header and
  feedback formatting: text. `HTTPClient`: requests without a state of their own.
- The push registration through a proxy, the retry in `onFailure` of a registration, and
  login's checks of its arguments.
- `networkChange`, INFO, MESSAGE, REFER and re-offers in `SipControllerCore`: they are
  carried out inside a dialog, or refused, without changing a member. DTMF, the audio
  session and WebRTC's completion handlers one by one.
- Threads below the grain of a handler: `terminateSession` and `onTerminated` run on two
  threads without a lock, and what their interleaved halves do to a session DUM is freeing
  is undefined. It is listed among the hazards, with others that no property covers and
  the reason for each.
