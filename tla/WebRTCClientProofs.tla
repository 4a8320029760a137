-------------------------- MODULE WebRTCClientProofs --------------------------
(***************************************************************************)
(* The audio of a call follows its switches as long as mute() and hold()   *)
(* are called on calls that have audio: no switch outlives its call, so    *)
(* the connection of the next call starts with what the switches say.      *)
(***************************************************************************)
EXTENDS WebRTCClient, TLAPS

LEMMA TypeInit == Init => TypeOK
BY DEF Init, TypeOK

LEMMA TypeStep == TypeOK /\ [Next]_vars => TypeOK'
<1> SUFFICES ASSUME TypeOK, [Next]_vars PROVE TypeOK'
  OBVIOUS
<1> USE DEF TypeOK, switches, status, EnsurePeerConnection
<1>1. CASE CreateOffer
  BY <1>1 DEF CreateOffer
<1>2. CASE CreateAnswer
  BY <1>2 DEF CreateAnswer
<1>3. CASE DidAddStream \/ IceConnected \/ IceLost
  BY <1>3 DEF DidAddStream, IceConnected, IceLost
<1>4. CASE Mute \/ Unmute
  BY <1>4 DEF Mute, Unmute
<1>5. CASE Hold \/ Unhold
  BY <1>5 DEF Hold, Unhold
<1>6. CASE Hangup \/ DisposePeerConnection
  BY <1>6 DEF Hangup, DisposePeerConnection
<1>7. CASE UNCHANGED vars
  BY <1>7 DEF vars
<1> QED BY <1>1, <1>2, <1>3, <1>4, <1>5, <1>6, <1>7 DEF Next

\* The type invariant, with early controls or without.
THEOREM TypeCorrect == Spec => []TypeOK
<1>1. Init => TypeOK
  BY TypeInit
<1>2. TypeOK /\ [Next]_vars => TypeOK'
  BY TypeStep
<1> QED BY <1>1, <1>2, PTL DEF Spec

-----------------------------------------------------------------------------
\* A new connection starts with a track that is enabled, which is right because
\* no switch is set when there is none.
LEMMA AudioStep ==
  ASSUME ~EarlyControls, TypeOK, AudioFollowsSwitches, [Next]_vars
  PROVE  AudioFollowsSwitches'
<1> USE DEF TypeOK, AudioFollowsSwitches, switches, status
<1>1. CASE CreateOffer \/ CreateAnswer
  <2>1. CASE peerConnection = "open"
    BY <1>1, <2>1 DEF CreateOffer, CreateAnswer, EnsurePeerConnection
  <2>2. CASE peerConnection = "nil"
    <3>1. /\ ~callMuted /\ ~callHolded /\ remoteStream \notin {"on", "off"}
          /\ localAudioTrack' = TRUE
      BY <1>1, <2>2 DEF CreateOffer, CreateAnswer, EnsurePeerConnection
    <3>2. /\ peerConnection' = "open" /\ callMuted' = callMuted /\ callHolded' = callHolded
          /\ remoteStream' = remoteStream /\ hangingUp' = hangingUp
      BY <1>1 DEF CreateOffer, CreateAnswer, EnsurePeerConnection
    <3> QED BY <3>1, <3>2
  <2> QED BY <2>1, <2>2
<1>2. CASE DidAddStream
  BY <1>2 DEF DidAddStream
<1>3. CASE IceConnected \/ IceLost
  BY <1>3 DEF IceConnected, IceLost
<1>4. CASE Mute
  BY <1>4 DEF Mute, MayControl, HasAudio
<1>5. CASE Unmute
  BY <1>5 DEF Unmute, MayControl, HasAudio
<1>9. CASE Hold
  BY <1>9 DEF Hold, MayControl, HasAudio
<1>10. CASE Unhold
  BY <1>10 DEF Unhold, MayControl, HasAudio
<1>6. CASE Hangup
  BY <1>6 DEF Hangup
<1>7. CASE DisposePeerConnection
  BY <1>7 DEF DisposePeerConnection
<1>8. CASE UNCHANGED vars
  BY <1>8 DEF vars
<1> QED BY <1>1, <1>2, <1>3, <1>4, <1>5, <1>6, <1>7, <1>8, <1>9, <1>10 DEF Next

\* The tracks follow the switches through any number of calls.
THEOREM AudioCorrect ==
  ASSUME ~EarlyControls
  PROVE  Spec => []AudioFollowsSwitches
<1>1. Init => AudioFollowsSwitches
  BY DEF Init, AudioFollowsSwitches
<1>2. TypeOK /\ AudioFollowsSwitches /\ [Next]_vars => AudioFollowsSwitches'
  BY AudioStep
<1> QED BY <1>1, <1>2, TypeCorrect, PTL DEF Spec

\* What mute() promises then holds, also while the call is hung up.
THEOREM MuteIsHeeded ==
  ASSUME ~EarlyControls
  PROVE  Spec => []MutedIsSilent
<1>1. TypeOK /\ AudioFollowsSwitches => MutedIsSilent
  BY DEF TypeOK, AudioFollowsSwitches, MutedIsSilent
<1> QED BY <1>1, TypeCorrect, AudioCorrect, PTL
=============================================================================
