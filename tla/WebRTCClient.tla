----------------------------- MODULE WebRTCClient -----------------------------
(***************************************************************************)
(* The audio of WebRTCClient: a peer connection that every hang-up closes  *)
(* and the next offer makes anew, its local and remote track, and the      *)
(* switches mute() and hold() set, which belong to the client and not to   *)
(* the connection.                                                         *)
(*                                                                         *)
(* The application's thread calls the switches and hang-ups, SIP's thread  *)
(* sets remote descriptions and hangs up too, and WebRTC's thread reports  *)
(* streams and the state of ICE; a hang-up is two steps, because it        *)
(* clears the switches before it closes the connection.                    *)
(***************************************************************************)
CONSTANT EarlyControls   \* the application may mute or hold a call that has no audio yet

VARIABLES
  peerConnection,     \* "nil" or "open"
  localAudioTrack,    \* the local track is enabled
  remoteStream,       \* "nil", "old" (of a closed connection), "on" or "off"
  callMuted, callHolded,
  isConnected, IS_CALL_RUNNING,
  hangingUp           \* between the two steps of a hang-up

switches == <<callMuted, callHolded>>
status   == <<isConnected, IS_CALL_RUNNING>>
vars     == <<peerConnection, localAudioTrack, remoteStream, switches, status, hangingUp>>

\* init sets up a first connection.
Init ==
  /\ peerConnection = "open" /\ localAudioTrack = TRUE /\ remoteStream = "nil"
  /\ callMuted = FALSE /\ callHolded = FALSE
  /\ isConnected = FALSE /\ IS_CALL_RUNNING = FALSE
  /\ hangingUp = FALSE

\* setupPeerConnection, if there is none: a new local track, which is enabled.
EnsurePeerConnection ==
  /\ peerConnection' = "open"
  /\ localAudioTrack' = (localAudioTrack \/ peerConnection = "nil")

\* createOffer, for call(), which a call that runs forbids; createAnswer and
\* setRemote(offerSDP:), which nothing forbids.
CreateOffer ==
  /\ ~IS_CALL_RUNNING /\ EnsurePeerConnection
  /\ UNCHANGED <<remoteStream, switches, status, hangingUp>>

CreateAnswer ==
  /\ EnsurePeerConnection
  /\ UNCHANGED <<remoteStream, switches, status, hangingUp>>

\* The remote description brought a stream.
DidAddStream ==
  /\ peerConnection = "open" /\ remoteStream \in {"nil", "old"}
  /\ remoteStream' = "on"
  /\ UNCHANGED <<peerConnection, localAudioTrack, switches, status, hangingUp>>

\* didChange newState: RTCIceConnectionState.
IceConnected ==
  /\ peerConnection = "open"
  /\ isConnected' = TRUE /\ IS_CALL_RUNNING' = TRUE
  /\ UNCHANGED <<peerConnection, localAudioTrack, remoteStream, switches, hangingUp>>

IceLost ==
  /\ peerConnection = "open" /\ isConnected /\ isConnected' = FALSE
  /\ UNCHANGED <<peerConnection, localAudioTrack, remoteStream, switches, IS_CALL_RUNNING, hangingUp>>

\* The call has audio that a switch can act on.
HasAudio == peerConnection = "open" /\ remoteStream \in {"on", "off"} /\ ~hangingUp

MayControl == EarlyControls \/ HasAudio

Mute ==
  /\ MayControl
  /\ callMuted' = TRUE /\ localAudioTrack' = FALSE
  /\ UNCHANGED <<peerConnection, remoteStream, callHolded, status, hangingUp>>

Unmute ==
  /\ MayControl
  /\ callMuted' = FALSE /\ localAudioTrack' = (localAudioTrack \/ ~callHolded)
  /\ UNCHANGED <<peerConnection, remoteStream, callHolded, status, hangingUp>>

\* The remote track is the first one of the stream, if there is one.
Hold ==
  /\ MayControl
  /\ callHolded' = TRUE /\ localAudioTrack' = FALSE
  /\ remoteStream' = IF remoteStream = "on" THEN "off" ELSE remoteStream
  /\ UNCHANGED <<peerConnection, callMuted, status, hangingUp>>

Unhold ==
  /\ MayControl
  /\ callHolded' = FALSE /\ localAudioTrack' = (localAudioTrack \/ ~callMuted)
  /\ remoteStream' = IF remoteStream = "off" THEN "on" ELSE remoteStream
  /\ UNCHANGED <<peerConnection, callMuted, status, hangingUp>>

\* webrtcSessionHangup: the switches and the flags first, then the connection.
Hangup ==
  /\ ~hangingUp /\ hangingUp' = TRUE
  /\ callMuted' = FALSE /\ callHolded' = FALSE
  /\ isConnected' = FALSE /\ IS_CALL_RUNNING' = FALSE
  /\ UNCHANGED <<peerConnection, localAudioTrack, remoteStream>>

DisposePeerConnection ==
  /\ hangingUp /\ hangingUp' = FALSE
  /\ peerConnection' = "nil"
  /\ remoteStream' = IF remoteStream = "nil" THEN "nil" ELSE "old"
  /\ UNCHANGED <<localAudioTrack, switches, status>>

Next ==
  \/ CreateOffer \/ CreateAnswer \/ DidAddStream \/ IceConnected \/ IceLost
  \/ Mute \/ Unmute \/ Hold \/ Unhold \/ Hangup \/ DisposePeerConnection

Spec == Init /\ [][Next]_vars

-----------------------------------------------------------------------------
(* What the module promises                                                 *)

\* Type invariant.
TypeOK ==
  /\ peerConnection \in {"nil", "open"} /\ localAudioTrack \in BOOLEAN
  /\ remoteStream \in {"nil", "old", "on", "off"}
  /\ callMuted \in BOOLEAN /\ callHolded \in BOOLEAN
  /\ isConnected \in BOOLEAN /\ IS_CALL_RUNNING \in BOOLEAN /\ hangingUp \in BOOLEAN

\* A call whose user muted it is not heard: what mute() promises, whenever it
\* is called.
MutedIsSilent == peerConnection = "open" /\ callMuted => ~localAudioTrack

\* The tracks follow the switches, whatever was muted, held, hung up and set up
\* again before: a call is heard exactly when it is neither muted nor held, and
\* plays its peer exactly when it is not held.
AudioFollowsSwitches ==
  /\ peerConnection = "open" /\ ~hangingUp =>
       /\ localAudioTrack <=> ~callMuted /\ ~callHolded
       /\ callHolded <=> remoteStream = "off"
  /\ hangingUp => ~callMuted /\ ~callHolded
  /\ peerConnection = "nil" => ~callMuted /\ ~callHolded /\ remoteStream \notin {"on", "off"}
=============================================================================
