---------------------------- MODULE MCWebRTCClient ----------------------------
(***************************************************************************)
(* WebRTCClient as it is: every value is a flag, so the instance is the    *)
(* whole module.                                                           *)
(***************************************************************************)
EXTENDS WebRTCClient
=============================================================================
