---------------------------- MODULE MCStatsUpload ----------------------------
(***************************************************************************)
(* A finite instance of StatsUpload: two connections, one lost or replaced *)
(* and one after it, and three messages, which is a call or parts of two.  *)
(***************************************************************************)
EXTENDS StatsUpload

CONSTANTS MaxConn

MCConn    == 1..MaxConn
MCPayload == 1..MaxMessage

\* Every way a handshake or a connection may fail.
MCFaulty == NetConditions
=============================================================================
