--------------------------- MODULE MCPlivoEndpoint ---------------------------
(***************************************************************************)
(* Finite instances of PlivoEndpoint: two or three calls, second callers   *)
(* included, with pushes that their INVITEs may never follow.              *)
(***************************************************************************)
EXTENDS PlivoEndpoint

CONSTANTS d1, d2, d3

MCDialog2 == {d1, d2}
MCDialog3 == {d1, d2, d3}

MCOrderly == {"lostInvite"}

\* The environment of the violation: calls may come without a push.
MCOnlyPushless == {"pushless"}
=============================================================================
