------------------------------ MODULE MCSipCall ------------------------------
(***************************************************************************)
(* Finite instances of SipCall for TLC: two or three dialogs, and the      *)
(* conditions of the environment each run admits.                          *)
(***************************************************************************)
EXTENDS SipCall

CONSTANTS d1, d2, d3

MCDialog2 == {d1, d2}
MCDialog3 == {d1, d2, d3}

\* Environments of the passing runs.
MCOrderly  == {"lostInvite"}
MCStaleIce == {"lostInvite", "pushless", "staleIce"}
MCHostile  == {"lostInvite", "pushless", "lateAnswer", "doubleAnswer", "lateReject", "foreignAgent",
               "garbage"}

\* Environments of the violations: one condition each.
MCOnlyPushless   == {"pushless"}
MCOnlyOverlap    == {"overlap"}
MCOnlyLateAnswer == {"lateAnswer"}
=============================================================================
