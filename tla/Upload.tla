-------------------------------- MODULE Upload --------------------------------
(***************************************************************************)
(* What the upload of call statistics promises, whatever sockets it uses:  *)
(* every message made is held until the server has it, and may arrive more *)
(* than once; only after a connection failed may one be lost.              *)
(***************************************************************************)
CONSTANT Message

VARIABLES made,    \* messages the SDK made
          held,    \* messages it still has, or that are on their way
          got,     \* messages the server received
          lossy    \* a connection failed in a way that may lose messages

uploadVars == <<made, held, got, lossy>>

Init == made = {} /\ held = {} /\ got = {} /\ lossy = FALSE

\* A message is made and held with those before it; with lossy set it may be
\* lost at once, together with others.
Make(m) ==
  /\ m \notin made
  /\ made' = made \cup {m}
  /\ IF lossy THEN held' \in SUBSET (held \cup {m}) ELSE held' = held \cup {m}
  /\ UNCHANGED <<got, lossy>>

\* A message arrives; the SDK may hold another copy of it.
Arrive(m) ==
  /\ m \in held
  /\ got' = got \cup {m}
  /\ held' = held \/ held' = held \ {m}
  /\ UNCHANGED <<made, lossy>>

\* A connection fails, and messages may be lost with it.
Fail ==
  /\ lossy' = TRUE
  /\ held' \in SUBSET held
  /\ UNCHANGED <<made, got>>

Next == (\E m \in Message : Make(m) \/ Arrive(m)) \/ Fail

Spec == Init /\ [][Next]_uploadVars

\* Nothing is received that was not made, and nothing made is missing unless a
\* connection failed.
NothingLost == held \cup got \subseteq made /\ (lossy \/ made \subseteq held \cup got)
=============================================================================
