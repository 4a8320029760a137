----------------------------- MODULE WebSocketConn -----------------------------
(***************************************************************************)
(* The connections of WebSocket.swift: class InnerWebSocket, whose step()  *)
(* the manager's thread calls again and again until the connection exits,  *)
(* and the server at the other end.  A connection is created by a client   *)
(* module, which also says what the callbacks do: the actions that make a  *)
(* callback are named for it, and the client conjoins its handler.         *)
(***************************************************************************)
EXTENDS Functions, Naturals, Sequences

CONSTANTS Conn,      \* the connections a behaviour may create (bound)
          Payload,   \* what can be sent in a text frame, as numbers
          Net        \* the conditions below that the run admits

(***************************************************************************)
(*   refuse   handshakes fail: refused, cut, or timed out while opening    *)
(*   cut      established connections end without a close frame            *)
(*   bye      the server sends a close frame                               *)
(*   garbage  the server sends a frame that breaks the protocol            *)
(* The other frames a server may send do not change how a connection goes  *)
(* on (a ping only queues a pong), and are left out.                       *)
(***************************************************************************)
NetConditions == {"refuse", "cut", "bye", "garbage"}

Close == 0   \* a close frame in the queue of frames

ASSUME NetAssumption == Net \subseteq NetConditions
ASSUME PayloadAssumption == Payload \subseteq Nat \ {Close}

VARIABLES
  stage,        \* InnerWebSocket.stage, "none" before init, "exit" after end
  stream,       \* status of the TCP streams as the client sees it
  reply,        \* the server's answer to the handshake
  inbox,        \* frames of the server not read yet
  frames,       \* InnerWebSocket.frames: queued, not written yet
  established,  \* _readyState has been open
  finalError,   \* finalError is set
  wire,         \* text frames written and not yet received
  received      \* text frames the server received

connVars == <<stage, stream, reply, inbox, frames, established, finalError, wire, received>>

Stage  == {"none", "openConn", "readResponse", "handleFrames", "closeConn", "end", "exit"}
Stream == {"none", "opening", "open", "atEnd", "error", "closed"}
Reply  == {"none", "switching", "refused"}
Inbound == {"close", "garbage"}
ServerFrames == (IF "bye" \in Net THEN {"close"} ELSE {})
                  \cup (IF "garbage" \in Net THEN {"garbage"} ELSE {})

ConnInit ==
  /\ stage = [w \in Conn |-> "none"] /\ stream = [w \in Conn |-> "none"]
  /\ reply = [w \in Conn |-> "none"] /\ inbox = [w \in Conn |-> <<>>]
  /\ frames = [w \in Conn |-> <<>>] /\ established = [w \in Conn |-> FALSE]
  /\ finalError = [w \in Conn |-> FALSE]
  /\ wire = [w \in Conn |-> <<>>] /\ received = [w \in Conn |-> <<>>]

\* send() for each element of s: the frames queue up even before the
\* connection is open.
Enqueue(w, s) == [frames EXCEPT ![w] = @ \o s]

-----------------------------------------------------------------------------
(* The manager's thread: step()                                             *)

OpenConn(w) ==
  /\ stage[w] = "openConn"
  /\ stage' = [stage EXCEPT ![w] = "readResponse"]
  /\ stream' = [stream EXCEPT ![w] = "opening"]
  /\ UNCHANGED <<reply, inbox, frames, established, finalError, wire, received>>

\* (an attempt that goes to the ready state closed, which is no stage)
FailHandshakeClosed(w) ==
  /\ stage[w] = "readResponse"
  /\ \/ reply[w] = "refused"
     \/ stream[w] \in {"atEnd", "error"}
     \/ stream[w] = "opening" /\ "refuse" \in Net
  /\ finalError' = [finalError EXCEPT ![w] = TRUE]
  /\ stage' = [stage EXCEPT ![w] = "closed"]
  /\ UNCHANGED <<stream, reply, inbox, frames, established, wire, received>>

\* The connection attempt fails: a timeout while the streams open, a stream
\* that ends or breaks, an answer that is not 101.
FailHandshake(w) ==
  /\ stage[w] = "readResponse"
  /\ \/ reply[w] = "refused"
     \/ stream[w] \in {"atEnd", "error"}
     \/ stream[w] = "opening" /\ "refuse" \in Net
  /\ finalError' = [finalError EXCEPT ![w] = TRUE]
  /\ stage' = [stage EXCEPT ![w] = "closeConn"]
  /\ UNCHANGED <<stream, reply, inbox, frames, established, wire, received>>

\* readResponse finds the 101; the frames in F are queued by webSocketOpen,
\* which runs before the next step.
ReadResponse(w, F) ==
  /\ stage[w] = "readResponse" /\ stream[w] = "open" /\ reply[w] = "switching"
  /\ stage' = [stage EXCEPT ![w] = "handleFrames"]
  /\ established' = [established EXCEPT ![w] = TRUE]
  /\ reply' = [reply EXCEPT ![w] = "none"]
  /\ frames' = F
  /\ UNCHANGED <<stream, inbox, finalError, wire, received>>

\* The frames of f that stepOutputFrames writes: those before a close frame.
Closes(f)     == Close \in Range(f)
FirstClose(f) == CHOOSE i \in DOMAIN f : f[i] = Close /\ \A j \in 1..(i - 1) : f[j] # Close
Texts(f)      == IF Closes(f) THEN SubSeq(f, 1, FirstClose(f) - 1) ELSE f

\* stepOutputFrames writes what is queued; frames after a close frame, and
\* frames for a broken stream, are dropped.
WriteFrames(w) ==
  wire' = IF stream[w] = "open"
          THEN [wire EXCEPT ![w] = @ \o Texts(frames[w])] ELSE wire

\* Handle frames, then: a close frame was written, the connection closes.
HandleClose(w) ==
  /\ stage[w] = "handleFrames"
  /\ stream[w] = "open" \/ (stream[w] = "error" /\ finalError[w])
  /\ Closes(frames[w])
  /\ WriteFrames(w)
  /\ frames' = [frames EXCEPT ![w] = <<>>]
  /\ stage' = [stage EXCEPT ![w] = "closeConn"]
  /\ UNCHANGED <<stream, reply, inbox, established, finalError, received>>

\* Otherwise a frame is read, if there is one: a close frame is
\* echoed, and one that breaks the protocol answered with a close frame.
HandleFrames(w) ==
  /\ stage[w] = "handleFrames"
  /\ stream[w] = "open"
  /\ frames[w] # <<>> \/ inbox[w] # <<>>
  /\ ~Closes(frames[w])
  /\ WriteFrames(w)
  /\ IF inbox[w] = <<>>
     THEN frames' = [frames EXCEPT ![w] = <<>>] /\ UNCHANGED <<inbox, finalError>>
     ELSE /\ inbox' = [inbox EXCEPT ![w] = Tail(@)]
          /\ frames' = [frames EXCEPT ![w] = <<Close>>]
          /\ finalError' = [finalError EXCEPT ![w] = @ \/ Head(inbox[w]) = "garbage"]
  /\ UNCHANGED <<stage, stream, reply, established, received>>

\* The stream is at its end: no error, if there was none before.  After one,
\* step() returns without doing anything, for ever.
HandleAtEnd(w) ==
  /\ stage[w] = "handleFrames" /\ stream[w] = "atEnd" /\ ~finalError[w]
  /\ stage' = [stage EXCEPT ![w] = "closeConn"]
  /\ UNCHANGED <<stream, reply, inbox, frames, established, finalError, wire, received>>

\* The stream is broken: a close frame is queued behind what there is.
HandleStreamError(w) ==
  /\ stage[w] = "handleFrames" /\ stream[w] = "error" /\ ~finalError[w]
  /\ finalError' = [finalError EXCEPT ![w] = TRUE]
  /\ frames' = Enqueue(w, <<Close>>)
  /\ UNCHANGED <<stage, stream, reply, inbox, established, wire, received>>

\* closeConn: webSocketError if there was an error, then the streams are
\* closed, and webSocketClose.  What is still queued, unread or on its way is
\* lost.
CloseConn(w) ==
  /\ stage[w] = "closeConn"
  /\ stage' = [stage EXCEPT ![w] = "end"]
  /\ stream' = [stream EXCEPT ![w] = "closed"]
  /\ frames' = [frames EXCEPT ![w] = <<>>] /\ inbox' = [inbox EXCEPT ![w] = <<>>]
  /\ wire' = [wire EXCEPT ![w] = <<>>] /\ reply' = [reply EXCEPT ![w] = "none"]
  /\ UNCHANGED <<established, finalError, received>>

\* end: webSocketEnd, and the manager forgets the connection.
EndConn(w) ==
  /\ stage[w] = "end"
  /\ stage' = [stage EXCEPT ![w] = "exit"]
  /\ UNCHANGED <<stream, reply, inbox, frames, established, finalError, wire, received>>

-----------------------------------------------------------------------------
(* The network and the server                                               *)

ServerAccepts(w) ==
  /\ stage[w] = "readResponse" /\ stream[w] = "opening"
  /\ stream' = [stream EXCEPT ![w] = "open"]
  /\ UNCHANGED <<stage, reply, inbox, frames, established, finalError, wire, received>>

ServerReplies(w) ==
  /\ stage[w] = "readResponse" /\ stream[w] = "open" /\ reply[w] = "none"
  /\ \/ reply' = [reply EXCEPT ![w] = "switching"]
     \/ "refuse" \in Net /\ reply' = [reply EXCEPT ![w] = "refused"]
  /\ UNCHANGED <<stage, stream, inbox, frames, established, finalError, wire, received>>

\* One unread frame at a time is enough (bound).
ServerSends(w) ==
  /\ stage[w] = "handleFrames" /\ stream[w] = "open" /\ inbox[w] = <<>>
  /\ \E f \in ServerFrames : inbox' = [inbox EXCEPT ![w] = <<f>>]
  /\ UNCHANGED <<stage, stream, reply, frames, established, finalError, wire, received>>

\* The server closes (atEnd) or the connection breaks (error); what had not
\* arrived by then never will.
ConnectionDrops(w) ==
  /\ stage[w] \in {"readResponse", "handleFrames"} /\ stream[w] = "open"
  /\ IF established[w] THEN "cut" \in Net ELSE "refuse" \in Net
  /\ \E s \in {"atEnd", "error"} : stream' = [stream EXCEPT ![w] = s]
  /\ wire' = [wire EXCEPT ![w] = <<>>]
  /\ UNCHANGED <<stage, reply, inbox, frames, established, finalError, received>>

ServerReceives(w) ==
  /\ wire[w] # <<>>
  /\ received' = [received EXCEPT ![w] = Append(@, Head(wire[w]))]
  /\ wire' = [wire EXCEPT ![w] = Tail(@)]
  /\ UNCHANGED <<stage, stream, reply, inbox, frames, established, finalError>>

\* Steps of a connection that make no callback the client acts on.
QuietStep(w) ==
  \/ OpenConn(w) \/ FailHandshake(w) \/ HandleClose(w) \/ HandleFrames(w)
  \/ HandleAtEnd(w) \/ HandleStreamError(w) \/ EndConn(w)

ServerStep(w) ==
  \/ ServerAccepts(w) \/ ServerReplies(w) \/ ServerSends(w)
  \/ ConnectionDrops(w) \/ ServerReceives(w)

-----------------------------------------------------------------------------
\* Type of the connections' state.
ConnTypeOK ==
  /\ stage \in [Conn -> Stage] /\ stream \in [Conn -> Stream]
  /\ reply \in [Conn -> Reply]
  /\ inbox \in [Conn -> Seq(Inbound)]
  /\ frames \in [Conn -> Seq(Payload \cup {Close})]
  /\ established \in [Conn -> BOOLEAN] /\ finalError \in [Conn -> BOOLEAN]
  /\ wire \in [Conn -> Seq(Payload)] /\ received \in [Conn -> Seq(Payload)]
=============================================================================
