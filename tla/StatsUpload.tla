------------------------------ MODULE StatsUpload ------------------------------
(***************************************************************************)
(* The upload of call statistics: PlivoEndpoint makes a message when a     *)
(* call is answered, every five seconds of it and at its end;              *)
(* FeedbackManager buffers the messages and WebSocketClient sends them     *)
(* over a connection of WebSocketConn, the current one of which is in      *)
(* webSocket.  A connection that is replaced is not closed: it goes on,    *)
(* and its callbacks reach the client all the same.                        *)
(*                                                                         *)
(* Messages are numbered in the order they are made.  STATS_BUFFER_CAPACITY *)
(* is 1, so every message is one that sendStats flushes the buffer for.    *)
(***************************************************************************)
EXTENDS WebSocketConn

CONSTANTS MaxMessage,   \* bound on the messages made
          NoConn        \* webSocket is nil

ASSUME ConnAssumption == Conn \subseteq Nat /\ NoConn \notin Conn
ASSUME MessageAssumption == MaxMessage \in Nat /\ Payload = 1..MaxMessage

VARIABLES
  statsBuffer,    \* FeedbackManager's
  statsMessage,   \* WebSocketClient's, to be sent when the connection opens
  readyState,     \* WebSocketClient's
  webSocket,      \* the current connection
  opened,         \* WebSocket.opened of the current connection
  call,           \* "none" or "answered"
  sampling,       \* getStats was called, its completion is still to come
  made,           \* how many messages were made
  crossed         \* a connection opened after it had been replaced

connRest   == <<stage, stream, reply, inbox, established, finalError, wire, received>>
clientVars == <<statsBuffer, statsMessage, readyState, webSocket, opened>>
sourceVars == <<call, sampling, made>>
vars       == <<connVars, clientVars, sourceVars, crossed>>

Init ==
  /\ ConnInit
  /\ statsBuffer = <<>> /\ statsMessage = <<>> /\ readyState = FALSE
  /\ webSocket = NoConn /\ opened = FALSE
  /\ call = "none" /\ sampling = FALSE /\ made = 0 /\ crossed = FALSE

-----------------------------------------------------------------------------
(* FeedbackManager and WebSocketClient                                      *)

\* WebSocket.send, for each message of s: nothing when it is not open.
SentOn(s) == IF opened THEN Enqueue(webSocket, s) ELSE frames

\* openWebSocket: the connection before it, if any, is only forgotten.  The
\* connections are numbered as the manager numbers them.
OpenWebSocket(s) ==
  \E w \in Conn :
    /\ stage[w] = "none" /\ \A v \in Conn : v < w => stage[v] # "none"
    /\ stage' = [stage EXCEPT ![w] = "openConn"]
    /\ webSocket' = w /\ opened' = TRUE
    /\ readyState' = FALSE
    /\ statsMessage' = s
    /\ UNCHANGED <<stream, reply, inbox, frames, established, finalError, wire, received>>

\* (a socket that is opened with the last message only, and an emptied buffer)
SendStatsLosing ==
  /\ made < MaxMessage /\ made' = made + 1
  /\ LET buffer == Append(statsBuffer, made + 1) IN
     \/ /\ ~readyState
        /\ OpenWebSocket(<<made + 1>>) /\ statsBuffer' = <<>>
     \/ /\ readyState
        /\ frames' = SentOn(buffer) /\ statsBuffer' = <<>>
        /\ UNCHANGED <<statsMessage, readyState, webSocket, opened, connRest>>

\* (a buffer that is sent and kept)
SendStatsKeeping ==
  /\ made < MaxMessage /\ made' = made + 1
  /\ LET buffer == Append(statsBuffer, made + 1) IN
     \/ /\ ~readyState
        /\ OpenWebSocket(buffer) /\ statsBuffer' = buffer
     \/ /\ readyState
        /\ frames' = SentOn(buffer) /\ statsBuffer' = buffer
        /\ UNCHANGED <<statsMessage, readyState, webSocket, opened, connRest>>

\* sendStats: the buffer goes to the socket, or a new socket is opened with a
\* copy of it.
SendStats ==
  /\ made < MaxMessage /\ made' = made + 1
  /\ LET buffer == Append(statsBuffer, made + 1) IN
     \/ /\ ~readyState
        /\ OpenWebSocket(buffer) /\ statsBuffer' = buffer
     \/ /\ readyState
        /\ frames' = SentOn(buffer) /\ statsBuffer' = <<>>
        /\ UNCHANGED <<statsMessage, readyState, webSocket, opened, connRest>>

\* (a client that keeps for later what it should send)
WebSocketOpenSilent(w) ==
  /\ ReadResponse(w, frames)
  /\ readyState' = TRUE /\ statsMessage' = <<>>
  /\ crossed' = (crossed \/ w # webSocket)
  /\ UNCHANGED <<statsBuffer, webSocket, opened, sourceVars>>

\* webSocketOpen, of the connection w or of one replaced since.
WebSocketOpen(w) ==
  /\ ReadResponse(w, SentOn(statsMessage))
  /\ readyState' = TRUE /\ statsMessage' = <<>>
  /\ crossed' = (crossed \/ w # webSocket)
  /\ UNCHANGED <<statsBuffer, webSocket, opened, sourceVars>>

\* webSocketError, of whatever connection, then WebSocket's eclose and
\* webSocketClose, which leaves readyState as it is.
WebSocketClosed(w) ==
  /\ CloseConn(w)
  /\ readyState' = (readyState /\ ~finalError[w])
  /\ opened' = (opened /\ w # webSocket)
  /\ UNCHANGED <<statsBuffer, statsMessage, webSocket, sourceVars, crossed>>

-----------------------------------------------------------------------------
(* PlivoEndpoint, for a user whose statistics are enabled                   *)

\* sendCallAnsweredStats, which starts the five-second timer.
SendCallAnsweredStats ==
  /\ call = "none" /\ call' = "answered"
  /\ SendStats
  /\ UNCHANGED <<sampling, crossed>>

\* The timer: sendCallIntervalStats asks WebRTC for its statistics.
SendCallIntervalStats ==
  /\ call = "answered" /\ ~sampling
  /\ sampling' = TRUE
  /\ UNCHANGED <<connVars, clientVars, call, made, crossed>>

\* The completion of getStats; it may come after the end of the call.
StatsCollected ==
  /\ sampling /\ sampling' = FALSE
  /\ SendStats
  /\ UNCHANGED <<call, crossed>>

\* sendCallSummaryStats, at the end of every call, answered or not; it stops
\* the timer.
SendCallSummaryStats ==
  /\ call' = "none"
  /\ SendStats
  /\ UNCHANGED <<sampling, crossed>>

-----------------------------------------------------------------------------
Source == \/ SendCallAnsweredStats \/ SendCallIntervalStats \/ StatsCollected
          \/ SendCallSummaryStats

Connections ==
  \E w \in Conn :
    \/ WebSocketOpen(w) \/ WebSocketClosed(w)
    \/ (QuietStep(w) \/ ServerStep(w)) /\ UNCHANGED <<clientVars, sourceVars, crossed>>

Next == Source \/ Connections

Spec == Init /\ [][Next]_vars

(***************************************************************************)
(* Fairness: the manager's thread serves every connection (dirty says when *)
(* there is something to do, and a step without effect is a stutter); the  *)
(* network opens streams or lets them time out, the server answers the     *)
(* handshake and reads what it is sent.  Calls and failures owe nothing.   *)
(***************************************************************************)
Quietly(A) == A /\ UNCHANGED <<clientVars, sourceVars, crossed>>

Fairness ==
  \A w \in Conn :
    /\ WF_vars(Quietly(QuietStep(w)))
    /\ WF_vars(WebSocketOpen(w)) /\ WF_vars(WebSocketClosed(w))
    /\ WF_vars(Quietly(ServerAccepts(w))) /\ WF_vars(Quietly(ServerReplies(w)))
    /\ WF_vars(Quietly(ServerReceives(w)))

FairSpec == Spec /\ Fairness

-----------------------------------------------------------------------------
(* What the module promises                                                 *)

\* Type invariant: every variable holds a value the code can give it.
TypeOK ==
  /\ ConnTypeOK
  /\ statsBuffer \in Seq(Payload) /\ statsMessage \in Seq(Payload)
  /\ readyState \in BOOLEAN /\ opened \in BOOLEAN
  /\ webSocket \in Conn \cup {NoConn}
  /\ call \in {"none", "answered"} /\ sampling \in BOOLEAN
  /\ made \in 0..MaxMessage /\ crossed \in BOOLEAN

\* All that was ever handed to a connection, in order.
Flow(w) == received[w] \o wire[w] \o frames[w]

\* The text frames of f at the positions P are in the order they were made, and
\* none is there twice.
InOrder(f, P) == \A i, j \in P : i < j /\ f[i] # Close /\ f[j] # Close => f[i] < f[j]

\* A connection carries the messages in the order they were made, but for one
\* step back: those of statsMessage, which webSocketOpen sends, are still in the
\* buffer, and are sent again with it.  So the server may see a message twice on
\* one connection, and never three times.
OneStepBack ==
  \A w \in Conn : \E k \in 0..Len(Flow(w)) :
    InOrder(Flow(w), 1..k) /\ InOrder(Flow(w), (k + 1)..Len(Flow(w)))

Broken(w)  == established[w] /\ (stream[w] # "open" \/ finalError[w] \/ Closes(frames[w])
                                 \/ stage[w] \in {"closeConn", "end", "exit"})
Refused(w) == ~established[w] /\ stage[w] \in {"closeConn", "end", "exit"}

\* Messages may be lost once an established connection failed, or when an
\* attempt fails to which messages were sent because one before it opened.
Lossy == (\E w \in Conn : Broken(w)) \/ (crossed /\ \E w \in Conn : Refused(w))

Carried(w) == Range(wire[w]) \cup (Range(frames[w]) \ {Close})

Held == Range(statsBuffer) \cup Range(statsMessage) \cup UNION {Carried(w) : w \in Conn}
Got  == UNION {Range(received[w]) : w \in Conn}

\* The upload as the server and the endpoint see it.
Up == INSTANCE Upload WITH Message <- Payload, made <- 1..made, held <- Held,
                           got <- Got, lossy <- Lossy

\* The buffer, its copy and the queues of all connections together implement
\* the abstract upload: messages are lost only where Lossy allows it, and a
\* connection attempt that fails alone loses none.
ImplementsUpload == Up!Spec

\* Every message is received, unless a connection or an attempt failed:
\* a message left in the buffer is never the only copy for long.
AllUploaded ==
  \A m \in Payload :
    m <= made ~> m \in Got \/ \E w \in Conn : Broken(w) \/ Refused(w)
=============================================================================
