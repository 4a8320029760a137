-------------------------- MODULE StatsUploadProofs --------------------------
(***************************************************************************)
(* StatsUpload keeps its types, implements Upload and keeps the order of   *)
(* what it sends, for any number of connections and messages, and whatever *)
(* the network does.                                                       *)
(***************************************************************************)
EXTENDS StatsUpload, SequenceTheorems, WellFoundedInduction, TLAPS

-----------------------------------------------------------------------------
(* What links the client to its connections                                 *)

\* webSocket is nil only before the first connection.
NoneYet == webSocket = NoConn => /\ ~opened /\ ~readyState
                                 /\ \A w \in Conn : stage[w] = "none"

\* The current connection was begun, and the client takes it for closed only
\* after it is.
CurrentKnown == webSocket # NoConn => /\ stage[webSocket] # "none"
                                      /\ opened \/ stage[webSocket] \in {"end", "exit"}

\* A connection handles frames only once it is established, and only then has
\* anything been written to it or gone wrong after the handshake.
EstablishedInTime ==
  \A w \in Conn :
    /\ stage[w] \in {"none", "openConn", "readResponse"} => ~established[w]
    /\ stage[w] = "handleFrames" => established[w]
    /\ ~established[w] => wire[w] = <<>>

\* Messages are queued on a connection that is not established only when one
\* opened that had been replaced by it.
QueuedEarly ==
  /\ readyState /\ webSocket # NoConn /\ ~established[webSocket] => crossed
  /\ \A w \in Conn : frames[w] # <<>> /\ ~established[w] => crossed

\* What webSocketOpen would send is still in the buffer.
CopyInBuffer ==
  statsMessage # <<>> => ~readyState /\ Range(statsMessage) \subseteq Range(statsBuffer)

UploadInv == /\ TypeOK /\ NoneYet /\ CurrentKnown /\ EstablishedInTime
             /\ QueuedEarly /\ CopyInBuffer

-----------------------------------------------------------------------------
(* Queues of frames                                                         *)

\* A queue with a close frame has a first one.
LEMMA FirstCloseExists ==
  ASSUME NEW f \in Seq(Payload \cup {Close}), Closes(f)
  PROVE  /\ FirstClose(f) \in DOMAIN f /\ f[FirstClose(f)] = Close
         /\ \A j \in 1..(FirstClose(f) - 1) : f[j] # Close
<1> DEFINE T == {i \in DOMAIN f : f[i] = Close}
<1>1. T \subseteq Nat /\ T # {}
  BY DEF Closes, Range
<1>2. PICK i \in T : \A j \in T : ~(<<j, i>> \in OpToRel(<, Nat))
  <2> HIDE DEF T
  <2> QED BY <1>1, NatLessThanWellFounded, WFMin
<1>3. \A j \in T : ~(j < i)
  BY <1>1, <1>2 DEF OpToRel
<1>4. /\ i \in DOMAIN f /\ f[i] = Close
      /\ \A j \in 1..(i - 1) : f[j] # Close
  BY <1>3
<1> QED BY <1>4 DEF FirstClose

\* stepOutputFrames writes text frames only, all of the queue's if it holds no
\* close frame.
LEMMA TextsAreText ==
  ASSUME NEW f \in Seq(Payload \cup {Close})
  PROVE  /\ Texts(f) \in Seq(Payload)
         /\ ~Closes(f) => Texts(f) = f
<1>1. CASE Closes(f)
  <2> DEFINE n == FirstClose(f) - 1
  <2>1. n \in 0..Len(f) /\ \A j \in 1..n : f[j] \in Payload
    BY <1>1, FirstCloseExists
  <2>2. SubSeq(f, 1, n) = [j \in 1..n |-> f[j]]
    BY <2>1
  <2> QED BY <1>1, <2>1, <2>2 DEF Texts
<1>2. CASE ~Closes(f)
  <2>1. \A j \in 1..Len(f) : f[j] \in Payload
    BY <1>2 DEF Closes, Range
  <2> QED BY <1>2, <2>1 DEF Texts
<1> QED BY <1>1, <1>2

\* What is written was in the queue.
LEMMA TextsInQueue ==
  ASSUME NEW f \in Seq(Payload \cup {Close})
  PROVE  Range(Texts(f)) \subseteq Range(f) \ {Close}
<1>1. CASE Closes(f)
  <2> DEFINE n == FirstClose(f) - 1
  <2>1. n \in 0..Len(f) /\ \A j \in 1..n : f[j] # Close
    BY <1>1, FirstCloseExists
  <2>2. DOMAIN SubSeq(f, 1, n) = 1..n /\ \A j \in 1..n : SubSeq(f, 1, n)[j] = f[j]
    BY <2>1
  <2>3. 1..n \subseteq DOMAIN f
    BY <2>1
  <2> HIDE DEF n
  <2> QED BY <1>1, <2>1, <2>2, <2>3 DEF Texts, Range, n
<1>2. CASE ~Closes(f)
  BY <1>2 DEF Texts, Closes
<1> QED BY <1>1, <1>2

\* What a queue holds after more is appended.
LEMMA RangeOfAppended ==
  ASSUME NEW S, NEW s \in Seq(S), NEW e \in S
  PROVE  Append(s, e) \in Seq(S) /\ Range(Append(s, e)) = Range(s) \cup {e}
<1>1. Range(<<e>>) = {e} /\ <<e>> \in Seq(S) /\ Append(s, e) = s \o <<e>>
  BY DEF Range
<1>2. Range(s \o <<e>>) = Range(s) \cup Range(<<e>>)
  BY <1>1, RangeConcatenation
<1> QED BY <1>1, <1>2

\* The head of a queue and its tail are what it holds.
LEMMA RangeOfTail ==
  ASSUME NEW S, NEW s \in Seq(S), s # <<>>
  PROVE  Head(s) \in S /\ Range(s) = {Head(s)} \cup Range(Tail(s))
<1>1. s = <<Head(s)>> \o Tail(s) /\ Head(s) \in S /\ Tail(s) \in Seq(S) /\ <<Head(s)>> \in Seq(S)
  OBVIOUS
<1>2. Range(<<Head(s)>>) = {Head(s)}
  BY DEF Range
<1>3. Range(<<Head(s)>> \o Tail(s)) = Range(<<Head(s)>>) \cup Range(Tail(s))
  BY <1>1, RangeConcatenation
<1> QED BY <1>1, <1>2, <1>3

-----------------------------------------------------------------------------
(* Types                                                                    *)

\* Writing frames keeps the type of what is on its way.
LEMMA WriteType ==
  ASSUME ConnTypeOK, NEW w \in Conn, WriteFrames(w)
  PROVE  wire' \in [Conn -> Seq(Payload)]
<1>1. Texts(frames[w]) \in Seq(Payload) /\ wire[w] \in Seq(Payload)
  BY TextsAreText DEF ConnTypeOK
<1>2. wire[w] \o Texts(frames[w]) \in Seq(Payload)
  BY <1>1
<1> QED BY <1>2 DEF WriteFrames, ConnTypeOK

\* Sending on the current connection keeps the type of the queues.
LEMMA SentType ==
  ASSUME TypeOK, NEW s \in Seq(Payload)
  PROVE  SentOn(s) \in [Conn -> Seq(Payload \cup {Close})]
<1>1. ASSUME webSocket \in Conn
      PROVE  frames[webSocket] \o s \in Seq(Payload \cup {Close})
  BY <1>1 DEF TypeOK, ConnTypeOK
<1> QED BY <1>1 DEF SentOn, Enqueue, TypeOK, ConnTypeOK

\* TypeOK is inductive: first the messages made, then each step of a
\* connection.
LEMMA SendStatsType ==
  ASSUME TypeOK, SendStats, call' \in {"none", "answered"}, sampling' \in BOOLEAN,
         UNCHANGED crossed
  PROVE  TypeOK'
<1> DEFINE buffer == Append(statsBuffer, made + 1)
<1>1. made' \in 0..MaxMessage /\ buffer \in Seq(Payload)
  BY MessageAssumption DEF TypeOK, SendStats
<1>2. CASE ~readyState
  BY <1>1, <1>2 DEF TypeOK, ConnTypeOK, SendStats, OpenWebSocket, Stage
<1>3. CASE readyState
  <2>1. SentOn(buffer) \in [Conn -> Seq(Payload \cup {Close})]
    BY <1>1, SentType
  <2> QED BY <1>1, <1>3, <2>1 DEF TypeOK, ConnTypeOK, SendStats, connRest
<1> QED BY <1>2, <1>3 DEF TypeOK

LEMMA QuietStepType ==
  ASSUME ConnTypeOK, NEW w \in Conn, QuietStep(w)
  PROVE  ConnTypeOK'
<1> USE DEF Stage, Stream, Reply, Inbound
<1>1. CASE OpenConn(w)
  BY <1>1 DEF ConnTypeOK, OpenConn
<1>2. CASE FailHandshake(w)
  BY <1>2 DEF ConnTypeOK, FailHandshake
<1>3. CASE HandleClose(w)
  BY <1>3, WriteType DEF ConnTypeOK, HandleClose
<1>4. CASE HandleFrames(w)
  <2>1. <<Close>> \in Seq(Payload \cup {Close}) /\ <<>> \in Seq(Payload \cup {Close})
    OBVIOUS
  <2>2. inbox[w] # <<>> => Tail(inbox[w]) \in Seq(Inbound)
    BY DEF ConnTypeOK
  <2>3. frames' \in [Conn -> Seq(Payload \cup {Close})] /\ inbox' \in [Conn -> Seq(Inbound)]
        /\ finalError' \in [Conn -> BOOLEAN]
    BY <1>4, <2>1, <2>2 DEF ConnTypeOK, HandleFrames
  <2> QED BY <1>4, <2>3, WriteType DEF ConnTypeOK, HandleFrames
<1>5. CASE HandleAtEnd(w)
  BY <1>5 DEF ConnTypeOK, HandleAtEnd
<1>6. CASE HandleStreamError(w)
  <2>1. frames[w] \o <<Close>> \in Seq(Payload \cup {Close})
    BY DEF ConnTypeOK
  <2> QED BY <1>6, <2>1 DEF ConnTypeOK, HandleStreamError, Enqueue
<1>7. CASE EndConn(w)
  BY <1>7 DEF ConnTypeOK, EndConn
<1> QED BY <1>1, <1>2, <1>3, <1>4, <1>5, <1>6, <1>7 DEF QuietStep

LEMMA ServerStepType ==
  ASSUME ConnTypeOK, NEW w \in Conn, ServerStep(w)
  PROVE  ConnTypeOK'
<1> USE DEF Stream, Reply, Inbound, ServerFrames
<1>1. CASE ServerAccepts(w)
  BY <1>1 DEF ConnTypeOK, ServerAccepts
<1>2. CASE ServerReplies(w)
  BY <1>2 DEF ConnTypeOK, ServerReplies
<1>3. CASE ServerSends(w)
  BY <1>3 DEF ConnTypeOK, ServerSends
<1>4. CASE ConnectionDrops(w)
  BY <1>4 DEF ConnTypeOK, ConnectionDrops
<1>5. CASE ServerReceives(w)
  BY <1>5 DEF ConnTypeOK, ServerReceives
<1> QED BY <1>1, <1>2, <1>3, <1>4, <1>5 DEF ServerStep

LEMMA TypeStep == TypeOK /\ [Next]_vars => TypeOK'
<1> SUFFICES ASSUME TypeOK, [Next]_vars
             PROVE  TypeOK'
  OBVIOUS
<1>1. CASE SendCallAnsweredStats
  BY <1>1, SendStatsType DEF SendCallAnsweredStats, TypeOK
<1>2. CASE SendCallIntervalStats
  BY <1>2 DEF SendCallIntervalStats, TypeOK, ConnTypeOK, connVars, clientVars
<1>3. CASE StatsCollected
  BY <1>3, SendStatsType DEF StatsCollected, TypeOK
<1>4. CASE SendCallSummaryStats
  BY <1>4, SendStatsType DEF SendCallSummaryStats, TypeOK
<1>5. ASSUME NEW w \in Conn, WebSocketOpen(w)
      PROVE  TypeOK'
  <2>1. SentOn(statsMessage) \in [Conn -> Seq(Payload \cup {Close})]
    BY SentType DEF TypeOK
  <2>2. ConnTypeOK'
    BY <1>5, <2>1 DEF WebSocketOpen, ReadResponse, TypeOK, ConnTypeOK, Stage, Reply
  <2>3. statsMessage' \in Seq(Payload)
    BY <1>5 DEF WebSocketOpen
  <2>4. crossed' \in BOOLEAN
    BY <1>5 DEF WebSocketOpen, TypeOK
  <2> QED BY <1>5, <2>2, <2>3, <2>4 DEF WebSocketOpen, TypeOK, sourceVars
<1>6. ASSUME NEW w \in Conn, WebSocketClosed(w)
      PROVE  TypeOK'
  BY <1>6 DEF WebSocketClosed, CloseConn, TypeOK, ConnTypeOK, sourceVars, Stage, Stream, Reply
<1>7. ASSUME NEW w \in Conn, QuietStep(w) \/ ServerStep(w), UNCHANGED <<clientVars, sourceVars, crossed>>
      PROVE  TypeOK'
  BY <1>7, QuietStepType, ServerStepType DEF TypeOK, clientVars, sourceVars
<1>8. CASE UNCHANGED vars
  BY <1>8 DEF vars, connVars, clientVars, sourceVars, TypeOK, ConnTypeOK
<1> QED BY <1>1, <1>2, <1>3, <1>4, <1>5, <1>6, <1>7, <1>8 DEF Next, Source, Connections

LEMMA InitType == Init => TypeOK
<1> SUFFICES ASSUME Init
             PROVE  TypeOK
  OBVIOUS
<1>1. /\ <<>> \in Seq(Payload) /\ <<>> \in Seq(Payload \cup {Close}) /\ <<>> \in Seq(Inbound)
  OBVIOUS
<1>2. ConnTypeOK
  BY <1>1 DEF Init, ConnInit, ConnTypeOK, Stage, Stream, Reply
<1>3. made \in 0..MaxMessage
  BY MessageAssumption DEF Init
<1> QED BY <1>1, <1>2, <1>3 DEF Init, TypeOK

\* The type invariant holds of every behaviour: the queues of frames, the buffer
\* and its copy hold messages only, however many connections there are.
THEOREM TypeCorrect == Spec => []TypeOK
BY InitType, TypeStep, PTL DEF Spec

-----------------------------------------------------------------------------
(* The invariant                                                            *)

\* A new connection is no connection of before.
LEMMA SendStatsInv ==
  ASSUME UploadInv, SendStats, UNCHANGED crossed, TypeOK'
  PROVE  UploadInv'
<1> DEFINE buffer == Append(statsBuffer, made + 1)
<1> USE DEF UploadInv
<1>1. CASE ~readyState
  <2>1. PICK w \in Conn : /\ stage[w] = "none"
                          /\ stage' = [stage EXCEPT ![w] = "openConn"]
                          /\ webSocket' = w /\ opened' /\ ~readyState'
                          /\ statsMessage' = statsBuffer'
                          /\ UNCHANGED <<frames, established, wire>>
    BY <1>1 DEF SendStats, OpenWebSocket
  <2>2. NoneYet' /\ CurrentKnown'
    BY <2>1, ConnAssumption DEF NoneYet, CurrentKnown, TypeOK, ConnTypeOK
  <2>3. EstablishedInTime'
    BY <2>1 DEF EstablishedInTime, TypeOK, ConnTypeOK
  <2>4. QueuedEarly' /\ CopyInBuffer'
    BY <2>1 DEF QueuedEarly, CopyInBuffer
  <2> QED BY <2>2, <2>3, <2>4
<1>2. CASE readyState
  <2>1. /\ UNCHANGED <<statsMessage, readyState, webSocket, opened, connRest>>
        /\ statsMessage = <<>> /\ frames' = SentOn(buffer)
    BY <1>2 DEF SendStats, CopyInBuffer
  <2>2. NoneYet' /\ CurrentKnown' /\ EstablishedInTime' /\ CopyInBuffer'
    BY <2>1 DEF NoneYet, CurrentKnown, EstablishedInTime, CopyInBuffer, connRest
  <2>3. QueuedEarly'
    BY <1>2, <2>1 DEF QueuedEarly, NoneYet, SentOn, Enqueue, connRest, TypeOK, ConnTypeOK
  <2> QED BY <2>2, <2>3
<1> QED BY <1>1, <1>2 DEF TypeOK

LEMMA WebSocketOpenInv ==
  ASSUME UploadInv, NEW w \in Conn, WebSocketOpen(w), TypeOK'
  PROVE  UploadInv'
<1> USE DEF UploadInv
<1>1. /\ stage[w] = "readResponse" /\ stage' = [stage EXCEPT ![w] = "handleFrames"]
      /\ established' = [established EXCEPT ![w] = TRUE]
      /\ frames' = SentOn(statsMessage) /\ statsMessage' = <<>> /\ readyState'
      /\ crossed' = (crossed \/ w # webSocket)
      /\ UNCHANGED <<wire, webSocket, opened>>
  BY DEF WebSocketOpen, ReadResponse
<1>2. webSocket # NoConn
  BY <1>1 DEF NoneYet
<1>3. NoneYet' /\ CurrentKnown' /\ EstablishedInTime' /\ CopyInBuffer'
  BY <1>1, <1>2 DEF NoneYet, CurrentKnown, EstablishedInTime, CopyInBuffer, TypeOK, ConnTypeOK
<1>4. QueuedEarly'
  BY <1>1, <1>2 DEF QueuedEarly, SentOn, Enqueue, TypeOK, ConnTypeOK
<1> QED BY <1>3, <1>4

LEMMA WebSocketClosedInv ==
  ASSUME UploadInv, NEW w \in Conn, WebSocketClosed(w), TypeOK'
  PROVE  UploadInv'
<1> USE DEF UploadInv
<1>1. /\ stage[w] = "closeConn" /\ stage' = [stage EXCEPT ![w] = "end"]
      /\ frames' = [frames EXCEPT ![w] = <<>>] /\ wire' = [wire EXCEPT ![w] = <<>>]
      /\ readyState' => readyState
      /\ opened' = (opened /\ w # webSocket)
      /\ UNCHANGED <<established, statsMessage, statsBuffer, webSocket, crossed>>
  BY DEF WebSocketClosed, CloseConn
<1>2. NoneYet' /\ CurrentKnown'
  BY <1>1 DEF NoneYet, CurrentKnown, TypeOK, ConnTypeOK
<1>3. EstablishedInTime' /\ QueuedEarly' /\ CopyInBuffer'
  BY <1>1 DEF EstablishedInTime, QueuedEarly, CopyInBuffer, TypeOK, ConnTypeOK
<1> QED BY <1>2, <1>3

LEMMA QuietStepInv ==
  ASSUME UploadInv, NEW w \in Conn, QuietStep(w), UNCHANGED <<clientVars, sourceVars, crossed>>, TypeOK'
  PROVE  UploadInv'
<1> USE DEF UploadInv, NoneYet, CurrentKnown, EstablishedInTime, QueuedEarly, CopyInBuffer,
            clientVars, TypeOK, ConnTypeOK
<1>1. CASE OpenConn(w)
  BY <1>1 DEF OpenConn
<1>2. CASE FailHandshake(w)
  BY <1>2 DEF FailHandshake
<1>3. CASE HandleClose(w)
  BY <1>3 DEF HandleClose, WriteFrames
<1>4. CASE HandleFrames(w)
  BY <1>4 DEF HandleFrames, WriteFrames
<1>5. CASE HandleAtEnd(w)
  BY <1>5 DEF HandleAtEnd
<1>6. CASE HandleStreamError(w)
  BY <1>6 DEF HandleStreamError, Enqueue
<1>7. CASE EndConn(w)
  BY <1>7 DEF EndConn
<1> QED BY <1>1, <1>2, <1>3, <1>4, <1>5, <1>6, <1>7 DEF QuietStep

LEMMA ServerStepInv ==
  ASSUME UploadInv, NEW w \in Conn, ServerStep(w), UNCHANGED <<clientVars, sourceVars, crossed>>, TypeOK'
  PROVE  UploadInv'
<1> USE DEF UploadInv, NoneYet, CurrentKnown, EstablishedInTime, QueuedEarly, CopyInBuffer,
            clientVars, TypeOK, ConnTypeOK
<1>1. CASE ServerAccepts(w)
  BY <1>1 DEF ServerAccepts
<1>2. CASE ServerReplies(w)
  BY <1>2 DEF ServerReplies
<1>3. CASE ServerSends(w)
  BY <1>3 DEF ServerSends
<1>4. CASE ConnectionDrops(w)
  BY <1>4 DEF ConnectionDrops
<1>5. CASE ServerReceives(w)
  BY <1>5 DEF ServerReceives
<1> QED BY <1>1, <1>2, <1>3, <1>4, <1>5 DEF ServerStep

LEMMA InvStep == UploadInv /\ [Next]_vars => UploadInv'
<1> SUFFICES ASSUME UploadInv, [Next]_vars
             PROVE  UploadInv'
  OBVIOUS
<1>1. TypeOK'
  BY TypeStep DEF UploadInv
<1>2. ASSUME SendStats, UNCHANGED crossed
      PROVE  UploadInv'
  BY <1>1, <1>2, SendStatsInv
<1>3. CASE SendCallIntervalStats \/ UNCHANGED vars
  BY <1>1, <1>3 DEF SendCallIntervalStats, vars, connVars, clientVars, UploadInv, NoneYet,
                    CurrentKnown, EstablishedInTime, QueuedEarly, CopyInBuffer
<1>4. CASE Connections
  BY <1>1, <1>4, WebSocketOpenInv, WebSocketClosedInv, QuietStepInv, ServerStepInv DEF Connections
<1> QED BY <1>2, <1>3, <1>4 DEF Next, Source, SendCallAnsweredStats, StatsCollected, SendCallSummaryStats

\* The client and its connections agree in every behaviour: what webSocketOpen
\* would send is in the buffer, and a connection that is not established has
\* messages queued only after one opened that it had replaced.
THEOREM UploadCorrect == Spec => []UploadInv
<1>1. ASSUME Init
      PROVE  TypeOK
  BY <1>1, InitType
<1>2. ASSUME Init
      PROVE  UploadInv
  BY <1>1, <1>2 DEF Init, ConnInit, UploadInv, NoneYet, CurrentKnown, EstablishedInTime,
                    QueuedEarly, CopyInBuffer
<1> QED BY <1>2, InvStep, PTL DEF Spec

-----------------------------------------------------------------------------
(* Refinement: which step of Upload each step is                            *)

UpStep == [Up!Next]_Up!uploadVars

\* A step that keeps or loses what is held, the latter only once connections
\* have failed, is a stutter or a failure of Upload.
LEMMA KeepOrFail ==
  ASSUME made' = made, Got' = Got, Held' \subseteq Held, Lossy => Lossy', Lossy' \/ Held' = Held
  PROVE  UpStep
<1>1. CASE Lossy'
  <2>1. (Lossy)' = TRUE
    BY <1>1
  <2>2. Up!Fail
    BY <2>1 DEF Up!Fail
  <2> QED BY <2>2 DEF UpStep, Up!Next
<1>2. CASE ~Lossy'
  <2>1. Lossy' = Lossy
    BY <1>2 DEF Lossy
  <2> QED BY <1>2, <2>1 DEF UpStep, Up!uploadVars
<1> QED BY <1>1, <1>2

\* What a step of one connection does to what is carried and to what has failed.
Others(w) == \A v \in Conn \ {w} : /\ Carried(v)' = Carried(v) /\ received'[v] = received[v]
                                   /\ Broken(v)' = Broken(v) /\ Refused(v)' = Refused(v)

Fails(w) == (Broken(w) => Broken(w)') /\ (Refused(w) => Refused(w)')

Loses(w) == /\ Carried(w)' \subseteq Carried(w)
            /\ Carried(w)' = Carried(w) \/ Broken(w)' \/ (crossed' /\ Refused(w)')

LEMMA ConnStepRefines ==
  ASSUME NEW w \in Conn, Others(w), Fails(w), Loses(w), received'[w] = received[w],
         UNCHANGED <<statsBuffer, statsMessage, made, crossed>>
  PROVE  UpStep
<1>1. Got' = Got
  <2>1. \A v \in Conn : received'[v] = received[v]
    BY DEF Others
  <2> QED BY <2>1 DEF Got
<1>2. Held' \subseteq Held
  <2>1. \A v \in Conn : Carried(v)' \subseteq Carried(v)
    BY DEF Others, Loses
  <2> QED BY <2>1 DEF Held
<1>3. Lossy => Lossy'
  <2>1. \A v \in Conn : (Broken(v) => Broken(v)') /\ (Refused(v) => Refused(v)')
    BY DEF Others, Fails
  <2> QED BY <2>1 DEF Lossy
<1>4. Lossy' \/ Held' = Held
  <2>1. CASE Carried(w)' = Carried(w)
    <3>1. \A v \in Conn : Carried(v)' = Carried(v)
      BY <2>1 DEF Others
    <3> QED BY <3>1 DEF Held
  <2>2. CASE Broken(w)' \/ (crossed' /\ Refused(w)')
    BY <2>2 DEF Lossy
  <2> QED BY <2>1, <2>2 DEF Loses
<1> QED BY <1>1, <1>2, <1>3, <1>4, KeepOrFail

\* The empty queue carries nothing.
LEMMA EmptyRange == Range(<<>>) = {}
BY DEF Range

\* Writing the queue moves it, when it holds no close frame.
LEMMA WriteCarries ==
  ASSUME ConnTypeOK, NEW w \in Conn, stream[w] = "open", ~Closes(frames[w]), WriteFrames(w),
         Range(frames'[w]) \ {Close} = {}
  PROVE  Carried(w)' = Carried(w)
<1>1. wire'[w] = wire[w] \o frames[w]
  BY TextsAreText DEF WriteFrames, ConnTypeOK
<1>2. Range(wire'[w]) = Range(wire[w]) \cup Range(frames[w])
  <2>1. wire[w] \in Seq(Payload \cup {Close}) /\ frames[w] \in Seq(Payload \cup {Close})
    BY DEF ConnTypeOK
  <2> QED BY <1>1, <2>1, RangeConcatenation
<1> QED BY <1>2 DEF Carried, Closes

LEMMA QuietStepRefines ==
  ASSUME UploadInv, NEW w \in Conn, QuietStep(w), UNCHANGED <<clientVars, sourceVars, crossed>>
  PROVE  UpStep
<1> USE DEF UploadInv, TypeOK
<1>1. ASSUME OpenConn(w) \/ FailHandshake(w) \/ HandleAtEnd(w) \/ EndConn(w)
      PROVE  Others(w) /\ Fails(w) /\ Loses(w) /\ received'[w] = received[w]
  <2>1. UNCHANGED <<wire, frames, received, established>>
    BY <1>1 DEF OpenConn, FailHandshake, HandleAtEnd, EndConn
  <2>2. \A v \in Conn : Carried(v)' = Carried(v)
    BY <2>1 DEF Carried
  <2>3. Others(w) /\ Fails(w)
    BY <1>1, <2>1, <2>2 DEF OpenConn, FailHandshake, HandleAtEnd, EndConn, Others, Fails, Broken,
                            Refused, EstablishedInTime, ConnTypeOK
  <2> QED BY <2>1, <2>2, <2>3 DEF Loses
<1>2. ASSUME HandleClose(w)
      PROVE  Others(w) /\ Fails(w) /\ Loses(w) /\ received'[w] = received[w]
  <2>1. Others(w) /\ Fails(w) /\ received'[w] = received[w] /\ Broken(w)'
    BY <1>2 DEF HandleClose, WriteFrames, Others, Fails, Carried, Broken, Refused,
                EstablishedInTime, ConnTypeOK
  <2>2. Carried(w)' \subseteq Carried(w)
    <3>1. Texts(frames[w]) \in Seq(Payload) /\ wire[w] \in Seq(Payload) /\ frames'[w] = <<>>
      BY <1>2, TextsAreText DEF HandleClose, ConnTypeOK
    <3>2. Range(Texts(frames[w])) \subseteq Range(frames[w]) \ {Close}
      BY <1>2, TextsInQueue DEF ConnTypeOK
    <3>3. Range(wire[w] \o Texts(frames[w])) = Range(wire[w]) \cup Range(Texts(frames[w]))
      BY <3>1, RangeConcatenation
    <3>4. wire'[w] = wire[w] \/ wire'[w] = wire[w] \o Texts(frames[w])
      BY <1>2 DEF HandleClose, WriteFrames, ConnTypeOK
    <3> QED BY <3>1, <3>2, <3>3, <3>4, EmptyRange DEF Carried
  <2> QED BY <2>1, <2>2 DEF Loses
<1>3. ASSUME HandleFrames(w)
      PROVE  Others(w) /\ Fails(w) /\ Loses(w) /\ received'[w] = received[w]
  <2>1. Range(frames'[w]) \ {Close} = {}
    <3>1. Range(<<Close>>) = {Close}
      BY DEF Range
    <3>2. frames'[w] = <<>> \/ frames'[w] = <<Close>>
      BY <1>3 DEF HandleFrames, ConnTypeOK
    <3> QED BY <3>1, <3>2, EmptyRange
  <2>2. Carried(w)' = Carried(w)
    BY <1>3, <2>1, WriteCarries DEF HandleFrames
  <2>3. Others(w) /\ Fails(w) /\ received'[w] = received[w]
    BY <1>3 DEF HandleFrames, WriteFrames, Others, Fails, Carried, Broken, Refused,
                EstablishedInTime, ConnTypeOK
  <2> QED BY <2>2, <2>3 DEF Loses
<1>4. ASSUME HandleStreamError(w)
      PROVE  Others(w) /\ Fails(w) /\ Loses(w) /\ received'[w] = received[w]
  <2>1. Others(w) /\ Fails(w) /\ received'[w] = received[w] /\ wire' = wire
    BY <1>4 DEF HandleStreamError, Enqueue, Others, Fails, Carried, Broken, Refused,
                EstablishedInTime, ConnTypeOK
  <2>2. Range(frames'[w]) = Range(frames[w]) \cup {Close}
    <3>1. frames'[w] = frames[w] \o <<Close>> /\ Range(<<Close>>) = {Close}
      BY <1>4 DEF HandleStreamError, Enqueue, ConnTypeOK, Range
    <3>2. frames[w] \in Seq(Payload \cup {Close}) /\ <<Close>> \in Seq(Payload \cup {Close})
      BY DEF ConnTypeOK
    <3>3. Range(frames[w] \o <<Close>>) = Range(frames[w]) \cup Range(<<Close>>)
      BY <3>2, RangeConcatenation
    <3> QED BY <3>1, <3>3
  <2> QED BY <2>1, <2>2 DEF Loses, Carried
<1> QED BY <1>1, <1>2, <1>3, <1>4, ConnStepRefines DEF QuietStep, clientVars, sourceVars

LEMMA ServerStepRefines ==
  ASSUME UploadInv, NEW w \in Conn, ServerStep(w), UNCHANGED <<clientVars, sourceVars, crossed>>
  PROVE  UpStep
<1> USE DEF UploadInv, TypeOK
<1>1. ASSUME ServerAccepts(w) \/ ServerReplies(w) \/ ServerSends(w)
      PROVE  UpStep
  <2>1. UNCHANGED <<wire, frames, received, established, stage, finalError>>
    BY <1>1 DEF ServerAccepts, ServerReplies, ServerSends
  <2>2. \A v \in Conn : Carried(v)' = Carried(v)
    BY <2>1 DEF Carried
  <2>3. Others(w) /\ Fails(w)
    BY <1>1, <2>1, <2>2 DEF ServerAccepts, ServerReplies, ServerSends, Others, Fails, Broken,
                            Refused, EstablishedInTime, ConnTypeOK
  <2> QED BY <2>1, <2>2, <2>3, ConnStepRefines DEF Loses, clientVars, sourceVars
<1>2. ASSUME ConnectionDrops(w)
      PROVE  UpStep
  <2>1. /\ UNCHANGED <<stage, frames, established, finalError, received>>
        /\ stream[w] = "open" /\ stream'[w] # "open" /\ wire'[w] = <<>>
        /\ \A v \in Conn \ {w} : stream'[v] = stream[v] /\ wire'[v] = wire[v]
    BY <1>2 DEF ConnectionDrops, ConnTypeOK
  <2>2. Others(w) /\ Fails(w)
    BY <2>1 DEF Others, Fails, Broken, Refused, Carried
  <2>3. Carried(w)' \subseteq Carried(w)
    BY <2>1, EmptyRange DEF Carried
  <2>4. Carried(w)' = Carried(w) \/ Broken(w)'
    <3>1. CASE established[w]
      BY <2>1, <3>1 DEF Broken
    <3>2. CASE ~established[w]
      BY <2>1, <3>2 DEF Carried, EstablishedInTime
    <3> QED BY <3>1, <3>2
  <2> QED BY <2>1, <2>2, <2>3, <2>4, ConnStepRefines DEF Loses, clientVars, sourceVars
<1>3. ASSUME ServerReceives(w)
      PROVE  UpStep
  <2> DEFINE m == Head(wire[w])
  <2>1. /\ wire[w] \in Seq(Payload) /\ wire[w] # <<>> /\ received[w] \in Seq(Payload)
        /\ received'[w] = Append(received[w], m) /\ wire'[w] = Tail(wire[w])
        /\ \A v \in Conn \ {w} : received'[v] = received[v] /\ wire'[v] = wire[v]
        /\ UNCHANGED <<stage, stream, frames, established, finalError>>
    BY <1>3 DEF ServerReceives, ConnTypeOK
  <2>2. m \in Payload /\ Range(wire[w]) = {m} \cup Range(wire'[w])
    BY <2>1, RangeOfTail
  <2>3. Range(received'[w]) = Range(received[w]) \cup {m}
    BY <2>1, <2>2, RangeOfAppended
  <2>4. Got' = Got \cup {m}
    <3>1. \A v \in Conn : received'[v] = received[v] \/ (v = w /\ Range(received'[v]) = Range(received[v]) \cup {m})
      BY <2>1, <2>3
    <3> QED BY <2>3, <3>1 DEF Got
  <2>5. m \in Held /\ Held \ {m} \subseteq Held' /\ Held' \subseteq Held
    <3>1. m # Close
      BY <2>2, PayloadAssumption
    <3>2. Carried(w) = Carried(w)' \cup {m}
      BY <2>1, <2>2, <3>1 DEF Carried
    <3>3. \A v \in Conn \ {w} : Carried(v)' = Carried(v)
      BY <2>1 DEF Carried
    <3>4. \A v \in Conn : Carried(v)' \subseteq Carried(v) /\ Carried(v) \subseteq Carried(v)' \cup {m}
      BY <3>2, <3>3
    <3>5. UNCHANGED <<statsBuffer, statsMessage>>
      BY DEF clientVars
    <3> QED BY <3>2, <3>4, <3>5 DEF Held
  <2>6. Lossy' = Lossy
    <3>1. \A v \in Conn : Broken(v)' = Broken(v) /\ Refused(v)' = Refused(v)
      BY <2>1 DEF Broken, Refused
    <3> QED BY <3>1 DEF Lossy
  <2>7. Held' = Held \/ Held' = Held \ {m}
    BY <2>5
  <2>8. Up!Arrive(m)
    <3> HIDE DEF m
    <3> QED BY <2>4, <2>5, <2>6, <2>7 DEF Up!Arrive, sourceVars
  <2> QED BY <2>2, <2>8 DEF UpStep, Up!Next
<1> QED BY <1>1, <1>2, <1>3 DEF ServerStep

\* A message made is held: in the buffer, whose copy the new connection is to
\* send, or on the current connection unless that has closed.
LEMMA SendStatsRefines ==
  ASSUME UploadInv, SendStats, UNCHANGED crossed
  PROVE  UpStep
<1> USE DEF UploadInv
<1> DEFINE m == made + 1
           buffer == Append(statsBuffer, m)
<1>1. /\ m \in Payload /\ made' = m /\ m \notin 1..made /\ 1..made' = (1..made) \cup {m}
      /\ buffer \in Seq(Payload) /\ Range(buffer) = Range(statsBuffer) \cup {m}
  <2>1. m \in Payload /\ made' = m /\ made \in Nat
    BY MessageAssumption DEF SendStats, TypeOK
  <2> QED BY <2>1, RangeOfAppended DEF TypeOK
<1> HIDE DEF m
<1>2. /\ Got' = Got /\ (Lossy' = Lossy)
      /\ Held' = Held \cup {m} \/ (Lossy /\ Held' \subseteq Held \cup {m})
  <2>1. CASE ~readyState
    <3>1. PICK w \in Conn : /\ stage[w] = "none" /\ stage' = [stage EXCEPT ![w] = "openConn"]
                            /\ statsMessage' = buffer /\ statsBuffer' = buffer
                            /\ UNCHANGED <<stream, frames, established, finalError, wire, received>>
      BY <2>1 DEF SendStats, OpenWebSocket, m
    <3>2. Got' = Got /\ \A v \in Conn : Carried(v)' = Carried(v)
      BY <3>1 DEF Got, Carried
    <3>3. \A v \in Conn : Broken(v)' = Broken(v) /\ Refused(v)' = Refused(v)
      BY <3>1 DEF Broken, Refused, EstablishedInTime, TypeOK, ConnTypeOK
    <3>4. Range(statsMessage) \subseteq Range(statsBuffer)
      BY EmptyRange DEF CopyInBuffer
    <3>5. Held' = Held \cup {m}
      BY <1>1, <3>1, <3>2, <3>4 DEF Held
    <3> QED BY <3>2, <3>3, <3>5 DEF Lossy
  <2>2. CASE readyState
    <3>1. /\ frames' = SentOn(buffer) /\ statsBuffer' = <<>> /\ statsMessage' = <<>> /\ statsMessage = <<>>
          /\ UNCHANGED <<connRest, webSocket, opened>>
      BY <2>2 DEF SendStats, CopyInBuffer, m
    <3>2. webSocket \in Conn
      BY <2>2 DEF NoneYet, TypeOK
    <3>3. Got' = Got
      BY <3>1 DEF Got, connRest
    <3>4. CASE opened
      <4>1. /\ frames'[webSocket] = frames[webSocket] \o buffer
            /\ \A v \in Conn \ {webSocket} : frames'[v] = frames[v]
        BY <3>1, <3>2, <3>4 DEF SentOn, Enqueue, TypeOK, ConnTypeOK
      <4>2. Range(frames'[webSocket]) = Range(frames[webSocket]) \cup Range(buffer)
        <5>1. /\ frames[webSocket] \in Seq(Payload \cup {Close})
              /\ buffer \in Seq(Payload \cup {Close})
          BY <1>1, <3>2 DEF TypeOK, ConnTypeOK
        <5> QED BY <4>1, <5>1, RangeConcatenation
      <4>3. Range(buffer) \subseteq Payload /\ Close \notin Payload
        BY <1>1, RangeOfSeq, PayloadAssumption
      <4>4. \A v \in Conn : Broken(v)' = Broken(v) /\ Refused(v)' = Refused(v)
        BY <3>1, <4>1, <4>2, <4>3 DEF Broken, Refused, Closes, connRest
      <4>5. /\ Carried(webSocket)' = Carried(webSocket) \cup Range(buffer)
            /\ \A v \in Conn \ {webSocket} : Carried(v)' = Carried(v)
        BY <3>1, <4>1, <4>2, <4>3 DEF Carried, connRest
      <4>6. Held' = Held \cup {m}
        <5>1. Range(statsBuffer') = {} /\ Range(statsMessage') = {} /\ Range(statsMessage) = {}
          BY <3>1, EmptyRange
        <5>2. UNION {Carried(v)' : v \in Conn} = (UNION {Carried(v) : v \in Conn}) \cup Range(buffer)
          <6>1. \A v \in Conn : Carried(v) \subseteq Carried(v)'
            BY <3>1, <4>5
          <6>2. \A v \in Conn : Carried(v)' \subseteq Carried(v) \cup Range(buffer)
            BY <3>1, <4>5
          <6>3. Range(buffer) \subseteq UNION {Carried(v)' : v \in Conn}
            BY <3>1, <3>2, <4>5
          <6>4. UNION {Carried(v)' : v \in Conn} \subseteq (UNION {Carried(v) : v \in Conn}) \cup Range(buffer)
            BY <6>2
          <6> HIDE DEF buffer
          <6> QED BY <6>1, <6>3, <6>4
        <5> QED BY <1>1, <5>1, <5>2 DEF Held
      <4> QED BY <3>1, <3>3, <4>4, <4>6 DEF Lossy
    <3>5. CASE ~opened
      <4>1. frames' = frames
        BY <3>1, <3>5 DEF SentOn
      <4>2. \A v \in Conn : Broken(v)' = Broken(v) /\ Refused(v)' = Refused(v) /\ Carried(v)' = Carried(v)
        BY <3>1, <4>1 DEF Broken, Refused, Carried, connRest
      <4>3. Held' \subseteq Held \cup {m}
        BY <3>1, <4>2, EmptyRange DEF Held
      <4>4. Lossy
        <5>1. stage[webSocket] \in {"end", "exit"}
          BY <3>2, <3>5, ConnAssumption DEF CurrentKnown
        <5>2. CASE established[webSocket]
          BY <3>2, <5>1, <5>2 DEF Lossy, Broken
        <5>3. CASE ~established[webSocket]
          BY <2>2, <3>2, <5>1, <5>3, ConnAssumption DEF Lossy, Refused, QueuedEarly
        <5> QED BY <5>2, <5>3
      <4> QED BY <3>3, <4>2, <4>3, <4>4 DEF Lossy
    <3> QED BY <3>4, <3>5 DEF TypeOK
  <2> QED BY <2>1, <2>2 DEF TypeOK
<1>3. Up!Make(m)
  BY <1>1, <1>2 DEF Up!Make
<1> QED BY <1>1, <1>3 DEF UpStep, Up!Next

\* An opening connection loses nothing: what it sends is a copy.
LEMMA WebSocketOpenRefines ==
  ASSUME UploadInv, NEW w \in Conn, WebSocketOpen(w)
  PROVE  UpStep
<1> USE DEF UploadInv
<1>1. /\ stage[w] = "readResponse" /\ stage' = [stage EXCEPT ![w] = "handleFrames"]
      /\ established' = [established EXCEPT ![w] = TRUE]
      /\ frames' = SentOn(statsMessage) /\ statsMessage' = <<>>
      /\ crossed => crossed'
      /\ UNCHANGED <<wire, received, stream, finalError, webSocket, opened, statsBuffer, made>>
  BY DEF WebSocketOpen, ReadResponse, sourceVars
<1>2. Got' = Got
  BY <1>1 DEF Got
<1>3. Range(statsMessage) \subseteq Range(statsBuffer)
  BY EmptyRange DEF CopyInBuffer
<1>4. webSocket \in Conn
  BY <1>1 DEF NoneYet, TypeOK
<1>5. \A v \in Conn : /\ frames'[v] = frames[v] \/ frames'[v] = frames[v] \o statsMessage
                      /\ Range(frames[v]) \subseteq Range(frames'[v])
                      /\ Range(frames'[v]) \subseteq Range(frames[v]) \cup Range(statsMessage)
  <2>1. \A v \in Conn : frames'[v] = frames[v] \/ frames'[v] = frames[v] \o statsMessage
    BY <1>1, <1>4 DEF SentOn, Enqueue, TypeOK, ConnTypeOK
  <2>2. \A v \in Conn : Range(frames[v] \o statsMessage) = Range(frames[v]) \cup Range(statsMessage)
    <3>1. TAKE v \in Conn
    <3>2. frames[v] \in Seq(Payload \cup {Close}) /\ statsMessage \in Seq(Payload \cup {Close})
      BY DEF TypeOK, ConnTypeOK
    <3> QED BY <3>2, RangeConcatenation
  <2> QED BY <2>1, <2>2
<1>6. Held' = Held
  <2>1. \A v \in Conn : /\ Carried(v) \subseteq Carried(v)'
                        /\ Carried(v)' \subseteq Carried(v) \cup Range(statsBuffer)
    BY <1>1, <1>3, <1>5 DEF Carried
  <2>2. UNION {Carried(v) : v \in Conn} \subseteq UNION {Carried(v)' : v \in Conn}
    BY <2>1
  <2>3. UNION {Carried(v)' : v \in Conn} \subseteq (UNION {Carried(v) : v \in Conn}) \cup Range(statsBuffer)
    BY <2>1
  <2>4. Range(statsMessage') = {}
    BY <1>1, EmptyRange
  <2>5. (UNION {Carried(v) : v \in Conn})' = UNION {Carried(v)' : v \in Conn}
    OBVIOUS
  <2> QED BY <1>1, <1>3, <2>2, <2>3, <2>4, <2>5 DEF Held
<1>7. Lossy => Lossy'
  <2>1. \A v \in Conn : (Broken(v) => Broken(v)') /\ (Refused(v) => Refused(v)')
    BY <1>1, <1>5 DEF Broken, Refused, Closes, EstablishedInTime, TypeOK, ConnTypeOK
  <2> QED BY <1>1, <2>1 DEF Lossy
<1> QED BY <1>1, <1>2, <1>6, <1>7, KeepOrFail

\* A connection that closes takes with it only what the failure of an
\* established one, or of an attempt messages were sent to early, may lose.
LEMMA WebSocketClosedRefines ==
  ASSUME UploadInv, NEW w \in Conn, WebSocketClosed(w)
  PROVE  UpStep
<1> USE DEF UploadInv
<1>1. /\ stage[w] = "closeConn" /\ stage' = [stage EXCEPT ![w] = "end"]
      /\ stream' = [stream EXCEPT ![w] = "closed"]
      /\ frames' = [frames EXCEPT ![w] = <<>>] /\ wire' = [wire EXCEPT ![w] = <<>>]
      /\ UNCHANGED <<established, finalError, received, statsMessage, statsBuffer, made, crossed>>
  BY DEF WebSocketClosed, CloseConn, sourceVars
<1>2. Others(w) /\ Fails(w) /\ received'[w] = received[w]
  BY <1>1 DEF Others, Fails, Broken, Refused, Carried, TypeOK, ConnTypeOK
<1>3. Carried(w)' = {}
  BY <1>1, EmptyRange DEF Carried, TypeOK, ConnTypeOK
<1>4. Loses(w)
  <2>1. CASE established[w]
    BY <1>1, <1>3, <2>1 DEF Loses, Broken, TypeOK, ConnTypeOK
  <2>2. CASE ~established[w] /\ crossed
    BY <1>1, <1>3, <2>2 DEF Loses, Refused, TypeOK, ConnTypeOK
  <2>3. CASE ~established[w] /\ ~crossed
    <3>1. frames[w] = <<>> /\ wire[w] = <<>>
      BY <2>3 DEF QueuedEarly, EstablishedInTime
    <3>2. Carried(w) = {}
      BY <3>1, EmptyRange DEF Carried
    <3> QED BY <1>3, <3>2 DEF Loses
  <2> QED BY <2>1, <2>2, <2>3
<1> QED BY <1>1, <1>2, <1>4, ConnStepRefines

LEMMA StepRefines == UploadInv /\ [Next]_vars => UpStep
<1> SUFFICES ASSUME UploadInv, [Next]_vars
             PROVE  UpStep
  OBVIOUS
<1>1. ASSUME SendStats, UNCHANGED crossed
      PROVE  UpStep
  BY <1>1, SendStatsRefines
<1>2. CASE SendCallIntervalStats \/ UNCHANGED vars
  <2>1. UNCHANGED <<connVars, clientVars, made, crossed>>
    BY <1>2 DEF SendCallIntervalStats, vars, sourceVars
  <2>2. Held' = Held /\ Got' = Got /\ Lossy' = Lossy
    BY <2>1 DEF Held, Got, Lossy, Carried, Broken, Refused, Closes, connVars, clientVars
  <2> QED BY <2>1, <2>2 DEF UpStep, Up!uploadVars
<1>3. CASE Connections
  BY <1>3, WebSocketOpenRefines, WebSocketClosedRefines, QuietStepRefines, ServerStepRefines
     DEF Connections
<1> QED BY <1>1, <1>2, <1>3 DEF Next, Source, SendCallAnsweredStats, StatsCollected, SendCallSummaryStats

\* The client with its buffer, copies and connections implements the abstract
\* upload: what sendStats, webSocketOpen and the connections do to a message is
\* to hold it, to deliver it or, where a failure allows it, to lose it.
THEOREM UploadRefines == Spec => ImplementsUpload
<1>1. ASSUME Init
      PROVE  Up!Init
  <2>1. /\ statsBuffer = <<>> /\ statsMessage = <<>> /\ made = 0 /\ ~crossed
        /\ \A w \in Conn : /\ wire[w] = <<>> /\ frames[w] = <<>> /\ received[w] = <<>>
                           /\ ~established[w]
    BY <1>1 DEF Init, ConnInit
  <2>2. Held = {} /\ Got = {}
    BY <2>1, EmptyRange DEF Held, Got, Carried
  <2>3. Lossy = FALSE
    BY <2>1 DEF Lossy, Broken
  <2> QED BY <2>1, <2>2, <2>3 DEF Up!Init
<1>2. UploadInv /\ [Next]_vars => [Up!Next]_Up!uploadVars
  BY StepRefines DEF UpStep
<1> QED BY <1>1, <1>2, UploadCorrect, PTL DEF Spec, ImplementsUpload, Up!Spec

-----------------------------------------------------------------------------
\* What the abstract upload promises is then true of the code's: the server
\* receives only messages that were made, and one that is neither held nor
\* received was lost to a connection that failed.
THEOREM NothingLostUnlessBroken == Spec => []Up!NothingLost
<1>1. Up!Init => Up!NothingLost
  BY DEF Up!Init, Up!NothingLost
<1>2. Up!NothingLost /\ [Up!Next]_Up!uploadVars => Up!NothingLost'
  <2> SUFFICES ASSUME Up!NothingLost, [Up!Next]_Up!uploadVars
               PROVE  Up!NothingLost'
    OBVIOUS
  <2>1. ASSUME NEW m \in Payload, Up!Make(m)
        PROVE  Up!NothingLost'
    BY <2>1 DEF Up!Make, Up!NothingLost
  <2>2. ASSUME NEW m \in Payload, Up!Arrive(m)
        PROVE  Up!NothingLost'
    BY <2>2 DEF Up!Arrive, Up!NothingLost
  <2>3. CASE Up!Fail
    BY <2>3 DEF Up!Fail, Up!NothingLost
  <2>4. CASE UNCHANGED Up!uploadVars
    BY <2>4 DEF Up!uploadVars, Up!NothingLost
  <2> QED BY <2>1, <2>2, <2>3, <2>4 DEF Up!Next
<1> QED BY <1>1, <1>2, UploadRefines, PTL DEF ImplementsUpload, Up!Spec
-----------------------------------------------------------------------------
(* The order of the messages on a connection                                *)

Frame == Payload \cup {Close}

Ordered(f)     == InOrder(f, 1..Len(f))
TwoRuns(f)     == \E k \in 0..Len(f) : InOrder(f, 1..k) /\ InOrder(f, (k + 1)..Len(f))
MadeUpTo(f, n) == \A i \in 1..Len(f) : f[i] <= n

LEMMA FrameNat == Frame \subseteq Nat /\ Close \in Nat /\ Close \in Frame /\ Payload \subseteq Frame
BY PayloadAssumption DEF Frame, Close

\* Queues put together in one way or another.
LEMMA EmptyBehind ==
  ASSUME NEW r \in Seq(Frame)
  PROVE  r \o <<>> = r /\ <<>> \in Seq(Frame)
OBVIOUS

LEMMA CloseBehind ==
  ASSUME NEW r \in Seq(Frame)
  PROVE  r \o <<Close>> = Append(r, Close) /\ Append(r, Close) \in Seq(Frame)
BY FrameNat

LEMMA ThreeQueues ==
  ASSUME NEW r \in Seq(Frame), NEW x \in Seq(Frame), NEW f \in Seq(Frame)
  PROVE  r \o x \in Seq(Frame) /\ x \o f \in Seq(Frame) /\ r \o x \o f \in Seq(Frame)
OBVIOUS

LEMMA Regrouped ==
  ASSUME NEW r \in Seq(Frame), NEW x \in Seq(Frame), NEW f \in Seq(Frame)
  PROVE  r \o (x \o f) = r \o x \o f
OBVIOUS

LEMMA HeadMoves ==
  ASSUME NEW r \in Seq(Frame), NEW x \in Seq(Frame), x # <<>>
  PROVE  Append(r, Head(x)) \o Tail(x) = r \o x
OBVIOUS

LEMMA OrderedIsTwoRuns ==
  ASSUME NEW f \in Seq(Frame), Ordered(f)
  PROVE  TwoRuns(f)
<1>1. Len(f) \in 0..Len(f) /\ InOrder(f, (Len(f) + 1)..Len(f))
  BY DEF InOrder
<1> QED BY <1>1 DEF TwoRuns, Ordered

\* Two queues in order, one behind the other, have one step back at most.
LEMMA RunsConcat ==
  ASSUME NEW f \in Seq(Frame), NEW g \in Seq(Frame), Ordered(f), Ordered(g)
  PROVE  TwoRuns(f \o g)
<1>1. /\ Len(f \o g) = Len(f) + Len(g) /\ Len(f) \in Nat /\ Len(g) \in Nat
      /\ \A i \in 1..Len(f) : (f \o g)[i] = f[i]
      /\ \A i \in (Len(f) + 1)..Len(f \o g) : (f \o g)[i] = g[i - Len(f)] /\ i - Len(f) \in 1..Len(g)
  BY ConcatProperties
<1>2. InOrder(f \o g, 1..Len(f))
  BY <1>1 DEF InOrder, Ordered
<1>3. InOrder(f \o g, (Len(f) + 1)..Len(f \o g))
  <2> SUFFICES ASSUME NEW i \in (Len(f) + 1)..Len(f \o g), NEW j \in (Len(f) + 1)..Len(f \o g),
                      i < j, (f \o g)[i] # Close, (f \o g)[j] # Close
               PROVE  (f \o g)[i] < (f \o g)[j]
    BY DEF InOrder
  <2>1. i - Len(f) < j - Len(f)
    BY <1>1
  <2> QED BY <1>1, <2>1 DEF InOrder, Ordered
<1>4. Len(f) \in 0..Len(f \o g)
  BY <1>1
<1> QED BY <1>2, <1>3, <1>4 DEF TwoRuns

\* A newer message, or a close frame, keeps the order of what it is appended to.
LEMMA OrderedAppend ==
  ASSUME NEW f \in Seq(Frame), NEW n \in Nat, MadeUpTo(f, n), NEW e \in Frame, e = Close \/ n < e
  PROVE  /\ Ordered(f) => Ordered(Append(f, e))
         /\ TwoRuns(f) => TwoRuns(Append(f, e))
<1> DEFINE g == Append(f, e)
<1>1. /\ Len(g) = Len(f) + 1 /\ Len(f) \in Nat /\ g[Len(g)] = e
      /\ \A i \in 1..Len(f) : g[i] = f[i] /\ f[i] \in Nat
  <2>1. \A i \in 1..Len(f) : f[i] \in Frame
    OBVIOUS
  <2>2. \A i \in 1..Len(f) : f[i] \in Nat
    BY <2>1, FrameNat
  <2>3. Len(g) = Len(f) + 1 /\ Len(f) \in Nat /\ g[Len(f) + 1] = e /\ \A i \in 1..Len(f) : g[i] = f[i]
    BY AppendProperties
  <2> HIDE DEF g
  <2> QED BY <2>2, <2>3
<1>2. ASSUME NEW k \in 0..Len(f), InOrder(f, (k + 1)..Len(f))
      PROVE  InOrder(g, (k + 1)..Len(g))
  <2> SUFFICES ASSUME NEW i \in (k + 1)..Len(g), NEW j \in (k + 1)..Len(g),
                      i < j, g[i] # Close, g[j] # Close
               PROVE  g[i] < g[j]
    BY DEF InOrder
  <2> HIDE DEF g
  <2>1. i \in (k + 1)..Len(f) /\ g[i] = f[i] /\ f[i] <= n
    BY <1>1 DEF MadeUpTo
  <2>2. CASE j = Len(g)
    BY <1>1, <2>1, <2>2, FrameNat
  <2>3. CASE j # Len(g)
    BY <1>1, <1>2, <2>1, <2>3 DEF InOrder
  <2> QED BY <2>2, <2>3
<1>3. Ordered(f) => Ordered(g)
  <2>1. 0 \in 0..Len(f) /\ 0 + 1 = 1
    BY <1>1
  <2> HIDE DEF g
  <2> QED BY <1>2, <2>1 DEF Ordered
<1>4. TwoRuns(f) => TwoRuns(g)
  <2> SUFFICES ASSUME NEW k \in 0..Len(f), InOrder(f, 1..k), InOrder(f, (k + 1)..Len(f))
               PROVE  TwoRuns(g)
    BY DEF TwoRuns
  <2> HIDE DEF g
  <2>1. InOrder(g, 1..k)
    BY <1>1 DEF InOrder
  <2>2. k \in 0..Len(g)
    BY <1>1
  <2> QED BY <1>2, <2>1, <2>2 DEF TwoRuns
<1> QED BY <1>3, <1>4

\* What is left when frames are lost is in the order it was.
LEMMA OrderedCut ==
  ASSUME NEW a \in Seq(Frame), NEW b \in Seq(Frame), NEW c \in Seq(Frame)
  PROVE  /\ Ordered(a \o b \o c) => Ordered(a \o c)
         /\ TwoRuns(a \o b \o c) => TwoRuns(a \o c)
         /\ \A n \in Nat : MadeUpTo(a \o b \o c, n) => MadeUpTo(a \o c, n)
<1> DEFINE f == a \o b \o c
           g == a \o c
           h == [i \in 1..Len(g) |-> IF i <= Len(a) THEN i ELSE i + Len(b)]
<1>1. /\ Len(a) \in Nat /\ Len(b) \in Nat /\ Len(c) \in Nat
      /\ Len(g) = Len(a) + Len(c) /\ Len(f) = Len(a) + Len(b) + Len(c)
      /\ \A i \in 1..Len(g) : g[i] = f[h[i]]
  OBVIOUS
<1>2. /\ \A i \in 1..Len(g) : h[i] \in 1..Len(f)
      /\ \A i, j \in 1..Len(g) : i < j => h[i] < h[j]
  BY <1>1
<1>3. \A P, Q : /\ InOrder(f, P) /\ Q \subseteq 1..Len(g) /\ \A i \in Q : h[i] \in P
                => InOrder(g, Q)
  <2> HIDE DEF f, g, h
  <2> QED BY <1>1, <1>2 DEF InOrder
<1>4. Ordered(f) => Ordered(g)
  <2> HIDE DEF f, g, h
  <2> QED BY <1>2, <1>3 DEF Ordered
<1>5. ASSUME NEW n \in Nat, MadeUpTo(f, n)
      PROVE  MadeUpTo(g, n)
  <2> HIDE DEF f, g, h
  <2> QED BY <1>1, <1>2, <1>5 DEF MadeUpTo
<1>6. ASSUME NEW k \in 0..Len(f), InOrder(f, 1..k), InOrder(f, (k + 1)..Len(f))
      PROVE  TwoRuns(g)
  <2> DEFINE l == IF k <= Len(a) THEN k
                  ELSE IF k <= Len(a) + Len(b) THEN Len(a) ELSE k - Len(b)
  <2>1. /\ l \in 0..Len(g)
        /\ \A i \in 1..l : h[i] \in 1..k
        /\ \A i \in (l + 1)..Len(g) : h[i] \in (k + 1)..Len(f)
    <3> HIDE DEF f, g
    <3> QED BY <1>1
  <2> HIDE DEF f, g, h, l
  <2>2. 1..l \subseteq 1..Len(g) /\ (l + 1)..Len(g) \subseteq 1..Len(g)
    BY <2>1, <1>1
  <2>3. InOrder(g, 1..l) /\ InOrder(g, (l + 1)..Len(g))
    BY <1>3, <1>6, <2>1, <2>2
  <2> QED BY <2>1, <2>3 DEF TwoRuns
<1> HIDE DEF f, g, h
<1>7. TwoRuns(f) => TwoRuns(g)
  BY <1>6 DEF TwoRuns
<1> QED BY <1>4, <1>5, <1>7 DEF f, g

-----------------------------------------------------------------------------
(* What a step does to the flow of a connection                             *)

\* The flow is kept, gains a close frame or loses a part.
FlowStep(w) ==
  \/ Flow(w)' = Flow(w)
  \/ stage[w] = "handleFrames" /\ Flow(w)' = Append(Flow(w), Close)
  \/ \E a, b, c \in Seq(Frame) : Flow(w) = a \o b \o c /\ Flow(w)' = a \o c

LEMMA FlowType ==
  ASSUME ConnTypeOK, NEW w \in Conn
  PROVE  /\ received[w] \in Seq(Frame) /\ wire[w] \in Seq(Frame) /\ frames[w] \in Seq(Frame)
         /\ Flow(w) \in Seq(Frame)
<1>1. received[w] \in Seq(Frame) /\ wire[w] \in Seq(Frame) /\ frames[w] \in Seq(Frame)
  BY FrameNat DEF ConnTypeOK, Frame
<1> QED BY <1>1 DEF Flow

\* What is written and what is left in the queue make up the queue.
LEMMA TextsArePrefix ==
  ASSUME NEW f \in Seq(Frame)
  PROVE  \E g \in Seq(Frame) : f = Texts(f) \o g /\ (~Closes(f) => g = <<>>)
<1>1. CASE ~Closes(f)
  <2>1. <<>> \in Seq(Frame) /\ f = f \o <<>>
    OBVIOUS
  <2> QED BY <1>1, <2>1 DEF Texts
<1>2. CASE Closes(f)
  <2> DEFINE n == FirstClose(f)
             g == SubSeq(f, n, Len(f))
  <2>1. n \in 1..Len(f)
    BY <1>2, FirstCloseExists DEF Frame
  <2> HIDE DEF n
  <2>2. g \in Seq(Frame) /\ f = SubSeq(f, 1, n - 1) \o g
    BY <2>1
  <2> QED BY <1>2, <2>2 DEF Texts, n
<1> QED BY <1>1, <1>2

LEMMA WriteFlow ==
  ASSUME ConnTypeOK, NEW w \in Conn, WriteFrames(w), frames'[w] = <<>>, UNCHANGED received
  PROVE  /\ FlowStep(w)
         /\ stream[w] = "open" /\ ~Closes(frames[w]) => Flow(w)' = Flow(w)
<1>1. PICK g \in Seq(Frame) : /\ frames[w] = Texts(frames[w]) \o g
                              /\ ~Closes(frames[w]) => g = <<>>
  BY FlowType, TextsArePrefix
<1>2. Texts(frames[w]) \in Seq(Frame) /\ <<>> \in Seq(Frame)
  BY FlowType, TextsAreText, FrameNat DEF Frame
<1>3. received[w] \in Seq(Frame) /\ wire[w] \in Seq(Frame) /\ frames[w] \in Seq(Frame)
  BY FlowType
<1>4. CASE stream[w] = "open"
  <2> DEFINE a == received[w] \o (wire[w] \o Texts(frames[w]))
  <2>1. wire'[w] = wire[w] \o Texts(frames[w])
    BY <1>4 DEF WriteFrames, ConnTypeOK
  <2>2. a \in Seq(Frame) /\ Flow(w)' = a /\ a = a \o <<>>
    BY <1>2, <1>3, <2>1 DEF Flow
  <2>3. Flow(w) = a \o g /\ a \o g = a \o g \o <<>>
    <3>2. received[w] \o wire[w] \o (Texts(frames[w]) \o g) = a \o g
      <4>1. received[w] \o wire[w] \in Seq(Frame)
        BY <1>3, ThreeQueues, Zenon
      <4>2. received[w] \o wire[w] \o (Texts(frames[w]) \o g) = received[w] \o wire[w] \o Texts(frames[w]) \o g
        BY <1>2, <4>1, Regrouped, Zenon
      <4>3. received[w] \o wire[w] \o Texts(frames[w]) = a
        BY <1>2, <1>3, Regrouped, Zenon
      <4> QED BY <4>2, <4>3, Zenon
    <3>3. Flow(w) = a \o g
      BY ONLY <1>1, <3>2 DEF Flow
    <3> HIDE DEF a
    <3> QED BY <2>2, <3>3
  <2> HIDE DEF a
  <2>4. FlowStep(w)
    BY <1>1, <1>2, <2>2, <2>3 DEF FlowStep
  <2>5. ~Closes(frames[w]) => Flow(w)' = Flow(w)
    BY <1>1, <2>2, <2>3
  <2> QED BY <2>4, <2>5
<1>5. CASE stream[w] # "open"
  <2> DEFINE a == received[w] \o wire[w]
  <2>1. a \in Seq(Frame) /\ Flow(w)' = a \o <<>>
    <3>1. wire' = wire
      BY <1>5 DEF WriteFrames
    <3>2. a \in Seq(Frame)
      BY <1>3
    <3> QED BY <3>1, <3>2 DEF Flow
  <2>2. Flow(w) = a \o frames[w] /\ a \o frames[w] = a \o frames[w] \o <<>>
    BY <1>3 DEF Flow
  <2> HIDE DEF a
  <2> QED BY <1>2, <1>3, <1>5, <2>1, <2>2 DEF FlowStep
<1> QED BY <1>4, <1>5

LEMMA QuietStepFlow ==
  ASSUME ConnTypeOK, NEW w \in Conn, QuietStep(w)
  PROVE  FlowStep(w) /\ \A v \in Conn \ {w} : Flow(v)' = Flow(v)
<1>1. CASE OpenConn(w) \/ FailHandshake(w) \/ HandleAtEnd(w) \/ EndConn(w)
  <2>1. UNCHANGED <<received, wire, frames>>
    BY <1>1 DEF OpenConn, FailHandshake, HandleAtEnd, EndConn
  <2> QED BY <2>1 DEF Flow, FlowStep
<1>2. CASE HandleClose(w)
  <2>1. /\ WriteFrames(w) /\ frames'[w] = <<>> /\ UNCHANGED received
        /\ \A v \in Conn \ {w} : wire'[v] = wire[v] /\ frames'[v] = frames[v]
    BY <1>2 DEF HandleClose, WriteFrames, ConnTypeOK
  <2>2. FlowStep(w)
    BY <2>1, WriteFlow
  <2> QED BY <2>1, <2>2 DEF Flow
<1>3. CASE HandleFrames(w)
  <2>1. /\ stage[w] = "handleFrames" /\ stream[w] = "open" /\ ~Closes(frames[w]) /\ UNCHANGED received
        /\ wire'[w] = wire[w] \o frames[w] /\ frames'[w] \in {<<>>, <<Close>>}
        /\ \A v \in Conn \ {w} : wire'[v] = wire[v] /\ frames'[v] = frames[v]
    BY <1>3 DEF HandleFrames, WriteFrames, ConnTypeOK, Texts
  <2>2. received[w] \in Seq(Frame) /\ wire[w] \in Seq(Frame) /\ frames[w] \in Seq(Frame)
    BY FlowType
  <2>3. received[w] \o (wire[w] \o frames[w]) = Flow(w) /\ Flow(w) \in Seq(Frame)
    BY <2>2, ThreeQueues, Regrouped, Zenon DEF Flow
  <2>4. Flow(w)' = Flow(w) \o frames'[w]
    BY ONLY <2>1, <2>3 DEF Flow
  <2>5. Flow(w) \o <<>> = Flow(w) /\ Flow(w) \o <<Close>> = Append(Flow(w), Close)
    BY <2>3, EmptyBehind, CloseBehind, Zenon
  <2>6. FlowStep(w)
    BY <2>1, <2>4, <2>5 DEF FlowStep
  <2> QED BY <2>1, <2>6 DEF Flow
<1>4. CASE HandleStreamError(w)
  <2>1. /\ stage[w] = "handleFrames" /\ UNCHANGED <<received, wire>>
        /\ frames'[w] = frames[w] \o <<Close>>
        /\ \A v \in Conn \ {w} : frames'[v] = frames[v]
    BY <1>4 DEF HandleStreamError, Enqueue, ConnTypeOK
  <2>2. received[w] \in Seq(Frame) /\ wire[w] \in Seq(Frame) /\ frames[w] \in Seq(Frame)
    BY FlowType
  <2>3. received[w] \o wire[w] \o (frames[w] \o <<Close>>) = Append(received[w] \o wire[w] \o frames[w], Close)
    <3>1. <<Close>> \in Seq(Frame)
      BY FrameNat
    <3>2. received[w] \o wire[w] \in Seq(Frame) /\ received[w] \o wire[w] \o frames[w] \in Seq(Frame)
      BY <2>2, ThreeQueues, Zenon
    <3>3. received[w] \o wire[w] \o (frames[w] \o <<Close>>) = received[w] \o wire[w] \o frames[w] \o <<Close>>
      BY <2>2, <3>1, <3>2, Regrouped, Zenon
    <3> QED BY <3>2, <3>3, CloseBehind, Zenon
  <2>4. Flow(w)' = Append(Flow(w), Close)
    BY <2>1, <2>3 DEF Flow
  <2> QED BY <2>1, <2>4 DEF Flow, FlowStep
<1> QED BY <1>1, <1>2, <1>3, <1>4 DEF QuietStep

LEMMA ServerStepFlow ==
  ASSUME ConnTypeOK, NEW w \in Conn, ServerStep(w)
  PROVE  FlowStep(w) /\ \A v \in Conn \ {w} : Flow(v)' = Flow(v)
<1>1. received[w] \in Seq(Frame) /\ wire[w] \in Seq(Frame) /\ frames[w] \in Seq(Frame)
  BY FlowType
<1>2. CASE ServerAccepts(w) \/ ServerReplies(w) \/ ServerSends(w)
  <2>1. UNCHANGED <<received, wire, frames>>
    BY <1>2 DEF ServerAccepts, ServerReplies, ServerSends
  <2> QED BY <2>1 DEF Flow, FlowStep
<1>3. CASE ConnectionDrops(w)
  <2>1. /\ UNCHANGED <<received, frames>> /\ wire'[w] = <<>>
        /\ \A v \in Conn \ {w} : wire'[v] = wire[v]
    BY <1>3 DEF ConnectionDrops, ConnTypeOK
  <2>2. received[w] \o <<>> = received[w]
    BY <1>1
  <2>3. Flow(w)' = received[w] \o frames[w]
    BY <2>1, <2>2 DEF Flow
  <2> QED BY <1>1, <2>1, <2>3 DEF Flow, FlowStep
<1>4. CASE ServerReceives(w)
  <2>1. /\ wire[w] # <<>> /\ UNCHANGED frames
        /\ received'[w] = Append(received[w], Head(wire[w])) /\ wire'[w] = Tail(wire[w])
        /\ \A v \in Conn \ {w} : wire'[v] = wire[v] /\ received'[v] = received[v]
    BY <1>4 DEF ServerReceives, ConnTypeOK
  <2>2. Append(received[w], Head(wire[w])) \o Tail(wire[w]) = received[w] \o wire[w]
    BY <1>1, <2>1, HeadMoves, Zenon
  <2>3. Flow(w)' = Flow(w)
    BY <2>1, <2>2 DEF Flow
  <2> QED BY <2>1, <2>3 DEF Flow, FlowStep
<1> QED BY <1>2, <1>3, <1>4 DEF ServerStep

\* A connection that closes keeps what was received only.
LEMMA CloseConnFlow ==
  ASSUME ConnTypeOK, NEW w \in Conn, CloseConn(w)
  PROVE  FlowStep(w) /\ \A v \in Conn \ {w} : Flow(v)' = Flow(v)
<1>1. received[w] \in Seq(Frame) /\ wire[w] \in Seq(Frame) /\ frames[w] \in Seq(Frame)
  BY FlowType
<1>2. /\ UNCHANGED received /\ wire'[w] = <<>> /\ frames'[w] = <<>>
      /\ \A v \in Conn \ {w} : wire'[v] = wire[v] /\ frames'[v] = frames[v]
  BY DEF CloseConn, ConnTypeOK
<1>3. /\ received[w] \o <<>> = received[w] /\ <<>> \in Seq(Frame)
      /\ received[w] \o wire[w] \o frames[w] = received[w] \o (wire[w] \o frames[w])
      /\ wire[w] \o frames[w] \in Seq(Frame) /\ received[w] \o (wire[w] \o frames[w]) \in Seq(Frame)
  BY <1>1, EmptyBehind, ThreeQueues, Regrouped, Zenon
<1>4. Flow(w)' = received[w] \o <<>>
  BY <1>2, <1>3 DEF Flow
<1>5. Flow(w) = received[w] \o (wire[w] \o frames[w]) \o <<>>
  <2>1. \A s \in Seq(Frame) : s \o <<>> = s
    OBVIOUS
  <2> QED BY <1>3, <2>1 DEF Flow
<1>6. FlowStep(w)
  BY <1>1, <1>3, <1>4, <1>5 DEF FlowStep
<1> QED BY <1>2, <1>6 DEF Flow

-----------------------------------------------------------------------------
(* The order of what is buffered and of what was sent                       *)

\* The buffer and its copy are in order, and nothing was sent that was not made.
InOrderSoFar ==
  /\ Ordered(statsBuffer) /\ MadeUpTo(statsBuffer, made)
  /\ Ordered(statsMessage) /\ MadeUpTo(statsMessage, made)
  /\ \A w \in Conn : MadeUpTo(Flow(w), made)

\* Nothing is sent on a connection before it is begun, nor on the current one
\* while there is a copy to be sent when it opens.
NothingYet ==
  /\ \A w \in Conn : stage[w] = "none" => Flow(w) = <<>>
  /\ statsMessage # <<>> => /\ webSocket # NoConn /\ stage[webSocket] # "handleFrames"
                            /\ Flow(webSocket) = <<>>

\* While the buffer holds what was sent already, the current connection has made
\* no step back.
FirstRun == statsBuffer # <<>> => webSocket # NoConn /\ Ordered(Flow(webSocket))

FlowInv == InOrderSoFar /\ NothingYet /\ FirstRun /\ OneStepBack

\* OneStepBack says that a flow is two runs, one behind the other.
LEMMA OneStepBackRuns == OneStepBack <=> \A w \in Conn : TwoRuns(Flow(w))
BY DEF OneStepBack, TwoRuns

\* An empty queue, and one in order so far to which a new message is appended.
LEMMA EmptyOrdered == Ordered(<<>>) /\ \A n \in Nat : MadeUpTo(<<>>, n)
BY DEF Ordered, InOrder, MadeUpTo

LEMMA MadeUpToAppend ==
  ASSUME NEW f \in Seq(Frame), NEW n \in Nat, MadeUpTo(f, n), NEW e \in Frame, NEW m \in Nat, n <= m, e <= m
  PROVE  MadeUpTo(Append(f, e), m)
<1>1. \A i \in 1..Len(f) : f[i] \in Frame
  OBVIOUS
<1>2. \A i \in 1..Len(f) : f[i] \in Nat
  BY <1>1, FrameNat
<1>3. /\ Len(Append(f, e)) = Len(f) + 1 /\ Len(f) \in Nat /\ Append(f, e)[Len(f) + 1] = e
      /\ \A i \in 1..Len(f) : Append(f, e)[i] = f[i]
  BY AppendProperties
<1>4. e \in Nat
  BY FrameNat
<1> DEFINE g == Append(f, e)
<1> HIDE DEF g
<1>5. ASSUME NEW i \in 1..Len(g)
      PROVE  g[i] <= m
  BY <1>2, <1>3, <1>4 DEF MadeUpTo, g
<1> QED BY <1>5 DEF MadeUpTo, g

LEMMA MadeUpToConcat ==
  ASSUME NEW f \in Seq(Frame), NEW g \in Seq(Frame), NEW n \in Nat, NEW m \in Nat, n <= m,
         MadeUpTo(f, n), MadeUpTo(g, m)
  PROVE  MadeUpTo(f \o g, m)
<1>1. \A i \in 1..Len(f) : f[i] \in Frame
  OBVIOUS
<1>2. \A i \in 1..Len(f) : f[i] \in Nat
  BY <1>1, FrameNat
<1>3. /\ Len(f \o g) = Len(f) + Len(g) /\ Len(f) \in Nat /\ Len(g) \in Nat
      /\ \A i \in 1..Len(f) : (f \o g)[i] = f[i]
      /\ \A i \in (Len(f) + 1)..Len(f \o g) : (f \o g)[i] = g[i - Len(f)] /\ i - Len(f) \in 1..Len(g)
  BY ConcatProperties
<1> DEFINE h == f \o g
<1> HIDE DEF h
<1>4. ASSUME NEW i \in 1..Len(h)
      PROVE  h[i] <= m
  BY <1>2, <1>3 DEF MadeUpTo, h
<1> QED BY <1>4 DEF MadeUpTo, h

\* What a step of a connection makes of its flow is as much in order as it was.
LEMMA FlowStepOrder ==
  ASSUME NEW f \in Seq(Frame), NEW g \in Seq(Frame), NEW n \in Nat, MadeUpTo(f, n),
         \/ g = f
         \/ g = Append(f, Close)
         \/ \E a, b, c \in Seq(Frame) : f = a \o b \o c /\ g = a \o c
  PROVE  /\ Ordered(f) => Ordered(g)
         /\ TwoRuns(f) => TwoRuns(g)
         /\ MadeUpTo(g, n)
<1>1. CASE g = f
  BY <1>1
<1>2. CASE g = Append(f, Close)
  <2>1. Close <= n
    BY DEF Close
  <2> QED BY <1>2, <2>1, FrameNat, OrderedAppend, MadeUpToAppend
<1>3. CASE \E a, b, c \in Seq(Frame) : f = a \o b \o c /\ g = a \o c
  BY <1>3, OrderedCut
<1> QED BY <1>1, <1>2, <1>3

LEMMA ConnStepStage ==
  ASSUME ConnTypeOK, NEW w \in Conn, QuietStep(w) \/ ServerStep(w) \/ CloseConn(w)
  PROVE  \A v \in Conn : /\ stage'[v] = "none" => stage[v] = "none"
                         /\ stage'[v] = "handleFrames" => stage[v] = "handleFrames"
BY DEF ConnTypeOK, QuietStep, OpenConn, FailHandshake, HandleClose, HandleFrames, HandleAtEnd,
       HandleStreamError, EndConn, ServerStep, ServerAccepts, ServerReplies, ServerSends,
       ConnectionDrops, ServerReceives, CloseConn

\* A step of a connection that hands it no message keeps the order.
LEMMA ConnStepFlowInv ==
  ASSUME UploadInv, FlowInv, NEW w \in Conn, QuietStep(w) \/ ServerStep(w) \/ CloseConn(w),
         UNCHANGED <<statsBuffer, statsMessage, webSocket, made>>, TypeOK'
  PROVE  FlowInv'
<1> USE DEF UploadInv, TypeOK, FlowInv
<1>1. FlowStep(w) /\ \A v \in Conn \ {w} : Flow(v)' = Flow(v)
  BY QuietStepFlow, ServerStepFlow, CloseConnFlow
<1>2. made \in Nat
  BY MessageAssumption
<1>3. Flow(w) \in Seq(Frame) /\ Flow(w)' \in Seq(Frame)
  <2>1. ConnTypeOK'
    OBVIOUS
  <2>2. received'[w] \in Seq(Frame) /\ wire'[w] \in Seq(Frame) /\ frames'[w] \in Seq(Frame)
    BY <2>1, FrameNat DEF ConnTypeOK, Frame
  <2>3. (received'[w] \o wire'[w] \o frames'[w]) \in Seq(Frame)
    BY <2>2, ThreeQueues
  <2> QED BY <2>3, FlowType DEF Flow
<1>4. MadeUpTo(Flow(w), made)
  BY DEF InOrderSoFar
<1>5. /\ Ordered(Flow(w)) => Ordered(Flow(w)')
      /\ TwoRuns(Flow(w)) => TwoRuns(Flow(w)')
      /\ MadeUpTo(Flow(w)', made)
  <2> DEFINE f == Flow(w)
             g == Flow(w)'
  <2>1. \/ g = f
        \/ g = Append(f, Close)
        \/ \E a, b, c \in Seq(Frame) : f = a \o b \o c /\ g = a \o c
    BY <1>1 DEF FlowStep
  <2>2. f \in Seq(Frame) /\ g \in Seq(Frame) /\ MadeUpTo(f, made)
    BY <1>3, <1>4
  <2> HIDE DEF f, g
  <2>3. (Ordered(f) => Ordered(g)) /\ (TwoRuns(f) => TwoRuns(g)) /\ MadeUpTo(g, made)
    BY <2>1, <2>2, <1>2, FlowStepOrder
  <2> QED BY <2>3 DEF f, g
<1>6. Flow(w) = <<>> /\ stage[w] # "handleFrames" => Flow(w)' = <<>>
  <2> SUFFICES ASSUME Flow(w) = <<>>, stage[w] # "handleFrames", Flow(w)' # Flow(w)
               PROVE  Flow(w)' = <<>>
    OBVIOUS
  <2>1. PICK a, b, c \in Seq(Frame) : <<>> = a \o b \o c /\ Flow(w)' = a \o c
    BY <1>1 DEF FlowStep
  <2>2. Len(a \o b \o c) = 0
    BY <2>1
  <2>3. Len(a) = 0 /\ Len(c) = 0
    BY <2>2
  <2> QED BY <2>1, <2>3
<1>7. InOrderSoFar'
  <2>1. \A v \in Conn : MadeUpTo(Flow(v)', made)
    BY <1>1, <1>5 DEF InOrderSoFar
  <2> QED BY <2>1 DEF InOrderSoFar
<1>8. FirstRun'
  BY <1>1, <1>5 DEF FirstRun
<1>9. OneStepBack'
  <2>1. \A v \in Conn : TwoRuns(Flow(v)')
    BY <1>1, <1>5, OneStepBackRuns
  <2> QED BY <2>1 DEF OneStepBack, TwoRuns
<1>10. NothingYet'
  BY <1>1, <1>6, ConnStepStage DEF NothingYet
<1> QED BY <1>7, <1>8, <1>9, <1>10

\* A new message goes behind what the current connection carries: alone, or
\* with a buffer that was sent on it before.
LEMMA SendStatsFlowInv ==
  ASSUME UploadInv, FlowInv, SendStats
  PROVE  FlowInv'
<1> USE DEF UploadInv, TypeOK, FlowInv
<1> DEFINE m == made + 1
           buffer == Append(statsBuffer, m)
<1>1. /\ made \in Nat /\ m \in Nat /\ made' = m /\ m \in Frame /\ made < m /\ made <= m /\ m <= m
      /\ statsBuffer \in Seq(Frame) /\ statsMessage \in Seq(Frame) /\ buffer \in Seq(Frame)
  <2>1. made \in Nat /\ made' = m /\ m \in Payload
    BY MessageAssumption DEF SendStats
  <2>2. statsBuffer \in Seq(Frame) /\ statsMessage \in Seq(Frame) /\ m \in Frame
    BY <2>1, FrameNat DEF Frame
  <2> QED BY <2>1, <2>2
<1>2. Ordered(buffer) /\ MadeUpTo(buffer, m)
  BY <1>1, OrderedAppend, MadeUpToAppend DEF InOrderSoFar
<1>3. ASSUME NEW f \in Seq(Frame), MadeUpTo(f, made)
      PROVE  MadeUpTo(f, m)
  <2>1. \A i \in 1..Len(f) : f[i] \in Frame
    OBVIOUS
  <2>2. \A i \in 1..Len(f) : f[i] \in Nat /\ f[i] <= made
    BY <1>3, <2>1, FrameNat DEF MadeUpTo
  <2> QED BY <1>1, <2>2 DEF MadeUpTo
<1>4. \A v \in Conn : Flow(v) \in Seq(Frame) /\ MadeUpTo(Flow(v), made) /\ TwoRuns(Flow(v))
  BY FlowType, OneStepBackRuns DEF InOrderSoFar
<1>5. CASE ~readyState
  <2>1. PICK w \in Conn : /\ stage[w] = "none" /\ stage' = [stage EXCEPT ![w] = "openConn"]
                          /\ webSocket' = w /\ statsMessage' = buffer /\ statsBuffer' = buffer
                          /\ UNCHANGED <<frames, wire, received>>
    BY <1>5 DEF SendStats, OpenWebSocket
  <2>2. \A v \in Conn : Flow(v)' = Flow(v)
    BY <2>1 DEF Flow
  <2> HIDE DEF buffer, m
  <2>3. InOrderSoFar'
    BY <1>1, <1>2, <1>3, <1>4, <2>1, <2>2 DEF InOrderSoFar
  <2>4. Flow(w) = <<>> /\ Ordered(Flow(w))
    BY <2>1, EmptyOrdered DEF NothingYet
  <2>5. NothingYet' /\ FirstRun'
    BY <2>1, <2>2, <2>4, ConnAssumption DEF NothingYet, FirstRun, ConnTypeOK
  <2>6. OneStepBack'
    BY <1>4, <2>2 DEF OneStepBack, TwoRuns
  <2> QED BY <2>3, <2>5, <2>6
<1>6. CASE readyState
  <2>1. /\ frames' = SentOn(buffer) /\ statsBuffer' = <<>> /\ statsMessage' = <<>> /\ statsMessage = <<>>
        /\ UNCHANGED <<connRest, webSocket>>
    BY <1>6 DEF SendStats, CopyInBuffer
  <2>2. PICK u \in Conn : u = webSocket /\ stage[u] # "none"
    BY <1>6 DEF NoneYet, CurrentKnown
  <2> HIDE DEF buffer, m
  <2>3. \A v \in Conn : Flow(v)' = Flow(v) \/ (v = u /\ Flow(v)' = Flow(v) \o buffer)
    <3>1. ASSUME NEW v \in Conn, frames'[v] = frames[v]
          PROVE  Flow(v)' = Flow(v)
      BY <2>1, <3>1 DEF Flow, connRest
    <3>2. ASSUME frames'[u] = frames[u] \o buffer
          PROVE  Flow(u)' = Flow(u) \o buffer
      <4>1. /\ received[u] \o wire[u] \in Seq(Frame) /\ frames[u] \in Seq(Frame)
        BY <2>2, FlowType, ThreeQueues
      <4>2. received[u] \o wire[u] \o (frames[u] \o buffer)
              = received[u] \o wire[u] \o frames[u] \o buffer
        BY <1>1, <4>1, Regrouped, Zenon
      <4> QED BY ONLY <2>1, <3>2, <4>2 DEF Flow, connRest
    <3>3. \A v \in Conn : frames'[v] = frames[v] \/ (v = u /\ frames'[v] = frames[v] \o buffer)
      BY <2>1, <2>2 DEF SentOn, Enqueue, ConnTypeOK
    <3> QED BY <3>1, <3>2, <3>3
  <2>4. Flow(u) \o buffer \in Seq(Frame) /\ MadeUpTo(Flow(u) \o buffer, m)
        /\ TwoRuns(Flow(u) \o buffer)
    <3> DEFINE f == Flow(u)
    <3>1. f \in Seq(Frame) /\ MadeUpTo(f, made) /\ TwoRuns(f)
      BY <1>4, <2>2
    <3>2. statsBuffer # <<>> => Ordered(f)
      BY <2>2 DEF FirstRun
    <3> HIDE DEF f
    <3>3. f \o buffer \in Seq(Frame) /\ MadeUpTo(f \o buffer, m)
      BY <1>1, <1>2, <3>1, MadeUpToConcat
    <3>4. CASE statsBuffer = <<>>
      <4>1. f \o buffer = Append(f, m)
        BY <1>1, <3>1, <3>4 DEF buffer
      <4> QED BY <1>1, <3>1, <3>3, <4>1, OrderedAppend DEF f
    <3>5. CASE statsBuffer # <<>>
      BY <1>1, <1>2, <3>1, <3>2, <3>3, <3>5, RunsConcat DEF f
    <3> QED BY <3>4, <3>5
  <2>5. \A v \in Conn : MadeUpTo(Flow(v)', m) /\ TwoRuns(Flow(v)')
    BY <1>3, <1>4, <2>3, <2>4
  <2>6. InOrderSoFar'
    BY <1>1, <2>1, <2>5, EmptyOrdered DEF InOrderSoFar
  <2>7. NothingYet' /\ FirstRun'
    BY <2>1, <2>2, <2>3 DEF NothingYet, FirstRun, connRest
  <2>8. OneStepBack'
    BY <2>5 DEF OneStepBack, TwoRuns
  <2> QED BY <2>6, <2>7, <2>8
<1> QED BY <1>5, <1>6

\* What a connection sends when it opens is the first that the current one carries.
LEMMA WebSocketOpenFlowInv ==
  ASSUME UploadInv, FlowInv, NEW w \in Conn, WebSocketOpen(w)
  PROVE  FlowInv'
<1> USE DEF UploadInv, TypeOK, FlowInv
<1>1. /\ stage[w] = "readResponse" /\ stage' = [stage EXCEPT ![w] = "handleFrames"]
      /\ frames' = SentOn(statsMessage) /\ statsMessage' = <<>>
      /\ UNCHANGED <<wire, received, webSocket, statsBuffer, made>>
  BY DEF WebSocketOpen, ReadResponse, sourceVars
<1>2. PICK u \in Conn : u = webSocket /\ stage[u] # "none"
  BY <1>1 DEF NoneYet, CurrentKnown
<1>3. statsMessage \in Seq(Frame)
  BY FrameNat DEF Frame
<1>4. \A v \in Conn : Flow(v)' = Flow(v) \/ (v = u /\ Flow(v)' = statsMessage)
  <2>1. \A v \in Conn : frames'[v] = frames[v] \/ (v = u /\ frames'[v] = frames[v] \o statsMessage)
    BY <1>1, <1>2 DEF SentOn, Enqueue, ConnTypeOK
  <2>2. ASSUME NEW v \in Conn, frames'[v] = frames[v]
        PROVE  Flow(v)' = Flow(v)
    BY <1>1, <2>2 DEF Flow
  <2>3. ASSUME frames'[u] = frames[u] \o statsMessage
        PROVE  Flow(u)' = Flow(u) \/ Flow(u)' = statsMessage
    <3>1. /\ received[u] \in Seq(Frame) /\ wire[u] \in Seq(Frame)
          /\ received[u] \o wire[u] \in Seq(Frame) /\ frames[u] \in Seq(Frame)
      BY <1>2, FlowType, ThreeQueues
    <3>2. CASE statsMessage = <<>>
      <4>1. frames'[u] = frames[u]
        BY <2>3, <3>1, <3>2
      <4> QED BY <1>2, <2>2, <4>1
    <3>3. CASE statsMessage # <<>>
      <4>1. received[u] \o wire[u] \o frames[u] = <<>>
        BY <1>2, <3>3 DEF NothingYet, Flow
      <4>2. Flow(u)' = received[u] \o wire[u] \o (frames[u] \o statsMessage)
        BY ONLY <1>1, <2>3 DEF Flow
      <4>3. Flow(u)' = received[u] \o wire[u] \o frames[u] \o statsMessage
        BY <1>3, <3>1, <4>2, Regrouped, Zenon
      <4>4. <<>> \o statsMessage = statsMessage
        BY <1>3
      <4> QED BY <4>1, <4>3, <4>4
    <3> QED BY <3>2, <3>3
  <2> QED BY <2>1, <2>2, <2>3
<1>5. Ordered(statsMessage) /\ MadeUpTo(statsMessage, made) /\ TwoRuns(statsMessage)
  BY <1>3, OrderedIsTwoRuns DEF InOrderSoFar
<1>6. \A v \in Conn : MadeUpTo(Flow(v)', made) /\ TwoRuns(Flow(v)')
  BY <1>4, <1>5, OneStepBackRuns DEF InOrderSoFar
<1>7. InOrderSoFar'
  BY <1>1, <1>6, EmptyOrdered DEF InOrderSoFar
<1>8. NothingYet' /\ FirstRun'
  BY <1>1, <1>2, <1>4, <1>5 DEF NothingYet, FirstRun, ConnTypeOK
<1>9. OneStepBack'
  BY <1>6 DEF OneStepBack, TwoRuns
<1> QED BY <1>7, <1>8, <1>9

LEMMA FlowInvStep == UploadInv /\ FlowInv /\ [Next]_vars => FlowInv'
<1> SUFFICES ASSUME UploadInv, FlowInv, [Next]_vars
             PROVE  FlowInv'
  OBVIOUS
<1>1. TypeOK'
  BY TypeStep DEF UploadInv
<1>2. CASE SendStats
  BY <1>2, SendStatsFlowInv
<1>3. CASE SendCallIntervalStats \/ UNCHANGED vars
  BY <1>3 DEF SendCallIntervalStats, vars, connVars, clientVars, sourceVars, FlowInv, InOrderSoFar,
              NothingYet, FirstRun, OneStepBack, Flow
<1>4. ASSUME NEW w \in Conn, WebSocketOpen(w)
      PROVE  FlowInv'
  BY <1>4, WebSocketOpenFlowInv
<1>5. ASSUME NEW w \in Conn, WebSocketClosed(w)
      PROVE  FlowInv'
  BY <1>1, <1>5, ConnStepFlowInv DEF WebSocketClosed, sourceVars
<1>6. ASSUME NEW w \in Conn, QuietStep(w) \/ ServerStep(w), UNCHANGED <<clientVars, sourceVars, crossed>>
      PROVE  FlowInv'
  BY <1>1, <1>6, ConnStepFlowInv DEF clientVars, sourceVars
<1> QED BY <1>2, <1>3, <1>4, <1>5, <1>6
        DEF Next, Source, Connections, SendCallAnsweredStats, StatsCollected, SendCallSummaryStats

\* The messages on a connection are in the order sendStats made them, but for one
\* step back, the buffer that webSocketOpen had sent a copy of: the server sees no
\* message three times on one connection, and two in the wrong order only there.
THEOREM OneStepBackOnly == Spec => []OneStepBack
<1>1. ASSUME Init
      PROVE  FlowInv
  <2>1. /\ statsBuffer = <<>> /\ statsMessage = <<>> /\ made = 0
        /\ \A w \in Conn : wire[w] = <<>> /\ frames[w] = <<>> /\ received[w] = <<>>
    BY <1>1 DEF Init, ConnInit
  <2>2. \A w \in Conn : Flow(w) = <<>>
    <3>1. <<>> \o <<>> \o <<>> = <<>>
      OBVIOUS
    <3> QED BY <2>1, <3>1 DEF Flow
  <2>3. TwoRuns(<<>>)
    <3>1. <<>> \in Seq(Frame)
      OBVIOUS
    <3> QED BY <3>1, EmptyOrdered, OrderedIsTwoRuns
  <2>4. OneStepBack
    BY <2>2, <2>3 DEF OneStepBack, TwoRuns
  <2> QED BY <2>1, <2>2, <2>4, EmptyOrdered DEF FlowInv, InOrderSoFar, NothingYet, FirstRun
<1>2. FlowInv => OneStepBack
  BY DEF FlowInv
<1> QED BY <1>1, <1>2, FlowInvStep, UploadCorrect, PTL DEF Spec
=============================================================================
