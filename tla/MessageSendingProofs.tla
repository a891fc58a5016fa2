------------------------ MODULE MessageSendingProofs ------------------------
(***************************************************************************)
(* One writer at a time, and replies in order, for any number of threads   *)
(* and messages.                                                           *)
(***************************************************************************)
EXTENDS MessageSending, TLAPS

\* One message handler, hence one sendMessage(), at a time.  Without it two
\* threads could find the flag clear before either sets it.
OneSender ==
  \A t, u \in Threads :
    step[t] \in SenderSteps /\ step[u] \in SenderSteps => t = u

SendingInv == SendingTypeOK /\ OneWriter /\ OneSender

\* What a thread's move does to step.
LEMMA Moves ==
  ASSUME SendingTypeOK, NEW t \in Threads, NEW from, NEW to, Goes(t, from, to)
  PROVE  /\ step[t] = from /\ step'[t] = to
         /\ \A u \in Threads \ {t} : step'[u] = step[u]
BY DEF SendingTypeOK, Goes

\* A write that is started writes the message at the front.
LEMMA WriteStarts ==
  ASSUME SendingTypeOK, queue # <<>>, NEW part \in {"header", "body"}
  PROVE  /\ Write(part) \in WriteType
         /\ Write(part).message = Head(queue) /\ Write(part).part = part
BY DEF SendingTypeOK, Write, WriteType

\* Every step keeps the types.  pop() is called on a queue that is not empty
\* because something of its front has been written.
LEMMA SendingTypeStep ==
  ASSUME SendingInv, SendingNext
  PROVE  SendingTypeOK'
<1> USE DEF SendingInv
<1> DEFINE Steps == {"free", "undefined"} \cup SenderSteps \cup WriterSteps
<1>1. ASSUME NEW t \in Threads, NEW from, NEW to \in Steps, Goes(t, from, to)
      PROVE  step' \in [Threads -> Steps]
  BY <1>1 DEF Goes, SendingTypeOK
<1>2. ASSUME NEW t \in Threads, NEW m \in Messages, Push(t, m)
      PROVE  SendingTypeOK'
  BY <1>1, <1>2 DEF Push, Pushes, SendingTypeOK, SenderSteps
<1>3. ASSUME NEW t \in Threads,
             \/ SeesSocket(t) \/ SeesSending(t) \/ FrontOfEmpty(t)
             \/ SeesEmpty(t) \/ SeesEmptyBodyless(t) \/ Disconnects(t)
             \/ StopsSending(t)
      PROVE  SendingTypeOK'
  <2>1. step' \in [Threads -> Steps]
    BY <1>3 DEF SeesSocket, SeesSending, FrontOfEmpty, SeesEmpty,
                SeesEmptyBodyless, Disconnects, StopsSending, Goes, SendingTypeOK,
                SenderSteps, WriterSteps
  <2> QED BY <1>3, <2>1 DEF SeesSocket, SeesSending, FrontOfEmpty, SeesEmpty,
                SeesEmptyBodyless, Disconnects, StopsSending, SendingTypeOK
<1>4. ASSUME NEW t \in Threads, StartsSending(t) \/ SendsNext(t)
      PROVE  SendingTypeOK'
  <2>1. step' \in [Threads -> Steps]
    BY <1>4 DEF StartsSending, SendsNext, Goes, SendingTypeOK
  <2>2. Write("header") \in WriteType
    BY <1>4, WriteStarts DEF StartsSending, SendsNext
  <2> QED BY <1>4, <2>1, <2>2 DEF StartsSending, SendsNext, SendingTypeOK
<1>5. ASSUME NEW t \in Threads, NEW w \in writes, WriteEnds(t, w)
      PROVE  SendingTypeOK'
  <2>1. queue # <<>> /\ w \in WriteType
    BY DEF OneWriter, SendingTypeOK
  <2>2. step' \in [Threads -> Steps]
    BY <1>5 DEF WriteEnds, HeaderWritten, BodylessWritten, BodyWritten, WriteFails,
                Goes, SendingTypeOK, WriterSteps
  <2>3. Write("body") \in WriteType
    BY <2>1, WriteStarts
  <2>4. Tail(queue) \in Seq(Messages) /\ Append(delivered, w.message) \in Seq(Messages)
    BY <2>1 DEF SendingTypeOK, WriteType
  <2> QED BY <1>5, <2>2, <2>3, <2>4 DEF WriteEnds, HeaderWritten, BodylessWritten,
                BodyWritten, WriteFails, SendingTypeOK
<1>6. CASE IsDisconnected
  BY <1>6 DEF IsDisconnected, SendingTypeOK
<1> QED BY <1>2, <1>3, <1>4, <1>5, <1>6 DEF SendingNext, ThreadStep

\* Every step keeps OneSender.
LEMMA OneSenderStep ==
  ASSUME SendingInv, SendingNext
  PROVE  OneSender'
<1> USE DEF SendingInv
<1>1. ASSUME NEW t \in Threads, NEW m \in Messages, Push(t, m)
      PROVE  OneSender'
  <2>1. \A u \in Threads : step'[u] \in SenderSteps => u = t
    BY <1>1, Moves DEF Push, Pushes
  <2> QED BY <2>1 DEF OneSender
<1>2. ASSUME NEW t \in Threads, NEW from, NEW to, Goes(t, from, to),
             to \in SenderSteps => from \in SenderSteps
      PROVE  OneSender'
  <2>1. \A u \in Threads : step'[u] \in SenderSteps => step[u] \in SenderSteps
    BY <1>2, Moves
  <2> QED BY <2>1 DEF OneSender
<1>3. ASSUME NEW t \in Threads, ThreadStep(t)
      PROVE  OneSender'
  BY <1>2, <1>3 DEF ThreadStep, SeesSocket, SeesSending, StartsSending, FrontOfEmpty,
     SendsNext, SeesEmpty, SeesEmptyBodyless, Disconnects, StopsSending, SenderSteps
<1>4. ASSUME NEW t \in Threads, NEW w \in writes, WriteEnds(t, w)
      PROVE  OneSender'
  BY <1>2, <1>4 DEF WriteEnds, HeaderWritten, BodylessWritten, BodyWritten,
     WriteFails, SenderSteps
<1>5. CASE IsDisconnected
  BY <1>5 DEF IsDisconnected, OneSender
<1> QED BY <1>1, <1>3, <1>4, <1>5 DEF SendingNext

\* Every step keeps OneWriter.
LEMMA OneWriterStep ==
  ASSUME SendingInv, SendingNext
  PROVE  OneWriter'
<1> USE DEF SendingInv
<1>1. ASSUME NEW t \in Threads, NEW m \in Messages, Push(t, m)
      PROVE  OneWriter'
  <2>1. queue' # <<>> /\ (queue # <<>> => Head(queue') = Head(queue))
    BY <1>1 DEF Push, Pushes, SendingTypeOK
  <2>2. \A u \in Threads : step'[u] = IF u = t THEN "pushed" ELSE step[u]
    BY <1>1, Moves DEF Push, Pushes
  <2> QED BY <1>1, <2>1, <2>2 DEF Push, Pushes, OneWriter, Writing, WriterSteps
<1>2. ASSUME NEW t \in Threads, SeesSocket(t) \/ SeesSending(t)
      PROVE  OneWriter'
  <2>1. ASSUME NEW to \in {"open", "free", "claiming"}, NEW from \in {"pushed", "open"},
               Goes(t, from, to), to = "claiming" => ~sendingInProgress,
               UNCHANGED <<queue, sendingInProgress, writes>>
        PROVE  OneWriter'
    BY <2>1, Moves DEF OneWriter, Writing, WriterSteps
  <2> QED BY <1>2, <2>1 DEF SeesSocket, SeesSending
\* A thread that claims the connection, and finds a message or none: it is
\* the only sender, and nobody writes.
<1>3. ASSUME NEW t \in Threads, StartsSending(t) \/ FrontOfEmpty(t)
      PROVE  OneWriter'
  <2>1. writes = {} /\ \A u \in Threads : ~Writing(u)
    BY <1>3 DEF StartsSending, FrontOfEmpty, Goes, OneWriter
  <2>2. \A u \in Threads : step[u] = "claiming" => u = t
    BY <1>3 DEF StartsSending, FrontOfEmpty, Goes, OneSender, SenderSteps
  <2>3. \A u \in Threads : ~Writing(u)' /\ step'[u] # "claiming"
    BY <1>3, <2>1, <2>2, Moves DEF StartsSending, FrontOfEmpty, Writing, WriterSteps
  <2>4. CASE StartsSending(t)
    BY <2>1, <2>3, <2>4, WriteStarts DEF StartsSending, OneWriter
  <2>5. CASE FrontOfEmpty(t)
    BY <2>1, <2>3, <2>5 DEF FrontOfEmpty, OneWriter
  <2> QED BY <1>3, <2>4, <2>5
\* The handler of a write is the only one, and goes on with the next message.
<1>4. ASSUME NEW t \in Threads, SendsNext(t)
      PROVE  OneWriter'
  <2>1. Writing(t)
    BY <1>4 DEF SendsNext, Goes, Writing, WriterSteps
  <2>2. writes = {} /\ sendingInProgress /\ \A u \in Threads : Writing(u) => u = t
    BY <2>1 DEF OneWriter
  <2>3. \A u \in Threads : ~Writing(u)' /\ step'[u] # "claiming"
    BY <1>4, <2>2, Moves DEF SendsNext, Writing, WriterSteps, OneWriter
  <2> QED BY <1>4, <2>2, <2>3, WriteStarts DEF SendsNext, OneWriter
<1>5. ASSUME NEW t \in Threads,
             SeesEmpty(t) \/ SeesEmptyBodyless(t) \/ Disconnects(t) \/ StopsSending(t)
      PROVE  OneWriter'
  <2>1. Writing(t)
    BY <1>5 DEF SeesEmpty, SeesEmptyBodyless, Disconnects, StopsSending, Goes,
                Writing, WriterSteps
  <2>2. writes = {} /\ sendingInProgress /\ \A u \in Threads : Writing(u) => u = t
    BY <2>1 DEF OneWriter
  <2>3. \A u \in Threads : step[u] # "claiming"
    BY <2>2 DEF OneWriter
  <2>4. \A u \in Threads : step'[u] # "claiming" /\ (Writing(u)' => u = t)
    BY <1>5, <2>2, <2>3, Moves DEF SeesEmpty, SeesEmptyBodyless, Disconnects,
       StopsSending, Writing, WriterSteps
  <2>5. CASE SeesEmpty(t) \/ SeesEmptyBodyless(t) \/ Disconnects(t)
    BY <2>2, <2>4, <2>5 DEF SeesEmpty, SeesEmptyBodyless, Disconnects, OneWriter
  <2>6. CASE StopsSending(t)
    <3>1. ~Writing(t)'
      BY <2>6, Moves DEF StopsSending, Writing, WriterSteps
    <3> QED BY <2>2, <2>4, <2>6, <3>1 DEF StopsSending, OneWriter
  <2> QED BY <1>5, <2>5, <2>6
<1>6. ASSUME NEW t \in Threads, NEW w \in writes, WriteEnds(t, w)
      PROVE  OneWriter'
  <2>1. /\ queue # <<>> /\ w.message = Head(queue) /\ writes = {w}
        /\ sendingInProgress /\ \A u \in Threads : ~Writing(u)
        /\ \A u \in Threads : step[u] # "claiming"
    BY DEF OneWriter
  <2>2. \A u \in Threads : step'[u] # "claiming" /\ (Writing(u)' => u = t)
    <3>1. ASSUME NEW to \in {"free", "poppedBodyless", "popped", "failing"},
                 Goes(t, "free", to)
          PROVE  /\ step'[t] = to
                 /\ \A u \in Threads \ {t} : step'[u] = step[u]
      BY <3>1, Moves
    <3>2. ASSUME NEW to \in {"free", "poppedBodyless", "popped", "failing"},
                 Goes(t, "free", to)
          PROVE  \A u \in Threads : step'[u] # "claiming" /\ (Writing(u)' => u = t)
      BY <2>1, <3>1, <3>2 DEF Writing
    <3> QED BY <1>6, <3>2 DEF WriteEnds, HeaderWritten, BodylessWritten,
               BodyWritten, WriteFails
  <2>3. CASE HeaderWritten(t, w)
    <3>1. ~Writing(t)'
      BY <2>3, Moves DEF HeaderWritten, Writing, WriterSteps
    <3>2. writes' = {Write("body")}
      BY <2>1, <2>3 DEF HeaderWritten
    <3> QED BY <2>1, <2>2, <2>3, <3>1, <3>2, WriteStarts DEF HeaderWritten, OneWriter
  <2>4. CASE BodylessWritten(t, w) \/ BodyWritten(t, w) \/ WriteFails(t, w)
    <3>1. writes' = {} /\ sendingInProgress'
      BY <2>1, <2>4 DEF BodylessWritten, BodyWritten, WriteFails
    <3> QED BY <2>2, <3>1 DEF OneWriter
  <2> QED BY <1>6, <2>3, <2>4 DEF WriteEnds
<1>7. CASE IsDisconnected
  BY <1>7 DEF IsDisconnected, OneWriter, Writing
<1> QED BY <1>1, <1>2, <1>3, <1>4, <1>5, <1>6, <1>7 DEF SendingNext, ThreadStep

\* A connection starts with nothing to send.
LEMMA SendingStarts == SendingInit => SendingInv
<1> SUFFICES ASSUME SendingInit PROVE SendingInv
  OBVIOUS
<1>1. SendingTypeOK
  <2>1. queue \in Seq(Messages) /\ delivered \in Seq(Messages)
    BY DEF SendingInit
  <2>2. writes \in SUBSET WriteType
    BY DEF SendingInit
  <2>3. step \in [Threads -> {"free", "undefined"} \cup SenderSteps \cup WriterSteps]
    BY DEF SendingInit
  <2> QED BY <2>1, <2>2, <2>3 DEF SendingInit, SendingTypeOK
<1>2. \A t \in Threads : step[t] = "free"
  BY DEF SendingInit
<1>3. OneWriter
  BY <1>2 DEF SendingInit, OneWriter, Writing, WriterSteps
<1>4. OneSender
  BY <1>2 DEF OneSender, SenderSteps
<1> QED BY <1>1, <1>3, <1>4 DEF SendingInv

\* A step that changes nothing keeps everything.
LEMMA SendingStutter ==
  ASSUME SendingInv, UNCHANGED sendingVars
  PROVE  SendingInv'
BY DEF sendingVars, SendingInv, SendingTypeOK, OneWriter, OneSender, Writing

\* The strengthening holds in every reachable state.
THEOREM SendingInvariance == SendingSpec => []SendingInv
<1>1. SendingInv /\ [SendingNext]_sendingVars => SendingInv'
  BY SendingTypeStep, OneWriterStep, OneSenderStep, SendingStutter DEF SendingInv
<1> QED BY <1>1, SendingStarts, PTL DEF SendingSpec

\* Types of the send path (postWriteMessageHeader, postWriteMessageBody).
THEOREM SendingTypeCorrect == SendingSpec => []SendingTypeOK
BY SendingInvariance, PTL DEF SendingInv

\* One async_write per socket, always of the message at the front of
\* messagesQueue, for any number of threads and messages.
THEOREM OneWriterAtATime == SendingSpec => []OneWriter
BY SendingInvariance, PTL DEF SendingInv

\* Every step of the send path queues a message, delivers the oldest one, or
\* leaves the channel as it is.
LEMMA SendingStepRefines ==
  ASSUME SendingInv, [SendingNext]_sendingVars
  PROVE  [Channel!ChannelNext]_<<queue, delivered>>
<1>1. ASSUME NEW t \in Threads, NEW m \in Messages, Push(t, m)
      PROVE  Channel!ChannelNext
  BY <1>1 DEF Push, Pushes, Channel!ChannelNext, Channel!Queue
<1>2. ASSUME NEW t \in Threads, ThreadStep(t)
      PROVE  UNCHANGED <<queue, delivered>>
  BY <1>2 DEF ThreadStep, SeesSocket, SeesSending, StartsSending, FrontOfEmpty,
     SendsNext, SeesEmpty, SeesEmptyBodyless, Disconnects, StopsSending
<1>3. ASSUME NEW t \in Threads, NEW w \in writes, WriteEnds(t, w)
      PROVE  [Channel!ChannelNext]_<<queue, delivered>>
  <2>1. queue # <<>> /\ w.message = Head(queue)
    BY DEF SendingInv, OneWriter
  <2> QED BY <1>3, <2>1 DEF WriteEnds, HeaderWritten, BodylessWritten, BodyWritten,
             WriteFails, Channel!ChannelNext, Channel!Deliver
<1>4. CASE IsDisconnected \/ UNCHANGED sendingVars
  BY <1>4 DEF IsDisconnected, sendingVars
<1> QED BY <1>1, <1>2, <1>3, <1>4 DEF SendingNext

\* The send path implements the FIFO channel: the peer gets the messages in
\* the order they were pushed, each at most once.
THEOREM SendingRefinesChannel == SendingSpec => SendsInOrder
<1>1. SendingInit => Channel!ChannelInit
  BY DEF SendingInit, Channel!ChannelInit
<1>2. SendingInv /\ [SendingNext]_sendingVars
        => [Channel!ChannelNext]_<<queue, delivered>>
  BY SendingStepRefines
<1> QED BY <1>1, <1>2, SendingInvariance, PTL
        DEF SendingSpec, SendsInOrder, Channel!ChannelSpec
=============================================================================
