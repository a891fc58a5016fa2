------------------------- MODULE TcpConnectionProofs -------------------------
(***************************************************************************)
(* One chain of reads keeps message handlers apart, and so the connection  *)
(* is a client of the send path with one sender at a time: the theorems of *)
(* MessageSendingProofs carry over to it.  Requests are handled, and       *)
(* replies arrive, in the order of the requests.                           *)
(***************************************************************************)
EXTENDS TcpConnection, MessageSendingProofs, SequenceTheorems

\* The requests are handled one after the other, and the header that has been
\* taken is that of the next.
HandledSoFar ==
  /\ \A i \in 1..Len(handled) : handled[i] = i
  /\ taken \in {Len(handled), Len(handled) + 1}
  /\ \A r \in reads : taken = IF r.part = "body" THEN Len(handled) + 1
                                                 ELSE Len(handled)
  /\ \A t \in Threads :
       Handles(t) => taken > 0 /\ taken = Len(handled) /\ message[t] = taken

\* What is queued and delivered answers requests that were handled, and not
\* the one whose handler has yet to reply.
Answered(n) == /\ \A i \in 1..Len(queue) : queue[i] <= n
               /\ \A i \in 1..Len(delivered) : delivered[i] <= n

AnsweredSoFar ==
  /\ Answered(Len(handled))
  /\ \A t \in Threads : stage[t] = "received" => Answered(Len(handled) - 1)

TcpInv ==
  /\ SendingInv /\ TcpTypeOK /\ AtMostOneReader /\ AtLeastOneReader
  /\ HandledSoFar /\ AnsweredSoFar /\ AnswersInOrder

LEMMA RequestNumbers == MaxRequests \in Nat /\ Messages = 1..MaxRequests
BY RequestAssumption

\* What a thread's progress in a message handler does to stage.
LEMMA Progress ==
  ASSUME TcpTypeOK, NEW t \in Threads, NEW from, NEW to, Passes(t, from, to)
  PROVE  /\ stage[t] = from /\ stage'[t] = to
         /\ \A u \in Threads \ {t} : stage'[u] = stage[u]
BY DEF TcpTypeOK, Passes

\* What an async_read that is started looks like.
LEMMA ReadStarts ==
  ASSUME TcpTypeOK, NEW part \in {"header", "body"}
  PROVE  Read(part) \in ReadType /\ Read(part).part = part
BY DEF TcpTypeOK, SendingTypeOK, Read, ReadType

LEMMA TcpStarts == TcpInit => TcpInv
<1> SUFFICES ASSUME TcpInit PROVE TcpInv
  OBVIOUS
<1> USE RequestNumbers
<1>1. SendingInv
  BY SendingStarts DEF TcpInit
<1>2. Read("header") \in ReadType /\ Read("header").part = "header"
  BY DEF TcpInit, SendingInit, Read, ReadType
<1>3. /\ \A t \in Threads : stage[t] = "idle" /\ step[t] = "free"
      /\ reads = {Read("header")} /\ taken = 0 /\ Len(handled) = 0
      /\ Len(queue) = 0 /\ Len(delivered) = 0
  BY DEF TcpInit, SendingInit
<1>4. TcpTypeOK
  BY <1>1, <1>2 DEF TcpInit, TcpTypeOK, SendingInv
<1>5. AtMostOneReader
  BY <1>2, <1>3 DEF AtMostOneReader, Handles, SenderSteps
<1>6. HandledSoFar
  BY <1>2, <1>3 DEF HandledSoFar, Handles
<1>7. AnsweredSoFar /\ AnswersInOrder
  BY <1>3 DEF AnsweredSoFar, Answered, AnswersInOrder
<1>8. AtLeastOneReader
  BY <1>3 DEF AtLeastOneReader
<1> QED BY <1>1, <1>4, <1>5, <1>6, <1>7, <1>8 DEF TcpInv

\* Only the thread that is in the message handler can call sendMessage(), and
\* while it has not done so nobody is in it.
LEMMA ReplierIsOnlySender ==
  ASSUME TcpInv, NEW t \in Threads, stage[t] = "received"
  PROVE  \A u \in Threads : step[u] \notin SenderSteps
BY DEF TcpInv, AtMostOneReader, Handles

\* Every step of the connection is one of the send path, or leaves it alone.
LEMMA TcpStepSends ==
  ASSUME TcpInv, [TcpNext]_tcpVars
  PROVE  [SendingNext]_sendingVars
<1>1. CASE Requests
  BY <1>1 DEF Requests
<1>2. ASSUME NEW t \in Threads, Defined, HandlerStep(t)
      PROVE  [SendingNext]_sendingVars
  <2>1. CASE ThreadStep(t)
    BY <1>2, <2>1 DEF SendingNext
  <2>2. CASE Replies(t)
    <3>1. \A u \in Threads : step[u] \notin SenderSteps
      BY <2>2, ReplierIsOnlySender DEF Replies, Passes
    <3>2. message[t] \in Messages
      BY <2>2, RequestNumbers DEF Replies, Passes, TcpInv, HandledSoFar, TcpTypeOK, Handles,
         AtMostOneReader
    <3> QED BY <1>2, <2>2, <3>1, <3>2 DEF Replies, Push, SendingNext
  <2>3. CASE SaysNothing(t) \/ ReadsOn(t)
    BY <2>3 DEF SaysNothing, ReadsOn
  <2>4. CASE Closes(t)
    BY <1>2, <2>4 DEF Closes, IsDisconnected, SendingNext, sendingVars, TcpInv,
       SendingInv, SendingTypeOK
  <2> QED BY <1>2, <2>1, <2>2, <2>3, <2>4 DEF HandlerStep
<1>3. ASSUME NEW t \in Threads, NEW r \in reads, Defined,
             ReadSucceeds(t, r) \/ ReadFails(t, r)
      PROVE  [SendingNext]_sendingVars
  <2>1. CASE ReadSucceeds(t, r)
    BY <2>1 DEF ReadSucceeds, HeaderRead, EmptyHeaderRead, BodyRead, TakesHeader
  <2>2. CASE ReadFails(t, r)
    BY <2>2 DEF ReadFails
  <2> QED BY <1>3, <2>1, <2>2
<1>4. ASSUME NEW t \in Threads, NEW w \in writes, Defined, WriteIsOver(t, w)
      PROVE  [SendingNext]_sendingVars
  BY <1>4 DEF WriteIsOver, SendingNext
<1>5. CASE Defined /\ IsDisconnected
  BY <1>5 DEF SendingNext
<1>6. CASE UNCHANGED tcpVars
  BY <1>6 DEF tcpVars
<1> QED BY <1>1, <1>2, <1>3, <1>4, <1>5, <1>6 DEF TcpNext

\* A reply to a later request than all before it keeps the order.
LEMMA ReplyKeepsOrder ==
  ASSUME SendingTypeOK, AnswersInOrder, NEW m \in Nat, Answered(m - 1),
         m \in Messages, queue' = Append(queue, m), delivered' = delivered
  PROVE  /\ AnswersInOrder'
         /\ \A i \in 1..Len(queue') : queue'[i] <= m
<1>1. /\ Len(queue') = Len(queue) + 1 /\ Len(queue) \in Nat
      /\ \A i \in 1..Len(queue) :
           queue'[i] = queue[i] /\ queue[i] \in Nat /\ queue[i] < m
      /\ queue'[Len(queue) + 1] = m
  BY RequestNumbers DEF SendingTypeOK, Answered
<1>2. \A i \in 1..Len(queue') : i \in 1..Len(queue) \/ i = Len(queue) + 1
  BY <1>1
<1>3. \A i \in 1..Len(delivered) : delivered[i] < m
  BY RequestNumbers DEF SendingTypeOK, Answered
<1>4. \A i \in 1..Len(queue') : queue'[i] <= m
  BY <1>1, <1>2, RequestNumbers
<1>5. \A i, j \in 1..Len(queue') : i < j => queue'[i] < queue'[j]
  BY <1>1, <1>2 DEF AnswersInOrder
<1>6. \A i \in 1..Len(delivered), j \in 1..Len(queue') : delivered[i] < queue'[j]
  BY <1>1, <1>2, <1>3 DEF AnswersInOrder
<1> QED BY <1>4, <1>5, <1>6 DEF AnswersInOrder

\* So does delivering the reply at the front.
LEMMA DeliveryKeepsOrder ==
  ASSUME SendingTypeOK, AnswersInOrder, queue # <<>>,
         queue' = Tail(queue), delivered' = Append(delivered, Head(queue))
  PROVE  /\ AnswersInOrder'
         /\ \A n \in Nat : Answered(n) =>
              /\ \A i \in 1..Len(queue') : queue'[i] <= n
              /\ \A i \in 1..Len(delivered') : delivered'[i] <= n
<1>1. /\ Len(queue) \in Nat \ {0} /\ Len(queue') = Len(queue) - 1
      /\ \A i \in 1..Len(queue') : i + 1 \in 1..Len(queue) /\ queue'[i] = queue[i + 1]
  BY DEF SendingTypeOK
<1>2. /\ Len(delivered') = Len(delivered) + 1 /\ Len(delivered) \in Nat
      /\ \A i \in 1..Len(delivered) : delivered'[i] = delivered[i]
      /\ delivered'[Len(delivered) + 1] = queue[1]
      /\ 1 \in 1..Len(queue)
  BY <1>1 DEF SendingTypeOK
<1>3. \A i \in 1..Len(delivered') : i \in 1..Len(delivered) \/ i = Len(delivered) + 1
  BY <1>2
<1>4. \A i, j \in 1..Len(delivered') : i < j => delivered'[i] < delivered'[j]
  BY <1>2, <1>3 DEF AnswersInOrder
<1>5. \A i, j \in 1..Len(queue') : i < j => queue'[i] < queue'[j]
  BY <1>1 DEF AnswersInOrder
<1>6. \A i \in 1..Len(delivered'), j \in 1..Len(queue') : delivered'[i] < queue'[j]
  BY <1>1, <1>2, <1>3 DEF AnswersInOrder
<1>7. ASSUME NEW n \in Nat, Answered(n)
      PROVE  /\ \A i \in 1..Len(queue') : queue'[i] <= n
             /\ \A i \in 1..Len(delivered') : delivered'[i] <= n
  BY <1>1, <1>2, <1>3, <1>7 DEF Answered
<1> QED BY <1>4, <1>5, <1>6, <1>7 DEF AnswersInOrder

\* The queue, and what was delivered of it, after a step of the send path.
LEMMA SendPathKeepsAnswers ==
  ASSUME TcpInv, NEW t \in Threads,
         ThreadStep(t) \/ \E w \in writes : WriteEnds(t, w)
  PROVE  /\ AnswersInOrder'
         /\ \A n \in Nat : Answered(n) =>
              /\ \A i \in 1..Len(queue') : queue'[i] <= n
              /\ \A i \in 1..Len(delivered') : delivered'[i] <= n
<1> USE DEF TcpInv, SendingInv
<1>1. CASE ThreadStep(t)
  <2>1. UNCHANGED <<queue, delivered>>
    BY <1>1 DEF ThreadStep, SeesSocket, SeesSending, StartsSending, FrontOfEmpty,
       SendsNext, SeesEmpty, SeesEmptyBodyless, Disconnects, StopsSending
  <2> QED BY <2>1 DEF AnswersInOrder, Answered
<1>2. ASSUME NEW w \in writes, WriteEnds(t, w)
      PROVE  /\ AnswersInOrder'
             /\ \A n \in Nat : Answered(n) =>
                  /\ \A i \in 1..Len(queue') : queue'[i] <= n
                  /\ \A i \in 1..Len(delivered') : delivered'[i] <= n
  <2>1. queue # <<>> /\ w.message = Head(queue)
    BY DEF OneWriter
  <2>2. CASE HeaderWritten(t, w) \/ WriteFails(t, w)
    BY <2>2 DEF HeaderWritten, WriteFails, AnswersInOrder, Answered
  <2>3. CASE BodylessWritten(t, w) \/ BodyWritten(t, w)
    BY <2>1, <2>3, DeliveryKeepsOrder DEF BodylessWritten, BodyWritten
  <2> QED BY <1>2, <2>2, <2>3 DEF WriteEnds
<1> QED BY <1>1, <1>2

ReadInv == TcpTypeOK /\ AtMostOneReader /\ HandledSoFar /\ AnsweredSoFar /\ AnswersInOrder

\* What holds of queue and delivered holds as long as they are left alone.
LEMMA AnswersStay ==
  ASSUME TcpInv, UNCHANGED <<queue, delivered>>
  PROVE  AnswersInOrder' /\ \A n \in Nat : Answered(n) => Answered(n)'
BY DEF TcpInv, AnswersInOrder, Answered

LEMMA RequestsKeeps ==
  ASSUME TcpInv, Requests, SendingTypeOK'
  PROVE  ReadInv'
<1> USE RequestNumbers
<1>1. TcpTypeOK'
  BY DEF Requests, TcpInv, TcpTypeOK
<1> QED BY <1>1 DEF Requests, sendingVars, TcpInv, ReadInv, AtMostOneReader, Handles,
           HandledSoFar, AnsweredSoFar, Answered, AnswersInOrder

\* A step of the send path by a thread that is in a message handler, or by one
\* that is in none.
LEMMA SendPathKeeps ==
  ASSUME TcpInv, SendingTypeOK', UNCHANGED readingVars, NEW t \in Threads,
         ThreadStep(t) \/ \E w \in writes : WriteEnds(t, w)
  PROVE  ReadInv'
<1> USE DEF TcpInv
<1>1. TcpTypeOK'
  BY DEF readingVars, TcpTypeOK
<1>2. \A u \in Threads : step'[u] \in SenderSteps => step[u] \in SenderSteps
  <2>1. ASSUME NEW from, NEW to, Goes(t, from, to),
               to \in SenderSteps => from \in SenderSteps
        PROVE  \A u \in Threads : step'[u] \in SenderSteps => step[u] \in SenderSteps
    BY <2>1, Moves DEF SendingInv
  <2>2. CASE ThreadStep(t)
    BY <2>1, <2>2 DEF ThreadStep, SeesSocket, SeesSending, StartsSending, FrontOfEmpty,
       SendsNext, SeesEmpty, SeesEmptyBodyless, Disconnects, StopsSending, SenderSteps
  <2>3. ASSUME NEW w \in writes, WriteEnds(t, w)
        PROVE  \A u \in Threads : step'[u] \in SenderSteps => step[u] \in SenderSteps
    BY <2>1, <2>3 DEF WriteEnds, HeaderWritten, BodylessWritten, BodyWritten,
       WriteFails, SenderSteps
  <2> QED BY <2>2, <2>3
<1>3. AtMostOneReader' /\ HandledSoFar'
  BY <1>2 DEF readingVars, AtMostOneReader, HandledSoFar, Handles
<1>4. AnswersInOrder' /\ \A n \in Nat : Answered(n) => Answered(n)'
  BY SendPathKeepsAnswers DEF Answered
<1>5. Len(handled) \in Nat /\ handled' = handled /\ stage' = stage
  BY DEF readingVars, TcpTypeOK
<1>6. \A u \in Threads : stage[u] = "received" => Len(handled) - 1 \in Nat
  BY <1>5 DEF HandledSoFar, Handles
<1>7. AnsweredSoFar'
  BY <1>4, <1>5, <1>6 DEF AnsweredSoFar, Answered
<1> QED BY <1>1, <1>3, <1>4, <1>7 DEF ReadInv

LEMMA IsDisconnectedKeeps ==
  ASSUME TcpInv, SendingTypeOK', UNCHANGED readingVars, IsDisconnected
  PROVE  ReadInv'
BY DEF IsDisconnected, readingVars, TcpInv, ReadInv, TcpTypeOK, AtMostOneReader, Handles,
       HandledSoFar, AnsweredSoFar, Answered, AnswersInOrder

LEMMA RepliesKeeps ==
  ASSUME TcpInv, SendingTypeOK', NEW t \in Threads, Replies(t)
  PROVE  ReadInv'
<1> USE RequestNumbers DEF TcpInv
<1>1. /\ stage[t] = "received" /\ stage'[t] = "replied"
      /\ \A u \in Threads \ {t} : stage'[u] = stage[u] /\ ~Handles(u)
  BY Progress DEF Replies, AtMostOneReader, Handles
<1>2. /\ step'[t] = "pushed" /\ \A u \in Threads \ {t} : step'[u] = step[u]
  BY Moves DEF Replies, Pushes, SendingInv
<1>3. TcpTypeOK'
  <2>1. stage' \in [Threads -> {"idle", "received", "replied", "disconnecting"}]
    BY DEF Replies, Passes, TcpTypeOK
  <2> QED BY <2>1 DEF Replies, TcpTypeOK
<1>4. AtMostOneReader'
  <2>1. reads = {}
    BY <1>1 DEF AtMostOneReader, Handles
  <2>2. \A u \in Threads : step'[u] \in SenderSteps => u = t
    BY <1>1, <1>2 DEF AtMostOneReader, Handles
  <2> QED BY <1>1, <2>1, <2>2 DEF Replies, AtMostOneReader, Handles
<1>5. HandledSoFar'
  BY <1>1 DEF Replies, HandledSoFar, Handles
<1>6. /\ message[t] \in Nat /\ message[t] \in Messages
      /\ message[t] = Len(handled) /\ Answered(message[t] - 1)
  BY <1>1 DEF HandledSoFar, AnsweredSoFar, Handles, TcpTypeOK
<1>7. /\ AnswersInOrder'
      /\ \A i \in 1..Len(queue') : queue'[i] <= Len(handled)
  BY <1>6, ReplyKeepsOrder DEF Replies, Pushes, SendingInv
<1>8. AnsweredSoFar'
  <2>1. Answered(Len(handled))'
    BY <1>7 DEF Replies, Pushes, AnsweredSoFar, Answered
  <2>2. \A u \in Threads : stage'[u] # "received"
    BY <1>1 DEF Handles
  <2> QED BY <2>1, <2>2 DEF AnsweredSoFar
<1> QED BY <1>3, <1>4, <1>5, <1>7, <1>8 DEF ReadInv

LEMMA SaysNothingKeeps ==
  ASSUME TcpInv, SendingTypeOK', NEW t \in Threads, SaysNothing(t)
  PROVE  ReadInv'
<1> USE DEF TcpInv
<1>1. /\ stage[t] = "received" /\ stage'[t] = "replied"
      /\ \A u \in Threads \ {t} : stage'[u] = stage[u] /\ ~Handles(u)
  BY Progress DEF SaysNothing, AtMostOneReader, Handles
<1>2. TcpTypeOK'
  BY DEF SaysNothing, Passes, TcpTypeOK
<1>3. AtMostOneReader' /\ HandledSoFar'
  BY <1>1 DEF SaysNothing, sendingVars, AtMostOneReader, HandledSoFar, Handles
<1>4. AnswersInOrder' /\ AnsweredSoFar'
  BY <1>1 DEF SaysNothing, sendingVars, AnswersInOrder, AnsweredSoFar, Answered
<1> QED BY <1>2, <1>3, <1>4 DEF ReadInv

\* The handler is done: nobody is in one, and nothing is being read, so that
\* the read it starts is the only one.
LEMMA ReadsOnKeeps ==
  ASSUME TcpInv, SendingTypeOK', NEW t \in Threads, ReadsOn(t)
  PROVE  ReadInv'
<1> USE RequestNumbers DEF TcpInv
<1>1. /\ stage[t] = "replied" /\ stage'[t] = "idle"
      /\ \A u \in Threads \ {t} : stage'[u] = stage[u] /\ ~Handles(u)
  BY Progress DEF ReadsOn, AtMostOneReader, Handles
<1>2. reads = {} /\ taken = Len(handled)
  BY <1>1 DEF AtMostOneReader, HandledSoFar, Handles
<1>3. Read("header") \in ReadType /\ Read("header").part = "header"
  BY ReadStarts
<1>4. TcpTypeOK'
  <2>1. /\ stage' \in [Threads -> {"idle", "received", "replied", "disconnecting"}]
        /\ message' \in [Threads -> 0..MaxRequests]
    BY DEF ReadsOn, Passes, TcpTypeOK
  <2> QED BY <1>3, <2>1 DEF ReadsOn, TcpTypeOK
<1>5. AtMostOneReader'
  <2>1. \A u \in Threads : step[u] \notin SenderSteps
    BY <1>1 DEF AtMostOneReader, Handles, ReadsOn, SenderSteps
  <2> QED BY <1>1, <1>2, <1>3, <2>1 DEF ReadsOn, sendingVars, AtMostOneReader, Handles
<1>6. HandledSoFar'
  BY <1>1, <1>2, <1>3 DEF ReadsOn, HandledSoFar, Handles
<1>7. AnswersInOrder' /\ AnsweredSoFar'
  BY <1>1 DEF ReadsOn, sendingVars, AnswersInOrder, AnsweredSoFar, Answered
<1> QED BY <1>4, <1>5, <1>6, <1>7 DEF ReadInv

LEMMA HeaderKeeps ==
  ASSUME TcpInv, SendingTypeOK', NEW t \in Threads, NEW r \in reads,
         HeaderRead(t, r) \/ EmptyHeaderRead(t, r)
  PROVE  ReadInv'
<1> USE RequestNumbers DEF TcpInv
<1>1. /\ reads = {r} /\ r.part = "header" /\ \A u \in Threads : ~Handles(u)
      /\ taken = Len(handled) /\ taken < sent /\ taken' = taken + 1
      /\ incoming' = taken + 1
      /\ UNCHANGED <<sendingVars, sent, stage, message, handled>>
  BY DEF HeaderRead, EmptyHeaderRead, TakesHeader, Arrives, AtMostOneReader, HandledSoFar
<1>2. Read("body") \in ReadType /\ Read("body").part = "body"
  BY ReadStarts
<1>3. reads' = {} \/ reads' = {Read("body")}
  BY <1>1 DEF HeaderRead, EmptyHeaderRead
<1>4. TcpTypeOK'
  BY <1>1, <1>2, <1>3 DEF TcpTypeOK
<1>5. AtMostOneReader'
  BY <1>1, <1>2, <1>3 DEF sendingVars, AtMostOneReader, Handles, TcpTypeOK
<1>6. HandledSoFar'
  BY <1>1, <1>2, <1>3 DEF HandledSoFar, Handles
<1>7. AnswersInOrder' /\ AnsweredSoFar'
  BY <1>1 DEF sendingVars, AnswersInOrder, AnsweredSoFar, Answered
<1> QED BY <1>4, <1>5, <1>6, <1>7 DEF ReadInv

\* The message that is moved out of the buffer is the one after the last that
\* was handled.
LEMMA BodyKeeps ==
  ASSUME TcpInv, SendingTypeOK', NEW t \in Threads, NEW r \in reads, BodyRead(t, r)
  PROVE  ReadInv'
<1> USE RequestNumbers DEF TcpInv
<1>1. /\ reads = {r} /\ r.part = "body" /\ \A u \in Threads : ~Handles(u)
      /\ incoming = taken /\ taken = Len(handled) + 1 /\ step[t] = "free"
  BY DEF BodyRead, Arrives, IsFree, AtMostOneReader, HandledSoFar
<1>2. /\ stage'[t] = "received"
      /\ \A u \in Threads \ {t} : stage'[u] = stage[u] /\ ~Handles(u)
  BY <1>1, Progress DEF BodyRead, Handles
<1>3. taken \in Messages /\ message'[t] = taken
  BY <1>1 DEF TcpTypeOK, BodyRead
<1>4. /\ reads' = {} /\ UNCHANGED <<sendingVars, sent, taken>>
  BY <1>1 DEF BodyRead
<1>5. /\ handled' = Append(handled, taken) /\ Len(handled) \in Nat
      /\ Len(handled') = Len(handled) + 1
      /\ \A i \in 1..Len(handled) : handled'[i] = handled[i]
      /\ handled'[Len(handled) + 1] = taken
  BY <1>1, <1>3 DEF BodyRead, TcpTypeOK
<1>6. TcpTypeOK'
  <2>1. /\ stage' \in [Threads -> {"idle", "received", "replied", "disconnecting"}]
        /\ message' \in [Threads -> 0..MaxRequests] /\ incoming' \in 0..MaxRequests
    BY <1>1, <1>3 DEF BodyRead, Passes, TcpTypeOK
  <2>2. handled' \in Seq(Messages)
    BY <1>3, <1>5 DEF TcpTypeOK
  <2> QED BY <1>4, <2>1, <2>2 DEF TcpTypeOK
<1>7. AtMostOneReader'
  <2>1. \A u \in Threads : step[u] \notin SenderSteps
    BY <1>1 DEF AtMostOneReader, Handles
  <2> QED BY <1>2, <1>4, <2>1 DEF sendingVars, AtMostOneReader, Handles
<1>8. HandledSoFar'
  <2>1. \A i \in 1..Len(handled') : i \in 1..Len(handled) \/ i = Len(handled) + 1
    BY <1>5
  <2>2. \A i \in 1..Len(handled') : handled'[i] = i
    BY <1>1, <1>5, <2>1 DEF HandledSoFar
  <2>3. \A u \in Threads : Handles(u)' => u = t
    BY <1>2 DEF Handles
  <2> QED BY <1>1, <1>3, <1>4, <1>5, <2>2, <2>3 DEF HandledSoFar
<1>9. AnswersInOrder' /\ AnsweredSoFar'
  <2>1. \A i \in 1..Len(queue) : queue[i] \in Nat /\ queue[i] <= Len(handled)
    BY DEF AnsweredSoFar, Answered, SendingInv, SendingTypeOK
  <2>2. \A i \in 1..Len(delivered) : delivered[i] \in Nat /\ delivered[i] <= Len(handled)
    BY DEF AnsweredSoFar, Answered, SendingInv, SendingTypeOK
  <2> QED BY <1>4, <1>5, <2>1, <2>2 DEF sendingVars, AnswersInOrder, AnsweredSoFar,
             Answered
<1> QED BY <1>6, <1>7, <1>8, <1>9 DEF ReadInv

LEMMA ReadFailsKeeps ==
  ASSUME TcpInv, SendingTypeOK', NEW t \in Threads, NEW r \in reads, ReadFails(t, r)
  PROVE  ReadInv'
<1> USE DEF TcpInv
<1>1. /\ stage'[t] = "disconnecting" /\ stage[t] = "idle"
      /\ \A u \in Threads \ {t} : stage'[u] = stage[u]
  BY Progress DEF ReadFails
<1>2. TcpTypeOK'
  <2>1. stage' \in [Threads -> {"idle", "received", "replied", "disconnecting"}]
    BY DEF ReadFails, Passes, TcpTypeOK
  <2> QED BY <2>1 DEF ReadFails, TcpTypeOK
<1>3. \A u \in Threads : Handles(u)' <=> Handles(u)
  BY <1>1 DEF Handles
<1>4. AtMostOneReader' /\ HandledSoFar'
  BY <1>1, <1>3 DEF ReadFails, sendingVars, AtMostOneReader, HandledSoFar, SenderSteps
<1>5. AnswersInOrder' /\ AnsweredSoFar'
  BY <1>1 DEF ReadFails, sendingVars, AnswersInOrder, AnsweredSoFar, Answered
<1> QED BY <1>2, <1>4, <1>5 DEF ReadInv

\* The end of disconnect() is the end of no message handler.
LEMMA ClosesKeeps ==
  ASSUME TcpInv, SendingTypeOK', NEW t \in Threads, Closes(t)
  PROVE  ReadInv'
<1> USE DEF TcpInv
<1>1. /\ stage'[t] = "idle" /\ stage[t] = "disconnecting"
      /\ \A u \in Threads \ {t} : stage'[u] = stage[u]
  BY Progress DEF Closes
<1>2. TcpTypeOK'
  <2>1. stage' \in [Threads -> {"idle", "received", "replied", "disconnecting"}]
    BY DEF Closes, Passes, TcpTypeOK
  <2> QED BY <2>1 DEF Closes, TcpTypeOK
<1>3. \A u \in Threads : Handles(u)' <=> Handles(u)
  BY <1>1 DEF Handles
<1>4. AtMostOneReader' /\ HandledSoFar'
  BY <1>1, <1>3 DEF Closes, AtMostOneReader, HandledSoFar, SenderSteps
<1>5. AnswersInOrder' /\ AnsweredSoFar'
  BY <1>1 DEF Closes, AnswersInOrder, AnsweredSoFar, Answered
<1> QED BY <1>2, <1>4, <1>5 DEF ReadInv

\* A read that ends hands over to the next, or to a message handler, and that
\* to a read; an empty header leaves a request that is taken and not handled.
LEMMA AtLeastOneReaderStep ==
  ASSUME TcpInv, [TcpNext]_tcpVars
  PROVE  AtLeastOneReader'
<1> USE DEF TcpInv
<1>1. ASSUME UNCHANGED <<taken, handled, reads, stage>>,
             socket' = "open" => socket = "open"
      PROVE  AtLeastOneReader'
  BY <1>1 DEF AtLeastOneReader, IsDeaf, Handles
<1>2. ASSUME NEW t \in Threads,
             ThreadStep(t) \/ \E w \in writes : WriteEnds(t, w)
      PROVE  socket' = "open" => socket = "open"
  BY <1>2 DEF ThreadStep, SeesSocket, SeesSending, StartsSending, FrontOfEmpty,
     SendsNext, SeesEmpty, SeesEmptyBodyless, Disconnects, StopsSending,
     WriteEnds, HeaderWritten, BodylessWritten, BodyWritten, WriteFails
<1>3. ASSUME NEW t \in Threads, HandlerStep(t)
      PROVE  AtLeastOneReader'
  <2>1. CASE ThreadStep(t) /\ UNCHANGED readingVars
    BY <1>1, <1>2, <2>1 DEF readingVars
  <2>2. CASE Replies(t) \/ SaysNothing(t)
    <3>1. stage'[t] # "idle"
      BY <2>2, Progress DEF Replies, SaysNothing
    <3> QED BY <3>1 DEF AtLeastOneReader
  <2>3. CASE ReadsOn(t)
    BY <2>3 DEF ReadsOn, AtLeastOneReader
  <2>4. CASE Closes(t)
    BY <2>4 DEF Closes, AtLeastOneReader
  <2> QED BY <1>3, <2>1, <2>2, <2>3, <2>4 DEF HandlerStep
<1>4. ASSUME NEW t \in Threads, NEW r \in reads, ReadSucceeds(t, r)
      PROVE  AtLeastOneReader'
  <2>1. CASE HeaderRead(t, r)
    BY <2>1 DEF HeaderRead, AtLeastOneReader
  <2>2. CASE EmptyHeaderRead(t, r)
    <3>1. /\ taken = Len(handled) /\ \A u \in Threads : ~Handles(u)
          /\ reads = {r}
      BY <2>2 DEF EmptyHeaderRead, TakesHeader, Arrives, AtMostOneReader,
                  HandledSoFar
    <3>2. /\ taken' = taken + 1 /\ reads' = {} /\ taken \in Nat
          /\ UNCHANGED <<handled, stage>>
      BY <2>2, <3>1, RequestNumbers DEF EmptyHeaderRead, TakesHeader, TcpTypeOK
    <3> QED BY <3>1, <3>2 DEF AtLeastOneReader, IsDeaf, Handles
  <2>3. CASE BodyRead(t, r)
    <3>1. stage'[t] # "idle"
      BY <2>3, Progress DEF BodyRead
    <3> QED BY <3>1 DEF AtLeastOneReader
  <2> QED BY <1>4, <2>1, <2>2, <2>3 DEF ReadSucceeds
<1>5. ASSUME NEW t \in Threads, NEW r \in reads, ReadFails(t, r)
      PROVE  AtLeastOneReader'
  <2>1. stage'[t] # "idle"
    BY <1>5, Progress DEF ReadFails
  <2> QED BY <2>1 DEF AtLeastOneReader
<1>6. ASSUME NEW t \in Threads, NEW w \in writes, WriteIsOver(t, w)
      PROVE  AtLeastOneReader'
  BY <1>1, <1>2, <1>6 DEF WriteIsOver, readingVars
<1>7. CASE Requests \/ UNCHANGED tcpVars
  BY <1>1, <1>7 DEF Requests, tcpVars, sendingVars, readingVars
<1>8. CASE IsDisconnected /\ UNCHANGED readingVars
  BY <1>8 DEF IsDisconnected, AtLeastOneReader
<1> QED BY <1>3, <1>4, <1>5, <1>6, <1>7, <1>8 DEF TcpNext

\* Every step keeps the invariant: first as a step of the send path, which
\* gives SendingInv, then as a step of the chain of reads.
LEMMA TcpStep ==
  ASSUME TcpInv, [TcpNext]_tcpVars
  PROVE  TcpInv'
<1>1. SendingInv'
  BY TcpStepSends, SendingTypeStep, OneWriterStep, OneSenderStep, SendingStutter
     DEF TcpInv, SendingInv
<1>2. SendingTypeOK' /\ AtLeastOneReader'
  BY <1>1, AtLeastOneReaderStep DEF SendingInv
<1>3. CASE UNCHANGED tcpVars
  <2>1. UNCHANGED <<queue, delivered, step>> /\ UNCHANGED readingVars
    BY <1>3 DEF tcpVars, sendingVars
  <2>2. TcpTypeOK' /\ AtMostOneReader' /\ HandledSoFar'
    BY <1>2, <2>1 DEF readingVars, TcpInv, TcpTypeOK, AtMostOneReader, Handles, HandledSoFar
  <2>3. AnsweredSoFar' /\ AnswersInOrder'
    BY <2>1 DEF readingVars, TcpInv, AnsweredSoFar, Answered, AnswersInOrder
  <2> QED BY <1>1, <1>2, <2>2, <2>3 DEF TcpInv
<1>4. CASE TcpNext
  <2>1. ASSUME NEW t \in Threads, HandlerStep(t)
        PROVE  ReadInv'
    BY <1>2, <2>1, SendPathKeeps, RepliesKeeps, SaysNothingKeeps, ReadsOnKeeps,
       ClosesKeeps
       DEF HandlerStep
  <2>2. ASSUME NEW t \in Threads, NEW r \in reads, ReadSucceeds(t, r) \/ ReadFails(t, r)
        PROVE  ReadInv'
    BY <1>2, <2>2, HeaderKeeps, BodyKeeps, ReadFailsKeeps DEF ReadSucceeds
  <2>3. ASSUME NEW t \in Threads, NEW w \in writes, WriteIsOver(t, w)
        PROVE  ReadInv'
    BY <1>2, <2>3, SendPathKeeps DEF WriteIsOver
  <2>4. ReadInv'
    BY <1>2, <1>4, <2>1, <2>2, <2>3, RequestsKeeps, IsDisconnectedKeeps DEF TcpNext
  <2> QED BY <1>1, <1>2, <2>4 DEF TcpInv, ReadInv
<1> QED BY <1>3, <1>4

\* The invariant of reads, message handlers and writes of one connection, on
\* any number of threads.
THEOREM TcpInvariance == TcpSpec => []TcpInv
<1>1. TcpInv /\ [TcpNext]_tcpVars => TcpInv'
  BY TcpStep
<1> QED BY <1>1, TcpStarts, PTL DEF TcpSpec

\* Types of the chain of reads and of the send path (startReadingSequence,
\* postReadMessageBody).
THEOREM TcpTypeCorrect == TcpSpec => []TcpTypeOK
BY TcpInvariance, PTL DEF TcpInv

\* One read or one message handler at a time, and one at any time while the
\* connection is open, not deaf, and not about to be closed by the handler of a
\* read that failed, for any number of threads.
THEOREM OneReaderAtATime == TcpSpec => []OneReader
<1>1. TcpInv => OneReader
  BY DEF TcpInv, OneReader
<1> QED BY <1>1, TcpInvariance, PTL

\* The connection keeps the rule the send path relies on: sendMessage() has
\* one caller at a time.  It therefore has all the properties of SendingSpec.
THEOREM TcpKeepsOneSender == TcpSpec => KeepsOneSender
<1>1. TcpInit => SendingInit
  BY DEF TcpInit
<1>2. TcpInv /\ [TcpNext]_tcpVars => [SendingNext]_sendingVars
  BY TcpStepSends
<1> QED BY <1>1, <1>2, TcpInvariance, PTL DEF TcpSpec, KeepsOneSender, SendingSpec

\* One async_write on the socket at a time, of the front of messagesQueue.
THEOREM TcpOneWriter == TcpSpec => []OneWriter
BY TcpKeepsOneSender, OneWriterAtATime, PTL DEF KeepsOneSender

\* Replies leave in the order of the calls of sendMessage().
THEOREM TcpSendsInOrder == TcpSpec => SendsInOrder
BY TcpKeepsOneSender, SendingRefinesChannel, PTL DEF KeepsOneSender

\* Replies arrive in the order of the requests they answer.
THEOREM TcpAnswersInOrder == TcpSpec => []AnswersInOrder
BY TcpInvariance, PTL DEF TcpInv

\* The requests that are sent and not handled.
Pending == [i \in 1..(sent - Len(handled)) |-> Len(handled) + i]

\* A step of the chain of reads is a step of the channel from the program.
LEMMA TcpStepRequests ==
  ASSUME TcpInv, [TcpNext]_tcpVars
  PROVE  [Wire!ChannelNext]_<<Pending, handled>>
<1> USE RequestNumbers DEF TcpInv
<1>1. Len(handled) \in Nat /\ sent \in Nat /\ taken \in 0..sent
      /\ Len(handled) <= taken
  BY DEF TcpTypeOK, HandledSoFar
<1>2. CASE UNCHANGED <<sent, handled>>
  BY <1>2 DEF Pending
<1>3. CASE Requests
  <2>1. sent + 1 \in Messages /\ sent' = sent + 1 /\ handled' = handled
    BY <1>1, <1>3 DEF Requests
  <2>2. Pending \in Seq(Messages) /\ Len(Pending) = sent - Len(handled)
    BY <1>1 DEF Pending, TcpTypeOK
  <2>3. Pending' = Append(Pending, sent + 1)
    BY <1>1, <2>1, <2>2 DEF Pending
  <2> QED BY <2>1, <2>3 DEF Wire!ChannelNext, Wire!Queue, Pending
<1>4. ASSUME NEW t \in Threads, NEW r \in reads, BodyRead(t, r)
      PROVE  [Wire!ChannelNext]_<<Pending, handled>>
  <2>1. /\ incoming = Len(handled) + 1 /\ taken = Len(handled) + 1
        /\ handled' = Append(handled, incoming) /\ sent' = sent
    BY <1>4 DEF BodyRead, Arrives, AtMostOneReader, HandledSoFar
  <2>2. /\ Len(handled') = Len(handled) + 1 /\ sent - Len(handled) \in Nat \ {0}
    BY <1>1, <2>1 DEF TcpTypeOK
  <2>3. Pending \in Seq(Messages) /\ Len(Pending) = sent - Len(handled)
    BY <1>1, <2>2 DEF Pending, TcpTypeOK
  <2>4. Pending # <<>> /\ Head(Pending) = incoming
    BY <1>1, <2>1, <2>2, <2>3 DEF Pending
  <2>5. Pending' = Tail(Pending)
    <3>1. /\ Pending' \in Seq(Messages) /\ Len(Pending') = Len(Pending) - 1
          /\ \A i \in 1..Len(Pending') : Pending'[i] = Len(handled) + 1 + i
      BY <1>1, <2>1, <2>2, <2>3 DEF Pending, TcpTypeOK
    <3>2. /\ Tail(Pending) \in Seq(Messages) /\ Len(Tail(Pending)) = Len(Pending) - 1
          /\ \A i \in 1..Len(Tail(Pending)) : Tail(Pending)[i] = Pending[i + 1]
      BY <2>3, <2>4, HeadTailProperties
    <3>3. ASSUME NEW i \in 1..Len(Pending')
          PROVE  Pending[i + 1] = Len(handled) + 1 + i
      <4>1. i + 1 \in 1..(sent - Len(handled)) /\ i \in Nat
        BY <1>1, <2>3, <3>1
      <4>2. Pending[i + 1] = Len(handled) + (i + 1)
        BY <4>1 DEF Pending
      <4> QED BY <1>1, <4>1, <4>2
    <3> QED BY <3>1, <3>2, <3>3, SeqEqual
  <2> QED BY <2>1, <2>4, <2>5 DEF Wire!ChannelNext, Wire!Deliver, Pending
<1>5. ASSUME NEW t \in Threads, NEW r \in reads,
             HeaderRead(t, r) \/ EmptyHeaderRead(t, r) \/ ReadFails(t, r)
      PROVE  UNCHANGED <<sent, handled>>
  BY <1>5 DEF HeaderRead, EmptyHeaderRead, TakesHeader, ReadFails
<1>6. ASSUME NEW t \in Threads,
             HandlerStep(t) \/ \E w \in writes : WriteIsOver(t, w)
      PROVE  UNCHANGED <<sent, handled>>
  BY <1>6 DEF HandlerStep, WriteIsOver, readingVars, Replies, SaysNothing, ReadsOn,
              Closes
<1>7. CASE (IsDisconnected /\ UNCHANGED readingVars) \/ UNCHANGED tcpVars
  BY <1>2, <1>7 DEF readingVars, tcpVars
<1> QED BY <1>2, <1>3, <1>4, <1>5, <1>6, <1>7 DEF TcpNext, ReadSucceeds

\* The chain of reads implements the FIFO channel: requests are handled in the
\* order they were sent, each at most once.
THEOREM TcpRequestsInOrder == TcpSpec => RequestsInOrder
<1>1. TcpInit => Wire!ChannelInit
  <2> SUFFICES ASSUME TcpInit PROVE Wire!ChannelInit
    OBVIOUS
  <2>1. handled = <<>> /\ sent - Len(handled) = 0
    <3>1. handled = <<>> /\ sent = 0 /\ Len(handled) = 0
      BY EmptySeq DEF TcpInit
    <3>2. ASSUME NEW n, n = 0, sent = 0 PROVE sent - n = 0
      BY <3>2
    <3> QED BY <3>1, <3>2
  <2>2. Pending = <<>>
    BY <2>1 DEF Pending
  <2> QED BY <2>1, <2>2 DEF Wire!ChannelInit, Pending
<1>2. TcpInv /\ [TcpNext]_tcpVars => [Wire!ChannelNext]_<<Pending, handled>>
  BY TcpStepRequests
<1> QED BY <1>1, <1>2, TcpInvariance, PTL
        DEF TcpSpec, RequestsInOrder, Wire!ChannelSpec, Pending
=============================================================================
