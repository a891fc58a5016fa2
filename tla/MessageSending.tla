--------------------------- MODULE MessageSending ---------------------------
(***************************************************************************)
(* The sending half of TcpConnection, for one connection: sendMessage(),   *)
(* messagesQueue, the flag sendingInProgress, and the handlers of the      *)
(* writes.  A message is written in two parts, header and body, straight   *)
(* from the front of the queue, and is popped when its body is out.        *)
(*                                                                         *)
(* The handlers of a connection run on several threads at once.  The queue *)
(* has its own lock and the flag is atomic, so each look at one of them is *)
(* a step; nothing makes two looks one.                                    *)
(*                                                                         *)
(* One order of the steps calls front() of an empty queue.  What follows   *)
(* is undefined, and not modelled: the behaviour ends there, in the step   *)
(* "undefined", and every other property is about what precedes it.        *)
(***************************************************************************)
EXTENDS Sequences

CONSTANTS Messages,
          Bodyless,      \* the messages whose body is empty
          Threads

ASSUME SendingAssumption == Bodyless \subseteq Messages

VARIABLES queue,               \* messagesQueue
          sendingInProgress,
          socket,              \* "open" or "closed"
          writes,              \* the async_writes outstanding
          step,                \* what each thread does for this connection
          delivered            \* history: the messages completely written

sendingVars == <<queue, sendingInProgress, socket, writes, step, delivered>>

\* A write remembers what it writes, and whether the socket was open when it
\* was started.
WriteType == [part : {"header", "body"}, message : Messages,
              socket : {"open", "closed"}]

\* free: in io_context.run().  pushed, open, claiming: in sendMessage(), by
\* what has been found so far.  popped, poppedBodyless, failing, stopping: in
\* the handler of a write.  undefined: after front() of an empty queue.
SenderSteps == {"pushed", "open", "claiming"}

WriterSteps == {"popped", "poppedBodyless", "failing", "stopping"}

SendingTypeOK ==
  /\ queue \in Seq(Messages)
  /\ sendingInProgress \in BOOLEAN
  /\ socket \in {"open", "closed"}
  /\ writes \in SUBSET WriteType
  /\ step \in [Threads -> {"free", "undefined"} \cup SenderSteps \cup WriterSteps]
  /\ delivered \in Seq(Messages)

Goes(t, from, to) == /\ step[t] = from
                     /\ step' = [step EXCEPT ![t] = to]

\* What writeMessageHeader() and writeMessageBody() start.
Write(part) == [part |-> part, message |-> Head(queue), socket |-> socket]
-----------------------------------------------------------------------------
(* sendMessage().                                                          *)

Pushes(t, m) ==
  /\ Goes(t, "free", "pushed")
  /\ queue' = Append(queue, m)
  /\ UNCHANGED <<sendingInProgress, socket, writes, delivered>>

\* The caller is the message handler of the connection, of which there is one
\* at a time (TcpConnection shows it).
Push(t, m) ==
  /\ \A u \in Threads : step[u] \notin SenderSteps
  /\ Pushes(t, m)

SeesSocket(t) ==
  /\ Goes(t, "pushed", IF socket = "open" THEN "open" ELSE "free")
  /\ UNCHANGED <<queue, sendingInProgress, socket, writes, delivered>>

\* Mutant: the flag is not looked at.
IgnoresSending(t) ==
  /\ Goes(t, "open", "claiming")
  /\ UNCHANGED <<queue, sendingInProgress, socket, writes, delivered>>

SeesSending(t) ==
  /\ Goes(t, "open", IF sendingInProgress THEN "free" ELSE "claiming")
  /\ UNCHANGED <<queue, sendingInProgress, socket, writes, delivered>>

StartsSending(t) ==
  /\ Goes(t, "claiming", "free")
  /\ queue # <<>>
  /\ sendingInProgress' = TRUE
  /\ writes' = writes \cup {Write("header")}
  /\ UNCHANGED <<queue, socket, delivered>>

\* The message has been sent since it was pushed, by a thread that found it
\* in the queue and has cleared the flag in the meantime.
FrontOfEmpty(t) ==
  /\ Goes(t, "claiming", "undefined")
  /\ queue = <<>>
  /\ sendingInProgress' = TRUE
  /\ UNCHANGED <<queue, socket, writes, delivered>>
-----------------------------------------------------------------------------
(* The handlers of writes.                                                 *)

Succeeds(w) == w \in writes /\ w.socket = "open"

\* Mutant: the body is not written.
HeaderAlone(t, w) ==
  /\ Succeeds(w) /\ w.part = "header"
  /\ Goes(t, "free", "free")
  /\ Head(queue) \notin Bodyless
  /\ writes' = writes \ {w}
  /\ UNCHANGED <<queue, sendingInProgress, socket, delivered>>

\* postWriteMessageHeader: the message at the front has a body.
HeaderWritten(t, w) ==
  /\ Succeeds(w) /\ w.part = "header"
  /\ Goes(t, "free", "free")
  /\ Head(queue) \notin Bodyless
  /\ writes' = (writes \ {w}) \cup {Write("body")}
  /\ UNCHANGED <<queue, sendingInProgress, socket, delivered>>

\* postWriteMessageHeader: it has none, and is popped.
BodylessWritten(t, w) ==
  /\ Succeeds(w) /\ w.part = "header"
  /\ Goes(t, "free", "poppedBodyless")
  /\ Head(queue) \in Bodyless
  /\ writes' = writes \ {w}
  /\ queue' = Tail(queue)
  /\ delivered' = Append(delivered, w.message)
  /\ UNCHANGED <<sendingInProgress, socket>>

\* postWriteMessageBody, up to pop().
BodyWritten(t, w) ==
  /\ Succeeds(w) /\ w.part = "body"
  /\ Goes(t, "free", "popped")
  /\ writes' = writes \ {w}
  /\ queue' = Tail(queue)
  /\ delivered' = Append(delivered, w.message)
  /\ UNCHANGED <<sendingInProgress, socket>>

\* Both: the queue is not empty.
SendsNext(t) ==
  /\ \/ Goes(t, "popped", "free")
     \/ Goes(t, "poppedBodyless", "free")
  /\ queue # <<>>
  /\ writes' = writes \cup {Write("header")}
  /\ UNCHANGED <<queue, sendingInProgress, socket, delivered>>

\* postWriteMessageBody: the queue is empty, so the flag will be cleared.
SeesEmpty(t) ==
  /\ Goes(t, "popped", "stopping")
  /\ queue = <<>>
  /\ UNCHANGED <<queue, sendingInProgress, socket, writes, delivered>>

\* postWriteMessageHeader: the queue is empty, and the flag stays set.
SeesEmptyBodyless(t) ==
  /\ Goes(t, "poppedBodyless", "free")
  /\ queue = <<>>
  /\ UNCHANGED <<queue, sendingInProgress, socket, writes, delivered>>

\* Mutant: the message is popped although it was not written.
FailurePops(t, w) ==
  /\ w \in writes
  /\ Goes(t, "free", "failing")
  /\ writes' = writes \ {w}
  /\ queue' = Tail(queue)
  /\ UNCHANGED <<sendingInProgress, socket, delivered>>

\* Both, on an error: disconnect(), then the flag is cleared.
WriteFails(t, w) ==
  /\ w \in writes
  /\ Goes(t, "free", "failing")
  /\ writes' = writes \ {w}
  /\ UNCHANGED <<queue, sendingInProgress, socket, delivered>>

Disconnects(t) ==
  /\ Goes(t, "failing", "stopping")
  /\ socket' = "closed"
  /\ UNCHANGED <<queue, sendingInProgress, writes, delivered>>

StopsSending(t) ==
  /\ Goes(t, "stopping", "free")
  /\ sendingInProgress' = FALSE
  /\ UNCHANGED <<queue, socket, writes, delivered>>

\* Mutant: the socket is reset, as makeNewSocket() does, and stays a nullptr.
IsReset ==
  /\ socket = "open"
  /\ socket' = "nullptr"
  /\ UNCHANGED <<queue, sendingInProgress, writes, step, delivered>>

\* Another handler of the connection has called disconnect().
IsDisconnected ==
  /\ socket = "open"
  /\ socket' = "closed"
  /\ UNCHANGED <<queue, sendingInProgress, writes, step, delivered>>
-----------------------------------------------------------------------------
SendingInit ==
  /\ queue = <<>>
  /\ sendingInProgress = FALSE
  /\ socket = "open"
  /\ writes = {}
  /\ step = [t \in Threads |-> "free"]
  /\ delivered = <<>>

ThreadStep(t) ==
  \/ SeesSocket(t) \/ SeesSending(t) \/ StartsSending(t) \/ FrontOfEmpty(t)
  \/ SendsNext(t) \/ SeesEmpty(t) \/ SeesEmptyBodyless(t)
  \/ Disconnects(t) \/ StopsSending(t)

WriteEnds(t, w) ==
  \/ HeaderWritten(t, w) \/ BodylessWritten(t, w) \/ BodyWritten(t, w)
  \/ WriteFails(t, w)

Defined == \A t \in Threads : step[t] # "undefined"

SendingNext ==
  /\ Defined
  /\ \/ \E t \in Threads :
          \/ ThreadStep(t)
          \/ \E m \in Messages : Push(t, m)
          \/ \E w \in writes : WriteEnds(t, w)
     \/ IsDisconnected

SendingSpec == SendingInit /\ [][SendingNext]_sendingVars
-----------------------------------------------------------------------------
(* Properties.                                                             *)

Writing(t) == step[t] \in WriterSteps

\* One write, or one handler of a write, at a time: two async_writes on one
\* socket would mix their bytes.  The flag covers both, and a thread that is
\* about to write has found neither.  What is being written is the front of
\* the queue, so that pop() removes it, and removes it once.
OneWriter ==
  /\ \A w \in writes : /\ queue # <<>> /\ w.message = Head(queue)
                       /\ writes = {w}
                       /\ w.part = "body" => w.message \notin Bodyless
  /\ writes # {} => sendingInProgress /\ \A t \in Threads : ~Writing(t)
  /\ \A t \in Threads : Writing(t) => sendingInProgress
  /\ \A t, u \in Threads : Writing(t) /\ Writing(u) => t = u
  /\ \A t \in Threads : step[t] = "claiming" => ~sendingInProgress

Channel == INSTANCE OrderedChannel WITH queued <- queue

\* The peer gets the messages in the order of the calls of sendMessage(),
\* none twice, whatever the threads do (the refinement of OrderedChannel).
SendsInOrder == Channel!ChannelSpec
=============================================================================
