---------------------------- MODULE TcpConnection ----------------------------
(***************************************************************************)
(* TcpConnection, for one connection: the chain of reads, and the send     *)
(* path of MessageSending, on the same threads and the same socket.        *)
(*                                                                         *)
(* A request is read in two parts into incomingMessage.  When its body is  *)
(* in, the message is moved out of the buffer and handled; the handler may *)
(* call sendMessage(), and then starts to read the next header.  Nothing   *)
(* but this chain keeps two message handlers, hence two callers of         *)
(* sendMessage(), apart, and nothing keeps either from a handler of a      *)
(* write.                                                                  *)
(*                                                                         *)
(* Requests are numbered in the order the program sends them; the reply to *)
(* a request is known by the number of that request.                       *)
(***************************************************************************)
EXTENDS MessageSending, Naturals

CONSTANT MaxRequests      \* bound: requests the program sends

ASSUME RequestAssumption == /\ MaxRequests \in Nat
                            /\ Messages = 1..MaxRequests

VARIABLES sent,        \* how many requests the program has sent
          taken,       \* how many of their headers have been read
          incoming,    \* incomingMessage: the request in it, or 0
          reads,       \* the async_reads outstanding
          stage,       \* how far each thread is with a message handler, or
                       \* with the disconnect() of a read that failed
          message,     \* its localMessage, or 0
          handled      \* history: the requests handed to a handler

readingVars == <<sent, taken, incoming, reads, stage, message, handled>>

tcpVars == <<sendingVars, readingVars>>

ReadType == [part : {"header", "body"}, socket : {"open", "closed"}]

TcpTypeOK ==
  /\ SendingTypeOK
  /\ sent \in 0..MaxRequests
  /\ taken \in 0..sent
  /\ incoming \in 0..MaxRequests
  /\ reads \in SUBSET ReadType
  /\ stage \in [Threads -> {"idle", "received", "replied", "disconnecting"}]
  /\ message \in [Threads -> 0..MaxRequests]
  /\ handled \in Seq(Messages)

IsFree(t) == step[t] = "free" /\ stage[t] = "idle"

Passes(t, from, to) == /\ stage[t] = from
                       /\ stage' = [stage EXCEPT ![t] = to]

Read(part) == [part |-> part, socket |-> socket]
-----------------------------------------------------------------------------
\* The program sends its next request, or begins to.
Requests ==
  /\ sent < MaxRequests
  /\ sent' = sent + 1
  /\ UNCHANGED <<sendingVars, taken, incoming, reads, stage, message, handled>>

Arrives(t, r, part) ==
  /\ IsFree(t)
  /\ r \in reads /\ r.part = part /\ r.socket = "open"

\* The next header on the wire is in the buffer.
TakesHeader(t, r) ==
  /\ Arrives(t, r, "header")
  /\ taken < sent
  /\ taken' = taken + 1
  /\ incoming' = taken + 1
  /\ UNCHANGED <<sendingVars, sent, stage, message, handled>>

\* Mutant: the next header is read as soon as this one is in.
HeaderReadAhead(t, r) ==
  /\ TakesHeader(t, r)
  /\ reads' = reads \cup {Read("body")}

\* postReadMessageHeader
HeaderRead(t, r) ==
  /\ TakesHeader(t, r)
  /\ reads' = (reads \ {r}) \cup {Read("body")}

\* postReadMessageHeader: the header announces an empty body, and nothing is
\* read any more.
EmptyHeaderRead(t, r) ==
  /\ TakesHeader(t, r)
  /\ reads' = reads \ {r}

\* Mutant: the message stays in the buffer, and the next header is read into it.
BodyReadInPlace(t, r) ==
  /\ Arrives(t, r, "body")
  /\ Passes(t, "idle", "received")
  /\ message' = [message EXCEPT ![t] = incoming]
  /\ handled' = Append(handled, incoming)
  /\ reads' = (reads \ {r}) \cup {Read("header")}
  /\ UNCHANGED <<sendingVars, sent, taken, incoming>>

\* postReadMessageBody, up to handleReceivedMessage().
BodyRead(t, r) ==
  /\ Arrives(t, r, "body")
  /\ Passes(t, "idle", "received")
  /\ message' = [message EXCEPT ![t] = incoming]
  /\ handled' = Append(handled, incoming)
  /\ incoming' = 0
  /\ reads' = reads \ {r}
  /\ UNCHANGED <<sendingVars, sent, taken>>

\* Both handlers, on an error: disconnect(), up to its last database command.
ReadFails(t, r) ==
  /\ IsFree(t)
  /\ r \in reads
  /\ Passes(t, "idle", "disconnecting")
  /\ reads' = reads \ {r}
  /\ UNCHANGED <<sendingVars, sent, taken, incoming, message, handled>>

\* The end of that disconnect().
Closes(t) ==
  /\ Passes(t, "disconnecting", "idle")
  /\ socket' = "closed"
  /\ UNCHANGED <<queue, sendingInProgress, writes, step, delivered,
                 sent, taken, incoming, reads, message, handled>>

\* handleReceivedMessage() has a reply, and calls sendMessage().
Replies(t) ==
  /\ Passes(t, "received", "replied")
  /\ Pushes(t, message[t])
  /\ UNCHANGED <<sent, taken, incoming, reads, message, handled>>

\* It has none: no client, no handler for the operation, or an exception.
SaysNothing(t) ==
  /\ Passes(t, "received", "replied")
  /\ UNCHANGED <<sendingVars, sent, taken, incoming, reads, message, handled>>

\* Mutant: the handler of a request does not go on with the next one.
ReadsNoMore(t) ==
  /\ step[t] = "free"
  /\ Passes(t, "replied", "idle")
  /\ message' = [message EXCEPT ![t] = 0]
  /\ UNCHANGED <<sendingVars, sent, taken, reads, handled, incoming>>

\* startReadingSequence(), after sendMessage() has returned.
ReadsOn(t) ==
  /\ step[t] = "free"
  /\ Passes(t, "replied", "idle")
  /\ message' = [message EXCEPT ![t] = 0]
  /\ incoming' = 0
  /\ reads' = reads \cup {Read("header")}
  /\ UNCHANGED <<sendingVars, sent, taken, handled>>
-----------------------------------------------------------------------------
\* After startReading().
TcpInit ==
  /\ SendingInit
  /\ sent = 0 /\ taken = 0
  /\ incoming = 0
  /\ reads = {Read("header")}
  /\ stage = [t \in Threads |-> "idle"]
  /\ message = [t \in Threads |-> 0]
  /\ handled = <<>>

HandlerStep(t) ==
  \/ ThreadStep(t) /\ UNCHANGED readingVars
  \/ Replies(t) \/ SaysNothing(t) \/ ReadsOn(t) \/ Closes(t)

ReadSucceeds(t, r) ==
  HeaderRead(t, r) \/ EmptyHeaderRead(t, r) \/ BodyRead(t, r)

\* A thread that is in a message handler, or in the disconnect() of a read,
\* runs no handler of a write.
WriteIsOver(t, w) == IsFree(t) /\ WriteEnds(t, w) /\ UNCHANGED readingVars

TcpNext ==
  /\ Defined
  /\ \/ Requests
     \/ \E t \in Threads :
          \/ HandlerStep(t)
          \/ \E r \in reads : ReadSucceeds(t, r) \/ ReadFails(t, r)
          \/ \E w \in writes : WriteIsOver(t, w)
     \/ IsDisconnected /\ UNCHANGED readingVars

TcpSpec == TcpInit /\ [][TcpNext]_tcpVars

\* A handler goes on; a peer that is there reads what is sent to it and sends
\* the rest of a request it has begun, so that a write ends, and a read if there
\* is something to read, and their handlers, first in first out, are run.
TcpFairness ==
  /\ \A t \in Threads : WF_tcpVars(Defined /\ HandlerStep(t))
  /\ SF_tcpVars(Defined /\ \E t \in Threads, w \in writes : WriteIsOver(t, w))
  /\ SF_tcpVars(Defined /\ \E t \in Threads, r \in reads : ReadSucceeds(t, r))

FairTcpSpec == TcpSpec /\ TcpFairness
-----------------------------------------------------------------------------
(* Properties.                                                             *)

Handles(t) == stage[t] \in {"received", "replied"}

\* A header was taken whose body nobody reads, and nobody is about to close the
\* connection for it.
IsDeaf ==
  taken > Len(handled) /\ reads = {} /\ \A t \in Threads : stage[t] = "idle"

AtMostOneReader ==
  /\ \A r \in reads : /\ reads = {r}
                      /\ \A t \in Threads : ~Handles(t)
                      /\ r.part = "body" => incoming = taken /\ taken > 0
  /\ \A t, u \in Threads : Handles(t) /\ Handles(u) => t = u
  /\ \A t \in Threads : step[t] \in SenderSteps => stage[t] = "replied"

AtLeastOneReader ==
  socket = "open" =>
    reads # {} \/ (\E t \in Threads : stage[t] # "idle") \/ IsDeaf

\* One read, or one message handler, at a time, on however many threads: the
\* buffer is not written while it is read, a message handler has the
\* connection to itself, and sendMessage() one caller (postReadMessageBody).
\* And one there always is, unless the connection is closed, or a thread is in
\* the disconnect() that will close it, or it was sent an empty header: no reply,
\* exception or write error makes it stop reading while its socket stays open.
OneReader == AtMostOneReader /\ AtLeastOneReader

Wire == INSTANCE OrderedChannel WITH
          queued <- [i \in 1..(sent - Len(handled)) |-> Len(handled) + i],
          delivered <- handled

\* The requests of a program are handled in the order it sends them, each at
\* most once, whichever threads read their parts.
RequestsInOrder == Wire!ChannelSpec

\* Replies arrive in the order of the requests they answer, none twice, with
\* requests and replies crossing on all threads: a program needs no number to
\* tell which request a reply is for.
AnswersInOrder ==
  /\ \A i, j \in 1..Len(delivered) : i < j => delivered[i] < delivered[j]
  /\ \A i, j \in 1..Len(queue) : i < j => queue[i] < queue[j]
  /\ \A i \in 1..Len(delivered), j \in 1..Len(queue) : delivered[i] < queue[j]

\* The connection is a client of the send path that keeps its one rule, a
\* single caller of sendMessage().
KeepsOneSender == SendingSpec

\* A message that is being written is delivered, or the socket is closed: no
\* handler of a write forgets to go on with the body.
StartedIsDelivered ==
  \A n \in 0..MaxRequests :
    (writes # {} /\ Len(delivered) = n)
      ~> (Len(delivered) > n \/ socket = "closed")

\* A request is handled, unless the connection is closed or an empty header
\* has ended its chain of reads: no path through a handler, reply or none,
\* forgets to read on, and sendMessage() lets it.
RequestsAreHandled ==
  \A n \in 1..MaxRequests :
    sent >= n ~> (Len(handled) >= n \/ socket = "closed" \/ IsDeaf \/ ~Defined)

\* "Check if there are more messages to send, if there are keep sending"
\* (Connection.hpp:117, 142): what is in the queue of an open connection is
\* sent.
QueueDrains ==
  (queue # <<>> /\ socket = "open") ~> (queue = <<>> \/ socket = "closed")
=============================================================================
