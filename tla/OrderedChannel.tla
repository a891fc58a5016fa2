--------------------------- MODULE OrderedChannel ---------------------------
(***************************************************************************)
(* What one end of a connection may expect of the messages of the other:   *)
(* they arrive in the order they were handed over, each at most once.      *)
(* Nothing is said of when, nor that all of them arrive.                   *)
(***************************************************************************)
EXTENDS Sequences

CONSTANT Messages

VARIABLES queued,      \* accepted, not yet arrived
          delivered    \* arrived, oldest first

ChannelInit == queued = <<>> /\ delivered = <<>>

Queue(m) == /\ queued' = Append(queued, m)
            /\ UNCHANGED delivered

Deliver == /\ queued # <<>>
           /\ delivered' = Append(delivered, Head(queued))
           /\ queued' = Tail(queued)

ChannelNext == Deliver \/ \E m \in Messages : Queue(m)

ChannelSpec == ChannelInit /\ [][ChannelNext]_<<queued, delivered>>
=============================================================================
