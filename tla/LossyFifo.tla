------------------------------ MODULE LossyFifo ------------------------------
(***************************************************************************)
(* What the outgoing and the incoming queue of message_transport promise,  *)
(* without threads, locks or connections: an ordered buffer of the newest  *)
(* accepted messages.  Messages are numbered in the order in which they    *)
(* are accepted.  The oldest one is given up when the buffer is over its   *)
(* capacity; one at a time is taken out, and it is then either delivered   *)
(* or lost.  Changing the capacity empties the buffer.                     *)
(*                                                                         *)
(* TransportClient and TransportServer implement this specification.       *)
(***************************************************************************)
EXTENDS Naturals, Sequences

CONSTANT Capacities           \* the capacities the buffer may be given

VARIABLES
    pending,                  \* accepted and not yet taken, oldest first
    transit,                  \* the message taken and not yet decided, or 0
    delivered,                \* what reached the other side, in order
    accepted,                 \* number of messages accepted so far
    capacity

vars == <<pending, transit, delivered, accepted, capacity>>

Init ==
    /\ pending = <<>>
    /\ transit = 0
    /\ delivered = <<>>
    /\ accepted = 0
    /\ capacity \in Capacities

\* A message is accepted only into a buffer that is not over its capacity.
Accept ==
    /\ Len(pending) <= capacity
    /\ accepted' = accepted + 1
    /\ pending' = Append(pending, accepted')
    /\ UNCHANGED <<transit, delivered, capacity>>

\* The only reason to give up a waiting message is a buffer over capacity,
\* and the one given up is the oldest.
DropOldest ==
    /\ Len(pending) > capacity
    /\ pending' = Tail(pending)
    /\ UNCHANGED <<transit, delivered, accepted, capacity>>

Take ==
    /\ transit = 0
    /\ pending # <<>>
    /\ transit' = Head(pending)
    /\ pending' = Tail(pending)
    /\ UNCHANGED <<delivered, accepted, capacity>>

Deliver ==
    /\ transit # 0
    /\ delivered' = Append(delivered, transit)
    /\ transit' = 0
    /\ UNCHANGED <<pending, accepted, capacity>>

Lose ==
    /\ transit # 0
    /\ transit' = 0
    /\ UNCHANGED <<pending, delivered, accepted, capacity>>

Resize ==
    /\ capacity' \in Capacities
    /\ pending' = <<>>
    /\ UNCHANGED <<transit, delivered, accepted>>

Next == Accept \/ DropOldest \/ Take \/ Deliver \/ Lose \/ Resize

Spec == Init /\ [][Next]_vars
=============================================================================
