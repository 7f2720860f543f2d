------------------------------- MODULE Mailbox -------------------------------
(***************************************************************************)
(* What a RadioNoise mailbox promises (src/index/radio_noise.hpp): a       *)
(* bounded first-in first-out queue.  A send waits while it is full, a     *)
(* receive waits while it is empty, and a receive gets the oldest message. *)
(***************************************************************************)
EXTENDS Naturals, Sequences

CONSTANTS Capacity, Messages
VARIABLES queue,    \* the messages that were sent and not yet received
          last      \* the message that was received last

Init == queue = <<>> /\ last \in Messages

Send(m) ==
    /\ Len(queue) < Capacity
    /\ queue' = Append(queue, m)
    /\ UNCHANGED last

Receive ==
    /\ queue # <<>>
    /\ last' = Head(queue)
    /\ queue' = Tail(queue)

Next == Receive \/ \E m \in Messages : Send(m)

Spec == Init /\ [][Next]_<<queue, last>>
===============================================================================
