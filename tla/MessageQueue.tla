----------------------------- MODULE MessageQueue -----------------------------
(***************************************************************************)
(* What ty_queue_t promises its callers, with no memory, lock or thread in *)
(* it: a bounded FIFO channel shared by any number of threads.  Every      *)
(* message that is put is got exactly once, whole, and in the order of the *)
(* puts; a put happens only when the message and its header fit in what    *)
(* the unread messages leave of the ring.                                  *)
(***************************************************************************)
EXTENDS Integers, Sequences

CONSTANTS Messages,     \* the bodies that may be put
          Size,         \* words of the ring
          HeaderLen     \* words of a message header

VARIABLES sent,         \* every body put so far, in order
          received,     \* every body got so far, in order
          free          \* words of the ring no unread message occupies

vars == <<sent, received, free>>

Cost(body) == HeaderLen + Len(body)

Init == /\ sent = <<>>
        /\ received = <<>>
        /\ free = Size

Put == \E body \in Messages :
         /\ Cost(body) <= free
         /\ sent' = Append(sent, body)
         /\ free' = free - Cost(body)
         /\ UNCHANGED received

Get == /\ Len(received) < Len(sent)
       /\ LET body == sent[Len(received) + 1]
          IN  /\ received' = Append(received, body)
              /\ free' = free + Cost(body)
       /\ UNCHANGED sent

Next == Put \/ Get

Spec == Init /\ [][Next]_vars
=============================================================================
