--------------------------------- MODULE Deque ---------------------------------
(***************************************************************************)
(* What a list with an iterator promises: items in a sequence that grows   *)
(* and shrinks at either end and loses items in its midst, and an          *)
(* iteration that hands out, one by one, the items still due to it: those  *)
(* pushed ahead of it while it goes on too, and none that were taken out.  *)
(***************************************************************************)
EXTENDS SequencesExt

CONSTANTS Item, None

VARIABLES items,        \* the items, first to last
          due,          \* those the iteration has still to hand out, in order
          forwards,     \* whether it goes from the first to the last
          handed        \* the item it handed out last

Init == items = <<>> /\ due = <<>> /\ forwards = TRUE /\ handed = None

\* An iteration that still goes on reaches an item pushed where it goes to.
Reached(n, ahead) == IF ahead /\ due # <<>> THEN Append(due, n) ELSE due

PushBack(n)  == items' = Append(items, n) /\ due' = Reached(n, forwards)
PushFront(n) == items' = <<n>> \o items   /\ due' = Reached(n, ~forwards)

\* s without n, which is in it at most once.
Without(s, n) ==
    IF n \in Range(s) THEN RemoveAt(s, CHOOSE k \in DOMAIN s : s[k] = n) ELSE s

\* Any item but the next one due.
Take(n) == /\ due # <<>> => n # Head(due)
           /\ items' = Without(items, n)
           /\ due' = Without(due, n)

\* From one of the ends, or from the k-th item on.
Begin(k) == /\ forwards' \in BOOLEAN
            /\ due' = IF forwards' THEN SubSeq(items, k, Len(items))
                                   ELSE Reverse(SubSeq(items, 1, k))

HandOut == due # <<>> /\ handed' = Head(due) /\ due' = Tail(due)

\* Nothing is due, as in an iteration over no items.
BreakOff == due' = <<>> /\ forwards' \in BOOLEAN

Clear == items' = <<>> /\ due' = <<>>

Next == \/ /\ \/ \E n \in Item \ Range(items) : PushBack(n) \/ PushFront(n)
              \/ \E n \in Range(items) : Take(n)
              \/ Clear
           /\ UNCHANGED <<forwards, handed>>
        \/ /\ (\E k \in DOMAIN items : Begin(k)) \/ BreakOff
           /\ handed' = None /\ UNCHANGED items
        \/ HandOut /\ UNCHANGED <<items, forwards>>

Spec == Init /\ [][Next]_<<items, due, forwards, handed>>
=============================================================================
