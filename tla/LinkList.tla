------------------------------- MODULE LinkList -------------------------------
(***************************************************************************)
(* ty_list_t: nodes with links both ways, whose memory the client takes    *)
(* and gives back, and an iterator.  ty_list_remove leaves wrong links     *)
(* behind.  Spec has a client that calls whatever it likes; that of        *)
(* CarefulSpec knows which links are wrong, and makes no call that needs   *)
(* them.                                                                   *)
(***************************************************************************)
EXTENDS SequencesExt

CONSTANTS Nodes,        \* addresses of nodes
          Data,         \* what nodes can hold
          NULL

ASSUME LinkListAssumption == NULL \notin Nodes /\ IsFiniteSet(Nodes)

VARIABLES next, prev, data,     \* the fields of each node
          lst,                  \* [head, tail, length]
          allocated,            \* nodes the client has memory of
          iter,                 \* the client's iterator: [next, direction]
          returned,             \* what it returned last
          wild,                 \* a call went to NULL or to freed memory
          stale,                \* history: nodes whose link back remove left wrong
          lost                  \* history: whether it left the tail wrong

fields == <<next, prev, data, lst, allocated>>
repair == <<stale, lost>>
vars   == <<fields, iter, returned, wild, repair>>

\* ty_list_new
Empty == [head |-> NULL, tail |-> NULL, length |-> 0]

\* No iterator, which has as much to return as one at its end.
NoIter == [next |-> NULL, direction |-> "HEAD"]

Init == /\ next = [n \in Nodes |-> NULL] /\ prev = next /\ data = next
        /\ lst = Empty
        /\ allocated = {}
        /\ iter = NoIter /\ returned = NULL
        /\ wild = FALSE /\ stale = {} /\ lost = FALSE

\* The nodes from p along a link; one more than there are if it goes in a circle.
Follow(link, p) ==
    LET f[k \in 0 .. Cardinality(Nodes) + 1] ==
            IF k = 0 THEN [at |-> p, seen |-> <<>>]
            ELSE IF f[k - 1].at = NULL THEN f[k - 1]
            ELSE [at |-> link[f[k - 1].at], seen |-> Append(f[k - 1].seen, f[k - 1].at)]
    IN  f[Cardinality(Nodes) + 1].seen

Chain == Follow(next, lst.head)

\* Nodes of the client's that are in no list.
Loose == allocated \ Range(Chain)

\* A call that goes through the pointers ps; one that leads to no node of the
\* client's leaves nothing to say of the list.
Through(ps, Effect) ==
    IF ps \subseteq allocated THEN Effect /\ UNCHANGED wild
    ELSE wild' = TRUE /\ UNCHANGED <<fields, iter, returned, repair>>

-----------------------------------------------------------------------------
(* Memory: ty_list_node_new, and free, which leaves nothing to be read.    *)

NewNode(n, d) ==
    /\ n \notin allocated
    /\ allocated' = allocated \cup {n}
    /\ next' = [next EXCEPT ![n] = NULL]
    /\ prev' = [prev EXCEPT ![n] = NULL]
    /\ data' = [data EXCEPT ![n] = d]
    /\ UNCHANGED <<lst, iter, returned, wild, repair>>

FreeNode(n) == /\ n \in Loose
               /\ allocated' = allocated \ {n}
               /\ data' = [data EXCEPT ![n] = NULL]
               /\ UNCHANGED <<next, prev, lst, iter, returned, wild, repair>>

-----------------------------------------------------------------------------
(* The ends.  A list that gets empty has no wrong links left.              *)

RPush(n) ==
    /\ n \in Loose
    /\ Through(IF lst.length = 0 THEN {} ELSE {lst.tail},
          /\ lst' = [head |-> IF lst.length = 0 THEN n ELSE lst.head,
                     tail |-> n, length |-> lst.length + 1]
          /\ prev' = [prev EXCEPT ![n] = IF lst.length = 0 THEN NULL ELSE lst.tail]
          /\ next' = [m \in Nodes |-> IF m = n THEN NULL
                                      ELSE IF lst.length # 0 /\ m = lst.tail THEN n ELSE next[m]]
          /\ UNCHANGED <<data, allocated, iter, returned, repair>>)

\* The link back of the node that was the first is set, and right again.
LPush(n) ==
    /\ n \in Loose
    /\ Through(IF lst.length = 0 THEN {} ELSE {lst.head},
          /\ lst' = [tail |-> IF lst.length = 0 THEN n ELSE lst.tail,
                     head |-> n, length |-> lst.length + 1]
          /\ next' = [next EXCEPT ![n] = IF lst.length = 0 THEN NULL ELSE lst.head]
          /\ prev' = [m \in Nodes |-> IF m = n THEN NULL
                                      ELSE IF lst.length # 0 /\ m = lst.head THEN n ELSE prev[m]]
          /\ stale' = stale \ {lst.head}
          /\ UNCHANGED <<data, allocated, iter, returned, lost>>)

\* The node at an end, and the one its link leads to if there are more.
End(node, link) == {node} \cup {link[m] : m \in {node} \cap (IF lst.length = 1 THEN {} ELSE Nodes)}

RPop ==
    LET node == lst.tail
        last == prev[node]
    IN  /\ lst.length # 0
        /\ Through(End(node, prev),
              /\ IF lst.length = 1
                 THEN lst' = Empty /\ next' = [next EXCEPT ![node] = NULL]
                 ELSE /\ lst' = [lst EXCEPT !.tail = last, !.length = @ - 1]
                      /\ next' = [next EXCEPT ![last] = NULL, ![node] = NULL]
              /\ prev' = [prev EXCEPT ![node] = NULL]
              /\ stale' = stale \ {node}
              /\ lost' = (lost /\ lst.length # 1)
              /\ UNCHANGED <<data, allocated, iter, returned>>)

\* MUTANT of LPop: the second node keeps its link back to the first.
LPopLinked ==
    LET node == lst.head
    IN  /\ lst.length # 0
        /\ Through(End(node, next),
              /\ lst' = IF lst.length = 1
                        THEN Empty ELSE [lst EXCEPT !.head = next[node], !.length = @ - 1]
              /\ next' = [next EXCEPT ![node] = NULL]
              /\ stale' = stale \ {node, next[node]}
              /\ lost' = (lost /\ lst.length # 1)
              /\ UNCHANGED <<prev, data, allocated, iter, returned>>)

LPop ==
    LET node  == lst.head
        first == next[node]
    IN  /\ lst.length # 0
        /\ Through(End(node, next),
              /\ IF lst.length = 1
                 THEN lst' = Empty /\ prev' = [prev EXCEPT ![node] = NULL]
                 ELSE /\ lst' = [lst EXCEPT !.head = first, !.length = @ - 1]
                      /\ prev' = [prev EXCEPT ![first] = NULL, ![node] = NULL]
              /\ next' = [next EXCEPT ![node] = NULL]
              /\ stale' = stale \ {node, first}
              /\ lost' = (lost /\ lst.length # 1)
              /\ UNCHANGED <<data, allocated, iter, returned>>)

-----------------------------------------------------------------------------
(* ty_list_remove, as written: the node before becomes its own predecessor,*)
(* the one after keeps its link to freed memory, and the tail stays where  *)
(* it is or, if the node was the first, becomes NULL.                      *)

RemoveNode(n) ==
    LET before == prev[n]
    IN  /\ n \in Range(Chain)
        /\ Through({n, before} \ {NULL},
              /\ IF before # NULL
                 THEN /\ next' = [next EXCEPT ![before] = next[n], ![n] = NULL]
                      /\ prev' = [prev EXCEPT ![before] = before, ![n] = NULL]
                      /\ lst' = [lst EXCEPT !.length = @ - 1]
                 ELSE /\ next' = [next EXCEPT ![n] = NULL]
                      /\ lst' = [head |-> next[n], tail |-> NULL, length |-> lst.length - 1]
                      /\ UNCHANGED prev
              /\ allocated' = allocated \ {n}
              /\ data' = [data EXCEPT ![n] = NULL]
              /\ stale' = (stale \cup ({before, next[n]} \ {NULL})) \ {n}
              /\ lost' = (lst.length # 1 /\ (lost \/ NULL \in {before, next[n]}))
              /\ UNCHANGED <<iter, returned>>)

\* The nodes ty_list_del frees: it counts, and does not look for the last one's link.
Counted == [k \in 1 .. lst.length |-> IF k \in DOMAIN Chain THEN Chain[k] ELSE NULL]

\* ty_list_del, which finds a node it has freed to be so; and a new list.
Del == Through(Range(Counted) \cup (IF IsInjective(Counted) THEN {} ELSE {NULL}),
          /\ allocated' = allocated \ Range(Counted)
          /\ next' = [n \in Nodes |-> NULL] /\ prev' = next'
          /\ data' = [n \in Nodes |-> IF n \in allocated' THEN data[n] ELSE NULL]
          /\ lst' = Empty
          /\ stale' = {} /\ lost' = FALSE
          /\ UNCHANGED <<iter, returned>>)

-----------------------------------------------------------------------------
(* Iterators.                                                              *)

\* ty_list_iter_new_from_node
IterFrom(n, d) == [next |-> n, direction |-> d]

\* ty_list_iter_new
IterNew(d) == IterFrom(IF d = "HEAD" THEN lst.head ELSE lst.tail, d)

\* MUTANT of IterStep: the direction is not looked at.
IterStepForward(it) == IF it.next = NULL THEN it ELSE [it EXCEPT !.next = next[@]]

\* ty_list_iter_next, which returns it.next.
IterStep(it) ==
    IF it.next = NULL THEN it
    ELSE [it EXCEPT !.next = IF it.direction = "HEAD" THEN next[@] ELSE prev[@]]

Iterate(d) ==
    /\ iter = NoIter
    /\ iter' = IterNew(d) \/ \E n \in Range(Chain) : iter' = IterFrom(n, d)
    /\ returned' = NULL
    /\ UNCHANGED <<fields, wild, repair>>

IterNext ==
    /\ iter.next # NULL
    /\ Through({iter.next}, /\ iter' = IterStep(iter)
                           /\ returned' = iter.next
                           /\ UNCHANGED <<fields, repair>>)

IterDel == /\ iter # NoIter
           /\ iter' = NoIter
           /\ returned' = NULL
           /\ UNCHANGED <<fields, wild, repair>>

\* The iterator after k calls of ty_list_iter_next.
After(it, k) == LET f[j \in 0 .. k] == IF j = 0 THEN it ELSE IterStep(f[j - 1]) IN f[k]

\* ty_list_find: the first node the iterator returns that holds d.
Find(d) ==
    LET hit(k) == data[After(IterNew("HEAD"), k).next] = d
        hits   == {k \in 0 .. lst.length - 1 : hit(k)}
    IN  IF hits = {} THEN NULL
        ELSE After(IterNew("HEAD"), CHOOSE k \in hits : \A j \in hits : k <= j).next

\* ty_list_at; the complement of a negative index counts from the tail.
At(idx) ==
    LET d == IF idx < 0 THEN "TAIL" ELSE "HEAD"
        i == IF idx < 0 THEN -idx - 1 ELSE idx
    IN  IF i < lst.length THEN After(IterNew(d), i).next ELSE NULL

-----------------------------------------------------------------------------
(* The clients.                                                            *)

Next == /\ ~wild
        /\ \/ \E n \in Nodes, d \in Data : NewNode(n, d)
           \/ \E n \in Nodes : FreeNode(n) \/ RPush(n) \/ LPush(n) \/ RemoveNode(n)
           \/ RPop \/ LPop \/ Del
           \/ \E d \in {"HEAD", "TAIL"} : Iterate(d)
           \/ IterNext \/ IterDel

Spec == Init /\ [][Next]_vars

\* No link of the list is wrong.
Whole == stale = {} /\ ~lost

\* The careful client removes a node whose link back is right, and none while an
\* iterator goes backwards; works at the tail while that is right; goes
\* backwards in a list that is whole; and does not take out the node that its
\* iterator returns next.
CarefulNext ==
    \/ \E n \in Nodes, d \in Data : NewNode(n, d)
    \/ \E n \in Nodes : FreeNode(n) \/ LPush(n)
    \/ \E n \in Nodes : ~lost /\ RPush(n)
    \/ \E n \in Nodes \ (stale \cup {iter.next}) :
          (iter.next = NULL \/ iter.direction = "HEAD") /\ RemoveNode(n)
    \/ ~lost /\ lst.tail \notin stale \cup {iter.next} /\ RPop
    \/ lst.head # iter.next /\ LPop
    \/ iter = NoIter /\ Del
    \/ \E d \in IF Whole THEN {"HEAD", "TAIL"} ELSE {"HEAD"} : Iterate(d)
    \/ IterNext \/ IterDel

CarefulSpec == Init /\ [][CarefulNext]_vars

-----------------------------------------------------------------------------
(* Properties.                                                             *)

\* Links both ways: whatever was pushed, popped or removed, the links back lead
\* from the tail through the nodes that those forward lead to from the head.
\* (ty_linklist.h:23-35; ty_list_remove sees to neither)
LinkedBothWays == Follow(prev, lst.tail) = Reverse(Chain)

\* With a careful client, the links forward lead through exactly "length" nodes,
\* all of them the client's, those of a whole list back through the same ones,
\* and no call goes to NULL or to a node that is gone.
LinksMatch ==
    /\ ~wild
    /\ Len(Chain) = lst.length
    /\ IsInjective(Chain)
    /\ Range(Chain) \subseteq allocated
    /\ Whole => LinkedBothWays

\* ty_list_at counts from the head, and in a whole list from the tail, and
\* ty_list_find finds the first of equal ones.
LookupsAgree ==
    /\ \A i \in 0 .. lst.length : At(i) = IF i < lst.length THEN Chain[i + 1] ELSE NULL
    /\ Whole => \A i \in 0 .. lst.length :
                    At(-i - 1) = IF i < lst.length THEN Chain[lst.length - i] ELSE NULL
    /\ \A d \in Data :
          LET n == Find(d)
              k == CHOOSE k \in DOMAIN Chain : Chain[k] = n
          IN  IF n = NULL THEN \A j \in DOMAIN Chain : data[Chain[j]] # d
              ELSE data[n] = d /\ \A j \in 1 .. k - 1 : data[Chain[j]] # d

\* With a careful client, links and look-ups agree on one sequence.
ReadsAsSequence == LinksMatch /\ LookupsAgree

\* With a careful client the list is a sequence that grows and shrinks at its
\* ends and loses nodes in its midst, and an iterator returns each node ahead of
\* it once, the one it returned last being taken out or not.
Abstract == INSTANCE Deque WITH
               Item <- Nodes, items <- Chain,
               due <- Follow(IF iter.direction = "HEAD" THEN next ELSE prev, iter.next),
               forwards <- (iter.direction = "HEAD"),
               handed <- returned, None <- NULL
ImplementsDeque == Abstract!Spec
=============================================================================
