------------------------------ MODULE ThreadQueue ------------------------------
(***************************************************************************)
(* ty_queue_t: a blocking message queue over one ring of memory that is    *)
(* mapped twice in a row, so that a message may run past the end of the    *)
(* first mapping without being split.                                      *)
(*                                                                         *)
(* All shared state is read and written under q->lock, so a critical       *)
(* section -- from acquiring the lock, at the call or on being woken, to   *)
(* releasing it in unlock or in cond_wait -- is one action.  The unit of   *)
(* memory is the machine word: a header is two words, and a body is a      *)
(* sequence of words.                                                      *)
(***************************************************************************)
EXTENDS Integers, Sequences, FiniteSets

CONSTANTS Producers, Consumers,   \* the threads
          Size,                   \* words of the ring (q->size)
          Bodies,                 \* Bodies[p]: what producer p puts
          Limits,                 \* Limits[c]: the "max" consumer c gets with
          Calls,                  \* Calls[t]: how many calls thread t makes
          Spurious                \* may cond_wait return unsignalled?

Threads == Producers \cup Consumers
Messages == UNION {Bodies[p] : p \in Producers}

ASSUME ThreadsAssumption == Producers \cap Consumers = {}
ASSUME SizeAssumption    == Size \in Nat \ {0}
ASSUME BodiesAssumption  == /\ Bodies \in [Producers -> SUBSET Seq(Nat)]
                            /\ \A p \in Producers : Bodies[p] # {}
ASSUME LimitsAssumption  == /\ Limits \in [Consumers -> SUBSET Nat]
                            /\ \A c \in Consumers : Limits[c] # {}
ASSUME CallsAssumption   == Calls \in [Threads -> Nat]
ASSUME SpuriousAssumption == Spurious \in BOOLEAN

VARIABLES
    \* ty_queue_t
    mem,            \* the words of the memory file
    head, tail,     \* where the next get reads, where the next put writes
    headSeq,        \* head_sequence
    tailSeq,        \* tail_sequence
    freed,          \* ty_queue_free has returned
    \* the threads
    pc,             \* where a thread is in ty_queue_put or ty_queue_get
    calls,          \* calls a thread has still to make
    body,           \* the argument of a producer's put
    limit,          \* the argument "max" of a consumer's get
    mseq,           \* m.seq of a consumer that found its message too long
    \* history, read by no action
    sent, received, \* the bodies put and got, in order
    at,             \* at[k]: where the k-th message was put, counting resets
    base            \* words that the resets of head and tail took away

queue   == <<mem, head, tail, headSeq, tailSeq>>
locals  == <<body, limit, mseq>>
history == <<sent, received, at, base>>
vars    == <<queue, freed, pc, calls, locals, history>>

-----------------------------------------------------------------------------
(* The ring.                                                               *)

\* sizeof(ty_message_t), in words: len and seq.
HeaderLen == 2

\* The words a message takes up in the ring.
Extent(len) == len + HeaderLen

\* The word of memory behind an address of the two mappings.
Phys(a) == IF a < Size THEN a ELSE a - Size

\* A header and the body after it, as the two memcpy of put lay them out.
Encode(b, seq) == <<Len(b), seq>> \o b

Used == tail - head

\* MUTANT of Store: the second mapping is not a mirror of the first.
StoreUnmirrored(start, words) ==
    [a \in 0 .. Size - 1 |->
        IF a \in start .. start + Len(words) - 1 THEN words[a - start + 1] ELSE mem[a]]

\* Memory after the words are copied to the addresses from "start" on.
Store(start, words) ==
    [a \in 0 .. Size - 1 |->
        IF a \in start .. start + Len(words) - 1
        THEN words[a - start + 1]
        ELSE IF a + Size \in start .. start + Len(words) - 1
        THEN words[a + Size - start + 1]
        ELSE mem[a]]

\* MUTANTS of HeaderLength: the fields swapped; the length of all the message.
HeaderLengthSwapped == mem[Phys(head + 1)]
HeaderLengthOfAll   == mem[Phys(head)] + HeaderLen

\* The header at head, and the body after it.
HeaderLength == mem[Phys(head)]
HeaderSeq    == mem[Phys(head + 1)]
ReadBody     == [i \in 1 .. HeaderLength |-> mem[Phys(head + HeaderLen + i - 1)]]

-----------------------------------------------------------------------------
(* The condition variables.  A waiter that is woken, by a signal or        *)
(* spuriously, has to take the lock again and evaluate its loop condition. *)

\* MUTANT of WaitingReadable: only a put that finds the queue empty signals.
WaitingReadableIfEmpty == {c \in Consumers : Used = 0 /\ pc[c] = "waitReadable"}

WaitingReadable  == {c \in Consumers : pc[c] = "waitReadable"}
WaitingWriteable == {t \in Threads : pc[t] \in {"waitWriteable", "waitSkip"}}

Woken(state) == IF state = "waitSkip" THEN "recheck" ELSE "lock"

\* Thread t returns from its call, having signalled one of the waiters.
ReturnSignalling(t, waiters) ==
    \/ /\ waiters = {}
       /\ pc' = [pc EXCEPT ![t] = "idle"]
    \/ \E w \in waiters : pc' = [pc EXCEPT ![t] = "idle", ![w] = Woken(pc[w])]

-----------------------------------------------------------------------------
(* ty_queue_put                                                            *)

CallPut(p) ==
    /\ pc[p] = "idle" /\ calls[p] > 0
    /\ \E b \in Bodies[p] : body' = [body EXCEPT ![p] = b]
    /\ calls' = [calls EXCEPT ![p] = @ - 1]
    /\ pc' = [pc EXCEPT ![p] = "lock"]
    /\ UNCHANGED <<queue, freed, limit, mseq, history>>

\* MUTANTS of Fits: the header forgotten; a full ring never allowed.
FitsBodyAlone(b) == Len(b) <= Size - Used
FitsWithRoom(b)  == Extent(Len(b)) < Size - Used

Fits(b) == Extent(Len(b)) <= Size - Used

PutWaits(p) ==
    /\ pc[p] = "lock"
    /\ ~Fits(body[p])
    /\ pc' = [pc EXCEPT ![p] = "waitWriteable"]
    /\ UNCHANGED <<queue, freed, calls, locals, history>>

Put(p) ==
    /\ pc[p] = "lock"
    /\ Fits(body[p])
    /\ mem' = Store(tail, Encode(body[p], tailSeq))
    /\ tailSeq' = tailSeq + 1
    /\ tail' = tail + Extent(Len(body[p]))
    /\ ReturnSignalling(p, WaitingReadable)
    /\ sent' = Append(sent, body[p])
    /\ at' = Append(at, base + tail)
    /\ UNCHANGED <<head, headSeq, freed, calls, locals, received, base>>

-----------------------------------------------------------------------------
(* ty_queue_get                                                            *)

CallGet(c) ==
    /\ pc[c] = "idle" /\ calls[c] > 0
    /\ \E n \in Limits[c] : limit' = [limit EXCEPT ![c] = n]
    /\ calls' = [calls EXCEPT ![c] = @ - 1]
    /\ pc' = [pc EXCEPT ![c] = "lock"]
    /\ UNCHANGED <<queue, freed, body, mseq, history>>

\* c holds the lock at the top of the for loop: on entry, woken from the
\* wait for a message, or woken to find the message it skipped consumed.
AtLoop(c) == \/ pc[c] = "lock"
             \/ pc[c] = "recheck" /\ headSeq # mseq[c]

GetWaits(c) ==
    /\ AtLoop(c)
    /\ Used = 0
    /\ pc' = [pc EXCEPT ![c] = "waitReadable"]
    /\ UNCHANGED <<queue, freed, calls, locals, history>>

\* The message at the head does not fit in the caller's buffer.  Were its
\* number not head_sequence, the loop would come round at once.
GetSkips(c) ==
    /\ AtLoop(c)
    /\ Used # 0
    /\ HeaderLength > limit[c]
    /\ mseq' = [mseq EXCEPT ![c] = HeaderSeq]
    /\ pc' = [pc EXCEPT ![c] = IF headSeq = HeaderSeq THEN "waitSkip" ELSE "lock"]
    /\ UNCHANGED <<queue, freed, calls, body, limit, history>>

\* Woken, but the message it skipped is still at the head.
SkipWaits(c) ==
    /\ pc[c] = "recheck"
    /\ headSeq = mseq[c]
    /\ pc' = [pc EXCEPT ![c] = "waitSkip"]
    /\ UNCHANGED <<queue, freed, calls, locals, history>>

\* MUTANT of Reset: head is left at the end of the first mapping.
ResetLate(newHead) == IF newHead > Size THEN Size ELSE 0

\* How far head and tail are moved back once head is past the first mapping.
Reset(newHead) == IF newHead >= Size THEN Size ELSE 0

Get(c) ==
    /\ AtLoop(c)
    /\ Used # 0
    /\ HeaderLength <= limit[c]
    /\ LET newHead == head + Extent(HeaderLength)
       IN  /\ head' = newHead - Reset(newHead)
           /\ tail' = tail - Reset(newHead)
           /\ base' = base + Reset(newHead)
    /\ headSeq' = headSeq + 1
    /\ received' = Append(received, ReadBody)
    /\ ReturnSignalling(c, WaitingWriteable)
    /\ UNCHANGED <<mem, tailSeq, freed, calls, locals, sent, at>>

-----------------------------------------------------------------------------
(* pthread_cond_wait may return though nobody signalled.                   *)

SpuriousWakeup(t) ==
    /\ Spurious
    /\ t \in WaitingReadable \cup WaitingWriteable
    /\ pc' = [pc EXCEPT ![t] = Woken(pc[t])]
    /\ UNCHANGED <<queue, freed, calls, locals, history>>

\* The thread that made the queue frees it once it has joined the others.
Joined(t) == pc[t] = "idle" /\ calls[t] = 0

Free ==
    /\ ~freed
    /\ \A t \in Threads : Joined(t)
    /\ freed' = TRUE
    /\ UNCHANGED <<queue, pc, calls, locals, history>>

Finished == freed /\ UNCHANGED vars

-----------------------------------------------------------------------------
\* ty_queue_init, and threads that have not called yet.
Init ==
    /\ mem = [a \in 0 .. Size - 1 |-> 0]
    /\ head = 0 /\ tail = 0
    /\ headSeq = 0 /\ tailSeq = 0
    /\ freed = FALSE
    /\ pc = [t \in Threads |-> "idle"]
    /\ calls = Calls
    /\ body = [p \in Producers |-> <<>>]
    /\ limit = [c \in Consumers |-> 0]
    /\ mseq = [c \in Consumers |-> 0]
    /\ sent = <<>> /\ received = <<>>
    /\ at = <<>> /\ base = 0

ProducerStep(p) == CallPut(p) \/ PutWaits(p) \/ Put(p)

ConsumerStep(c) == CallGet(c) \/ GetWaits(c) \/ GetSkips(c) \/ SkipWaits(c) \/ Get(c)

Next == \/ \E p \in Producers : ProducerStep(p)
        \/ \E c \in Consumers : ConsumerStep(c)
        \/ \E t \in Threads : SpuriousWakeup(t)
        \/ Free
        \/ Finished

Spec == Init /\ [][Next]_vars

\* A thread that can run is run, and gets the lock it asks for; a signal may
\* wake any waiter, and nothing obliges cond_wait to return without one.
Fairness == /\ \A p \in Producers : WF_vars(ProducerStep(p))
            /\ \A c \in Consumers : WF_vars(ConsumerStep(c))
            /\ WF_vars(Free)

FairSpec == Spec /\ Fairness

-----------------------------------------------------------------------------
(* Properties.                                                             *)

States == {"idle", "lock", "recheck", "waitReadable", "waitWriteable", "waitSkip"}

\* Every field has its type, head stays in the first mapping and the unread
\* words, head to tail, never exceed the ring (ty_queue_put's wait for space
\* and ty_queue_get's reset keep it so together).
TypeOK ==
    /\ mem \in [0 .. Size - 1 -> Nat]
    /\ head \in 0 .. Size - 1
    /\ tail \in head .. head + Size
    /\ headSeq \in Nat /\ tailSeq \in Nat
    /\ freed \in BOOLEAN
    /\ pc \in [Threads -> States]
    /\ calls \in [Threads -> Nat]
    /\ body \in [Producers -> Seq(Nat)]
    /\ limit \in [Consumers -> Nat]
    /\ mseq \in [Consumers -> Nat]
    /\ sent \in Seq(Seq(Nat)) /\ received \in Seq(Seq(Nat))
    /\ at \in Seq(Nat) /\ base \in Nat

Unread == headSeq + 1 .. tailSeq

Start(k) == at[k] - base
End(k)   == Start(k) + Extent(Len(sent[k]))

\* The unread messages tile the ring from head to tail in the order they were
\* put, none over another, through every wrap-around and reset.
UnreadTileRing ==
    /\ Len(at) = Len(sent)
    /\ Unread = {} => head = tail
    /\ Unread # {} => /\ Start(headSeq + 1) = head
                      /\ End(tailSeq) = tail
    /\ \A k \in Unread : k + 1 \in Unread => Start(k + 1) = End(k)
    /\ \A j, k \in Unread : j < k => End(j) <= Start(k)

\* A message put and not yet got is in memory as it was written: no later put
\* writes over a word of it, on either side of the end of the first mapping.
UnreadIntact ==
    \A k \in Unread :
        LET words == Encode(sent[k], k - 1)
        IN  \A i \in 1 .. Len(words) : mem[Phys(Start(k) + i - 1)] = words[i]

\* What the gets return, read from memory, is what the puts were given: every
\* message once, whole, in order; and the two sequence numbers count them.
DeliveredInOrder ==
    /\ headSeq = Len(received) /\ tailSeq = Len(sent)
    /\ headSeq <= tailSeq
    /\ \A k \in 1 .. Len(received) : received[k] = sent[k]

\* A consumer waits for a skipped message under the number of a message that
\* was really put, no later than the one at the head, and too long for it.
SkipsAreJustified ==
    \A c \in Consumers :
        pc[c] \in {"waitSkip", "recheck"} =>
            /\ mseq[c] <= headSeq /\ mseq[c] < tailSeq
            /\ Len(sent[mseq[c] + 1]) > limit[c]

\* While a consumer sleeps on "readable", each unread message has a consumer
\* on its way to the lock for it: put signals once for every message, also
\* for one that finds the queue non-empty.  (Where no message is too long.)
WakeupsCoverUnread ==
    (\E c \in Consumers : pc[c] = "waitReadable") =>
        Cardinality({c \in Consumers : pc[c] = "lock"}) >= tailSeq - headSeq

\* The queue implements the abstract bounded FIFO channel.
Abstract == INSTANCE MessageQueue WITH free <- Size - Used
ImplementsMessageQueue == Abstract!Spec

\* Every put and every get returns, and the queue is freed.
AllCallsReturn == <>freed

SomeoneElseCanGet(c) ==
    \E d \in Consumers \ {c} : pc[d] = "waitReadable" /\ limit[d] >= HeaderLength

\* "Message too long, wait for someone else to consume it": when another
\* consumer that the message fits is waiting for a message, it is consumed.
SomeoneElseConsumes ==
    \A c \in Consumers :
        (pc[c] = "waitSkip" /\ headSeq = mseq[c] /\ SomeoneElseCanGet(c))
            ~> (pc[c] # "waitSkip" \/ headSeq # mseq[c])
=============================================================================
