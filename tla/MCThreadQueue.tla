----------------------------- MODULE MCThreadQueue -----------------------------
(***************************************************************************)
(* Instances of ThreadQueue for TLC.  The words of a body are not numbers  *)
(* a header of the same run holds, so that a header read as a body, or the *)
(* reverse, shows.                                                         *)
(***************************************************************************)
EXTENDS ThreadQueue

OneProducer  == {"p1"}
TwoProducers == {"p1", "p2"}
OneConsumer  == {"c1"}
TwoConsumers == {"c1", "c2"}
ThreeConsumers == {"c1", "c2", "c3"}

\* Producers of messages of different lengths, the empty one among them, and
\* consumers that any message fits.
MixedBodies == [p \in TwoProducers |->
                  IF p = "p1" THEN {<<>>, <<21>>} ELSE {<<22, 23>>, <<24, 25, 26, 27>>}]
LargeLimits == [c \in ThreeConsumers |-> {4}]
MixedCalls  == [t \in TwoProducers \cup ThreeConsumers |->
                  IF t = "p1" THEN 3 ELSE IF t = "c3" THEN 1 ELSE 2]

SafetyCalls == [t \in TwoProducers \cup TwoConsumers |-> IF t \in TwoProducers THEN 3 ELSE 2]

\* Consumers that not every message fits.
SmallLimits == [c \in TwoConsumers |-> IF c = "c1" THEN {0, 1} ELSE {1, 4}]

\* A message too long for one of two consumers that ask for one.
SkipBodies == [p \in {"p1"} |-> {<<31>>, <<32, 33>>}]
SkipLimits == [c \in TwoConsumers |-> IF c = "c1" THEN {1} ELSE {2}]
SkipCalls  == [t \in {"p1"} \cup TwoConsumers |-> IF t = "p1" THEN 3 ELSE 2]
=============================================================================
