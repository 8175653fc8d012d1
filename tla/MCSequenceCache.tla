-------------------------- MODULE MCSequenceCache --------------------------
(* Instances of SequenceCache for TLC: all values have the size 1.          *)
EXTENDS SequenceCache, TLC

CONSTANTS v1, v2, p1

TwoValues == {v1, v2}
OnePath   == {p1}
SizeOne   == [v \in Values |-> 1]
ValueSymmetry == Permutations(TwoValues)

\* Bound: a second worker only with a queue for two items, and a memory cache for two frames
\* only with a second worker.
SmallTogether == /\ queueCapacity = 1 => numThreads = 1
                 /\ numThreads = 1 => cacheCapacity = 1
=============================================================================
