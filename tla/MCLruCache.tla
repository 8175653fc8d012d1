----------------------------- MODULE MCLruCache -----------------------------
(* Instances of LruCache for TLC: values are their own sizes.               *)
EXTENDS LruCache

CONSTANTS k1, k2, k3, k4

FourKeys  == {k1, k2, k3, k4}
Positive  == {1, 2}
OwnSize   == [v \in Values |-> v]
=============================================================================
