----------------------------- MODULE WriteBehind -----------------------------
(***************************************************************************)
(* What a queue of background_serializer (frantic/files/                    *)
(* background_serializer.hpp) promises about each target: reads see the     *)
(* newest value accepted, and the target goes through ever newer values     *)
(* none of which was invented.  Values are the ranks of their acceptance.   *)
(***************************************************************************)
EXTENDS Integers

CONSTANT Keys

VARIABLES
  accepted, \* the newest value accepted so far
  latest,   \* latest[k]: what a reader of k finds, queued or written; 0 for nothing
  disk      \* disk[k]: what the target k holds; 0 for nothing

vars == <<accepted, latest, disk>>

Init ==
  /\ accepted = 0
  /\ latest = [k \in Keys |-> 0]
  /\ disk = [k \in Keys |-> 0]

\* A value is accepted for k, and is what readers of k find from now on.
Accept(k) ==
  /\ accepted' = accepted + 1
  /\ latest' = [latest EXCEPT ![k] = accepted']
  /\ UNCHANGED disk

\* The target k moves on to a newer accepted value.
Write(k) ==
  /\ disk'[k] > disk[k] /\ disk'[k] <= latest[k]
  /\ disk' = [disk EXCEPT ![k] = disk'[k]]
  /\ UNCHANGED <<accepted, latest>>

\* Accepted values of k are given up before they are written.
GiveUp(k) ==
  /\ latest'[k] < latest[k] /\ latest'[k] >= disk[k]
  /\ latest' = [latest EXCEPT ![k] = latest'[k]]
  /\ UNCHANGED <<accepted, disk>>

Next == \E k \in Keys : Accept(k) \/ Write(k) \/ GiveUp(k)

Spec == Init /\ [][Next]_vars
=============================================================================
