----------------------- MODULE MCBackgroundSerializer -----------------------
(* Instances of BackgroundSerializer for TLC.                               *)
EXTENDS BackgroundSerializer

CONSTANTS c1, c2, k1, k2

OneClient  == {c1}
TwoClients == {c1, c2}
OneKey     == {k1}
TwoKeys    == {k1, k2}

Queueing     == {"enqueue", "try_enqueue", "wait_for_idle", "clear"}
Blocking     == {"enqueue", "try_enqueue", "wait_for_idle", "set_capacity", "set_num_threads"}
Resizing     == {"enqueue", "try_enqueue", "wait_for_idle", "clear", "set_num_threads"}
Owning       == Resizing \cup {"destroy"}
Destroying   == {"enqueue", "destroy"}
=============================================================================
