---------------------------- MODULE MCSyncStats ----------------------------
(* SyncStats for TLC: stored tasks as <<content, modified>>.               *)
EXTENDS SyncStats, TLC

\* Some values differ in `modified` only.
MCValues == {<<1, 1>>, <<1, 2>>, <<2, 1>>}

Symmetry == Permutations(Devices) \cup Permutations(Keys)
=============================================================================
