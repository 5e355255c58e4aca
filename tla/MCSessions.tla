----------------------------- MODULE MCSessions -----------------------------
(* Sessions for TLC: the symmetric sets of its safety runs.                *)
EXTENDS Sessions, TLC

Symmetric == Permutations(Hashes) \cup Permutations(Requests)

=============================================================================
