---------------------------- MODULE MCAlbumCache ----------------------------
(* AlbumCache for TLC: user u1 owns every album, u2 is another viewer.     *)
EXTENDS AlbumCache, TLC

CONSTANT u1
OneOwner == [a \in Albums |-> u1]

Symmetric == Permutations(Readers) \cup Permutations(Goroutines) \cup Permutations(Writers)
             \cup Permutations(Links) \cup Permutations(Slugs) \cup Permutations(Albums)

=============================================================================
