---------------------------- MODULE MCAlbumLists ----------------------------
(* AlbumLists for TLC: user u1 owns every album, u2 is another viewer.     *)
EXTENDS AlbumLists

CONSTANT u1
OneOwner == [a \in Albums |-> u1]

Symmetric == Permutations(Goroutines) \cup Permutations(Links) \cup Permutations(Slugs)

=============================================================================
