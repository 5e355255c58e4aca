-------------------------- MODULE MCSessionClients --------------------------
(* SessionClients for TLC: two browsers of the same user.                  *)
EXTENDS SessionClients, TLC

CONSTANT u1
OneAccount == [b \in Browsers |-> u1]

Symmetric == Permutations(Hashes) \cup Permutations(Requests) \cup Permutations(Browsers)

=============================================================================
