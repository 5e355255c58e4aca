------------------------------ MODULE MCServer ------------------------------
(* Server for TLC.                                                         *)
EXTENDS Server

Limits == [rule \in Rules |-> IF rule = "admin" THEN 2 ELSE 1]

=============================================================================
