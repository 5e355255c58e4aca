----------------------------- MODULE MCUserCache -----------------------------
(* UserCache for TLC.  There is no symmetry: a liveness property is checked. *)
EXTENDS UserCache, TLC

CONSTANTS u1, u2, s1

\* A user and a newcomer; a deleted user whose slug another has taken.
Tables ==
    LET Has(status, slug) == [status |-> status, slug |-> slug, avatar |-> None] IN
    {u1 :> Has("active", s1) @@ u2 :> NoRow,
     u1 :> Has("deleted", s1) @@ u2 :> Has("active", s1)}

=============================================================================
