-------------------------- MODULE SessionLifecycle --------------------------
(***************************************************************************)
(* What the session store promises, with requests, transactions, locks and *)
(* clocks left out.  A session (a "refresh token family") is named by the  *)
(* token its login minted.  live[f] is the set of tokens that can be       *)
(* exchanged for the next token of session f.                              *)
(*                                                                         *)
(* A session is opened once, each rotation replaces the one live token by  *)
(* one new token, and once no token of it is live it never comes back.     *)
(***************************************************************************)
EXTENDS Naturals

CONSTANT Hashes     \* token hashes

VARIABLES live,     \* [Hashes -> SUBSET Hashes]
          used      \* hashes that were minted

lvars == <<live, used>>

LTypeOK == live \in [Hashes -> SUBSET Hashes] /\ used \in SUBSET Hashes

LInit == live = [f \in Hashes |-> {}] /\ used = {}

\* A login: a fresh token starts a session of its own.
Open(f) ==
    /\ f \notin used
    /\ used' = used \cup {f}
    /\ live' = [live EXCEPT ![f] = {f}]

\* A refresh: the live token is exchanged for a fresh one, in one step.
Rotate(f, n) ==
    /\ live[f] # {}
    /\ n \notin used
    /\ used' = used \cup {n}
    /\ live' = [live EXCEPT ![f] = {n}]

\* A logout, a revocation, a user deletion, reuse detection or the cleanup.
Close(F) ==
    /\ live' = [f \in Hashes |-> IF f \in F THEN {} ELSE live[f]]
    /\ UNCHANGED used

LNext ==
    \/ \E f \in Hashes : Open(f)
    \/ \E f, n \in Hashes : Rotate(f, n)
    \/ \E F \in SUBSET Hashes : Close(F)

LSpec == LInit /\ [][LNext]_lvars

----------------------------------------------------------------------------
\* At most one token of a session can be exchanged at any time.
OneLiveToken == \A f \in Hashes : \A h, k \in live[f] : h = k

\* A session that was opened and has no live token never gets one again.
EndedForever ==
    [][\A f \in Hashes : f \in used /\ live[f] = {} => live'[f] = {}]_lvars

=============================================================================
