------------------------------ MODULE RateLimit ------------------------------
(***************************************************************************)
(* The rate limiter (internal/platform/ratelimit): one Redis counter per   *)
(* rule and caller, opened by the first request of a window and dropped by *)
(* its TTL.  The script runs atomically in Redis, so one call of Allow is  *)
(* one step; the clock that expires keys is that of Redis.                 *)
(***************************************************************************)
EXTENDS Naturals, Sequences

CONSTANTS
    Rules,          \* the keys of the rules: "auth", "get", ...
    Callers,        \* identifiers: a user id or r.RemoteAddr
    Limit,          \* Limit[rule]: requests admitted per window
    Window,         \* length of a window (one minute for every rule)
    MaxTime         \* bound of the clock

ASSUME LimitAssumption == Limit \in [Rules -> Nat \ {0}]
ASSUME WindowAssumption == Window \in Nat \ {0}
ASSUME MaxTimeAssumption == MaxTime \in Nat

VARIABLES
    now,
    count,          \* count[k]: value of the counter, 0 if there is none
    expires,        \* expires[k]: when Redis drops the counter
    admitted        \* history: admitted[k], the admissions of k in order

rvars == <<now, count, expires, admitted>>

Key == Rules \X Callers     \* rate_limit:<rule>:<identifier>

\* An admission: when, and when the window that counted it was opened.
Admission == [at : Nat, opened : Nat]

RTypeOK ==
    /\ now \in Nat
    /\ count \in [Key -> Nat]
    /\ expires \in [Key -> Nat]
    /\ admitted \in [Key -> Seq(Admission)]

RInit ==
    /\ now = 0
    /\ count = [k \in Key |-> 0]
    /\ expires = [k \in Key |-> 0]
    /\ admitted = [k \in Key |-> <<>>]

----------------------------------------------------------------------------
\* A plausible slip: PEXPIRE is not sent, and the counter stays for good.
CurrentKept(k) == count[k]

\* GET key: nothing once the TTL has run out.
Current(k) == IF count[k] > 0 /\ now < expires[k] THEN count[k] ELSE 0

\* A plausible slip: ">" instead of ">=" lets one request more into a window.
RefusesLate(k) == Current(k) > Limit[k[1]]

\* The script returns {0, 0, PTTL} and changes nothing.
Refuses(k) == Current(k) >= Limit[k[1]]

\* INCR, and PEXPIRE for the first request of a window.
Admit(k) ==
    LET end == IF Current(k) = 0 THEN now + Window ELSE expires[k] IN
    /\ ~Refuses(k)
    /\ count' = [count EXCEPT ![k] = Current(k) + 1]
    /\ expires' = [expires EXCEPT ![k] = end]
    /\ admitted' = [admitted EXCEPT ![k] = Append(@, [at |-> now, opened |-> end - Window])]
    /\ UNCHANGED now

RTick == now < MaxTime /\ now' = now + 1 /\ UNCHANGED <<count, expires, admitted>>

RNext == (\E k \in Key : Admit(k)) \/ RTick

RSpec == RInit /\ [][RNext]_rvars

----------------------------------------------------------------------------
\* A window is fixed, so bursts at the end of one and at the start of the next
\* add up, but never to more than twice the limit: of the admissions of a key,
\* one and the 2 * limit-th after it are further apart than a window.
AtMostTwiceTheLimit ==
    \A k \in Key : \A i \in DOMAIN admitted[k] :
       i + 2 * Limit[k[1]] \in DOMAIN admitted[k] =>
          admitted[k][i + 2 * Limit[k[1]]].at > admitted[k][i].at + Window

\* No key is refused for what was charged to others or long ago: when the script
\* refuses a key, the whole limit of that key was spent within the last window.
RefusedOnlyWhenSpent ==
    \A k \in Key : Refuses(k) =>
       LET n == Len(admitted[k]) IN
       /\ n >= Limit[k[1]]
       /\ now < admitted[k][n - Limit[k[1]] + 1].at + Window

=============================================================================
