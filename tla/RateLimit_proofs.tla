-------------------------- MODULE RateLimit_proofs --------------------------
(***************************************************************************)
(* Proofs about RateLimit, for any rules, callers, limits and window.      *)
(*                                                                         *)
(* Neither property of the limiter is inductive: what they need to know is *)
(* how the admissions of a key relate to the counter in Redis.  The last   *)
(* count[k] of them were counted in the window that ends at expires[k],    *)
(* all earlier ones in windows that had ended when that one was opened,    *)
(* and so two admissions that are Limit apart are in different windows.    *)
(***************************************************************************)
EXTENDS RateLimit, TLAPS

\* What holds of each admission alone: it lies in the window that counted it.
InItsWindow(k) ==
    \A i \in DOMAIN admitted[k] :
       /\ admitted[k][i].opened <= admitted[k][i].at
       /\ admitted[k][i].at < admitted[k][i].opened + Window
       /\ admitted[k][i].at <= now

\* What the counter and its expiry say about the admissions.
CounterAgrees(k) ==
    /\ count[k] <= Limit[k[1]]
    /\ count[k] <= Len(admitted[k])
    /\ count[k] = 0 => Len(admitted[k]) = 0
    /\ \A i \in DOMAIN admitted[k] :
          /\ i > Len(admitted[k]) - count[k] => admitted[k][i].opened + Window = expires[k]
          /\ i <= Len(admitted[k]) - count[k] => admitted[k][i].opened + Window + Window <= expires[k]

\* Admissions that are a limit apart were counted in different windows.
LimitApart(k) ==
    \A i, j \in DOMAIN admitted[k] :
       j = i + Limit[k[1]] => admitted[k][j].opened >= admitted[k][i].opened + Window

RIInv == RTypeOK /\ \A k \in Key : InItsWindow(k) /\ CounterAgrees(k) /\ LimitApart(k)

----------------------------------------------------------------------------
\* Every rule lets somebody in.
LEMMA LimitType == \A k \in Key : Limit[k[1]] \in Nat /\ Limit[k[1]] > 0
BY LimitAssumption DEF Key

\* What the type invariant says of one key.
LEMMA KeyTypes ==
    ASSUME RTypeOK, NEW k \in Key
    PROVE  /\ now \in Nat /\ count[k] \in Nat /\ expires[k] \in Nat
           /\ admitted[k] \in Seq(Admission)
           /\ Len(admitted[k]) \in Nat
           /\ DOMAIN admitted[k] = 1 .. Len(admitted[k])
           /\ \A i \in DOMAIN admitted[k] :
                 admitted[k][i].at \in Nat /\ admitted[k][i].opened \in Nat
<1>1. admitted[k] \in Seq(Admission)
  BY DEF RTypeOK
<1>2. Len(admitted[k]) \in Nat /\ DOMAIN admitted[k] = 1 .. Len(admitted[k])
  BY <1>1
<1>3. \A i \in DOMAIN admitted[k] : admitted[k][i] \in Admission
  BY <1>1, <1>2
<1>4. \A i \in DOMAIN admitted[k] : admitted[k][i].at \in Nat /\ admitted[k][i].opened \in Nat
  BY <1>3 DEF Admission
<1>. QED
  BY <1>1, <1>2, <1>4 DEF RTypeOK

\* The invariant holds before the first request.
LEMMA InitInvariant == RInit => RIInv
<1>. SUFFICES ASSUME RInit PROVE RIInv
  OBVIOUS
<1>1. RTypeOK
  BY DEF RInit, RTypeOK
<1>2. ASSUME NEW k \in Key PROVE InItsWindow(k) /\ CounterAgrees(k) /\ LimitApart(k)
  BY <1>2, LimitType DEF RInit, InItsWindow, CounterAgrees, LimitApart
<1>. QED
  BY <1>1, <1>2 DEF RIInv

\* Time passes and the keys stay as they are.
LEMMA TickInvariant == RIInv /\ RTick => RIInv'
<1>. SUFFICES ASSUME RIInv, RTick PROVE RIInv'
  OBVIOUS
<1>1. RTypeOK'
  BY DEF RIInv, RTypeOK, RTick
<1>2. ASSUME NEW k \in Key PROVE (InItsWindow(k) /\ CounterAgrees(k) /\ LimitApart(k))'
  <2>1. \A i \in DOMAIN admitted[k] : admitted[k][i].at \in Nat
    BY KeyTypes DEF RIInv
  <2>2. InItsWindow(k)'
    BY <2>1 DEF RIInv, RTypeOK, InItsWindow, RTick
  <2>. QED
    BY <2>2 DEF RIInv, CounterAgrees, LimitApart, RTick
<1>. QED
  BY <1>1, <1>2 DEF RIInv

\* An admission touches no other key.
LEMMA AdmitOthers ==
    ASSUME RIInv, NEW k \in Key, Admit(k), NEW j \in Key, j # k
    PROVE  (InItsWindow(j) /\ CounterAgrees(j) /\ LimitApart(j))'
<1>1. count'[j] = count[j] /\ expires'[j] = expires[j] /\ admitted'[j] = admitted[j] /\ now' = now
  BY DEF Admit, RIInv, RTypeOK
<1>. QED
  BY <1>1 DEF RIInv, InItsWindow, CounterAgrees, LimitApart

\* The admission that Admit(k) adds, by the window it is counted in: the one that
\* is open, or one that opens now because the last has ended.
LEMMA AdmitWindow ==
    ASSUME RIInv, NEW k \in Key, Admit(k)
    PROVE  \E opened \in Nat :
              /\ count'[k] \in Nat /\ count'[k] > 0 /\ count'[k] <= Limit[k[1]]
              /\ expires'[k] = opened + Window
              /\ opened <= now /\ now < opened + Window
              /\ admitted'[k] = Append(admitted[k], [at |-> now, opened |-> opened])
              /\ \/ /\ count'[k] = count[k] + 1
                    /\ expires'[k] = expires[k]
                 \/ /\ count'[k] = 1
                    /\ \A i \in DOMAIN admitted[k] : admitted[k][i].opened + Window <= opened
<1>. DEFINE s == admitted[k]
<1>1. /\ RTypeOK /\ InItsWindow(k) /\ CounterAgrees(k)
      /\ Limit[k[1]] \in Nat /\ Limit[k[1]] > 0
      /\ Window \in Nat /\ Window > 0
  BY LimitType, WindowAssumption DEF RIInv
<1>2. CASE Current(k) = 0
  <2>1. /\ count'[k] = 1 /\ expires'[k] = now + Window
        /\ admitted'[k] = Append(s, [at |-> now, opened |-> now])
    BY <1>1, <1>2, KeyTypes DEF Admit, RTypeOK
  <2>2. ASSUME NEW i \in DOMAIN s PROVE s[i].opened + Window <= now
    <3>1. count[k] > 0
      BY <1>1, KeyTypes DEF CounterAgrees
    <3>2. expires[k] <= now
      BY <1>1, <1>2, <3>1, KeyTypes DEF Current
    <3>3. i \in Nat /\ Len(s) \in Nat /\ count[k] \in Nat /\ expires[k] \in Nat /\ s[i].opened \in Nat
      BY <1>1, KeyTypes
    <3>4. \/ s[i].opened + Window = expires[k]
          \/ s[i].opened + Window + Window <= expires[k]
      BY <1>1, <3>3 DEF CounterAgrees
    <3>. QED
      BY <1>1, <3>2, <3>3, <3>4, KeyTypes
  <2>. QED
    BY <1>1, <2>1, <2>2, KeyTypes
<1>3. CASE Current(k) # 0
  <2>1. count[k] > 0 /\ now < expires[k] /\ Current(k) = count[k]
    BY <1>3 DEF Current
  <2>2. count[k] < Limit[k[1]]
    BY <1>1, <2>1, KeyTypes DEF Admit, Refuses
  <2>. DEFINE n == Len(s)
  <2>3. n \in DOMAIN s /\ s[n].opened + Window = expires[k]
    <3>1. n \in DOMAIN s /\ n \in Nat /\ count[k] \in Nat /\ n > n - count[k]
      BY <1>1, <2>1, KeyTypes DEF CounterAgrees
    <3>. QED
      BY <1>1, <3>1 DEF CounterAgrees
  <2>4. s[n].opened \in Nat /\ s[n].opened <= now /\ expires[k] - Window = s[n].opened
    BY <1>1, <2>3, KeyTypes DEF InItsWindow
  <2>5. /\ count'[k] = count[k] + 1 /\ expires'[k] = expires[k]
        /\ admitted'[k] = Append(s, [at |-> now, opened |-> s[n].opened])
    BY <1>1, <2>1, <2>4, KeyTypes DEF Admit, RTypeOK
  <2>6. /\ count'[k] \in Nat /\ count'[k] > 0 /\ count'[k] <= Limit[k[1]]
        /\ expires'[k] = s[n].opened + Window /\ now < s[n].opened + Window
    BY <1>1, <2>1, <2>2, <2>3, <2>5, KeyTypes
  <2>. QED
    BY <2>4, <2>5, <2>6
<1>. QED
  BY <1>2, <1>3

\* A key that admits keeps its part of the invariant.
LEMMA AdmitOwn ==
    ASSUME RIInv, NEW k \in Key, Admit(k)
    PROVE  (InItsWindow(k) /\ CounterAgrees(k) /\ LimitApart(k))'
<1>. DEFINE s == admitted[k]
            n == Len(s)
<1>1. PICK opened \in Nat :
         /\ count'[k] \in Nat /\ count'[k] > 0 /\ count'[k] <= Limit[k[1]]
         /\ expires'[k] = opened + Window
         /\ opened <= now /\ now < opened + Window
         /\ admitted'[k] = Append(s, [at |-> now, opened |-> opened])
         /\ \/ count'[k] = count[k] + 1 /\ expires'[k] = expires[k]
            \/ /\ count'[k] = 1
               /\ \A i \in DOMAIN s : s[i].opened + Window <= opened
  BY AdmitWindow
<1>2. /\ RTypeOK /\ InItsWindow(k) /\ CounterAgrees(k) /\ LimitApart(k)
      /\ Limit[k[1]] \in Nat /\ Limit[k[1]] > 0
      /\ Window \in Nat /\ Window > 0 /\ now' = now
  BY LimitType, WindowAssumption DEF RIInv, Admit
<1>3. /\ s \in Seq(Admission) /\ n \in Nat /\ DOMAIN s = 1 .. n
      /\ now \in Nat /\ count[k] \in Nat /\ expires[k] \in Nat
      /\ \A i \in 1 .. n : s[i].at \in Nat /\ s[i].opened \in Nat
  BY <1>2, KeyTypes
<1>. DEFINE a == [at |-> now, opened |-> opened]
            t == admitted'[k]
<1>4. /\ Len(t) = n + 1 /\ DOMAIN t = 1 .. n + 1 /\ t[n + 1] = a
      /\ \A i \in 1 .. n : t[i] = s[i]
  BY <1>1, <1>3 DEF Admission
<1>5. a.at = now /\ a.opened = opened
  OBVIOUS
<1>. HIDE DEF a
<1>6. InItsWindow(k)'
  BY <1>1, <1>2, <1>3, <1>4, <1>5 DEF InItsWindow
<1>. DEFINE L == Limit[k[1]]
            c == count[k]
            d == count'[k]
<1>7. /\ L \in Nat /\ c \in Nat /\ d \in Nat /\ L > 0 /\ d > 0 /\ d <= L /\ c <= n
      /\ n \in Nat /\ opened \in Nat /\ Window \in Nat /\ expires'[k] = opened + Window
  BY <1>1, <1>2, <1>3 DEF CounterAgrees
<1>8. ASSUME NEW i \in 1 .. n
      PROVE  /\ i > n + 1 - d => s[i].opened + Window = expires'[k]
             /\ i <= n + 1 - d => s[i].opened + Window + Window <= expires'[k]
  <2>1. s[i].opened \in Nat
    BY <1>3
  <2>2. CASE d = c + 1 /\ expires'[k] = expires[k]
    <3>1. /\ i > n - c => s[i].opened + Window = expires'[k]
          /\ i <= n - c => s[i].opened + Window + Window <= expires'[k]
      BY <1>2, <1>3, <2>2 DEF CounterAgrees
    <3>2. (i > n - c <=> i > n + 1 - d) /\ (i <= n - c <=> i <= n + 1 - d)
      BY <1>7, <2>2
    <3>. QED
      BY <3>1, <3>2
  <2>3. CASE d = 1 /\ \A h \in DOMAIN s : s[h].opened + Window <= opened
    <3>1. s[i].opened + Window <= opened
      BY <1>3, <2>3
    <3>2. i <= n + 1 - d
      BY <1>7, <2>3
    <3>3. s[i].opened + Window + Window <= expires'[k]
      BY <1>7, <2>1, <3>1
    <3>. QED
      BY <1>7, <3>2, <3>3
  <2>. QED
    BY <1>1, <2>2, <2>3
<1>9. CounterAgrees(k)'
  <2>1. d <= n + 1
    BY <1>1, <1>7
  <2>2. t[n + 1].opened + Window = expires'[k] /\ n + 1 > n + 1 - d
    BY <1>4, <1>5, <1>7
  <2>3. ASSUME NEW i \in 1 .. n + 1
        PROVE  /\ i > n + 1 - d => t[i].opened + Window = expires'[k]
               /\ i <= n + 1 - d => t[i].opened + Window + Window <= expires'[k]
    <3>1. CASE i = n + 1
      BY <1>7, <2>2, <3>1
    <3>2. CASE i # n + 1
      <4>1. i \in 1 .. n
        BY <1>7, <3>2
      <4>. QED
        BY <1>4, <1>8, <4>1
    <3>. QED
      BY <3>1, <3>2
  <2>4. d <= L /\ d <= Len(t) /\ (d = 0 => Len(t) = 0)
    BY <1>4, <1>7, <2>1
  <2>5. Len(t) = n + 1 /\ DOMAIN t = 1 .. n + 1
    BY <1>4
  <2>6. count'[k] = d /\ admitted'[k] = t /\ Limit[k[1]] = L
    OBVIOUS
  <2>7. ASSUME NEW i \in DOMAIN t
        PROVE  /\ i > Len(t) - d => t[i].opened + Window = expires'[k]
               /\ i <= Len(t) - d => t[i].opened + Window + Window <= expires'[k]
    <3>. HIDE DEF t, d, n
    <3>1. i \in 1 .. n + 1
      BY <2>5, <2>7
    <3>2. /\ i > n + 1 - d => t[i].opened + Window = expires'[k]
          /\ i <= n + 1 - d => t[i].opened + Window + Window <= expires'[k]
      BY <2>3, <3>1
    <3>. QED
      BY <1>7, <2>5, <3>1, <3>2
  <2>. HIDE DEF t, d, L, n
  <2>. QED
    BY <2>4, <2>6, <2>7, Zenon DEF CounterAgrees
<1>10. LimitApart(k)'
  <2>1. ASSUME NEW i \in 1 .. n + 1, NEW j \in 1 .. n + 1, j = i + L
        PROVE  t[j].opened >= t[i].opened + Window
    <3>1. i \in 1 .. n
      BY <1>7, <2>1
    <3>2. t[i] = s[i] /\ s[i].opened \in Nat
      BY <1>3, <1>4, <3>1
    <3>3. CASE j # n + 1
      <4>1. j \in 1 .. n
        BY <1>7, <3>3
      <4>. QED
        BY <1>2, <1>3, <1>4, <2>1, <3>1, <3>2, <4>1 DEF LimitApart
    <3>4. CASE j = n + 1
      <4>1. i <= n + 1 - d
        BY <1>7, <2>1, <3>4
      <4>2. s[i].opened + Window + Window <= opened + Window
        BY <1>7, <1>8, <3>1, <4>1
      <4>3. s[i].opened + Window <= opened
        BY <1>7, <3>2, <4>2
      <4>. QED
        BY <1>4, <1>5, <1>7, <3>2, <3>4, <4>3
    <3>. QED
      BY <3>3, <3>4
  <2>. QED
    BY <1>2, <1>4, <2>1 DEF LimitApart
<1>. QED
  BY <1>6, <1>9, <1>10

\* An admission counts in the open window or opens a new one.
LEMMA AdmitInvariant ==
    ASSUME RIInv, NEW k \in Key, Admit(k) PROVE RIInv'
<1>1. RTypeOK'
  <2>1. PICK opened \in Nat :
           /\ count'[k] \in Nat /\ expires'[k] = opened + Window
           /\ admitted'[k] = Append(admitted[k], [at |-> now, opened |-> opened])
    BY AdmitWindow
  <2>2. expires'[k] \in Nat /\ admitted'[k] \in Seq(Admission)
    BY <2>1, KeyTypes, WindowAssumption DEF RIInv, Admission
  <2>3. \A j \in Key \ {k} : count'[j] \in Nat /\ expires'[j] \in Nat /\ admitted'[j] \in Seq(Admission)
    BY DEF Admit, RIInv, RTypeOK
  <2>. QED
    BY <2>1, <2>2, <2>3 DEF Admit, RIInv, RTypeOK
<1>. QED
  BY <1>1, AdmitOwn, AdmitOthers DEF RIInv

----------------------------------------------------------------------------
\* However the requests of all callers and the clock interleave, the counter in
\* Redis and the admissions it stands for agree.
THEOREM RateInvariance == RSpec => []RIInv
<1>1. RIInv /\ [RNext]_rvars => RIInv'
  <2>. SUFFICES ASSUME RIInv, [RNext]_rvars PROVE RIInv'
    OBVIOUS
  <2>1. CASE \E k \in Key : Admit(k)
    BY <2>1, AdmitInvariant
  <2>2. CASE RTick
    BY <2>2, TickInvariant
  <2>3. CASE UNCHANGED rvars
    BY <2>3 DEF rvars, RIInv, RTypeOK, InItsWindow, CounterAgrees, LimitApart
  <2>. QED
    BY <2>1, <2>2, <2>3 DEF RNext
<1>. QED
  BY InitInvariant, <1>1, PTL DEF RSpec

\* Two windows side by side hold twice the limit, and no interval of the length
\* of a window holds more (the script of ratelimit.go).
THEOREM TwiceTheLimit == RSpec => []AtMostTwiceTheLimit
<1>1. RIInv => AtMostTwiceTheLimit
  <2>. SUFFICES ASSUME RIInv, NEW k \in Key, NEW i \in DOMAIN admitted[k],
                       i + 2 * Limit[k[1]] \in DOMAIN admitted[k]
                PROVE  admitted[k][i + 2 * Limit[k[1]]].at > admitted[k][i].at + Window
    BY DEF AtMostTwiceTheLimit
  <2>. DEFINE s == admitted[k]
              L == Limit[k[1]]
  <2>1. L \in Nat /\ L > 0 /\ Window \in Nat
    BY LimitType, WindowAssumption
  <2>2. InItsWindow(k) /\ LimitApart(k) /\ RTypeOK
    BY DEF RIInv
  <2>3. i \in Nat /\ i + L \in DOMAIN s /\ i + 2 * L = (i + L) + L
    BY <2>1, <2>2, KeyTypes
  <2>4. s[i + L].opened >= s[i].opened + Window
    BY <2>2, <2>3 DEF LimitApart
  <2>5. s[i + 2 * L].opened >= s[i + L].opened + Window
    BY <2>2, <2>3 DEF LimitApart
  <2>6. s[i].at < s[i].opened + Window /\ s[i + 2 * L].opened <= s[i + 2 * L].at
    BY <2>2 DEF InItsWindow
  <2>7. /\ s[i].at \in Nat /\ s[i].opened \in Nat /\ s[i + L].opened \in Nat
        /\ s[i + 2 * L].at \in Nat /\ s[i + 2 * L].opened \in Nat
    BY <2>2, <2>3, KeyTypes
  <2>. QED
    BY <2>1, <2>4, <2>5, <2>6, <2>7
<1>. QED
  BY <1>1, RateInvariance, PTL

\* A refusal is never due to other callers or to requests older than a window.
THEOREM RefusalIsEarned == RSpec => []RefusedOnlyWhenSpent
<1>1. RIInv => RefusedOnlyWhenSpent
  <2>. SUFFICES ASSUME RIInv, NEW k \in Key, Refuses(k)
                PROVE  /\ Len(admitted[k]) >= Limit[k[1]]
                       /\ now < admitted[k][Len(admitted[k]) - Limit[k[1]] + 1].at + Window
    BY DEF RefusedOnlyWhenSpent
  <2>. DEFINE s == admitted[k]
              n == Len(s)
              i == n - Limit[k[1]] + 1
  <2>1. /\ RTypeOK /\ InItsWindow(k) /\ CounterAgrees(k)
        /\ Limit[k[1]] \in Nat /\ Limit[k[1]] > 0 /\ Window \in Nat
    BY LimitType, WindowAssumption DEF RIInv
  <2>2. count[k] = Limit[k[1]] /\ now < expires[k]
    BY <2>1, KeyTypes DEF Refuses, Current, CounterAgrees
  <2>3. n >= Limit[k[1]] /\ i \in DOMAIN s /\ i > n - count[k]
    BY <2>1, <2>2, KeyTypes DEF CounterAgrees
  <2>4. ASSUME NEW j \in DOMAIN s, j > n - count[k]
        PROVE  now < s[j].at + Window
    <3>1. s[j].opened + Window = expires[k] /\ s[j].opened <= s[j].at
      BY <2>1, <2>4 DEF CounterAgrees, InItsWindow
    <3>2. s[j].at \in Nat /\ s[j].opened \in Nat /\ now \in Nat
      BY <2>1, KeyTypes
    <3>. QED
      BY <2>1, <2>2, <3>1, <3>2
  <2>. QED
    BY <2>3, <2>4
<1>. QED
  BY <1>1, RateInvariance, PTL

=============================================================================
