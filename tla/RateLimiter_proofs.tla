-------------------------- MODULE RateLimiter_proofs --------------------------
(***************************************************************************)
(* Proofs about RateLimiter, for any number of goroutines, counters and    *)
(* windows, any limits and any Kept.                                       *)
(*                                                                         *)
(* OvershootIsBounded is not inductive: that a request opens a window      *)
(* again says nothing of how often others did before.  What is inductive   *)
(* is a kind of credit.  Allowance(c), the limit for each late request, is *)
(* what a window may have admitted beyond its present count.  A window     *)
(* that is newer than the stored one is either so old that the next        *)
(* request for it is late, or has used up no more than the allowance.      *)
(***************************************************************************)
EXTENDS RateLimiter, TLAPS

Span == 0 .. MaxWindow

(* What late requests allow a window of c beyond its limit.                *)
Allowance(c) == Limit[c] * late[c]

(* The clean-up may have forgotten window v: whoever comes for it is late. *)
Stale(v) == \E d \in Counters : \E n \in Seen(d) : n > v + Kept

(* The credit of one counter.                                              *)
Credit(c) ==
    /\ \A v \in Span : admitted[c][v] <= Limit[c] + Allowance(c)
    /\ windows[c].start >= 0 =>
          /\ windows[c].count >= 1
          /\ admitted[c][windows[c].start] >= windows[c].count
          /\ admitted[c][windows[c].start] <= windows[c].count + Allowance(c)
    /\ \A v \in Span : v > windows[c].start =>
          Stale(v) \/ admitted[c][v] <= Allowance(c)

LInv ==
    /\ TypeOK
    /\ \A w \in Workers :
          at[w] \in {"app_locking", "user_locking"} => Limit[CounterOf(w)] > 0
    /\ \A c \in Counters : windows[c].start < 0 => windows[c] = NoWindow
    /\ \A c \in Counters : Credit(c)

Window == [start : -1 .. MaxWindow, count : Nat]

(* Products of natural numbers, for the allowance.                         *)
LEMMA Products ==
    ASSUME NEW x \in Nat, NEW y \in Nat
    PROVE  /\ x * y \in Nat
           /\ x * (y + 1) = x * y + x
           /\ x * (1 + y) = x + x * y
           /\ x * 0 = 0
BY SMT

(* The counter a goroutine is at is one of the limiter's, with a limit     *)
(* that is a natural number.                                               *)
LEMMA AtCounter ==
    ASSUME NEW w \in Workers
    PROVE  /\ CounterOf(w) \in Counters
           /\ Limit[CounterOf(w)] \in Nat
BY RateLimiterAssumption DEF CounterOf

(* Only requests that passed count, and no window forgets any: what is     *)
(* stale stays so.                                                         *)
LEMMA StaleStays ==
    ASSUME NEW c \in Counters, NEW v \in Span, TypeOK,
           admitted' = [admitted EXCEPT ![c][v] = admitted[c][v] + 1]
    PROVE  /\ \A d \in Counters : Seen(d) \subseteq Seen(d)'
           /\ v \in Seen(c)'
           /\ \A u \in Span : Stale(u) => Stale(u)'
           /\ \A d \in Counters \ {c}, u \in Span : admitted'[d][u] = admitted[d][u]
           /\ \A u \in Span \ {v} : admitted'[c][u] = admitted[c][u]
           /\ admitted'[c][v] = admitted[c][v] + 1
<1>1. admitted \in [Counters -> [Span -> Nat]]
  BY DEF TypeOK, Span
<1>2. /\ \A d \in Counters \ {c}, u \in Span : admitted'[d][u] = admitted[d][u]
      /\ \A u \in Span \ {v} : admitted'[c][u] = admitted[c][u]
      /\ admitted'[c][v] = admitted[c][v] + 1
  BY <1>1
<1>3. \A d \in Counters, u \in Span : admitted'[d][u] >= admitted[d][u]
  BY <1>1, <1>2
<1>4. \A d \in Counters : Seen(d) \subseteq Seen(d)'
  BY <1>1, <1>2, <1>3 DEF Seen, Span
<1>5. v \in Seen(c)'
  <2>1. admitted[c][v] \in Nat
    BY <1>1
  <2>2. QED
    BY <1>2, <2>1 DEF Seen, Span
<1>6. \A u \in Span : Stale(u) => Stale(u)'
  BY <1>4 DEF Stale
<1>7. QED
  BY <1>2, <1>4, <1>5, <1>6
(* What Admit does to the history of counter c, at window v.               *)
LEMMA AdmitEffect ==
    ASSUME TypeOK, NEW w \in Workers, Admit(w),
           at[w] \in {"app_locking", "user_locking"}
    PROVE  LET c == CounterOf(w)
               v == windowStart[w]
           IN  /\ c \in Counters /\ v \in Span
               /\ admitted' = [admitted EXCEPT ![c][v] = admitted[c][v] + 1]
               /\ late'[c] = late[c] + IF TooLate(c, v) THEN 1 ELSE 0
               /\ \A d \in Counters \ {c} : late'[d] = late[d]
               /\ UNCHANGED <<clock, windowStart>>
               /\ at' \in [Workers -> {"app", "app_locking", "user", "user_locking"}]
               /\ admitted' \in [Counters -> [Span -> Nat]]
               /\ late' \in [Counters -> Nat]
<1> DEFINE c == CounterOf(w)
           v == windowStart[w]
<1>1. c \in Counters /\ v \in Span
  BY AtCounter DEF TypeOK, Span
<1> HIDE DEF c, v
<1>2. /\ admitted' = [admitted EXCEPT ![c][v] = admitted[c][v] + 1]
      /\ late' = [late EXCEPT ![c] = late[c] + IF TooLate(c, v) THEN 1 ELSE 0]
      /\ at' = [at EXCEPT ![w] = After(w, TRUE)]
      /\ UNCHANGED <<clock, windowStart>>
  BY DEF Admit, c, v
<1>3. admitted' \in [Counters -> [Span -> Nat]]
  <2>1. admitted \in [Counters -> [Span -> Nat]]
    BY DEF TypeOK, Span
  <2>2. admitted[c][v] + 1 \in Nat
    BY <1>1, <2>1
  <2>3. QED
    BY <1>1, <1>2, <2>1, <2>2
<1>4. late' \in [Counters -> Nat]
  BY <1>1, <1>2 DEF TypeOK
<1>5. /\ late'[c] = late[c] + IF TooLate(c, v) THEN 1 ELSE 0
      /\ \A d \in Counters \ {c} : late'[d] = late[d]
  BY <1>1, <1>2 DEF TypeOK
<1>6. at' \in [Workers -> {"app", "app_locking", "user", "user_locking"}]
  BY <1>2 DEF After, TypeOK
<1>7. QED
  BY <1>1, <1>2, <1>3, <1>4, <1>5, <1>6 DEF c, v

(* The allowance never shrinks, and grows by a limit for a late request.   *)
LEMMA AllowanceGrows ==
    ASSUME TypeOK, NEW c \in Counters, NEW n \in {0, 1}, late'[c] = late[c] + n
    PROVE  /\ Limit[c] \in Nat /\ Allowance(c) \in Nat /\ Allowance(c)' \in Nat
           /\ n = 0 => Allowance(c)' = Allowance(c)
           /\ n = 1 => Allowance(c)' = Allowance(c) + Limit[c]
<1> DEFINE l == late[c]
           m == late'[c]
           x == Limit[c]
<1>1. l \in Nat /\ x \in Nat /\ m = l + n
  BY RateLimiterAssumption DEF TypeOK
<1>2. Allowance(c) = x * l /\ Allowance(c)' = x * m
  BY DEF Allowance
<1> HIDE DEF l, m, x
<1>3. x * l \in Nat /\ x * (l + 1) = x * l + x
  BY <1>1, Products
<1>4. CASE n = 0
  <2>1. m = l
    BY <1>1, <1>4
  <2>2. QED
    BY <1>1, <1>2, <1>3, <1>4, <2>1 DEF x
<1>5. CASE n = 1
  <2>1. m = l + 1
    BY <1>1, <1>5
  <2>2. QED
    BY <1>1, <1>2, <1>3, <1>5, <2>1 DEF x
<1>6. QED
  BY <1>4, <1>5

(* The credit of a counter that is only looked at: by the clean-up, which  *)
(* drops its window if that is stale.                                      *)
LEMMA OthersKeepCredit ==
    ASSUME NEW d \in Counters, TypeOK, TypeOK', Credit(d),
           windows[d].start < 0 => windows[d] = NoWindow,
           late'[d] = late[d],
           \A u \in Span : admitted'[d][u] = admitted[d][u],
           \A u \in Span : Stale(u) => Stale(u)',
           \/ windows'[d] = windows[d]
           \/ /\ windows'[d] = NoWindow
              /\ \A u \in Span : u <= windows[d].start => Stale(u)'
    PROVE  Credit(d)'
<1>1. Allowance(d)' = Allowance(d)
  BY DEF Allowance
<1>2. \A v \in Span : admitted'[d][v] <= Limit[d] + Allowance(d)'
  BY <1>1 DEF Credit
<1>3. windows[d].start \in -1 .. MaxWindow /\ MaxWindow \in Nat
  BY RateLimiterAssumption DEF TypeOK
<1>4. CASE windows'[d] = windows[d]
  <2>1. windows[d].start >= 0 => windows[d].start \in Span
    BY <1>3 DEF Span
  <2>2. QED
    BY <1>1, <1>2, <1>4, <2>1 DEF Credit
<1>5. CASE /\ windows'[d] = NoWindow
           /\ \A u \in Span : u <= windows[d].start => Stale(u)'
  <2>1. windows'[d].start = -1
    BY <1>5 DEF NoWindow
  <2>2. \A v \in Span : Stale(v)' \/ admitted'[d][v] <= Allowance(d)'
    <3>1. \A v \in Span : v <= windows[d].start \/ v > windows[d].start
      BY <1>3 DEF Span
    <3>2. QED
      BY <1>1, <1>5, <3>1 DEF Credit
  <2>3. QED
    BY <1>2, <2>1, <2>2 DEF Credit
<1>6. QED
  BY <1>4, <1>5

-----------------------------------------------------------------------------
(* A request that finds its window keeps the invariant.                    *)
LEMMA CountKeeps ==
    ASSUME LInv, NEW w \in Workers, CountRequest(w)
    PROVE  TypeOK' /\ \A d \in Counters : /\ windows'[d].start < 0 => windows'[d] = NoWindow
                                          /\ Credit(d)'
<1>1. TypeOK /\ at[w] \in {"app_locking", "user_locking"} /\ Admit(w)
  BY DEF LInv, CountRequest
<1>c. PICK c \in Counters : c = CounterOf(w)
  BY AtCounter
<1>v. PICK v \in Span : v = windowStart[w]
  BY <1>1 DEF TypeOK, Span
<1>2. /\ c \in Counters /\ v \in Span
      /\ admitted' = [admitted EXCEPT ![c][v] = admitted[c][v] + 1]
      /\ late'[c] = late[c] + IF TooLate(c, v) THEN 1 ELSE 0
      /\ \A d \in Counters \ {c} : late'[d] = late[d]
      /\ UNCHANGED <<clock, windowStart>>
      /\ at' \in [Workers -> {"app", "app_locking", "user", "user_locking"}]
      /\ admitted' \in [Counters -> [Span -> Nat]]
      /\ late' \in [Counters -> Nat]
  BY <1>1, <1>c, <1>v, AdmitEffect
<1>3. /\ windows[c].start = v /\ windows[c].count < Limit[c]
      /\ windows' = [windows EXCEPT ![c].count = windows[c].count + 1]
  BY <1>c, <1>v DEF CountRequest
<1>4. /\ \A u \in Span : Stale(u) => Stale(u)'
      /\ \A d \in Counters \ {c}, u \in Span : admitted'[d][u] = admitted[d][u]
      /\ \A u \in Span \ {v} : admitted'[c][u] = admitted[c][u]
      /\ admitted'[c][v] = admitted[c][v] + 1
  BY <1>1, <1>2, StaleStays
<1>5. windows \in [Counters -> Window] /\ \A d \in Counters : windows[d].count <= Limit[d]
  BY <1>1 DEF TypeOK, Window
<1>6. /\ windows' \in [Counters -> Window]
      /\ \A d \in Counters \ {c} : windows'[d] = windows[d]
      /\ windows'[c].start = v /\ windows'[c].count = windows[c].count + 1
  BY <1>2, <1>3, <1>5 DEF Window
<1>7. TypeOK'
  <2>1. \A d \in Counters : windows'[d].count <= Limit[d]
    <3>1. Limit[c] \in Nat /\ windows[c].count \in Nat
      BY <1>2, <1>5, RateLimiterAssumption DEF Window
    <3>2. QED
      BY <1>3, <1>5, <1>6, <3>1
  <2>2. QED
    BY <1>1, <1>2, <1>6, <2>1 DEF TypeOK, Window, Span
<1>8. ASSUME NEW d \in Counters \ {c}
      PROVE  Credit(d)' /\ (windows'[d].start < 0 => windows'[d] = NoWindow)
  BY <1>1, <1>2, <1>4, <1>6, <1>7, OthersKeepCredit DEF LInv
<1>9. Credit(c)'
  <2>1. PICK n \in {0, 1} : late'[c] = late[c] + n
    BY <1>2
  <2>2. /\ Limit[c] \in Nat /\ Allowance(c) \in Nat /\ Allowance(c)' \in Nat
        /\ Allowance(c)' >= Allowance(c)
    <3>1. /\ Limit[c] \in Nat /\ Allowance(c) \in Nat /\ Allowance(c)' \in Nat
          /\ n = 0 => Allowance(c)' = Allowance(c)
          /\ n = 1 => Allowance(c)' = Allowance(c) + Limit[c]
      BY <1>1, <1>2, <2>1, AllowanceGrows
    <3>2. QED
      BY <3>1
  <2>3. /\ \A u \in Span : admitted[c][u] \in Nat
        /\ v >= 0 /\ windows[c].count \in Nat
    BY <1>1, <1>2, <1>5 DEF TypeOK, Window, Span
  <2>4. /\ \A u \in Span : admitted[c][u] <= Limit[c] + Allowance(c)
        /\ windows[c].count >= 1
        /\ admitted[c][v] >= windows[c].count
        /\ admitted[c][v] <= windows[c].count + Allowance(c)
        /\ \A u \in Span : u > v => Stale(u) \/ admitted[c][u] <= Allowance(c)
    BY <1>2, <1>3, <2>3 DEF LInv, Credit
  <2>5. \A u \in Span : admitted'[c][u] <= Limit[c] + Allowance(c)'
    BY <1>2, <1>3, <1>4, <2>2, <2>3, <2>4
  <2>6. /\ windows'[c].count >= 1
        /\ admitted'[c][v] >= windows'[c].count
        /\ admitted'[c][v] <= windows'[c].count + Allowance(c)'
    BY <1>2, <1>4, <1>6, <2>2, <2>3, <2>4
  <2>7. \A u \in Span : u > v => Stale(u)' \/ admitted'[c][u] <= Allowance(c)'
    <3> SUFFICES ASSUME NEW u \in Span, u > v
                 PROVE  Stale(u)' \/ admitted'[c][u] <= Allowance(c)'
      OBVIOUS
    <3>1. u # v
      BY <1>2 DEF Span
    <3>2. admitted'[c][u] = admitted[c][u] /\ admitted[c][u] \in Nat
      BY <1>4, <2>3, <3>1
    <3>3. QED
      BY <1>4, <2>2, <2>4, <3>2
  <2>8. QED
    BY <1>6, <2>5, <2>6, <2>7 DEF Credit
<1>10. windows'[c].start >= 0
  BY <1>2, <1>6 DEF Span
<1>11. windows'[c].start < 0 => windows'[c] = NoWindow
  BY <1>2, <1>6, <1>10 DEF Span
<1>12. QED
  BY <1>2, <1>7, <1>8, <1>9, <1>11

(* A request that opens a window keeps the invariant: if it is in time,    *)
(* its window is newer than the stored one and not stale, and has used no  *)
(* more than the allowance; if it is late, the allowance grows.            *)
LEMMA OpenKeeps ==
    ASSUME LInv, NEW w \in Workers, OpenWindow(w)
    PROVE  TypeOK' /\ \A d \in Counters : /\ windows'[d].start < 0 => windows'[d] = NoWindow
                                          /\ Credit(d)'
<1>1. TypeOK /\ at[w] \in {"app_locking", "user_locking"} /\ Admit(w)
  BY DEF LInv, OpenWindow
<1>c. PICK c \in Counters : c = CounterOf(w)
  BY AtCounter
<1>v. PICK v \in Span : v = windowStart[w]
  BY <1>1 DEF TypeOK, Span
<1> DEFINE opened == [windows EXCEPT ![c] = [start |-> v, count |-> 1]]
<1>2. /\ c \in Counters /\ v \in Span
      /\ admitted' = [admitted EXCEPT ![c][v] = admitted[c][v] + 1]
      /\ late'[c] = late[c] + IF TooLate(c, v) THEN 1 ELSE 0
      /\ \A d \in Counters \ {c} : late'[d] = late[d]
      /\ UNCHANGED <<clock, windowStart>>
      /\ at' \in [Workers -> {"app", "app_locking", "user", "user_locking"}]
      /\ admitted' \in [Counters -> [Span -> Nat]]
      /\ late' \in [Counters -> Nat]
  BY <1>1, <1>c, <1>v, AdmitEffect
<1>3. windows[c].start # v /\ windows' = cleanupLocked(opened, v)
  BY <1>c, <1>v DEF OpenWindow
<1>L. Limit[c] \in Nat /\ Limit[c] >= 1
  <2>1. Limit[c] > 0
    BY <1>1, <1>c DEF LInv
  <2>2. Limit[c] \in Nat
    BY <1>2, RateLimiterAssumption
  <2>3. QED
    BY <2>1, <2>2
<1>4. /\ \A d \in Counters : Seen(d) \subseteq Seen(d)'
      /\ v \in Seen(c)'
      /\ \A u \in Span : Stale(u) => Stale(u)'
      /\ \A d \in Counters \ {c}, u \in Span : admitted'[d][u] = admitted[d][u]
      /\ \A u \in Span \ {v} : admitted'[c][u] = admitted[c][u]
      /\ admitted'[c][v] = admitted[c][v] + 1
  BY <1>1, <1>2, StaleStays
<1>5. windows \in [Counters -> Window] /\ \A d \in Counters : windows[d].count <= Limit[d]
  BY <1>1 DEF TypeOK, Window
<1>6. v \in Nat /\ Kept \in Nat /\ MaxWindow \in Nat /\ v <= MaxWindow
  BY <1>2, RateLimiterAssumption DEF Span
<1>7. windows'[c] = [start |-> v, count |-> 1]
  <2>1. opened[c] = [start |-> v, count |-> 1]
    BY <1>2, <1>5
  <2>2. ~ (v < v - Kept)
    BY <1>6
  <2>3. QED
    BY <1>2, <1>3, <2>1, <2>2 DEF cleanupLocked
<1>8. \A d \in Counters \ {c} :
         windows'[d] = IF windows[d].start < v - Kept THEN NoWindow ELSE windows[d]
  BY <1>3, <1>5 DEF cleanupLocked
<1>9. windows' \in [Counters -> Window]
  <2>1. [start |-> v, count |-> 1] \in Window /\ NoWindow \in Window
    BY <1>6 DEF Window, NoWindow
  <2>2. \A d \in Counters : windows'[d] \in Window
    BY <1>5, <1>7, <1>8, <2>1
  <2>3. \E f : windows' = [d \in Counters |-> f[d]]
    <3>1. windows' = [d \in Counters |-> (cleanupLocked(opened, v))[d]]
      BY <1>3 DEF cleanupLocked
    <3>2. QED
      BY <3>1
  <2>4. QED
    BY <2>2, <2>3
<1>10. TypeOK'
  <2>1. \A d \in Counters : windows'[d].count <= Limit[d]
    <3>1. \A d \in Counters : NoWindow.count <= Limit[d]
      BY RateLimiterAssumption DEF NoWindow
    <3>2. windows'[c].count = 1
      BY <1>7
    <3>3. QED
      BY <1>5, <1>8, <1>L, <3>1, <3>2
  <2>2. QED
    BY <1>1, <1>2, <1>9, <2>1 DEF TypeOK, Window, Span
<1>11. ASSUME NEW d \in Counters \ {c}
       PROVE  Credit(d)' /\ (windows'[d].start < 0 => windows'[d] = NoWindow)
  <2>1. CASE windows[d].start < v - Kept
    <3>1. windows'[d] = NoWindow
      BY <1>8, <2>1
    <3>2. \A u \in Span : u <= windows[d].start => Stale(u)'
      <4> SUFFICES ASSUME NEW u \in Span, u <= windows[d].start
                   PROVE  Stale(u)'
        OBVIOUS
      <4>1. v > u + Kept
        <5>1. windows[d].start \in Int /\ u \in Int
          BY <1>5, <1>6 DEF Window, Span
        <5>2. QED
          BY <1>6, <2>1, <5>1
      <4>2. QED
        BY <1>2, <1>4, <4>1 DEF Stale
    <3>3. QED
      BY <1>1, <1>2, <1>4, <1>10, <3>1, <3>2, OthersKeepCredit DEF LInv
  <2>2. CASE ~ (windows[d].start < v - Kept)
    <3>1. windows'[d] = windows[d]
      BY <1>8, <2>2
    <3>2. QED
      BY <1>1, <1>2, <1>4, <1>10, <3>1, OthersKeepCredit DEF LInv
  <2>3. QED
    BY <2>1, <2>2
<1>12. Credit(c)'
  <2> DEFINE n == IF TooLate(c, v) THEN 1 ELSE 0
  <2>1. n \in {0, 1} /\ late'[c] = late[c] + n
    BY <1>2
  <2>2. /\ Allowance(c) \in Nat /\ Allowance(c)' \in Nat
        /\ n = 0 => Allowance(c)' = Allowance(c)
        /\ n = 1 => Allowance(c)' = Allowance(c) + Limit[c]
    <3> HIDE DEF n
    <3>1. QED
      BY <1>1, <1>2, <2>1, AllowanceGrows
  <2>3. \A u \in Span : admitted[c][u] \in Nat /\ admitted[c][u] <= Limit[c] + Allowance(c)
    BY <1>1, <1>2 DEF TypeOK, Span, LInv, Credit
  <2>4. windows'[c].start = v /\ windows'[c].count = 1
    BY <1>7
  <2>5. CASE TooLate(c, v)
    <3>1. Allowance(c)' = Allowance(c) + Limit[c]
      BY <2>2, <2>5
    <3>2. \A u \in Span : admitted'[c][u] <= Limit[c] + Allowance(c)'
      BY <1>2, <1>4, <1>L, <2>2, <2>3, <3>1
    <3>3. admitted'[c][v] >= 1 /\ admitted'[c][v] <= 1 + Allowance(c)'
      BY <1>2, <1>4, <1>L, <2>2, <2>3, <3>1
    <3>4. \A u \in Span : u > v => admitted'[c][u] <= Allowance(c)'
      <4> SUFFICES ASSUME NEW u \in Span, u > v
                   PROVE  admitted'[c][u] <= Allowance(c)'
        OBVIOUS
      <4>1. u # v
        BY <1>6
      <4>2. admitted'[c][u] = admitted[c][u]
        BY <1>4, <4>1
      <4>3. QED
        BY <1>L, <2>2, <2>3, <3>1, <4>2
    <3>5. QED
      BY <2>4, <3>2, <3>3, <3>4 DEF Credit
  <2>6. CASE ~ TooLate(c, v)
    <3>1. Allowance(c)' = Allowance(c)
      BY <2>2, <2>6
    <3>2. ~ Stale(v) /\ \A m \in Seen(c) : ~ (m > v)
      BY <1>2, <2>6 DEF TooLate, Stale
    <3>3. windows[c].start < v
      <4>1. windows[c].start \in -1 .. MaxWindow /\ windows[c].count \in Nat
        BY <1>2, <1>5 DEF Window
      <4>2. CASE windows[c].start < 0
        BY <1>6, <4>1, <4>2
      <4>3. CASE windows[c].start >= 0
        <5>1. windows[c].start \in Span
          BY <1>6, <4>1, <4>3 DEF Span
        <5>2. admitted[c][windows[c].start] > 0
          <6>1. admitted[c][windows[c].start] \in Nat
            BY <2>3, <5>1
          <6>2. QED
            BY <1>2, <4>1, <4>3, <6>1 DEF LInv, Credit
        <5>3. windows[c].start \in Seen(c)
          BY <5>1, <5>2 DEF Seen, Span
        <5>4. QED
          BY <1>3, <1>6, <3>2, <4>1, <5>3
      <4>4. QED
        BY <1>6, <4>1, <4>2, <4>3
    <3>4. admitted[c][v] <= Allowance(c)
      BY <1>2, <3>2, <3>3 DEF LInv, Credit
    <3>5. \A u \in Span : admitted'[c][u] <= Limit[c] + Allowance(c)'
      BY <1>2, <1>4, <1>L, <2>2, <2>3, <3>1, <3>4
    <3>6. admitted'[c][v] >= 1 /\ admitted'[c][v] <= 1 + Allowance(c)'
      BY <1>2, <1>4, <2>2, <2>3, <3>1, <3>4
    <3>7. \A u \in Span : u > v => admitted'[c][u] <= Allowance(c)'
      <4> SUFFICES ASSUME NEW u \in Span, u > v
                   PROVE  admitted'[c][u] <= Allowance(c)'
        OBVIOUS
      <4>1. u # v
        BY <1>6
      <4>2. admitted'[c][u] = admitted[c][u] /\ admitted[c][u] \in Nat
        BY <1>4, <2>3, <4>1
      <4>3. ~ (admitted[c][u] > 0)
        BY <3>2 DEF Seen, Span
      <4>4. QED
        BY <2>2, <4>2, <4>3
    <3>8. QED
      BY <2>4, <3>5, <3>6, <3>7 DEF Credit
  <2>7. QED
    BY <2>5, <2>6
<1>13. windows'[c].start < 0 => windows'[c] = NoWindow
  BY <1>6, <1>7
<1>14. QED
  BY <1>10, <1>11, <1>12, <1>13

-----------------------------------------------------------------------------
(* The invariant is inductive.                                             *)
LEMMA NextLInv == LInv /\ [Next]_vars => LInv'
<1> SUFFICES ASSUME LInv, [Next]_vars
             PROVE  LInv'
  OBVIOUS
<1> DEFINE Locking == {"app_locking", "user_locking"}
           Guarded == \A w \in Workers : at[w] \in Locking => Limit[CounterOf(w)] > 0
           Safe == \A d \in Counters : /\ windows[d].start < 0 => windows[d] = NoWindow
                                       /\ Credit(d)
<1>0. TypeOK /\ at \in [Workers -> {"app", "app_locking", "user", "user_locking"}]
  BY DEF LInv, TypeOK
<1>1. ASSUME NEW w \in Workers, OpenWindow(w) \/ CountRequest(w)
      PROVE  LInv'
  <2>1. TypeOK' /\ Safe'
    BY <1>1, OpenKeeps, CountKeeps
  <2>2. at' = [at EXCEPT ![w] = After(w, TRUE)]
    BY <1>1 DEF OpenWindow, CountRequest, Admit
  <2>3. at'[w] \notin Locking /\ \A x \in Workers \ {w} : at'[x] = at[x]
    BY <1>0, <2>2 DEF After
  <2>4. Guarded'
    BY <2>3 DEF LInv, CounterOf
  <2>5. QED
    BY <2>1, <2>4 DEF LInv
<1>2. ASSUME NEW w \in Workers, ReadClock(w) \/ Unlimited(w) \/ Reject(w)
      PROVE  LInv'
  <2>1. UNCHANGED <<clock, windows, admitted, late>>
    BY <1>2 DEF ReadClock, Unlimited, Reject
  <2>2. Safe'
    BY <2>1 DEF LInv, Credit, Allowance, Stale, Seen
  <2>3. TypeOK'
    BY <1>0, <1>2, <2>1 DEF TypeOK, ReadClock, Unlimited, Reject, After
  <2>4. Guarded'
    <3>1. CASE ReadClock(w)
      <4>1. at' = [at EXCEPT ![w] = IF at[w] = "app" THEN "app_locking" ELSE "user_locking"]
        BY <3>1 DEF ReadClock
      <4>2. CounterOf(w)' = CounterOf(w) /\ Limit[CounterOf(w)] > 0
        BY <1>0, <3>1, <4>1 DEF ReadClock, CounterOf
      <4>3. \A x \in Workers \ {w} : at'[x] = at[x]
        BY <1>0, <4>1
      <4>4. QED
        BY <4>2, <4>3 DEF LInv, CounterOf
    <3>2. CASE Unlimited(w) \/ Reject(w)
      <4>1. at'[w] \notin Locking /\ \A x \in Workers \ {w} : at'[x] = at[x]
        BY <1>0, <3>2 DEF Unlimited, Reject, After
      <4>2. QED
        BY <4>1 DEF LInv, CounterOf
    <3>3. QED
      BY <1>2, <3>1, <3>2
  <2>5. QED
    BY <2>2, <2>3, <2>4 DEF LInv
<1>3. CASE Tick \/ UNCHANGED vars
  <2>1. UNCHANGED <<windows, at, windowStart, admitted, late>>
    BY <1>3 DEF Tick, vars
  <2>2. clock' \in 0 .. MaxWindow
    BY <1>0, <1>3, RateLimiterAssumption DEF Tick, vars, TypeOK
  <2>3. QED
    BY <2>1, <2>2 DEF LInv, TypeOK, Credit, Allowance, Stale, Seen, CounterOf
<1>4. QED
  BY <1>1, <1>2, <1>3 DEF Next

(* The invariant holds when the limiter is empty.                          *)
LEMMA InitLInv == Init => LInv
<1> SUFFICES ASSUME Init
             PROVE  LInv
  OBVIOUS
<1>1. TypeOK
  BY RateLimiterAssumption DEF Init, TypeOK, NoWindow
<1>2. \A c \in Counters : Credit(c)
  <2> SUFFICES ASSUME NEW c \in Counters
               PROVE  Credit(c)
    OBVIOUS
  <2>1. Allowance(c) = 0 /\ Limit[c] \in Nat
    BY Products, RateLimiterAssumption DEF Init, Allowance
  <2>2. windows[c].start = -1 /\ \A v \in Span : admitted[c][v] = 0
    BY DEF Init, NoWindow, Span
  <2>3. QED
    BY <2>1, <2>2 DEF Credit
<1>3. QED
  BY <1>1, <1>2 DEF Init, LInv

(* LInv, the inductive invariant, holds in every state the limiter can     *)
(* reach.                                                                  *)
THEOREM LimiterInvariance == Spec => []LInv
BY InitLInv, NextLInv, PTL DEF Spec

(* The limiter's variables keep their types, and no count ever exceeds the *)
(* limit of its counter.                                                   *)
THEOREM LimiterTypeCorrect == Spec => []TypeOK
<1>1. LInv => TypeOK
  BY DEF LInv
<1>2. QED
  BY <1>1, LimiterInvariance, PTL

(* Whoever is answered 429 has been preceded by a full limit of admitted   *)
(* requests in that very window.                                           *)
THEOREM RejectionsJustified == Spec => []RejectedOnlyWhenFull
<1>1. LInv => RejectedOnlyWhenFull
  <2> SUFFICES ASSUME LInv, NEW c \in Counters, windows[c] # NoWindow,
                      windows[c].count >= Limit[c]
               PROVE  admitted[c][windows[c].start] >= Limit[c]
    BY DEF RejectedOnlyWhenFull
  <2>1. windows[c].start \in -1 .. MaxWindow /\ windows[c].count \in Nat /\ Limit[c] \in Nat
    BY RateLimiterAssumption DEF LInv, TypeOK
  <2>2. windows[c].start \in Span
    BY <2>1, RateLimiterAssumption DEF LInv, Span
  <2>3. admitted[c][windows[c].start] \in Nat
    BY <2>2 DEF LInv, TypeOK, Span
  <2>4. windows[c].start >= 0
    BY <2>2, RateLimiterAssumption DEF Span
  <2>5. admitted[c][windows[c].start] >= windows[c].count
    BY <2>4 DEF LInv, Credit
  <2>6. QED
    BY <2>1, <2>3, <2>5
<1>2. QED
  BY <1>1, LimiterInvariance, PTL

(* However the goroutines interleave: a window admits at most its limit,   *)
(* and the limit once more for each request that took the lock late.       *)
THEOREM OvershootBounded == Spec => []OvershootIsBounded
<1>1. LInv => OvershootIsBounded
  <2> SUFFICES ASSUME LInv, NEW c \in Counters, NEW v \in Span
               PROVE  admitted[c][v] <= Limit[c] * (1 + late[c])
    BY DEF OvershootIsBounded, Span
  <2>1. admitted[c][v] <= Limit[c] + Allowance(c)
    BY DEF LInv, Credit
  <2>2. Limit[c] \in Nat /\ late[c] \in Nat
    BY RateLimiterAssumption DEF LInv, TypeOK
  <2>3. Limit[c] * (1 + late[c]) = Limit[c] + Allowance(c)
    BY <2>2, Products DEF Allowance
  <2>4. QED
    BY <2>1, <2>3
<1>2. QED
  BY <1>1, LimiterInvariance, PTL
=============================================================================
