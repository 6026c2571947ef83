--------------------------- MODULE PhoneCodes_proofs ---------------------------
(***************************************************************************)
(* Proofs about PhoneCodes, for any number of phones, purposes, codes and  *)
(* handlers, any times and any bounds.                                     *)
(***************************************************************************)
EXTENDS PhoneCodes, Totals_proofs

(* The codes that still hold up a sender at a time, and the senders that   *)
(* have passed the check.                                                  *)
Recent(p, q, time) ==
    {i \in Unconsumed(p, q) : /\ rows[i].created <= time
                              /\ time < rows[i].created + Throttle}

Cleared(p, q) ==
    {s \in Senders : /\ sender[s].pc = "cleared"
                     /\ sender[s].phone = p /\ sender[s].purpose = q}

(* The rows are in the order of time, and none is of the future.           *)
Dated ==
    /\ \A i, j \in DOMAIN rows : i < j => rows[i].created <= rows[j].created
    /\ \A i \in DOMAIN rows :
          /\ rows[i].created <= clock
          /\ rows[i].expires <= rows[i].created + Lifetime
          /\ \A time \in rows[i].consumedAt : time <= rows[i].expires
    /\ \A s \in Senders : sender[s] # Resting => sender[s].now <= clock

(* The answers told wrong are the counted attempts and the missed ones.     *)
Counted ==
    \A i \in 1 .. MaxCodes :
        wrong[i] = missed[i] + IF i \in DOMAIN rows THEN rows[i].attempts ELSE 0

(* A sender passes the check only when no code holds it up; so there is     *)
(* room for a code of each that has passed.                                *)
Room ==
    \A p \in Phones, q \in Purposes :
        Cardinality(Recent(p, q, clock)) + Cardinality(Cleared(p, q))
            <= Cardinality(Senders)

PInv == TypeOK /\ Dated /\ Counted /\ Room /\ BurstBounded

-----------------------------------------------------------------------------
(* A bounded set of numbers has a greatest, and Max is it.                 *)
LEMMA MaxIs ==
    ASSUME NEW n \in Nat, NEW S, S \subseteq 1 .. n, S # {}
    PROVE  Max(S) \in S /\ \A y \in S : y <= Max(S)
<1> DEFINE B == {m \in Nat : \A y \in S : y <= m}
<1>1. n \in B /\ B \subseteq Nat
  OBVIOUS
<1>2. PICK m \in B : \A k \in B : m <= k
  <2> HIDE DEF B
  <2>1. QED
    BY <1>1, Least
<1>3. m \in S
  <2> SUFFICES ASSUME m \notin S
               PROVE  FALSE
    OBVIOUS
  <2>1. \A y \in S : y < m /\ y >= 1
    BY <1>2
  <2>2. PICK z \in S : z < m /\ z >= 1
    BY <2>1
  <2>3. m - 1 \in Nat /\ \A y \in S : y <= m - 1
    BY <1>2, <2>1, <2>2
  <2>4. QED
    BY <1>2, <2>3
<1>4. \E x \in S : \A y \in S : x >= y
  BY <1>2, <1>3
<1>5. Max(S) \in S /\ \A y \in S : Max(S) >= y
  BY <1>4 DEF Max
<1>6. QED
  BY <1>5

-----------------------------------------------------------------------------
(* The domain of the rows, in the type of its members.                     *)
LEMMA RowsType ==
    ASSUME TypeOK
    PROVE  /\ Len(rows) \in Nat /\ DOMAIN rows = 1 .. Len(rows)
           /\ \A i \in DOMAIN rows :
                 /\ rows[i] \in Row
                 /\ rows[i].created \in Nat /\ rows[i].expires \in Nat
                 /\ rows[i].attempts \in Nat /\ rows[i].consumedAt \in SUBSET Nat
           /\ \A i \in DOMAIN rows : i \in 1 .. MaxCodes
           /\ clock \in Nat /\ Throttle \in Nat \ {0} /\ Lifetime \in Nat
<1>1. rows \in Seq(Row) /\ Len(rows) <= MaxCodes /\ clock \in 0 .. MaxTime
  BY DEF TypeOK
<1>2. Len(rows) \in Nat /\ DOMAIN rows = 1 .. Len(rows)
      /\ \A i \in DOMAIN rows : rows[i] \in Row
  BY <1>1
<1>3. \A i \in DOMAIN rows : i \in 1 .. MaxCodes
  BY <1>1, <1>2, PhoneCodesAssumption
<1>4. clock \in Nat /\ Throttle \in Nat \ {0} /\ Lifetime \in Nat
  BY <1>1, PhoneCodesAssumption
<1>5. QED
  BY <1>2, <1>3, <1>4 DEF Row

(* Latest is the last of the unconsumed codes, if there are any.           *)
LEMMA LatestIs ==
    ASSUME TypeOK, NEW p, NEW q
    PROVE  /\ Unconsumed(p, q) # {} => Latest(p, q) # {}
           /\ \A i \in Latest(p, q) :
                 /\ i \in Unconsumed(p, q)
                 /\ \A j \in Unconsumed(p, q) : j <= i
<1>1. Unconsumed(p, q) \subseteq 1 .. Len(rows) /\ Len(rows) \in Nat
  BY RowsType DEF Unconsumed
<1>2. \A i \in Latest(p, q) : Unconsumed(p, q) # {} /\ i = Max(Unconsumed(p, q))
  BY DEF Latest
<1>3. QED
  BY <1>1, <1>2, MaxIs DEF Latest

(* Sets of codes and of senders are finite, so they can be counted.        *)
LEMMA Countable ==
    ASSUME TypeOK, NEW p, NEW q, NEW time
    PROVE  /\ IsFiniteSet(Recent(p, q, time)) /\ Cardinality(Recent(p, q, time)) \in Nat
           /\ IsFiniteSet(Cleared(p, q)) /\ Cardinality(Cleared(p, q)) \in Nat
           /\ Cardinality(Senders) \in Nat
           /\ Cardinality(Cleared(p, q)) <= Cardinality(Senders)
<1>1. Recent(p, q, time) \in SUBSET (1 .. Len(rows)) /\ Len(rows) \in Nat
  BY RowsType DEF Recent, Unconsumed
<1>2. IsFiniteSet(1 .. Len(rows))
  BY <1>1, FS_Interval
<1>3. IsFiniteSet(Recent(p, q, time))
  BY <1>1, <1>2, FS_Subset
<1>4. Cleared(p, q) \in SUBSET Senders
  BY DEF Cleared
<1>5. IsFiniteSet(Cleared(p, q)) /\ Cardinality(Cleared(p, q)) <= Cardinality(Senders)
  BY <1>4, FS_Subset, PhoneCodesAssumption
<1>6. QED
  BY <1>3, <1>5, FS_CardinalityType, PhoneCodesAssumption

(* Fewer codes and fewer senders that have passed: there is room still.    *)
LEMMA RoomStays ==
    ASSUME PInv, TypeOK', clock' = clock,
           \A p \in Phones, q \in Purposes, time \in 0 .. clock :
              /\ Recent(p, q, time)' \subseteq Recent(p, q, time)
              /\ Cleared(p, q)' \subseteq Cleared(p, q)
    PROVE  Room' /\ BurstBounded'
<1>1. ASSUME NEW p \in Phones, NEW q \in Purposes, NEW time \in 0 .. clock
      PROVE  /\ Cardinality(Recent(p, q, time)') <= Cardinality(Recent(p, q, time))
             /\ Cardinality(Recent(p, q, time)') \in Nat
             /\ Cardinality(Recent(p, q, time)) \in Nat
             /\ Cardinality(Cleared(p, q)') <= Cardinality(Cleared(p, q))
             /\ Cardinality(Cleared(p, q)') \in Nat
             /\ Cardinality(Cleared(p, q)) \in Nat
  <2>1. TypeOK
    BY DEF PInv
  <2>2. /\ IsFiniteSet(Recent(p, q, time)) /\ Cardinality(Recent(p, q, time)) \in Nat
        /\ IsFiniteSet(Cleared(p, q)) /\ Cardinality(Cleared(p, q)) \in Nat
    BY <2>1, Countable
  <2>3. /\ Recent(p, q, time)' \in SUBSET Recent(p, q, time)
        /\ Cleared(p, q)' \in SUBSET Cleared(p, q)
    OBVIOUS
  <2>4. /\ IsFiniteSet(Recent(p, q, time)') /\ IsFiniteSet(Cleared(p, q)')
        /\ Cardinality(Recent(p, q, time)') <= Cardinality(Recent(p, q, time))
        /\ Cardinality(Cleared(p, q)') <= Cardinality(Cleared(p, q))
    BY <2>2, <2>3, FS_Subset
  <2>5. QED
    BY <2>2, <2>4, FS_CardinalityType
<1>2. clock \in Nat /\ clock \in 0 .. clock
  BY RowsType DEF PInv
<1>3. Cardinality(Senders) \in Nat
  BY FS_CardinalityType, PhoneCodesAssumption
<1>4. Room'
  <2> SUFFICES ASSUME NEW p \in Phones, NEW q \in Purposes
               PROVE  Cardinality(Recent(p, q, clock)') + Cardinality(Cleared(p, q)')
                          <= Cardinality(Senders)
    BY DEF Room
  <2>1. QED
    BY <1>1, <1>2, <1>3 DEF Room, PInv
<1>5. BurstBounded'
  <2> SUFFICES ASSUME NEW p \in Phones, NEW q \in Purposes, NEW time \in 0 .. clock
               PROVE  Cardinality(Recent(p, q, time)') <= Cardinality(Senders)
    BY DEF BurstBounded, Recent
  <2>1. Cardinality(Recent(p, q, time)) <= Cardinality(Senders)
    BY DEF PInv, BurstBounded, Recent
  <2>2. QED
    BY <1>1, <1>3, <2>1
<1>6. QED
  BY <1>4, <1>5

-----------------------------------------------------------------------------
(* The clock moves: codes only get older.                                  *)
LEMMA TickKeeps == ASSUME PInv, Tick PROVE PInv'
<1>1. TypeOK /\ clock' = clock + 1 /\ UNCHANGED <<rows, sender, taker, history>>
      /\ clock \in Nat /\ clock' \in 0 .. MaxTime
  BY RowsType, PhoneCodesAssumption DEF PInv, Tick, TypeOK
<1>2. TypeOK' /\ Counted'
  BY <1>1 DEF PInv, TypeOK, Counted, history
<1>3. Dated'
  <2>1. \A i \in DOMAIN rows : rows[i].created \in Nat
    BY <1>1, RowsType
  <2>2. \A s \in Senders : sender[s] # Resting => sender[s].now \in Nat
    BY <1>1 DEF TypeOK, Sending
  <2>3. QED
    BY <1>1, <2>1, <2>2 DEF PInv, Dated
<1>4. ASSUME NEW p \in Phones, NEW q \in Purposes
      PROVE  /\ Recent(p, q, clock + 1) \subseteq Recent(p, q, clock)
             /\ Cardinality(Recent(p, q, clock + 1)) <= Cardinality(Recent(p, q, clock))
             /\ Cardinality(Recent(p, q, clock + 1)) \in Nat
             /\ Cardinality(Recent(p, q, clock)) \in Nat
             /\ Cardinality(Cleared(p, q)) \in Nat
  <2>1. \A i \in DOMAIN rows : /\ rows[i].created \in Nat /\ Throttle \in Nat
                               /\ rows[i].created <= clock
    BY <1>1, RowsType DEF PInv, Dated
  <2>2. Recent(p, q, clock + 1) \in SUBSET Recent(p, q, clock)
    BY <1>1, <2>1 DEF Recent, Unconsumed
  <2>3. QED
    BY <1>1, <2>2, Countable, FS_Subset
<1>5. Cardinality(Senders) \in Nat
  BY FS_CardinalityType, PhoneCodesAssumption
<1>6. Room'
  <2> SUFFICES ASSUME NEW p \in Phones, NEW q \in Purposes
               PROVE  Cardinality(Recent(p, q, clock + 1)) + Cardinality(Cleared(p, q))
                          <= Cardinality(Senders)
    BY <1>1 DEF Room, Recent, Cleared, Unconsumed
  <2>1. QED
    BY <1>4, <1>5 DEF PInv, Room
<1>7. BurstBounded'
  <2> SUFFICES ASSUME NEW p \in Phones, NEW q \in Purposes, NEW time \in 0 .. clock + 1
               PROVE  Cardinality(Recent(p, q, time)) <= Cardinality(Senders)
    BY <1>1 DEF BurstBounded, Recent, Unconsumed
  <2>1. CASE time = clock + 1
    BY <1>4, <1>5, <2>1 DEF PInv, Room
  <2>2. CASE time # clock + 1
    <3>1. time \in 0 .. clock
      BY <1>1, <2>2
    <3>2. QED
      BY <3>1 DEF PInv, BurstBounded, Recent
  <2>3. QED
    BY <2>1, <2>2
<1>8. QED
  BY <1>2, <1>3, <1>6, <1>7 DEF PInv

(* A handler is called: to send a code, or with one.                       *)
LEMMA AskKeeps ==
    ASSUME PInv, NEW p \in Phones, NEW q \in Purposes,
           \/ \E s \in Senders : AskForCode(s, p, q)
           \/ \E t \in Takers, c \in Codes : AnswerCode(t, p, q, c)
    PROVE  PInv'
<1>1. TypeOK /\ clock \in Nat
  BY RowsType DEF PInv
<1>2. CASE \E s \in Senders : AskForCode(s, p, q)
  <2>1. PICK s \in Senders : AskForCode(s, p, q)
    BY <1>2
  <2> DEFINE x == [pc |-> "asked", phone |-> p, purpose |-> q, now |-> clock]
  <2>2. x \in Sending /\ x.pc = "asked" /\ x.now = clock
    BY <1>1 DEF Sending
  <2>3. sender' = [sender EXCEPT ![s] = x] /\ UNCHANGED <<clock, rows, taker, history>>
    BY <2>1 DEF AskForCode
  <2> HIDE DEF x
  <2>4. /\ sender' \in [Senders -> Sending \cup {Resting}] /\ sender'[s] = x
        /\ \A o \in Senders \ {s} : sender'[o] = sender[o]
    BY <1>1, <2>2, <2>3 DEF TypeOK
  <2>5. TypeOK' /\ Counted'
    BY <1>1, <2>3, <2>4 DEF TypeOK, PInv, Counted, history
  <2>6. Dated'
    BY <1>1, <2>2, <2>3, <2>4 DEF PInv, Dated
  <2>7. \A a \in Phones, b \in Purposes, time \in 0 .. clock :
           /\ Recent(a, b, time)' \subseteq Recent(a, b, time)
           /\ Cleared(a, b)' \subseteq Cleared(a, b)
    BY <2>2, <2>3, <2>4 DEF Recent, Unconsumed, Cleared
  <2>8. QED
    BY <2>3, <2>5, <2>6, <2>7, RoomStays DEF PInv
<1>3. CASE \E t \in Takers, c \in Codes : AnswerCode(t, p, q, c)
  <2>1. PICK t \in Takers, c \in Codes : AnswerCode(t, p, q, c)
    BY <1>3
  <2> DEFINE x == [pc |-> "asked", phone |-> p, purpose |-> q, code |-> c, now |-> clock]
  <2>2. x \in Taking
    BY <1>1 DEF Taking
  <2>3. taker' = [taker EXCEPT ![t] = x] /\ UNCHANGED <<clock, rows, sender, history>>
    BY <2>1 DEF AnswerCode
  <2> HIDE DEF x
  <2>4. taker' \in [Takers -> Taking \cup {Resting}]
    BY <1>1, <2>2, <2>3 DEF TypeOK
  <2>5. TypeOK' /\ Counted'
    BY <1>1, <2>3, <2>4 DEF TypeOK, PInv, Counted, history
  <2>6. Dated'
    BY <2>3 DEF PInv, Dated
  <2>7. \A a \in Phones, b \in Purposes, time \in 0 .. clock :
           /\ Recent(a, b, time)' \subseteq Recent(a, b, time)
           /\ Cleared(a, b)' \subseteq Cleared(a, b)
    BY <2>3 DEF Recent, Unconsumed, Cleared
  <2>8. QED
    BY <2>3, <2>5, <2>6, <2>7, RoomStays DEF PInv
<1>4. QED
  BY <1>2, <1>3

(* A handler passes the check: then no unused code is younger than the     *)
(* throttle.                                                               *)
LEMMA CheckKeeps == ASSUME PInv, NEW s \in Senders, CheckThrottle(s) PROVE PInv'
<1> DEFINE x == IF TooSoon(s) THEN Resting ELSE [sender[s] EXCEPT !.pc = "cleared"]
<1>1. /\ TypeOK /\ sender[s].pc = "asked"
      /\ sender' = [sender EXCEPT ![s] = x]
      /\ UNCHANGED <<clock, rows, taker, history>>
  BY DEF PInv, CheckThrottle
<1>2. sender[s] \in Sending
  BY <1>1 DEF TypeOK, Resting
<1>3. x \in Sending \cup {Resting}
  BY <1>2 DEF Sending
<1>4. x # Resting => /\ ~ TooSoon(s) /\ x.now = sender[s].now
                     /\ x.phone = sender[s].phone /\ x.purpose = sender[s].purpose
  BY <1>2 DEF Sending
<1> HIDE DEF x
<1>5. /\ sender' \in [Senders -> Sending \cup {Resting}] /\ sender'[s] = x
      /\ \A o \in Senders \ {s} : sender'[o] = sender[o]
  BY <1>1, <1>3 DEF TypeOK
<1>6. TypeOK' /\ Counted'
  BY <1>1, <1>5 DEF TypeOK, PInv, Counted, history
<1>7. Dated'
  <2>1. sender[s] # Resting
    BY <1>1 DEF Resting
  <2>2. QED
    BY <1>1, <1>4, <1>5, <2>1 DEF PInv, Dated
<1>8. \A a \in Phones, b \in Purposes, time \in 0 .. clock :
         /\ Recent(a, b, time)' = Recent(a, b, time)
         /\ Recent(a, b, clock)' = Recent(a, b, clock)
  BY <1>1 DEF Recent, Unconsumed
<1>9. CASE x = Resting
  <2>1. \A a \in Phones, b \in Purposes : Cleared(a, b)' \subseteq Cleared(a, b)
    BY <1>5, <1>9 DEF Cleared, Resting
  <2>2. QED
    BY <1>1, <1>6, <1>7, <1>8, <2>1, RoomStays DEF PInv
<1>10. CASE x # Resting
  <2>1. ASSUME NEW a \in Phones, NEW b \in Purposes
        PROVE  Cardinality(Recent(a, b, clock)') + Cardinality(Cleared(a, b)')
                   <= Cardinality(Senders)
    <3>1. Recent(a, b, clock)' = Recent(a, b, clock)
      BY <1>1 DEF Recent, Unconsumed
    <3>2. CASE a = x.phone /\ b = x.purpose
      <4>1. Recent(a, b, clock) = {}
        <5> SUFFICES ASSUME NEW i \in Recent(a, b, clock)
                     PROVE  FALSE
          OBVIOUS
        <5>1. i \in Unconsumed(a, b) /\ i \in DOMAIN rows /\ clock < rows[i].created + Throttle
          BY DEF Recent, Unconsumed
        <5>2. PICK j \in Latest(a, b) : j \in Unconsumed(a, b) /\ i <= j
          BY <1>1, <5>1, LatestIs
        <5>3. ~ (sender[s].now < rows[j].created + Throttle)
          BY <1>4, <1>10, <3>2, <5>2 DEF TooSoon
        <5>4. j \in DOMAIN rows /\ rows[i].created <= rows[j].created
          <6>1. j \in DOMAIN rows
            BY <5>2 DEF Unconsumed
          <6>2. rows[i].created \in Nat /\ i \in Nat /\ j \in Nat
            BY <1>1, <5>1, <6>1, RowsType
          <6>3. i < j \/ i = j
            BY <5>2, <6>2
          <6>4. QED
            BY <5>1, <6>1, <6>2, <6>3 DEF PInv, Dated
        <5>5. sender[s].now <= clock /\ sender[s].now \in Nat
          BY <1>1, <1>2 DEF PInv, Dated, Resting, Sending
        <5>6. /\ rows[i].created \in Nat /\ rows[j].created \in Nat
              /\ clock \in Nat /\ Throttle \in Nat
          BY <1>1, <5>1, <5>4, RowsType
        <5>7. QED
          BY <5>1, <5>3, <5>4, <5>5, <5>6
      <4>2. Cardinality(Recent(a, b, clock)') = 0
        BY <3>1, <4>1, FS_EmptySet
      <4>3. Cleared(a, b)' \in SUBSET Senders
        BY DEF Cleared
      <4>4. /\ Cardinality(Cleared(a, b)') <= Cardinality(Senders)
            /\ Cardinality(Cleared(a, b)') \in Nat
        BY <4>3, FS_Subset, FS_CardinalityType, PhoneCodesAssumption
      <4>5. QED
        BY <4>2, <4>4
    <3>3. CASE ~ (a = x.phone /\ b = x.purpose)
      <4>1. Cleared(a, b)' \in SUBSET Cleared(a, b)
        BY <1>5, <3>3 DEF Cleared
      <4>2. /\ IsFiniteSet(Cleared(a, b)) /\ Cardinality(Cleared(a, b)) \in Nat
            /\ Cardinality(Recent(a, b, clock)) \in Nat /\ Cardinality(Senders) \in Nat
        BY <1>1, Countable
      <4>3. /\ Cardinality(Cleared(a, b)') <= Cardinality(Cleared(a, b))
            /\ Cardinality(Cleared(a, b)') \in Nat
        BY <4>1, <4>2, FS_Subset, FS_CardinalityType
      <4>4. QED
        BY <3>1, <4>2, <4>3 DEF PInv, Room
    <3>4. QED
      BY <3>2, <3>3
  <2>2. Room'
    BY <2>1 DEF Room
  <2>3. BurstBounded'
    BY <1>1 DEF PInv, BurstBounded, Unconsumed
  <2>4. QED
    BY <1>6, <1>7, <2>2, <2>3 DEF PInv
<1>11. QED
  BY <1>9, <1>10

(* A handler that has passed inserts its code: one handler less, at most   *)
(* one code more.                                                          *)
LEMMA InsertKeeps ==
    ASSUME PInv, NEW s \in Senders, NEW code \in Codes, InsertCode(s, code)
    PROVE  PInv'
<1>1. /\ TypeOK /\ sender[s].pc = "cleared" /\ Len(rows) < MaxCodes
      /\ sender' = [sender EXCEPT ![s] = Resting]
      /\ UNCHANGED <<clock, taker, history>>
  BY DEF PInv, InsertCode
<1>2. /\ Len(rows) \in Nat /\ DOMAIN rows = 1 .. Len(rows) /\ clock \in Nat
      /\ Throttle \in Nat \ {0} /\ Lifetime \in Nat
  BY <1>1, RowsType
<1>3. sender[s] \in Sending /\ sender[s].now \in Nat /\ sender[s].now <= clock
  <2>1. sender[s] \in Sending /\ sender[s] # Resting
    BY <1>1 DEF TypeOK, Resting
  <2>2. QED
    BY <2>1 DEF Sending, PInv, Dated
<1>4. PICK P \in Phones, Q \in Purposes : P = sender[s].phone /\ Q = sender[s].purpose
  BY <1>3 DEF Sending
<1>5. PICK row \in Row :
         /\ rows' = Append(rows, row)
         /\ row.created = clock /\ row.expires = sender[s].now + Lifetime
         /\ row.attempts = 0 /\ row.consumedAt = {}
         /\ row.phone = P /\ row.purpose = Q
  <2> DEFINE x == [phone |-> sender[s].phone, purpose |-> sender[s].purpose,
                   code |-> code, created |-> clock, expires |-> sender[s].now + Lifetime,
                   attempts |-> 0, consumedAt |-> {}]
  <2>1. x \in Row
    BY <1>2, <1>3, <1>4 DEF Row
  <2>2. rows' = Append(rows, x)
    BY DEF InsertCode
  <2>3. QED
    BY <1>4, <2>1, <2>2
<1> PICK n \in Nat : n = Len(rows) + 1
  BY <1>2
<1>6. /\ rows' \in Seq(Row) /\ Len(rows') = n /\ rows'[n] = row
      /\ \A i \in DOMAIN rows : rows'[i] = rows[i]
      /\ DOMAIN rows' = 1 .. n
  BY <1>1, <1>2, <1>5 DEF TypeOK
<1>7. /\ \A i \in DOMAIN rows' : i \in DOMAIN rows \/ i = n
      /\ DOMAIN rows \subseteq DOMAIN rows'
      /\ n \notin DOMAIN rows /\ n \in DOMAIN rows' /\ n \in 1 .. MaxCodes
  BY <1>1, <1>2, <1>6, PhoneCodesAssumption
<1>8. /\ sender' \in [Senders -> Sending \cup {Resting}] /\ sender'[s] = Resting
      /\ \A o \in Senders \ {s} : sender'[o] = sender[o]
  BY <1>1 DEF TypeOK
<1>9. TypeOK'
  <2>1. Len(rows') <= MaxCodes
    BY <1>1, <1>2, <1>6, PhoneCodesAssumption
  <2>2. QED
    BY <1>1, <1>6, <1>8, <2>1 DEF TypeOK, history
<1>10. Counted'
  <2> SUFFICES ASSUME NEW i \in 1 .. MaxCodes
               PROVE  wrong[i] = missed[i] + IF i \in DOMAIN rows' THEN rows'[i].attempts ELSE 0
    BY <1>1 DEF Counted, history
  <2>1. wrong[i] = missed[i] + IF i \in DOMAIN rows THEN rows[i].attempts ELSE 0
    BY DEF PInv, Counted
  <2>2. QED
    BY <1>5, <1>6, <1>7, <2>1
<1>11. Dated'
  <2>1. \A i \in DOMAIN rows : /\ rows[i].created <= clock /\ rows[i].created \in Nat
                               /\ i < n /\ i \in Nat
    BY <1>1, <1>2, RowsType DEF PInv, Dated
  <2>2. \A i, j \in DOMAIN rows' : i < j => rows'[i].created <= rows'[j].created
    <3> SUFFICES ASSUME NEW i \in DOMAIN rows', NEW j \in DOMAIN rows', i < j
                 PROVE  rows'[i].created <= rows'[j].created
      OBVIOUS
    <3>1. CASE j = n
      <4>1. i \in DOMAIN rows
        BY <1>7, <3>1
      <4>2. QED
        BY <1>5, <1>6, <2>1, <3>1, <4>1
    <3>2. CASE j # n
      <4>1. j \in DOMAIN rows
        BY <1>7, <3>2
      <4>2. i \in DOMAIN rows
        BY <1>2, <1>7, <2>1, <4>1
      <4>3. QED
        BY <1>6, <4>1, <4>2 DEF PInv, Dated
    <3>3. QED
      BY <3>1, <3>2
  <2>3. \A i \in DOMAIN rows' :
           /\ rows'[i].created <= clock
           /\ rows'[i].expires <= rows'[i].created + Lifetime
           /\ \A time \in rows'[i].consumedAt : time <= rows'[i].expires
    <3>1. /\ row.created <= clock /\ row.expires <= row.created + Lifetime
          /\ row.consumedAt = {}
      BY <1>2, <1>3, <1>5
    <3>2. QED
      BY <1>6, <1>7, <3>1 DEF PInv, Dated
  <2>4. \A o \in Senders : sender'[o] # Resting => sender'[o].now <= clock
    BY <1>8 DEF PInv, Dated
  <2>5. QED
    BY <1>1, <2>2, <2>3, <2>4 DEF Dated
<1>12. /\ n \notin Unconsumed(P, Q)
       /\ Unconsumed(P, Q)' = Unconsumed(P, Q) \cup {n}
       /\ \A a, b : (a # P \/ b # Q) => Unconsumed(a, b)' = Unconsumed(a, b)
       /\ \A a, b : \A i \in Unconsumed(a, b) : rows'[i] = rows[i]
  BY <1>5, <1>6, <1>7 DEF Unconsumed
<1>13. /\ Recent(P, Q, clock)' = Recent(P, Q, clock) \cup {n}
       /\ \A time \in 0 .. clock : time # clock => Recent(P, Q, time)' = Recent(P, Q, time)
       /\ \A a, b, time : (a # P \/ b # Q) =>
             Recent(a, b, time)' = Recent(a, b, time)
       /\ \A a, b : (a # P \/ b # Q) =>
             Recent(a, b, clock)' = Recent(a, b, clock)
       /\ Cleared(P, Q)' = Cleared(P, Q) \ {s} /\ s \in Cleared(P, Q)
       /\ \A a, b : (a # P \/ b # Q) => Cleared(a, b)' = Cleared(a, b)
       /\ n \notin Recent(P, Q, clock)
  <2>1. rows'[n].created = clock /\ clock <= clock /\ clock < rows'[n].created + Throttle
    BY <1>2, <1>5, <1>6
  <2>2. Recent(P, Q, clock)' = Recent(P, Q, clock) \cup {n}
    BY <1>1, <1>12, <2>1 DEF Recent
  <2>3. ASSUME NEW time \in 0 .. clock, time # clock
        PROVE  Recent(P, Q, time)' = Recent(P, Q, time)
    <3>1. ~ (rows'[n].created <= time)
      BY <1>2, <2>1, <2>3
    <3>2. QED
      BY <1>12, <3>1 DEF Recent
  <2>4. ASSUME NEW a, NEW b, NEW time, a # P \/ b # Q
        PROVE  Recent(a, b, time)' = Recent(a, b, time)
    BY <1>12, <2>4 DEF Recent
  <2>5. ASSUME NEW a, NEW b, a # P \/ b # Q
        PROVE  Recent(a, b, clock)' = Recent(a, b, clock)
    BY <1>1, <1>12, <2>5 DEF Recent
  <2>6. Cleared(P, Q)' = Cleared(P, Q) \ {s} /\ s \in Cleared(P, Q)
    BY <1>1, <1>4, <1>8 DEF Cleared, Resting
  <2>7. ASSUME NEW a, NEW b, a # P \/ b # Q
        PROVE  Cleared(a, b)' = Cleared(a, b)
    BY <1>1, <1>4, <1>8, <2>7 DEF Cleared, Resting
  <2>8. QED
    BY <1>12, <2>2, <2>3, <2>4, <2>5, <2>6, <2>7 DEF Recent
<1>14. ASSUME NEW a \in Phones, NEW b \in Purposes
       PROVE  Cardinality(Recent(a, b, clock)') + Cardinality(Cleared(a, b)')
                  <= Cardinality(Senders)
  <2>1. /\ IsFiniteSet(Recent(a, b, clock)) /\ Cardinality(Recent(a, b, clock)) \in Nat
        /\ IsFiniteSet(Cleared(a, b)) /\ Cardinality(Cleared(a, b)) \in Nat
        /\ Cardinality(Senders) \in Nat
    BY <1>1, Countable
  <2>2. Cardinality(Recent(a, b, clock)) + Cardinality(Cleared(a, b)) <= Cardinality(Senders)
    BY DEF PInv, Room
  <2>3. CASE a = P /\ b = Q
    <3>1. Cardinality(Recent(P, Q, clock) \cup {n}) = Cardinality(Recent(P, Q, clock)) + 1
      BY <1>13, <2>1, <2>3, FS_AddElement
    <3>2. Cardinality(Cleared(P, Q) \ {s}) = Cardinality(Cleared(P, Q)) - 1
      BY <1>13, <2>1, <2>3, FS_RemoveElement
    <3>3. /\ Recent(a, b, clock)' = Recent(P, Q, clock) \cup {n}
          /\ Cleared(a, b)' = Cleared(P, Q) \ {s}
      BY <1>13, <2>3
    <3>4. /\ Cardinality(Recent(a, b, clock)') = Cardinality(Recent(a, b, clock)) + 1
          /\ Cardinality(Cleared(a, b)') = Cardinality(Cleared(a, b)) - 1
      BY <2>3, <3>1, <3>2, <3>3
    <3>5. QED
      BY <2>1, <2>2, <3>4
  <2>4. CASE a # P \/ b # Q
    <3>1. Recent(a, b, clock)' = Recent(a, b, clock) /\ Cleared(a, b)' = Cleared(a, b)
      BY <1>13, <2>4
    <3>2. QED
      BY <2>2, <3>1
  <2>5. QED
    BY <2>3, <2>4
<1>15. Room'
  BY <1>14 DEF Room
<1>16. BurstBounded'
  <2> SUFFICES ASSUME NEW a \in Phones, NEW b \in Purposes, NEW time \in 0 .. clock
               PROVE  Cardinality(Recent(a, b, time)') <= Cardinality(Senders)
    BY <1>1 DEF BurstBounded, Recent
  <2>1. CASE time = clock
    <3>1. Recent(a, b, time)' = Recent(a, b, clock)'
      BY <1>1, <2>1 DEF Recent
    <3>2. Cardinality(Recent(a, b, clock)') \in Nat /\ Cardinality(Cleared(a, b)') \in Nat
      <4>1. Recent(a, b, clock)' \in SUBSET (1 .. n) /\ Cleared(a, b)' \in SUBSET Senders
        BY <1>6 DEF Recent, Unconsumed, Cleared
      <4>2. IsFiniteSet(1 .. n)
        BY <1>2, FS_Interval
      <4>3. QED
        BY <4>1, <4>2, FS_Subset, FS_CardinalityType, PhoneCodesAssumption
    <3>3. Cardinality(Senders) \in Nat
      BY FS_CardinalityType, PhoneCodesAssumption
    <3>4. QED
      BY <1>14, <3>1, <3>2, <3>3
  <2>2. CASE time # clock
    <3>1. Recent(a, b, time)' = Recent(a, b, time)
      BY <1>13, <2>2
    <3>2. QED
      BY <3>1 DEF PInv, BurstBounded, Recent
  <2>3. QED
    BY <2>1, <2>2
<1>17. QED
  BY <1>9, <1>10, <1>11, <1>15, <1>16 DEF PInv

(* A code that is not used gets a wrong answer or is used: it holds up no  *)
(* one it did not hold up before.                                          *)
LEMMA RowChanges ==
    ASSUME PInv, NEW i \in DOMAIN rows, rows[i].consumedAt = {}, NEW r \in Row,
           /\ r.phone = rows[i].phone /\ r.purpose = rows[i].purpose
           /\ r.created = rows[i].created /\ r.expires = rows[i].expires
           /\ \A time \in r.consumedAt : time <= r.expires,
           rows' = [rows EXCEPT ![i] = r],
           UNCHANGED <<clock, sender>>,
           taker' \in [Takers -> Taking \cup {Resting}],
           wrong' \in [1 .. MaxCodes -> 0 .. (MaxAttempts + MaxFaults)],
           missed' \in [1 .. MaxCodes -> 0 .. MaxFaults],
           wrong'[i] = missed'[i] + r.attempts,
           \A j \in 1 .. MaxCodes : j # i => wrong'[j] = wrong[j] /\ missed'[j] = missed[j]
    PROVE  PInv'
<1>1. TypeOK /\ Dated /\ Counted
  BY DEF PInv
<1>2. /\ rows' \in Seq(Row) /\ Len(rows') = Len(rows) /\ DOMAIN rows' = DOMAIN rows
      /\ rows'[i] = r /\ \A j \in DOMAIN rows \ {i} : rows'[j] = rows[j]
  BY <1>1 DEF TypeOK
<1>3. TypeOK'
  BY <1>1, <1>2 DEF TypeOK
<1>4. \A j \in DOMAIN rows : /\ rows'[j].phone = rows[j].phone
                             /\ rows'[j].purpose = rows[j].purpose
                             /\ rows'[j].created = rows[j].created
                             /\ rows'[j].expires = rows[j].expires
                             /\ rows'[j].consumedAt = {} => rows[j].consumedAt = {}
                             /\ \A time \in rows'[j].consumedAt : time <= rows'[j].expires
  BY <1>1, <1>2 DEF Dated
<1>5. Dated'
  BY <1>1, <1>2, <1>4 DEF Dated
<1>6. Counted'
  BY <1>1, <1>2 DEF Counted
<1>7. \A p \in Phones, q \in Purposes, time \in 0 .. clock :
         /\ Recent(p, q, time)' \subseteq Recent(p, q, time)
         /\ Cleared(p, q)' \subseteq Cleared(p, q)
  BY <1>2, <1>4 DEF Recent, Unconsumed, Cleared
<1>8. QED
  BY <1>3, <1>5, <1>6, <1>7, RoomStays DEF PInv

(* A handler takes a code, or refuses it.                                  *)
LEMMA ConsumeKeeps == ASSUME PInv, NEW t \in Takers, ConsumeCode(t) PROVE PInv'
<1>1. /\ TypeOK /\ taker[t].pc = "asked" /\ UNCHANGED <<clock, sender>>
      /\ taker' \in [Takers -> Taking \cup {Resting}]
  BY DEF PInv, ConsumeCode, TypeOK
<1>2. taker[t].now \in Nat
  BY <1>1 DEF TypeOK, Resting, Taking
<1>3. CASE Refuse(t)
  <2>1. UNCHANGED <<rows, history>>
    BY <1>3 DEF Refuse
  <2>2. TypeOK' /\ Dated' /\ Counted'
    BY <1>1, <2>1 DEF PInv, TypeOK, Dated, Counted, history
  <2>3. \A p \in Phones, q \in Purposes, time \in 0 .. clock :
           /\ Recent(p, q, time)' \subseteq Recent(p, q, time)
           /\ Cleared(p, q)' \subseteq Cleared(p, q)
    BY <1>1, <2>1 DEF Recent, Unconsumed, Cleared
  <2>4. QED
    BY <1>1, <2>2, <2>3, RoomStays DEF PInv
<1>4. CASE \E i \in Latest(taker[t].phone, taker[t].purpose) : Reject(t, i) \/ Accept(t, i)
  <2>1. PICK i \in Latest(taker[t].phone, taker[t].purpose) : Reject(t, i) \/ Accept(t, i)
    BY <1>4
  <2>2. i \in DOMAIN rows /\ rows[i].consumedAt = {}
    BY <1>1, <2>1, LatestIs DEF Unconsumed
  <2>3. /\ rows[i] \in Row /\ i \in 1 .. MaxCodes
        /\ wrong[i] = missed[i] + rows[i].attempts /\ rows[i].attempts < MaxAttempts
        /\ taker[t].now <= rows[i].expires
        /\ rows[i].attempts \in Nat /\ MaxAttempts \in Nat /\ MaxFaults \in Nat
        /\ wrong \in [1 .. MaxCodes -> 0 .. (MaxAttempts + MaxFaults)]
        /\ missed \in [1 .. MaxCodes -> 0 .. MaxFaults]
    BY <1>1, <2>1, <2>2, RowsType, PhoneCodesAssumption
       DEF PInv, Counted, Reject, Accept, Takeable, TypeOK
  <2>4. CASE Reject(t, i)
    <3>1. wrong' = [wrong EXCEPT ![i] = wrong[i] + 1] /\ MarkAttempt(i)
      BY <2>4 DEF Reject
    <3>2. \A j \in 1 .. MaxCodes : j # i => wrong'[j] = wrong[j]
      BY <2>3, <3>1
    <3>3. CASE rows' = [rows EXCEPT ![i].attempts = @ + 1] /\ UNCHANGED missed
      <4> DEFINE r == [rows[i] EXCEPT !.attempts = rows[i].attempts + 1]
      <4>1. /\ r \in Row
            /\ r.phone = rows[i].phone /\ r.purpose = rows[i].purpose
            /\ r.created = rows[i].created /\ r.expires = rows[i].expires
            /\ r.consumedAt = rows[i].consumedAt /\ r.attempts = rows[i].attempts + 1
        <5>1. rows[i] \in Row /\ rows[i].attempts \in Nat
          BY <2>3
        <5>2. QED
          BY <5>1 DEF Row
      <4>2. rows' = [rows EXCEPT ![i] = r]
        BY <3>3
      <4> HIDE DEF r
      <4>3. wrong[i] + 1 \in 0 .. (MaxAttempts + MaxFaults) /\ missed[i] \in 0 .. MaxFaults
        <5>1. missed[i] \in 0 .. MaxFaults /\ MaxFaults \in Nat
          BY <2>3
        <5>2. /\ wrong[i] = missed[i] + rows[i].attempts /\ rows[i].attempts < MaxAttempts
              /\ rows[i].attempts \in Nat /\ MaxAttempts \in Nat
          BY <2>3
        <5>3. wrong[i] + 1 \in 0 .. (MaxAttempts + MaxFaults)
          BY <5>1, <5>2
        <5>4. QED
          BY <5>1, <5>3
      <4>4. /\ wrong' \in [1 .. MaxCodes -> 0 .. (MaxAttempts + MaxFaults)]
            /\ wrong'[i] = missed'[i] + r.attempts
        BY <2>3, <3>1, <3>3, <4>1, <4>3
      <4>5. \A time \in r.consumedAt : time <= r.expires
        BY <2>2, <4>1
      <4>6. PICK c \in Row : c = r
        BY <4>1
      <4>7. QED
        BY <1>1, <2>2, <2>3, <3>2, <3>3, <4>1, <4>2, <4>4, <4>5, <4>6, RowChanges
    <3>4. CASE MissAttempt(i)
      <4>1. /\ rows' = rows /\ missed[i] < MaxFaults
            /\ missed' = [missed EXCEPT ![i] = missed[i] + 1]
        BY <3>4 DEF MissAttempt
      <4>2. rows' = [rows EXCEPT ![i] = rows[i]]
        BY <1>1, <2>2, <4>1 DEF TypeOK
      <4>3. /\ wrong[i] + 1 \in 0 .. (MaxAttempts + MaxFaults)
            /\ missed[i] + 1 \in 0 .. MaxFaults
        <5>1. /\ missed[i] \in Nat /\ missed[i] < MaxFaults /\ MaxFaults \in Nat
              /\ rows[i].attempts \in Nat /\ MaxAttempts \in Nat
          BY <2>3, <4>1
        <5>2. wrong[i] = missed[i] + rows[i].attempts /\ rows[i].attempts < MaxAttempts
          BY <2>3
        <5>3. missed[i] + 1 \in 0 .. MaxFaults
          BY <5>1
        <5>4. wrong[i] + 1 \in 0 .. (MaxAttempts + MaxFaults)
          BY <5>1, <5>2
        <5>5. QED
          BY <5>3, <5>4
      <4>4. /\ wrong' \in [1 .. MaxCodes -> 0 .. (MaxAttempts + MaxFaults)]
            /\ missed' \in [1 .. MaxCodes -> 0 .. MaxFaults]
            /\ wrong'[i] = missed'[i] + rows[i].attempts
            /\ \A j \in 1 .. MaxCodes : j # i => missed'[j] = missed[j]
        <5>1. /\ wrong'[i] = wrong[i] + 1 /\ missed'[i] = missed[i] + 1
              /\ missed[i] \in Nat /\ rows[i].attempts \in Nat
              /\ wrong[i] = missed[i] + rows[i].attempts
          BY <2>3, <3>1, <4>1
        <5>2. wrong'[i] = missed'[i] + rows[i].attempts
          BY <5>1
        <5>3. QED
          BY <2>3, <3>1, <4>1, <4>3, <5>2
      <4>5. PICK c \in Row : c = rows[i]
        BY <2>3
      <4>6. \A time \in rows[i].consumedAt : time <= rows[i].expires
        BY <2>2
      <4>7. QED
        BY <1>1, <2>2, <3>2, <4>2, <4>4, <4>5, <4>6, RowChanges
    <3>5. QED
      BY <3>1, <3>3, <3>4 DEF MarkAttempt
  <2>5. CASE Accept(t, i)
    <3> DEFINE r == [rows[i] EXCEPT !.consumedAt = {taker[t].now}]
    <3>1. /\ r \in Row
          /\ r.phone = rows[i].phone /\ r.purpose = rows[i].purpose
          /\ r.created = rows[i].created /\ r.expires = rows[i].expires
          /\ r.consumedAt = {taker[t].now} /\ r.attempts = rows[i].attempts
      BY <1>2, <2>3 DEF Row
    <3>2. rows' = [rows EXCEPT ![i] = r] /\ wrong' = wrong /\ missed' = missed
      BY <2>5 DEF Accept, history
    <3> HIDE DEF r
    <3>3. wrong'[i] = missed'[i] + r.attempts
      BY <2>3, <3>1, <3>2
    <3>4. \A time \in r.consumedAt : time <= r.expires
      BY <2>3, <3>1
    <3>5. PICK c \in Row : c = r
      BY <3>1
    <3>6. QED
      BY <1>1, <2>2, <2>3, <3>1, <3>2, <3>3, <3>4, <3>5, RowChanges
  <2>6. QED
    BY <2>1, <2>4, <2>5
<1>5. QED
  BY <1>3, <1>4 DEF ConsumeCode

(* A handler that meets a database error ends, and the rows stay.          *)
LEMMA FailKeeps ==
    ASSUME PInv, \/ \E s \in Senders : SendFails(s)
                 \/ \E t \in Takers : TakeFails(t)
    PROVE  PInv'
<1>1. TypeOK /\ UNCHANGED <<clock, rows, wrong, missed>>
  BY DEF PInv, SendFails, TakeFails, history
<1>2. /\ sender' \in [Senders -> Sending \cup {Resting}]
      /\ taker' \in [Takers -> Taking \cup {Resting}]
      /\ \A s \in Senders : sender'[s] \in {sender[s], Resting}
  BY <1>1 DEF TypeOK, SendFails, TakeFails
<1>3. TypeOK' /\ Counted'
  BY <1>1, <1>2 DEF PInv, TypeOK, Counted
<1>4. Dated'
  BY <1>1, <1>2 DEF PInv, Dated
<1>5. \A p \in Phones, q \in Purposes, time \in 0 .. clock :
         /\ Recent(p, q, time)' \subseteq Recent(p, q, time)
         /\ Cleared(p, q)' \subseteq Cleared(p, q)
  BY <1>1, <1>2 DEF Recent, Unconsumed, Cleared, Resting
<1>6. QED
  BY <1>1, <1>3, <1>4, <1>5, RoomStays DEF PInv

-----------------------------------------------------------------------------
(* At first there is no code and no handler at work.                       *)
LEMMA InitKeeps == ASSUME Init PROVE PInv
<1>1. TypeOK /\ Dated /\ Counted
  BY PhoneCodesAssumption DEF Init, TypeOK, Dated, Counted
<1>2. \A p, q, time : Recent(p, q, time) = {} /\ Cleared(p, q) = {}
  BY DEF Init, Recent, Unconsumed, Cleared, Resting
<1>3. Cardinality({}) = 0 /\ Cardinality(Senders) \in Nat
  BY FS_EmptySet, FS_CardinalityType, PhoneCodesAssumption
<1>4. Room
  BY <1>2, <1>3 DEF Room
<1>5. BurstBounded
  BY <1>2, <1>3 DEF BurstBounded, Recent
<1>6. QED
  BY <1>1, <1>4, <1>5 DEF PInv

(* The actions, each with the handler that takes it.                       *)
LEMMA NextKeeps == ASSUME PInv, [Next]_vars PROVE PInv'
<1>1. CASE Tick
  BY <1>1, TickKeeps
<1>2. CASE \E s \in Senders, p \in Phones, q \in Purposes : AskForCode(s, p, q)
  BY <1>2, AskKeeps
<1>3. CASE \E s \in Senders : CheckThrottle(s)
  BY <1>3, CheckKeeps
<1>4. CASE \E s \in Senders, c \in Codes : InsertCode(s, c)
  BY <1>4, InsertKeeps
<1>5. CASE \E t \in Takers, p \in Phones, q \in Purposes, c \in Codes :
              AnswerCode(t, p, q, c)
  BY <1>5, AskKeeps
<1>6. CASE \E t \in Takers : ConsumeCode(t)
  BY <1>6, ConsumeKeeps
<1>8. CASE \/ \E s \in Senders : SendFails(s)
           \/ \E t \in Takers : TakeFails(t)
  BY <1>8, FailKeeps
<1>7. CASE UNCHANGED vars
  <2>1. PInv /\ UNCHANGED <<clock, rows, sender, taker, history>>
    BY <1>7 DEF vars
  <2>2. TypeOK' /\ Dated' /\ Counted'
    BY <2>1 DEF PInv, TypeOK, Dated, Counted, history
  <2>3. \A p \in Phones, q \in Purposes, time \in 0 .. clock :
           /\ Recent(p, q, time)' \subseteq Recent(p, q, time)
           /\ Cleared(p, q)' \subseteq Cleared(p, q)
    BY <2>1 DEF Recent, Unconsumed, Cleared
  <2>4. QED
    BY <2>1, <2>2, <2>3, RoomStays DEF PInv
<1>9. QED
  BY <1>1, <1>2, <1>3, <1>4, <1>5, <1>6, <1>7, <1>8 DEF Next

(* The inductive invariant: the rows in order of time, the wrong answers   *)
(* counted, and room for every handler that has passed the throttle.       *)
THEOREM CodesInvariance == Spec => []PInv
<1>1. Init => PInv
  BY InitKeeps
<1>2. PInv /\ [Next]_vars => PInv'
  BY NextKeeps
<1>3. QED
  BY <1>1, <1>2, PTL DEF Spec

(* Every reachable state is of its type.                                   *)
THEOREM CodesTypeCorrect == Spec => []TypeOK
<1>1. PInv => TypeOK
  BY DEF PInv
<1>2. QED
  BY <1>1, CodesInvariance, PTL

(* However the handlers that send codes interleave, the unused codes of    *)
(* one minute are no more than the handlers.                               *)
THEOREM BurstsBounded == Spec => []BurstBounded
<1>1. PInv => BurstBounded
  BY DEF PInv
<1>2. QED
  BY <1>1, CodesInvariance, PTL

(* No code is accepted from one who answered after its lifetime.           *)
THEOREM InTime == Spec => []AcceptedInTime
<1>1. ASSUME PInv PROVE AcceptedInTime
  <2> SUFFICES ASSUME NEW i \in DOMAIN rows, NEW time \in rows[i].consumedAt
               PROVE  time <= rows[i].created + Lifetime
    BY DEF AcceptedInTime
  <2>1. /\ rows[i].created \in Nat /\ rows[i].expires \in Nat
        /\ time \in Nat /\ Lifetime \in Nat
    BY <1>1, RowsType DEF PInv
  <2>2. time <= rows[i].expires /\ rows[i].expires <= rows[i].created + Lifetime
    BY <1>1 DEF PInv, Dated
  <2>3. QED
    BY <2>1, <2>2
<1>2. QED
  BY <1>1, CodesInvariance, PTL

-----------------------------------------------------------------------------
(* The stages of the codes, as the abstract specification sees them.       *)
Stages == [i \in 1 .. MaxCodes |-> Stage(i)]

(* Rows that keep their places and whether they are used keep the stages.  *)
LEMMA StagesStay == ASSUME rows' = rows PROVE Stages' = Stages
<1>1. \A i : Stage(i)' = Stage(i)
  BY DEF Stage
<1>2. QED
  BY <1>1 DEF Stages

(* Every step of the handlers is one of the codes, or a stutter.           *)
LEMMA StepRefines ==
    ASSUME PInv, [Next]_vars
    PROVE  [Pool!Next]_<<Stages, wrong, missed>>
<1>1. TypeOK /\ Counted
  BY DEF PInv
<1>2. CASE rows' = rows /\ UNCHANGED history
  BY <1>2, StagesStay DEF history
<1>3. CASE \E s \in Senders, c \in Codes : InsertCode(s, c)
  <2>1. PICK s \in Senders, c \in Codes : InsertCode(s, c)
    BY <1>3
  <2>2. PICK n \in Nat : n = Len(rows) + 1
    BY <1>1, RowsType
  <2>3. /\ n \in 1 .. MaxCodes /\ wrong' = wrong /\ missed' = missed
        /\ DOMAIN rows = 1 .. (n - 1) /\ DOMAIN rows' = 1 .. n
        /\ \A i \in DOMAIN rows : rows'[i] = rows[i]
        /\ rows'[n].consumedAt = {}
    BY <1>1, <2>1, <2>2, PhoneCodesAssumption DEF InsertCode, TypeOK, history
  <2>4. Stages[n] = "none" /\ Stage(n)' = "issued"
    BY <2>3 DEF Stages, Stage
  <2>5. \A i \in 1 .. MaxCodes : i # n => Stage(i)' = Stage(i)
    BY <2>2, <2>3 DEF Stage
  <2>6. Stages' = [Stages EXCEPT ![n] = "issued"]
    BY <2>3, <2>4, <2>5 DEF Stages
  <2>7. Pool!Issue(n)
    BY <2>3, <2>4, <2>6 DEF Pool!Issue, Stages
  <2>8. QED
    BY <2>3, <2>7 DEF Pool!Next
<1>4. CASE \E t \in Takers : ConsumeCode(t)
  <2>1. PICK t \in Takers : ConsumeCode(t)
    BY <1>4
  <2>2. CASE Refuse(t)
    BY <1>2, <2>2 DEF Refuse
  <2>3. CASE \E i \in Latest(taker[t].phone, taker[t].purpose) : Reject(t, i) \/ Accept(t, i)
    <3>1. PICK i \in Latest(taker[t].phone, taker[t].purpose) : Reject(t, i) \/ Accept(t, i)
      BY <2>3
    <3>2. /\ i \in DOMAIN rows /\ i \in 1 .. MaxCodes /\ rows[i].consumedAt = {}
          /\ rows[i] \in Row
      BY <1>1, <3>1, LatestIs, RowsType DEF Unconsumed
    <3>3. Stages[i] = "issued"
      BY <3>2 DEF Stages, Stage
    <3>4. /\ wrong[i] < MaxAttempts + missed[i]
          /\ missed \in [1 .. MaxCodes -> Nat] /\ wrong \in [1 .. MaxCodes -> Nat]
      <4>1. missed[i] \in Nat /\ rows[i].attempts \in Nat /\ MaxAttempts \in Nat
        BY <1>1, <3>2, PhoneCodesAssumption DEF TypeOK, Row
      <4>2. wrong[i] = missed[i] + rows[i].attempts /\ rows[i].attempts < MaxAttempts
        BY <3>1, <3>2 DEF PInv, Counted, Reject, Accept, Takeable
      <4>3. wrong[i] < MaxAttempts + missed[i]
        BY <4>1, <4>2
      <4>4. missed \in [1 .. MaxCodes -> Nat]
        <5>1. missed \in [1 .. MaxCodes -> 0 .. MaxFaults]
          BY <1>1 DEF TypeOK
        <5>2. 0 .. MaxFaults \subseteq Nat
          OBVIOUS
        <5>3. QED
          BY <5>1, <5>2
      <4>5. wrong \in [1 .. MaxCodes -> Nat]
        <5>1. wrong \in [1 .. MaxCodes -> 0 .. (MaxAttempts + MaxFaults)]
          BY <1>1 DEF TypeOK
        <5>2. 0 .. (MaxAttempts + MaxFaults) \subseteq Nat
          OBVIOUS
        <5>3. QED
          BY <5>1, <5>2
      <4>6. QED
        BY <4>3, <4>4, <4>5
    <3>5. CASE Reject(t, i)
      <4>1. /\ DOMAIN rows' = DOMAIN rows
            /\ \A j \in DOMAIN rows : rows'[j].consumedAt = rows[j].consumedAt
            /\ missed' = missed \/ missed' = [missed EXCEPT ![i] = @ + 1]
        BY <1>1, <3>2, <3>5 DEF Reject, MarkAttempt, MissAttempt, TypeOK, Row
      <4>2. \A j \in 1 .. MaxCodes : Stage(j)' = Stage(j)
        BY <4>1 DEF Stage
      <4>3. Stages' = Stages
        BY <4>2 DEF Stages
      <4>4. Pool!Miss(i)
        BY <3>3, <3>4, <3>5, <4>1, <4>3 DEF Pool!Miss, Pool!Open, Reject, Stages
      <4>5. QED
        BY <3>2, <4>4 DEF Pool!Next
    <3>6. CASE Accept(t, i)
      <4>1. /\ DOMAIN rows' = DOMAIN rows /\ wrong' = wrong /\ missed' = missed
            /\ rows'[i].consumedAt # {}
            /\ \A j \in DOMAIN rows \ {i} : rows'[j] = rows[j]
        BY <1>1, <3>2, <3>6 DEF Accept, TypeOK, Row, history
      <4>2. Stage(i)' = "used" /\ \A j \in 1 .. MaxCodes : j # i => Stage(j)' = Stage(j)
        BY <3>2, <4>1 DEF Stage
      <4>3. Stages' = [Stages EXCEPT ![i] = "used"]
        BY <3>2, <4>2 DEF Stages
      <4>4. Pool!Use(i)
        BY <3>3, <3>4, <4>1, <4>3 DEF Pool!Use, Pool!Open, Stages
      <4>5. QED
        BY <3>2, <4>4 DEF Pool!Next
    <3>7. QED
      BY <3>1, <3>5, <3>6
  <2>4. QED
    BY <2>1, <2>2, <2>3 DEF ConsumeCode
<1>5. \/ rows' = rows /\ UNCHANGED history
      \/ \E s \in Senders, c \in Codes : InsertCode(s, c)
      \/ \E t \in Takers : ConsumeCode(t)
  <2>1. CASE Next
    BY <2>1 DEF Next, Tick, AskForCode, CheckThrottle, AnswerCode, SendFails, TakeFails
  <2>2. CASE UNCHANGED vars
    BY <2>2 DEF vars, history
  <2>3. QED
    BY <2>1, <2>2
<1>6. QED
  BY <1>2, <1>3, <1>4, <1>5

(* Phone codes are one-time codes: whatever the handlers do is an issue, a *)
(* miss or a use of one code, or nothing.                                  *)
THEOREM CodesImplementation == Spec => ImplementsOneTimeCodes
<1>1. Init => Pool!Init
  <2> SUFFICES ASSUME Init
               PROVE  Pool!Init
    OBVIOUS
  <2>1. DOMAIN rows = {}
    BY DEF Init
  <2>2. \A i \in 1 .. MaxCodes : Stage(i) = "none"
    BY <2>1 DEF Stage
  <2>3. QED
    BY <2>2 DEF Init, Pool!Init
<1>2. PInv /\ [Next]_vars => [Pool!Next]_<<[i \in 1 .. MaxCodes |-> Stage(i)], wrong, missed>>
  BY StepRefines DEF Stages
<1>3. QED
  BY <1>1, <1>2, CodesInvariance, PTL DEF Spec, ImplementsOneTimeCodes, Pool!Spec
=============================================================================
