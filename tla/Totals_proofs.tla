---------------------------- MODULE Totals_proofs ----------------------------
(***************************************************************************)
(* What the other proofs need to know of Total: it is a natural number,    *)
(* it changes by what one point of the function changes by, it grows with  *)
(* the function, and it bounds every value of it.  Also, that a set of     *)
(* natural numbers has a least one, and that rounding up is monotonic.     *)
(***************************************************************************)
EXTENDS Totals, FiniteSetTheorems, TLAPS

(* The tokens one point contributes: f[x] of them.                         *)
LEMMA CoinsCount ==
    ASSUME NEW f, NEW x, f[x] \in Nat
    PROVE  /\ IsFiniteSet(Coins(f, x))
           /\ Cardinality(Coins(f, x)) = f[x]
<1>1. IsFiniteSet(1 .. f[x]) /\ Cardinality(1 .. f[x]) = f[x]
  BY FS_Interval
<1>2. IsFiniteSet({x}) /\ Cardinality({x}) = 1
  BY FS_Singleton
<1>3. /\ IsFiniteSet({x} \X (1 .. f[x]))
      /\ Cardinality({x} \X (1 .. f[x])) = Cardinality({x}) * Cardinality(1 .. f[x])
  BY <1>1, <1>2, FS_Product, Zenon
<1>4. QED
  BY <1>1, <1>2, <1>3 DEF Coins

(* The tokens of a finite set of points form a finite set.                 *)
LEMMA AllCoinsFinite ==
    ASSUME NEW S, IsFiniteSet(S), NEW f, \A x \in S : f[x] \in Nat
    PROVE  IsFiniteSet(UNION {Coins(f, x) : x \in S})
<1> DEFINE g == [x \in S |-> Coins(f, x)]
           T == {Coins(f, x) : x \in S}
<1>1. g \in Surjection(S, T)
  BY DEF Surjection
<1>2. IsFiniteSet(T)
  BY <1>1, FS_Surjection
<1>3. \A t \in T : IsFiniteSet(t)
  BY CoinsCount
<1>4. QED
  BY <1>2, <1>3, FS_UNION

(* A sum of naturals over a finite set is a natural.                       *)
LEMMA TotalType ==
    ASSUME NEW S, IsFiniteSet(S), NEW f, \A x \in S : f[x] \in Nat
    PROVE  Total(f, S) \in Nat
BY AllCoinsFinite, FS_CardinalityType DEF Total

(* One point taken out of the sum: SUM over S is the value at x plus the   *)
(* SUM over the rest.                                                      *)
LEMMA TotalSplit ==
    ASSUME NEW S, IsFiniteSet(S), NEW f, \A y \in S : f[y] \in Nat,
           NEW x \in S
    PROVE  Total(f, S) = f[x] + Total(f, S \ {x})
<1> DEFINE A == Coins(f, x)
           B == UNION {Coins(f, y) : y \in S \ {x}}
<1>1. UNION {Coins(f, y) : y \in S} = A \cup B
  OBVIOUS
<1>2. A \cap B = {}
  BY DEF Coins
<1>3. IsFiniteSet(A) /\ Cardinality(A) = f[x]
  BY CoinsCount
<1>4. IsFiniteSet(S \ {x})
  BY FS_RemoveElement
<1>5. IsFiniteSet(B) /\ Cardinality(B) \in Nat
  BY <1>4, AllCoinsFinite, FS_CardinalityType
<1>6. Cardinality(A \cup B) = Cardinality(A) + Cardinality(B) - Cardinality(A \cap B)
  BY <1>3, <1>5, FS_Union
<1>7. Cardinality(A \cap B) = 0
  BY <1>2, FS_EmptySet
<1>8. Total(f, S) = Cardinality(A \cup B) /\ Total(f, S \ {x}) = Cardinality(B)
  BY <1>1 DEF Total
<1>9. QED
  BY <1>3, <1>5, <1>6, <1>7, <1>8

(* Two functions that agree on S have the same sum over S.                 *)
LEMMA TotalCongruence ==
    ASSUME NEW S, NEW f, NEW g, \A x \in S : f[x] = g[x]
    PROVE  Total(f, S) = Total(g, S)
<1>1. {Coins(f, x) : x \in S} = {Coins(g, x) : x \in S}
  BY DEF Coins
<1>2. QED
  BY <1>1 DEF Total

(* When a function changes at one point of S only, the sum changes by what *)
(* that point changes by.                                                  *)
LEMMA TotalUpdate ==
    ASSUME NEW S, IsFiniteSet(S), NEW f, NEW g, NEW x \in S,
           \A y \in S : f[y] \in Nat,
           \A y \in S : g[y] \in Nat,
           \A y \in S \ {x} : g[y] = f[y]
    PROVE  Total(g, S) = Total(f, S) - f[x] + g[x]
<1>1. Total(f, S) = f[x] + Total(f, S \ {x})
  BY TotalSplit
<1>2. Total(g, S) = g[x] + Total(g, S \ {x})
  BY TotalSplit
<1>3. Total(f, S \ {x}) = Total(g, S \ {x})
  BY TotalCongruence
<1>4. IsFiniteSet(S \ {x})
  BY FS_RemoveElement
<1>5. Total(f, S \ {x}) \in Nat
  BY <1>4, TotalType
<1>6. QED
  BY <1>1, <1>2, <1>3, <1>5

(* No value exceeds the sum.                                               *)
LEMMA TotalBounds ==
    ASSUME NEW S, IsFiniteSet(S), NEW f, \A y \in S : f[y] \in Nat,
           NEW x \in S
    PROVE  f[x] <= Total(f, S)
<1>1. Total(f, S) = f[x] + Total(f, S \ {x})
  BY TotalSplit
<1>2. Total(f, S \ {x}) \in Nat
  BY FS_RemoveElement, TotalType
<1>3. QED
  BY <1>1, <1>2

(* A sum of zeros is zero.                                                 *)
LEMMA TotalZero ==
    ASSUME NEW S, NEW f, \A y \in S : f[y] = 0
    PROVE  Total(f, S) = 0
<1>1. \A y \in S : Coins(f, y) = {}
  BY DEF Coins
<1>2. UNION {Coins(f, y) : y \in S} = {}
  BY <1>1
<1>3. QED
  BY <1>2, FS_EmptySet DEF Total

(* A set of natural numbers that is not empty has a least member.          *)
LEMMA Least ==
    ASSUME NEW S, S \subseteq Nat, S # {}
    PROVE  \E x \in S : \A y \in S : x <= y
<1>1. \E x \in S : \A y \in S : ~ (<<y, x>> \in OpToRel(<, Nat))
  BY NatLessThanWellFounded, WFMin
<1>2. \A x, y \in S : <<y, x>> \in OpToRel(<, Nat) <=> y < x
  BY DEF OpToRel
<1>3. PICK x \in S : \A y \in S : ~ (y < x)
  BY <1>1, <1>2
<1>4. \A y \in S : x <= y
  BY <1>3
<1>5. QED
  BY <1>4

(* A function that is nowhere greater has no greater sum, nor has a        *)
(* smaller set.                                                            *)
LEMMA TotalMonotone ==
    ASSUME NEW S, IsFiniteSet(S), NEW T \in SUBSET S, NEW f, NEW g,
           \A x \in T : f[x] \in Nat,
           \A x \in S : g[x] \in Nat,
           \A x \in T : f[x] <= g[x]
    PROVE  Total(f, T) <= Total(g, S)
<1> DEFINE F == UNION {Coins(f, x) : x \in T}
           G == UNION {Coins(g, x) : x \in S}
<1>1. ASSUME NEW x \in T
      PROVE  Coins(f, x) \subseteq Coins(g, x)
  <2>1. 1 .. f[x] \subseteq 1 .. g[x]
    OBVIOUS
  <2>2. QED
    BY <2>1 DEF Coins
<1>2. F \subseteq G
  BY <1>1
<1>3. IsFiniteSet(G)
  BY AllCoinsFinite
<1> HIDE DEF F, G
<1>4. Cardinality(F) <= Cardinality(G)
  BY <1>2, <1>3, FS_Subset
<1>5. QED
  BY <1>4 DEF F, G, Total

(* Where the function is zero does not matter for the sum.                 *)
LEMMA TotalSupport ==
    ASSUME NEW S, NEW T, NEW f,
           \A x \in S \ T : f[x] = 0,
           \A x \in T \ S : f[x] = 0
    PROVE  Total(f, S) = Total(f, T)
<1>1. \A x : f[x] = 0 => Coins(f, x) = {}
  BY DEF Coins
<1>2. UNION {Coins(f, x) : x \in S} = UNION {Coins(f, x) : x \in T}
  BY <1>1
<1>3. QED
  BY <1>2 DEF Total

(* The price of a quantity is a natural number.                            *)
LEMMA CeilDivType ==
    ASSUME NEW n \in Int, NEW d \in Int
    PROVE  CeilDiv(n, d) \in Nat
BY DEF CeilDiv

(* A smaller numerator has no larger quotient.                             *)
LEMMA CeilDivMonotone ==
    ASSUME NEW m \in Int, NEW n \in Int, m <= n, NEW d \in Nat
    PROVE  CeilDiv(m, d) <= CeilDiv(n, d)
<1>1. CASE d = 0 \/ m <= 0
  <2>1. CeilDiv(m, d) = 0 /\ CeilDiv(n, d) \in Nat
    BY <1>1, CeilDivType DEF CeilDiv
  <2>2. QED
    BY <2>1
<1>2. CASE d > 0 /\ m > 0
  <2> DEFINE a == m + d - 1
             b == n + d - 1
  <2>1. CeilDiv(m, d) = a \div d /\ CeilDiv(n, d) = b \div d
    BY <1>2 DEF CeilDiv
  <2>2. a \in Nat /\ b \in Nat /\ a <= b
    BY <1>2
  <2> HIDE DEF a, b
  <2>3. a \div d <= b \div d
    BY <1>2, <2>2
  <2>4. QED
    BY <2>1, <2>3
<1>3. QED
  BY <1>1, <1>2
=============================================================================
