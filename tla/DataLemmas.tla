----------------------------- MODULE DataLemmas -----------------------------
(***************************************************************************)
(* Facts about the data that several of the specifications use: minima and *)
(* maxima of sets of naturals (of slots, of positions in a queue, of keys  *)
(* on a page, of source indices), and queues.                              *)
(***************************************************************************)
EXTENDS FiniteSetsExt, Sequences, FiniteSetTheorems, TLAPS

(* A non-empty set of naturals has a least element, and Min is that one.   *)
LEMMA MinIsLowerBound ==
  ASSUME NEW S \in SUBSET Nat, S # {}
  PROVE  Min(S) \in S /\ \A n \in S : Min(S) <= n
<1>1. PICK x \in S : \A y \in S : ~ (<<y, x>> \in OpToRel(<, Nat))
  BY NatLessThanWellFounded, WFMin
<1>2. \A y \in S : x <= y
  <2> SUFFICES ASSUME NEW y \in S PROVE x <= y
    OBVIOUS
  <2>1. ~ (y < x)
    BY <1>1 DEF OpToRel
  <2> QED BY <2>1
<1> QED BY <1>2 DEF Min

(* If something bounds the set from above within it, Max finds it.         *)
LEMMA MaxIsGreatest ==
  ASSUME NEW S \in SUBSET Int, NEW m \in S, \A n \in S : n <= m
  PROVE  Max(S) = m
<1>1. \A n \in S : m >= n /\ n \in Int
  OBVIOUS
<1>2. Max(S) \in S /\ \A n \in S : Max(S) >= n
  BY <1>1 DEF Max
<1>3. Max(S) >= m /\ Max(S) <= m /\ Max(S) \in Int
  BY <1>1, <1>2
<1> QED BY <1>1, <1>3

(* A non-empty bounded set of naturals has a maximum.                      *)
LEMMA MaxIsUpperBound ==
  ASSUME NEW N \in Nat, NEW S \in SUBSET (0 .. N), S # {}
  PROVE  Max(S) \in S /\ \A n \in S : n <= Max(S)
<1> DEFINE T == { N - n : n \in S }
<1>0. \A n \in S : n \in Nat /\ N - n \in Nat /\ N - n \in T
  OBVIOUS
<1>1. T \subseteq Nat /\ T # {}
  BY <1>0
<1>2. Min(T) \in T /\ \A x \in T : Min(T) <= x
  <2> HIDE DEF T
  <2> QED BY <1>1, MinIsLowerBound
<1>3. PICK m \in S : Min(T) = N - m
  BY <1>2
<1>4. \A n \in S : n <= m
  <2> HIDE DEF T
  <2> QED BY <1>0, <1>2, <1>3
<1> HIDE DEF T
<1> QED BY <1>4, MaxIsGreatest

(* So has a non-empty finite one: the element with the fewest greater ones *)
(* has none.                                                               *)
LEMMA FiniteMax ==
  ASSUME NEW S \in SUBSET Nat, IsFiniteSet(S), S # {}
  PROVE  Max(S) \in S /\ \A n \in S : n <= Max(S)
<1> DEFINE Above(n) == { m \in S : m > n }
           T == { Cardinality(Above(n)) : n \in S }
<1>1. \A n \in S : IsFiniteSet(Above(n)) /\ Cardinality(Above(n)) \in Nat
  BY FS_Subset, FS_CardinalityType
<1>2. T \subseteq Nat /\ T # {}
  BY <1>1
<1>3. Min(T) \in T /\ \A x \in T : Min(T) <= x
  <2> HIDE DEF T
  <2> QED BY <1>2, MinIsLowerBound
<1>4. PICK m \in S : Min(T) = Cardinality(Above(m))
  BY <1>3
<1>5. \A n \in S : n <= m
  <2> SUFFICES ASSUME NEW n \in S, n > m PROVE FALSE
    OBVIOUS
  <2>1. Above(n) \subseteq Above(m) /\ n \in Above(m) /\ n \notin Above(n)
    <3>1. n \in Nat /\ m \in Nat /\ n > m /\ ~ (n > n)
      OBVIOUS
    <3>2. \A x \in S : x > n => x > m
      BY <3>1
    <3>3. Above(n) \subseteq Above(m)
      BY <3>2
    <3>4. n \in Above(m)
      BY <3>1
    <3> QED BY <3>1, <3>3, <3>4
  <2>2. Cardinality(Above(n)) \in T
    OBVIOUS
  <2>3. Cardinality(Above(m)) <= Cardinality(Above(n))
    BY <2>2, <1>3, <1>4
  <2> HIDE DEF Above
  <2>4. Cardinality(Above(n)) = Cardinality(Above(m))
    BY <2>1, <2>3, <1>1, FS_Subset
  <2>5. Above(n) = Above(m)
    BY <2>1, <2>4, <1>1, FS_Subset
  <2> QED BY <2>1, <2>5
<1> HIDE DEF T, Above
<1> QED BY <1>5, MaxIsGreatest

(* The larger of two.                                                      *)
LEMMA MaxOfTwo ==
  ASSUME NEW a \in Int, NEW b \in Int
  PROVE  Max({a, b}) = IF a >= b THEN a ELSE b
<1>1. CASE a >= b
  <2>1. \A n \in {a, b} : n <= a
    BY <1>1
  <2> QED BY <1>1, <2>1, MaxIsGreatest
<1>2. CASE ~ (a >= b)
  <2>1. \A n \in {a, b} : n <= b
    BY <1>2
  <2> QED BY <1>2, <2>1, MaxIsGreatest
<1> QED BY <1>1, <1>2

-----------------------------------------------------------------------------
(* Append keeps the elements in place and adds one at the end.             *)
LEMMA AppendFacts ==
  ASSUME NEW T, NEW q \in Seq(T), NEW e \in T
  PROVE  /\ Append(q, e) \in Seq(T)
         /\ Len(q) \in Nat /\ Len(Append(q, e)) = Len(q) + 1
         /\ DOMAIN Append(q, e) = DOMAIN q \cup {Len(q) + 1}
         /\ \A i \in DOMAIN q : Append(q, e)[i] = q[i] /\ i \in Nat /\ i < Len(q) + 1
         /\ Append(q, e)[Len(q) + 1] = e
<1>1. Len(q) \in Nat /\ DOMAIN q = 1 .. Len(q)
  OBVIOUS
<1>2. /\ Append(q, e) \in Seq(T)
      /\ Len(Append(q, e)) = Len(q) + 1
      /\ Append(q, e)[Len(q) + 1] = e
      /\ \A i \in 1 .. Len(q) : Append(q, e)[i] = q[i]
  OBVIOUS
<1>3. DOMAIN Append(q, e) = 1 .. Len(q) + 1
  BY <1>2
<1> QED BY <1>1, <1>2, <1>3

(* Taking the head moves the others one place forward.                     *)
LEMMA TailFacts ==
  ASSUME NEW T, NEW q \in Seq(T), q # << >>
  PROVE  /\ Tail(q) \in Seq(T) /\ Len(Tail(q)) = Len(q) - 1 /\ Len(q) \in Nat \ {0}
         /\ Head(q) \in T /\ Head(q) = q[1] /\ 1 \in DOMAIN q
         /\ \A i \in DOMAIN Tail(q) : i + 1 \in DOMAIN q /\ Tail(q)[i] = q[i + 1] /\ i \in Nat \ {0}
         /\ \A i \in DOMAIN q : i = 1 \/ (i - 1 \in DOMAIN Tail(q) /\ q[i] = Tail(q)[i - 1])
<1>1. Len(q) \in Nat \ {0} /\ DOMAIN q = 1 .. Len(q)
  OBVIOUS
<1>2. Tail(q) \in Seq(T) /\ Len(Tail(q)) = Len(q) - 1
  BY <1>1
<1>3. DOMAIN Tail(q) = 1 .. Len(q) - 1
  BY <1>2
<1>4. \A i \in 1 .. Len(q) - 1 : Tail(q)[i] = q[i + 1]
  BY <1>1
<1>5. Head(q) = q[1] /\ q[1] \in T
  BY <1>1
<1> QED BY <1>1, <1>2, <1>3, <1>4, <1>5
=============================================================================
