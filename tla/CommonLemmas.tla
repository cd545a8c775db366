---------------------------- MODULE CommonLemmas ----------------------------
(***************************************************************************)
(* What the proofs about several components use.                           *)
(*                                                                         *)
(* The queue of a semaphore: tasks wait in the order in which they asked,  *)
(* each in one place, and a permit that is given back goes to the first.   *)
(* Counting those who hold a permit.  The least of some natural numbers,   *)
(* which is how an argument by induction is put here: the least number     *)
(* that is a counterexample is not one.                                    *)
(*                                                                         *)
(* Then arithmetic: recursive definitions on the natural numbers, powers,  *)
(* quotients of quotients.                                                 *)
(***************************************************************************)
EXTENDS Integers, Sequences, FiniteSetTheorems, TLAPS

Elems(q) == {q[i] : i \in 1..Len(q)}
Distinct(q) == \A i, j \in 1..Len(q) : q[i] = q[j] => i = j

(* A queue in which nobody waits.                                          *)
LEMMA EmptyQueue == Distinct(<<>>) /\ Elems(<<>>) = {}
  BY DEF Distinct, Elems

(* Taking from a queue whose elements are distinct.                        *)
LEMMA Pop ==
    ASSUME NEW S, NEW q \in Seq(S), q # <<>>, Distinct(q)
    PROVE  /\ Head(q) \in S /\ Tail(q) \in Seq(S)
           /\ Head(q) \in Elems(q)
           /\ Elems(Tail(q)) = Elems(q) \ {Head(q)}
           /\ Distinct(Tail(q))
<1>1. /\ Head(q) \in S /\ Tail(q) \in Seq(S)
      /\ Len(q) \in Nat \ {0} /\ Len(Tail(q)) = Len(q) - 1 /\ Head(q) = q[1]
      /\ \A i \in 1..(Len(q) - 1) : Tail(q)[i] = q[i + 1]
  OBVIOUS
<1>2. Head(q) \in Elems(q)
  BY <1>1 DEF Elems
<1>3. Distinct(Tail(q))
  <2> SUFFICES ASSUME NEW i \in 1..Len(Tail(q)), NEW j \in 1..Len(Tail(q)),
                      Tail(q)[i] = Tail(q)[j]
               PROVE  i = j
    BY DEF Distinct
  <2>1. i + 1 \in 1..Len(q) /\ j + 1 \in 1..Len(q) /\ q[i + 1] = q[j + 1]
    BY <1>1
  <2>2. i + 1 = j + 1
    BY <2>1 DEF Distinct
  <2> QED
    BY <2>2, <1>1
<1>4. ASSUME NEW x \in Elems(Tail(q)) PROVE x \in Elems(q) \ {Head(q)}
  <2>1. PICK i \in 1..Len(Tail(q)) : x = Tail(q)[i]
    BY DEF Elems
  <2>2. i + 1 \in 1..Len(q) /\ x = q[i + 1] /\ 1 \in 1..Len(q) /\ i + 1 # 1
    BY <1>1, <2>1
  <2>3. x # q[1]
    BY <2>2 DEF Distinct
  <2> QED
    BY <2>2, <2>3, <1>1 DEF Elems
<1>5. ASSUME NEW x \in Elems(q), x # Head(q) PROVE x \in Elems(Tail(q))
  <2>1. PICK i \in 1..Len(q) : x = q[i]
    BY DEF Elems
  <2>2. i # 1
    BY <2>1, <1>5, <1>1
  <2>3. i - 1 \in 1..Len(Tail(q)) /\ Tail(q)[i - 1] = x
    <3>1. i - 1 \in 1..(Len(q) - 1) /\ (i - 1) + 1 = i
      BY <2>2, <1>1
    <3> QED
      BY <3>1, <2>1, <1>1
  <2> QED
    BY <2>3 DEF Elems
<1> QED
  BY <1>1, <1>2, <1>3, <1>4, <1>5

(* Adding to a queue whose elements are distinct.                          *)
LEMMA Push ==
    ASSUME NEW S, NEW q \in Seq(S), NEW x \in S, x \notin Elems(q), Distinct(q)
    PROVE  /\ Append(q, x) \in Seq(S)
           /\ Elems(Append(q, x)) = Elems(q) \cup {x}
           /\ Distinct(Append(q, x))
<1> DEFINE a == Append(q, x)
<1>1. /\ a \in Seq(S) /\ Len(q) \in Nat /\ Len(a) = Len(q) + 1
      /\ \A i \in 1..Len(q) : a[i] = q[i]
      /\ a[Len(q) + 1] = x
  OBVIOUS
<1> HIDE DEF a
<1>2. \A i \in 1..Len(a) : i \in 1..Len(q) \/ i = Len(q) + 1
  BY <1>1
<1>3. Elems(a) = Elems(q) \cup {x}
  <2>1. ASSUME NEW y \in Elems(a) PROVE y \in Elems(q) \cup {x}
    BY <1>1, <1>2 DEF Elems
  <2>2. ASSUME NEW y \in Elems(q) PROVE y \in Elems(a)
    <3>1. PICK i \in 1..Len(q) : y = q[i]
      BY DEF Elems
    <3>2. i \in 1..Len(a) /\ a[i] = y
      BY <3>1, <1>1
    <3> QED
      BY <3>2 DEF Elems
  <2>3. x \in Elems(a)
    <3>1. Len(q) + 1 \in 1..Len(a)
      BY <1>1
    <3> QED
      BY <3>1, <1>1 DEF Elems
  <2> QED
    BY <2>1, <2>2, <2>3
<1>4. Distinct(a)
  <2> SUFFICES ASSUME NEW i \in 1..Len(a), NEW j \in 1..Len(a), a[i] = a[j]
               PROVE  i = j
    BY DEF Distinct
  <2>1. CASE i \in 1..Len(q) /\ j \in 1..Len(q)
    BY <2>1, <1>1 DEF Distinct
  <2>2. CASE i = Len(q) + 1 /\ j = Len(q) + 1
    BY <2>2
  <2>3. CASE i \in 1..Len(q) /\ j = Len(q) + 1
    BY <2>3, <1>1 DEF Elems
  <2>4. CASE i = Len(q) + 1 /\ j \in 1..Len(q)
    BY <2>4, <1>1 DEF Elems
  <2> QED
    BY <1>2, <2>1, <2>2, <2>3, <2>4
<1> QED
  BY <1>1, <1>3, <1>4 DEF a

(* What adding to and taking from a queue leaves it.                       *)
LEMMA SeqTypes ==
    ASSUME NEW S, NEW q \in Seq(S)
    PROVE  /\ \A x \in S : Append(q, x) \in Seq(S)
           /\ q # <<>> => Head(q) \in S /\ Tail(q) \in Seq(S)
  OBVIOUS

(* Counting: a task that takes a permit or gives it back.                  *)
LEMMA Takes ==
    ASSUME NEW U, IsFiniteSet(U), NEW H \in SUBSET U, NEW x \in U, x \notin H
    PROVE  /\ Cardinality(H) \in Nat
           /\ Cardinality(H \cup {x}) = Cardinality(H) + 1
  BY FS_Subset, FS_CardinalityType, FS_AddElement

LEMMA GivesBack ==
    ASSUME NEW U, IsFiniteSet(U), NEW H \in SUBSET U, NEW x \in H
    PROVE  /\ Cardinality(H) \in Nat /\ Cardinality(H) > 0
           /\ Cardinality(H \ {x}) = Cardinality(H) - 1
<1>1. IsFiniteSet(H) /\ Cardinality(H) \in Nat
  BY FS_Subset, FS_CardinalityType
<1>2. Cardinality(H) # 0
  BY <1>1, FS_EmptySet
<1>3. Cardinality(H \ {x}) = Cardinality(H) - 1
  BY <1>1, FS_RemoveElement
<1> QED
  BY <1>1, <1>2, <1>3

(* A set of natural numbers that is not empty has a least element.         *)
LEMMA LeastElement ==
    ASSUME NEW T \in SUBSET Nat, T # {}
    PROVE  \E x \in T : \A y \in T : x <= y
<1> DEFINE R == OpToRel(<, Nat)
<1>1. \A x, y \in Nat : x < y => <<x, y>> \in R
  BY DEF OpToRel
<1>2. IsWellFoundedOn(R, Nat)
  BY NatLessThanWellFounded
<1> HIDE DEF R
<1>3. PICK x \in T : \A y \in T : ~ (<<y, x>> \in R)
  BY <1>2, WFMin
<1>4. \A y \in T : x <= y
  <2> SUFFICES ASSUME NEW y \in T, y < x PROVE FALSE
    OBVIOUS
  <2>1. <<y, x>> \in R
    BY <1>1
  <2> QED
    BY <2>1, <1>3
<1> QED
  BY <1>4

-----------------------------------------------------------------------------
(* A function from the natural numbers that is given by its value at zero  *)
(* and by each next value exists: there is a run of it to every number,    *)
(* and two runs agree as far as both go.  This is what makes a recursive   *)
(* definition one that a proof can unfold.                                 *)
LEMMA Iterate ==
    ASSUME NEW s0 \in Nat, NEW step \in [Nat -> Nat]
    PROVE  \E f \in [Nat -> Nat] :
               f[0] = s0 /\ \A n \in Nat : f[n + 1] = step[f[n]]
<1> DEFINE Run(n, g) == /\ g \in [0..n -> Nat] /\ g[0] = s0
                        /\ \A i \in 0..(n - 1) : g[i + 1] = step[g[i]]
<1>1. ASSUME NEW n \in Nat PROVE \E g : Run(n, g)
  <2> DEFINE T == {i \in Nat : ~ \E g : Run(i, g)}
  <2> SUFFICES ASSUME T # {} PROVE FALSE
    OBVIOUS
  <2>1. PICK m \in T : \A i \in T : m <= i
    BY LeastElement
  <2>2. CASE m = 0
    <3>1. Run(0, [i \in 0..0 |-> s0])
      OBVIOUS
    <3> QED
      BY <3>1, <2>1, <2>2
  <2>3. CASE m # 0
    <3>1. m - 1 \in Nat /\ m - 1 \notin T
      <4> HIDE DEF Run
      <4> QED
        BY <2>1, <2>3
    <3>2. PICK g : Run(m - 1, g)
      BY <3>1
    <3> DEFINE h == [i \in 0..m |-> IF i = m THEN step[g[m - 1]] ELSE g[i]]
    <3>3. g[m - 1] \in Nat /\ step[g[m - 1]] \in Nat /\ 0 \in 0..m /\ m \in Nat
      BY <3>1, <3>2, <2>3
    <3>4. ASSUME NEW i \in 0..m PROVE h[i] \in Nat
      <4>1. i # m => i \in 0..(m - 1)
        BY <3>3
      <4> QED
        BY <4>1, <3>2, <3>3
    <3>5. ASSUME NEW i \in 0..(m - 1) PROVE h[i + 1] = step[h[i]]
      <4>1. i \in 0..m /\ i + 1 \in 0..m /\ i # m /\ h[i] = g[i]
        BY <3>3
      <4>2. CASE i + 1 = m
        <5>1. i = m - 1 /\ h[i + 1] = step[g[m - 1]]
          BY <4>1, <4>2, <3>3
        <5> QED
          BY <5>1, <4>1
      <4>3. CASE i + 1 # m
        <5>1. i \in 0..((m - 1) - 1)
          BY <4>3, <3>3
        <5> QED
          BY <5>1, <4>1, <4>3, <3>2
      <4> QED
        BY <4>2, <4>3
    <3>6. h[0] = s0 /\ h \in [0..m -> Nat]
      BY <3>2, <3>3, <3>4, <2>3
    <3>7. Run(m, h)
      BY <3>5, <3>6
    <3> QED
      BY <3>7, <2>1
  <2> QED
    BY <2>2, <2>3
<1>2. ASSUME NEW n \in Nat, NEW g, Run(n, g), NEW h, Run(n + 1, h)
      PROVE  g[n] = h[n]
  <2> DEFINE T == {i \in 0..n : g[i] # h[i]}
  <2> SUFFICES ASSUME T # {} PROVE FALSE
    OBVIOUS
  <2>1. PICK m \in T : \A i \in T : m <= i
    <3>1. T \in SUBSET Nat
      BY <1>2
    <3> QED
      BY <3>1, LeastElement
  <2>2. m # 0
    BY <1>2, <2>1
  <2>3. m - 1 \in 0..(n - 1) /\ m - 1 \notin T /\ (m - 1) + 1 = m
    BY <2>1, <2>2
  <2>4. g[m - 1] = h[m - 1] /\ m - 1 \in 0..((n + 1) - 1)
    BY <2>3
  <2>5. g[m] = step[g[m - 1]] /\ h[m] = step[h[m - 1]]
    BY <2>3, <2>4, <1>2
  <2> QED
    BY <2>1, <2>4, <2>5
<1> DEFINE R(n) == CHOOSE g : Run(n, g)
           f == [n \in Nat |-> R(n)[n]]
<1>3. ASSUME NEW n \in Nat PROVE Run(n, R(n))
  BY <1>1
<1>4. f \in [Nat -> Nat]
  <2> SUFFICES ASSUME NEW n \in Nat PROVE R(n)[n] \in Nat
    OBVIOUS
  <2> HIDE DEF R
  <2> QED
    BY <1>3
<1>5. f[0] = s0
  <2>1. Run(0, R(0))
    BY <1>3
  <2> HIDE DEF R
  <2> QED
    BY <2>1
<1>6. ASSUME NEW n \in Nat PROVE f[n + 1] = step[f[n]]
  <2> HIDE DEF R
  <2>0. n + 1 \in Nat
    OBVIOUS
  <2>1. Run(n, R(n)) /\ Run(n + 1, R(n + 1))
    <3> HIDE DEF Run
    <3> QED
      BY <2>0, <1>3
  <2>2. R(n)[n] = R(n + 1)[n]
    BY <2>1, <1>2
  <2>3. R(n + 1)[n + 1] = step[R(n + 1)[n]]
    BY <2>1
  <2>4. f[n] = R(n)[n] /\ f[n + 1] = R(n + 1)[n + 1]
    BY <2>0
  <2> HIDE DEF f
  <2> QED
    BY <2>2, <2>3, <2>4
<1> QED
  BY <1>4, <1>5, <1>6

(* A product of natural numbers is one.                                    *)
LEMMA Product ==
    ASSUME NEW a \in Nat, NEW b \in Nat
    PROVE  a * b \in Nat
  OBVIOUS

(* There is a function that satisfies the recursive definition of the      *)
(* powers of b.                                                            *)
LEMMA PowersExist ==
    ASSUME NEW b \in Nat
    PROVE  \E f : f = [n \in Nat |-> IF n = 0 THEN 1 ELSE b * f[n - 1]]
<1> DEFINE Body(g) == [n \in Nat |-> IF n = 0 THEN 1 ELSE b * g[n - 1]]
           times == [k \in Nat |-> b * k]
<1>1. PICK f \in [Nat -> Nat] : f[0] = 1 /\ \A n \in Nat : f[n + 1] = times[f[n]]
  <2>1. times \in [Nat -> Nat] /\ 1 \in Nat
    BY Product
  <2> HIDE DEF times
  <2> QED
    BY <2>1, Iterate
<1>2. \A n \in Nat : f[n] \in Nat /\ f[n + 1] = b * f[n]
  BY <1>1
<1>3. f = Body(f)
  <2>1. ASSUME NEW n \in Nat PROVE f[n] = IF n = 0 THEN 1 ELSE b * f[n - 1]
    <3>1. CASE n # 0
      <4>1. n - 1 \in Nat /\ (n - 1) + 1 = n
        BY <3>1
      <4>2. f[(n - 1) + 1] = b * f[n - 1]
        BY <4>1, <1>2
      <4> QED
        BY <4>1, <4>2, <3>1
    <3> QED
      BY <3>1, <1>1
  <2> HIDE DEF times
  <2> QED
    BY <2>1, <1>1
<1> QED
  BY <1>3

(* A function that does is that of the powers of b.                        *)
LEMMA PowerLaw ==
    ASSUME NEW b \in Nat, NEW P, P = [n \in Nat |-> IF n = 0 THEN 1 ELSE b * P[n - 1]]
    PROVE  P \in [Nat -> Nat] /\ P[0] = 1 /\ \A n \in Nat : P[n + 1] = b * P[n]
<1>1. P[0] = 1 /\ \A n \in Nat : P[n + 1] = b * P[n]
  <2>1. P[0] = 1
    OBVIOUS
  <2>2. ASSUME NEW n \in Nat PROVE P[n + 1] = b * P[n]
    <3>1. n + 1 \in Nat /\ n + 1 # 0 /\ (n + 1) - 1 = n
      OBVIOUS
    <3>2. P[n + 1] = b * P[(n + 1) - 1]
      BY <3>1
    <3> QED
      BY <3>1, <3>2
  <2> QED
    BY <2>1, <2>2
<1>2. \A n \in Nat : P[n] \in Nat
  <2> DEFINE T == {n \in Nat : P[n] \notin Nat}
  <2> SUFFICES ASSUME T # {} PROVE FALSE
    OBVIOUS
  <2>1. PICK m \in T : \A i \in T : m <= i
    BY LeastElement
  <2>2. m # 0
    BY <2>1, <1>1
  <2>3. m - 1 \in Nat /\ m - 1 \notin T /\ (m - 1) + 1 = m
    BY <2>1, <2>2
  <2>4. P[m - 1] \in Nat /\ P[m] = b * P[m - 1]
    BY <2>3, <1>1
  <2>5. b * P[m - 1] \in Nat
    BY <2>4, Product
  <2> QED
    BY <2>1, <2>4, <2>5
<1>3. DOMAIN P = Nat /\ P = [n \in Nat |-> P[n]]
  OBVIOUS
<1> QED
  BY <1>1, <1>2, <1>3

(* Quotient and remainder.                                                 *)
LEMMA Division ==
    ASSUME NEW a \in Nat, NEW b \in Nat, b >= 1
    PROVE  /\ a \div b \in Nat /\ a % b \in Nat /\ a % b < b
           /\ a = b * (a \div b) + (a % b)
  OBVIOUS

(* The quotient and the remainder are the only ones there are.             *)
LEMMA Quotient ==
    ASSUME NEW b \in Nat, b >= 1, NEW q \in Nat, NEW r \in Nat, r < b
    PROVE  (b * q + r) \div b = q /\ (b * q + r) % b = r
<1> DEFINE a == b * q + r
           p == a \div b
           s == a % b
<1>1. a \in Nat
  OBVIOUS
<1>2. p \in Nat /\ s \in Nat /\ s < b /\ a = b * p + s
  BY <1>1, Division
<1>3. ASSUME NEW x \in Nat, NEW y \in Nat, x < y PROVE b * x + b <= b * y
  <2>1. y - (x + 1) \in Nat /\ b * (y - (x + 1)) \in Nat
    BY <1>3, Product
  <2>2. b * (y - (x + 1)) = b * y - (b * x + b)
    OBVIOUS
  <2>3. b * y \in Nat /\ b * x \in Nat
    OBVIOUS
  <2> QED
    BY <2>1, <2>2, <2>3
<1>4. b * p + s = b * q + r /\ b * p \in Nat /\ b * q \in Nat
  BY <1>2
<1> HIDE DEF p, s, a
<1>5. ~ (p < q)
  BY <1>2, <1>3, <1>4
<1>6. ~ (q < p)
  BY <1>2, <1>3, <1>4
<1>7. p = q
  BY <1>2, <1>5, <1>6
<1>8. s = r
  BY <1>2, <1>4, <1>7
<1> QED
  BY <1>7, <1>8 DEF p, s, a

(* Dividing by a product is dividing by one factor after the other, and so *)
(* are the remainders put together.                                        *)
LEMMA Quotients ==
    ASSUME NEW a \in Nat, NEW b \in Nat, b >= 1, NEW c \in Nat, c >= 1
    PROVE  /\ (a \div b) \div c = a \div (b * c)
           /\ a % (b * c) = (a % b) + b * ((a \div b) % c)
<1> DEFINE q == a \div b
           r == a % b
           p == q \div c
           s == q % c
<1>1. q \in Nat /\ r \in Nat /\ r < b /\ a = b * q + r
  BY Division
<1>2. p \in Nat /\ s \in Nat /\ s < c /\ q = c * p + s
  BY <1>1, Division
<1> HIDE DEF q, r, p, s
<1>3. b * (c * p + s) = (b * c) * p + b * s
  BY <1>2
<1>4. a = (b * c) * p + (b * s + r)
  <2>1. b * q = (b * c) * p + b * s
    BY <1>2, <1>3
  <2>2. b * q \in Nat /\ (b * c) * p \in Nat /\ b * s \in Nat
    BY <1>1, <1>2
  <2>3. ASSUME NEW x \in Nat, NEW y \in Nat, NEW z \in Nat, z = x + y, a = z + r
        PROVE  a = x + (y + r)
    BY <1>1, <2>3
  <2> QED
    BY <1>1, <2>1, <2>2, <2>3
<1>5. b * s + r \in Nat /\ b * s + r < b * c /\ b * c \in Nat /\ b * c >= 1
  <2>0. c - (s + 1) \in Nat
    BY <1>2
  <2>1. b * (c - (s + 1)) \in Nat /\ b * (c - (s + 1)) = b * c - (b * s + b)
    BY <2>0, <1>2, Product
  <2>2. b * s \in Nat /\ b * c \in Nat
    BY <1>2
  <2>3. b * s + b <= b * c
    BY <2>1, <2>2
  <2>4. ASSUME NEW d \in Nat, NEW t \in Nat, t + b <= d
        PROVE  t + r \in Nat /\ t + r < d /\ d \in Nat /\ d >= 1
    BY <1>1, <2>4
  <2> QED
    BY <2>2, <2>3, <2>4
<1> DEFINE d == b * c
           e == b * s + r
<1>6. d \in Nat /\ d >= 1 /\ e \in Nat /\ e < d /\ a = d * p + e
  BY <1>4, <1>5
<1>7. a \div d = p /\ a % d = e
  <2> HIDE DEF d, e
  <2> QED
    BY <1>2, <1>6, Quotient
<1>8. a \div (b * c) = p /\ a % (b * c) = r + b * s
  <2>1. b * s \in Nat
    BY <1>2
  <2>2. b * s + r = r + b * s
    BY <2>1, <1>1
  <2> QED
    BY <1>7, <2>2
<1> QED
  BY <1>8 DEF p, q, r, s
=============================================================================
