---------------------------- MODULE CodecProofs ----------------------------
(***************************************************************************)
(* FrameCodec: a reader that is behind a byte stream by any number of      *)
(* bytes, and may be cut off at any of them, yields the frames that were   *)
(* written and nothing else, and ends cleanly only where they end.         *)
(* MethodRegistry: a request runs the method its caller named, wherever    *)
(* its stream was cut off, and a name without a version finds the latest.  *)
(*                                                                         *)
(* First the arithmetic of LEB128: powers of two, the bytes of a varint in *)
(* closed form (the recursive definition has it as its one solution), and  *)
(* what the reader's sum is after each byte.                               *)
(* Then the bytes of the frames laid end to end, and the reader's place    *)
(* among them.                                                             *)
(* Then method names: the bytes of one on the wire, the characters of its  *)
(* canonical text, which parse takes apart again, and dispatch.            *)
(* Then the registry: the keys that answer for a name, and their order.    *)
(***************************************************************************)
EXTENDS FrameCodec, MethodRegistry, CommonLemmas

(* The powers of two.                                                      *)
LEMMA Pow2Law ==
    /\ Pow2 \in [Nat -> Nat] /\ Pow2[0] = 1
    /\ \A n \in Nat : Pow2[n + 1] = 2 * Pow2[n]
<1> DEFINE Body(g) == [n \in Nat |-> IF n = 0 THEN 1 ELSE 2 * g[n - 1]]
<1>1. Pow2 = CHOOSE g : g = Body(g)
  BY DEF Pow2
<1>2. 2 \in Nat
  OBVIOUS
<1>3. \E g : g = Body(g)
  BY <1>2, PowersExist
<1>4. Pow2 = Body(Pow2)
  <2> HIDE DEF Body
  <2> QED
    BY <1>1, <1>3
<1> QED
  BY <1>2, <1>4, PowerLaw

(* One power after another.                                                *)
LEMMA Pow2Step ==
    ASSUME NEW n \in Nat
    PROVE  Pow2[n] \in Nat /\ Pow2[n + 1] = 2 * Pow2[n]
  BY Pow2Law

(* A power of two exceeds its exponent.                                    *)
LEMMA Pow2Positive == \A n \in Nat : Pow2[n] \in Nat /\ n < Pow2[n]
<1> DEFINE T == {n \in Nat : ~ (n < Pow2[n])}
<1>0. \A n \in Nat : Pow2[n] \in Nat
  BY Pow2Law
<1> SUFFICES ASSUME T # {} PROVE FALSE
  BY <1>0
<1>1. PICK m \in T : \A i \in T : m <= i
  BY LeastElement
<1>2. m # 0
  BY <1>1, Pow2Law
<1>3. m - 1 \in Nat /\ m - 1 \notin T /\ (m - 1) + 1 = m
  BY <1>1, <1>2
<1>4. m - 1 < Pow2[m - 1] /\ Pow2[m] = 2 * Pow2[m - 1] /\ Pow2[m - 1] \in Nat
  BY <1>3, Pow2Law
<1>5. m < Pow2[m]
  BY <1>3, <1>4
<1> QED
  BY <1>1, <1>5

(* The power of a sum is the product of the powers.                        *)
LEMMA Pow2Sum ==
    ASSUME NEW m \in Nat, NEW n \in Nat
    PROVE  Pow2[m + n] = Pow2[m] * Pow2[n]
<1> DEFINE T == {i \in Nat : Pow2[m + i] # Pow2[m] * Pow2[i]}
<1> SUFFICES ASSUME T # {} PROVE FALSE
  OBVIOUS
<1>1. PICK i \in T : \A j \in T : i <= j
  BY LeastElement
<1>2. Pow2[m] \in Nat /\ Pow2[0] = 1
  BY Pow2Law
<1>3. i # 0
  BY <1>1, <1>2
<1>4. /\ i - 1 \in Nat /\ i - 1 \notin T /\ (i - 1) + 1 = i
      /\ (m + (i - 1)) + 1 = m + i /\ m + (i - 1) \in Nat
  BY <1>1, <1>3
<1>5. Pow2[m + (i - 1)] = Pow2[m] * Pow2[i - 1]
  BY <1>4
<1>6. Pow2[m + i] = 2 * Pow2[m + (i - 1)] /\ Pow2[i] = 2 * Pow2[i - 1] /\ Pow2[i - 1] \in Nat
  BY <1>4, Pow2Step
<1>7. ASSUME NEW a \in Nat, NEW b \in Nat PROVE 2 * (a * b) = a * (2 * b)
  OBVIOUS
<1>8. Pow2[m + i] = Pow2[m] * Pow2[i]
  BY <1>2, <1>5, <1>6, <1>7
<1> QED
  BY <1>1, <1>8

(* Powers grow with the exponent.                                          *)
LEMMA Pow2Monotone ==
    ASSUME NEW m \in Nat, NEW n \in Nat, m <= n
    PROVE  Pow2[m] <= Pow2[n]
<1>1. n - m \in Nat /\ m + (n - m) = n
  OBVIOUS
<1>2. Pow2[n] = Pow2[m] * Pow2[n - m]
  BY <1>1, Pow2Sum
<1>3. Pow2[m] \in Nat /\ Pow2[n - m] \in Nat /\ Pow2[n - m] >= 1
  BY <1>1, Pow2Positive
<1>4. ASSUME NEW a \in Nat, NEW b \in Nat, b >= 1 PROVE a <= a * b
  <2>1. b - 1 \in Nat /\ a * (b - 1) = a * b - a
    BY <1>4
  <2>2. a * (b - 1) \in Nat /\ a * b \in Nat
    BY <2>1, Product
  <2> QED
    BY <2>1, <2>2
<1> QED
  BY <1>2, <1>3, <1>4

(* What the least bit of the n-th group of a varint counts for, and the    *)
(* number of groups an integer takes: the least k with v below the weight  *)
(* of the k-th.                                                            *)
Weight(n) == Pow2[n * GroupBits]

(* Each weight is that of the group before times 2^GroupBits.              *)
LEMMA WeightLaw ==
    ASSUME NEW n \in Nat
    PROVE  /\ Weight(n) \in Nat /\ Weight(n) >= 1
           /\ Weight(n + 1) = Weight(n) * High /\ Weight(0) = 1
           /\ n < Weight(n)
           /\ High \in Nat /\ High >= 2
<1>1. GroupBits \in Nat /\ GroupBits >= 1
  BY CodecAssumption
<1>2. n * GroupBits \in Nat /\ n * GroupBits >= n
  <2>1. GroupBits - 1 \in Nat /\ n * (GroupBits - 1) = n * GroupBits - n
    BY <1>1
  <2>2. n * (GroupBits - 1) \in Nat /\ n * GroupBits \in Nat
    BY <1>1, <2>1, Product
  <2> QED
    BY <2>1, <2>2
<1>3. (n + 1) * GroupBits = n * GroupBits + GroupBits /\ 0 * GroupBits = 0
  BY <1>1
<1>4. Weight(n + 1) = Weight(n) * High
  BY <1>1, <1>2, <1>3, Pow2Sum DEF Weight, High
<1>5. Weight(n) \in Nat /\ n * GroupBits < Weight(n)
  BY <1>2, Pow2Positive DEF Weight
<1>6. High \in Nat /\ High > 1
  BY <1>1, Pow2Positive DEF High
<1>7. Weight(0) = 1
  BY <1>3, Pow2Law DEF Weight
<1> QED
  BY <1>2, <1>4, <1>5, <1>6, <1>7

(* Later groups weigh more.                                                *)
LEMMA WeightMonotone ==
    ASSUME NEW m \in Nat, NEW n \in Nat, m <= n
    PROVE  Weight(m) <= Weight(n)
<1>1. GroupBits \in Nat
  BY CodecAssumption
<1>2. m * GroupBits \in Nat /\ n * GroupBits \in Nat
  BY <1>1, Product
<1>3. n - m \in Nat /\ (n - m) * GroupBits = n * GroupBits - m * GroupBits
  BY <1>1
<1>4. (n - m) * GroupBits \in Nat
  BY <1>1, <1>3, Product
<1>5. m * GroupBits <= n * GroupBits
  BY <1>2, <1>3, <1>4
<1> QED
  BY <1>2, <1>5, Pow2Monotone DEF Weight

(* Ten bytes, in the code, hold every 64-bit integer.                      *)
LEMMA VarintBytesSuffice ==
    /\ VarintBytes \in Nat
    /\ Pow2[Width] <= Weight(VarintBytes)
<1>1. GroupBits \in Nat /\ GroupBits >= 1 /\ Width \in Nat
  BY CodecAssumption
<1> DEFINE a == Width + GroupBits - 1
<1>2. a \in Nat /\ a = Width + GroupBits - 1
  BY <1>1
<1>3. VarintBytes = a \div GroupBits
  BY DEF VarintBytes
<1> HIDE DEF a
<1>4. /\ a \div GroupBits \in Nat /\ a % GroupBits \in Nat /\ a % GroupBits < GroupBits
      /\ a = GroupBits * (a \div GroupBits) + (a % GroupBits)
  BY <1>1, <1>2, Division
<1>5. VarintBytes * GroupBits \in Nat /\ Width <= VarintBytes * GroupBits
  <2>1. VarintBytes \in Nat /\ a = GroupBits * VarintBytes + (a % GroupBits)
    BY <1>3, <1>4
  <2>2. GroupBits * VarintBytes \in Nat /\ GroupBits * VarintBytes = VarintBytes * GroupBits
    BY <1>1, <2>1
  <2> QED
    BY <1>1, <1>2, <1>4, <2>1, <2>2
<1>6. Pow2[Width] <= Weight(VarintBytes)
  BY <1>1, <1>5, Pow2Monotone DEF Weight
<1> QED
  BY <1>3, <1>4, <1>6

(* The number of bytes of the varint of v.                                 *)
Sized(v, k) == v < Weight(k) /\ (k = 1 \/ Weight(k - 1) <= v)
Size(v) == CHOOSE k \in Nat \ {0} : Sized(v, k)

(* There is such a number.                                                 *)
LEMMA SizeIs ==
    ASSUME NEW v \in Nat
    PROVE  Size(v) \in Nat \ {0} /\ Sized(v, Size(v))
<1> DEFINE T == {k \in Nat \ {0} : v < Weight(k)}
<1>1. v + 1 \in T
  <2>1. v + 1 \in Nat /\ v + 1 < Weight(v + 1) /\ Weight(v + 1) \in Nat
    BY WeightLaw
  <2> QED
    BY <2>1
<1>2. T \in SUBSET Nat
  OBVIOUS
<1>3. PICK k \in T : \A i \in T : k <= i
  BY <1>1, <1>2, LeastElement
<1>4. k = 1 \/ Weight(k - 1) <= v
  <2> SUFFICES ASSUME k # 1 PROVE Weight(k - 1) <= v
    OBVIOUS
  <2>1. k - 1 \in Nat \ {0} /\ k - 1 \notin T
    BY <1>3
  <2>2. Weight(k - 1) \in Nat
    BY <2>1, WeightLaw
  <2> QED
    BY <2>1, <2>2
<1>5. k \in Nat \ {0} /\ Sized(v, k)
  BY <1>4 DEF Sized
<1> QED
  BY <1>5 DEF Size

(* There is only one.                                                      *)
LEMMA SizeUnique ==
    ASSUME NEW v \in Nat, NEW k \in Nat \ {0}, Sized(v, k)
    PROVE  k = Size(v)
<1> DEFINE s == Size(v)
<1>1. s \in Nat \ {0} /\ Sized(v, s)
  BY SizeIs
<1> HIDE DEF s
<1>2. ASSUME NEW x \in Nat \ {0}, Sized(v, x), NEW y \in Nat \ {0}, Sized(v, y), x < y
      PROVE  FALSE
  <2>1. y - 1 \in Nat /\ x <= y - 1 /\ y # 1
    BY <1>2
  <2>2. Weight(x) <= Weight(y - 1) /\ Weight(x) \in Nat /\ Weight(y - 1) \in Nat
    BY <2>1, WeightMonotone, WeightLaw
  <2>3. v < Weight(x) /\ Weight(y - 1) <= v
    BY <1>2, <2>1 DEF Sized
  <2> QED
    BY <2>2, <2>3
<1>3. ~ (k < s) /\ ~ (s < k)
  BY <1>1, <1>2
<1>4. k = s
  BY <1>1, <1>3
<1> QED
  BY <1>4 DEF s

(* The bytes of a varint without recursion: each has its group of the      *)
(* integer, and all but the last the continuation bit.                     *)
Group(v, i) == ((v \div Weight(i - 1)) % High) + (IF i < Size(v) THEN High ELSE 0)
Groups(v) == [i \in 1..Size(v) |-> Group(v, i)]

(* An integer above one group has one byte more than what is left of it.   *)
LEMMA SizeStep ==
    ASSUME NEW v \in Nat
    PROVE  /\ v < High => Size(v) = 1
           /\ v >= High => /\ v \div High \in Nat /\ v \div High < v
                           /\ Size(v) = Size(v \div High) + 1
<1>1. /\ Weight(0) = 1 /\ Weight(1) = High /\ High \in Nat /\ High >= 2
      /\ \A n \in Nat : Weight(n) \in Nat /\ Weight(n + 1) = Weight(n) * High
  <2>1. 0 \in Nat /\ 0 + 1 = 1 /\ 1 * High = High
    BY WeightLaw
  <2> QED
    BY <2>1, WeightLaw
<1>2. ASSUME v < High PROVE Size(v) = 1
  <2>1. Sized(v, 1)
    BY <1>1, <1>2 DEF Sized
  <2> QED
    BY <2>1, SizeUnique
<1>3. ASSUME v >= High
      PROVE  v \div High \in Nat /\ v \div High < v /\ Size(v) = Size(v \div High) + 1
  <2> DEFINE w == v \div High
             r == v % High
  <2>0. High \in Nat /\ High >= 1
    BY <1>1
  <2>1. w \in Nat /\ r \in Nat /\ r < High /\ v = High * w + r
    BY <2>0, Division
  <2>2. Size(w) \in Nat \ {0} /\ Sized(w, Size(w))
    BY <2>1, SizeIs
  <2> DEFINE k == Size(w)
  <2>3. k \in Nat \ {0} /\ Sized(w, k)
    BY <2>2
  <2> HIDE DEF w, r, k
  <2>4. w < v
    <3>1. High - 2 \in Nat /\ (High - 2) * w = High * w - 2 * w
      BY <1>1, <2>1
    <3>2. (High - 2) * w \in Nat /\ High * w \in Nat
      BY <1>1, <2>1, <3>1, Product
    <3>3. v >= 2 * w + r
      BY <2>1, <3>1, <3>2
    <3>4. w # 0 \/ r = v
      BY <2>1, <1>1
    <3> QED
      BY <3>3, <3>4, <1>3, <1>1, <2>1
  <2>5. v < Weight(k + 1)
    <3>1. w + 1 <= Weight(k) /\ Weight(k) \in Nat
      BY <2>1, <2>3, <1>1 DEF Sized
    <3> DEFINE d == Weight(k) - (w + 1)
    <3>2. d \in Nat /\ Weight(k) = d + (w + 1)
      BY <3>1, <2>1
    <3> HIDE DEF d
    <3>3. Weight(k + 1) = (d + (w + 1)) * High
      BY <2>3, <3>2, <1>1
    <3>4. (d + (w + 1)) * High = d * High + (High * w + High)
      BY <2>1, <3>2, <1>1
    <3>5. d * High \in Nat /\ High * w \in Nat
      BY <2>1, <3>2, <1>1, Product
    <3> QED
      BY <2>1, <3>3, <3>4, <3>5, <1>1
  <2>6. Weight(k) <= v
    <3>1. CASE k = 1
      BY <3>1, <1>1, <1>3
    <3>2. CASE k # 1
      <4>1. k - 1 \in Nat /\ (k - 1) + 1 = k /\ Weight(k - 1) <= w /\ Weight(k - 1) \in Nat
        BY <3>2, <2>3, <1>1 DEF Sized
      <4> DEFINE d == w - Weight(k - 1)
      <4>2. d \in Nat /\ w = d + Weight(k - 1)
        BY <4>1, <2>1
      <4> HIDE DEF d
      <4>3. Weight(k) = Weight(k - 1) * High
        BY <4>1, <1>1
      <4>4. High * w = High * d + Weight(k - 1) * High
        BY <4>1, <4>2, <1>1
      <4>5. High * d \in Nat /\ Weight(k - 1) * High \in Nat
        BY <4>1, <4>2, <1>1, Product
      <4> QED
        BY <2>1, <4>3, <4>4, <4>5
    <3> QED
      BY <3>1, <3>2
  <2>7. k + 1 \in Nat \ {0} /\ Sized(v, k + 1)
    BY <2>3, <2>5, <2>6 DEF Sized
  <2>8. k + 1 = Size(v)
    BY <2>7, SizeUnique
  <2>9. w = v \div High
    BY DEF w
  <2> QED
    BY <2>1, <2>4, <2>8, <2>9 DEF k
<1> QED
  BY <1>2, <1>3

(* The bytes in one go satisfy the equation that leb128::write::unsigned   *)
(* loops by.                                                               *)
LEMMA GroupsStep ==
    ASSUME NEW v \in Nat
    PROVE  Groups(v) = IF v < High THEN << v >>
                       ELSE << High + (v % High) >> \o Groups(v \div High)
<1>1. High \in Nat /\ High >= 1 /\ Weight(0) = 1
  <2>1. 0 \in Nat
    OBVIOUS
  <2> QED
    BY <2>1, WeightLaw
<1>2. ASSUME v < High PROVE Groups(v) = << v >>
  <2>1. Size(v) = 1
    BY <1>2, SizeStep
  <2>2. v \div 1 = v /\ v % High = v
    BY <1>1, <1>2
  <2>3. Group(v, 1) = v
    BY <1>1, <2>1, <2>2 DEF Group
  <2> QED
    BY <2>1, <2>3 DEF Groups
<1>3. ASSUME v >= High
      PROVE  Groups(v) = << High + (v % High) >> \o Groups(v \div High)
  <2> DEFINE w == v \div High
             k == Size(w)
  <2>1. w \in Nat /\ Size(v) = k + 1 /\ k \in Nat \ {0}
    <3>1. w \in Nat
      BY <1>1, Division
    <3> QED
      BY <3>1, <1>3, SizeStep, SizeIs
  <2>2. Group(v, 1) = High + (v % High)
    <3>1. v \div 1 = v /\ 1 < Size(v) /\ v % High \in Nat
      BY <1>1, <2>1
    <3> QED
      BY <1>1, <3>1 DEF Group
  <2>3. ASSUME NEW i \in 1..k PROVE Group(v, i + 1) = Group(w, i)
    <3>1. i - 1 \in Nat /\ (i + 1) - 1 = (i - 1) + 1 /\ i \in Nat /\ i + 1 \in Nat
      BY <2>1
    <3>2. Weight(i - 1) \in Nat /\ Weight(i - 1) >= 1 /\ Weight(i) = Weight(i - 1) * High
      BY <3>1, WeightLaw
    <3>3. Weight(i) = High * Weight(i - 1)
      BY <3>2, <1>1
    <3>4. v \div Weight(i) = w \div Weight(i - 1)
      <4> DEFINE p == Weight(i - 1)
      <4>1. p \in Nat /\ p >= 1 /\ Weight(i) = High * p
        BY <3>2, <3>3
      <4> HIDE DEF p
      <4>2. (v \div High) \div p = v \div (High * p)
        BY <4>1, <1>1, Quotients
      <4> QED
        BY <4>1, <4>2 DEF p, w
    <3>5. (i + 1 < Size(v)) <=> (i < k)
      BY <2>1, <3>1
    <3> QED
      BY <3>1, <3>4, <3>5 DEF Group
  <2> HIDE DEF w, k
  <2>4. w = v \div High /\ Groups(w) = [i \in 1..k |-> Group(w, i)]
    BY DEF w, k, Groups
  <2>5. Groups(v) = [i \in 1..(k + 1) |-> Group(v, i)]
    BY <2>1 DEF Groups
  <2> DEFINE h == High + (v % High)
             rest == Groups(w)
  <2>6. Group(v, 1) = h
    BY <2>2
  <2> HIDE DEF h
  <2>7. Groups(v) = << h >> \o [i \in 1..k |-> Group(w, i)]
    <3> DEFINE lhs == [i \in 1..(k + 1) |-> Group(v, i)]
               rhs == << h >> \o [i \in 1..k |-> Group(w, i)]
    <3>1. Len([i \in 1..k |-> Group(w, i)]) = k /\ Len(rhs) = k + 1
      BY <2>1
    <3>2. \A i \in 1..(k + 1) : rhs[i] = IF i = 1 THEN h ELSE Group(w, i - 1)
      BY <2>1
    <3>3. ASSUME NEW i \in 1..(k + 1) PROVE lhs[i] = rhs[i]
      <4>1. CASE i = 1
        BY <4>1, <2>6, <3>2, <2>1
      <4>2. CASE i # 1
        <5>1. i - 1 \in 1..k /\ (i - 1) + 1 = i
          BY <4>2, <2>1
        <5>2. Group(v, i) = Group(w, i - 1)
          BY <5>1, <2>3
        <5> QED
          BY <5>2, <4>2, <3>2
      <4> QED
        BY <4>1, <4>2
    <3>4. rhs = [i \in 1..(k + 1) |-> rhs[i]]
      BY <2>1, <3>1
    <3> HIDE DEF rhs
    <3>5. lhs = rhs
      BY <3>3, <3>4
    <3> QED
      BY <2>5, <3>5 DEF rhs
  <2> QED
    BY <2>4, <2>7 DEF h
<1>4. v < High \/ v >= High
  BY <1>1
<1> QED
  BY <1>1, <1>2, <1>3, <1>4

(* leb128_write is therefore this: the equation has no other solution, as *)
(* the least integer at which two of them differ shows.                    *)
LEMMA WriteIsGroups ==
    ASSUME NEW v \in Nat
    PROVE  leb128_write[v] = Groups(v)
<1> DEFINE Rest(g, u) == << High + (u % High) >> \o g[u \div High]
           Body(g) == [u \in Nat |-> IF u < High THEN << u >> ELSE Rest(g, u)]
           closed == [u \in Nat |-> Groups(u)]
<1>1. High \in Nat /\ High >= 1
  BY WeightLaw, 0 \in Nat
<1>2. closed = Body(closed)
  <2>1. ASSUME NEW u \in Nat
        PROVE  Groups(u) = IF u < High THEN << u >> ELSE Rest(closed, u)
    <3>1. u \div High \in Nat
      BY <1>1, Division
    <3>2. closed[u \div High] = Groups(u \div High)
      BY <3>1
    <3> HIDE DEF closed
    <3> QED
      BY <3>2, GroupsStep
  <2> QED
    BY <2>1
<1>3. leb128_write = CHOOSE g : g = Body(g)
  BY DEF leb128_write
<1>4. leb128_write = Body(leb128_write)
  <2> HIDE DEF Body
  <2> QED
    BY <1>2, <1>3
<1> DEFINE T == {u \in Nat : leb128_write[u] # Groups(u)}
<1>5. ASSUME T # {} PROVE FALSE
  <2>1. PICK u \in T : \A i \in T : u <= i
    BY <1>5, LeastElement
  <2>2. leb128_write[u] = IF u < High THEN << u >> ELSE Rest(leb128_write, u)
    BY <2>1, <1>4
  <2>3. CASE u < High
    BY <2>1, <2>2, <2>3, GroupsStep
  <2>4. CASE u >= High
    <3>1. u \div High \in Nat /\ u \div High < u
      BY <2>1, <2>4, SizeStep
    <3>2. u \div High \notin T
      BY <2>1, <3>1
    <3>3. leb128_write[u \div High] = Groups(u \div High)
      BY <3>1, <3>2
    <3> QED
      BY <2>1, <2>2, <2>4, <3>3, <1>1, GroupsStep
  <2> QED
    BY <2>1, <2>3, <2>4, <1>1
<1> QED
  BY <1>5

(* A byte, and an integer of the width that is decoded.                    *)
Uint == 0..(Pow2[Width] - 1)

(* The lengths that are written and the limit are such integers.           *)
LEMMA LengthTypes ==
    /\ Lengths \subseteq Uint /\ MaxLen \in Uint /\ Uint \subseteq Nat
    /\ Pow2[Width] \in Nat /\ Pow2[Width] >= 1
<1>1. Pow2[Width] \in Nat /\ Pow2[Width] >= 1
  BY CodecAssumption, Pow2Positive
<1> QED
  BY <1>1, CodecAssumption DEF Uint

(* The varint of such an integer has no more bytes than the reader takes.  *)
LEMMA SizeBound ==
    ASSUME NEW v \in Uint
    PROVE  Size(v) \in 1..VarintBytes
<1>1. v \in Nat /\ v < Pow2[Width] /\ Pow2[Width] \in Nat
  BY LengthTypes DEF Uint
<1>2. Size(v) \in Nat \ {0} /\ (Size(v) = 1 \/ Weight(Size(v) - 1) <= v)
  BY <1>1, SizeIs DEF Sized
<1> DEFINE s == Size(v)
<1>3. s \in Nat \ {0} /\ (s = 1 \/ Weight(s - 1) <= v)
  BY <1>2
<1> HIDE DEF s
<1>4. VarintBytes \in Nat /\ Pow2[Width] <= Weight(VarintBytes) /\ Weight(VarintBytes) \in Nat
  BY VarintBytesSuffice, WeightLaw
<1>5. VarintBytes # 0
  <2>1. CodecAssumption /\ Width \in Nat /\ Width >= 1
    BY CodecAssumption
  <2>2. Pow2[Width] > 1
    BY <2>1, Pow2Positive
  <2>3. Weight(0) = 1
    BY WeightLaw, 0 \in Nat
  <2> QED
    BY <1>1, <1>4, <2>2, <2>3
<1>6. ASSUME s > VarintBytes PROVE FALSE
  <2>1. s # 1 /\ s - 1 \in Nat /\ VarintBytes <= s - 1
    BY <1>3, <1>4, <1>5, <1>6
  <2>2. Weight(VarintBytes) <= Weight(s - 1) /\ Weight(s - 1) \in Nat
    BY <1>4, <2>1, WeightMonotone, WeightLaw
  <2> QED
    BY <1>1, <1>3, <1>4, <2>1, <2>2
<1>7. s \in 1..VarintBytes
  BY <1>3, <1>4, <1>6
<1> QED
  BY <1>7 DEF s

(* What leb128 writes, read_varint_u64 reads back, for every integer of    *)
(* the width: only the last byte is without the continuation bit, each     *)
(* byte adds its group to what has been read, nothing is shifted out, and  *)
(* after the last one the sum is the integer.                              *)
THEOREM VarintRead ==
    ASSUME NEW v \in Uint
    PROVE  LET e == leb128_write[v] IN
           /\ e \in Seq(Byte) /\ Len(e) = Size(v)
           /\ \A i \in 1..Size(v) :
                 /\ e[i] \in Byte
                 /\ (e[i] < High) <=> (i = Size(v))
                 /\ v % Weight(i) = (v % Weight(i - 1)) + Shifted(e[i], i - 1)
           /\ v % Weight(Size(v)) = v /\ v % Weight(0) = 0
<1> DEFINE e == leb128_write[v]
           s == Size(v)
<1>1. v \in Nat /\ v < Pow2[Width] /\ Pow2[Width] \in Nat
  BY LengthTypes DEF Uint
<1>2. e = Groups(v)
  BY <1>1, WriteIsGroups
<1>3. s \in Nat \ {0} /\ v < Weight(s)
  BY <1>1, SizeIs DEF Sized
<1>4. High \in Nat /\ High >= 2 /\ Weight(0) = 1
  BY WeightLaw, 0 \in Nat
<1>5. ASSUME NEW i \in 1..s
      PROVE  /\ Group(v, i) \in Byte
             /\ (Group(v, i) < High) <=> (i = s)
             /\ v % Weight(i) = (v % Weight(i - 1)) + Shifted(Group(v, i), i - 1)
  <2> DEFINE p == Weight(i - 1)
             d == (v \div p) % High
  <2>1. i \in Nat /\ i - 1 \in Nat /\ (i - 1) + 1 = i /\ (i < s <=> i # s)
    BY <1>3
  <2>2. p \in Nat /\ p >= 1 /\ Weight(i) = p * High
    BY <2>1, WeightLaw
  <2>3. v \div p \in Nat /\ d \in Nat /\ d < High
    <3> HIDE DEF p
    <3>1. v \div p \in Nat
      BY <1>1, <2>2
    <3> QED
      BY <3>1, <1>4
  <2>4. Group(v, i) = d + (IF i < s THEN High ELSE 0)
    BY DEF Group
  <2> DEFINE D == Group(v, i)
  <2>5. D = d + (IF i < s THEN High ELSE 0)
    BY <2>4
  <2>6. v % (p * High) = (v % p) + p * d
    <3> HIDE DEF p
    <3>1. High >= 1
      BY <1>4
    <3>2. v % (p * High) = (v % p) + p * ((v \div p) % High)
      BY <1>1, <1>4, <2>2, <3>1, Quotients
    <3> QED
      BY <3>2, Zenon DEF d
  <2>7. v % p \in Nat /\ v % (p * High) \in Nat /\ v % (p * High) <= v
    <3> HIDE DEF p
    <3>1. v % p \in Nat
      BY <1>1, <2>2
    <3> DEFINE q == p * High
    <3>2. q \in Nat /\ q >= 1
      <4>1. /\ High - 1 \in Nat /\ p * (High - 1) \in Nat
            /\ p * (High - 1) = p * High - p /\ p * High \in Nat
        BY <1>4, <2>2, Product
      <4> QED
        BY <4>1, <2>2
    <3> HIDE DEF q
    <3>3. /\ v % q \in Nat /\ v \div q \in Nat
          /\ v = q * (v \div q) + (v % q) /\ q * (v \div q) \in Nat
      BY <1>1, <3>2, Division, Product
    <3>4. v % q <= v
      BY <3>3, <1>1
    <3> QED
      BY <3>1, <3>3, <3>4 DEF q
  <2> HIDE DEF D, d, p
  <2>8. D \in Byte /\ ((D < High) <=> (i = s)) /\ D % High = d
    <3>1. CASE i < s
      BY <3>1, <2>1, <2>3, <2>5, <1>4 DEF Byte
    <3>2. CASE i = s
      BY <3>2, <2>1, <2>3, <2>5, <1>3, <1>4 DEF Byte
    <3> QED
      BY <3>1, <3>2, <2>1, <1>3
  <2>9. p * d \in Nat /\ d * p = p * d /\ p * d <= v
    <3>1. p * d \in Nat /\ d * p = p * d
      BY <2>2, <2>3, Product
    <3>2. ASSUME NEW x \in Nat, NEW y \in Nat, NEW z \in Nat, x = y + z, x <= v
          PROVE  z <= v
      BY <1>1, <3>2
    <3>3. p * d <= v
      BY <2>6, <2>7, <3>1, <3>2
    <3> QED
      BY <3>1, <3>3
  <2>10. Shifted(D, i - 1) = p * d
    <3>1. Shifted(D, i - 1) = (d * p) % Pow2[Width]
      BY <2>8 DEF Shifted, p, Weight
    <3> QED
      BY <3>1, <2>9, <1>1
  <2> QED
    BY <2>2, <2>6, <2>8, <2>10 DEF D, p
<1>6. e \in Seq(Byte) /\ Len(e) = s /\ \A i \in 1..s : e[i] = Group(v, i)
  <2>1. \A i \in 1..s : Group(v, i) \in Byte
    BY <1>5
  <2>2. e = [i \in 1..s |-> Group(v, i)]
    BY <1>2 DEF Groups
  <2> HIDE DEF e, s
  <2> QED
    BY <1>3, <2>1, <2>2
<1>7. v % Weight(s) = v
  <2>1. Weight(s) \in Nat
    BY <1>3, WeightLaw
  <2> HIDE DEF s
  <2> QED
    BY <1>1, <1>3, <2>1
<1>8. v % Weight(0) = 0
  BY <1>1, <1>4
<1> HIDE DEF e, s
<1>9. /\ e \in Seq(Byte) /\ Len(e) = s
      /\ \A i \in 1..s :
            /\ e[i] \in Byte
            /\ (e[i] < High) <=> (i = s)
            /\ v % Weight(i) = (v % Weight(i - 1)) + Shifted(e[i], i - 1)
      /\ v % Weight(s) = v /\ v % Weight(0) = 0
  BY <1>5, <1>6, <1>7, <1>8
<1> QED
  BY <1>9 DEF e, s

(* The bytes of a frame: the opcode, and for a chunk the varint of its     *)
(* length and the body.                                                    *)
LEMMA EncodeIs ==
    ASSUME NEW f \in Frame
    PROVE  /\ Encode(f) \in Seq(Byte) /\ Len(Encode(f)) \in Nat \ {0}
           /\ Encode(f)[1] = f.op /\ f.op \in {Chunk, End} /\ f.len \in Uint
           /\ f.op = End => f.len = 0 /\ Len(Encode(f)) = 1
           /\ f.op = Chunk =>
                 /\ Len(Encode(f)) = 1 + Size(f.len) + f.len
                 /\ \A i \in 1..Size(f.len) : Encode(f)[1 + i] = leb128_write[f.len][i]
<1>1. High \in Nat /\ High >= 2
  BY WeightLaw, 0 \in Nat
<1>2. Chunk \in Byte /\ End \in Byte /\ Chunk # End
  BY <1>1 DEF Chunk, End, Byte
<1>3. f.op \in {Chunk, End} /\ f.len \in Uint /\ (f.op = End => f.len = 0)
  <2>1. 0 \in Uint
    BY LengthTypes DEF Uint
  <2>2. CASE f \in [op : {Chunk}, len : Lengths]
    <3>1. f.op = Chunk /\ f.len \in Lengths
      BY <2>2
    <3> QED
      BY <3>1, <1>2, LengthTypes
  <2>3. CASE f = [op |-> End, len |-> 0]
    BY <2>1, <2>3
  <2> QED
    BY <2>2, <2>3 DEF Frame
<1>4. CASE f.op = End
  <2>1. Encode(f) = << f.op >>
    BY <1>4 DEF Encode, encode_varint_u64
  <2> QED
    BY <2>1, <1>2, <1>3, <1>4
<1>5. CASE f.op = Chunk
  <2> DEFINE e == leb128_write[f.len]
             s == Size(f.len)
             body == [i \in 1..f.len |-> Fill]
             n == f.len
  <2>1. Encode(f) = (<< f.op >> \o e) \o body
    BY <1>2, <1>5 DEF Encode, encode_varint_u64
  <2>2. e \in Seq(Byte) /\ Len(e) = s
    BY <1>3, VarintRead
  <2>3. s \in Nat \ {0} /\ n \in Nat
    BY <1>3, LengthTypes, SizeIs
  <2>4. body \in Seq(Byte) /\ Len(body) = n
    <3>1. Fill \in Byte
      BY CodecAssumption DEF Byte
    <3>2. ASSUME NEW S, NEW x \in S, NEW m \in Nat
          PROVE  [i \in 1..m |-> x] \in Seq(S) /\ Len([i \in 1..m |-> x]) = m
      OBVIOUS
    <3>3. n \in Nat
      BY <2>3
    <3> HIDE DEF n
    <3>4. [i \in 1..n |-> Fill] \in Seq(Byte) /\ Len([i \in 1..n |-> Fill]) = n
      BY <3>1, <3>2, <3>3
    <3> QED
      BY <3>4 DEF n
  <2> HIDE DEF e, s, body, n
  <2>5. << f.op >> \in Seq(Byte)
    BY <1>2, <1>3
  <2> DEFINE a == << f.op >> \o e
  <2>6. /\ a \in Seq(Byte) /\ Len(a) = 1 + s /\ a[1] = f.op
        /\ \A i \in 1..s : a[1 + i] = e[i]
    BY <2>2, <2>3, <2>5
  <2> HIDE DEF a
  <2>7. /\ a \o body \in Seq(Byte) /\ Len(a \o body) = 1 + s + n
        /\ (a \o body)[1] = f.op
        /\ \A i \in 1..s : (a \o body)[1 + i] = e[i]
    BY SMTT(30), <2>3, <2>4, <2>6
  <2>8. Encode(f) = a \o body
    BY <2>1 DEF a
  <2>9. Len(Encode(f)) = 1 + s + n /\ Len(Encode(f)) \in Nat \ {0}
    BY <2>3, <2>7, <2>8
  <2>10. /\ Encode(f) \in Seq(Byte) /\ Encode(f)[1] = f.op
         /\ \A i \in 1..s : Encode(f)[1 + i] = e[i]
    BY <2>7, <2>8
  <2>11. f.op # End
    BY <1>2, <1>5
  <2> QED
    BY <1>3, <2>9, <2>10, <2>11 DEF s, n, e
<1> QED
  BY <1>3, <1>4, <1>5

(* The frames the writer has begun, the one it stopped in included; where  *)
(* each of them starts, and the bytes of each as far as they have arrived. *)
Begun == sent \o torn
Starts(fs, at) ==
    /\ at \in [0..Len(fs) -> Nat] /\ at[0] = 0
    /\ \A k \in 1..Len(fs) : at[k] = at[k - 1] + Len(Encode(fs[k]))
Laid(fs, bs, at) ==
    \A k \in 1..Len(fs) : \A j \in 1..Len(Encode(fs[k])) :
        at[k - 1] + j <= Len(bs) => bs[at[k - 1] + j] = Encode(fs[k])[j]

(* The stream stops after the last frame or within it, or anywhere once    *)
(* the connection has failed.                                              *)
Stops(at) ==
    /\ Len(torn) <= 1 /\ (end = "open" => torn = <<>>)
    /\ torn = <<>> => Len(bytes) <= at[Len(sent)]
    /\ torn # <<>> => Len(bytes) < at[Len(Begun)]
    /\ end # "lost" => /\ torn = <<>> => Len(bytes) = at[Len(sent)]
                       /\ torn # <<>> => at[Len(sent)] < Len(bytes)

(* The frame that is being read, and how far into it the reader is.        *)
Current == Begun[Len(out) + 1]
InChunk == Len(out) < Len(Begun) /\ Current.op = Chunk /\ op = Chunk
Placed(at) ==
    /\ phase = "opcode" => pos = at[Len(out)] /\ acc = 0 /\ shift = 0
    /\ phase = "varint" /\ result # "MalformedFrame" =>
          /\ InChunk /\ shift < Size(Current.len)
          /\ pos = at[Len(out)] + 1 + shift /\ acc = Current.len % Weight(shift)
    /\ phase = "body" =>
          /\ InChunk /\ acc = Current.len /\ acc <= MaxLen
          /\ pos = at[Len(out)] + 1 + Size(Current.len)

(* What the properties say.                                                *)
Read == Len(out) <= Len(sent) /\ \A i \in 1..Len(out) : out[i] = sent[i]
Refused == Len(out) < Len(Begun) /\ Current.len > MaxLen
Outcome ==
    /\ Read
    /\ result = "None" => torn = <<>> /\ out = sent /\ end # "open"
    /\ result = "MalformedFrame" => Refused /\ phase = "varint"

(* The inductive invariant.  The properties say nothing of how far the     *)
(* reader is; what makes them hold is that it is always at a known place   *)
(* of a known frame, and that nothing but that frame's bytes lies ahead of *)
(* it.                                                                     *)
CodecInv ==
    /\ TypeOK /\ Outcome
    /\ \E at : Starts(Begun, at) /\ Laid(Begun, bytes, at) /\ Stops(at) /\ Placed(at)

(* A frame is its opcode and its length.                                   *)
LEMMA FrameIs ==
    ASSUME NEW f \in Frame
    PROVE  f = [op |-> f.op, len |-> f.len]
<1>1. CASE f \in [op : {Chunk}, len : Lengths]
  BY <1>1
<1>2. CASE f = [op |-> End, len |-> 0]
  BY <1>2
<1> QED
  BY <1>1, <1>2 DEF Frame

(* Later frames start further on.                                          *)
LEMMA StartsMonotone ==
    ASSUME NEW fs \in Seq(Frame), NEW at, Starts(fs, at)
    PROVE  \A i, j \in 0..Len(fs) : /\ at[i] \in Nat
                                    /\ i <= j => at[i] <= at[j]
                                    /\ i < j => at[i] < at[j]
<1>0. Len(fs) \in Nat /\ \A i \in 0..Len(fs) : at[i] \in Nat
  <2>1. at \in [0..Len(fs) -> Nat]
    BY Zenon DEF Starts
  <2>2. Len(fs) \in Nat
    OBVIOUS
  <2> QED
    BY <2>1, <2>2
<1>1. ASSUME NEW k \in 1..Len(fs) PROVE k - 1 \in 0..Len(fs) /\ at[k - 1] < at[k]
  <2>1. fs[k] \in Frame /\ k - 1 \in 0..Len(fs) /\ k \in 0..Len(fs)
    BY <1>0
  <2>2. Len(Encode(fs[k])) \in Nat \ {0}
    BY <2>1, EncodeIs
  <2> QED
    BY <2>1, <2>2, <1>0 DEF Starts
<1> SUFFICES ASSUME NEW i \in 0..Len(fs) PROVE \A j \in 0..Len(fs) : i < j => at[i] < at[j]
  BY <1>0
<1> DEFINE T == {j \in 0..Len(fs) : i < j /\ ~ (at[i] < at[j])}
<1> SUFFICES ASSUME T # {} PROVE FALSE
  OBVIOUS
<1>2. PICK j \in T : \A x \in T : j <= x
  <2>1. T \in SUBSET Nat
    BY <1>0
  <2> QED
    BY <2>1, LeastElement
<1>3. j \in 1..Len(fs) /\ i < j
  BY <1>0, <1>2
<1>4. j - 1 \in 0..Len(fs) /\ at[j - 1] < at[j]
  BY <1>1, <1>3
<1>5. CASE i = j - 1
  BY <1>2, <1>4, <1>5
<1>6. CASE i # j - 1
  <2>1. i < j - 1 /\ j - 1 \notin T
    BY <1>0, <1>2, <1>3, <1>4, <1>6
  <2>2. at[i] < at[j - 1]
    BY <2>1, <1>4
  <2> QED
    BY <2>2, <1>0, <1>2, <1>3, <1>4
<1> QED
  BY <1>5, <1>6

(* Two sequences, one after the other.                                     *)
LEMMA Concat ==
    ASSUME NEW S, NEW s \in Seq(S), NEW t \in Seq(S)
    PROVE  /\ s \o t \in Seq(S) /\ Len(s \o t) = Len(s) + Len(t)
           /\ Len(s) \in Nat /\ Len(t) \in Nat
           /\ \A i \in 1..Len(s) : (s \o t)[i] = s[i]
           /\ \A i \in 1..Len(t) : (s \o t)[Len(s) + i] = t[i]
  OBVIOUS

(* Two sequences of bytes one after the other.                             *)
LEMMA BytesConcat ==
    ASSUME NEW s \in Seq(Byte), NEW t \in Seq(Byte)
    PROVE  /\ s \o t \in Seq(Byte) /\ Len(s \o t) = Len(s) + Len(t)
           /\ Len(s) \in Nat /\ Len(t) \in Nat
           /\ \A j \in 1..Len(s) : (s \o t)[j] = s[j]
           /\ \A j \in 1..Len(t) : (s \o t)[Len(s) + j] = t[j]
  OBVIOUS

(* A frame more, whole or in part, after the frames that have all arrived. *)
LEMMA StartsAppend ==
    ASSUME NEW fs \in Seq(Frame), NEW f \in Frame, NEW at, Starts(fs, at),
           NEW bs \in Seq(Byte), Laid(fs, bs, at), Len(bs) = at[Len(fs)],
           NEW p \in Seq(Byte), Len(p) <= Len(Encode(f)),
           \A j \in 1..Len(p) : p[j] = Encode(f)[j]
    PROVE  \E to : /\ Starts(Append(fs, f), to) /\ Laid(Append(fs, f), bs \o p, to)
                   /\ \A k \in 0..Len(fs) : to[k] = at[k]
                   /\ to[Len(fs) + 1] = at[Len(fs)] + Len(Encode(f))
<1> DEFINE m == Len(fs)
           gs == Append(fs, f)
           to == [k \in 0..(m + 1) |-> IF k = m + 1 THEN at[m] + Len(Encode(f)) ELSE at[k]]
           cs == bs \o p
<1>1. /\ m \in Nat /\ gs \in Seq(Frame) /\ Len(gs) = m + 1
      /\ \A k \in 1..m : gs[k] = fs[k] /\ fs[k] \in Frame
      /\ gs[m + 1] = f
  OBVIOUS
<1>2. \A k \in 0..m : at[k] \in Nat
  BY DEF Starts
<1>3. Len(Encode(f)) \in Nat \ {0}
  BY EncodeIs
<1>4. /\ cs \in Seq(Byte) /\ Len(cs) = Len(bs) + Len(p) /\ Len(bs) \in Nat /\ Len(p) \in Nat
      /\ \A i \in 1..Len(bs) : cs[i] = bs[i]
      /\ \A i \in 1..Len(p) : cs[Len(bs) + i] = p[i]
  <2>1. bs \in Seq(Byte) /\ p \in Seq(Byte)
    OBVIOUS
  <2> QED
    BY <2>1, BytesConcat, Zenon
<1> HIDE DEF gs, cs
<1>5. /\ \A k \in 0..m : to[k] = at[k]
      /\ to[m + 1] = at[m] + Len(Encode(f))
  BY <1>1
<1>6. Starts(gs, to)
  <2>1. to \in [0..(m + 1) -> Nat]
    BY <1>1, <1>2, <1>3
  <2>2. ASSUME NEW k \in 1..(m + 1) PROVE to[k] = to[k - 1] + Len(Encode(gs[k]))
    <3> HIDE DEF to
    <3>1. CASE k = m + 1
      <4>1. k - 1 = m /\ m \in 0..m
        BY <3>1, <1>1
      <4> QED
        BY <3>1, <4>1, <1>1, <1>5
    <3>2. CASE k # m + 1
      <4>1. k \in 1..m /\ k \in 0..m /\ k - 1 \in 0..m
        BY <3>2, <1>1
      <4> QED
        BY <4>1, <1>1, <1>5 DEF Starts
    <3> QED
      BY <3>1, <3>2
  <2>3. to[0] = 0
    BY <1>1, <1>5 DEF Starts
  <2> HIDE DEF to
  <2> QED
    BY <2>1, <2>2, <2>3, <1>1 DEF Starts
<1> HIDE DEF to
<1>7. Laid(gs, cs, to)
  <2> SUFFICES ASSUME NEW k \in 1..(m + 1), NEW j \in 1..Len(Encode(gs[k])),
                      to[k - 1] + j <= Len(cs)
               PROVE  cs[to[k - 1] + j] = Encode(gs[k])[j]
    BY <1>1 DEF Laid
  <2>1. CASE k = m + 1
    <3>1. to[k - 1] = Len(bs) /\ gs[k] = f /\ j \in Nat
      BY <2>1, <1>1, <1>5
    <3>2. j \in 1..Len(p)
      BY <3>1, <1>4
    <3> QED
      BY <3>1, <3>2, <1>4
  <2>2. CASE k # m + 1
    <3>1. k \in 1..m /\ k - 1 \in 0..m /\ k \in 0..m /\ m \in 0..m /\ k <= m
      BY <2>2, <1>1
    <3>2. gs[k] = fs[k] /\ fs[k] \in Frame /\ to[k - 1] = at[k - 1]
      BY <3>1, <1>1, <1>5
    <3>3. at[k] = at[k - 1] + Len(Encode(fs[k])) /\ at[k] <= at[m]
      BY <3>1, StartsMonotone DEF Starts
    <3>4. Len(Encode(fs[k])) \in Nat
      BY <3>2, EncodeIs
    <3> DEFINE n == at[k - 1] + j
    <3>5. /\ j \in 1..Len(Encode(fs[k])) /\ j \in Nat /\ j >= 1
          /\ at[k - 1] \in Nat /\ at[k] \in Nat
      BY <3>1, <3>2, <3>4, <1>2
    <3>6. n \in Nat /\ n >= 1 /\ n <= Len(bs)
      <4>1. at[m] \in Nat
        BY <3>1, <1>2
      <4>2. at[k] <= Len(bs) /\ Len(bs) \in Nat
        BY <3>3, <1>4
      <4>3. at[k - 1] + j <= at[k]
        BY <3>3, <3>4, <3>5
      <4>4. ASSUME NEW x \in Nat, NEW y \in Nat, NEW z \in Nat, NEW w \in Nat,
                   y >= 1, x + y <= z, z <= w
            PROVE  x + y \in Nat /\ x + y >= 1 /\ x + y <= w
        BY <4>4
      <4> QED
        BY <3>5, <4>2, <4>3, <4>4
    <3>7. bs[n] = Encode(fs[k])[j]
      BY <3>1, <3>5, <3>6 DEF Laid
    <3>8. cs[n] = bs[n] /\ to[k - 1] + j = n
      <4> HIDE DEF n
      <4>1. n \in 1..Len(bs)
        BY <3>6, <1>4
      <4> QED
        BY <4>1, <1>4, <3>2 DEF n
    <3> QED
      BY <3>2, <3>7, <3>8
  <2> QED
    BY <2>1, <2>2
<1> QED
  BY <1>5, <1>6, <1>7 DEF gs, cs

(* What the types say of the frames and the bytes.                         *)
LEMMA BegunIs ==
    ASSUME TypeOK
    PROVE  /\ Begun \in Seq(Frame) /\ Len(sent) \in Nat /\ Len(torn) \in Nat /\ Len(out) \in Nat
           /\ Len(Begun) = Len(sent) + Len(torn)
           /\ \A i \in 1..Len(sent) : Begun[i] = sent[i]
           /\ Len(bytes) \in Nat /\ \A i \in 1..Len(bytes) : bytes[i] \in Byte
           /\ pos \in Nat /\ pos <= Len(bytes) /\ bytes \in Seq(Byte)
<1>1. sent \in Seq(Frame) /\ torn \in Seq(Frame)
  BY DEF TypeOK
<1>2. bytes \in Seq(Byte) /\ pos \in 0..Len(bytes) /\ Len(out) \in Nat
  BY DEF TypeOK, Byte
<1> QED
  BY <1>1, <1>2 DEF Begun

(* Nothing written, nothing read.                                          *)
LEMMA CodecInit == Init => CodecInv
<1> SUFFICES ASSUME Init PROVE CodecInv
  OBVIOUS
<1>1. High \in Nat /\ High >= 2 /\ VarintBytes \in Nat
  BY WeightLaw, 0 \in Nat, VarintBytesSuffice
<1>2. TypeOK
  <2>1. 0 \in 0..(Pow2[Width] - 1)
    BY LengthTypes
  <2>2. sent = << >> /\ torn = << >> /\ bytes = << >> /\ pos = 0 /\ out = << >>
    BY DEF Init
  <2> QED
    BY <1>1, <2>1, <2>2 DEF Init, TypeOK, Byte
<1>3. Outcome
  BY DEF Init, Outcome, Read
<1> DEFINE at == [k \in 0..0 |-> 0]
<1>4. Begun = << >> /\ Len(Begun) = 0
  BY DEF Init, Begun
<1>5. Starts(Begun, at) /\ Laid(Begun, bytes, at)
  BY <1>4 DEF Starts, Laid
<1>6. Stops(at) /\ Placed(at)
  BY <1>4 DEF Init, Stops, Placed
<1> HIDE DEF at
<1> QED
  BY <1>2, <1>3, <1>5, <1>6 DEF CodecInv

(* write_frame and Tear: a frame is begun, whole or as far as the writer   *)
(* gets.                                                                   *)
LEMMA WriterSteps ==
    ASSUME CodecInv, NEW f \in Frame, write_frame(f) \/ Tear(f)
    PROVE  CodecInv'
<1> USE DEF CodecInv
<1>0. TypeOK /\ Outcome
  OBVIOUS
<1>1. PICK at : Starts(Begun, at) /\ Laid(Begun, bytes, at) /\ Stops(at) /\ Placed(at)
  OBVIOUS
<1>2. /\ torn = << >> /\ end = "open" /\ result # "None"
      /\ Len(bytes) = at[Len(sent)]
  BY <1>0, <1>1 DEF write_frame, Tear, Stops, Outcome
<1>3. /\ Begun \in Seq(Frame) /\ Begun = sent /\ sent \in Seq(Frame)
      /\ bytes \in Seq(Byte) /\ Len(Begun) \in Nat /\ Len(out) \in Nat
  BY <1>0, <1>2, BegunIs DEF Begun, TypeOK
<1>4. /\ Encode(f) \in Seq(Byte) /\ Len(Encode(f)) \in Nat \ {0}
  BY EncodeIs
<1>5. PICK p \in Seq(Byte) :
          /\ bytes' = bytes \o p /\ Len(p) <= Len(Encode(f)) /\ p # << >>
          /\ \A j \in 1..Len(p) : p[j] = Encode(f)[j]
          /\ write_frame(f) => p = Encode(f)
          /\ Tear(f) => Len(p) < Len(Encode(f))
  <2>1. CASE write_frame(f) /\ ~ Tear(f)
    <3>1. bytes' = bytes \o Encode(f) /\ Encode(f) # << >>
      BY <2>1, <1>4 DEF write_frame
    <3> QED
      BY <3>1, <2>1, <1>4
  <2>2. CASE Tear(f)
    <3>1. PICK i \in 1..(Len(Encode(f)) - 1) : bytes' = bytes \o SubSeq(Encode(f), 1, i)
      BY <2>2 DEF Tear
    <3> DEFINE e == Encode(f)
               p == SubSeq(e, 1, i)
    <3>2. e \in Seq(Byte) /\ i \in 1..(Len(e) - 1)
      BY <1>4, <3>1
    <3> HIDE DEF e
    <3>3. p \in Seq(Byte) /\ Len(p) = i /\ p # << >> /\ \A j \in 1..i : p[j] = e[j]
      BY <3>2
    <3>4. end' = "fin" /\ end = "open"
      BY <2>2 DEF Tear
    <3>5. ~ write_frame(f)
      BY <3>4 DEF write_frame
    <3>6. /\ bytes' = bytes \o p /\ Len(p) < Len(Encode(f)) /\ Len(p) <= Len(Encode(f))
          /\ \A j \in 1..Len(p) : p[j] = Encode(f)[j]
      <4>1. i < Len(e) /\ i <= Len(e)
        BY <3>2
      <4> HIDE DEF p
      <4> QED
        BY <3>1, <3>3, <4>1 DEF e, p
    <3> HIDE DEF p
    <3> QED
      BY <3>3, <3>5, <3>6
  <2> QED
    BY <2>1, <2>2
<1>6. Begun' = Append(Begun, f)
  <2>1. CASE write_frame(f)
    <3>1. sent' = Append(sent, f) /\ torn' = << >>
      BY <2>1, <1>2 DEF write_frame
    <3> QED
      BY <3>1, <1>3 DEF Begun
  <2>2. CASE Tear(f)
    <3>1. sent' = sent /\ torn' = << f >>
      BY <2>2, <1>2 DEF Tear
    <3> QED
      BY <3>1, <1>3 DEF Begun
  <2> QED
    BY <2>1, <2>2
<1>7. PICK to : /\ Starts(Append(Begun, f), to) /\ Laid(Append(Begun, f), bytes \o p, to)
                /\ \A k \in 0..Len(Begun) : to[k] = at[k]
                /\ to[Len(Begun) + 1] = at[Len(Begun)] + Len(Encode(f))
  <2>1. Len(bytes) = at[Len(Begun)]
    BY <1>2, <1>3
  <2>2. /\ Begun \in Seq(Frame) /\ bytes \in Seq(Byte) /\ p \in Seq(Byte)
        /\ Starts(Begun, at) /\ Laid(Begun, bytes, at) /\ Len(p) <= Len(Encode(f))
        /\ \A j \in 1..Len(p) : p[j] = Encode(f)[j]
    BY <1>1, <1>3, <1>5
  <2> HIDE DEF CodecInv
  <2> QED
    BY SMTT(30), <2>1, <2>2, StartsAppend
<1>8. Starts(Begun', to) /\ Laid(Begun', bytes', to)
  BY <1>5, <1>6, <1>7
<1>9. readerVars' = readerVars
  BY DEF write_frame, Tear
<1>10. /\ sent' \in Seq(Frame) /\ torn' \in Seq(Frame) /\ Len(sent') \in Nat
       /\ Len(sent) <= Len(sent') /\ Len(torn') <= 1
       /\ \A i \in 1..Len(sent) : sent'[i] = sent[i]
       /\ write_frame(f) => sent' = Append(sent, f) /\ torn' = << >> /\ end' = "open"
       /\ Tear(f) => sent' = sent /\ torn' = << f >> /\ end' = "fin"
  <2>1. CASE write_frame(f)
    <3>1. sent' = Append(sent, f) /\ torn' = << >> /\ end' = "open"
      BY <2>1, <1>2 DEF write_frame
    <3>2. ~ Tear(f)
      BY <3>1 DEF Tear
    <3>3. << >> \in Seq(Frame) /\ Len(<< >>) = 0
      OBVIOUS
    <3>4. /\ Append(sent, f) \in Seq(Frame) /\ Len(Append(sent, f)) = Len(sent) + 1
          /\ Len(sent) \in Nat
          /\ \A i \in 1..Len(sent) : Append(sent, f)[i] = sent[i]
      BY <1>3
    <3> QED
      BY <3>1, <3>2, <3>3, <3>4
  <2>2. CASE Tear(f)
    <3>1. sent' = sent /\ torn' = << f >> /\ end' = "fin"
      BY <2>2 DEF Tear
    <3>2. ~ write_frame(f)
      BY <3>1, <1>2 DEF write_frame
    <3>3. << f >> \in Seq(Frame) /\ Len(<< f >>) = 1 /\ Len(sent) \in Nat
      BY <1>3
    <3> QED
      BY <3>1, <3>2, <3>3, <1>3
  <2> QED
    BY <2>1, <2>2
<1>11. /\ bytes' \in Seq(Byte) /\ Len(bytes') = Len(bytes) + Len(p)
       /\ Len(bytes) \in Nat /\ Len(p) \in Nat \ {0}
  BY <1>3, <1>5, Concat
<1>12. TypeOK'
  <2>1. pos' \in 0..Len(bytes')
    BY <1>0, <1>9, <1>11 DEF TypeOK, readerVars
  <2>2. bytes' \in Seq(0..(2 * High - 1)) /\ end' \in {"open", "fin", "lost"}
    BY <1>10, <1>11 DEF Byte
  <2> QED
    BY <2>1, <2>2, <1>0, <1>9, <1>10 DEF TypeOK, Byte, readerVars
<1>13. \A i \in 1..Len(Begun) : Begun'[i] = Begun[i]
  BY <1>3, <1>6
<1>14. Len(Begun') = Len(Begun) + 1
  BY <1>3, <1>6
<1>15. Len(out) < Len(Begun) => Len(out) < Len(Begun') /\ Current' = Current
  <2>1. Len(out) < Len(Begun) => Len(out) + 1 \in 1..Len(Begun)
    BY <1>3
  <2> QED
    BY SMTT(30), <2>1, <1>3, <1>9, <1>13, <1>14 DEF Current, readerVars
<1>16. Outcome'
  <2>1. Read'
    BY <1>0, <1>3, <1>9, <1>10 DEF Outcome, Read, readerVars
  <2>2. Refused => Refused'
    BY <1>9, <1>15 DEF Refused, readerVars
  <2> QED
    BY <2>1, <2>2, <1>0, <1>2, <1>9 DEF Outcome, readerVars
<1>17. Placed(to)'
  <2>1. Len(out) <= Len(Begun) /\ to[Len(out)] = at[Len(out)]
    <3>1. Len(out) \in 0..Len(Begun)
      BY <1>0, <1>3 DEF Outcome, Read
    <3> QED
      BY <3>1, <1>7
  <2>2. InChunk => InChunk' /\ Current' = Current
    BY <1>9, <1>15 DEF InChunk, readerVars
  <2> QED
    BY <2>1, <2>2, <1>1, <1>9 DEF Placed, readerVars
<1>18. Stops(to)'
  <2>1. to[Len(sent)] = at[Len(sent)] /\ at[Len(sent)] = Len(bytes)
    <3>1. Len(sent) \in 0..Len(Begun)
      BY <1>3
    <3> QED
      BY <3>1, <1>2, <1>7
  <2>2. to[Len(Begun')] = Len(bytes) + Len(Encode(f))
    BY <1>2, <1>3, <1>7, <1>14
  <2>3. CASE write_frame(f)
    <3>1. Len(p) = Len(Encode(f)) /\ torn' = << >> /\ end' = "open" /\ Len(sent') = Len(Begun')
      BY <2>3, <1>3, <1>5, <1>6, <1>10
    <3> QED
      BY <3>1, <2>2, <1>11 DEF Stops
  <2>4. CASE Tear(f)
    <3>1. /\ Len(p) < Len(Encode(f)) /\ torn' # << >> /\ Len(torn') <= 1
          /\ end' = "fin" /\ sent' = sent
      <4>1. torn' = << f >> /\ << f >> # << >>
        BY <2>4, <1>10
      <4> QED
        BY <4>1, <2>4, <1>5, <1>10
    <3>2. Len(bytes') < to[Len(Begun')] /\ to[Len(sent')] < Len(bytes')
      BY <3>1, <2>1, <2>2, <1>4, <1>11
    <3> QED
      BY <3>1, <3>2 DEF Stops
  <2> QED
    BY <2>3, <2>4
<1> QED
  BY <1>8, <1>12, <1>16, <1>17, <1>18

(* Where the stream can stop: a reader at the start of a frame that has a  *)
(* byte to read is at a frame that was begun; a frame that has arrived     *)
(* whole was written whole; and the only start of a frame at which a       *)
(* stream that has not failed can end is the end of the last one.          *)
LEMMA Within ==
    ASSUME TypeOK, NEW at, Starts(Begun, at), Stops(at)
    PROVE  /\ \A k \in 0..Len(Begun) :
                 at[k] \in Nat /\ (at[k] < Len(bytes) => k + 1 \in 1..Len(Begun))
           /\ \A k \in 1..Len(Begun) : at[k] <= Len(bytes) => k <= Len(sent)
           /\ \A k \in 0..Len(sent) :
                 at[k] = Len(bytes) /\ end # "lost" => torn = << >> /\ k = Len(sent)
<1>1. /\ Begun \in Seq(Frame) /\ Len(sent) \in Nat /\ Len(torn) \in Nat
      /\ Len(Begun) = Len(sent) + Len(torn) /\ Len(bytes) \in Nat
  BY BegunIs
<1>2. \A i, j \in 0..Len(Begun) :
          at[i] \in Nat /\ (i <= j => at[i] <= at[j]) /\ (i < j => at[i] < at[j])
  BY <1>1, StartsMonotone
<1>3. /\ Len(torn) = 0 <=> torn = << >>
      /\ torn \in Seq(Frame)
  BY DEF TypeOK
<1>4. /\ torn = << >> => Len(bytes) <= at[Len(sent)] /\ Len(Begun) = Len(sent)
      /\ torn # << >> => Len(bytes) < at[Len(Begun)] /\ Len(Begun) = Len(sent) + 1
      /\ end # "lost" => /\ torn = << >> => Len(bytes) = at[Len(sent)]
                         /\ torn # << >> => at[Len(sent)] < Len(bytes)
  BY <1>1, <1>3 DEF Stops
<1>5. ASSUME NEW k \in 0..Len(Begun), at[k] < Len(bytes) PROVE k + 1 \in 1..Len(Begun)
  <2>1. k # Len(Begun)
    BY <1>1, <1>2, <1>4, <1>5
  <2> QED
    BY <2>1, <1>1
<1>6. ASSUME NEW k \in 1..Len(Begun), at[k] <= Len(bytes) PROVE k <= Len(sent)
  <2>1. k \in 0..Len(Begun) /\ Len(Begun) \in 0..Len(Begun)
    BY <1>1
  <2>2. CASE torn = << >>
    BY <2>2, <1>1, <1>4
  <2>3. CASE torn # << >>
    <3>1. k # Len(Begun)
      BY <2>1, <2>3, <1>1, <1>2, <1>4, <1>6
    <3> QED
      BY <3>1, <2>3, <1>1, <1>4
  <2> QED
    BY <2>2, <2>3
<1>7. ASSUME NEW k \in 0..Len(sent), at[k] = Len(bytes), end # "lost"
      PROVE  torn = << >> /\ k = Len(sent)
  <2>1. k \in 0..Len(Begun) /\ Len(sent) \in 0..Len(Begun) /\ k <= Len(sent)
    BY <1>1
  <2>2. /\ at[k] <= at[Len(sent)] /\ (k < Len(sent) => at[k] < at[Len(sent)])
        /\ at[k] \in Nat /\ at[Len(sent)] \in Nat
    BY <2>1, <1>2
  <2>3. torn = << >>
    BY <2>2, <1>1, <1>4, <1>7
  <2>4. ~ (k < Len(sent))
    BY <2>2, <2>3, <1>4, <1>7
  <2> QED
    BY <2>1, <2>3, <2>4, <1>1
<1> QED
  BY <1>2, <1>5, <1>6, <1>7

(* A frame that has been read to its end is the next one that was written. *)
LEMMA Yields ==
    ASSUME TypeOK, Outcome, NEW at, Starts(Begun, at), Stops(at),
           result = "none", result' = result,
           UNCHANGED <<writerVars, bytes, end>>,
           Len(out) < Len(Begun), at[Len(out) + 1] <= Len(bytes), pos' = at[Len(out) + 1],
           op' = Current.op, NEW n \in 0..MaxLen, n = Current.len, Yield(n)
    PROVE  TypeOK' /\ Outcome' /\ Placed(at)'
<1>1. /\ Begun \in Seq(Frame) /\ Len(sent) \in Nat /\ Len(out) \in Nat /\ Len(Begun) \in Nat
      /\ \A i \in 1..Len(sent) : Begun[i] = sent[i]
      /\ Len(bytes) \in Nat
  BY BegunIs
<1> DEFINE k == Len(out) + 1
           g == [op |-> op', len |-> n]
<1>2. k \in 1..Len(Begun) /\ k \in 0..Len(Begun) /\ at[k] <= Len(bytes)
  BY <1>1
<1>3. k <= Len(sent) /\ at[k] \in Nat
  BY <1>2, Within
<1>4. Current = Begun[k] /\ Current \in Frame /\ Current = sent[k]
  BY <1>1, <1>2, <1>3 DEF Current
<1>5. g = Current /\ g \in [op : {Chunk, End}, len : 0..MaxLen] /\ op' \in Byte
  <2>1. Current.op \in {Chunk, End} /\ Current = [op |-> Current.op, len |-> Current.len]
    BY <1>4, EncodeIs, FrameIs
  <2>2. High \in Nat /\ High >= 2
    BY WeightLaw, 0 \in Nat
  <2>3. op' \in Byte
    BY <2>1, <2>2 DEF Byte, Chunk, End
  <2> QED
    BY <2>1, <2>3
<1>6. out \in Seq([op : {Chunk, End}, len : 0..MaxLen])
  BY DEF TypeOK
<1>7. /\ out' = Append(out, g) /\ phase' = "opcode" /\ acc' = 0 /\ shift' = 0
  BY DEF Yield
<1> HIDE DEF g
<1>8. /\ out' \in Seq([op : {Chunk, End}, len : 0..MaxLen]) /\ Len(out') = k
      /\ \A i \in 1..Len(out) : out'[i] = out[i]
      /\ out'[k] = g
  BY <1>5, <1>6, <1>7
<1>9. TypeOK'
  <2>1. 0 \in 0..(Pow2[Width] - 1) /\ 0 \in 0..VarintBytes
    BY LengthTypes, VarintBytesSuffice
  <2>2. pos' \in 0..Len(bytes')
    BY <1>1, <1>3, <1>2 DEF writerVars
  <2>3. op' \in 0..(2 * High - 1)
    BY <1>5 DEF Byte
  <2> QED
    BY <2>1, <2>2, <2>3, <1>7, <1>8 DEF TypeOK, Byte, writerVars
<1>10. Outcome'
  <2>1. Read'
    <3>1. sent' = sent
      BY DEF writerVars
    <3>2. ASSUME NEW i \in 1..k PROVE out'[i] = sent[i]
      <4>1. CASE i = k
        BY <4>1, <1>4, <1>5, <1>8
      <4>2. CASE i # k
        <5>1. i \in 1..Len(out)
          BY <4>2, <1>1
        <5> QED
          BY <5>1, <1>8 DEF Outcome, Read
      <4> QED
        BY <4>1, <4>2
    <3> QED
      BY <3>1, <3>2, <1>3, <1>8 DEF Read
  <2> QED
    BY <2>1 DEF Outcome
<1>11. Placed(at)'
  BY <1>7, <1>8 DEF Placed
<1> QED
  BY <1>9, <1>10, <1>11

(* A step of the reader leaves the frames and the bytes alone.             *)
LEMMA WriterStays ==
    ASSUME NEW at, Starts(Begun, at), Laid(Begun, bytes, at), Stops(at),
           UNCHANGED <<writerVars, bytes, end>>, TypeOK', Outcome', Placed(at)'
    PROVE  CodecInv'
<1>1. Begun' = Begun /\ sent' = sent /\ torn' = torn /\ bytes' = bytes /\ end' = end
  BY DEF writerVars, Begun
<1>2. Starts(Begun', at) /\ Laid(Begun', bytes', at)
  BY <1>1
<1>3. Stops(at)'
  BY <1>1 DEF Stops
<1> QED
  BY <1>2, <1>3 DEF CodecInv

(* The byte at the start of a frame is its opcode.                         *)
LEMMA OpcodeStep ==
    ASSUME CodecInv, read_opcode
    PROVE  CodecInv'
<1>1. PICK at : Starts(Begun, at) /\ Laid(Begun, bytes, at) /\ Stops(at) /\ Placed(at)
  BY DEF CodecInv
<1>2. /\ TypeOK /\ Outcome /\ result = "none" /\ phase = "opcode"
      /\ UNCHANGED <<writerVars, bytes, end>>
  BY DEF CodecInv, read_opcode, Reading
<1>3. /\ Begun \in Seq(Frame) /\ Len(sent) \in Nat /\ Len(out) \in Nat /\ Len(Begun) \in Nat
      /\ Len(sent) <= Len(Begun) /\ Len(out) <= Len(sent)
      /\ Len(bytes) \in Nat /\ pos \in Nat
  BY <1>2, BegunIs DEF Outcome, Read
<1>4. pos = at[Len(out)] /\ acc = 0 /\ shift = 0 /\ pos < Len(bytes)
  BY <1>1, <1>2, <1>3 DEF Placed, read_opcode, Arrived
<1> DEFINE k == Len(out) + 1
           f == Current
           b == NextByte
<1>5. /\ k \in 1..Len(Begun) /\ k - 1 = Len(out)
      /\ Len(out) \in 0..Len(Begun) /\ Len(out) < Len(Begun)
  <2>1. Len(out) \in 0..Len(Begun)
    BY <1>3
  <2>2. k \in 1..Len(Begun)
    BY <2>1, <1>1, <1>2, <1>4, Within
  <2> QED
    BY <2>1, <2>2, <1>3
<1>6. f = Begun[k] /\ f \in Frame
  BY <1>3, <1>5 DEF Current
<1>7. /\ Len(Encode(f)) \in Nat \ {0} /\ Encode(f)[1] = f.op
      /\ f.op \in {Chunk, End} /\ f.len \in Uint
      /\ f.op = End => f.len = 0 /\ Len(Encode(f)) = 1
  BY <1>6, EncodeIs
<1>8. b = f.op
  <2>1. 1 \in 1..Len(Encode(Begun[k])) /\ at[k - 1] + 1 <= Len(bytes)
    BY <1>3, <1>4, <1>5, <1>6, <1>7
  <2>2. bytes[at[k - 1] + 1] = Encode(Begun[k])[1]
    BY <2>1, <1>1, <1>5 DEF Laid
  <2> QED
    BY <2>2, <1>4, <1>5, <1>6, <1>7 DEF NextByte
<1>9. at[k] = at[Len(out)] + Len(Encode(f))
  BY <1>1, <1>5, <1>6 DEF Starts
<1>10. pos' = pos + 1 /\ op' = b /\ Chunk # End
  BY DEF read_opcode, Chunk, End
<1> HIDE DEF b
<1>11. CASE f.op = Chunk
  <2>1. phase' = "varint" /\ UNCHANGED <<acc, shift, out, result>>
    BY <1>8, <1>10, <1>11 DEF read_opcode, b
  <2>2. Begun' = Begun /\ Current' = Current /\ sent' = sent /\ torn' = torn /\ bytes' = bytes
    BY <1>2, <2>1 DEF Begun, Current, writerVars
  <2>3. InChunk'
    BY <1>5, <1>8, <1>10, <1>11, <2>1, <2>2 DEF InChunk
  <2>4. 0 < Size(f.len) /\ f.len % Weight(0) = 0
    <3>1. f.len \in Nat
      BY <1>7, LengthTypes
    <3>2. Weight(0) = 1
      BY WeightLaw, 0 \in Nat
    <3> HIDE DEF f
    <3>3. f.len % 1 = 0 /\ Size(f.len) \in Nat \ {0}
      BY <3>1, SizeIs
    <3> QED
      BY <3>2, <3>3
  <2>5. Placed(at)'
    <3>1. pos' = at[Len(out)] + 1 + 0
      BY <1>3, <1>4, <1>10
    <3> QED
      BY <3>1, <2>1, <2>2, <2>3, <2>4, <1>4 DEF Placed
  <2>6. Outcome'
    BY <1>2, <2>1, <2>2 DEF Outcome, Read
  <2>7. TypeOK'
    <3>1. pos' \in 0..Len(bytes') /\ op' \in 0..(2 * High - 1)
      <4>1. High \in Nat /\ High >= 2
        BY WeightLaw, 0 \in Nat
      <4> QED
        BY <4>1, <1>3, <1>4, <1>8, <1>10, <1>11, <2>2 DEF Chunk
    <3> QED
      BY <3>1, <2>1, <1>2 DEF TypeOK, Byte, writerVars
  <2> QED
    BY <2>5, <2>6, <2>7, <1>1, <1>2, WriterStays
<1>12. CASE f.op = End
  <2>1. Yield(0) /\ result' = result
    BY <1>8, <1>10, <1>12 DEF read_opcode, b
  <2>2. /\ at[Len(out) + 1] <= Len(bytes) /\ pos' = at[Len(out) + 1]
        /\ op' = Current.op /\ 0 = Current.len
    <3>1. f.len = 0 /\ Len(Encode(f)) = 1 /\ op' = f.op
      BY <1>7, <1>8, <1>10, <1>12
    <3>2. at[k] = pos + 1
      BY <3>1, <1>4, <1>9
    <3> HIDE DEF f
    <3>3. at[k] <= Len(bytes) /\ pos' = at[k]
      BY <3>2, <1>3, <1>4, <1>10
    <3> QED
      BY <3>1, <3>3 DEF f
  <2>3. 0 \in 0..MaxLen
    BY CodecAssumption, LengthTypes
  <2>4. TypeOK' /\ Outcome' /\ Placed(at)'
    BY <2>1, <2>2, <2>3, <1>1, <1>2, <1>5, Yields
  <2> QED
    BY <2>4, <1>1, <1>2, WriterStays
<1> QED
  BY <1>7, <1>11, <1>12

(* Every byte of the varint brings the sum one group nearer the length;    *)
(* there is no eleventh, and a length is refused only above the limit.     *)
LEMMA VarintStep ==
    ASSUME CodecInv, read_varint_u64
    PROVE  CodecInv'
<1>1. PICK at : Starts(Begun, at) /\ Laid(Begun, bytes, at) /\ Stops(at) /\ Placed(at)
  BY DEF CodecInv
<1>2. /\ TypeOK /\ Outcome /\ result = "none" /\ phase = "varint"
      /\ UNCHANGED <<writerVars, bytes, end, op, out>>
  BY DEF CodecInv, read_varint_u64, Reading
<1>3. /\ Begun \in Seq(Frame) /\ Len(sent) \in Nat /\ Len(out) \in Nat /\ Len(Begun) \in Nat
      /\ Len(bytes) \in Nat /\ pos \in Nat /\ pos + 1 <= Len(bytes) /\ shift \in Nat
  BY <1>2, BegunIs DEF read_varint_u64, Arrived, TypeOK
<1> DEFINE k == Len(out) + 1
           f == Current
           b == NextByte
           e == leb128_write[f.len]
           s == Size(f.len)
           i == shift + 1
           sum == acc + Shifted(b, shift)
<1>4. /\ InChunk /\ shift < s /\ pos = at[Len(out)] + 1 + shift /\ acc = f.len % Weight(shift)
  BY <1>1, <1>2 DEF Placed
<1>5. k \in 1..Len(Begun) /\ k - 1 = Len(out) /\ f = Begun[k] /\ f \in Frame /\ f.op = Chunk
      /\ Len(out) \in 0..Len(Begun)
  BY <1>3, <1>4 DEF InChunk, Current
<1>6. f.len \in Uint /\ f.len \in Nat
  BY <1>5, EncodeIs, LengthTypes
<1>7. /\ s \in 1..VarintBytes /\ s \in Nat /\ VarintBytes \in Nat
      /\ i \in 1..s /\ i \in Nat /\ i - 1 = shift
  <2>1. s \in 1..VarintBytes /\ VarintBytes \in Nat
    BY <1>6, SizeBound, VarintBytesSuffice
  <2> HIDE DEF s
  <2> QED
    BY <2>1, <1>3, <1>4
<1>8. Len(Encode(f)) = 1 + s + f.len /\ Encode(f)[1 + i] = e[i]
  <2>1. /\ Len(Encode(f)) = 1 + Size(f.len) + f.len
        /\ \A j \in 1..Size(f.len) : Encode(f)[1 + j] = leb128_write[f.len][j]
    BY <1>5, EncodeIs
  <2> QED
    BY <2>1, <1>7
<1>9. b = e[i]
  <2>1. 1 + i \in 1..Len(Encode(f))
    <3> HIDE DEF s
    <3> QED
      BY <1>3, <1>6, <1>7, <1>8
  <2>2. at[Len(out)] \in Nat
    BY <1>1, <1>2, <1>5, Within
  <2>3. at[Len(out)] + (1 + i) = pos + 1
    BY SMTT(30), <1>4, <2>2, <1>3
  <2>4. bytes[at[k - 1] + (1 + i)] = Encode(Begun[k])[1 + i]
    BY <2>1, <2>3, <1>1, <1>3, <1>5 DEF Laid
  <2>5. bytes[pos + 1] = Encode(f)[1 + i]
    BY <2>3, <2>4, <1>5
  <2> QED
    BY <2>5, <1>8 DEF NextByte
<1>10. /\ (b < High) <=> (i = s)
       /\ f.len % Weight(i) = sum
       /\ f.len % Weight(s) = f.len
  <2>1. /\ \A j \in 1..Size(f.len) :
              /\ (e[j] < High) <=> (j = Size(f.len))
              /\ f.len % Weight(j) = (f.len % Weight(j - 1)) + Shifted(e[j], j - 1)
        /\ f.len % Weight(Size(f.len)) = f.len
    <3> HIDE DEF f
    <3> QED
      BY <1>6, VarintRead
  <2>2. (e[i] < High) <=> (i = s)
    BY <2>1, <1>7
  <2>3. f.len % Weight(i) = (f.len % Weight(i - 1)) + Shifted(e[i], i - 1)
    BY <2>1, <1>7
  <2> QED
    BY <2>1, <2>2, <2>3, <1>4, <1>7, <1>9
<1>11. sum \in 0..(Pow2[Width] - 1)
  <2> DEFINE w == Weight(i)
  <2>1. w \in Nat /\ w >= 1
    BY <1>7, WeightLaw
  <2> HIDE DEF w, f
  <2>2. f.len % w \in Nat /\ f.len \div w \in Nat /\ f.len = w * (f.len \div w) + (f.len % w)
    BY <2>1, <1>6, Division
  <2>3. w * (f.len \div w) \in Nat
    BY <2>1, <2>2, Product
  <2>4. f.len % w <= f.len
    BY <2>2, <2>3, <1>6
  <2>5. sum = f.len % w
    BY <1>10 DEF w
  <2>6. f.len < Pow2[Width] /\ Pow2[Width] \in Nat
    BY <1>6, LengthTypes DEF Uint
  <2> HIDE DEF sum
  <2> QED
    BY <2>2, <2>4, <2>5, <2>6, <1>6
<1>12. /\ Begun' = Begun /\ Current' = Current /\ sent' = sent /\ torn' = torn /\ bytes' = bytes
       /\ out' = out /\ InChunk' /\ op' = op
  <2>1. Begun' = Begun /\ Current' = Current /\ out' = out /\ op' = op
    BY <1>2 DEF Begun, Current, writerVars
  <2> QED
    BY <2>1, <1>2, <1>4 DEF InChunk, writerVars
<1>13. pos' = pos + 1 /\ pos' \in 0..Len(bytes')
  BY <1>3, <1>12 DEF read_varint_u64
<1>17. pos' = at[Len(out)] + 1 + i
  <2>1. ASSUME NEW a \in Nat, NEW n \in Nat PROVE (a + 1 + n) + 1 = a + 1 + (n + 1)
    OBVIOUS
  <2>2. at[Len(out)] \in Nat
    BY <1>1, <1>2, <1>5, Within
  <2> QED
    BY <2>1, <2>2, <1>3, <1>4, <1>13
<1>14. CASE b < High /\ sum > MaxLen
  <2>1. result' = "MalformedFrame" /\ UNCHANGED <<phase, acc, shift>>
    BY <1>14 DEF read_varint_u64
  <2>2. f.len > MaxLen
    BY <1>10, <1>14
  <2>3. Refused'
    BY <1>4, <1>12, <2>2 DEF Refused, InChunk
  <2>4. Outcome' /\ Placed(at)'
    BY <1>2, <1>12, <2>1, <2>3 DEF Outcome, Read, Placed
  <2>5. TypeOK'
    BY <1>2, <1>12, <1>13, <2>1 DEF TypeOK
  <2> QED
    BY <2>4, <2>5, <1>1, <1>2, WriterStays
<1>15. CASE b < High /\ ~ (sum > MaxLen)
  <2>1. phase' = "body" /\ acc' = sum /\ UNCHANGED <<shift, result>>
    BY <1>15 DEF read_varint_u64
  <2>2. sum = f.len /\ i = s /\ sum <= MaxLen
    <3>1. MaxLen \in Nat
      BY LengthTypes
    <3> HIDE DEF sum
    <3> QED
      BY <3>1, <1>10, <1>11, <1>15
  <2>3. pos' = at[Len(out)] + 1 + s
    BY <2>2, <1>17
  <2>4. Placed(at)'
    BY <2>1, <2>2, <2>3, <1>12 DEF Placed
  <2>5. Outcome'
    BY <2>1, <1>2, <1>12 DEF Outcome, Read
  <2>6. TypeOK'
    BY <2>1, <2>2, <1>2, <1>11, <1>12, <1>13 DEF TypeOK
  <2> QED
    BY <2>4, <2>5, <2>6, <1>1, <1>2, WriterStays
<1>16. CASE ~ (b < High)
  <2>1. i # s /\ i < s /\ i < VarintBytes
    <3> HIDE DEF s
    <3> QED
      BY <1>7, <1>10, <1>16
  <2>2. acc' = sum /\ shift' = i /\ UNCHANGED <<phase, result>>
    BY <2>1, <1>16 DEF read_varint_u64
  <2>4. Placed(at)'
    BY <2>1, <2>2, <1>2, <1>10, <1>12, <1>17 DEF Placed
  <2>5. Outcome'
    BY <2>2, <1>2, <1>12 DEF Outcome, Read
  <2>6. TypeOK'
    <3>1. shift' \in 0..VarintBytes
      BY <2>1, <2>2, <1>7
    <3> QED
      BY <3>1, <2>2, <1>2, <1>11, <1>12, <1>13 DEF TypeOK
  <2> QED
    BY <2>4, <2>5, <2>6, <1>1, <1>2, WriterStays
<1> QED
  BY <1>14, <1>15, <1>16

(* The body has the declared length, so the next frame starts where it     *)
(* ends.                                                                   *)
LEMMA BodyStep ==
    ASSUME CodecInv, read_length_prefixed
    PROVE  CodecInv'
<1>1. PICK at : Starts(Begun, at) /\ Laid(Begun, bytes, at) /\ Stops(at) /\ Placed(at)
  BY DEF CodecInv
<1>2. /\ TypeOK /\ Outcome /\ result = "none" /\ phase = "body"
      /\ UNCHANGED <<writerVars, bytes, end>> /\ result' = result
      /\ pos + acc <= Len(bytes) /\ pos' = pos + acc /\ op' = op /\ Yield(acc)
  BY DEF CodecInv, read_length_prefixed, Reading, Arrived
<1>3. /\ InChunk /\ acc = Current.len /\ acc <= MaxLen
      /\ pos = at[Len(out)] + 1 + Size(Current.len)
  BY <1>1, <1>2 DEF Placed
<1>4. /\ Begun \in Seq(Frame) /\ Len(out) \in Nat /\ Len(Begun) \in Nat /\ Len(out) < Len(Begun)
  BY <1>2, <1>3, BegunIs DEF InChunk
<1> DEFINE k == Len(out) + 1
           f == Current
<1>5. k \in 1..Len(Begun) /\ k - 1 = Len(out) /\ f = Begun[k] /\ f \in Frame /\ f.op = Chunk
      /\ Len(out) \in 0..Len(Begun)
  BY <1>3, <1>4 DEF InChunk, Current
<1>6. f.len \in Nat /\ Len(Encode(f)) = 1 + Size(f.len) + f.len /\ Size(f.len) \in Nat
  <2>1. f.len \in Uint /\ Len(Encode(f)) = 1 + Size(f.len) + f.len
    BY <1>5, EncodeIs
  <2>2. f.len \in Nat
    BY <2>1, LengthTypes
  <2> QED
    BY <2>1, <2>2, SizeIs
<1>7. at[k] = at[Len(out)] + Len(Encode(f)) /\ at[Len(out)] \in Nat
  BY <1>1, <1>2, <1>5, Within DEF Starts
<1>8. pos' = at[k]
  <2> HIDE DEF f, k
  <2>1. pos = at[Len(out)] + 1 + Size(f.len) /\ pos' = pos + f.len
    BY <1>2, <1>3 DEF f
  <2> DEFINE a == at[Len(out)]
             m == Size(f.len)
             n == f.len
             l == Len(Encode(f))
  <2>2. a \in Nat /\ m \in Nat /\ n \in Nat /\ l = 1 + m + n /\ at[k] = a + l
    BY <1>6, <1>7
  <2>3. pos = a + 1 + m /\ pos' = pos + n
    BY <2>1
  <2> HIDE DEF a, m, n, l
  <2> QED
    BY <2>2, <2>3
<1>9. acc \in 0..MaxLen
  <2>1. MaxLen \in Nat
    BY LengthTypes
  <2> QED
    BY <2>1, <1>3, <1>6
<1>10. TypeOK' /\ Outcome' /\ Placed(at)'
  <2>1. /\ at[Len(out) + 1] <= Len(bytes) /\ pos' = at[Len(out) + 1]
        /\ op' = Current.op /\ acc = Current.len
    BY <1>2, <1>3, <1>8 DEF InChunk
  <2> QED
    BY <2>1, <1>1, <1>2, <1>4, <1>9, Yields
<1> QED
  BY <1>10, <1>1, <1>2, WriterStays

(* The reading ends, in an error or cleanly.                               *)
LEMMA EndSteps ==
    ASSUME CodecInv, classify_eof_or_error \/ read_exact_fails
    PROVE  CodecInv'
<1>1. PICK at : Starts(Begun, at) /\ Laid(Begun, bytes, at) /\ Stops(at) /\ Placed(at)
  BY DEF CodecInv
<1>2. /\ TypeOK /\ Outcome /\ result = "none"
      /\ UNCHANGED <<writerVars, bytes, end>> /\ UNCHANGED <<pos, phase, op, acc, shift, out>>
      /\ result' \in {"None", "TransportRead"} /\ end # "open"
      /\ result' = "None" => end = "fin" /\ phase = "opcode" /\ ~ (pos + 1 <= Len(bytes))
  <2>1. CASE classify_eof_or_error
    BY <2>1 DEF CodecInv, classify_eof_or_error, Returns, Reading, ShortOf, Arrived
  <2>2. CASE read_exact_fails
    BY <2>2 DEF CodecInv, read_exact_fails, Returns, Reading, ShortOf
  <2> QED
    BY <2>1, <2>2
<1>3. /\ Begun' = Begun /\ Current' = Current /\ sent' = sent /\ torn' = torn /\ bytes' = bytes
      /\ out' = out /\ end' = end
  BY <1>2 DEF Begun, Current, writerVars
<1>4. TypeOK'
  BY <1>2, <1>3 DEF TypeOK
<1>5. Placed(at)'
  <2>1. InChunk' = InChunk
    BY <1>2, <1>3 DEF InChunk
  <2> QED
    BY <2>1, <1>1, <1>2, <1>3 DEF Placed
<1>6. ASSUME result' = "None" PROVE torn = << >> /\ out = sent
  <2>1. /\ Len(sent) \in Nat /\ Len(out) \in Nat /\ Len(out) <= Len(sent) /\ pos \in Nat
        /\ pos <= Len(bytes) /\ Len(bytes) \in Nat
        /\ \A i \in 1..Len(out) : out[i] = sent[i]
    BY <1>2, BegunIs DEF Outcome, Read
  <2>2. pos = at[Len(out)] /\ pos = Len(bytes) /\ end # "lost"
    BY <2>1, <1>1, <1>2, <1>6 DEF Placed
  <2>3. Len(out) \in 0..Len(sent)
    BY <2>1
  <2>4. torn = << >> /\ Len(out) = Len(sent)
    BY <2>2, <2>3, <1>1, <1>2, Within
  <2>5. out \in Seq([op : {Chunk, End}, len : 0..MaxLen]) /\ sent \in Seq(Frame)
    BY <1>2 DEF TypeOK
  <2>6. out = [i \in 1..Len(out) |-> out[i]] /\ sent = [i \in 1..Len(sent) |-> sent[i]]
    BY <2>5
  <2>7. out = sent
    BY <2>1, <2>4, <2>6
  <2> QED
    BY <2>4, <2>7
<1>7. Outcome'
  BY <1>2, <1>3, <1>6 DEF Outcome, Read
<1> QED
  BY <1>1, <1>2, <1>4, <1>5, <1>7, WriterStays

(* The writer finishes, or the connection fails.                           *)
LEMMA StopSteps ==
    ASSUME CodecInv, finish \/ Lose
    PROVE  CodecInv'
<1>1. PICK at : Starts(Begun, at) /\ Laid(Begun, bytes, at) /\ Stops(at) /\ Placed(at)
  BY DEF CodecInv
<1>2. TypeOK /\ Outcome
  BY DEF CodecInv
<1>3. /\ Begun \in Seq(Frame) /\ bytes \in Seq(Byte) /\ Len(bytes) \in Nat
      /\ pos \in Nat /\ pos <= Len(bytes)
      /\ Len(sent) \in Nat /\ Len(Begun) \in Nat /\ Len(torn) \in Nat
      /\ Len(Begun) = Len(sent) + Len(torn)
  BY <1>2, BegunIs
<1>4. UNCHANGED <<writerVars, readerVars>> /\ end' # "open"
  BY DEF finish, Lose
<1>5. Begun' = Begun /\ Current' = Current /\ sent' = sent /\ torn' = torn
  BY <1>4 DEF Begun, Current, writerVars, readerVars
<1>6. /\ bytes' \in Seq(Byte) /\ Len(bytes') \in Nat
      /\ Len(bytes') <= Len(bytes) /\ pos <= Len(bytes')
      /\ \A i \in 1..Len(bytes') : bytes'[i] = bytes[i]
      /\ end' # "lost" => Len(bytes') = Len(bytes) /\ end # "lost"
      /\ end' \in {"fin", "lost"}
  <2>1. CASE finish
    BY <2>1, <1>3 DEF finish
  <2>2. CASE Lose
    <3>1. end' = "lost"
      BY <2>2 DEF Lose
    <3>2. PICK n \in pos..Len(bytes) : bytes' = SubSeq(bytes, 1, n)
      BY <2>2 DEF Lose
    <3>3. n \in 0..Len(bytes)
      BY <3>2, <1>3
    <3>4. /\ SubSeq(bytes, 1, n) \in Seq(Byte) /\ Len(SubSeq(bytes, 1, n)) = n
          /\ \A i \in 1..n : SubSeq(bytes, 1, n)[i] = bytes[i]
      BY <3>3, <1>3
    <3> QED
      BY <3>1, <3>2, <3>4, <1>3
  <2> QED
    BY <2>1, <2>2
<1>7. Laid(Begun', bytes', at)
  <2> SUFFICES ASSUME NEW k \in 1..Len(Begun), NEW j \in 1..Len(Encode(Begun[k])),
                      at[k - 1] + j <= Len(bytes')
               PROVE  bytes'[at[k - 1] + j] = Encode(Begun[k])[j]
    BY <1>5 DEF Laid
  <2>1. k - 1 \in 0..Len(Begun) /\ at[k - 1] \in Nat
    <3>1. k - 1 \in 0..Len(Begun)
      BY <1>3
    <3> QED
      BY <3>1, <1>1 DEF Starts
  <2>2. j \in Nat /\ j >= 1
    <3>1. Begun[k] \in Frame
      BY <1>3
    <3>2. Len(Encode(Begun[k])) \in Nat
      BY <3>1, EncodeIs
    <3> QED
      BY <3>2
  <2>3. at[k - 1] + j \in 1..Len(bytes') /\ at[k - 1] + j <= Len(bytes)
    BY SMTT(30), <2>1, <2>2, <1>3, <1>6
  <2>4. bytes[at[k - 1] + j] = Encode(Begun[k])[j]
    BY <2>3, <1>1 DEF Laid
  <2> QED
    BY <2>3, <2>4, <1>6
<1>8. Stops(at)'
  <2>1. at[Len(sent)] \in Nat /\ at[Len(Begun)] \in Nat
    <3>1. Len(sent) \in 0..Len(Begun) /\ Len(Begun) \in 0..Len(Begun)
      BY <1>3
    <3> QED
      BY <3>1, <1>1 DEF Starts
  <2> QED
    BY <2>1, <1>1, <1>3, <1>4, <1>5, <1>6 DEF Stops
<1>9. Placed(at)' /\ Outcome'
  <2>1. InChunk' = InChunk
    BY <1>4, <1>5 DEF InChunk, readerVars
  <2>2. Placed(at)'
    BY <2>1, <1>1, <1>4, <1>5 DEF Placed, readerVars
  <2>3. Refused' = Refused
    BY <1>4, <1>5 DEF Refused, readerVars
  <2>4. Outcome'
    BY <2>3, <1>2, <1>4, <1>5 DEF Outcome, Read, readerVars
  <2> QED
    BY <2>2, <2>4
<1>10. TypeOK'
  <2>1. pos' \in 0..Len(bytes')
    BY <1>3, <1>4, <1>6 DEF readerVars
  <2>2. bytes' \in Seq(0..(2 * High - 1))
    BY <1>6 DEF Byte
  <2> QED
    BY <2>1, <2>2, <1>2, <1>4, <1>5, <1>6 DEF TypeOK, readerVars
<1> QED
  BY <1>1, <1>5, <1>7, <1>8, <1>9, <1>10 DEF CodecInv

(* Every step keeps the invariant.                                         *)
LEMMA CodecNext == CodecInv /\ [Next]_vars => CodecInv'
<1> SUFFICES ASSUME CodecInv, [Next]_vars PROVE CodecInv'
  OBVIOUS
<1>1. ASSUME NEW f \in Frame, write_frame(f) \/ Tear(f) PROVE CodecInv'
  BY <1>1, WriterSteps
<1>2. CASE finish \/ Lose
  BY <1>2, StopSteps
<1>3. CASE read_streaming_frame
  BY <1>3, OpcodeStep, EndSteps, VarintStep, BodyStep DEF read_streaming_frame
<1>4. CASE UNCHANGED vars
  <2>1. UNCHANGED <<writerVars, bytes, end, readerVars>>
    BY <1>4 DEF vars
  <2>2. Begun' = Begun /\ Current' = Current /\ InChunk' = InChunk
    BY <2>1 DEF Begun, Current, InChunk, writerVars, readerVars
  <2>3. TypeOK' /\ Outcome'
    BY <2>1, <2>2 DEF CodecInv, TypeOK, Outcome, Read, Refused, writerVars, readerVars
  <2>4. PICK at : Starts(Begun, at) /\ Laid(Begun, bytes, at) /\ Stops(at) /\ Placed(at)
    BY DEF CodecInv
  <2>5. Placed(at)'
    BY <2>1, <2>2, <2>4 DEF Placed, readerVars
  <2> QED
    BY <2>1, <2>3, <2>4, <2>5, WriterStays
<1> QED
  BY <1>1, <1>2, <1>3, <1>4 DEF Next

(* The reader is never out of step with the frames.                        *)
THEOREM CodecInvariant == Spec => []CodecInv
  BY CodecInit, CodecNext, PTL DEF Spec

(* The variables have their types; no buffer above                         *)
(* MAX_STREAMING_PAYLOAD_LEN is ever filled (read_length_prefixed).        *)
THEOREM CodecTypes == Spec => []TypeOK
<1>1. CodecInv => TypeOK
  BY DEF CodecInv
<1> QED
  BY <1>1, CodecInvariant, PTL

(* read_streaming_frame yields the frames that were written, whole and in  *)
(* order, wherever the stream is torn or lost.                             *)
THEOREM CodecFramesIntact == Spec => []FramesIntact
<1>1. CodecInv => FramesIntact
  <2> SUFFICES ASSUME CodecInv PROVE FramesIntact
    OBVIOUS
  <2>1. DOMAIN out = 1..Len(out)
    BY DEF CodecInv, TypeOK
  <2> QED
    BY <2>1 DEF CodecInv, Outcome, Read, FramesIntact
<1> QED
  BY <1>1, CodecInvariant, PTL

(* classify_eof_or_error reports a clean end only after the last frame of  *)
(* a writer that has finished.                                             *)
THEOREM CodecCleanEof == Spec => []CleanEofIsWhole
<1>1. CodecInv => CleanEofIsWhole
  BY DEF CodecInv, Outcome, CleanEofIsWhole
<1> QED
  BY <1>1, CodecInvariant, PTL

(* The only frame that read_length_prefixed refuses is one above the       *)
(* limit; read_varint_u64 refuses none.                                    *)
THEOREM CodecRefusals == Spec => []OnlyOversizeRefused
<1>1. CodecInv => OnlyOversizeRefused
  BY DEF CodecInv, Outcome, Refused, Current, Begun, OnlyOversizeRefused
<1> QED
  BY <1>1, CodecInvariant, PTL

-----------------------------------------------------------------------------
(* Method names on the wire.                                               *)

(* The bytes that leb128 writes, for every integer: only the last is       *)
(* without the continuation bit, and each adds its group, at its weight,   *)
(* to what those before it make up.                                        *)
LEMMA LebBytes ==
    ASSUME NEW v \in Nat
    PROVE  /\ leb128_write[v] \in Seq(Byte) /\ Len(leb128_write[v]) = Size(v)
           /\ Size(v) \in Nat \ {0}
           /\ \A i \in 1..Size(v) :
                 /\ (leb128_write[v][i] < High) <=> (i = Size(v))
                 /\ v % Weight(i) =
                        (v % Weight(i - 1)) + (leb128_write[v][i] % High) * Weight(i - 1)
           /\ v % Weight(Size(v)) = v /\ v % Weight(0) = 0
<1> DEFINE s == Size(v)
<1>1. leb128_write[v] = Groups(v)
  BY WriteIsGroups
<1>2. s \in Nat \ {0} /\ v < Weight(s)
  BY SizeIs DEF Sized
<1>3. High \in Nat /\ High >= 2 /\ Weight(0) = 1
  BY WeightLaw, 0 \in Nat
<1>4. ASSUME NEW i \in 1..s
      PROVE  /\ Group(v, i) \in Byte
             /\ (Group(v, i) < High) <=> (i = s)
             /\ v % Weight(i) = (v % Weight(i - 1)) + (Group(v, i) % High) * Weight(i - 1)
  <2> DEFINE p == Weight(i - 1)
             d == (v \div p) % High
  <2>1. i \in Nat /\ i - 1 \in Nat /\ (i - 1) + 1 = i /\ (i < s <=> i # s)
    BY <1>2
  <2>2. p \in Nat /\ p >= 1 /\ Weight(i) = p * High
    BY <2>1, WeightLaw
  <2>3. v \div p \in Nat /\ d \in Nat /\ d < High
    <3> HIDE DEF p
    <3>1. v \div p \in Nat
      BY <2>2
    <3> QED
      BY <3>1, <1>3
  <2> DEFINE D == Group(v, i)
  <2>4. D = d + (IF i < s THEN High ELSE 0)
    BY DEF Group
  <2>5. v % (p * High) = (v % p) + p * d
    <3> HIDE DEF p
    <3>1. High >= 1
      BY <1>3
    <3>2. v % (p * High) = (v % p) + p * ((v \div p) % High)
      BY <1>3, <2>2, <3>1, Quotients
    <3> QED
      BY <3>2, Zenon DEF d
  <2> HIDE DEF D, d, p
  <2>6. D \in Byte /\ ((D < High) <=> (i = s)) /\ D % High = d
    <3>1. CASE i < s
      BY <3>1, <2>1, <2>3, <2>4, <1>3 DEF Byte
    <3>2. CASE i = s
      BY <3>2, <2>1, <2>3, <2>4, <1>2, <1>3 DEF Byte
    <3> QED
      BY <3>1, <3>2, <2>1, <1>2
  <2>7. p * d = d * p
    BY <2>2, <2>3
  <2>8. v % Weight(i) = (v % p) + (D % High) * p
    BY <2>2, <2>5, <2>6, <2>7, Zenon
  <2> QED
    BY <2>6, <2>8 DEF D, p
<1>5. /\ leb128_write[v] \in Seq(Byte) /\ Len(leb128_write[v]) = s
      /\ \A i \in 1..s : leb128_write[v][i] = Group(v, i)
  <2>1. \A i \in 1..s : Group(v, i) \in Byte
    BY <1>4
  <2>2. leb128_write[v] = [i \in 1..s |-> Group(v, i)]
    BY <1>1 DEF Groups
  <2> HIDE DEF s
  <2> QED
    BY <1>2, <2>1, <2>2
<1>6. v % Weight(s) = v
  <2>1. Weight(s) \in Nat
    BY <1>2, WeightLaw
  <2> HIDE DEF s
  <2> QED
    BY <1>2, <2>1
<1>7. v % Weight(0) = 0
  BY <1>3
<1> HIDE DEF s
<1>8. /\ leb128_write[v] \in Seq(Byte) /\ Len(leb128_write[v]) = s
      /\ s \in Nat \ {0}
      /\ \A i \in 1..s :
            /\ (leb128_write[v][i] < High) <=> (i = s)
            /\ v % Weight(i) = (v % Weight(i - 1)) + (leb128_write[v][i] % High) * Weight(i - 1)
      /\ v % Weight(s) = v /\ v % Weight(0) = 0
  BY <1>2, <1>4, <1>5, <1>6, <1>7, Zenon
<1> QED
  BY <1>8 DEF s

(* The first position in s with a property, as the library's SelectInSeq   *)
(* has it, for the two properties there are here.                          *)
LEMMA LebLen ==
    ASSUME NEW s \in Seq(Nat)
    PROVE  /\ (\A i \in 1..Len(s) : ~ (s[i] < High)) => leb128_len(s) = 0
           /\ \A k \in 1..Len(s) :
                 s[k] < High /\ (\A i \in 1..(k - 1) : ~ (s[i] < High)) => leb128_len(s) = k
<1> DEFINE I == {i \in 1..Len(s) : s[i] < High}
<1>1. leb128_len(s) = IF I # {} THEN CHOOSE i \in I : \A j \in I : i <= j ELSE 0
  BY DEF leb128_len, SelectInSeq, Min
<1>2. ASSUME \A i \in 1..Len(s) : ~ (s[i] < High) PROVE leb128_len(s) = 0
  BY <1>1, <1>2
<1>3. ASSUME NEW k \in 1..Len(s), s[k] < High, \A i \in 1..(k - 1) : ~ (s[i] < High)
      PROVE  leb128_len(s) = k
  <2>1. k \in I /\ \A j \in I : k <= j
    <3>1. High \in Int
      BY WeightLaw, 0 \in Nat
    <3> QED
      BY <1>3, <3>1
  <2>2. \A i \in I : (\A j \in I : i <= j) => i = k
    BY <2>1
  <2> HIDE DEF I
  <2> QED
    BY <1>1, <2>1, <2>2
<1> QED
  BY <1>2, <1>3

(* Bytes are numbers.                                                      *)
LEMMA BytesAreNat ==
    ASSUME NEW s \in Seq(Byte)
    PROVE  s \in Seq(Nat)
<1>1. ASSUME NEW i \in 1..Len(s) PROVE s[i] \in Nat
  <2>1. High \in Nat
    BY WeightLaw, 0 \in Nat
  <2>2. Byte \subseteq Nat
    BY <2>1 DEF Byte
  <2>3. s[i] \in Byte
    OBVIOUS
  <2> QED
    BY <2>2, <2>3
<1>2. s = [i \in 1..Len(s) |-> s[i]] /\ Len(s) \in Nat
  OBVIOUS
<1> QED
  BY <1>1, <1>2

(* A part of a sequence.                                                   *)
LEMMA Cut ==
    ASSUME NEW S, NEW s \in Seq(S), NEW a \in Nat, NEW r \in Nat, a + r <= Len(s)
    PROVE  /\ SubSeq(s, a + 1, a + r) = [i \in 1..r |-> s[a + i]]
           /\ SubSeq(s, a + 1, a + r) \in Seq(S) /\ Len(SubSeq(s, a + 1, a + r)) = r
<1>1. \A i \in 1..r : s[a + i] \in S
  OBVIOUS
<1>2. SubSeq(s, a + 1, a + r) = [i \in 1..r |-> s[a + i]]
  OBVIOUS
<1> DEFINE t == [i \in 1..r |-> s[a + i]]
<1>3. t \in Seq(S) /\ Len(t) = r
  BY <1>1
<1> QED
  BY <1>2, <1>3

(* What leb128 writes, its reader reads back, whatever is behind it.       *)
LEMMA LebRead ==
    ASSUME NEW v \in Nat, NEW s \in Seq(Byte), Size(v) <= Len(s),
           \A i \in 1..Size(v) : s[i] = leb128_write[v][i]
    PROVE  leb128_len(s) = Size(v) /\ leb128_read(s) = v
<1> DEFINE k == Size(v)
           Add(x, i) == x + (s[i] % High) * Pow2[(i - 1) * GroupBits]
           Body(g) == [i \in 0..k |-> IF i = 0 THEN 0 ELSE Add(g[i - 1], i)]
           w == [i \in 0..k |-> v % Weight(i)]
<1>1. /\ k \in Nat \ {0} /\ v % Weight(k) = v /\ v % Weight(0) = 0
      /\ \A i \in 1..k :
            /\ (s[i] < High) <=> (i = k)
            /\ v % Weight(i) = (v % Weight(i - 1)) + (s[i] % High) * Weight(i - 1)
  <2>1. /\ k \in Nat \ {0} /\ v % Weight(k) = v /\ v % Weight(0) = 0
        /\ \A i \in 1..k :
              /\ (leb128_write[v][i] < High) <=> (i = k)
              /\ v % Weight(i) =
                     (v % Weight(i - 1)) + (leb128_write[v][i] % High) * Weight(i - 1)
    BY LebBytes
  <2> QED
    BY <2>1, Zenon
<1>2. s \in Seq(Nat)
  BY BytesAreNat
<1>3. leb128_len(s) = k
  <2>1. k \in 1..Len(s) /\ s[k] < High /\ \A i \in 1..(k - 1) : ~ (s[i] < High)
    BY SMTT(30), <1>1
  <2> HIDE DEF k
  <2> QED
    BY <2>1, <1>2, LebLen
<1>4. leb128_read(s) = (CHOOSE g : g = Body(g))[k]
  <2>1. leb128_read(s) =
          (CHOOSE g : g = [i \in 0..leb128_len(s) |->
              IF i = 0 THEN 0 ELSE g[i - 1] + (s[i] % High) * Pow2[(i - 1) * GroupBits]])[leb128_len(s)]
    BY DEF leb128_read
  <2> HIDE DEF k
  <2> QED
    BY <2>1, <1>3
<1>5. w = Body(w)
  <2>1. ASSUME NEW i \in 0..k PROVE w[i] = IF i = 0 THEN 0 ELSE Add(w[i - 1], i)
    <3>1. CASE i = 0
      BY <3>1, <1>1
    <3>2. CASE i # 0
      <4>1. i \in 1..k /\ i - 1 \in 0..k
        BY <3>2, <1>1
      <4>2. w[i] = v % Weight(i) /\ w[i - 1] = v % Weight(i - 1)
        BY <4>1
      <4>3. Add(v % Weight(i - 1), i) = (v % Weight(i - 1)) + (s[i] % High) * Weight(i - 1)
        BY DEF Weight
      <4>4. v % Weight(i) = (v % Weight(i - 1)) + (s[i] % High) * Weight(i - 1)
        BY <4>1, <1>1
      <4> HIDE DEF Add, w
      <4>5. w[i] = Add(w[i - 1], i)
        BY <4>2, <4>3, <4>4
      <4> QED
        BY <3>2, <4>5
    <3> QED
      BY <3>1, <3>2
  <2> HIDE DEF Add
  <2> QED
    BY <2>1
<1>6. PICK sum : sum = Body(sum) /\ leb128_read(s) = sum[k]
  <2> HIDE DEF Body
  <2> QED
    BY <1>4, <1>5
<1>7. sum[0] = 0 /\ \A i \in 1..k : sum[i] = Add(sum[i - 1], i)
  <2> HIDE DEF Add
  <2>1. \A i \in 0..k : sum[i] = IF i = 0 THEN 0 ELSE Add(sum[i - 1], i)
    BY <1>6
  <2> QED
    BY <2>1, <1>1
<1> DEFINE T == {i \in 0..k : sum[i] # w[i]}
<1>8. T = {}
  <2> SUFFICES ASSUME T # {} PROVE FALSE
    OBVIOUS
  <2>0. T \in SUBSET Nat
    BY <1>1
  <2>1. PICK m \in T : \A i \in T : m <= i
    BY <2>0, LeastElement
  <2>2. \A i \in 1..k : w[i] = Add(w[i - 1], i) /\ w[0] = 0
    <3> HIDE DEF Add, w
    <3>1. \A i \in 0..k : w[i] = IF i = 0 THEN 0 ELSE Add(w[i - 1], i)
      BY <1>5
    <3> QED
      BY <3>1, <1>1
  <2> HIDE DEF w, Add
  <2>3. m # 0
    BY <2>1, <1>7, <2>2, <1>1
  <2>4. m \in 1..k /\ m - 1 \in 0..k /\ m - 1 \notin T
    BY <2>1, <2>3, <1>1
  <2>5. sum[m - 1] = w[m - 1]
    BY <2>4
  <2> QED
    BY <2>1, <2>2, <2>4, <2>5, <1>7
<1>9. sum[k] = v
  <2>0. k \in 0..k
    BY <1>1
  <2>1. sum[k] = w[k] /\ w[k] = v % Weight(k)
    BY <1>8, <2>0
  <2> QED
    BY <2>1, <1>1
<1> QED
  BY <1>3, <1>6, <1>9

(* A name in front of a request, cut off anywhere: the reader finds the    *)
(* name and what there is of the request, or refuses; it never finds       *)
(* another name.                                                           *)
LEMMA NameRead ==
    ASSUME NEW s \in Seq(Byte), NEW request \in Seq(Byte),
           NEW n \in 0..(Len(encode_method_name(s)) + Len(request))
    PROVE  LET named == Len(encode_method_name(s)) IN
           /\ encode_method_name(s) \in Seq(Byte) /\ named \in Nat
           /\ decode_method_name(SubSeq(encode_method_name(s) \o request, 1, n)) =
                IF n < named \/ Len(s) > MAX_METHOD_NAME_LEN THEN Malformed
                ELSE [ok |-> TRUE, name |-> s, rest |-> SubSeq(request, 1, n - named)]
<1> DEFINE v == Len(s)
           e == leb128_write[v]
           k == Size(v)
           whole == (e \o s) \o request
           input == SubSeq(whole, 1, n)
<1>1. /\ v \in Nat /\ k \in Nat \ {0} /\ e \in Seq(Byte) /\ Len(e) = k
      /\ \A i \in 1..k : (e[i] < High) <=> (i = k)
  <2>1. v \in Nat
    OBVIOUS
  <2>2. /\ leb128_write[v] \in Seq(Byte) /\ Len(leb128_write[v]) = Size(v)
        /\ Size(v) \in Nat \ {0}
        /\ \A i \in 1..Size(v) : (leb128_write[v][i] < High) <=> (i = Size(v))
    BY <2>1, LebBytes, Zenon
  <2> QED
    BY <2>1, <2>2, Zenon
<1>2. encode_method_name(s) = e \o s
  BY DEF encode_method_name
<1> HIDE DEF e, k
<1>3. e \o s \in Seq(Byte) /\ Len(e \o s) = k + v
  BY <1>1
<1>4. /\ whole \in Seq(Byte) /\ Len(whole) = k + v + Len(request) /\ Len(request) \in Nat
      /\ \A i \in 1..k : whole[i] = e[i]
      /\ \A i \in 1..v : whole[k + i] = s[i]
      /\ \A i \in 1..Len(request) : whole[k + v + i] = request[i]
  <2>1. \A i \in 1..k : (e \o s)[i] = e[i]
    BY <1>1
  <2>2. \A i \in 1..v : (e \o s)[k + i] = s[i]
    BY <1>1
  <2> DEFINE f == e \o s
  <2>3. /\ f \in Seq(Byte) /\ Len(f) = k + v /\ \A i \in 1..k : f[i] = e[i]
        /\ \A i \in 1..v : f[k + i] = s[i]
    BY <1>3, <2>1, <2>2
  <2> HIDE DEF f
  <2>4. /\ f \o request \in Seq(Byte) /\ Len(f \o request) = k + v + Len(request)
        /\ Len(request) \in Nat
        /\ \A i \in 1..(k + v) : (f \o request)[i] = f[i]
        /\ \A i \in 1..Len(request) : (f \o request)[k + v + i] = request[i]
    <3>1. /\ f \o request \in Seq(Byte) /\ Len(f \o request) = Len(f) + Len(request)
          /\ Len(request) \in Nat
          /\ \A i \in 1..Len(f) : (f \o request)[i] = f[i]
          /\ \A i \in 1..Len(request) : (f \o request)[Len(f) + i] = request[i]
      <4>1. f \in Seq(Byte)
        BY <2>3
      <4> QED
        BY <4>1
    <3> QED
      BY <3>1, <2>3
  <2>5. \A i \in 1..k : (f \o request)[i] = e[i]
    BY <1>1, <2>3, <2>4
  <2>6. \A i \in 1..v : (f \o request)[k + i] = s[i]
    BY <1>1, <2>3, <2>4
  <2> QED
    BY <2>4, <2>5, <2>6 DEF f
<1> HIDE DEF whole
<1>5. n \in Nat /\ n <= Len(whole)
  BY <1>2, <1>3, <1>4, <1>1
<1>6. input \in Seq(Byte) /\ Len(input) = n /\ \A i \in 1..n : input[i] = whole[i]
  BY <1>4, <1>5
<1> HIDE DEF input
<1>7. CASE n < k
  <2>1. \A i \in 1..Len(input) : ~ (input[i] < High)
    BY <1>1, <1>4, <1>5, <1>6, <1>7
  <2>2. input \in Seq(Nat)
    BY <1>6, BytesAreNat
  <2>3. leb128_len(input) = 0
    BY <2>1, <2>2, LebLen
  <2>4. decode_method_name(input) = Malformed
    BY <2>3 DEF decode_method_name
  <2>5. n < k + v
    BY <1>1, <1>5, <1>7
  <2> QED
    BY <2>4, <2>5, <1>2, <1>3, <1>1 DEF input, whole
<1>8. CASE n >= k
  <2>1. leb128_len(input) = k /\ leb128_read(input) = v
    <3>1. \A i \in 1..k : input[i] = e[i]
      BY <1>1, <1>4, <1>5, <1>6, <1>8
    <3> QED
      BY <3>1, <1>1, <1>6, <1>8, LebRead DEF k, e
  <2>2. decode_method_name(input) =
          IF v > MAX_METHOD_NAME_LEN \/ k + v > n THEN Malformed
          ELSE [ok |-> TRUE, name |-> SubSeq(input, k + 1, k + v),
                rest |-> SubSeq(input, k + v + 1, n)]
    BY <2>1, <1>1, <1>6 DEF decode_method_name
  <2>3. ASSUME ~ (n < k + v)
        PROVE  /\ SubSeq(input, k + 1, k + v) = s
               /\ SubSeq(input, k + v + 1, n) = SubSeq(request, 1, n - (k + v))
    <3>1. SubSeq(input, k + 1, k + v) = s
      <4>1. \A i \in 1..v : input[k + i] = s[i]
        BY <1>1, <1>4, <1>5, <1>6, <2>3
      <4>2. SubSeq(input, k + 1, k + v) = [i \in 1..v |-> input[k + i]]
        BY <1>1, <1>5, <1>6, <2>3
      <4>3. s = [i \in 1..v |-> s[i]]
        BY <1>1
      <4> QED
        BY <4>1, <4>2, <4>3
    <3>2. SubSeq(input, k + v + 1, n) = SubSeq(request, 1, n - (k + v))
      <4> DEFINE r == n - (k + v)
      <4>1. r \in 0..Len(request) /\ k + v + r = n
        BY <1>1, <1>4, <1>5, <2>3
      <4> HIDE DEF r
      <4>2. \A i \in 1..r : input[k + v + i] = request[i]
        BY <1>1, <1>4, <1>5, <1>6, <4>1
      <4>3. SubSeq(input, k + v + 1, n) = [i \in 1..r |-> input[k + v + i]]
        <5> DEFINE a == k + v
        <5>1. a \in Nat /\ a + r = n /\ r \in Nat
          BY <1>1, <4>1
        <5> HIDE DEF a
        <5>2. SubSeq(input, a + 1, a + r) = [i \in 1..r |-> input[a + i]]
          BY <1>6, <5>1, Cut
        <5> QED
          BY <5>1, <5>2 DEF a
      <4>4. SubSeq(request, 1, r) = [i \in 1..r |-> request[i]]
        BY <4>1
      <4> QED
        BY <4>2, <4>3, <4>4 DEF r
    <3> QED
      BY <3>1, <3>2
  <2>4. (k + v > n) <=> (n < k + v)
    BY <1>1, <1>5
  <2>5. decode_method_name(input) =
          IF n < k + v \/ v > MAX_METHOD_NAME_LEN THEN Malformed
          ELSE [ok |-> TRUE, name |-> s, rest |-> SubSeq(request, 1, n - (k + v))]
    BY <2>2, <2>3, <2>4
  <2> QED
    BY <2>5, <1>2, <1>3, <1>1 DEF input, whole
<1> QED
  BY <1>1, <1>5, <1>7, <1>8

(* The characters of names, as numbers in the order of ASCII.              *)
Chars == Letters \cup {Dot, Slash, At} \cup {Digit(d) : d \in 0..9}

(* No letter is a separator or a digit.                                    *)
LEMMA CharsDiffer ==
    /\ \A c \in Letters : c \in Nat /\ c > At
    /\ Dot = 0 /\ Slash = 1 /\ At = 12 /\ \A d \in 0..9 : Digit(d) = 2 + d
    /\ Letters # {} => Chars \subseteq Byte
<1>1. High \in Nat
  BY WeightLaw, 0 \in Nat
<1> QED
  BY <1>1 DEF Letters, Chars, Dot, Slash, At, Digit, Byte

(* The text of a version: digits and dots.                                 *)
LEMMA VersionIs ==
    ASSUME NEW v \in Versions
    PROVE  /\ VersionText(v) \in Seq({Dot} \cup {Digit(d) : d \in 0..9})
           /\ VersionText(v) # <<>>
<1> DEFINE D == {Dot} \cup {Digit(d) : d \in 0..9}
<1>1. v[1] \in 0..99 /\ v[2] \in 0..99 /\ v[3] \in 0..99
  BY RegistryAssumption
<1>2. ASSUME NEW n \in 0..99 PROVE Digits(n) \in Seq(D) /\ Digits(n) # <<>>
  <2>1. CASE n < 10
    <3>1. n \in 0..9
      BY <2>1
    <3>2. Digit(n) \in D
      BY <3>1
    <3> HIDE DEF D
    <3> QED
      BY <2>1, <3>2 DEF Digits
  <2>2. CASE ~ (n < 10)
    <3>1. n \div 10 \in 0..9 /\ n % 10 \in 0..9
      OBVIOUS
    <3>2. Digit(n \div 10) \in D /\ Digit(n % 10) \in D
      BY <3>1
    <3> HIDE DEF D
    <3> QED
      BY <2>2, <3>2 DEF Digits
  <2> QED
    BY <2>1, <2>2
<1>3. Dot \in D
  OBVIOUS
<1> HIDE DEF D
<1>4. ASSUME NEW a \in Seq(D), NEW b \in Seq(D), NEW c \in Seq(D), a # <<>>
      PROVE  /\ a \o <<Dot>> \o b \o <<Dot>> \o c \in Seq(D)
             /\ a \o <<Dot>> \o b \o <<Dot>> \o c # <<>>
  <2>1. <<Dot>> \in Seq(D)
    BY <1>3
  <2>2. a \o <<Dot>> \in Seq(D) /\ Len(a \o <<Dot>>) > 0
    BY <2>1, <1>4
  <2>3. a \o <<Dot>> \o b \in Seq(D) /\ Len(a \o <<Dot>> \o b) > 0
    BY <2>2
  <2>4. a \o <<Dot>> \o b \o <<Dot>> \in Seq(D) /\ Len(a \o <<Dot>> \o b \o <<Dot>>) > 0
    BY <2>1, <2>3
  <2> QED
    BY <2>4
<1> QED
  BY <1>1, <1>2, <1>4 DEF VersionText, D

(* The parts of a name, and no version as the empty one.                   *)
LEMMA NameIs ==
    ASSUME NEW n \in MethodNames
    PROVE  /\ n.package \in Seq(Letters) /\ n.interface \in Seq(Letters)
           /\ n.method \in Seq(Letters)
           /\ n.package # <<>> /\ n.interface # <<>> /\ n.method # <<>>
           /\ n.version \in Seq({Dot} \cup {Digit(d) : d \in 0..9})
           /\ n = [package |-> n.package, version |-> n.version,
                   interface |-> n.interface, method |-> n.method]
           /\ Letters # {}
<1>1. /\ n.package \in Packages /\ n.interface \in Interfaces /\ n.method \in Methods
      /\ n.version \in {<<>>} \cup {VersionText(v) : v \in Versions}
      /\ n = [package |-> n.package, version |-> n.version,
              interface |-> n.interface, method |-> n.method]
  BY DEF MethodNames
<1>2. /\ n.package \in Seq(Letters) /\ n.interface \in Seq(Letters)
      /\ n.method \in Seq(Letters)
      /\ n.package # <<>> /\ n.interface # <<>> /\ n.method # <<>>
  BY <1>1, RegistryAssumption
<1> DEFINE D == {Dot} \cup {Digit(d) : d \in 0..9}
<1>3. n.version \in Seq(D)
  <2>1. \A v \in Versions : VersionText(v) \in Seq(D)
    BY VersionIs
  <2> HIDE DEF D
  <2>2. <<>> \in Seq(D)
    OBVIOUS
  <2> QED
    BY <1>1, <2>1, <2>2
<1>4. Letters # {}
  <2>1. n.package[1] \in Letters
    BY <1>2
  <2> QED
    BY <2>1
<1> QED
  BY <1>1, <1>2, <1>3, <1>4

(* Two texts one after the other, and a character behind a text.           *)
LEMMA TextConcat ==
    ASSUME NEW s \in Seq(Chars), NEW t \in Seq(Chars)
    PROVE  /\ s \o t \in Seq(Chars) /\ Len(s \o t) = Len(s) + Len(t)
           /\ Len(s) \in Nat /\ Len(t) \in Nat
           /\ \A j \in 1..Len(s) : (s \o t)[j] = s[j]
           /\ \A j \in 1..Len(t) : (s \o t)[Len(s) + j] = t[j]
  OBVIOUS

(* The same for one character behind a text.                               *)
LEMMA TextAppend ==
    ASSUME NEW s \in Seq(Chars), NEW x \in Chars
    PROVE  /\ s \o <<x>> \in Seq(Chars) /\ Len(s \o <<x>>) = Len(s) + 1
           /\ Len(s) \in Nat
           /\ \A j \in 1..Len(s) : (s \o <<x>>)[j] = s[j]
           /\ (s \o <<x>>)[Len(s) + 1] = x
  OBVIOUS

(* Three parts with a slash between them.                                  *)
Joined(a, i, m) == a \o <<Slash>> \o i \o <<Slash>> \o m

(* Where each part is.                                                     *)
LEMMA JoinedAt ==
    ASSUME NEW a \in Seq(Chars), NEW i \in Seq(Chars), NEW m \in Seq(Chars)
    PROVE  /\ Joined(a, i, m) \in Seq(Chars)
           /\ Len(a) \in Nat /\ Len(i) \in Nat /\ Len(m) \in Nat
           /\ Len(Joined(a, i, m)) = Len(a) + Len(i) + Len(m) + 2
           /\ \A j \in 1..Len(a) : Joined(a, i, m)[j] = a[j]
           /\ Joined(a, i, m)[Len(a) + 1] = Slash
           /\ \A j \in 1..Len(i) : Joined(a, i, m)[Len(a) + 1 + j] = i[j]
           /\ Joined(a, i, m)[Len(a) + Len(i) + 2] = Slash
           /\ \A j \in 1..Len(m) : Joined(a, i, m)[Len(a) + Len(i) + 2 + j] = m[j]
<1>1. Slash \in Chars
  BY DEF Chars
<1> HIDE DEF Slash
<1>2. PICK b : b = a \o <<Slash>>
  OBVIOUS
<1>3. /\ b \in Seq(Chars) /\ Len(b) = Len(a) + 1 /\ b[Len(a) + 1] = Slash
      /\ \A j \in 1..Len(a) : b[j] = a[j]
      /\ Len(a) \in Nat /\ Len(i) \in Nat /\ Len(m) \in Nat
  BY <1>1, <1>2, TextAppend
<1>4. PICK c : c = b \o i
  OBVIOUS
<1>5. /\ c \in Seq(Chars) /\ Len(c) = Len(b) + Len(i)
      /\ \A j \in 1..Len(b) : c[j] = b[j]
      /\ \A j \in 1..Len(i) : c[Len(b) + j] = i[j]
  BY ZenonT(30), <1>3, <1>4, TextConcat
<1>6. PICK d : d = c \o <<Slash>>
  OBVIOUS
<1>7. /\ d \in Seq(Chars) /\ Len(d) = Len(c) + 1 /\ d[Len(c) + 1] = Slash
      /\ \A j \in 1..Len(c) : d[j] = c[j]
  BY <1>1, <1>5, <1>6, TextAppend
<1>8. PICK e : e = d \o m
  OBVIOUS
<1>9. /\ e \in Seq(Chars) /\ Len(e) = Len(d) + Len(m)
      /\ \A j \in 1..Len(d) : e[j] = d[j]
      /\ \A j \in 1..Len(m) : e[Len(d) + j] = m[j]
  <2>1. d \in Seq(Chars)
    BY <1>7
  <2>2. /\ d \o m \in Seq(Chars) /\ Len(d \o m) = Len(d) + Len(m)
        /\ \A j \in 1..Len(d) : (d \o m)[j] = d[j]
        /\ \A j \in 1..Len(m) : (d \o m)[Len(d) + j] = m[j]
    BY <2>1, TextConcat
  <2> QED
    BY <2>2, <1>8
<1>10. Joined(a, i, m) = e
  BY <1>2, <1>4, <1>6, <1>8 DEF Joined
<1>11. Len(d) = Len(a) + Len(i) + 2 /\ Len(c) = Len(a) + 1 + Len(i)
  BY <1>3, <1>5, <1>7
<1>12. \A j \in 1..Len(a) : e[j] = a[j]
  BY <1>3, <1>5, <1>7, <1>9, <1>11
<1>13. e[Len(a) + 1] = Slash
  <2>1. Len(a) + 1 \in 1..Len(b) /\ Len(a) + 1 \in 1..Len(c) /\ Len(a) + 1 \in 1..Len(d)
    BY <1>3, <1>5, <1>11
  <2> QED
    BY <2>1, <1>3, <1>5, <1>7, <1>9
<1>14. ASSUME NEW j \in 1..Len(i) PROVE e[Len(a) + 1 + j] = i[j]
  <2>1. /\ Len(a) + 1 + j = Len(b) + j /\ Len(b) + j \in 1..Len(c)
        /\ Len(b) + j \in 1..Len(d)
    BY <1>3, <1>5, <1>11
  <2> QED
    BY <2>1, <1>5, <1>7, <1>9
<1>15. e[Len(a) + Len(i) + 2] = Slash
  <2>1. Len(c) + 1 \in 1..Len(d) /\ Len(c) + 1 = Len(a) + Len(i) + 2
    BY <1>3, <1>11
  <2> QED
    BY <2>1, <1>7, <1>9
<1>16. \A j \in 1..Len(m) : e[Len(a) + Len(i) + 2 + j] = m[j]
  BY <1>9, <1>11
<1> QED
  BY <1>3, <1>9, <1>10, <1>11, <1>12, <1>13, <1>14, <1>15, <1>16

(* The first place of a character, which splitn and find look for.         *)
Find(s, x) == SelectInSeq(s, LAMBDA c : c = x)

(* It is the place that has it with no such place before it.               *)
LEMMA FindIs ==
    ASSUME NEW s \in Seq(Chars), NEW x
    PROVE  /\ (\A i \in 1..Len(s) : s[i] # x) => Find(s, x) = 0
           /\ \A k \in 1..Len(s) :
                 s[k] = x /\ (\A i \in 1..(k - 1) : s[i] # x) => Find(s, x) = k
<1> DEFINE I == {i \in 1..Len(s) : s[i] = x}
<1>1. Find(s, x) = IF I # {} THEN CHOOSE i \in I : \A j \in I : i <= j ELSE 0
  BY DEF Find, SelectInSeq, Min
<1>2. ASSUME \A i \in 1..Len(s) : s[i] # x PROVE Find(s, x) = 0
  BY <1>1, <1>2
<1>3. ASSUME NEW k \in 1..Len(s), s[k] = x, \A i \in 1..(k - 1) : s[i] # x
      PROVE  Find(s, x) = k
  <2>1. k \in I /\ \A j \in I : k <= j
    BY <1>3
  <2>2. \A i \in I : (\A j \in I : i <= j) => i = k
    BY <2>1
  <2> HIDE DEF I
  <2> QED
    BY <1>1, <2>1, <2>2
<1> QED
  BY <1>2, <1>3

(* Letters, digits and dots are characters.                                *)
LEMMA LettersAreChars ==
    /\ \A s \in Seq(Letters) : s \in Seq(Chars)
    /\ \A s \in Seq({Dot} \cup {Digit(d) : d \in 0..9}) : s \in Seq(Chars)
    /\ Letters # {} => \A s \in Seq(Chars) : s \in Seq(Byte)
<1>1. ASSUME NEW S, NEW T, S \subseteq T, NEW s \in Seq(S) PROVE s \in Seq(T)
  <2>1. s = [j \in 1..Len(s) |-> s[j]] /\ Len(s) \in Nat /\ \A j \in 1..Len(s) : s[j] \in S
    OBVIOUS
  <2>2. \A j \in 1..Len(s) : s[j] \in T
    BY <1>1, <2>1
  <2> QED
    BY <2>1, <2>2
<1> DEFINE D == {Dot} \cup {Digit(d) : d \in 0..9}
<1>2. D \subseteq Chars /\ Letters \subseteq Chars
  BY DEF Chars
<1>3. Letters # {} => Chars \subseteq Byte
  BY CharsDiffer
<1> HIDE DEF D
<1>4. /\ \A s \in Seq(Letters) : s \in Seq(Chars)
      /\ \A s \in Seq(D) : s \in Seq(Chars)
      /\ Letters # {} => \A s \in Seq(Chars) : s \in Seq(Byte)
  BY <1>1, <1>2, <1>3
<1> QED
  BY <1>4 DEF D

(* What is in front of the first slash.                                    *)
PkgPart(n) == n.package \o (IF n.version = <<>> THEN <<>> ELSE <<At>> \o n.version)

(* Where the package, the at sign and the version are in it.               *)
LEMMA PkgPartIs ==
    ASSUME NEW n \in MethodNames
    PROVE  /\ to_canonical(n) = Joined(PkgPart(n), n.interface, n.method)
           /\ PkgPart(n) \in Seq(Chars)
           /\ Len(n.package) \in Nat \ {0}
           /\ Len(PkgPart(n)) = IF n.version = <<>> THEN Len(n.package)
                              ELSE Len(n.package) + 1 + Len(n.version)
           /\ \A j \in 1..Len(n.package) : PkgPart(n)[j] = n.package[j]
           /\ n.version # <<>> =>
                 /\ PkgPart(n)[Len(n.package) + 1] = At /\ Len(n.version) \in Nat \ {0}
                 /\ \A j \in 1..Len(n.version) : PkgPart(n)[Len(n.package) + 1 + j] = n.version[j]
           /\ \A j \in 1..Len(PkgPart(n)) : PkgPart(n)[j] # Slash
<1> DEFINE D == {Dot} \cup {Digit(d) : d \in 0..9}
           p == n.package
           v == n.version
           f == PkgPart(n)
<1>1. p \in Seq(Letters) /\ p # <<>> /\ v \in Seq(D)
  BY NameIs
<1>2. D \subseteq Chars /\ Letters \subseteq Chars /\ At \in Chars
  BY DEF Chars
<1>3. Slash \notin D /\ Slash \notin Letters /\ Slash # At
  BY CharsDiffer
<1>4. to_canonical(n) = Joined(f, n.interface, n.method)
  BY DEF to_canonical, Joined, PkgPart
<1>5. f = IF v = <<>> THEN p ELSE p \o (<<At>> \o v)
  <2>1. p \o <<>> = p
    BY <1>1
  <2> QED
    BY <2>1 DEF PkgPart
<1> HIDE DEF D, p, v, f
<1>6. /\ p \in Seq(Chars) /\ Len(p) \in Nat \ {0} /\ \A j \in 1..Len(p) : p[j] # Slash
  <2>1. \A j \in 1..Len(p) : p[j] \in Letters
    BY <1>1
  <2>2. p = [j \in 1..Len(p) |-> p[j]] /\ Len(p) \in Nat
    BY <1>1
  <2>3. p \in Seq(Chars)
    BY <2>1, <2>2, <1>2
  <2> QED
    BY <2>1, <2>3, <1>1, <1>3
<1>7. /\ v \in Seq(Chars) /\ Len(v) \in Nat /\ \A j \in 1..Len(v) : v[j] # Slash
  <2>1. \A j \in 1..Len(v) : v[j] \in D
    BY <1>1
  <2>2. v = [j \in 1..Len(v) |-> v[j]] /\ Len(v) \in Nat
    BY <1>1
  <2>3. v \in Seq(Chars)
    BY <2>1, <2>2, <1>2
  <2> QED
    BY <2>1, <2>3, <1>1, <1>3
<1>8. CASE v = <<>>
  BY <1>4, <1>5, <1>6, <1>8 DEF p, v, f
<1>9. CASE v # <<>>
  <2>1. PICK w : w = <<At>> \o v
    OBVIOUS
  <2>2. /\ w \in Seq(Chars) /\ Len(w) = 1 + Len(v) /\ w[1] = At
        /\ \A j \in 1..Len(v) : w[1 + j] = v[j]
    BY <1>2, <1>7, <2>1
  <2>3. /\ f \in Seq(Chars) /\ Len(f) = Len(p) + Len(w)
        /\ \A j \in 1..Len(p) : f[j] = p[j]
        /\ \A j \in 1..Len(w) : f[Len(p) + j] = w[j]
    BY <1>5, <1>6, <1>9, <2>1, <2>2, TextConcat
  <2>4. Len(v) \in Nat \ {0} /\ Len(f) = Len(p) + 1 + Len(v)
    BY <1>6, <1>7, <1>9, <2>2, <2>3
  <2>5. f[Len(p) + 1] = At
    BY <1>7, <2>2, <2>3
  <2>6. ASSUME NEW j \in 1..Len(v) PROVE f[Len(p) + 1 + j] = v[j]
    <3>1. 1 + j \in 1..Len(w) /\ Len(p) + (1 + j) = Len(p) + 1 + j
      BY <1>6, <1>7, <2>2
    <3> QED
      BY <3>1, <2>2, <2>3
  <2>7. ASSUME NEW j \in 1..Len(f) PROVE f[j] # Slash
    <3>1. CASE j \in 1..Len(p)
      BY <3>1, <1>6, <2>3
    <3>2. CASE j = Len(p) + 1
      BY <3>2, <2>5, <1>3
    <3>3. CASE j > Len(p) + 1
      <4>1. j - (Len(p) + 1) \in 1..Len(v) /\ Len(p) + 1 + (j - (Len(p) + 1)) = j
        BY <3>3, <2>4, <1>6, <1>7
      <4> QED
        BY <4>1, <2>6, <1>7
    <3> QED
      BY <3>1, <3>2, <3>3, <1>6, <2>4
  <2> QED
    BY <1>4, <1>6, <1>9, <2>3, <2>4, <2>5, <2>6, <2>7 DEF p, v, f
<1> QED
  BY <1>8, <1>9

(* Equal texts.                                                            *)
LEMMA TextCut ==
    ASSUME NEW s \in Seq(Chars), NEW a \in Nat, NEW t \in Seq(Chars), NEW b,
           b = a + Len(t), b <= Len(s), \A j \in 1..Len(t) : s[a + j] = t[j]
    PROVE  SubSeq(s, a + 1, b) = t
<1>1. Len(t) \in Nat /\ t = [j \in 1..Len(t) |-> t[j]]
  OBVIOUS
<1>2. SubSeq(s, a + 1, a + Len(t)) = [j \in 1..Len(t) |-> s[a + j]]
  BY <1>1, Cut
<1> QED
  BY <1>1, <1>2

(* Where the parts are in a canonical name.                                *)
LEMMA CanonicalAt ==
    ASSUME NEW n \in MethodNames
    PROVE  LET s == to_canonical(n)
               f == PkgPart(n)
               i == n.interface
               m == n.method
           IN  /\ s \in Seq(Chars) /\ Len(f) \in Nat \ {0} /\ Len(i) \in Nat \ {0}
               /\ Len(m) \in Nat \ {0} /\ Len(s) = Len(f) + Len(i) + Len(m) + 2
               /\ \A j \in 1..Len(f) : s[j] = f[j]
               /\ s[Len(f) + 1] = Slash
               /\ \A j \in 1..Len(i) : s[Len(f) + 1 + j] = i[j]
               /\ s[Len(f) + Len(i) + 2] = Slash
               /\ \A j \in 1..Len(m) : s[Len(f) + Len(i) + 2 + j] = m[j]
<1> DEFINE p == n.package
           v == n.version
           i == n.interface
           m == n.method
           f == PkgPart(n)
           s == to_canonical(n)
<1>1. /\ s = Joined(f, i, m) /\ f \in Seq(Chars) /\ Len(p) \in Nat \ {0}
      /\ Len(f) = IF v = <<>> THEN Len(p) ELSE Len(p) + 1 + Len(v)
      /\ v # <<>> => Len(v) \in Nat \ {0}
  BY PkgPartIs
<1>2. i # <<>> /\ m # <<>> /\ i \in Seq(Letters) /\ m \in Seq(Letters)
  BY NameIs
<1>4. i \in Seq(Chars) /\ m \in Seq(Chars)
  BY <1>2, LettersAreChars
<1> HIDE DEF p, v, i, m, f, s
<1>6. /\ s \in Seq(Chars) /\ Len(f) \in Nat \ {0} /\ Len(i) \in Nat \ {0}
      /\ Len(m) \in Nat \ {0} /\ Len(s) = Len(f) + Len(i) + Len(m) + 2
      /\ \A j \in 1..Len(f) : s[j] = f[j]
      /\ s[Len(f) + 1] = Slash
      /\ \A j \in 1..Len(i) : s[Len(f) + 1 + j] = i[j]
      /\ s[Len(f) + Len(i) + 2] = Slash
      /\ \A j \in 1..Len(m) : s[Len(f) + Len(i) + 2 + j] = m[j]
  <2>1. i # <<>> /\ m # <<>> /\ f # <<>>
    BY <1>1, <1>2, <1>4
  <2>2. Len(f) \in Nat \ {0} /\ Len(i) \in Nat \ {0} /\ Len(m) \in Nat \ {0}
    BY <2>1, <1>1, <1>4
  <2> DEFINE J == Joined(f, i, m)
  <2>3. f \in Seq(Chars) /\ i \in Seq(Chars) /\ m \in Seq(Chars)
    BY <1>1, <1>4
  <2>4. /\ J \in Seq(Chars) /\ Len(J) = Len(f) + Len(i) + Len(m) + 2
        /\ \A j \in 1..Len(f) : J[j] = f[j]
        /\ J[Len(f) + 1] = Slash
        /\ \A j \in 1..Len(i) : J[Len(f) + 1 + j] = i[j]
        /\ J[Len(f) + Len(i) + 2] = Slash
        /\ \A j \in 1..Len(m) : J[Len(f) + Len(i) + 2 + j] = m[j]
    <3>1. J \in Seq(Chars) /\ Len(J) = Len(f) + Len(i) + Len(m) + 2
      BY <2>3, JoinedAt
    <3>2. \A j \in 1..Len(f) : J[j] = f[j]
      BY <2>3, JoinedAt
    <3>3. J[Len(f) + 1] = Slash /\ J[Len(f) + Len(i) + 2] = Slash
      BY <2>3, JoinedAt
    <3>4. \A j \in 1..Len(i) : J[Len(f) + 1 + j] = i[j]
      BY <2>3, JoinedAt
    <3>5. \A j \in 1..Len(m) : J[Len(f) + Len(i) + 2 + j] = m[j]
      BY <2>3, JoinedAt
    <3> HIDE DEF J
    <3> QED
      BY <3>1, <3>2, <3>3, <3>4, <3>5
  <2>5. s = J
    BY <1>1
  <2> HIDE DEF J
  <2> QED
    BY <2>2, <2>4, <2>5
<1> QED
  BY <1>6 DEF s, f, i, m

(* parse undoes to_canonical, for every name that is made of letters and   *)
(* has a version or none.                                                  *)
THEOREM ParseCanonical ==
    ASSUME NEW n \in MethodNames
    PROVE  parse(to_canonical(n)) = n /\ to_canonical(n) \in Seq(Byte)
<1> DEFINE p == n.package
           v == n.version
           i == n.interface
           m == n.method
           f == PkgPart(n)
           s == to_canonical(n)
           tail == SubSeq(s, Len(f) + 2, Len(s))
<1>1. /\ s = Joined(f, i, m) /\ f \in Seq(Chars) /\ Len(p) \in Nat \ {0}
      /\ Len(f) = IF v = <<>> THEN Len(p) ELSE Len(p) + 1 + Len(v)
      /\ \A j \in 1..Len(p) : f[j] = p[j]
      /\ v # <<>> => /\ f[Len(p) + 1] = At /\ Len(v) \in Nat \ {0}
                     /\ \A j \in 1..Len(v) : f[Len(p) + 1 + j] = v[j]
      /\ \A j \in 1..Len(f) : f[j] # Slash
  BY PkgPartIs
<1>2. /\ p \in Seq(Letters) /\ i \in Seq(Letters) /\ m \in Seq(Letters)
      /\ i # <<>> /\ m # <<>>
      /\ v \in Seq({Dot} \cup {Digit(d) : d \in 0..9})
      /\ n = [package |-> p, version |-> v, interface |-> i, method |-> m]
      /\ Letters # {}
  BY NameIs
<1>3. /\ Slash \notin Letters /\ At \notin Letters /\ Chars \subseteq Byte
      /\ At \notin {Dot} \cup {Digit(d) : d \in 0..9}
  BY SMTT(30), <1>2, CharsDiffer
<1>4. p \in Seq(Chars) /\ v \in Seq(Chars) /\ i \in Seq(Chars) /\ m \in Seq(Chars)
  BY <1>2, LettersAreChars
<1>5. /\ \A j \in 1..Len(p) : p[j] # At
      /\ \A j \in 1..Len(i) : i[j] # Slash
  <2>1. ASSUME NEW j \in 1..Len(p) PROVE p[j] # At
    <3>1. p[j] \in Letters
      BY <1>2
    <3> QED
      BY <3>1, <1>3
  <2>2. ASSUME NEW j \in 1..Len(i) PROVE i[j] # Slash
    <3>1. i[j] \in Letters
      BY <1>2
    <3> QED
      BY <3>1, <1>3
  <2> QED
    BY <2>1, <2>2
<1> HIDE DEF p, v, i, m, f, s
<1>6. /\ s \in Seq(Chars) /\ Len(f) \in Nat \ {0} /\ Len(i) \in Nat \ {0}
      /\ Len(m) \in Nat \ {0} /\ Len(s) = Len(f) + Len(i) + Len(m) + 2
      /\ \A j \in 1..Len(f) : s[j] = f[j]
      /\ s[Len(f) + 1] = Slash
      /\ \A j \in 1..Len(i) : s[Len(f) + 1 + j] = i[j]
      /\ s[Len(f) + Len(i) + 2] = Slash
      /\ \A j \in 1..Len(m) : s[Len(f) + Len(i) + 2 + j] = m[j]
  BY CanonicalAt DEF s, f, i, m
<1>7. Find(s, Slash) = Len(f) + 1
  <2>1. Len(f) + 1 \in 1..Len(s) /\ \A j \in 1..((Len(f) + 1) - 1) : s[j] # Slash
    <3>1. (Len(f) + 1) - 1 = Len(f) /\ Len(f) + 1 \in 1..Len(s)
      BY <1>6
    <3>2. \A j \in 1..Len(f) : s[j] = f[j] /\ f[j] # Slash
      BY <1>1, <1>6
    <3> QED
      BY <3>1, <3>2
  <2> QED
    BY <2>1, <1>6, FindIs
<1>8. SubSeq(s, 1, Len(f)) = f
  <2>1. SubSeq(s, 0 + 1, Len(f)) = f
    BY <1>1, <1>6, TextCut, 0 \in Nat
  <2> QED
    BY <2>1
<1>9. /\ tail \in Seq(Chars) /\ Len(tail) = Len(i) + Len(m) + 1
      /\ \A j \in 1..Len(i) : tail[j] = i[j]
      /\ tail[Len(i) + 1] = Slash
      /\ \A j \in 1..Len(m) : tail[Len(i) + 1 + j] = m[j]
  <2> DEFINE a == Len(f) + 1
             r == Len(i) + Len(m) + 1
  <2>1. a \in Nat /\ r \in Nat /\ a + r = Len(s) /\ a + 1 = Len(f) + 2
    BY <1>6
  <2>2. tail = SubSeq(s, a + 1, a + r)
    BY <2>1
  <2> HIDE DEF a, r, tail
  <2>3. tail = [j \in 1..r |-> s[a + j]] /\ tail \in Seq(Chars) /\ Len(tail) = r
    <3>1. s \in Seq(Chars) /\ a + r <= Len(s) /\ Len(s) \in Nat
      BY <1>6, <2>1
    <3>2. /\ SubSeq(s, a + 1, a + r) = [j \in 1..r |-> s[a + j]]
          /\ SubSeq(s, a + 1, a + r) \in Seq(Chars)
          /\ Len(SubSeq(s, a + 1, a + r)) = r
      BY SMTT(60), <2>1, <3>1, Cut
    <3> QED
      BY <3>2, <2>2, Zenon
  <2>4. \A j \in 1..r : tail[j] = s[a + j]
    BY <2>3
  <2> USE DEF a, r
  <2>5. \A j \in 1..Len(i) : tail[j] = i[j]
    BY <1>6, <2>4
  <2>6. tail[Len(i) + 1] = Slash
    <3>1. Len(i) + 1 \in 1..r /\ a + (Len(i) + 1) = Len(f) + Len(i) + 2
      BY <1>6
    <3> QED
      BY <3>1, <2>4, <1>6
  <2>7. ASSUME NEW j \in 1..Len(m) PROVE tail[Len(i) + 1 + j] = m[j]
    <3>1. Len(i) + 1 + j \in 1..r /\ a + (Len(i) + 1 + j) = Len(f) + Len(i) + 2 + j
      BY <1>6
    <3> QED
      BY <3>1, <2>4, <1>6
  <2> QED
    BY <2>3, <2>5, <2>6, <2>7
<1> HIDE DEF tail
<1>10. Find(tail, Slash) = Len(i) + 1
  <2>1. Len(i) + 1 \in 1..Len(tail) /\ \A j \in 1..((Len(i) + 1) - 1) : tail[j] # Slash
    BY SMTT(30), <1>5, <1>6, <1>9
  <2> QED
    BY <2>1, <1>9, FindIs
<1>11. SubSeq(tail, 1, Len(i)) = i
  <2>1. SubSeq(tail, 0 + 1, Len(i)) = i
    BY <1>4, <1>6, <1>9, TextCut, 0 \in Nat
  <2> QED
    BY <2>1
<1>12. SubSeq(tail, Len(i) + 2, Len(tail)) = m
  <2>1. Len(i) + 1 \in Nat /\ (Len(i) + 1) + 1 = Len(i) + 2 /\ Len(tail) = (Len(i) + 1) + Len(m)
    BY <1>6, <1>9
  <2> DEFINE a == Len(i) + 1
  <2>2. a \in Nat /\ Len(tail) = a + Len(m) /\ \A j \in 1..Len(m) : tail[a + j] = m[j]
    BY <2>1, <1>9
  <2> HIDE DEF a
  <2>3. SubSeq(tail, a + 1, Len(tail)) = m
    <3>1. Len(tail) <= Len(tail)
      BY <1>9
    <3> QED
      BY <3>1, <1>4, <1>9, <2>2, TextCut
  <2> QED
    BY <2>1, <2>3 DEF a
<1>13. /\ Find(f, At) = IF v = <<>> THEN 0 ELSE Len(p) + 1
       /\ v = <<>> => f = p
       /\ v # <<>> => /\ SubSeq(f, 1, Len(p)) = p
                      /\ SubSeq(f, Len(p) + 2, Len(f)) = v
                      /\ Len(p) + 1 \notin {1, Len(f)}
  <2>1. CASE v = <<>>
    <3>1. \A j \in 1..Len(f) : f[j] # At
      BY <2>1, <1>1, <1>5
    <3>2. f = p
      BY <2>1, <1>1, <1>4
    <3> QED
      BY <2>1, <3>1, <3>2, <1>1, FindIs
  <2>2. CASE v # <<>>
    <3>1. Len(p) + 1 \in 1..Len(f) /\ \A j \in 1..((Len(p) + 1) - 1) : f[j] # At
      BY <2>2, <1>1, <1>5
    <3>2. Find(f, At) = Len(p) + 1
      BY <3>1, <2>2, <1>1, FindIs
    <3>3. SubSeq(f, 0 + 1, Len(p)) = p
      BY <1>1, <1>4, <2>2, TextCut, 0 \in Nat
    <3>4. /\ Len(p) + 1 \in Nat /\ (Len(p) + 1) + 1 = Len(p) + 2
          /\ Len(f) = (Len(p) + 1) + Len(v) /\ Len(p) + 1 \notin {1, Len(f)}
      BY <1>1, <2>2
    <3>5. SubSeq(f, (Len(p) + 1) + 1, Len(f)) = v
      <4> DEFINE a == Len(p) + 1
      <4>1. a \in Nat /\ Len(f) = a + Len(v) /\ \A j \in 1..Len(v) : f[a + j] = v[j]
        BY <3>4, <2>2, <1>1
      <4> HIDE DEF a
      <4>2. Len(f) <= Len(f)
        BY <1>6
      <4>3. f \in Seq(Chars) /\ v \in Seq(Chars)
        BY <1>1, <1>4, Zenon
      <4>4. SubSeq(f, a + 1, Len(f)) = v
        BY SMTT(60), <4>1, <4>2, <4>3, TextCut
      <4> QED
        BY <4>4 DEF a
    <3> QED
      BY <2>2, <3>2, <3>3, <3>4, <3>5
  <2> QED
    BY <2>1, <2>2
<1>14. parse(s) = [package |-> p, version |-> v, interface |-> i, method |-> m]
  <2> DEFINE Parsed(first, rest, second, pkg_part, interface, method, at) ==
                 IF \/ first = 0 \/ second = 0 \/ <<>> \in {pkg_part, interface, method}
                    \/ at # 0 /\ at \in {1, Len(pkg_part)}
                 THEN NoName
                 ELSE [package   |-> IF at = 0 THEN pkg_part ELSE SubSeq(pkg_part, 1, at - 1),
                       version   |-> IF at = 0 THEN <<>>
                                     ELSE SubSeq(pkg_part, at + 1, Len(pkg_part)),
                       interface |-> interface, method |-> method]
  <2>1. parse(s) =
          LET first == Find(s, Slash)
              rest == SubSeq(s, first + 1, Len(s))
              second == Find(rest, Slash)
              pkg_part == SubSeq(s, 1, first - 1)
              at == Find(pkg_part, At)
          IN  Parsed(first, rest, second, pkg_part, SubSeq(rest, 1, second - 1),
                     SubSeq(rest, second + 1, Len(rest)), at)
    BY DEF parse, Find
  <2> HIDE DEF Parsed
  <2>2. /\ Find(s, Slash) + 1 = Len(f) + 2 /\ Find(s, Slash) - 1 = Len(f)
        /\ Find(tail, Slash) + 1 = Len(i) + 2 /\ Find(tail, Slash) - 1 = Len(i)
    BY <1>6, <1>7, <1>10
  <2>3. SubSeq(s, Find(s, Slash) + 1, Len(s)) = tail
    BY <2>2 DEF tail
  <2>4. SubSeq(s, 1, Find(s, Slash) - 1) = f
    BY <2>2, <1>8
  <2>5. /\ SubSeq(tail, 1, Find(tail, Slash) - 1) = i
        /\ SubSeq(tail, Find(tail, Slash) + 1, Len(tail)) = m
    BY <2>2, <1>11, <1>12
  <2>6. parse(s) = Parsed(Len(f) + 1, tail, Len(i) + 1, f, i, m, Find(f, At))
    BY <2>1, <2>3, <2>4, <2>5, <1>7, <1>10, Zenon
  <2>7. Len(f) + 1 # 0 /\ Len(i) + 1 # 0 /\ <<>> \notin {f, i, m}
    <3>1. f # <<>>
      BY <1>1, <1>6
    <3>2. Len(f) + 1 # 0 /\ Len(i) + 1 # 0
      BY <1>6
    <3> QED
      BY <1>2, <3>1, <3>2
  <2>8. CASE v = <<>>
    <3>1. Parsed(Len(f) + 1, tail, Len(i) + 1, f, i, m, 0) =
            [package |-> f, version |-> <<>>, interface |-> i, method |-> m]
      BY <2>7 DEF Parsed
    <3> QED
      BY <3>1, <2>6, <2>8, <1>13
  <2>9. CASE v # <<>>
    <3> DEFINE at == Len(p) + 1
    <3>1. /\ at # 0 /\ at \notin {1, Len(f)} /\ SubSeq(f, 1, at - 1) = p
          /\ SubSeq(f, at + 1, Len(f)) = v
      <4>1. at # 0 /\ at - 1 = Len(p) /\ at + 1 = Len(p) + 2
        BY <1>1
      <4> QED
        BY <4>1, <2>9, <1>13
    <3> HIDE DEF at
    <3>2. Parsed(Len(f) + 1, tail, Len(i) + 1, f, i, m, at) =
            [package |-> p, version |-> v, interface |-> i, method |-> m]
      BY <2>7, <3>1 DEF Parsed
    <3> QED
      BY <3>2, <2>6, <2>9, <1>13 DEF at
  <2> QED
    BY <2>8, <2>9
<1>15. s \in Seq(Byte)
  BY <1>2, <1>6, LettersAreChars
<1> QED
  BY <1>2, <1>14, <1>15 DEF s

(* The frame of a request behind its opcode.                               *)
LEMMA Framed ==
    ASSUME NEW e \in Seq(Byte), NEW r \in Seq(Byte), NEW n \in 1..Len((<< 0 >> \o e) \o r)
    PROVE  /\ Len((<< 0 >> \o e) \o r) = 1 + Len(e) + Len(r) /\ Len(e) \in Nat /\ Len(r) \in Nat
           /\ SubSeq((<< 0 >> \o e) \o r, 1, n) # <<>>
           /\ SubSeq((<< 0 >> \o e) \o r, 1, n)[1] = 0
           /\ Tail(SubSeq((<< 0 >> \o e) \o r, 1, n)) = SubSeq(e \o r, 1, n - 1)
<1>1. 0 \in Byte
  <2>1. High \in Nat /\ High >= 2
    BY WeightLaw, 0 \in Nat
  <2> QED
    BY <2>1 DEF Byte
<1>2. PICK a : a = e \o r
  OBVIOUS
<1>3. a \in Seq(Byte) /\ Len(a) = Len(e) + Len(r) /\ Len(e) \in Nat /\ Len(r) \in Nat
  BY <1>2
<1>4. PICK b : b = << 0 >> \o a
  OBVIOUS
<1>5. /\ b \in Seq(Byte) /\ Len(b) = 1 + Len(a) /\ b[1] = 0
      /\ \A j \in 1..Len(a) : b[1 + j] = a[j]
  BY <1>1, <1>3, <1>4
<1>6. (<< 0 >> \o e) \o r = b
  BY <1>1, <1>2, <1>4
<1>7. n \in 1..Len(b) /\ n \in Nat /\ n - 1 \in Nat /\ n - 1 <= Len(a)
  BY <1>3, <1>5, <1>6
<1> DEFINE c == SubSeq(b, 1, n)
<1>8. c \in Seq(Byte) /\ Len(c) = n /\ \A j \in 1..n : c[j] = b[j]
  BY <1>5, <1>7
<1>9. Tail(c) = SubSeq(a, 1, n - 1)
  <2>1. Tail(c) = [j \in 1..(n - 1) |-> c[j + 1]]
    <3> HIDE DEF c
    <3>1. c \in Seq(Byte) /\ c # <<>> /\ Len(c) = n
      BY <1>7, <1>8
    <3>2. /\ Tail(c) \in Seq(Byte) /\ Len(Tail(c)) = n - 1
          /\ \A j \in 1..(n - 1) : Tail(c)[j] = c[j + 1]
      BY <3>1, <1>7
    <3> DEFINE t == Tail(c)
    <3>3. t \in Seq(Byte) /\ Len(t) = n - 1 /\ \A j \in 1..(n - 1) : t[j] = c[j + 1]
      BY <3>2
    <3> HIDE DEF t
    <3>4. t = [j \in 1..(n - 1) |-> t[j]]
      BY <3>3
    <3> QED
      BY <3>3, <3>4 DEF t
  <2>2. SubSeq(a, 1, n - 1) = [j \in 1..(n - 1) |-> a[j]]
    BY <1>3, <1>7
  <2>3. \A j \in 1..(n - 1) : c[j + 1] = a[j]
    <3> HIDE DEF c
    <3> QED
      BY <1>3, <1>5, <1>7, <1>8
  <2> QED
    BY <2>1, <2>2, <2>3
<1>10. c # <<>> /\ c[1] = 0
  <2> HIDE DEF c
  <2> QED
    BY <1>5, <1>7, <1>8
<1>11. Len(b) = 1 + Len(e) + Len(r)
  BY <1>3, <1>5
<1> QED
  BY <1>2, <1>3, <1>6, <1>9, <1>10, <1>11, Zenon

(* A unary request runs the method its caller named or none, wherever the  *)
(* stream was cut off: what dispatch_unary finds in any beginning of the   *)
(* frame that build_unary_request_frame makes, for every name, request and *)
(* limit, and whatever is registered.                                      *)
THEOREM RequestsReachTheirMethod == RegistrySpec => []DispatchedAsNamed
<1>1. DispatchedAsNamed
  <2> SUFFICES ASSUME NEW s \in Texts, NEW request \in Payloads,
                      NEW n \in 1..Len(build_unary_request_frame(s, request))
               PROVE  LET frame == build_unary_request_frame(s, request)
                          named == Len(frame) - Len(request)
                      IN  handle_inbound_substream(SubSeq(frame, 1, n)) =
                            IF n < named \/ Len(s) > MAX_METHOD_NAME_LEN
                            THEN Answer("MalformedFrame", NoKey, <<>>)
                            ELSE IF lookup(s, "unary") = NoKey
                                 THEN Answer("UnknownMethod", NoKey, <<>>)
                            ELSE Answer("handle", lookup(s, "unary"),
                                        SubSeq(request, 1, n - named))
    BY DEF DispatchedAsNamed
  <2>1. s \in Seq(Byte) /\ request \in Seq(Byte)
    BY ParseCanonical, RegistryAssumption DEF Texts
  <2> DEFINE e == encode_method_name(s)
             frame == build_unary_request_frame(s, request)
             buf == SubSeq(frame, 1, n)
             input == SubSeq(e \o request, 1, n - 1)
             d == decode_method_name(input)
             k == lookup(d.name, "unary")
  <2>2. e \in Seq(Byte) /\ Len(e) \in Nat
    <3>1. 0 \in 0..(Len(e) + Len(request))
      <4>1. Len(request) \in Nat
        BY <2>1
      <4>2. leb128_write[Len(s)] \in Seq(Byte)
        BY <2>1, LebBytes
      <4>3. e \in Seq(Byte)
        BY <2>1, <4>2 DEF encode_method_name
      <4>4. Len(e) \in Nat
        BY <4>3
      <4> HIDE DEF e
      <4> QED
        BY <4>1, <4>4
    <3> QED
      BY <2>1, <3>1, NameRead
  <2>3. frame = (<< 0 >> \o e) \o request
    BY DEF build_unary_request_frame, OPCODE_UNARY_REQUEST
  <2>4. /\ Len(frame) = 1 + Len(e) + Len(request) /\ Len(request) \in Nat
        /\ buf # <<>> /\ buf[1] = 0 /\ Tail(buf) = input
    <3> DEFINE w == (<< 0 >> \o e) \o request
    <3>1. n \in 1..Len(w)
      BY <2>3
    <3> HIDE DEF e, frame
    <3>2. /\ Len(w) = 1 + Len(e) + Len(request) /\ Len(request) \in Nat
          /\ SubSeq(w, 1, n) # <<>> /\ SubSeq(w, 1, n)[1] = 0
          /\ Tail(SubSeq(w, 1, n)) = input
      BY <2>1, <2>2, <3>1, Framed, Zenon
    <3> QED
      BY <2>3, <3>2, Zenon
  <2>5. n - 1 \in 0..(Len(e) + Len(request))
    BY <2>2, <2>4
  <2>6. d = IF n - 1 < Len(e) \/ Len(s) > MAX_METHOD_NAME_LEN THEN Malformed
            ELSE [ok |-> TRUE, name |-> s, rest |-> SubSeq(request, 1, (n - 1) - Len(e))]
    BY <2>1, <2>5, NameRead
  <2>7. /\ Len(frame) - Len(request) = 1 + Len(e)
        /\ (n < 1 + Len(e)) <=> (n - 1 < Len(e))
        /\ n - (1 + Len(e)) = (n - 1) - Len(e)
    BY <2>2, <2>4
  <2>8. handle_inbound_substream(buf) =
          IF ~d.ok THEN Answer("MalformedFrame", NoKey, <<>>)
          ELSE IF k = NoKey THEN Answer("UnknownMethod", NoKey, <<>>)
          ELSE Answer("handle", k, d.rest)
    <3> HIDE DEF frame, e
    <3> QED
      BY <2>4 DEF handle_inbound_substream, dispatch_unary, OPCODE_UNARY_REQUEST
  <2>9. CASE n - 1 < Len(e) \/ Len(s) > MAX_METHOD_NAME_LEN
    BY <2>6, <2>7, <2>8, <2>9 DEF Malformed
  <2>10. CASE ~ (n - 1 < Len(e) \/ Len(s) > MAX_METHOD_NAME_LEN)
    <3>1. d.ok /\ d.name = s /\ d.rest = SubSeq(request, 1, n - (1 + Len(e)))
      BY <2>6, <2>7, <2>10
    <3>2. k = lookup(s, "unary")
      BY <3>1
    <3>3. ~ (n < 1 + Len(e) \/ Len(s) > MAX_METHOD_NAME_LEN)
      BY <2>7, <2>10
    <3>4. d.ok /\ d.rest = SubSeq(request, 1, n - (Len(frame) - Len(request)))
      BY <3>1, <2>7
    <3>5. handle_inbound_substream(buf) =
            IF lookup(s, "unary") = NoKey THEN Answer("UnknownMethod", NoKey, <<>>)
            ELSE Answer("handle", lookup(s, "unary"),
                        SubSeq(request, 1, n - (Len(frame) - Len(request))))
      <4> HIDE DEF d, e, frame, k
      <4> QED
        BY <2>8, <3>2, <3>4
    <3> HIDE DEF d, e, k
    <3> QED
      BY <2>7, <3>3, <3>5
  <2> QED
    BY <2>9, <2>10
<1> QED
  BY <1>1, PTL

-----------------------------------------------------------------------------
(* The registry.                                                           *)

(* A canonical text with a version is none without.                        *)
LEMMA PinnedIs ==
    ASSUME NEW s \in Texts, validate_canonical(s)
    PROVE  /\ s \notin Unpinned /\ parse(s) \in MethodNames /\ parse(s).version # <<>>
           /\ s = to_canonical(parse(s))
<1>1. PICK n \in MethodNames : s = to_canonical(n)
  BY DEF Texts
<1>2. parse(s) = n /\ n.version # <<>>
  BY <1>1, ParseCanonical DEF validate_canonical
<1>3. ASSUME s \in Unpinned PROVE FALSE
  <2>1. PICK m \in MethodNames : m.version = <<>> /\ s = to_canonical(m)
    BY <1>3 DEF Unpinned
  <2>2. parse(s) = m
    BY <2>1, ParseCanonical
  <2> QED
    BY <1>2, <2>1, <2>2
<1> QED
  BY <1>1, <1>2, <1>3

(* The invariant, with what it takes of the keys: each validates.          *)
RegistryInv == RegistryTypeOK /\ \A k \in Registered : validate_canonical(k)

(* Registering a name and sharing the registry keep it.                    *)
LEMMA RegistryInvariant ==
    ASSUME NamesOnly
    PROVE  RegistrySpec => []RegistryInv
<1> DEFINE K == {"none", "unary", "streaming"}
<1>1. RegistryInit => RegistryInv
  BY DEF RegistryInit, RegistryInv, RegistryTypeOK, Registered
<1>2. RegistryInv /\ [RegistryNext]_registryVars => RegistryInv'
  <2> SUFFICES ASSUME RegistryInv, [RegistryNext]_registryVars PROVE RegistryInv'
    OBVIOUS
  <2>1. ASSUME NEW s \in Registrable, NEW kind \in {"unary", "streaming"}, register(s, kind)
        PROVE  RegistryInv'
    <3>1. handlers' \in [Registrable -> K] /\ shared' \in BOOLEAN
      BY <2>1 DEF register, RegistryInv, RegistryTypeOK
    <3>2. Registered' \subseteq Registered \cup {s}
      BY <2>1 DEF register, RegistryInv, RegistryTypeOK, Registered
    <3>3. s \in Texts \ Unpinned /\ validate_canonical(s)
      BY <2>1, PinnedIs DEF register, NamesOnly
    <3> QED
      BY <3>1, <3>2, <3>3 DEF RegistryInv, RegistryTypeOK
  <2>2. CASE Share
    BY <2>2 DEF Share, RegistryInv, RegistryTypeOK, Registered
  <2>3. CASE UNCHANGED registryVars
    BY <2>3 DEF registryVars, RegistryInv, RegistryTypeOK, Registered
  <2> QED
    BY <2>1, <2>2, <2>3 DEF RegistryNext
<1> QED
  BY <1>1, <1>2, PTL DEF RegistrySpec

(* Nothing is ever registered under a name without a version, nor under    *)
(* one that does not parse, in whatever order names are registered.        *)
THEOREM RegistryTypes ==
    ASSUME NamesOnly
    PROVE  RegistrySpec => []RegistryTypeOK
<1>1. RegistryInv => RegistryTypeOK
  BY DEF RegistryInv
<1> QED
  BY <1>1, RegistryInvariant, PTL

(* What IsPrefix and IsSuffix of the library say, character by character.  *)
LEMMA PrefixIs ==
    ASSUME NEW s \in Seq(Chars), NEW t \in Seq(Chars)
    PROVE  IsPrefix(s, t) <=> Len(s) <= Len(t) /\ \A j \in 1..Len(s) : t[j] = s[j]
<1>1. Len(s) \in Nat /\ Len(t) \in Nat
  OBVIOUS
<1>2. SubSeq(s, 1, Len(s)) = s
  OBVIOUS
<1>3. ASSUME Len(s) <= Len(t)
      PROVE  (SubSeq(t, 1, Len(s)) = s) <=> \A j \in 1..Len(s) : t[j] = s[j]
  <2>1. SubSeq(t, 1, Len(s)) = [j \in 1..Len(s) |-> t[j]]
    BY <1>1, <1>3
  <2>2. s = [j \in 1..Len(s) |-> s[j]]
    OBVIOUS
  <2> QED
    BY <2>1, <2>2
<1> QED
  BY <1>1, <1>2, <1>3 DEF IsPrefix

(* A suffix is a prefix of the text read backwards.                        *)
LEMMA SuffixIs ==
    ASSUME NEW s \in Seq(Chars), NEW t \in Seq(Chars)
    PROVE  IsSuffix(s, t) <=>
              Len(s) <= Len(t) /\ \A j \in 1..Len(s) : t[(Len(t) - Len(s)) + j] = s[j]
<1> DEFINE u == Reverse(s)
           w == Reverse(t)
           a == Len(s)
           b == Len(t)
<1>1. a \in Nat /\ b \in Nat
  OBVIOUS
<1>2. ASSUME NEW x \in Seq(Chars)
      PROVE  /\ Reverse(x) \in Seq(Chars) /\ Len(Reverse(x)) = Len(x)
             /\ \A j \in 1..Len(x) : Reverse(x)[j] = x[(Len(x) - j) + 1]
  <2>1. \A j \in 1..Len(x) : x[(Len(x) - j) + 1] \in Chars
    OBVIOUS
  <2> QED
    BY <2>1 DEF Reverse
<1>3. /\ u \in Seq(Chars) /\ Len(u) = a /\ w \in Seq(Chars) /\ Len(w) = b
      /\ \A j \in 1..a : u[j] = s[(a - j) + 1]
      /\ \A j \in 1..b : w[j] = t[(b - j) + 1]
  BY <1>2
<1>4. IsSuffix(s, t) <=> a <= b /\ \A j \in 1..a : w[j] = u[j]
  <2> HIDE DEF u, w
  <2>1. IsPrefix(u, w) <=> Len(u) <= Len(w) /\ \A j \in 1..Len(u) : w[j] = u[j]
    BY <1>3, PrefixIs
  <2> QED
    BY <2>1, <1>3 DEF IsSuffix, u, w
<1> HIDE DEF u, w, a, b
<1>5. ASSUME a <= b, \A j \in 1..a : w[j] = u[j], NEW j \in 1..a
      PROVE  t[(b - a) + j] = s[j]
  <2> DEFINE i == (a - j) + 1
  <2>1. i \in 1..a /\ i \in 1..b /\ (a - i) + 1 = j /\ (b - i) + 1 = (b - a) + j
    BY <1>1, <1>5
  <2> HIDE DEF i
  <2>2. w[i] = u[i] /\ u[i] = s[(a - i) + 1] /\ w[i] = t[(b - i) + 1]
    BY <1>3, <1>5, <2>1
  <2> QED
    BY <2>1, <2>2
<1>6. ASSUME a <= b, \A j \in 1..a : t[(b - a) + j] = s[j], NEW i \in 1..a
      PROVE  w[i] = u[i]
  <2> DEFINE j == (a - i) + 1
  <2>1. j \in 1..a /\ i \in 1..b /\ (a - i) + 1 = j /\ (b - i) + 1 = (b - a) + j
    BY <1>1, <1>6
  <2> HIDE DEF j
  <2>2. t[(b - a) + j] = s[j] /\ u[i] = s[(a - i) + 1] /\ w[i] = t[(b - i) + 1]
    BY <1>3, <1>6, <2>1
  <2> QED
    BY <2>1, <2>2
<1> QED
  BY <1>4, <1>5, <1>6 DEF a, b

(* The word a stands at the front of s, with x behind it; or it ends at e,  *)
(* with x in front of it.                                                  *)
AtFront(s, x, a) == (\A j \in 1..Len(a) : s[j] = a[j]) /\ s[Len(a) + 1] = x
AtBack(s, e, x, a) == (\A j \in 1..Len(a) : s[(e - Len(a)) + j] = a[j]) /\ s[e - Len(a)] = x

(* There is one such word of letters, if x is none.                        *)
LEMMA SameFront ==
    ASSUME NEW s, NEW x, x \notin Letters, NEW a \in Seq(Letters), NEW b \in Seq(Letters),
           AtFront(s, x, a), AtFront(s, x, b)
    PROVE  a = b
<1>1. ASSUME NEW c \in Seq(Letters), NEW d \in Seq(Letters), Len(c) < Len(d),
             \A j \in 1..Len(d) : s[j] = d[j], s[Len(c) + 1] = x
      PROVE  FALSE
  <2>1. Len(c) + 1 \in 1..Len(d)
    BY <1>1
  <2>2. d[Len(c) + 1] \in Letters /\ s[Len(c) + 1] = d[Len(c) + 1]
    BY <1>1, <2>1
  <2> QED
    BY <1>1, <2>2
<1>2. ~ (Len(a) < Len(b)) /\ ~ (Len(b) < Len(a))
  BY <1>1 DEF AtFront
<1>3. Len(a) = Len(b)
  BY <1>2
<1>4. a = [j \in 1..Len(a) |-> a[j]] /\ b = [j \in 1..Len(b) |-> b[j]]
  OBVIOUS
<1> QED
  BY <1>3, <1>4 DEF AtFront

(* The same from the end.                                                  *)
LEMMA SameBack ==
    ASSUME NEW s, NEW e \in Int, NEW x, x \notin Letters,
           NEW a \in Seq(Letters), NEW b \in Seq(Letters),
           AtBack(s, e, x, a), AtBack(s, e, x, b)
    PROVE  a = b
<1>1. ASSUME NEW c \in Seq(Letters), NEW d \in Seq(Letters), Len(c) < Len(d),
             \A j \in 1..Len(d) : s[(e - Len(d)) + j] = d[j], s[e - Len(c)] = x
      PROVE  FALSE
  <2> DEFINE j == Len(d) - Len(c)
  <2>1. j \in 1..Len(d) /\ (e - Len(d)) + j = e - Len(c)
    BY <1>1
  <2> HIDE DEF j
  <2>2. d[j] \in Letters
    BY <2>1
  <2>3. s[(e - Len(d)) + j] = d[j]
    BY <1>1, <2>1, Zenon
  <2> QED
    BY <1>1, <2>1, <2>2, <2>3, Zenon
<1>2. ~ (Len(a) < Len(b)) /\ ~ (Len(b) < Len(a))
  BY <1>1 DEF AtBack
<1>3. Len(a) = Len(b)
  BY <1>2
<1>4. a = [j \in 1..Len(a) |-> a[j]] /\ b = [j \in 1..Len(b) |-> b[j]]
  OBVIOUS
<1> QED
  BY <1>3, <1>4 DEF AtBack

(* The characters of a canonical name with a version.                      *)
LEMMA PinnedAt ==
    ASSUME NEW n \in MethodNames, n.version # <<>>
    PROVE  LET s == to_canonical(n)
               p == Len(n.package)
               v == Len(n.version)
               i == Len(n.interface)
               m == Len(n.method)
           IN  /\ s \in Seq(Chars) /\ Len(s) = p + v + i + m + 3
               /\ p \in Nat \ {0} /\ v \in Nat \ {0} /\ i \in Nat \ {0} /\ m \in Nat \ {0}
               /\ \A j \in 1..p : s[j] = n.package[j]
               /\ s[p + 1] = At
               /\ \A j \in 1..v : s[p + 1 + j] = n.version[j]
               /\ s[p + v + 2] = Slash
               /\ \A j \in 1..i : s[p + v + 2 + j] = n.interface[j]
               /\ s[p + v + i + 3] = Slash
               /\ \A j \in 1..m : s[p + v + i + 3 + j] = n.method[j]
<1> DEFINE s == to_canonical(n)
           f == PkgPart(n)
           p == Len(n.package)
           v == Len(n.version)
           i == Len(n.interface)
           m == Len(n.method)
<1>1. /\ f \in Seq(Chars) /\ Len(f) = p + 1 + v
      /\ p \in Nat \ {0} /\ v \in Nat \ {0} /\ i \in Nat \ {0} /\ m \in Nat \ {0}
      /\ \A j \in 1..p : f[j] = n.package[j]
      /\ f[p + 1] = At
      /\ \A j \in 1..v : f[p + 1 + j] = n.version[j]
  <2>1. i \in Nat \ {0} /\ m \in Nat \ {0}
    BY CanonicalAt
  <2> QED
    BY <2>1, PkgPartIs
<1>2. /\ s \in Seq(Chars) /\ Len(s) = Len(f) + i + m + 2
      /\ \A j \in 1..Len(f) : s[j] = f[j]
      /\ s[Len(f) + 1] = Slash
      /\ \A j \in 1..i : s[Len(f) + 1 + j] = n.interface[j]
      /\ s[Len(f) + i + 2] = Slash
      /\ \A j \in 1..m : s[Len(f) + i + 2 + j] = n.method[j]
  BY CanonicalAt
<1> HIDE DEF s, f, p, v, i, m
<1>3. /\ Len(s) = p + v + i + m + 3
      /\ Len(f) + 1 = p + v + 2 /\ Len(f) + i + 2 = p + v + i + 3
  BY <1>1, <1>2
<1>4. \A j \in 1..p : s[j] = n.package[j]
  BY <1>1, <1>2
<1>5. s[p + 1] = At
  <2>1. p + 1 \in 1..Len(f)
    BY <1>1
  <2> QED
    BY <2>1, <1>1, <1>2
<1>6. ASSUME NEW j \in 1..v PROVE s[p + 1 + j] = n.version[j]
  <2>1. p + 1 + j \in 1..Len(f)
    BY <1>1
  <2> QED
    BY <2>1, <1>1, <1>2
<1>7. \A j \in 1..i : s[p + v + 2 + j] = n.interface[j]
  BY <1>2, <1>3
<1>8. \A j \in 1..m : s[p + v + i + 3 + j] = n.method[j]
  BY <1>2, <1>3
<1>9. s[p + v + 2] = Slash /\ s[p + v + i + 3] = Slash
  BY <1>2, <1>3
<1> QED
  BY <1>1, <1>2, <1>3, <1>4, <1>5, <1>6, <1>7, <1>8, <1>9 DEF s, p, v, i, m

(* The end of the keys that answer for a name.                             *)
Behind(n) == <<Slash>> \o n.interface \o <<Slash>> \o n.method

(* Where its slashes, the interface and the method are.                    *)
LEMMA BehindAt ==
    ASSUME NEW n \in MethodNames
    PROVE  /\ Behind(n) \in Seq(Chars)
           /\ Len(Behind(n)) = Len(n.interface) + Len(n.method) + 2
           /\ Behind(n)[1] = Slash /\ Behind(n)[Len(n.interface) + 2] = Slash
           /\ \A j \in 1..Len(n.interface) : Behind(n)[1 + j] = n.interface[j]
           /\ \A j \in 1..Len(n.method) : Behind(n)[Len(n.interface) + 2 + j] = n.method[j]
<1>1. PICK i, m : i = n.interface /\ m = n.method
  OBVIOUS
<1>2. i \in Seq(Chars) /\ m \in Seq(Chars)
  BY <1>1, NameIs, LettersAreChars
<1>3. <<Slash>> \in Seq(Chars) /\ Len(<<Slash>>) = 1 /\ <<Slash>>[1] = Slash
  BY DEF Chars
<1>4. PICK a : a = <<Slash>> \o i
  OBVIOUS
<1>5. /\ a \in Seq(Chars) /\ Len(a) = 1 + Len(i) /\ Len(i) \in Nat
      /\ a[1] = Slash /\ \A j \in 1..Len(i) : a[1 + j] = i[j]
  BY <1>2, <1>3, <1>4, TextConcat
<1>6. PICK b : b = a \o <<Slash>>
  OBVIOUS
<1>7. /\ b \in Seq(Chars) /\ Len(b) = Len(a) + 1 /\ b[Len(a) + 1] = Slash
      /\ \A j \in 1..Len(a) : b[j] = a[j]
  <2>1. \A j \in 1..1 : b[Len(a) + j] = <<Slash>>[j]
    BY <1>3, <1>5, <1>6, TextConcat
  <2>2. b[Len(a) + 1] = Slash
    BY <1>3, <2>1
  <2> QED
    BY <2>2, <1>3, <1>5, <1>6, TextConcat
<1>8. PICK c : c = b \o m
  OBVIOUS
<1>9. /\ c \in Seq(Chars) /\ Len(c) = Len(b) + Len(m) /\ Len(m) \in Nat
      /\ \A j \in 1..Len(b) : c[j] = b[j]
      /\ \A j \in 1..Len(m) : c[Len(b) + j] = m[j]
  BY <1>2, <1>7, <1>8, TextConcat
<1>10. Behind(n) = c
  BY <1>1, <1>4, <1>6, <1>8 DEF Behind
<1>11. Len(c) = Len(i) + Len(m) + 2 /\ Len(b) = Len(i) + 2
  BY <1>5, <1>7, <1>9
<1>12. c[1] = Slash /\ c[Len(i) + 2] = Slash
  <2>1. 1 \in 1..Len(a) /\ 1 \in 1..Len(b) /\ Len(a) + 1 = Len(i) + 2 /\ Len(a) + 1 \in 1..Len(b)
    BY <1>5, <1>7
  <2> QED
    BY <2>1, <1>5, <1>7, <1>9
<1>13. ASSUME NEW j \in 1..Len(i) PROVE c[1 + j] = i[j]
  <2>1. 1 + j \in 1..Len(a) /\ 1 + j \in 1..Len(b)
    BY <1>5, <1>7
  <2> QED
    BY <2>1, <1>5, <1>7, <1>9
<1>14. \A j \in 1..Len(m) : c[Len(i) + 2 + j] = m[j]
  BY <1>9, <1>11
<1> QED
  BY <1>1, <1>9, <1>10, <1>11, <1>12, <1>13, <1>14

(* A key answers for a name if it has its package, its interface and its   *)
(* method: letters hold neither of the separators that are looked for.     *)
LEMMA KeyAnswers ==
    ASSUME NEW n \in MethodNames, NEW m \in MethodNames, m.version # <<>>
    PROVE  /\ IsPrefix(n.package \o <<At>>, to_canonical(m))
           /\ IsSuffix(Behind(n), to_canonical(m))
           <=> n.package = m.package /\ n.interface = m.interface /\ n.method = m.method
<1> DEFINE s == to_canonical(m)
           front == n.package \o <<At>>
           p == Len(m.package)
           v == Len(m.version)
           i == Len(m.interface)
           w == Len(m.method)
<1>1. /\ s \in Seq(Chars) /\ Len(s) = p + v + i + w + 3
      /\ p \in Nat \ {0} /\ v \in Nat \ {0} /\ i \in Nat \ {0} /\ w \in Nat \ {0}
      /\ \A j \in 1..p : s[j] = m.package[j]
      /\ s[p + 1] = At
      /\ s[p + v + 2] = Slash
      /\ \A j \in 1..i : s[p + v + 2 + j] = m.interface[j]
      /\ s[p + v + i + 3] = Slash
      /\ \A j \in 1..w : s[p + v + i + 3 + j] = m.method[j]
  BY PinnedAt
<1>2. /\ n.package \in Seq(Letters) /\ n.interface \in Seq(Letters) /\ n.method \in Seq(Letters)
      /\ m.package \in Seq(Letters) /\ m.interface \in Seq(Letters) /\ m.method \in Seq(Letters)
      /\ n.package \in Seq(Chars)
  BY NameIs, LettersAreChars
<1>3. /\ front \in Seq(Chars) /\ Len(front) = Len(n.package) + 1 /\ Len(n.package) \in Nat
      /\ \A j \in 1..Len(n.package) : front[j] = n.package[j]
      /\ front[Len(n.package) + 1] = At
  <2>1. <<At>> \in Seq(Chars) /\ Len(<<At>>) = 1 /\ <<At>>[1] = At
    BY DEF Chars
  <2>2. \A j \in 1..1 : front[Len(n.package) + j] = <<At>>[j]
    BY <1>2, <2>1, TextConcat
  <2>3. front[Len(n.package) + 1] = At
    BY <2>1, <2>2
  <2> QED
    BY <1>2, <2>1, <2>3, TextConcat
<1>4. IsPrefix(front, s) <=>
        Len(front) <= Len(s) /\ \A j \in 1..Len(front) : s[j] = front[j]
  BY <1>1, <1>3, PrefixIs
<1>5. IsSuffix(Behind(n), s) <=>
         /\ Len(Behind(n)) <= Len(s)
         /\ \A j \in 1..Len(Behind(n)) : s[(Len(s) - Len(Behind(n))) + j] = Behind(n)[j]
  BY <1>1, BehindAt, SuffixIs
<1>6. At \notin Letters /\ Slash \notin Letters
  BY CharsDiffer
<1>7. /\ Len(Behind(n)) = Len(n.interface) + Len(n.method) + 2
      /\ Len(n.interface) \in Nat /\ Len(n.method) \in Nat
      /\ Behind(n)[1] = Slash /\ Behind(n)[Len(n.interface) + 2] = Slash
      /\ \A j \in 1..Len(n.interface) : Behind(n)[1 + j] = n.interface[j]
      /\ \A j \in 1..Len(n.method) : Behind(n)[Len(n.interface) + 2 + j] = n.method[j]
  <2>1. Len(n.interface) \in Nat /\ Len(n.method) \in Nat
    BY <1>2
  <2> QED
    BY <2>1, BehindAt, Zenon
<1> DEFINE t == Behind(n)
           b == Len(t)
           np == Len(n.package)
           ni == Len(n.interface)
           nm == Len(n.method)
           e == Len(s)
<1>20. /\ e = p + v + i + w + 3 /\ b = ni + nm + 2
       /\ p \in Nat \ {0} /\ v \in Nat \ {0} /\ i \in Nat \ {0} /\ w \in Nat \ {0}
       /\ ni \in Nat /\ nm \in Nat /\ np \in Nat
  BY <1>1, <1>3, <1>7, Zenon
<1>21. /\ t[1] = Slash /\ t[ni + 2] = Slash
       /\ \A j \in 1..ni : t[1 + j] = n.interface[j]
       /\ \A j \in 1..nm : t[ni + 2 + j] = n.method[j]
  BY <1>7, Zenon
<1>22. IsSuffix(t, s) <=> b <= e /\ \A j \in 1..b : s[(e - b) + j] = t[j]
  BY <1>5, ZenonT(60)
<1> HIDE DEF s, front, p, v, i, w, t, b, np, ni, nm, e
<1>8. ASSUME IsPrefix(front, s) PROVE n.package = m.package
  <2>1. \A j \in 1..np : s[j] = n.package[j]
    <3>1. /\ np \in Nat /\ Len(front) = np + 1
          /\ \A j \in 1..np : front[j] = n.package[j]
      BY <1>3, Zenon DEF np
    <3>2. \A j \in 1..Len(front) : s[j] = front[j]
      BY <1>4, <1>8, Zenon
    <3>3. \A j \in 1..np : j \in 1..Len(front)
      BY <3>1
    <3> QED
      BY <3>1, <3>2, <3>3, Zenon
  <2>2. s[Len(n.package) + 1] = At
    <3>1. Len(n.package) + 1 \in 1..Len(front)
      BY <1>3
    <3> QED
      BY <1>3, <1>4, <1>8, <3>1
  <2>3. /\ \A j \in 1..Len(n.package) : s[j] = n.package[j]
        /\ \A j \in 1..Len(m.package) : s[j] = m.package[j] /\ s[Len(m.package) + 1] = At
    BY <1>1, <2>1, Zenon DEF p, np
  <2>4. s[Len(m.package) + 1] = At
    BY <1>1, Zenon DEF p
  <2> QED
    <3>1. AtFront(s, At, n.package) /\ AtFront(s, At, m.package)
      BY <2>2, <2>3, <2>4, Zenon DEF AtFront
    <3> QED
      BY <1>2, <1>6, <3>1, SameFront, Zenon
<1>9. ASSUME IsSuffix(t, s) PROVE n.method = m.method /\ n.interface = m.interface
  <2>1. b <= e /\ \A j \in 1..b : s[(e - b) + j] = t[j]
    BY <1>9, <1>22
  <2>2. e \in Int
    BY <1>20
  <2>4. ASSUME NEW j \in 1..nm PROVE s[(e - nm) + j] = n.method[j]
    <3>1. ni + 2 + j \in 1..b /\ (e - b) + (ni + 2 + j) = (e - nm) + j
      BY <1>20
    <3> QED
      BY <1>21, <2>1, <3>1
  <2>5. s[e - nm] = Slash
    <3>1. ni + 2 \in 1..b /\ (e - b) + (ni + 2) = e - nm
      BY <1>20
    <3> QED
      BY <1>21, <2>1, <3>1
  <2>6. ASSUME NEW j \in 1..w PROVE s[(e - w) + j] = m.method[j]
    <3>1. (e - w) + j = p + v + i + 3 + j
      BY <1>20
    <3> QED
      BY <1>1, <3>1
  <2>7. s[e - w] = Slash
    <3>1. e - w = p + v + i + 3
      BY <1>20
    <3> QED
      BY <1>1, <3>1
  <2>8. n.method = m.method
    <3>1. /\ \A j \in 1..Len(n.method) : s[(e - Len(n.method)) + j] = n.method[j]
          /\ s[e - Len(n.method)] = Slash
      BY <2>4, <2>5, Zenon DEF nm
    <3>2. /\ \A j \in 1..Len(m.method) : s[(e - Len(m.method)) + j] = m.method[j]
          /\ s[e - Len(m.method)] = Slash
      BY <2>6, <2>7, Zenon DEF w
    <3> QED
      <4>1. AtBack(s, e, Slash, n.method) /\ AtBack(s, e, Slash, m.method)
        BY <3>1, <3>2, Zenon DEF AtBack
      <4> QED
        BY <1>2, <1>6, <2>2, <4>1, SameBack, Zenon
  <2>9. nm = w
    BY <2>8 DEF nm, w
  <2> DEFINE g == (e - w) - 1
  <2>10. g \in Int
    BY <1>20
  <2>11. ASSUME NEW j \in 1..ni PROVE s[(g - ni) + j] = n.interface[j]
    <3>1. 1 + j \in 1..b /\ (e - b) + (1 + j) = (g - ni) + j
      BY <1>20, <2>9
    <3> QED
      BY <1>21, <2>1, <3>1
  <2>12. s[g - ni] = Slash
    <3>1. 1 \in 1..b /\ (e - b) + 1 = g - ni
      BY <1>20, <2>9
    <3> QED
      BY <1>21, <2>1, <3>1
  <2>13. ASSUME NEW j \in 1..i PROVE s[(g - i) + j] = m.interface[j]
    <3>1. (g - i) + j = p + v + 2 + j
      BY <1>20
    <3> QED
      BY <1>1, <3>1
  <2>14. s[g - i] = Slash
    <3>1. g - i = p + v + 2
      BY <1>20
    <3> QED
      BY <1>1, <3>1
  <2> HIDE DEF g
  <2>15. n.interface = m.interface
    <3>1. /\ \A j \in 1..Len(n.interface) : s[(g - Len(n.interface)) + j] = n.interface[j]
          /\ s[g - Len(n.interface)] = Slash
      BY <2>11, <2>12, Zenon DEF ni
    <3>2. /\ \A j \in 1..Len(m.interface) : s[(g - Len(m.interface)) + j] = m.interface[j]
          /\ s[g - Len(m.interface)] = Slash
      BY <2>13, <2>14, Zenon DEF i
    <3> QED
      <4>1. AtBack(s, g, Slash, n.interface) /\ AtBack(s, g, Slash, m.interface)
        BY <3>1, <3>2, Zenon DEF AtBack
      <4> QED
        BY <1>2, <1>6, <2>10, <4>1, SameBack, Zenon
  <2> QED
    BY <2>8, <2>15
<1>10. ASSUME n.package = m.package PROVE IsPrefix(front, s)
  <2>1. Len(n.package) = p
    BY <1>10 DEF p
  <2>2. Len(front) <= Len(s)
    BY <1>1, <1>3, <2>1
  <2>3. ASSUME NEW j \in 1..Len(front) PROVE s[j] = front[j]
    <3>1. CASE j \in 1..p
      BY <1>1, <1>3, <1>10, <2>1, <3>1
    <3>2. CASE j = p + 1
      BY <1>1, <1>3, <2>1, <3>2
    <3> QED
      BY <1>1, <1>3, <2>1, <3>1, <3>2
  <2> QED
    BY <1>4, <2>2, <2>3
<1>11. ASSUME n.interface = m.interface, n.method = m.method PROVE IsSuffix(t, s)
  <2>1. ni = i /\ nm = w
    BY <1>11 DEF i, w, ni, nm
  <2>2. b = i + w + 2 /\ b <= e /\ e - b = p + v + 1
    BY <1>20, <2>1
  <2>3. /\ t[1] = Slash /\ t[i + 2] = Slash
        /\ \A j \in 1..i : t[1 + j] = m.interface[j]
        /\ \A j \in 1..w : t[i + 2 + j] = m.method[j]
    BY <1>11, <1>21, <2>1, Zenon
  <2>4. ASSUME NEW j \in 1..b PROVE s[(p + v + 1) + j] = t[j]
    <3>1. CASE j = 1
      <4>1. (p + v + 1) + j = p + v + 2
        BY <1>20, <3>1
      <4> QED
        BY <1>1, <2>3, <3>1, <4>1
    <3>2. CASE j = i + 2
      <4>1. (p + v + 1) + j = p + v + i + 3
        BY <1>20, <3>2
      <4> QED
        BY <1>1, <2>3, <3>2, <4>1
    <3>3. CASE j \in 2..(i + 1)
      <4>1. PICK k \in 1..i : j = 1 + k /\ (p + v + 1) + j = p + v + 2 + k
        <5>1. j - 1 \in 1..i /\ j = 1 + (j - 1) /\ (p + v + 1) + j = p + v + 2 + (j - 1)
          BY <1>20, <3>3
        <5> QED
          BY <5>1
      <4> QED
        BY <1>1, <2>3, <4>1
    <3>4. CASE j \in (i + 3)..b
      <4>1. PICK k \in 1..w : j = i + 2 + k /\ (p + v + 1) + j = p + v + i + 3 + k
        <5>1. /\ j - (i + 2) \in 1..w /\ j = i + 2 + (j - (i + 2))
              /\ (p + v + 1) + j = p + v + i + 3 + (j - (i + 2))
          BY <1>20, <2>2, <3>4
        <5> QED
          BY <5>1
      <4> QED
        BY <1>1, <2>3, <4>1
    <3> QED
      BY <1>20, <2>2, <3>1, <3>2, <3>3, <3>4
  <2> QED
    BY <1>22, <2>2, <2>4
<1> QED
  BY <1>8, <1>9, <1>10, <1>11 DEF s, front, t

Pinned(n, v) == [n EXCEPT !.version = VersionText(v)]

(* The name n with a version.                                              *)
LEMMA PinnedName ==
    ASSUME NEW n \in MethodNames, NEW v \in Versions
    PROVE  /\ Pinned(n, v) \in MethodNames /\ Pinned(n, v).version # <<>>
           /\ Pinned(n, v).version = VersionText(v)
           /\ Pinned(n, v).package = n.package /\ Pinned(n, v).interface = n.interface
           /\ Pinned(n, v).method = n.method
           /\ KeyOf(n, v) = to_canonical(Pinned(n, v))
<1>1. VersionText(v) # <<>>
  BY VersionIs
<1>2. KeyOf(n, v) = to_canonical(Pinned(n, v))
  BY DEF KeyOf, Pinned
<1>3. VersionText(v) \in {<<>>} \cup {VersionText(w) : w \in Versions}
  OBVIOUS
<1> QED
  BY <1>1, <1>2, <1>3 DEF MethodNames, Pinned

(* What answers for a name without a version: the keys of that name with   *)
(* the versions it is registered under.                                    *)
LEMMA CandidatesAre ==
    ASSUME RegistryInv, NEW n \in MethodNames
    PROVE  Candidates(n) =
             {KeyOf(n, v) : v \in {w \in Versions : KeyOf(n, w) \in Registered}}
<1>1. \A k : k \in Candidates(n) <=>
               /\ k \in Registered
               /\ IsPrefix(n.package \o <<At>>, k) /\ IsSuffix(Behind(n), k)
  BY DEF Candidates, Behind
<1>2. ASSUME NEW v \in Versions, KeyOf(n, v) \in Registered
      PROVE  KeyOf(n, v) \in Candidates(n)
  BY <1>1, <1>2, PinnedName, KeyAnswers
<1>3. ASSUME NEW k \in Candidates(n)
      PROVE  \E v \in Versions : k = KeyOf(n, v) /\ KeyOf(n, v) \in Registered
  <2>1. k \in Registered /\ k \in Texts /\ validate_canonical(k)
    BY <1>1 DEF RegistryInv, RegistryTypeOK
  <2>2. PICK m : m = parse(k)
    OBVIOUS
  <2>3. m \in MethodNames /\ m.version # <<>> /\ k = to_canonical(m)
    BY <2>1, <2>2, PinnedIs
  <2>4. IsPrefix(n.package \o <<At>>, to_canonical(m)) /\ IsSuffix(Behind(n), to_canonical(m))
    BY <1>1, <2>3
  <2>5. n.package = m.package /\ n.interface = m.interface /\ n.method = m.method
    BY <2>3, <2>4, KeyAnswers
  <2>6. PICK v \in Versions : m.version = VersionText(v)
    BY <2>3 DEF MethodNames
  <2>7. m = Pinned(n, v)
    BY <2>3, <2>5, <2>6 DEF MethodNames, Pinned
  <2>8. k = KeyOf(n, v)
    BY <2>3, <2>7, PinnedName
  <2> QED
    BY <2>1, <2>8
<1> QED
  BY <1>2, <1>3

(* Where the digits of a version are in its text.                          *)
LEMMA VersionAt ==
    ASSUME SingleDigits, NEW v \in Versions
    PROVE  /\ Len(VersionText(v)) = 5
           /\ VersionText(v)[1] = 2 + v[1] /\ VersionText(v)[3] = 2 + v[2]
           /\ VersionText(v)[5] = 2 + v[3]
           /\ VersionText(v)[2] = Dot /\ VersionText(v)[4] = Dot
<1>1. v[1] \in 0..9 /\ v[2] \in 0..9 /\ v[3] \in 0..9
  BY DEF SingleDigits
<1>2. PICK a, b, c : a = v[1] /\ b = v[2] /\ c = v[3]
  OBVIOUS
<1>3. a \in 0..9 /\ b \in 0..9 /\ c \in 0..9
  BY <1>1, <1>2
<1>4. Digits(a) = <<2 + a>> /\ Digits(b) = <<2 + b>> /\ Digits(c) = <<2 + c>>
  BY <1>3 DEF Digits, Digit
<1>5. VersionText(v) = Digits(a) \o <<Dot>> \o Digits(b) \o <<Dot>> \o Digits(c)
  BY <1>2 DEF VersionText
<1>6. ASSUME NEW s \in Seq(Nat), NEW e \in Nat
      PROVE  /\ s \o <<e>> \in Seq(Nat) /\ Len(s \o <<e>>) = Len(s) + 1
             /\ \A j \in 1..Len(s) : (s \o <<e>>)[j] = s[j]
             /\ (s \o <<e>>)[Len(s) + 1] = e
  OBVIOUS
<1>7. 2 + a \in Nat /\ 2 + b \in Nat /\ 2 + c \in Nat /\ Dot \in Nat
  BY <1>3 DEF Dot
<1>8. ASSUME NEW x \in Nat, NEW y \in Nat, NEW z \in Nat, NEW d \in Nat, NEW t,
             t = <<x>> \o <<d>> \o <<y>> \o <<d>> \o <<z>>
      PROVE  Len(t) = 5 /\ t[1] = x /\ t[2] = d /\ t[3] = y /\ t[4] = d /\ t[5] = z
  <2>1. PICK p : p = <<x>>
    OBVIOUS
  <2>2. p \in Seq(Nat) /\ Len(p) = 1 /\ p[1] = x
    BY <2>1
  <2>3. PICK q : q = p \o <<d>>
    OBVIOUS
  <2>4. q \in Seq(Nat) /\ Len(q) = 2 /\ q[1] = x /\ q[2] = d
    <3>1. /\ p \o <<d>> \in Seq(Nat) /\ Len(p \o <<d>>) = Len(p) + 1
          /\ \A j \in 1..Len(p) : (p \o <<d>>)[j] = p[j]
          /\ (p \o <<d>>)[Len(p) + 1] = d
      BY <1>6, <2>2, Zenon
    <3> QED
      BY <2>2, <2>3, <3>1
  <2>5. PICK r : r = q \o <<y>>
    OBVIOUS
  <2>6. r \in Seq(Nat) /\ Len(r) = 3 /\ r[1] = x /\ r[2] = d /\ r[3] = y
    <3>1. /\ q \o <<y>> \in Seq(Nat) /\ Len(q \o <<y>>) = Len(q) + 1
          /\ \A j \in 1..Len(q) : (q \o <<y>>)[j] = q[j]
          /\ (q \o <<y>>)[Len(q) + 1] = y
      BY <1>6, <2>4, Zenon
    <3> QED
      BY <2>4, <2>5, <3>1
  <2>7. PICK u : u = r \o <<d>>
    OBVIOUS
  <2>8. u \in Seq(Nat) /\ Len(u) = 4 /\ u[1] = x /\ u[2] = d /\ u[3] = y /\ u[4] = d
    <3>1. /\ r \o <<d>> \in Seq(Nat) /\ Len(r \o <<d>>) = Len(r) + 1
          /\ \A j \in 1..Len(r) : (r \o <<d>>)[j] = r[j]
          /\ (r \o <<d>>)[Len(r) + 1] = d
      BY <1>6, <2>6, Zenon
    <3> QED
      BY <2>6, <2>7, <3>1
  <2>9. t = u \o <<z>>
    BY <1>8, <2>1, <2>3, <2>5, <2>7
  <2>10. /\ u \o <<z>> \in Seq(Nat) /\ Len(u \o <<z>>) = Len(u) + 1
         /\ \A j \in 1..Len(u) : (u \o <<z>>)[j] = u[j]
         /\ (u \o <<z>>)[Len(u) + 1] = z
    BY <1>6, <2>8, Zenon
  <2> QED
    BY <2>8, <2>9, <2>10
<1>9. VersionText(v) = <<2 + a>> \o <<Dot>> \o <<2 + b>> \o <<Dot>> \o <<2 + c>>
  BY <1>4, <1>5
<1> QED
  BY <1>2, <1>7, <1>8, <1>9

(* Texts of the same length, and the same but for the three digits of the  *)
(* versions v and w.                                                       *)
Twins(s, t, v, w) ==
    \E a \in Nat, l \in Nat :
       /\ a + 6 <= l /\ Len(s) = l /\ Len(t) = l
       /\ s \in Seq(Chars) /\ t \in Seq(Chars)
       /\ \A i \in 1..3 : s[a + 2 * i] = 2 + v[i] /\ t[a + 2 * i] = 2 + w[i]
       /\ \A j \in 1..l : j \notin {a + 2, a + 4, a + 6} => s[j] = t[j]

(* Any two keys of a name are such texts.                                  *)
LEMMA KeysAt ==
    ASSUME SingleDigits, NEW n \in MethodNames, NEW v \in Versions, NEW w \in Versions
    PROVE  Twins(KeyOf(n, v), KeyOf(n, w), v, w)
<1> DEFINE a == Len(n.package)
           i == Len(n.interface)
           m == Len(n.method)
           l == a + i + m + 8
           Tells(s, u) == /\ s \in Seq(Chars) /\ Len(s) = l
                          /\ \A j \in 1..a : s[j] = n.package[j]
                          /\ s[a + 1] = At
                          /\ s[a + 2] = 2 + u[1] /\ s[a + 3] = Dot
                          /\ s[a + 4] = 2 + u[2] /\ s[a + 5] = Dot
                          /\ s[a + 6] = 2 + u[3] /\ s[a + 7] = Slash
                          /\ \A j \in 1..i : s[a + 7 + j] = n.interface[j]
                          /\ s[a + i + 8] = Slash
                          /\ \A j \in 1..m : s[a + i + 8 + j] = n.method[j]
<1>1. a \in Nat \ {0} /\ i \in Nat \ {0} /\ m \in Nat \ {0}
  <2>1. /\ Len(Pinned(n, v).package) \in Nat \ {0} /\ Len(Pinned(n, v).interface) \in Nat \ {0}
        /\ Len(Pinned(n, v).method) \in Nat \ {0}
    BY PinnedName, PinnedAt
  <2> QED
    BY <2>1, PinnedName
<1>2. ASSUME NEW u \in Versions PROVE Tells(KeyOf(n, u), u)
  <2> DEFINE s == KeyOf(n, u)
             t == VersionText(u)
  <2>1. /\ s \in Seq(Chars) /\ Len(s) = a + Len(t) + i + m + 3
        /\ \A j \in 1..a : s[j] = n.package[j]
        /\ s[a + 1] = At
        /\ \A j \in 1..Len(t) : s[a + 1 + j] = t[j]
        /\ s[a + Len(t) + 2] = Slash
        /\ \A j \in 1..i : s[a + Len(t) + 2 + j] = n.interface[j]
        /\ s[a + Len(t) + i + 3] = Slash
        /\ \A j \in 1..m : s[a + Len(t) + i + 3 + j] = n.method[j]
    <3>1. PICK q : q = Pinned(n, u)
      OBVIOUS
    <3>2. /\ q \in MethodNames /\ q.version # <<>> /\ q.version = t /\ q.package = n.package
          /\ q.interface = n.interface /\ q.method = n.method /\ s = to_canonical(q)
      BY <3>1, PinnedName
    <3>3. /\ to_canonical(q) \in Seq(Chars)
          /\ Len(to_canonical(q)) =
               Len(q.package) + Len(q.version) + Len(q.interface) + Len(q.method) + 3
      BY <3>2, PinnedAt
    <3>4. /\ \A j \in 1..Len(q.package) : to_canonical(q)[j] = q.package[j]
          /\ to_canonical(q)[Len(q.package) + 1] = At
      BY <3>2, PinnedAt
    <3>5. /\ \A j \in 1..Len(q.version) : to_canonical(q)[Len(q.package) + 1 + j] = q.version[j]
          /\ to_canonical(q)[Len(q.package) + Len(q.version) + 2] = Slash
      BY <3>2, PinnedAt
    <3>6. /\ \A j \in 1..Len(q.interface) :
                to_canonical(q)[Len(q.package) + Len(q.version) + 2 + j] = q.interface[j]
          /\ to_canonical(q)[Len(q.package) + Len(q.version) + Len(q.interface) + 3] = Slash
      BY <3>2, PinnedAt
    <3>7. \A j \in 1..Len(q.method) :
                to_canonical(q)[Len(q.package) + Len(q.version) + Len(q.interface) + 3 + j]
                  = q.method[j]
      BY <3>2, PinnedAt
    <3> HIDE DEF s, t
    <3> QED
      BY <3>2, <3>3, <3>4, <3>5, <3>6, <3>7, Zenon
  <2>2. /\ Len(t) = 5 /\ t[1] = 2 + u[1] /\ t[3] = 2 + u[2] /\ t[5] = 2 + u[3]
        /\ t[2] = Dot /\ t[4] = Dot
    BY VersionAt
  <2> HIDE DEF s, t, a, i, m
  <2>3. /\ Len(s) = l /\ a + Len(t) + 2 = a + 7 /\ a + Len(t) + i + 3 = a + i + 8
        /\ a + 1 + 1 = a + 2 /\ a + 1 + 2 = a + 3 /\ a + 1 + 3 = a + 4 /\ a + 1 + 4 = a + 5
        /\ a + 1 + 5 = a + 6
    BY <1>1, <2>1, <2>2
  <2>4. /\ s[a + 1 + 1] = t[1] /\ s[a + 1 + 2] = t[2] /\ s[a + 1 + 3] = t[3]
        /\ s[a + 1 + 4] = t[4] /\ s[a + 1 + 5] = t[5]
    <3>1. 1 \in 1..Len(t) /\ 2 \in 1..Len(t) /\ 3 \in 1..Len(t) /\ 4 \in 1..Len(t) /\ 5 \in 1..Len(t)
      BY <2>2
    <3> QED
      BY <2>1, <3>1, Zenon
  <2>5. /\ s[a + 2] = 2 + u[1] /\ s[a + 3] = Dot /\ s[a + 4] = 2 + u[2] /\ s[a + 5] = Dot
        /\ s[a + 6] = 2 + u[3]
    BY <2>2, <2>3, <2>4, Zenon
  <2>6. /\ s[a + 7] = Slash /\ \A j \in 1..i : s[a + 7 + j] = n.interface[j]
        /\ s[a + i + 8] = Slash /\ \A j \in 1..m : s[a + i + 8 + j] = n.method[j]
    BY <2>1, <2>3, Zenon
  <2>7. s \in Seq(Chars) /\ (\A j \in 1..a : s[j] = n.package[j]) /\ s[a + 1] = At
    BY <2>1, Zenon
  <2> QED
    BY <2>3, <2>5, <2>6, <2>7, Zenon DEF s
<1>3. Tells(KeyOf(n, v), v) /\ Tells(KeyOf(n, w), w)
  BY <1>2, Zenon
<1> HIDE DEF a, i, m
<1>4. ASSUME NEW s, NEW t, Tells(s, v), Tells(t, w), NEW j \in 1..l,
             j \notin {a + 2, a + 4, a + 6}
      PROVE  s[j] = t[j]
  <2>1. CASE j \in 1..a
    BY <1>4, <2>1
  <2>2. CASE j \in {a + 1, a + 3, a + 5, a + 7, a + i + 8}
    BY <1>4, <2>2
  <2>3. CASE j \in (a + 8)..(a + i + 7)
    <3>1. j - (a + 7) \in 1..i /\ a + 7 + (j - (a + 7)) = j
      BY <1>1, <2>3
    <3> QED
      BY <1>4, <3>1
  <2>4. CASE j \in (a + i + 9)..l
    <3>1. j - (a + i + 8) \in 1..m /\ a + i + 8 + (j - (a + i + 8)) = j
      BY <1>1, <2>4
    <3> QED
      BY <1>4, <3>1
  <2>5. \/ j \in 1..a \/ j \in {a + 1, a + 3, a + 5, a + 7, a + i + 8}
        \/ j \in (a + 8)..(a + i + 7) \/ j \in (a + i + 9)..l
    BY <1>1, <1>4
  <2> QED
    BY <2>1, <2>2, <2>3, <2>4, <2>5
<1>5. ASSUME NEW s, NEW u, Tells(s, u), NEW k \in 1..3 PROVE s[a + 2 * k] = 2 + u[k]
  <2>1. CASE k = 1
    BY <1>5, <2>1
  <2>2. CASE k = 2
    BY <1>5, <2>2
  <2>3. CASE k = 3
    BY <1>5, <2>3
  <2> QED
    BY <2>1, <2>2, <2>3
<1>6. a \in Nat /\ l \in Nat /\ a + 6 <= l
  BY <1>1
<1>7. PICK s, t : s = KeyOf(n, v) /\ t = KeyOf(n, w)
  OBVIOUS
<1>8. Tells(s, v) /\ Tells(t, w)
  BY <1>3, <1>7, Zenon
<1>9. s \in Seq(Chars) /\ t \in Seq(Chars) /\ Len(s) = l /\ Len(t) = l
  BY <1>8, Zenon
<1>10. /\ \A k \in 1..3 : s[a + 2 * k] = 2 + v[k]
       /\ \A k \in 1..3 : t[a + 2 * k] = 2 + w[k]
       /\ \A j \in 1..l : j \notin {a + 2, a + 4, a + 6} => s[j] = t[j]
  <2> HIDE DEF Tells, l
  <2> QED
    BY <1>4, <1>5, <1>8
<1> HIDE DEF l, Tells
<1>11. Twins(s, t, v, w)
  BY <1>6, <1>9, <1>10 DEF Twins
<1> QED
  BY <1>7, <1>11

(* The order of the versions, as that of three-digit numbers.              *)
Rank(v) == 100 * v[1] + 10 * v[2] + v[3]

(* A version is less than another one if its number is, and has it alone.  *)
LEMMA RankIs ==
    ASSUME SingleDigits
    PROVE  /\ \A v \in Versions : Rank(v) \in 0..999
           /\ \A v, w \in Versions :
                 /\ SemverLess(v, w) <=> Rank(v) < Rank(w)
                 /\ Rank(v) = Rank(w) => v = w
<1>1. ASSUME NEW v \in Versions
      PROVE  /\ v[1] \in 0..9 /\ v[2] \in 0..9 /\ v[3] \in 0..9
             /\ v = <<v[1], v[2], v[3]>>
  BY DEF SingleDigits
<1>2. \A v \in Versions : Rank(v) \in 0..999
  BY <1>1 DEF Rank
<1>3. ASSUME NEW v \in Versions, NEW w \in Versions
      PROVE  SemverLess(v, w) <=> Rank(v) < Rank(w)
  <2>1. SemverLess(v, w) <=>
          \/ v[1] < w[1]
          \/ v[2] < w[2] /\ v[1] = w[1]
          \/ v[3] < w[3] /\ v[1] = w[1] /\ v[2] = w[2]
    BY DEF SemverLess
  <2>2. ASSUME NEW a \in 0..9, NEW b \in 0..9, NEW c \in 0..9,
               NEW x \in 0..9, NEW y \in 0..9, NEW z \in 0..9
        PROVE  (a < x \/ (b < y /\ a = x) \/ (c < z /\ a = x /\ b = y))
                 <=> 100 * a + 10 * b + c < 100 * x + 10 * y + z
    OBVIOUS
  <2>3. /\ v[1] \in 0..9 /\ v[2] \in 0..9 /\ v[3] \in 0..9
        /\ w[1] \in 0..9 /\ w[2] \in 0..9 /\ w[3] \in 0..9
    BY <1>1
  <2>4. PICK a, b, c, x, y, z : /\ a = v[1] /\ b = v[2] /\ c = v[3]
                                /\ x = w[1] /\ y = w[2] /\ z = w[3]
    OBVIOUS
  <2>5. Rank(v) = 100 * a + 10 * b + c /\ Rank(w) = 100 * x + 10 * y + z
    BY <2>4 DEF Rank
  <2>6. SemverLess(v, w) <=> (a < x \/ (b < y /\ a = x) \/ (c < z /\ a = x /\ b = y))
    BY <2>1, <2>4
  <2>7. /\ a \in 0..9 /\ b \in 0..9 /\ c \in 0..9
        /\ x \in 0..9 /\ y \in 0..9 /\ z \in 0..9
    BY <2>3, <2>4
  <2> QED
    BY <2>2, <2>5, <2>6, <2>7
<1>4. ASSUME NEW v \in Versions, NEW w \in Versions, Rank(v) = Rank(w)
      PROVE  v = w
  <2>1. v[1] = w[1] /\ v[2] = w[2] /\ v[3] = w[3]
    <3>2. /\ v[1] \in 0..9 /\ v[2] \in 0..9 /\ v[3] \in 0..9
          /\ w[1] \in 0..9 /\ w[2] \in 0..9 /\ w[3] \in 0..9
      BY <1>1
    <3>3. 100 * v[1] + 10 * v[2] + v[3] = 100 * w[1] + 10 * w[2] + w[3]
      BY <1>4 DEF Rank
    <3>4. PICK a, b, c, x, y, z : /\ a = v[1] /\ b = v[2] /\ c = v[3]
                                  /\ x = w[1] /\ y = w[2] /\ z = w[3]
      OBVIOUS
    <3>5. a = x /\ b = y /\ c = z
      <4>1. /\ a \in 0..9 /\ b \in 0..9 /\ c \in 0..9
            /\ x \in 0..9 /\ y \in 0..9 /\ z \in 0..9
        BY <3>2, <3>4
      <4>2. 100 * a + 10 * b + c = 100 * x + 10 * y + z
        BY <3>3, <3>4
      <4> QED
        BY <4>1, <4>2
    <3> QED
      BY <3>4, <3>5
  <2> QED
    BY <1>1, <2>1
<1> QED
  BY <1>2, <1>3, <1>4

(* The order of the texts of two keys of a name is that of their versions. *)
LEMMA TextsAsVersions ==
    ASSUME SingleDigits, NEW n \in MethodNames, NEW v \in Versions, NEW w \in Versions
    PROVE  TextLess(KeyOf(n, v), KeyOf(n, w)) <=> SemverLess(v, w)
<1>1. PICK s, t : s = KeyOf(n, v) /\ t = KeyOf(n, w)
  OBVIOUS
<1>9. Twins(s, t, v, w)
  BY <1>1, KeysAt, Zenon
<1>2. PICK a \in Nat, l \in Nat :
         /\ a + 6 <= l /\ Len(s) = l /\ Len(t) = l
         /\ s \in Seq(Chars) /\ t \in Seq(Chars)
         /\ \A i \in 1..3 : s[a + 2 * i] = 2 + v[i] /\ t[a + 2 * i] = 2 + w[i]
         /\ \A j \in 1..l : j \notin {a + 2, a + 4, a + 6} => s[j] = t[j]
  BY <1>9 DEF Twins
<1>10. ASSUME NEW k \in 1..3
       PROVE  /\ s[a + 2 * k] < t[a + 2 * k] <=> v[k] < w[k]
              /\ s[a + 2 * k] = t[a + 2 * k] <=> v[k] = w[k]
  <2>1. PICK x, y : x = v[k] /\ y = w[k]
    OBVIOUS
  <2>2. x \in Int /\ y \in Int
    BY <2>1 DEF SingleDigits
  <2>3. s[a + 2 * k] = 2 + x /\ t[a + 2 * k] = 2 + y
    BY <1>2, <2>1
  <2>4. (2 + x < 2 + y <=> x < y) /\ (2 + x = 2 + y <=> x = y)
    BY <2>2
  <2> QED
    BY <2>1, <2>3, <2>4
<1>3. \A j \in 1..l : s[j] \in Int /\ t[j] \in Int
  <2>1. \A c \in Chars : c \in Int
    BY CharsDiffer DEF Chars
  <2>2. \A j \in 1..l : s[j] \in Chars /\ t[j] \in Chars
    BY <1>2
  <2> QED
    BY <2>1, <2>2
<1>5. TextLess(s, t) <=>
        \E i \in 1..l : s[i] < t[i] /\ \A j \in 1..(i - 1) : s[j] = t[j]
  BY <1>2 DEF TextLess
<1>6. ASSUME NEW i \in 1..l, s[i] < t[i], \A j \in 1..(i - 1) : s[j] = t[j]
      PROVE  SemverLess(v, w)
  <2>1. i \in {a + 2, a + 4, a + 6}
    BY <1>2, <1>3, <1>6
  <2>2. PICK k \in 1..3 : i = a + 2 * k
    BY <2>1
  <2>3. v[k] < w[k]
    BY <1>6, <1>10, <2>2, Zenon
  <2>4. ASSUME NEW j \in 1..(k - 1) PROVE v[j] = w[j]
    <3>1. a + 2 * j \in 1..(i - 1) /\ j \in 1..3
      BY <2>2
    <3>2. s[a + 2 * j] = t[a + 2 * j]
      BY <1>6, <3>1
    <3> QED
      BY <1>10, <3>1, <3>2, Zenon
  <2> QED
    BY <2>3, <2>4 DEF SemverLess
<1>7. ASSUME NEW k \in 1..3, v[k] < w[k], \A j \in 1..(k - 1) : v[j] = w[j]
      PROVE  \E i \in 1..l : s[i] < t[i] /\ \A j \in 1..(i - 1) : s[j] = t[j]
  <2>1. PICK i : i = a + 2 * k
    OBVIOUS
  <2>2. i \in 1..l
    BY <1>2, <2>1
  <2>3. s[i] < t[i]
    BY <1>7, <1>10, <2>1, Zenon
  <2>4. ASSUME NEW j \in 1..(i - 1) PROVE s[j] = t[j]
    <3>1. CASE j \notin {a + 2, a + 4, a + 6}
      BY <1>2, <2>2, <3>1
    <3>2. CASE j \in {a + 2, a + 4, a + 6}
      <4>1. PICK h \in 1..3 : j = a + 2 * h
        BY <3>2
      <4>2. h \in 1..(k - 1)
        BY <2>1, <2>4, <4>1
      <4> QED
        BY <1>7, <1>10, <4>1, <4>2, Zenon
    <3> QED
      BY <3>1, <3>2
  <2> QED
    BY <2>2, <2>3, <2>4
<1>8. SemverLess(v, w) <=>
        \E k \in 1..3 : v[k] < w[k] /\ \A j \in 1..(k - 1) : v[j] = w[j]
  BY DEF SemverLess
<1> QED
  BY <1>1, <1>5, <1>6, <1>7, <1>8

(* Of finitely many ranks one is the greatest.                             *)
LEMMA GreatestRank ==
    ASSUME NEW S, S # {}, NEW M \in Nat, NEW f \in [S -> 0..M]
    PROVE  \E v \in S : \A w \in S : f[w] <= f[v]
<1> DEFINE R == {M - f[w] : w \in S}
<1>1. R \subseteq Nat /\ R # {}
  OBVIOUS
<1>2. PICK r \in R : \A q \in R : r <= q
  <2> HIDE DEF R
  <2> QED
    BY <1>1, LeastElement
<1>3. PICK v \in S : v \in S /\ r = M - f[v]
  BY <1>2
<1>4. \A u \in S : f[u] \in 0..M
  OBVIOUS
<1>5. ASSUME NEW w \in S PROVE f[w] <= f[v]
  <2>1. f[v] \in 0..M /\ f[w] \in 0..M
    BY <1>3, <1>4
  <2>2. M - f[w] \in R
    OBVIOUS
  <2>3. M - f[v] <= M - f[w]
    BY <1>2, <1>3, <2>2
  <2> QED
    BY <2>1, <2>3
<1> QED
  BY <1>5

(* Of the versions that a name is registered under one is the latest, and  *)
(* its key is what max_by finds.                                           *)
LEMMA OneIsLatest ==
    ASSUME SingleDigits, NEW n \in MethodNames, NEW S \in SUBSET Versions, S # {}
    PROVE  \E v \in S : /\ {u \in S : \A w \in S : ~SemverLess(u, w)} = {v}
                       /\ MaxText({KeyOf(n, w) : w \in S}) = KeyOf(n, v)
<1>1. PICK f : f = [w \in S |-> Rank(w)]
  OBVIOUS
<1>2. \A w \in S : w \in Versions
  OBVIOUS
<1>0. PICK M : M = 999
  OBVIOUS
<1>3. M \in Nat /\ f \in [S -> 0..M]
  <2>1. \A v \in Versions : Rank(v) \in 0..M
    BY <1>0, RankIs
  <2> QED
    BY <1>0, <1>1, <1>2, <2>1
<1>4. PICK v \in S : \A w \in S : f[w] <= f[v]
  BY <1>3, GreatestRank, Zenon
<1>5. ASSUME NEW w \in S PROVE ~ SemverLess(v, w) /\ (w = v \/ SemverLess(w, v))
  <2>1. ASSUME NEW t \in S, NEW u \in S
        PROVE  (SemverLess(t, u) <=> f[t] < f[u]) /\ (f[t] = f[u] => t = u)
    <3>1. t \in Versions /\ u \in Versions /\ f[t] = Rank(t) /\ f[u] = Rank(u)
      BY <1>1, <1>2
    <3>2. SemverLess(t, u) <=> Rank(t) < Rank(u)
      BY <3>1, RankIs, Zenon
    <3>3. Rank(t) = Rank(u) => t = u
      BY <3>1, RankIs, Zenon
    <3> QED
      BY <3>1, <3>2, <3>3
  <2>2. f[v] \in Int /\ f[w] \in Int /\ f[w] <= f[v]
    BY <1>3, <1>4
  <2>3. ~ (f[v] < f[w]) /\ (f[w] = f[v] \/ f[w] < f[v])
    BY <2>2
  <2> QED
    BY <2>1, <2>3
<1>6. {u \in S : \A w \in S : ~SemverLess(u, w)} = {v}
  BY <1>5
<1> DEFINE C == {KeyOf(n, w) : w \in S}
           Greatest(k) == \A l \in C : l = k \/ TextLess(l, k)
<1>7. \A u, w \in S : TextLess(KeyOf(n, u), KeyOf(n, w)) <=> SemverLess(u, w)
  BY TextsAsVersions
<1>8. KeyOf(n, v) \in C /\ Greatest(KeyOf(n, v))
  BY <1>5, <1>7
<1>9. ASSUME NEW k \in C, Greatest(k) PROVE k = KeyOf(n, v)
  <2>1. PICK w \in S : k = KeyOf(n, w)
    OBVIOUS
  <2>2. KeyOf(n, v) = k \/ TextLess(KeyOf(n, v), KeyOf(n, w))
    BY <1>8, <1>9, <2>1
  <2> QED
    BY <1>5, <1>7, <2>1, <2>2
<1>10. MaxText(C) = CHOOSE k \in C : Greatest(k)
  BY DEF MaxText
<1> HIDE DEF C, Greatest
<1>11. MaxText(C) = KeyOf(n, v)
  BY <1>8, <1>9, <1>10
<1> QED
  BY <1>6, <1>11 DEF C

(* A version-omitted lookup finds the latest version registered, whatever  *)
(* was registered before and behind it, and for any number of packages,    *)
(* interfaces and methods: lookup_entry scans the keys for those with the  *)
(* right beginning and end, and takes the greatest text.                   *)
THEOREM LatestIsFound ==
    ASSUME NamesOnly, SingleDigits
    PROVE  RegistrySpec => []ResolvesLatest
<1>1. ASSUME RegistryInv PROVE ResolvesLatest
  <2> SUFFICES ASSUME NEW n \in MethodNames, n.version = <<>>,
                      NEW kind \in {"unary", "streaming"}
               PROVE  LET versions == {v \in Versions : KeyOf(n, v) \in Registered}
                          latest == {v \in versions : \A w \in versions : ~SemverLess(v, w)}
                          found == {k \in {KeyOf(n, v) : v \in latest} : handlers[k] = kind}
                      IN  lookup(to_canonical(n), kind) \in
                            IF found = {} THEN {NoKey} ELSE found
    BY DEF ResolvesLatest
  <2> DEFINE S == {v \in Versions : KeyOf(n, v) \in Registered}
             latest == {v \in S : \A w \in S : ~SemverLess(v, w)}
             found == {k \in {KeyOf(n, v) : v \in latest} : handlers[k] = kind}
             s == to_canonical(n)
  <2>1. parse(s) = n /\ n.package # <<>>
    BY ParseCanonical, NameIs
  <2>2. parse(s) # NoName /\ parse(s).version = <<>>
    BY <2>1 DEF NoName
  <2>3. s \notin Registered
    <3>1. s \in Unpinned
      BY DEF Unpinned
    <3> QED
      BY <1>1, <3>1 DEF RegistryInv, RegistryTypeOK
  <2>4. Candidates(n) = {KeyOf(n, v) : v \in S}
    BY <1>1, CandidatesAre
  <2> HIDE DEF s
  <2>5. lookup_entry(s) = IF Candidates(n) = {} THEN NoKey ELSE MaxText(Candidates(n))
    BY <2>1, <2>2, <2>3 DEF lookup_entry
  <2>6. CASE S = {}
    <3>1. Candidates(n) = {} /\ found = {}
      BY <2>4, <2>6
    <3>2. lookup(s, kind) = NoKey
      BY <2>5, <3>1 DEF lookup
    <3> QED
      BY <3>1, <3>2 DEF s
  <2>7. CASE S # {}
    <3>1. S \in SUBSET Versions /\ Candidates(n) # {}
      BY <2>4, <2>7
    <3>2. PICK v \in S : latest = {v} /\ MaxText(Candidates(n)) = KeyOf(n, v)
      <4> HIDE DEF S
      <4> QED
        BY <2>4, <2>7, <3>1, OneIsLatest
    <3>3. KeyOf(n, v) # NoKey
      <4>1. v \in Versions
        BY <3>2
      <4>2. PICK a \in Nat, l \in Nat : a + 6 <= l /\ Len(KeyOf(n, v)) = l
        BY <4>1, KeysAt DEF Twins
      <4> QED
        BY <4>2 DEF NoKey
    <3>4. lookup(s, kind) = IF handlers[KeyOf(n, v)] = kind THEN KeyOf(n, v) ELSE NoKey
      BY <2>5, <3>1, <3>2, <3>3 DEF lookup
    <3>5. found = {k \in {KeyOf(n, v)} : handlers[k] = kind}
      <4> HIDE DEF latest
      <4> QED
        BY <3>2
    <3> QED
      BY <3>4, <3>5 DEF s
  <2> QED
    BY <2>6, <2>7
<1> QED
  BY <1>1, RegistryInvariant, PTL
=============================================================================
