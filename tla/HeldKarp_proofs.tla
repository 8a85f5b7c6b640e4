---------------------------- MODULE HeldKarp_proofs ----------------------------
(***************************************************************************)
(* Proofs about the exact solver, for every set of problems and start      *)
(* nodes, every cutoff and every width of the costs.                       *)
(***************************************************************************)
EXTENDS HeldKarp, Answers, FiniteSetTheorems, WellFoundedInduction, TLAPS

-----------------------------------------------------------------------------
(* Induction on the natural numbers, stated of a set. *)
LEMMA SetInduction ==
  ASSUME NEW S \in SUBSET Nat, 0 \in S, \A n \in S : n + 1 \in S
  PROVE  S = Nat
<1> SUFFICES ASSUME Nat \ S # {}
             PROVE  FALSE
  OBVIOUS
<1> DEFINE Less == {pair \in Nat \X Nat : pair[1] < pair[2]}
<1>1. IsWellFoundedOn(Less, Nat)
  BY NatLessThanWellFounded DEF OpToRel
<1>2. PICK n \in Nat \ S : \A m \in Nat \ S : <<m, n>> \notin Less
  BY <1>1, WFMin
<1>3. n # 0
  OBVIOUS
<1>4. n - 1 \in Nat /\ <<n - 1, n>> \in Less
  BY <1>3
<1>5. n - 1 \in S /\ n - 1 + 1 = n
  BY <1>2, <1>3, <1>4
<1> QED
  BY <1>5

(***************************************************************************)
(* Powers of two and bits.                                                 *)
(***************************************************************************)
IsPowers(f, n) ==
  /\ f \in [0 .. n -> Nat]
  /\ f[0] = 1
  /\ \A m \in 1 .. n : f[m] = 2 * f[m - 1]

(* The powers up to any exponent exist, ... *)
LEMMA PowersExist ==
  ASSUME NEW n \in Nat
  PROVE  \E f : IsPowers(f, n)
<1> DEFINE S == {m \in Nat : \E f : IsPowers(f, m)}
<1>1. 0 \in S
  <2>1. IsPowers([m \in 0 .. 0 |-> 1], 0)
    BY DEF IsPowers
  <2> QED
    BY <2>1
<1>2. ASSUME NEW m \in S
      PROVE  m + 1 \in S
  <2>1. PICK f : IsPowers(f, m)
    OBVIOUS
  <2> DEFINE g == [k \in 0 .. m + 1 |-> IF k = m + 1 THEN 2 * f[m] ELSE f[k]]
  <2>2. g \in [0 .. m + 1 -> Nat] /\ g[0] = 1
    BY <2>1 DEF IsPowers
  <2>3. ASSUME NEW k \in 1 .. m + 1
        PROVE  g[k] = 2 * g[k - 1]
    BY <2>1 DEF IsPowers
  <2> HIDE DEF g
  <2>4. IsPowers(g, m + 1)
    BY <2>2, <2>3 DEF IsPowers
  <2> QED
    BY <2>4
<1>3. S \in SUBSET Nat
  OBVIOUS
<1> HIDE DEF S
<1>4. S = Nat
  BY <1>1, <1>2, <1>3, SetInduction
<1> QED
  BY <1>4 DEF S

(* ... are the same wherever one stops, ... *)
LEMMA PowersAgree ==
  ASSUME NEW n \in Nat, NEW m \in Nat, m <= n,
         NEW f, NEW g, IsPowers(f, n), IsPowers(g, m)
  PROVE  f[m] = g[m]
<1> DEFINE S == {k \in Nat : k <= m => f[k] = g[k]}
<1>1. 0 \in S
  BY DEF IsPowers
<1>2. ASSUME NEW k \in S
      PROVE  k + 1 \in S
  BY DEF IsPowers
<1>3. S \in SUBSET Nat
  OBVIOUS
<1> HIDE DEF S
<1>4. S = Nat
  BY <1>1, <1>2, <1>3, SetInduction
<1> QED
  BY <1>4 DEF S

(* ... and are what Power gives. *)
LEMMA PowerFacts ==
  /\ Power[0] = 1
  /\ \A n \in Nat : Power[n] \in Nat /\ Power[n] > 0 /\ Power[n + 1] = 2 * Power[n]
<1> DEFINE IsPower(f) ==
             f = [n \in Nat |-> IF n = 0 THEN 1 ELSE 2 * f[n - 1]]
           table(n) == CHOOSE f : IsPowers(f, n)
           powers == [n \in Nat |-> table(n)[n]]
<1>1. \A n \in Nat : IsPowers(table(n), n)
  BY PowersExist
<1>2. IsPower(powers)
  <2> HIDE DEF table
  <2>1. powers[0] = 1
    BY <1>1 DEF IsPowers
  <2>2. ASSUME NEW n \in Nat, n # 0
        PROVE  powers[n] = 2 * powers[n - 1]
    <3>1. n - 1 \in Nat /\ n - 1 <= n /\ n \in 1 .. n
      BY <2>2
    <3>2. table(n)[n - 1] = table(n - 1)[n - 1]
      BY <1>1, <3>1, PowersAgree
    <3>3. table(n)[n] = 2 * table(n)[n - 1]
      BY <1>1, <3>1 DEF IsPowers
    <3> QED
      BY <3>1, <3>2, <3>3
  <2> QED
    BY <2>1, <2>2
<1> HIDE DEF powers
<1>3. Power = CHOOSE f : IsPower(f)
  BY DEF Power
<1>4. IsPower(Power)
  <2> HIDE DEF IsPower
  <2> QED
    BY <1>2, <1>3
<1>5. Power[0] = 1 /\ \A n \in Nat : Power[n + 1] = 2 * Power[n]
  BY <1>4
<1> DEFINE S == {n \in Nat : Power[n] \in Nat /\ Power[n] > 0}
<1> HIDE DEF IsPower
<1>6. 0 \in S /\ S \in SUBSET Nat
  BY <1>5
<1>7. \A n \in S : n + 1 \in S
  BY <1>5
<1> HIDE DEF S
<1>8. S = Nat
  BY <1>6, <1>7, SetInduction
<1> QED
  BY <1>5, <1>8 DEF S

(* A power is a multiple of every smaller one. *)
LEMMA PowerSplit ==
  ASSUME NEW i \in Nat, NEW j \in Nat, i < j
  PROVE  \E k \in Nat : k > 0 /\ Power[j] = 2 * (k * Power[i])
<1> DEFINE S == {d \in Nat : \E k \in Nat : k > 0 /\ Power[i + d + 1] = 2 * (k * Power[i])}
<1>1. 0 \in S
  <2>1. Power[i + 0 + 1] = 2 * (1 * Power[i])
    BY PowerFacts
  <2> QED
    BY <2>1
<1>2. ASSUME NEW d \in S
      PROVE  d + 1 \in S
  <2>1. PICK k \in Nat : k > 0 /\ Power[i + d + 1] = 2 * (k * Power[i])
    OBVIOUS
  <2>2. Power[i + (d + 1) + 1] = 2 * Power[i + d + 1] /\ Power[i] \in Nat
    BY PowerFacts
  <2>3. 2 * Power[i + d + 1] = 2 * ((2 * k) * Power[i])
    BY <2>1, <2>2
  <2> QED
    BY <2>1, <2>2, <2>3
<1>3. S \in SUBSET Nat
  OBVIOUS
<1> HIDE DEF S
<1>4. S = Nat
  BY <1>1, <1>2, <1>3, SetInduction
<1>5. j - i - 1 \in S /\ i + (j - i - 1) + 1 = j
  BY <1>4
<1> QED
  BY <1>5 DEF S

(* Division with a remainder is unique. *)
LEMMA Quotient ==
  ASSUME NEW a \in Nat, a > 0, NEW q \in Int, NEW r \in Int, 0 <= r, r < a
  PROVE  (a * q + r) \div a = q
  OBVIOUS

(* Division with remainder, stated once: the prover no longer has to      *)
(* divide where the divisor is a product.                                  *)
LEMMA Divided ==
  ASSUME NEW a \in Nat, a > 0, NEW m \in Nat
  PROVE  /\ m = a * (m \div a) + (m % a)
         /\ m \div a \in Nat /\ m % a \in Nat /\ m % a < a
  OBVIOUS

(* Oddness, which an even difference does not change. *)
LEMMA Parity ==
  /\ \A u \in Int : u % 2 = 1 <=> \E q \in Int : u = 2 * q + 1
  /\ \A u, k \in Int : (u - 2 * k) % 2 = 1 <=> u % 2 = 1
  OBVIOUS

(* A number with bit i is at least its power, and loses that bit and no    *)
(* other when the power is subtracted.                                     *)
LEMMA BitCleared ==
  ASSUME NEW m \in Nat, NEW i \in Nat, NEW j \in Nat, Bit(m, i)
  PROVE  /\ m >= Power[i] /\ m - Power[i] \in Nat
         /\ Bit(m - Power[i], j) <=> j # i /\ Bit(m, j)
<1> DEFINE a == Power[i]
           b == Power[j]
<1>1. a \in Nat /\ a > 0 /\ b \in Nat /\ b > 0
  BY PowerFacts
<1>2. PICK q \in Int : m \div a = 2 * q + 1
  BY <1>1, Divided, Parity DEF Bit
<1>3. PICK r \in Nat : r < a /\ m = a * (2 * q + 1) + r
  <2>1. m % a \in Nat /\ m % a < a /\ m = a * (m \div a) + (m % a)
    BY <1>1, Divided
  <2> QED
    BY <1>2, <2>1
<1>4. q >= 0
  BY <1>1, <1>2, Divided
<1> HIDE DEF a, b
<1>5. m >= a /\ m - a = a * (2 * q) + r
  BY <1>1, <1>3, <1>4
<1>6. CASE j = i
  <2>1. (m - a) \div a = 2 * q
    BY <1>1, <1>3, <1>5, Quotient
  <2>2. (2 * q) % 2 = 0
    OBVIOUS
  <2> QED
    BY <1>1, <1>3, <1>5, <1>6, <2>1, <2>2 DEF Bit, a, b
<1>7. CASE j < i
  <2>1. PICK k \in Nat : k > 0 /\ a = 2 * (k * b)
    BY <1>7, PowerSplit DEF a, b
  <2>2. PICK s \in Nat : s < b /\ m = b * (m \div b) + s
    BY <1>1, Divided
  <2>3. m \div b \in Int
    BY <1>1, Divided
  <2> DEFINE u == m \div b
  <2> HIDE DEF u
  <2>4. m - a = b * (u - 2 * k) + s
    BY <1>1, <2>1, <2>2, <2>3 DEF u
  <2>5. (m - a) \div b = u - 2 * k
    BY <1>1, <2>2, <2>3, <2>4, Quotient DEF u
  <2>6. (u - 2 * k) % 2 = 1 <=> u % 2 = 1
    BY <2>3, Parity DEF u
  <2> QED
    BY <1>1, <1>5, <1>7, <2>5, <2>6 DEF Bit, a, b, u
<1>8. CASE i < j
  <2>1. PICK k \in Nat : k > 0 /\ b = 2 * (k * a)
    BY <1>8, PowerSplit DEF a, b
  <2>2. PICK s \in Nat : s < b /\ m = b * (m \div b) + s
    BY <1>1, Divided
  <2>3. m \div b \in Int
    BY <1>1, Divided
  <2> DEFINE v == m \div b
             w == 2 * (q - k * v) + 1
  <2>4. v \in Int /\ w \in Int
    BY <2>3
  <2> HIDE DEF v
  <2>5. s = a * w + r
    <3>1. b * v = a * (2 * (k * v))
      BY <1>1, <2>1, <2>4
    <3>2. a * w = a * (2 * q + 1) - a * (2 * (k * v))
      BY <1>1, <2>4
    <3> QED
      BY <1>1, <1>3, <2>2, <2>4, <3>1, <3>2 DEF v
  <2>6. w >= 1
    <3>1. ASSUME w <= 0
          PROVE  w <= -1
      BY <2>4, <3>1
    <3>2. w > -1
      BY <1>1, <1>3, <2>2, <2>4, <2>5
    <3> QED
      BY <2>4, <3>1, <3>2
  <2> HIDE DEF w
  <2>7. s >= a
    BY <1>1, <1>3, <2>4, <2>5, <2>6
  <2>8. m - a = b * v + (s - a) /\ 0 <= s - a /\ s - a < b
    BY <1>1, <2>2, <2>4, <2>7 DEF v
  <2>9. (m - a) \div b = v
    BY <1>1, <2>2, <2>4, <2>8, Quotient
  <2> QED
    BY <1>1, <1>5, <1>8, <2>9 DEF Bit, a, b, v
<1> QED
  BY <1>5, <1>6, <1>7, <1>8 DEF a

(* No bit is set in zero. *)
LEMMA ZeroHasNoBit ==
  ASSUME NEW i \in Nat
  PROVE  ~Bit(0, i)
<1>1. 0 = Power[i] * 0 + 0 /\ Power[i] \in Nat /\ Power[i] > 0
  BY PowerFacts
<1>2. 0 \div Power[i] = 0
  BY <1>1
<1> QED
  BY <1>2 DEF Bit

(* A power has its own bit only. *)
LEMMA PowerHasOneBit ==
  ASSUME NEW i \in Nat, NEW j \in Nat
  PROVE  Bit(Power[i], j) <=> j = i
<1>1. Power[i] \in Nat /\ Power[i] > 0 /\ Power[i] - Power[i] = 0
  BY PowerFacts
<1>2. Bit(Power[i], i)
  <2>1. Power[i] \div Power[i] = 1
    BY <1>1
  <2> QED
    BY <2>1 DEF Bit
<1>3. Bit(0, j) <=> j # i /\ Bit(Power[i], j)
  BY <1>1, <1>2, BitCleared
<1> QED
  BY <1>2, <1>3, ZeroHasNoBit

(* The mask of all indices has each of their bits. *)
LEMMA FullHasAllBits ==
  ASSUME NEW n \in Nat, NEW i \in Nat, i < n
  PROVE  Bit(Power[n] - 1, i)
<1> DEFINE a == Power[i]
<1>1. PICK k \in Nat : k > 0 /\ Power[n] = 2 * (k * a)
  BY PowerSplit
<1>2. a \in Nat /\ a > 0
  BY PowerFacts
<1> HIDE DEF a
<1>3. Power[n] - 1 = a * (2 * k - 1) + (a - 1)
  BY <1>1, <1>2
<1>4. (Power[n] - 1) \div a = 2 * k - 1
  BY <1>1, <1>2, <1>3, Quotient
<1>5. (2 * k - 1) % 2 = 1
  BY <1>1
<1> QED
  BY <1>4, <1>5 DEF Bit, a

(* A mask without any bit is zero. *)
LEMMA NoBitIsZero ==
  ASSUME NEW n \in Nat, NEW m \in Nat, m < Power[n],
         \A i \in 0 .. n - 1 : ~Bit(m, i)
  PROVE  m = 0
<1> DEFINE S == {k \in Nat : k <= n => m < Power[n - k]}
<1>1. 0 \in S
  OBVIOUS
<1>2. ASSUME NEW k \in S
      PROVE  k + 1 \in S
  <2> SUFFICES ASSUME k + 1 <= n
               PROVE  m < Power[n - (k + 1)]
    OBVIOUS
  <2> DEFINE i == n - (k + 1)
             a == Power[i]
  <2>1. i \in 0 .. n - 1 /\ i \in Nat /\ n - k = i + 1
    OBVIOUS
  <2>2. m < Power[n - k]
    OBVIOUS
  <2>3. a \in Nat /\ a > 0 /\ Power[n - k] = 2 * a
    BY <2>1, PowerFacts
  <2>4. (m \div a) % 2 # 1
    BY <2>1 DEF Bit
  <2> HIDE DEF a
  <2>5. m = a * (m \div a) + (m % a) /\ m \div a \in Nat /\ m % a \in Nat
    BY <2>3, Divided
  <2>6. m \div a < 2
    <3>1. ASSUME m \div a >= 2
          PROVE  FALSE
      <4>1. a * (m \div a) >= a * 2
        BY <2>3, <2>5, <3>1
      <4> QED
        BY <2>2, <2>3, <2>5, <4>1
    <3> QED
      BY <2>5, <3>1
  <2>7. m \div a = 0
    BY <2>4, <2>5, <2>6
  <2> QED
    BY <2>3, <2>5, <2>7, Divided DEF a
<1>3. S \in SUBSET Nat
  OBVIOUS
<1> HIDE DEF S
<1>4. S = Nat
  BY <1>1, <1>2, <1>3, SetInduction
<1>5. m < Power[0]
  BY <1>4 DEF S
<1> QED
  BY <1>5, PowerFacts

(***************************************************************************)
(* Nodes, indices and masks.                                               *)
(***************************************************************************)
Inputs ==
  /\ problem \in Problems
  /\ start_node \in StartNodes

(* What the assumptions on the problems say of the arguments. *)
LEMMA InputsOK ==
  ASSUME Inputs
  PROVE  /\ problem.size \in Nat
         /\ \A from, to \in Nodes(problem) : Distance(problem, from, to) \in Costs
         /\ \A node \in Nodes(problem) : Distance(problem, node, node) = 0
         /\ problem.size > 0 => Start \in Nodes(problem)
         /\ problem.size = 0 => Start = 0
         /\ Nodes(problem) \subseteq Nat
<1>1. problem.size \in Nat /\ start_node \in Nat
  BY ProblemsAssumption, StartNodesAssumption DEF Inputs, IsProblem
<1>2. \A from, to \in Nodes(problem) : Distance(problem, from, to) \in Costs
  BY ProblemsAssumption DEF Inputs, IsProblem, Distance
<1>3. \A node \in Nodes(problem) : Distance(problem, node, node) = 0
  BY ProblemsAssumption DEF Inputs, IsProblem
<1>4. problem.size > 0 => Start \in Nodes(problem)
  BY <1>1 DEF Start, NormalizeStartNode, Nodes
<1>5. Nodes(problem) \subseteq Nat /\ (problem.size = 0 => Start = 0)
  BY DEF Nodes, Start, NormalizeStartNode
<1> QED
  BY <1>1, <1>2, <1>3, <1>4, <1>5

(* The costs, and the two values of them the algorithm names. *)
LEMMA CostFacts ==
  /\ Costs \subseteq Int
  /\ kInf \in Costs /\ 0 \in Costs
  /\ \A cost \in Costs : CostMin <= cost
  /\ CostMin \in Int
  /\ \A a, b \in Costs : a + b \in Int
<1>1. kInf \in Nat /\ kInf <= CostMax
  BY CostRangeAssumption DEF kInf
<1> QED
  BY <1>1, CostRangeAssumption DEF Costs

(* A sum is a cost after it has wrapped, and a cost does not wrap. *)
LEMMA WrapFacts ==
  /\ \A sum \in Int : Wrap(sum) \in Costs /\ Wrap(sum) \in Int
  /\ \A cost \in Costs : Wrap(cost) = cost
<1>1. ASSUME NEW sum \in Int
      PROVE  Wrap(sum) \in Costs /\ Wrap(sum) \in Int
  BY CostRangeAssumption DEF Wrap, Costs
<1>2. ASSUME NEW cost \in Costs
      PROVE  Wrap(cost) = cost
  BY CostRangeAssumption DEF Wrap, Costs
<1> QED
  BY <1>1, <1>2

(* A set of costs that is not empty has a least one. *)
LEMMA LeastCost ==
  ASSUME NEW S \in SUBSET Int, S # {}, NEW low \in Int, \A x \in S : low <= x
  PROVE  Min(S) \in S /\ \A x \in S : Min(S) <= x
<1> DEFINE T == {n \in Nat : \A x \in S : x > low + n}
<1>1. CASE T = Nat
  <2>1. PICK x \in S : TRUE
    OBVIOUS
  <2>2. x - low \in Nat
    BY <2>1
  <2>3. x > low + (x - low)
    BY <1>1, <2>1, <2>2
  <2> QED
    BY <2>1, <2>3
<1>2. CASE T # Nat
  <2>1. \E x \in S : \A y \in S : x <= y
    <3>1. CASE 0 \notin T
      <4>1. PICK x \in S : ~(x > low + 0)
        BY <3>1
      <4> QED
        BY <4>1
    <3>2. CASE 0 \in T
      <4>1. PICK n \in T : n + 1 \notin T
        <5>1. T \in SUBSET Nat
          OBVIOUS
        <5> HIDE DEF T
        <5> QED
          BY <1>2, <3>2, <5>1, SetInduction
      <4>2. PICK x \in S : ~(x > low + (n + 1))
        BY <4>1
      <4>3. \A y \in S : y > low + n
        BY <4>1
      <4>4. \A y \in S : x <= y
        BY <4>1, <4>2, <4>3
      <4> QED
        BY <4>4
    <3> QED
      BY <3>1, <3>2
  <2> QED
    BY <2>1 DEF Min
<1> QED
  BY <1>1, <1>2

(* The list of nodes leaves out the start, and nothing else. *)
LEMMA IndexFacts ==
  ASSUME Inputs, problem.size > 1
  PROVE  /\ \A index \in Indices :
              /\ NodeAt(index) \in Nodes(problem) \ {Start}
              /\ IndexOf(NodeAt(index)) = index
         /\ \A node \in Nodes(problem) \ {Start} :
              IndexOf(node) \in Indices /\ NodeAt(IndexOf(node)) = node
         /\ \A i, j \in Indices : NodeAt(i) = NodeAt(j) => i = j
<1>1. /\ problem.size \in Nat /\ Start \in 0 .. problem.size - 1
      /\ Nodes(problem) = 0 .. problem.size - 1
  BY InputsOK DEF Nodes
<1> HIDE DEF Start
<1> QED
  BY <1>1 DEF Indices, NodeAt, IndexOf

(* Masks and the sets of indices they stand for. *)
LEMMA MaskFacts ==
  ASSUME Inputs, problem.size > 1
  PROVE  /\ Indices \subseteq Nat /\ 0 \in Indices /\ IsFiniteSet(Indices)
         /\ Cardinality(Indices) = problem.size - 1
         /\ Masks \subseteq Nat /\ FullMask \in Masks /\ FullMask > 0 /\ 0 \in Masks
         /\ Members(FullMask) = Indices /\ Members(0) = {}
         /\ \A i \in Indices : Power[i] \in Masks /\ Power[i] > 0 /\ Members(Power[i]) = {i}
         /\ \A m \in Masks : Members(m) = {} => m = 0
<1> DEFINE n == problem.size - 1
<1>1. n \in Nat /\ n > 0 /\ Indices = 0 .. n - 1
  BY InputsOK DEF Indices
<1>2. /\ Indices \subseteq Nat /\ 0 \in Indices /\ IsFiniteSet(Indices)
      /\ Cardinality(Indices) = n
  <2>1. IsFiniteSet(0 .. n - 1) /\ Cardinality(0 .. n - 1) = n
    <3>1. 0 \in Int /\ n - 1 \in Int
      BY <1>1
    <3>2. Cardinality(0 .. n - 1) = IF 0 > n - 1 THEN 0 ELSE (n - 1) - 0 + 1
      BY <3>1, FS_Interval
    <3> QED
      BY <1>1, <3>1, <3>2, FS_Interval
  <2> QED
    BY <1>1, <2>1
<1>3. Power[n] \in Nat /\ Power[n] > 0 /\ FullMask = Power[n] - 1
  BY <1>1, PowerFacts DEF FullMask
<1>4. \A i \in Indices : Bit(FullMask, i)
  BY <1>1, <1>3, FullHasAllBits
<1>5. ASSUME NEW i \in Indices
      PROVE  Power[i] \in Nat /\ Power[i] > 0 /\ Power[i] <= FullMask
  <2>1. Bit(FullMask, i) /\ i \in Nat /\ FullMask \in Nat
    BY <1>1, <1>3, <1>4
  <2> QED
    BY <2>1, BitCleared, PowerFacts
<1>6. Masks = 0 .. FullMask /\ FullMask \in Nat
  BY <1>3 DEF Masks
<1>7. FullMask > 0
  BY <1>2, <1>5, <1>6
<1>8. Members(FullMask) = Indices
  BY <1>4 DEF Members
<1>9. Members(0) = {}
  BY <1>2, ZeroHasNoBit DEF Members
<1>10. \A i \in Indices : Members(Power[i]) = {i}
  BY <1>2, PowerHasOneBit DEF Members
<1>11. ASSUME NEW m \in Masks, Members(m) = {}
       PROVE  m = 0
  <2>1. m \in Nat /\ m < Power[n]
    BY <1>3, <1>6
  <2>2. \A i \in 0 .. n - 1 : ~Bit(m, i)
    BY <1>1, <1>11 DEF Members
  <2> QED
    BY <1>1, <2>1, <2>2, NoBitIsZero
<1>12. /\ Masks \subseteq Nat /\ FullMask \in Masks /\ 0 \in Masks
       /\ \A i \in Indices : Power[i] \in Masks /\ Power[i] > 0
  BY <1>5, <1>6
<1> QED
  BY <1>2, <1>7, <1>8, <1>9, <1>10, <1>11, <1>12

(* A mask without one of its members. *)
LEMMA WithoutFacts ==
  ASSUME Inputs, problem.size > 1, NEW m \in Masks, NEW i \in Members(m)
  PROVE  /\ i \in Indices /\ Bit(m, i) /\ m > 0
         /\ Without(m, i) \in Masks /\ Without(m, i) < m
         /\ Members(Without(m, i)) = Members(m) \ {i}
         /\ Without(m, i) = 0 => m = Power[i]
         /\ Without(m, i) # 0 => Members(Without(m, i)) # {}
<1>1. i \in Indices /\ Bit(m, i) /\ i \in Nat /\ m \in Nat
  BY MaskFacts DEF Members
<1>2. m >= Power[i] /\ m - Power[i] \in Nat /\ Power[i] \in Nat /\ Power[i] > 0
  BY <1>1, BitCleared, PowerFacts
<1>3. Without(m, i) \in Masks /\ Without(m, i) < m
  BY <1>1, <1>2, MaskFacts DEF Without, Masks
<1>4. \A j \in Indices : Bit(Without(m, i), j) <=> j # i /\ Bit(m, j)
  BY <1>1, BitCleared, MaskFacts DEF Without
<1>5. Members(Without(m, i)) = Members(m) \ {i}
  BY <1>4 DEF Members
<1> QED
  BY <1>1, <1>2, <1>3, <1>5, MaskFacts DEF Without

(***************************************************************************)
(* Running totals: what route_cost adds up.                                *)
(***************************************************************************)
Hop(tour, p) == Distance(problem, tour[p], tour[After(tour, p)])

AreTotals(tour, total) ==
  /\ total[0] = 0
  /\ \A p \in 1 .. Len(tour) : total[p] = Wrap(total[p - 1] + Hop(tour, p))

(* There is one row of running totals, and route_cost is the last of them. *)
LEMMA RouteCostIsTotal ==
  ASSUME NEW S, NEW tour \in Seq(S), NEW total,
         total \in [0 .. Len(tour) -> Int], AreTotals(tour, total)
  PROVE  RouteCost(problem, tour) = total[Len(tour)]
<1> DEFINE IsCost(t) ==
             t = [p \in 0 .. Len(tour) |->
                    IF p = 0 THEN 0
                    ELSE Wrap(t[p - 1]
                                + Distance(problem, tour[p], tour[After(tour, p)]))]
           cost == CHOOSE t : IsCost(t)
<1>1. Len(tour) \in Nat
  OBVIOUS
<1>2. IsCost(total)
  <2>1. \A p \in 0 .. Len(tour) :
          total[p] = IF p = 0 THEN 0
                     ELSE Wrap(total[p - 1]
                                + Distance(problem, tour[p], tour[After(tour, p)]))
    <3> SUFFICES ASSUME NEW p \in 0 .. Len(tour), p # 0
                 PROVE  total[p] = Wrap(total[p - 1] + Hop(tour, p))
      BY DEF AreTotals, Hop
    <3>1. p \in 1 .. Len(tour)
      BY <1>1
    <3> QED
      BY <3>1 DEF AreTotals
  <2> QED
    BY <2>1
<1>3. RouteCost(problem, tour) = cost[Len(tour)]
  BY DEF RouteCost
<1>4. IsCost(cost)
  <2> HIDE DEF IsCost
  <2> QED
    BY <1>2
<1>5. AreTotals(tour, cost)
  <2> HIDE DEF cost
  <2> QED
    BY <1>1, <1>4 DEF AreTotals, Hop
<1> HIDE DEF cost
<1> DEFINE T == {m \in Nat : m <= Len(tour) => cost[m] = total[m]}
<1>6. 0 \in T
  BY <1>5 DEF AreTotals
<1>7. ASSUME NEW m \in T
      PROVE  m + 1 \in T
  <2> SUFFICES ASSUME m + 1 <= Len(tour)
               PROVE  cost[m + 1] = total[m + 1]
    OBVIOUS
  <2>1. m + 1 \in 1 .. Len(tour) /\ cost[m] = total[m] /\ m + 1 - 1 = m
    BY <1>1
  <2> QED
    BY <1>5, <2>1 DEF AreTotals
<1>8. T \in SUBSET Nat
  OBVIOUS
<1> HIDE DEF T
<1>9. T = Nat
  BY <1>6, <1>7, <1>8, SetInduction
<1> QED
  BY <1>1, <1>3, <1>9 DEF T

(* The tours that are answered at once cost nothing. *)
LEMMA ShortRouteCost ==
  ASSUME Inputs
  PROVE  /\ RouteCost(problem, <<>>) = 0
         /\ \A node \in Nodes(problem) : RouteCost(problem, <<node>>) = 0
<1>1. RouteCost(problem, <<>>) = 0
  <2> DEFINE total == [p \in 0 .. 0 |-> 0]
  <2>1. <<>> \in Seq(Nodes(problem)) /\ Len(<<>>) = 0
    OBVIOUS
  <2>2. AreTotals(<<>>, total) /\ total \in [0 .. 0 -> Int] /\ total[0] = 0
    BY <2>1 DEF AreTotals
  <2> HIDE DEF total
  <2> QED
    BY <2>1, <2>2, RouteCostIsTotal
<1>2. ASSUME NEW node \in Nodes(problem)
      PROVE  RouteCost(problem, <<node>>) = 0
  <2> DEFINE total == [p \in 0 .. 1 |-> 0]
  <2>1. <<node>> \in Seq(Nodes(problem)) /\ Len(<<node>>) = 1
    OBVIOUS
  <2>2. Hop(<<node>>, 1) = 0
    BY InputsOK DEF Hop, After
  <2>3. Wrap(0 + 0) = 0
    BY CostFacts, WrapFacts
  <2>4. total[0] = 0 /\ total[1] = 0 /\ total \in [0 .. 1 -> Int]
    OBVIOUS
  <2> HIDE DEF total
  <2>5. AreTotals(<<node>>, total)
    <3>1. ASSUME NEW p \in 1 .. 1
          PROVE  total[p] = Wrap(total[p - 1] + Hop(<<node>>, p))
      <4>1. p = 1
        OBVIOUS
      <4> QED
        BY <2>2, <2>3, <2>4, <4>1
    <3> QED
      BY <2>1, <2>4, <3>1 DEF AreTotals
  <2> QED
    BY <2>1, <2>4, <2>5, RouteCostIsTotal
<1> QED
  BY <1>1, <1>2

(***************************************************************************)
(* The inductive invariant.  A cell that can be reached rests on a reached *)
(* cell of a smaller mask, the one its parent names; cells the loop has    *)
(* not come to are as the initialisation left them, so that filling one    *)
(* changes nothing that another rests on.                                  *)
(***************************************************************************)
Tables ==
  /\ dp \in [Masks -> [Indices -> Costs]]
  /\ parent \in [Masks -> [Indices -> Nodes(problem) \cup {NoNode}]]

RestsOn(m, index, previous) ==
  /\ parent[m][index] = NodeAt(previous)
  /\ dp[Without(m, index)][previous] # kInf
  /\ dp[m][index] = Wrap(dp[Without(m, index)][previous]
                           + EdgeCost(NodeAt(previous), NodeAt(index)))

Grounded(m, index) ==
  dp[m][index] # kInf =>
    /\ index \in Members(m)
    /\ IF Without(m, index) = 0
       THEN dp[m][index] = EdgeCost(Start, NodeAt(index))
       ELSE \E previous \in Members(Without(m, index)) : RestsOn(m, index, previous)

Untouched(m, index) ==
  (m > mask \/ (m = mask /\ index >= last)) => dp[m][index] = Singletons[m][index]

InTables ==
  pc \in {"fill", "trace"} =>
    /\ problem.size > 1
    /\ Tables
    /\ last \in Indices
    /\ \A m \in Masks, index \in Indices : Grounded(m, index)

Filling ==
  pc = "fill" =>
    /\ problem.size <= kHeldKarpCutoff
    /\ mask \in 1 .. FullMask + 1
    /\ order = <<>>
    /\ best_total = 0
    /\ \A m \in Masks, index \in Indices : Untouched(m, index)

(* The costs of the tour's first parts, of which the tables hold the first *)
(* and the closing of the cycle gives the last.                            *)
CostsAlong(total) ==
  /\ total \in [1 .. Len(order) -> Costs]
  /\ total[1] = dp[mask][last]
  /\ \A p \in 2 .. Len(order) :
       total[p] = Wrap(total[p - 1] + EdgeCost(order[p - 1], order[p]))
  /\ best_total = Wrap(total[Len(order)] + EdgeCost(order[Len(order)], Start))

Tracing ==
  pc = "trace" =>
    /\ mask \in Masks
    /\ dp[mask][last] # kInf
    /\ order \in Seq(Nodes(problem) \ {Start}) /\ order # <<>>
    /\ order[1] = NodeAt(last)
    /\ \A p \in DOMAIN order : IndexOf(order[p]) \notin Members(Without(mask, last))
    /\ \A p, q \in DOMAIN order : order[p] = order[q] => p = q
    /\ Len(order) + Cardinality(Members(Without(mask, last))) = problem.size - 1
    /\ \E total : CostsAlong(total)

Answered == pc = "done" => order \in Seq(Nodes(problem)) /\ AnswerIsRoute

IInv ==
  /\ Inputs
  /\ pc \in {"fill", "trace", "done", "out_of_range"}
  /\ best_total \in Costs
  /\ InTables
  /\ Filling
  /\ Tracing
  /\ Answered
  /\ pc = "out_of_range" => order = <<>>

-----------------------------------------------------------------------------
(* The tables as they are initialised. *)
LEMMA SingletonFacts ==
  ASSUME Inputs, problem.size > 1
  PROVE  /\ Singletons \in [Masks -> [Indices -> Costs]]
         /\ \A m \in Masks, i \in Indices :
              Singletons[m][i] = IF m = Power[i] THEN EdgeCost(Start, NodeAt(i)) ELSE kInf
<1>1. \A i \in Indices : EdgeCost(Start, NodeAt(i)) \in Costs
  BY InputsOK, IndexFacts DEF EdgeCost
<1> QED
  BY <1>1, CostFacts DEF Singletons

(* An edge between two listed nodes, or the start and one, costs a cost. *)
LEMMA EdgeFacts ==
  ASSUME Inputs, problem.size > 1, NEW i \in Indices
  PROVE  /\ EdgeCost(Start, NodeAt(i)) \in Costs
         /\ EdgeCost(NodeAt(i), Start) \in Costs
         /\ \A j \in Indices : EdgeCost(NodeAt(i), NodeAt(j)) \in Costs
  BY InputsOK, IndexFacts DEF EdgeCost

(* Nothing is passed yet, and the tables are as the singletons left them. *)
LEMMA InitIInv == Init => IInv
<1> SUFFICES ASSUME Init
             PROVE  IInv
  OBVIOUS
<1>1. Inputs /\ best_total = 0 /\ best_total \in Costs /\ problem.size \in Nat
  BY CostFacts, InputsOK DEF Init, Inputs
<1>2. CASE problem.size > kHeldKarpCutoff
  BY <1>1, <1>2 DEF Init, IInv, InTables, Filling, Tracing, Answered
<1>3. CASE problem.size = 0
  <2>1. order = <<>> /\ pc = "done"
    BY <1>3, CutoffAssumption DEF Init
  <2>2. RouteCost(problem, order) = 0
    BY <1>1, <2>1, ShortRouteCost
  <2>3. IsRouteFrom(problem, Start, order)
    BY <1>3, <2>1 DEF IsRouteFrom, IsRoute
  <2> QED
    BY <1>1, <2>1, <2>2, <2>3
       DEF IInv, InTables, Filling, Tracing, Answered, AnswerIsRoute
<1>4. CASE problem.size = 1 /\ problem.size <= kHeldKarpCutoff
  <2>1. order = <<Start>> /\ pc = "done"
    BY <1>4, CutoffAssumption DEF Init
  <2>2. Start \in Nodes(problem)
    BY <1>1, <1>4, InputsOK
  <2>3. RouteCost(problem, order) = 0
    BY <1>1, <2>1, <2>2, ShortRouteCost
  <2>4. IsRouteFrom(problem, Start, order)
    BY <1>4, <2>1, <2>2 DEF IsRouteFrom, IsRoute
  <2>5. order \in Seq(Nodes(problem))
    BY <2>1, <2>2
  <2> QED
    BY <1>1, <2>1, <2>3, <2>4, <2>5
       DEF IInv, InTables, Filling, Tracing, Answered, AnswerIsRoute
<1>5. CASE problem.size > 1 /\ problem.size <= kHeldKarpCutoff
  <2>1. /\ pc = "fill" /\ dp = Singletons /\ order = <<>> /\ mask = 1 /\ last = 0
        /\ parent = [m \in Masks |-> [index \in Indices |-> NoNode]]
    BY <1>1, <1>5, CutoffAssumption DEF Init
  <2>2. Tables
    BY <1>1, <1>5, <2>1, SingletonFacts DEF Tables
  <2>3. last \in Indices /\ mask \in 1 .. FullMask + 1
    BY <1>1, <1>5, <2>1, MaskFacts
  <2>4. ASSUME NEW m \in Masks, NEW i \in Indices
        PROVE  Grounded(m, i)
    <3> SUFFICES ASSUME m = Power[i]
                 PROVE  /\ i \in Members(m)
                        /\ Without(m, i) = 0
                        /\ dp[m][i] = EdgeCost(Start, NodeAt(i))
      BY <1>1, <1>5, <2>1, SingletonFacts DEF Grounded
    <3>1. Members(m) = {i} /\ m \in Nat
      BY <1>1, <1>5, MaskFacts
    <3> QED
      BY <1>1, <1>5, <2>1, <3>1, SingletonFacts DEF Without
  <2> QED
    BY <1>1, <1>5, <2>1, <2>2, <2>3, <2>4
       DEF IInv, InTables, Filling, Tracing, Answered, Untouched
<1> QED
  BY <1>1, <1>2, <1>3, <1>4, <1>5, CutoffAssumption

-----------------------------------------------------------------------------
(* The loop moves on to the next cell and leaves only the one it was at. *)
LEMMA CellMoves ==
  ASSUME IInv, pc = "fill", mask \in Masks, NextCell
  PROVE  /\ last' \in Indices /\ mask' \in 1 .. FullMask + 1
         /\ \A m \in Masks, i \in Indices :
              m > mask' \/ (m = mask' /\ i >= last') =>
                m > mask \/ (m = mask /\ i > last)
<1>1. /\ Inputs /\ problem.size > 1 /\ last \in Indices /\ problem.size \in Nat
      /\ mask \in 1 .. FullMask + 1
  BY InputsOK DEF IInv, InTables, Filling
<1>2. Masks = 0 .. FullMask /\ FullMask \in Nat /\ Masks \subseteq Nat
  BY <1>1, MaskFacts DEF Masks
<1>3. Indices = 0 .. problem.size - 2
  BY DEF Indices
<1>4. CASE last + 1 \in Indices
  BY <1>1, <1>2, <1>3, <1>4 DEF NextCell
<1>5. CASE last + 1 \notin Indices
  BY <1>1, <1>2, <1>3, <1>5 DEF NextCell
<1> QED
  BY <1>4, <1>5

(* The cell skipped is one the tables have from the start, or none. *)
LEMMA SkipCellKeeps ==
  ASSUME IInv, SkipCell
  PROVE  IInv'
<1>1. /\ pc = "fill" /\ mask \in Masks /\ NextCell
      /\ UNCHANGED <<inputs, dp, parent, best_total, order, pc>>
  BY DEF SkipCell
<1>2. /\ last' \in Indices /\ mask' \in 1 .. FullMask + 1
      /\ \A m \in Masks, i \in Indices :
           m > mask' \/ (m = mask' /\ i >= last') => m > mask \/ (m = mask /\ i > last)
  BY <1>1, CellMoves
<1>3. /\ Indices' = Indices /\ Masks' = Masks /\ FullMask' = FullMask
      /\ Inputs' = Inputs /\ Tables' = Tables /\ Singletons' = Singletons
  BY <1>1 DEF inputs, Indices, Masks, FullMask, Inputs, Tables, Singletons, EdgeCost,
              NodeAt, Start
<1>4. \A m, i : Grounded(m, i)' <=> Grounded(m, i)
  BY <1>1 DEF inputs, Grounded, Members, Indices, Without, EdgeCost, NodeAt, Start, RestsOn
<1>5. Indices \subseteq Nat /\ last \in Nat
  BY MaskFacts, <1>1 DEF IInv, InTables
<1>6. \A m \in Masks, i \in Indices : Untouched(m, i)'
  BY <1>1, <1>2, <1>3, <1>5 DEF IInv, Filling, Untouched
<1>7. problem' = problem
  BY <1>1 DEF inputs
<1> QED
  BY <1>1, <1>2, <1>3, <1>4, <1>6, <1>7
     DEF IInv, InTables, Filling, Tracing, Answered

(* What a cell is filled with: the cheapest of the sums, and a node that   *)
(* gives it.                                                               *)
LEMMA BestPredecessor ==
  ASSUME IInv, pc = "fill", mask \in Masks, HasPredecessors, Predecessors # {}
  PROVE  LET best_cost   == Min({CostVia(previous) : previous \in Predecessors})
             best_parent == Min({NodeAt(previous) : previous \in
                                  {p \in Predecessors : CostVia(p) = best_cost}})
         IN  /\ \E p \in Predecessors : CostVia(p) = best_cost /\ best_parent = NodeAt(p)
             /\ \A p \in Predecessors : best_cost <= CostVia(p)
<1> DEFINE sums == {CostVia(previous) : previous \in Predecessors}
           best_cost == Min(sums)
           best == {p \in Predecessors : CostVia(p) = best_cost}
           parents == {NodeAt(previous) : previous \in best}
<1>1. /\ Inputs /\ problem.size > 1 /\ last \in Indices /\ Tables
      /\ last \in Members(mask)
  BY DEF IInv, InTables, HasPredecessors
<1>2. Without(mask, last) \in Masks
  BY <1>1, WithoutFacts
<1>3. ASSUME NEW p \in Predecessors
      PROVE  CostVia(p) \in Costs /\ p \in Indices
  <2>1. p \in Indices
    BY DEF Predecessors, Members
  <2>2. dp[Without(mask, last)][p] \in Costs
    BY <1>1, <1>2, <2>1 DEF Tables
  <2>3. EdgeCost(NodeAt(p), NodeAt(last)) \in Costs
    BY <1>1, <2>1, EdgeFacts
  <2>4. dp[Without(mask, last)][p] + EdgeCost(NodeAt(p), NodeAt(last)) \in Int
    BY <2>2, <2>3, CostFacts
  <2> QED
    BY <2>1, <2>4, WrapFacts DEF CostVia
<1>4. sums \in SUBSET Int /\ sums # {} /\ CostMin \in Int /\ \A x \in sums : CostMin <= x
  BY <1>3, CostFacts
<1> HIDE DEF sums
<1>5. best_cost \in sums /\ \A x \in sums : best_cost <= x
  BY <1>4, LeastCost
<1> HIDE DEF best_cost
<1>6. best # {}
  BY <1>5 DEF sums
<1>7. \A p \in best : NodeAt(p) \in Nat
  BY <1>1, <1>3, IndexFacts, InputsOK
<1>8. parents \in SUBSET Int /\ parents # {} /\ 0 \in Int /\ \A x \in parents : 0 <= x
  BY <1>6, <1>7
<1> HIDE DEF best
<1>9. Min(parents) \in parents
  <2> HIDE DEF parents
  <2> QED
    BY <1>8, LeastCost
<1>10. \E p \in best : Min(parents) = NodeAt(p)
  BY <1>9
<1>11. \A p \in Predecessors : best_cost <= CostVia(p)
  BY <1>5 DEF sums
<1> QED
  BY <1>10, <1>11 DEF best, best_cost, sums

(* A cell with predecessors to try still holds kInf. *)
LEMMA CellIsEmpty ==
  ASSUME IInv, pc = "fill", mask \in Masks, HasPredecessors
  PROVE  dp[mask][last] = kInf
<1>1. /\ Inputs /\ problem.size > 1 /\ last \in Indices /\ last \in Nat
      /\ last \in Members(mask) /\ Without(mask, last) # 0
      /\ Untouched(mask, last)
  BY MaskFacts DEF IInv, InTables, Filling, HasPredecessors
<1>2. mask # Power[last]
  <2>1. Power[last] \in Nat
    BY <1>1, PowerFacts
  <2> QED
    BY <1>1, <2>1 DEF Without
<1> QED
  BY <1>1, <1>2, SingletonFacts DEF Untouched

(* The cell filled rests on one of a smaller mask, filled before it, and   *)
(* no other cell changes.                                                  *)
LEMMA FillCellKeeps ==
  ASSUME IInv, FillCell
  PROVE  IInv'
<1>1. /\ pc = "fill" /\ mask \in Masks /\ HasPredecessors /\ NextCell
      /\ UNCHANGED <<inputs, best_total, order, pc>>
  BY DEF FillCell
<1>2. /\ Inputs /\ problem.size > 1 /\ last \in Indices /\ Tables
      /\ last \in Members(mask) /\ Without(mask, last) # 0
      /\ \A m \in Masks, i \in Indices : Grounded(m, i)
  BY <1>1 DEF IInv, InTables, HasPredecessors
<1>3. /\ last' \in Indices /\ mask' \in 1 .. FullMask + 1
      /\ \A m \in Masks, i \in Indices :
           m > mask' \/ (m = mask' /\ i >= last') => m > mask \/ (m = mask /\ i > last)
  BY <1>1, CellMoves
<1>4. /\ Indices' = Indices /\ Masks' = Masks /\ FullMask' = FullMask
      /\ Inputs' = Inputs /\ Singletons' = Singletons /\ problem' = problem
      /\ Nodes(problem)' = Nodes(problem)
  BY <1>1 DEF inputs, Indices, Masks, FullMask, Inputs, Singletons, EdgeCost,
              NodeAt, Start
<1>5. CASE Predecessors = {}
  <2>1. dp' = dp /\ parent' = parent
    BY <1>5 DEF FillCell
  <2>2. \A m, i : Grounded(m, i)' <=> Grounded(m, i)
    BY <1>1, <2>1
       DEF inputs, Grounded, Members, Indices, Without, EdgeCost, NodeAt, Start, RestsOn
  <2>3. Tables'
    BY <1>2, <1>4, <2>1 DEF Tables
  <2>4. \A m \in Masks, i \in Indices : Untouched(m, i)'
    BY <1>1, <1>2, <1>3, <1>4, <2>1, MaskFacts DEF IInv, Filling, Untouched
  <2> QED
    BY <1>1, <1>2, <1>3, <1>4, <2>2, <2>3, <2>4
       DEF IInv, InTables, Filling, Tracing, Answered
<1>6. CASE Predecessors # {}
  <2>1. PICK p \in Predecessors :
          /\ dp' = [dp EXCEPT ![mask][last] = CostVia(p)]
          /\ parent' = [parent EXCEPT ![mask][last] = NodeAt(p)]
    BY <1>1, <1>6, BestPredecessor DEF FillCell
  <2>2. /\ p \in Members(Without(mask, last)) /\ p \in Indices
        /\ dp[Without(mask, last)][p] # kInf
    BY <2>1 DEF Predecessors, Members
  <2>3. Without(mask, last) \in Masks /\ Without(mask, last) # mask
    BY <1>1, <1>2, WithoutFacts, MaskFacts
  <2>4. CostVia(p) \in Costs /\ NodeAt(p) \in Nodes(problem)
    <3>1. dp[Without(mask, last)][p] \in Costs
      BY <1>2, <2>2, <2>3 DEF Tables
    <3>2. EdgeCost(NodeAt(p), NodeAt(last)) \in Costs
      BY <1>2, <2>2, EdgeFacts
    <3>3. dp[Without(mask, last)][p] + EdgeCost(NodeAt(p), NodeAt(last)) \in Int
      BY <3>1, <3>2, CostFacts
    <3> QED
      BY <1>2, <2>2, <3>3, WrapFacts, IndexFacts DEF CostVia
  <2>5. \A m \in Masks, i \in Indices :
          IF m = mask /\ i = last
          THEN dp'[m][i] = CostVia(p) /\ parent'[m][i] = NodeAt(p)
          ELSE dp'[m][i] = dp[m][i] /\ parent'[m][i] = parent[m][i]
    BY <1>1, <1>2, <2>1 DEF Tables
  <2>6. Tables'
    BY <1>1, <1>2, <1>4, <2>1, <2>4 DEF Tables
  <2>7. ASSUME NEW m \in Masks, NEW i \in Indices, dp'[m][i] # kInf
        PROVE  /\ i \in Members(m)
               /\ IF Without(m, i) = 0
                  THEN dp'[m][i] = EdgeCost(Start, NodeAt(i))
                  ELSE \E q \in Members(Without(m, i)) :
                         /\ parent'[m][i] = NodeAt(q)
                         /\ dp'[Without(m, i)][q] # kInf
                         /\ dp'[m][i] = Wrap(dp'[Without(m, i)][q]
                                               + EdgeCost(NodeAt(q), NodeAt(i)))
    <3>1. CASE m = mask /\ i = last
      <4>1. dp'[Without(mask, last)][p] = dp[Without(mask, last)][p]
        BY <2>2, <2>3, <2>5
      <4>2. dp'[mask][last] = CostVia(p) /\ parent'[mask][last] = NodeAt(p)
        BY <1>1, <1>2, <2>5
      <4> QED
        BY <1>2, <2>2, <3>1, <4>1, <4>2 DEF CostVia
    <3>2. CASE ~(m = mask /\ i = last)
      <4>1. dp'[m][i] = dp[m][i] /\ parent'[m][i] = parent[m][i]
        BY <2>5, <3>2
      <4>2. Grounded(m, i) /\ i \in Members(m)
        BY <1>2, <2>7, <4>1 DEF Grounded
      <4>3. CASE Without(m, i) = 0
        BY <2>7, <4>1, <4>2, <4>3 DEF Grounded
      <4>4. CASE Without(m, i) # 0
        <5>1. PICK q \in Members(Without(m, i)) : RestsOn(m, i, q)
          BY <2>7, <4>1, <4>2, <4>4 DEF Grounded
        <5>2. Without(m, i) \in Masks /\ q \in Indices
          BY <1>2, <4>2, WithoutFacts DEF Members
        <5>3. ~(Without(m, i) = mask /\ q = last)
          BY <1>1, <5>1, CellIsEmpty DEF RestsOn
        <5>4. dp'[Without(m, i)][q] = dp[Without(m, i)][q]
          BY <2>5, <5>2, <5>3
        <5> QED
          BY <4>1, <4>2, <4>4, <5>1, <5>4 DEF RestsOn
      <4> QED
        BY <4>3, <4>4
    <3> QED
      BY <3>1, <3>2
  <2>8. \A m \in Masks, i \in Indices : Grounded(m, i)'
    <3>1. /\ \A m, i : Without(m, i)' = Without(m, i)
          /\ \A m : Members(m)' = Members(m)
          /\ \A i : NodeAt(i)' = NodeAt(i) /\ (Start' = Start)
          /\ \A from, to : EdgeCost(from, to)' = EdgeCost(from, to)
      BY <1>1 DEF inputs, Without, Members, Indices, NodeAt, Start, EdgeCost
    <3> QED
      BY <2>7, <3>1 DEF Grounded, RestsOn
  <2>9. \A m \in Masks, i \in Indices : Untouched(m, i)'
    <3> SUFFICES ASSUME NEW m \in Masks, NEW i \in Indices,
                        m > mask' \/ (m = mask' /\ i >= last')
                 PROVE  dp'[m][i] = Singletons[m][i]
      BY <1>4 DEF Untouched
    <3>1. m > mask \/ (m = mask /\ i > last)
      BY <1>3
    <3>2. m \in Nat /\ mask \in Nat /\ i \in Nat /\ last \in Nat
      BY <1>1, <1>2, MaskFacts
    <3>3. dp'[m][i] = dp[m][i]
      BY <2>5, <3>1, <3>2
    <3> QED
      BY <1>1, <3>1, <3>2, <3>3 DEF IInv, Filling, Untouched
  <2> QED
    BY <1>1, <1>2, <1>3, <1>4, <2>6, <2>8, <2>9
       DEF IInv, InTables, Filling, Tracing, Answered
<1> QED
  BY <1>5, <1>6

-----------------------------------------------------------------------------
(* The closing that is chosen: the cheapest, of the lowest index. *)
LEMMA BestClosing ==
  ASSUME IInv, pc = "fill", Closings # {}
  PROVE  LET total     == Min({TotalVia(index) : index \in Closings})
             best_last == Min({index \in Closings : TotalVia(index) = total})
         IN  /\ best_last \in Closings /\ total = TotalVia(best_last) /\ total \in Costs
             /\ \A index \in Closings : total <= TotalVia(index)
<1> DEFINE totals == {TotalVia(index) : index \in Closings}
           total == Min(totals)
           lasts == {index \in Closings : TotalVia(index) = total}
<1>1. Inputs /\ problem.size > 1 /\ Tables
  BY DEF IInv, InTables
<1>2. ASSUME NEW index \in Closings
      PROVE  TotalVia(index) \in Costs /\ index \in Indices /\ index \in Nat
  <2>1. index \in Indices /\ index \in Nat /\ FullMask \in Masks
    BY <1>1, MaskFacts DEF Closings
  <2>2. dp[FullMask][index] \in Costs /\ EdgeCost(NodeAt(index), Start) \in Costs
    BY <1>1, <2>1, EdgeFacts DEF Tables
  <2>3. dp[FullMask][index] + EdgeCost(NodeAt(index), Start) \in Int
    BY <2>2, CostFacts
  <2> QED
    BY <2>1, <2>3, WrapFacts DEF TotalVia
<1>3. totals \in SUBSET Int /\ totals # {} /\ CostMin \in Int
      /\ \A x \in totals : CostMin <= x
  BY <1>2, CostFacts
<1> HIDE DEF totals
<1>4. total \in totals /\ \A x \in totals : total <= x
  BY <1>3, LeastCost
<1> HIDE DEF total
<1>5. lasts \in SUBSET Int /\ lasts # {} /\ 0 \in Int /\ \A x \in lasts : 0 <= x
  BY <1>2, <1>4 DEF totals
<1>6. Min(lasts) \in lasts
  <2> HIDE DEF lasts
  <2> QED
    BY <1>5, LeastCost
<1>7. \A index \in Closings : total <= TotalVia(index)
  BY <1>4 DEF totals
<1>8. total \in Costs
  BY <1>2, <1>4 DEF totals
<1> QED
  BY <1>6, <1>7, <1>8 DEF total, totals

(* The walk back begins in the cell the cycle is closed from. *)
LEMMA CloseKeeps ==
  ASSUME IInv, Close
  PROVE  IInv'
<1>1. /\ pc = "fill" /\ pc' = "trace" /\ mask' = FullMask
      /\ UNCHANGED <<inputs, dp, parent>>
  BY DEF Close
<1>2. PICK best_last \in Closings :
        /\ last' = best_last /\ order' = <<NodeAt(best_last)>>
        /\ best_total' = TotalVia(best_last) /\ TotalVia(best_last) \in Costs
  BY <1>1, BestClosing DEF Close
<1>3. /\ Inputs /\ problem.size > 1 /\ Tables
      /\ \A m \in Masks, i \in Indices : Grounded(m, i)
  BY <1>1 DEF IInv, InTables
<1>4. /\ best_last \in Indices /\ dp[FullMask][best_last] # kInf
      /\ dp[FullMask][best_last] \in Costs
      /\ FullMask \in Masks /\ Members(FullMask) = Indices /\ best_last \in Members(FullMask)
      /\ IsFiniteSet(Indices) /\ Cardinality(Indices) = problem.size - 1
      /\ problem.size \in Nat
  BY <1>3, MaskFacts, InputsOK DEF Closings, Tables
<1>5. Members(Without(FullMask, best_last)) = Indices \ {best_last}
  BY <1>3, <1>4, WithoutFacts
<1>6. Cardinality(Indices \ {best_last}) = problem.size - 2
  <2>1. Cardinality(Indices \ {best_last}) = Cardinality(Indices) - 1
    BY <1>4, FS_RemoveElement
  <2> QED
    BY <1>4, <2>1
<1>7. NodeAt(best_last) \in Nodes(problem) \ {Start} /\ IndexOf(NodeAt(best_last)) = best_last
  BY <1>3, <1>4, IndexFacts
<1>8. PICK node, total : /\ node = NodeAt(best_last)
                          /\ total = [p \in 1 .. 1 |-> dp[FullMask][best_last]]
  OBVIOUS
<1>9. /\ \A m, i : Without(m, i)' = Without(m, i)
      /\ \A m : Members(m)' = Members(m)
      /\ \A i : NodeAt(i)' = NodeAt(i) /\ IndexOf(i)' = IndexOf(i)
      /\ Start' = Start /\ Indices' = Indices /\ Masks' = Masks
      /\ \A from, to : EdgeCost(from, to)' = EdgeCost(from, to)
      /\ problem' = problem /\ Inputs' = Inputs
  BY <1>1 DEF inputs, Without, Members, Indices, Masks, FullMask, NodeAt, IndexOf, Start,
              EdgeCost, Inputs
<1>10. Tables' /\ \A m, i : Grounded(m, i)' <=> Grounded(m, i)
  BY <1>1, <1>3, <1>9 DEF Tables, Grounded, RestsOn
<1>11. InTables'
  BY <1>2, <1>3, <1>4, <1>9, <1>10 DEF InTables
<1>12. CostsAlong(total)'
  <2>1. order' = <<node>> /\ Len(order') = 1 /\ order'[1] = node
    BY <1>2, <1>8
  <2>2. total \in [1 .. 1 -> Costs] /\ total[1] = dp[FullMask][best_last]
    BY <1>4, <1>8
  <2>3. TotalVia(best_last) = Wrap(total[1] + EdgeCost(node, Start))
    BY <1>8, <2>2 DEF TotalVia
  <2> QED
    BY <1>1, <1>2, <1>9, <2>1, <2>2, <2>3 DEF CostsAlong
<1>13. Tracing'
  <2>1. order' \in Seq(Nodes(problem) \ {Start}) /\ order' # <<>> /\ Len(order') = 1
    BY <1>2, <1>7
  <2>2. order'[1] = NodeAt(best_last) /\ DOMAIN order' = {1}
    BY <1>2
  <2>3. Len(order') + Cardinality(Members(Without(FullMask, best_last))) = problem.size - 1
    BY <1>4, <1>5, <1>6, <2>1
  <2>4. \A p \in DOMAIN order' : IndexOf(order'[p]) \notin Members(Without(FullMask, best_last))
    BY <1>5, <1>7, <2>2
  <2>5. \E t : CostsAlong(t)'
    BY <1>12
  <2> QED
    BY <1>1, <1>2, <1>4, <1>9, <2>1, <2>2, <2>3, <2>4, <2>5 DEF Tracing
<1> QED
  BY <1>1, <1>2, <1>3, <1>9, <1>11, <1>13 DEF IInv, Filling, Answered

(* Nothing is handed out. *)
LEMMA NoTourKeeps ==
  ASSUME IInv, NoTour
  PROVE  IInv'
<1>1. /\ pc = "fill" /\ pc' = "out_of_range"
      /\ UNCHANGED <<inputs, dp, parent, mask, last, best_total, order>>
  BY DEF NoTour
<1>2. Inputs' /\ order = <<>>
  BY <1>1 DEF IInv, Inputs, inputs, Filling
<1> QED
  BY <1>1, <1>2 DEF IInv, InTables, Filling, Tracing, Answered

(* The walk back goes to the cell its own rests on. *)
LEMMA WalksBack ==
  ASSUME IInv, pc = "trace", Without(mask, last) # 0
  PROVE  \E previous \in Members(Without(mask, last)) :
           RestsOn(mask, last, previous) /\ IndexOf(parent[mask][last]) = previous
<1>1. /\ Inputs /\ problem.size > 1 /\ last \in Indices /\ Grounded(mask, last)
      /\ dp[mask][last] # kInf
  BY DEF IInv, InTables, Tracing
<1>2. PICK previous \in Members(Without(mask, last)) : RestsOn(mask, last, previous)
  BY <1>1 DEF Grounded
<1>3. IndexOf(NodeAt(previous)) = previous
  BY <1>1, <1>2, IndexFacts DEF Members
<1> QED
  BY <1>2, <1>3 DEF RestsOn

(* A sequence with another element in front of it. *)
LEMMA InFront ==
  ASSUME NEW S, NEW x \in S, NEW s \in Seq(S)
  PROVE  /\ <<x>> \o s \in Seq(S) /\ <<x>> \o s # <<>>
         /\ Len(<<x>> \o s) = Len(s) + 1
         /\ (<<x>> \o s)[1] = x
         /\ \A p \in 2 .. Len(s) + 1 : (<<x>> \o s)[p] = s[p - 1]
         /\ DOMAIN (<<x>> \o s) = 1 .. Len(s) + 1
  OBVIOUS

(* The parent of the cell is the node of one the cell rests on; the tour   *)
(* in front of it is now one node longer, and costs what is left.          *)
LEMMA TraceBackKeeps ==
  ASSUME IInv, TraceBack
  PROVE  IInv'
<1>1. /\ pc = "trace" /\ Without(mask, last) # 0 /\ mask' = Without(mask, last)
      /\ order' = <<parent[mask][last]>> \o order
      /\ last' = IndexOf(parent[mask][last])
      /\ UNCHANGED <<inputs, dp, parent, best_total, pc>>
  BY DEF TraceBack
<1>2. /\ Inputs /\ problem.size > 1 /\ Tables /\ last \in Indices /\ mask \in Masks
      /\ \A m \in Masks, i \in Indices : Grounded(m, i)
      /\ dp[mask][last] # kInf /\ order[1] = NodeAt(last)
      /\ order \in Seq(Nodes(problem) \ {Start}) /\ order # <<>>
      /\ \A p, q \in DOMAIN order : order[p] = order[q] => p = q
      /\ \A p \in DOMAIN order : IndexOf(order[p]) \notin Members(Without(mask, last))
      /\ Len(order) + Cardinality(Members(Without(mask, last))) = problem.size - 1
      /\ problem.size \in Nat
  BY <1>1, InputsOK DEF IInv, InTables, Tracing
<1>3. last \in Members(mask)
  BY <1>2 DEF Grounded
<1>4. PICK node, previous : /\ previous \in Members(Without(mask, last))
                            /\ RestsOn(mask, last, previous)
                            /\ last' = previous /\ node = NodeAt(previous)
  BY <1>1, WalksBack
<1>5. Without(mask, last) \in Masks
  BY <1>2, <1>3, WithoutFacts
<1>6. previous \in Indices /\ node \in Nodes(problem) \ {Start} /\ IndexOf(node) = previous
  BY <1>2, <1>4, IndexFacts DEF Members
<1>7. Members(Without(mask', previous)) = Members(mask') \ {previous}
  BY <1>1, <1>2, <1>4, <1>5, WithoutFacts
<1>8. /\ order' = <<node>> \o order
      /\ order' \in Seq(Nodes(problem) \ {Start}) /\ order' # <<>>
      /\ Len(order') = Len(order) + 1 /\ Len(order) \in Nat /\ Len(order) > 0
      /\ order'[1] = node
      /\ \A p \in 2 .. Len(order) + 1 : order'[p] = order[p - 1]
      /\ DOMAIN order' = 1 .. Len(order) + 1 /\ DOMAIN order = 1 .. Len(order)
  <2>1. order' = <<node>> \o order
    BY <1>1, <1>4 DEF RestsOn
  <2> QED
    BY <1>2, <1>6, <2>1, InFront
<1>9. /\ \A m, i : Without(m, i)' = Without(m, i)
      /\ \A m : Members(m)' = Members(m)
      /\ \A i : NodeAt(i)' = NodeAt(i) /\ IndexOf(i)' = IndexOf(i)
      /\ Start' = Start /\ Indices' = Indices /\ Masks' = Masks
      /\ \A from, to : EdgeCost(from, to)' = EdgeCost(from, to)
      /\ problem' = problem /\ Inputs' = Inputs
  BY <1>1 DEF inputs, Without, Members, Indices, Masks, FullMask, NodeAt, IndexOf, Start,
              EdgeCost, Inputs
<1>10. Tables' /\ \A m, i : Grounded(m, i)' <=> Grounded(m, i)
  BY <1>1, <1>2, <1>9 DEF Tables, Grounded, RestsOn
<1>11. InTables'
  BY <1>1, <1>2, <1>4, <1>6, <1>9, <1>10 DEF InTables
<1>12. \A p \in DOMAIN order' : IndexOf(order'[p]) \notin Members(Without(mask', previous))
  <2> SUFFICES ASSUME NEW p \in 1 .. Len(order) + 1
               PROVE  IndexOf(order'[p]) \notin Members(Without(mask', previous))
    BY <1>8
  <2>1. CASE p = 1
    BY <1>6, <1>7, <1>8, <2>1
  <2>2. CASE p > 1
    <3>1. p \in 2 .. Len(order) + 1 /\ p - 1 \in DOMAIN order
      BY <1>8, <2>2
    <3> QED
      BY <1>1, <1>2, <1>7, <1>8, <3>1
  <2> QED
    BY <1>8, <2>1, <2>2
<1>13. \A p, q \in DOMAIN order' : order'[p] = order'[q] => p = q
  <2>1. \A p \in 2 .. Len(order) + 1 : order'[p] # node
    <3> SUFFICES ASSUME NEW p \in 2 .. Len(order) + 1, order'[p] = node
                 PROVE  FALSE
      OBVIOUS
    <3>1. p - 1 \in DOMAIN order /\ order[p - 1] = node
      BY <1>8
    <3> QED
      BY <1>2, <1>4, <1>6, <3>1
  <2>2. \A p, q \in 2 .. Len(order) + 1 : order'[p] = order'[q] => p = q
    <3> SUFFICES ASSUME NEW p \in 2 .. Len(order) + 1, NEW q \in 2 .. Len(order) + 1,
                        order'[p] = order'[q]
                 PROVE  p = q
      OBVIOUS
    <3>1. p - 1 \in DOMAIN order /\ q - 1 \in DOMAIN order /\ order[p - 1] = order[q - 1]
      BY <1>8
    <3>2. p - 1 = q - 1
      BY <1>2, <3>1
    <3> QED
      BY <1>8, <3>2
  <2>3. \A p \in DOMAIN order' : p = 1 \/ p \in 2 .. Len(order) + 1
    BY <1>8
  <2> QED
    BY <1>8, <2>1, <2>2, <2>3
<1>14. Len(order') + Cardinality(Members(Without(mask', previous))) = problem.size - 1
  <2>1. IsFiniteSet(Members(mask'))
    <3>1. Members(mask') \subseteq Indices
      BY DEF Members
    <3> QED
      BY <1>2, <3>1, MaskFacts, FS_Subset
  <2>2. Cardinality(Members(mask')) \in Nat
    BY <2>1, FS_CardinalityType
  <2>3. Cardinality(Members(mask') \ {previous}) = Cardinality(Members(mask')) - 1
    BY <1>1, <1>4, <2>1, FS_RemoveElement
  <2> QED
    BY <1>1, <1>2, <1>7, <1>8, <2>2, <2>3
<1>15. \E total : CostsAlong(total)'
  <2>1. PICK old : CostsAlong(old)
    BY <1>1 DEF IInv, Tracing
  <2>2. PICK n : n = Len(order)
    OBVIOUS
  <2>3. PICK total : total = [p \in 1 .. n + 1 |->
                                IF p = 1 THEN dp[mask'][previous] ELSE old[p - 1]]
    OBVIOUS
  <2>4. n \in Nat /\ n > 0 /\ old \in [1 .. n -> Costs]
    BY <1>8, <2>1, <2>2 DEF CostsAlong
  <2>5. total \in [1 .. n + 1 -> Costs]
    <3>1. dp[mask'][previous] \in Costs
      BY <1>1, <1>2, <1>5, <1>6 DEF Tables
    <3> QED
      BY <2>3, <2>4, <3>1
  <2>6. total[1] = dp[mask'][previous] /\ \A p \in 2 .. n + 1 : total[p] = old[p - 1]
    BY <2>3, <2>4
  <2>7. ASSUME NEW p \in 2 .. n + 1
        PROVE  total[p] = Wrap(total[p - 1] + EdgeCost(order'[p - 1], order'[p]))
    <3>1. CASE p = 2
      <4>1. order'[1] = node /\ order'[2] = NodeAt(last)
        BY <1>2, <1>8, <2>2, <2>4
      <4>2. total[2] = old[1] /\ old[1] = dp[mask][last]
        BY <2>1, <2>4, <2>6 DEF CostsAlong
      <4>3. dp[mask][last] = Wrap(dp[mask'][previous] + EdgeCost(node, NodeAt(last)))
        BY <1>1, <1>4 DEF RestsOn
      <4> QED
        BY <2>6, <3>1, <4>1, <4>2, <4>3
    <3>2. CASE p > 2
      <4>1. p - 1 \in 2 .. n /\ p - 1 \in 2 .. n + 1 /\ p \in 2 .. n + 1
        BY <2>4, <3>2
      <4>2. total[p] = old[p - 1] /\ total[p - 1] = old[p - 1 - 1]
        BY <2>6, <4>1
      <4>3. order'[p] = order[p - 1] /\ order'[p - 1] = order[p - 1 - 1]
        BY <1>8, <2>2, <4>1
      <4>4. old[p - 1] = Wrap(old[p - 1 - 1] + EdgeCost(order[p - 1 - 1], order[p - 1]))
        BY <2>1, <2>2, <4>1 DEF CostsAlong
      <4> QED
        BY <4>2, <4>3, <4>4
    <3> QED
      BY <2>4, <3>1, <3>2
  <2>8. best_total = Wrap(total[n + 1] + EdgeCost(order'[n + 1], Start))
    <3>1. total[n + 1] = old[n] /\ order'[n + 1] = order[n]
      BY <1>8, <2>2, <2>4, <2>6
    <3> QED
      BY <2>1, <2>2, <3>1 DEF CostsAlong
  <2>9. CostsAlong(total)'
    BY <1>1, <1>4, <1>8, <1>9, <2>2, <2>5, <2>6, <2>7, <2>8 DEF CostsAlong
  <2> QED
    BY <2>9
<1>16. Tracing'
  <2>1. dp'[mask'][previous] # kInf
    BY <1>1, <1>4 DEF RestsOn
  <2> QED
    BY <1>1, <1>4, <1>5, <1>8, <1>9, <1>12, <1>13, <1>14, <1>15, <2>1 DEF Tracing
<1> QED
  BY <1>1, <1>2, <1>9, <1>11, <1>16 DEF IInv, Filling, Answered

(* The cost computed along the cells is the cost of the whole tour. *)
LEMMA CostOfTour ==
  ASSUME IInv, pc = "trace", Without(mask, last) = 0
  PROVE  RouteCost(problem, <<Start>> \o order) = best_total
<1>1. /\ Inputs /\ problem.size > 1 /\ last \in Indices /\ Grounded(mask, last)
      /\ dp[mask][last] # kInf /\ order[1] = NodeAt(last)
      /\ order \in Seq(Nodes(problem) \ {Start}) /\ order # <<>>
      /\ best_total \in Costs /\ Start \in Nodes(problem)
  BY InputsOK DEF IInv, InTables, Tracing
<1>2. PICK old : CostsAlong(old)
  BY DEF IInv, Tracing
<1>3. PICK n : n = Len(order)
  OBVIOUS
<1> DEFINE tour == <<Start>> \o order
           total == [p \in 0 .. n + 1 |->
                       IF p = 0 THEN 0 ELSE IF p = n + 1 THEN best_total ELSE old[p]]
<1>4. n \in Nat /\ n > 0 /\ old \in [1 .. n -> Costs] /\ order \in Seq(Nodes(problem))
  BY <1>1, <1>2, <1>3 DEF CostsAlong
<1>5. /\ tour \in Seq(Nodes(problem)) /\ Len(tour) = n + 1
      /\ tour[1] = Start /\ \A p \in 2 .. n + 1 : tour[p] = order[p - 1]
  BY <1>1, <1>4, <1>3, InFront
<1> HIDE DEF tour
<1>6. /\ \A p \in 1 .. n : After(tour, p) = p + 1
      /\ After(tour, n + 1) = 1
  <2>1. \A p \in 1 .. n : p % (n + 1) = p
    BY <1>4
  <2>2. (n + 1) % (n + 1) = 0
    BY <1>4
  <2> QED
    BY <1>4, <1>5, <2>1, <2>2 DEF After
<1>7. total \in [0 .. n + 1 -> Int]
  <2>1. best_total \in Int /\ \A p \in 1 .. n : old[p] \in Int
    BY <1>1, <1>4, CostFacts
  <2> QED
    BY <1>4, <2>1
<1>8. total[0] = 0 /\ total[n + 1] = best_total /\ \A p \in 1 .. n : total[p] = old[p]
  BY <1>4
<1> HIDE DEF total
<1>9. ASSUME NEW p \in 1 .. n + 1
      PROVE  total[p] = Wrap(total[p - 1] + Hop(tour, p))
  <2>1. CASE p = 1
    <3>1. Hop(tour, 1) = EdgeCost(Start, NodeAt(last))
      BY <1>1, <1>4, <1>5, <1>6 DEF Hop, EdgeCost
    <3>2. total[1] = EdgeCost(Start, NodeAt(last))
      BY <1>1, <1>4, <1>2, <1>8 DEF Grounded, CostsAlong
    <3>3. EdgeCost(Start, NodeAt(last)) \in Costs
      BY <1>1, EdgeFacts
    <3>4. 0 + EdgeCost(Start, NodeAt(last)) = EdgeCost(Start, NodeAt(last))
      <4>1. EdgeCost(Start, NodeAt(last)) \in Int
        BY <3>3, CostFacts
      <4> QED
        BY <4>1
    <3> QED
      BY <1>8, <2>1, <3>1, <3>2, <3>3, <3>4, WrapFacts
  <2>2. CASE p = n + 1
    <3>1. tour[n + 1] = order[n] /\ n + 1 - 1 = n
      BY <1>4, <1>5
    <3>2. Hop(tour, n + 1) = EdgeCost(order[n], Start)
      BY <1>5, <1>6, <3>1 DEF Hop, EdgeCost
    <3>3. total[n] = old[n]
      BY <1>4, <1>8
    <3> QED
      BY <1>2, <1>3, <1>8, <2>2, <3>1, <3>2, <3>3 DEF CostsAlong
  <2>3. CASE p \in 2 .. n
    <3>1. tour[p] = order[p - 1] /\ tour[p + 1] = order[p]
      BY <1>4, <1>5, <2>3
    <3>2. Hop(tour, p) = EdgeCost(order[p - 1], order[p])
      BY <1>4, <1>6, <2>3, <3>1 DEF Hop, EdgeCost
    <3>3. total[p] = old[p] /\ total[p - 1] = old[p - 1]
      BY <1>4, <1>8, <2>3
    <3> QED
      BY <1>2, <1>3, <2>3, <3>2, <3>3 DEF CostsAlong
  <2> QED
    BY <1>4, <2>1, <2>2, <2>3
<1>10. AreTotals(tour, total)
  BY <1>5, <1>8, <1>9 DEF AreTotals
<1>11. RouteCost(problem, tour) = total[n + 1]
  BY <1>5, <1>7, <1>10, RouteCostIsTotal
<1> QED
  BY <1>8, <1>11 DEF tour

(* The start completes the tour: what remained to be paid is its first     *)
(* edge.                                                                   *)
LEMMA FinishKeeps ==
  ASSUME IInv, Finish
  PROVE  IInv'
<1>1. /\ pc = "trace" /\ Without(mask, last) = 0 /\ pc' = "done"
      /\ order' = <<Start>> \o order
      /\ UNCHANGED <<inputs, dp, parent, mask, last, best_total>>
  BY DEF Finish
<1>2. /\ Inputs /\ problem.size > 1
      /\ order \in Seq(Nodes(problem) \ {Start})
      /\ \A p, q \in DOMAIN order : order[p] = order[q] => p = q
      /\ Len(order) + Cardinality(Members(0)) = problem.size - 1
      /\ problem.size \in Nat /\ Start \in Nodes(problem)
  BY <1>1, InputsOK DEF IInv, InTables, Tracing
<1>3. Len(order) = problem.size - 1
  <2>1. Cardinality(Members(0)) = 0
    BY <1>2, MaskFacts, FS_EmptySet
  <2> QED
    BY <1>2, <2>1
<1>4. order \in Seq(Nodes(problem))
  BY <1>2
<1>5. /\ order' \in Seq(Nodes(problem)) /\ Len(order') = problem.size
      /\ order'[1] = Start
      /\ \A p \in 2 .. problem.size : order'[p] = order[p - 1]
  BY <1>1, <1>2, <1>3, <1>4, InFront
<1>6. \A p \in 2 .. problem.size : p - 1 \in DOMAIN order /\ order'[p] # Start
  BY <1>2, <1>3, <1>5
<1>7. ASSUME NEW p \in 1 .. problem.size, NEW q \in 1 .. problem.size, order'[p] = order'[q]
      PROVE  p = q
  <2>1. CASE p = 1 \/ q = 1
    BY <1>2, <1>5, <1>6, <1>7, <2>1
  <2>2. CASE p # 1 /\ q # 1
    <3>1. p \in 2 .. problem.size /\ q \in 2 .. problem.size
      BY <1>2, <2>2
    <3>2. p - 1 = q - 1
      BY <1>2, <1>5, <1>6, <1>7, <3>1
    <3> QED
      BY <1>2, <3>1, <3>2
  <2> QED
    BY <2>1, <2>2
<1>8. order' \in [1 .. problem.size -> Nodes(problem)]
  BY <1>5
<1>9. RouteCost(problem, order') = best_total
  BY <1>1, CostOfTour
<1>10. /\ problem' = problem /\ Start' = Start /\ Inputs' = Inputs
       /\ best_total' = best_total
  BY <1>1 DEF inputs, Start, Inputs
<1>11. Answered'
  BY <1>1, <1>5, <1>7, <1>8, <1>9, <1>10
     DEF Answered, AnswerIsRoute, IsRouteFrom, IsRoute
<1> QED
  BY <1>1, <1>2, <1>10, <1>11 DEF IInv, InTables, Filling, Tracing

(* The invariant speaks of the variables only. *)
LEMMA StutterKeeps ==
  ASSUME IInv, UNCHANGED vars
  PROVE  IInv'
<1>1. UNCHANGED <<problem, start_node, dp, parent, mask, last, best_total, order, pc>>
  BY DEF vars
<1>2. /\ \A m, i : Without(m, i)' = Without(m, i)
      /\ \A m : Members(m)' = Members(m)
      /\ \A i : NodeAt(i)' = NodeAt(i) /\ IndexOf(i)' = IndexOf(i)
      /\ Start' = Start /\ Indices' = Indices /\ Masks' = Masks /\ FullMask' = FullMask
      /\ \A from, to : EdgeCost(from, to)' = EdgeCost(from, to)
      /\ problem' = problem /\ Inputs' = Inputs /\ Singletons' = Singletons
  BY <1>1 DEF Without, Members, Indices, Masks, FullMask, NodeAt, IndexOf, Start,
              EdgeCost, Inputs, Singletons
<1>3. Tables' = Tables /\ \A m, i : /\ Grounded(m, i)' <=> Grounded(m, i)
                                    /\ Untouched(m, i)' <=> Untouched(m, i)
  BY <1>1, <1>2 DEF Tables, Grounded, RestsOn, Untouched
<1>4. InTables' /\ Filling'
  BY <1>1, <1>2, <1>3 DEF IInv, InTables, Filling
<1>5. \A total : CostsAlong(total)' <=> CostsAlong(total)
  BY <1>1, <1>2 DEF CostsAlong
<1>6. Tracing'
  BY <1>1, <1>2, <1>5 DEF IInv, Tracing
<1>7. Answered'
  BY <1>1, <1>2 DEF IInv, Answered, AnswerIsRoute
<1> QED
  BY <1>1, <1>2, <1>4, <1>6, <1>7 DEF IInv

-----------------------------------------------------------------------------
(* The invariant holds of every run, whatever the distances are. *)
THEOREM Invariance == Spec => []IInv
<1>1. IInv /\ [Next]_vars => IInv'
  BY SkipCellKeeps, FillCellKeeps, CloseKeeps, NoTourKeeps, TraceBackKeeps, FinishKeeps,
     StutterKeeps DEF Next
<1> QED
  BY <1>1, InitIInv, PTL DEF Spec

(* The tables stay tables, and the walk back never leaves them, whatever   *)
(* sums overflow or reach kInf.                                            *)
THEOREM TypeCorrect == Spec => []TypeOK
<1>1. ASSUME IInv
      PROVE  TypeOK
  <2>1. Inputs /\ problem.size \in Nat
    BY <1>1, InputsOK DEF IInv
  <2>2. CASE pc = "fill" \/ pc = "out_of_range"
    <3>1. order = <<>>
      BY <1>1, <2>2 DEF IInv, Filling
    <3> QED
      BY <1>1, <2>1, <2>2, <3>1 DEF IInv, InTables, Tables, TypeOK
  <2>3. CASE pc = "trace"
    <3>1. /\ problem.size > 1 /\ last \in Indices /\ mask \in Masks
          /\ Grounded(mask, last) /\ dp[mask][last] # kInf
      BY <1>1, <2>3 DEF IInv, InTables, Tracing
    <3>2. Bit(mask, last)
      BY <3>1 DEF Grounded, Members
    <3>3. order \in Seq(Nodes(problem) \ {Start})
      BY <1>1, <2>3 DEF IInv, Tracing
    <3>4. Len(order) <= problem.size
      <4>1. Members(Without(mask, last)) \subseteq Indices
        BY DEF Members
      <4>2. Cardinality(Members(Without(mask, last))) \in Nat
        BY <2>1, <3>1, <4>1, MaskFacts, FS_Subset, FS_CardinalityType
      <4> QED
        BY <1>1, <2>1, <2>3, <3>3, <4>2 DEF IInv, Tracing
    <3> QED
      BY <1>1, <2>3, <3>1, <3>2, <3>3, <3>4 DEF IInv, InTables, Tables, TypeOK
  <2>4. CASE pc = "done"
    <3>1. order \in Seq(Nodes(problem)) /\ order \in [1 .. problem.size -> Nodes(problem)]
      BY <1>1, <2>4 DEF IInv, Answered, AnswerIsRoute, IsRouteFrom, IsRoute
    <3>2. Len(order) = problem.size
      BY <2>1, <3>1
    <3> QED
      BY <1>1, <2>1, <2>4, <3>1, <3>2 DEF IInv, TypeOK
  <2> QED
    BY <1>1, <2>2, <2>3, <2>4 DEF IInv
<1> QED
  BY <1>1, Invariance, PTL

(* Whatever sums overflowed or reached kInf, an answer is a permutation of *)
(* the nodes from the start, with the cost it was found to have.           *)
THEOREM AnswerIsTour == Spec => []AnswerIsRoute
<1>1. IInv => AnswerIsRoute
  BY DEF IInv, Answered, AnswerIsRoute
<1> QED
  BY <1>1, Invariance, PTL

(***************************************************************************)
(* Small distances: no sum of them wraps or reaches kInf.                  *)
(***************************************************************************)
Bound == (kInf - 1) \div problem.size

(* As many edges as the problem has nodes sum up to less than kInf. *)
LEMMA BoundFacts ==
  ASSUME Inputs, problem.size > 0, SmallDistances
  PROVE  /\ Bound \in Nat
         /\ \A c \in Nat : c <= problem.size =>
              /\ c * Bound \in Nat /\ c * Bound < kInf
              /\ (c + 1) * Bound = c * Bound + Bound
         /\ \A from, to \in Nodes(problem) :
              /\ Distance(problem, from, to) \in Int
              /\ -Bound <= Distance(problem, from, to)
              /\ Distance(problem, from, to) <= Bound
<1>1. problem.size \in Nat /\ kInf \in Int
  BY InputsOK, CostFacts
<1>2. ASSUME NEW from \in Nodes(problem), NEW to \in Nodes(problem)
      PROVE  /\ Distance(problem, from, to) \in Int
             /\ Distance(problem, from, to) * problem.size < kInf
             /\ -Distance(problem, from, to) * problem.size < kInf
  <2>1. Distance(problem, from, to) \in Int
    BY InputsOK, CostFacts
  <2> QED
    BY <2>1 DEF SmallDistances
<1>3. kInf > 0
  <2>1. Start \in Nodes(problem) /\ Distance(problem, Start, Start) = 0
    BY InputsOK
  <2>2. 0 * problem.size < kInf
    BY <1>2, <2>1
  <2> QED
    BY <1>1, <2>2
<1> DEFINE n == problem.size
           k == kInf
<1> HIDE DEF n, k
<1>4. n \in Nat /\ n > 0 /\ k \in Nat /\ k > 0 /\ Bound = (k - 1) \div n
  BY <1>1, <1>3 DEF n, k, Bound
<1>5. k - 1 \in Nat
  BY <1>4
<1>6. PICK r \in Nat : k - 1 = n * Bound + r /\ r < n
  BY <1>4, <1>5, Divided
<1>7. Bound \in Nat
  BY <1>4, <1>5, Divided
<1>8. ASSUME NEW d \in Int, d * n < k
      PROVE  d <= Bound
  <2> SUFFICES ASSUME d >= Bound + 1
               PROVE  FALSE
    BY <1>7
  <2>1. PICK b : b = Bound
    OBVIOUS
  <2>2. b \in Nat /\ d >= b + 1 /\ n * b + r = k - 1
    BY <1>6, <1>7, <2>1
  <2>3. d * n >= (b + 1) * n
    BY <1>4, <1>8, <2>2
  <2>4. (b + 1) * n = n * b + n /\ n * b \in Nat
    BY <1>4, <2>2
  <2>5. d * n >= n * b + n
    BY <2>3, <2>4
  <2>6. d * n \in Int
    BY <1>4, <1>8
  <2> QED
    BY <1>4, <1>6, <1>8, <2>2, <2>4, <2>5, <2>6
<1>9. ASSUME NEW from \in Nodes(problem), NEW to \in Nodes(problem)
      PROVE  /\ Distance(problem, from, to) \in Int
             /\ -Bound <= Distance(problem, from, to)
             /\ Distance(problem, from, to) <= Bound
  <2>1. PICK d : d = Distance(problem, from, to)
    OBVIOUS
  <2>2. d \in Int /\ d * n < k /\ -d * n < k
    BY <1>2, <2>1 DEF n, k
  <2>4. -d \in Int /\ (-d) * n < k
    BY <1>4, <2>2
  <2>3. d <= Bound /\ -d <= Bound
    BY <1>8, <2>2, <2>4
  <2> QED
    BY <1>7, <2>1, <2>2, <2>3
<1>10. ASSUME NEW c \in Nat, c <= n
       PROVE  /\ c * Bound \in Nat /\ c * Bound < k
              /\ (c + 1) * Bound = c * Bound + Bound
  <2>1. c * Bound <= n * Bound
    BY <1>4, <1>7, <1>10
  <2> QED
    BY <1>4, <1>6, <1>7, <2>1
<1> QED
  BY <1>7, <1>9, <1>10 DEF n, k

(* A sum within these bounds is exact, and is not kInf. *)
LEMMA SmallSum ==
  ASSUME NEW sum \in Int, NEW most \in Nat, most < kInf, -most <= sum, sum <= most
  PROVE  Wrap(sum) = sum /\ sum < kInf /\ sum \in Costs
<1>1. kInf \in Nat /\ kInf <= CostMax
  BY CostRangeAssumption DEF kInf
<1>2. sum \in Costs
  BY <1>1, CostRangeAssumption, NegationAssumption DEF Costs
<1> QED
  BY <1>1, <1>2, WrapFacts

(* The totals of a tour without the wrapping. *)
AreSums(tour, sum) ==
  /\ sum \in [0 .. Len(tour) -> Int]
  /\ sum[0] = 0
  /\ \A p \in 1 .. Len(tour) : sum[p] = sum[p - 1] + Hop(tour, p)

(* Every hop of a tour of nodes is a distance, and bounded. *)
LEMMA HopFacts ==
  ASSUME Inputs, SmallDistances, NEW tour \in Seq(Nodes(problem)),
         Len(tour) = problem.size, NEW p \in 1 .. Len(tour)
  PROVE  Hop(tour, p) \in Int /\ -Bound <= Hop(tour, p) /\ Hop(tour, p) <= Bound
<1>1. problem.size > 0 /\ Len(tour) \in Nat
  BY InputsOK
<1>2. After(tour, p) \in 1 .. Len(tour)
  BY <1>1 DEF After
<1>3. tour[p] \in Nodes(problem) /\ tour[After(tour, p)] \in Nodes(problem)
  BY <1>1, <1>2
<1> QED
  BY <1>1, <1>3, BoundFacts DEF Hop

(* They exist, ... *)
LEMMA SumsExist ==
  ASSUME Inputs, SmallDistances, NEW tour \in Seq(Nodes(problem)),
         Len(tour) = problem.size
  PROVE  \E sum : AreSums(tour, sum)
<1> DEFINE n == Len(tour)
           Row(m, sum) ==
             /\ sum \in [0 .. m -> Int]
             /\ sum[0] = 0
             /\ \A p \in 1 .. m : sum[p] = sum[p - 1] + Hop(tour, p)
           S == {m \in Nat : m <= n => \E sum : Row(m, sum)}
<1>1. n \in Nat
  OBVIOUS
<1>2. 0 \in S
  <2>1. Row(0, [p \in 0 .. 0 |-> 0])
    OBVIOUS
  <2> QED
    BY <2>1
<1>3. ASSUME NEW m \in S
      PROVE  m + 1 \in S
  <2> HIDE DEF Row
  <2> SUFFICES ASSUME m + 1 <= n
               PROVE  \E sum : Row(m + 1, sum)
    OBVIOUS
  <2>1. m <= n /\ m \in Nat /\ m + 1 \in 1 .. n
    BY <1>1
  <2>2. PICK sum : Row(m, sum)
    BY <2>1
  <2> USE DEF Row
  <2>3. PICK hop : hop = Hop(tour, m + 1)
    OBVIOUS
  <2>4. hop \in Int /\ sum[m] \in Int
    BY <2>1, <2>2, <2>3, HopFacts
  <2>5. PICK more : more = [p \in 0 .. m + 1 |-> IF p = m + 1 THEN sum[m] + hop ELSE sum[p]]
    OBVIOUS
  <2>6. more \in [0 .. m + 1 -> Int]
    BY <2>1, <2>2, <2>4, <2>5
  <2>7. more[m + 1] = sum[m] + hop /\ \A p \in 0 .. m : more[p] = sum[p]
    BY <2>1, <2>5
  <2>8. more[0] = 0 /\ \A p \in 1 .. m + 1 : more[p] = more[p - 1] + Hop(tour, p)
    <3>1. more[0] = 0 /\ more[m + 1] = more[m] + Hop(tour, m + 1)
      BY <2>1, <2>2, <2>3, <2>7
    <3>2. \A p \in 1 .. m : more[p] = more[p - 1] + Hop(tour, p)
      BY <2>1, <2>2, <2>7
    <3>3. \A p \in 1 .. m + 1 : p \in 1 .. m \/ (p = m + 1 /\ p - 1 = m)
      BY <2>1
    <3> QED
      BY <3>1, <3>2, <3>3
  <2>9. Row(m + 1, more)
    BY <2>6, <2>8
  <2> QED
    BY <2>9
<1>4. S \in SUBSET Nat
  OBVIOUS
<1> HIDE DEF S
<1>5. S = Nat
  BY <1>2, <1>3, <1>4, SetInduction
<1>6. n \in S
  BY <1>1, <1>5
<1>7. \E sum : Row(n, sum)
  <2> HIDE DEF Row
  <2> QED
    BY <1>1, <1>6 DEF S
<1> QED
  BY <1>7 DEF AreSums

(* ... and are what route_cost adds up: no total wraps. *)
LEMMA RouteCostIsSum ==
  ASSUME Inputs, SmallDistances, problem.size > 0,
         NEW tour \in Seq(Nodes(problem)), Len(tour) = problem.size,
         NEW sum, AreSums(tour, sum)
  PROVE  RouteCost(problem, tour) = sum[Len(tour)]
<1> DEFINE n == Len(tour)
           Bounded(p) == -(p * Bound) <= sum[p] /\ sum[p] <= p * Bound
           S == {p \in Nat : p <= n => Bounded(p)}
<1>1. n \in Nat /\ n = problem.size
  OBVIOUS
<1>2. sum \in [0 .. n -> Int] /\ \A p \in 1 .. n : sum[p] = sum[p - 1] + Hop(tour, p)
  BY DEF AreSums
<1>3. 0 \in S
  BY BoundFacts DEF AreSums
<1>4. ASSUME NEW p \in S
      PROVE  p + 1 \in S
  <2> SUFFICES ASSUME p + 1 <= n
               PROVE  Bounded(p + 1)
    OBVIOUS
  <2>1. p \in Nat /\ p <= n /\ Bounded(p) /\ p + 1 \in 1 .. n /\ p \in 0 .. n
    BY <1>1
  <2>2. PICK least, hop : least = p * Bound /\ hop = Hop(tour, p + 1)
    OBVIOUS
  <2>3. least \in Nat /\ (p + 1) * Bound = least + Bound /\ Bound \in Nat
    BY <1>1, <2>1, <2>2, BoundFacts
  <2>4. hop \in Int /\ -Bound <= hop /\ hop <= Bound
    BY <2>1, <2>2, HopFacts
  <2>5. sum[p] \in Int /\ sum[p + 1] = sum[p] + hop
    BY <1>2, <2>1, <2>2
  <2>6. -least <= sum[p] /\ sum[p] <= least
    BY <2>1, <2>2
  <2> QED
    BY <2>3, <2>4, <2>5, <2>6
<1>5. S \in SUBSET Nat
  OBVIOUS
<1> HIDE DEF S
<1>6. S = Nat
  BY <1>3, <1>4, <1>5, SetInduction
<1>7. ASSUME NEW p \in 1 .. n
      PROVE  Wrap(sum[p - 1] + Hop(tour, p)) = sum[p]
  <2>1. p \in Nat /\ p <= n /\ p \in 0 .. n
    BY <1>1
  <2>2. sum[p] \in Int /\ sum[p] = sum[p - 1] + Hop(tour, p)
    BY <1>2, <2>1
  <2>3. Bounded(p)
    BY <1>6, <2>1 DEF S
  <2>4. PICK most : most = p * Bound
    OBVIOUS
  <2>5. most \in Nat /\ most < kInf
    BY <1>1, <2>1, <2>4, BoundFacts
  <2> QED
    BY <2>2, <2>3, <2>4, <2>5, SmallSum
<1>8. AreTotals(tour, sum)
  BY <1>7 DEF AreTotals, AreSums
<1> QED
  BY <1>2, <1>8, RouteCostIsTotal

(***************************************************************************)
(* Paths from the start, which the cells stand for.                        *)
(***************************************************************************)
(* The costs of a path's first parts. *)
AreParts(path, part) ==
  /\ part \in [1 .. Len(path) -> Int]
  /\ part[1] = EdgeCost(Start, NodeAt(path[1]))
  /\ \A p \in 2 .. Len(path) :
       part[p] = part[p - 1] + EdgeCost(NodeAt(path[p - 1]), NodeAt(path[p]))

(* They exist, ... *)
LEMMA PartsExist ==
  ASSUME Inputs, problem.size > 1, NEW path \in Seq(Indices), path # <<>>
  PROVE  \E part : AreParts(path, part)
<1> DEFINE n == Len(path)
           Edge(p) == EdgeCost(NodeAt(path[p - 1]), NodeAt(path[p]))
           Row(m, part) ==
             /\ part \in [1 .. m -> Int]
             /\ part[1] = EdgeCost(Start, NodeAt(path[1]))
             /\ \A p \in 2 .. m : part[p] = part[p - 1] + Edge(p)
           S == {m \in Nat : m + 1 <= n => \E part : Row(m + 1, part)}
<1>1. n \in Nat /\ n > 0 /\ \A p \in 1 .. n : path[p] \in Indices
  OBVIOUS
<1>2. EdgeCost(Start, NodeAt(path[1])) \in Int
  <2>1. path[1] \in Indices
    BY <1>1
  <2>2. EdgeCost(Start, NodeAt(path[1])) \in Costs
    BY <2>1, EdgeFacts
  <2> QED
    BY <2>2, CostFacts
<1>3. ASSUME NEW p \in 2 .. n
      PROVE  Edge(p) \in Int
  <2>1. p - 1 \in 1 .. n /\ p \in 1 .. n
    BY <1>1
  <2>2. path[p - 1] \in Indices /\ path[p] \in Indices
    BY <1>1, <2>1
  <2>3. Edge(p) \in Costs
    BY <2>2, EdgeFacts
  <2> QED
    BY <2>3, CostFacts
<1>4. 0 \in S
  <2>1. PICK first : first = EdgeCost(Start, NodeAt(path[1]))
    OBVIOUS
  <2>2. Row(1, [p \in 1 .. 1 |-> first])
    BY <1>2, <2>1
  <2> HIDE DEF Row
  <2>3. Row(0 + 1, [p \in 1 .. 1 |-> first])
    BY <2>2
  <2> QED
    BY <2>3
<1> HIDE DEF Edge
<1>5. ASSUME NEW m \in S
      PROVE  m + 1 \in S
  <2> HIDE DEF Row
  <2> SUFFICES ASSUME m + 2 <= n
               PROVE  \E part : Row(m + 2, part)
    <3>1. m \in Nat /\ m + 1 + 1 = m + 2
      BY <1>5
    <3> QED
      BY <3>1
  <2>1. m \in Nat /\ m + 1 <= n /\ m + 2 \in 2 .. n
    BY <1>1
  <2>2. PICK part : Row(m + 1, part)
    BY <2>1
  <2> USE DEF Row
  <2>3. PICK edge : edge = Edge(m + 2)
    OBVIOUS
  <2>4. edge \in Int /\ part[m + 1] \in Int
    BY <1>3, <2>1, <2>2, <2>3
  <2>5. PICK more :
          more = [p \in 1 .. m + 2 |-> IF p = m + 2 THEN part[m + 1] + edge ELSE part[p]]
    OBVIOUS
  <2>6. more \in [1 .. m + 2 -> Int]
    BY <2>1, <2>2, <2>4, <2>5
  <2>7. more[m + 2] = part[m + 1] + edge /\ \A p \in 1 .. m + 1 : more[p] = part[p]
    BY <2>1, <2>5
  <2>8. /\ more[1] = part[1] /\ more[m + 2] = more[m + 1] + Edge(m + 2)
        /\ \A p \in 2 .. m + 1 : more[p] = more[p - 1] + Edge(p)
    BY <2>1, <2>2, <2>3, <2>7
  <2>9. \A p \in 2 .. m + 2 : p \in 2 .. m + 1 \/ (p = m + 2 /\ p - 1 = m + 1)
    BY <2>1
  <2>10. Row(m + 2, more)
    BY <2>2, <2>6, <2>8, <2>9
  <2> QED
    BY <2>10
<1>6. S \in SUBSET Nat
  OBVIOUS
<1> HIDE DEF S
<1>7. S = Nat
  BY <1>4, <1>5, <1>6, SetInduction
<1>8. n - 1 \in S /\ n - 1 + 1 = n
  BY <1>1, <1>7
<1>9. \E part : Row(n, part)
  <2> HIDE DEF Row
  <2> QED
    BY <1>1, <1>8 DEF S
<1> QED
  BY <1>9 DEF AreParts, Edge

(* ... and PathCost is the last of them. *)
LEMMA PathCostIsPart ==
  ASSUME NEW path \in Seq(Indices), path # <<>>, NEW part, AreParts(path, part)
  PROVE  PathCost(path) = part[Len(path)]
<1> DEFINE IsCost(t) ==
             t = [p \in 1 .. Len(path) |->
                    IF p = 1 THEN EdgeCost(Start, NodeAt(path[1]))
                    ELSE t[p - 1] + EdgeCost(NodeAt(path[p - 1]), NodeAt(path[p]))]
           cost == CHOOSE t : IsCost(t)
<1>1. Len(path) \in Nat /\ Len(path) > 0
  OBVIOUS
<1>2. IsCost(part)
  <2>1. \A p \in 1 .. Len(path) :
          part[p] = IF p = 1 THEN EdgeCost(Start, NodeAt(path[1]))
                    ELSE part[p - 1] + EdgeCost(NodeAt(path[p - 1]), NodeAt(path[p]))
    <3>1. \A p \in 1 .. Len(path) : p = 1 \/ p \in 2 .. Len(path)
      BY <1>1
    <3> QED
      BY <3>1 DEF AreParts
  <2>2. part \in [1 .. Len(path) -> Int]
    BY DEF AreParts
  <2> QED
    BY <2>1, <2>2
<1>3. PathCost(path) = cost[Len(path)]
  BY DEF PathCost
<1>4. IsCost(cost)
  <2> HIDE DEF IsCost
  <2> QED
    BY <1>2
<1>5. /\ cost[1] = EdgeCost(Start, NodeAt(path[1]))
      /\ \A p \in 2 .. Len(path) :
           cost[p] = cost[p - 1] + EdgeCost(NodeAt(path[p - 1]), NodeAt(path[p]))
  <2> HIDE DEF cost
  <2> QED
    BY <1>1, <1>4
<1> HIDE DEF cost
<1> DEFINE T == {m \in Nat : m + 1 <= Len(path) => cost[m + 1] = part[m + 1]}
<1>6. 0 \in T
  BY <1>5 DEF AreParts
<1>7. ASSUME NEW m \in T
      PROVE  m + 1 \in T
  <2> SUFFICES ASSUME m + 2 <= Len(path)
               PROVE  cost[m + 2] = part[m + 2]
    OBVIOUS
  <2>1. m + 2 \in 2 .. Len(path) /\ cost[m + 1] = part[m + 1] /\ m + 2 - 1 = m + 1
    BY <1>1
  <2> QED
    BY <1>5, <2>1 DEF AreParts
<1>8. T \in SUBSET Nat
  OBVIOUS
<1> HIDE DEF T
<1>9. T = Nat
  BY <1>6, <1>7, <1>8, SetInduction
<1>10. Len(path) - 1 \in T /\ Len(path) - 1 + 1 = Len(path)
  BY <1>1, <1>9
<1>11. cost[Len(path)] = part[Len(path)]
  BY <1>1, <1>10 DEF T
<1> QED
  BY <1>3, <1>11

(* A path of one index costs its edge, a longer one what its front costs   *)
(* and one edge more.                                                      *)
LEMMA PathCostGrows ==
  ASSUME Inputs, problem.size > 1, NEW path \in Seq(Indices), path # <<>>
  PROVE  /\ PathCost(path) \in Int
         /\ Len(path) = 1 => PathCost(path) = EdgeCost(Start, NodeAt(path[1]))
         /\ \A front \in Seq(Indices) :
              /\ Len(path) = Len(front) + 1
              /\ front # <<>>
              /\ \A p \in 1 .. Len(front) : front[p] = path[p]
              => PathCost(path) =
                   PathCost(front)
                     + EdgeCost(NodeAt(path[Len(path) - 1]), NodeAt(path[Len(path)]))
<1>1. PICK part : AreParts(path, part)
  BY PartsExist
<1>2. PathCost(path) = part[Len(path)] /\ Len(path) \in Nat /\ Len(path) > 0
  BY <1>1, PathCostIsPart
<1>3. PathCost(path) \in Int
  BY <1>1, <1>2 DEF AreParts
<1>4. ASSUME Len(path) = 1
      PROVE  PathCost(path) = EdgeCost(Start, NodeAt(path[1]))
  BY <1>1, <1>2, <1>4 DEF AreParts
<1>5. ASSUME NEW front \in Seq(Indices), Len(path) = Len(front) + 1, front # <<>>,
             \A p \in 1 .. Len(front) : front[p] = path[p]
      PROVE  PathCost(path) =
               PathCost(front)
                 + EdgeCost(NodeAt(path[Len(path) - 1]), NodeAt(path[Len(path)]))
  <2> DEFINE n == Len(front)
  <2>1. n \in Nat /\ n > 0 /\ Len(path) = n + 1
    BY <1>5
  <2>2. PICK less : less = [p \in 1 .. n |-> part[p]]
    OBVIOUS
  <2>3. /\ part \in [1 .. n + 1 -> Int]
        /\ part[1] = EdgeCost(Start, NodeAt(path[1]))
        /\ \A p \in 2 .. n + 1 :
             part[p] = part[p - 1] + EdgeCost(NodeAt(path[p - 1]), NodeAt(path[p]))
    BY <1>1, <2>1 DEF AreParts
  <2>4. less \in [1 .. n -> Int] /\ \A p \in 1 .. n : less[p] = part[p]
    BY <2>1, <2>2, <2>3
  <2>5. AreParts(front, less)
    <3>1. less[1] = EdgeCost(Start, NodeAt(front[1]))
      BY <1>5, <2>1, <2>3, <2>4
    <3>2. ASSUME NEW p \in 2 .. n
          PROVE  less[p] = less[p - 1] + EdgeCost(NodeAt(front[p - 1]), NodeAt(front[p]))
      <4>1. p \in 1 .. n /\ p - 1 \in 1 .. n /\ p \in 2 .. n + 1
        BY <2>1
      <4>2. front[p] = path[p] /\ front[p - 1] = path[p - 1]
        BY <1>5, <4>1
      <4> QED
        BY <2>3, <2>4, <4>1, <4>2
    <3> QED
      BY <2>4, <3>1, <3>2 DEF AreParts
  <2>6. PathCost(front) = part[n]
    <3>1. PathCost(front) = less[n]
      BY <1>5, <2>5, PathCostIsPart
    <3> QED
      BY <2>1, <2>4, <3>1
  <2>7. part[n + 1] = part[n] + EdgeCost(NodeAt(path[n]), NodeAt(path[n + 1]))
    BY <2>1, <2>3
  <2> QED
    BY <1>2, <2>1, <2>6, <2>7
<1> QED
  BY <1>3, <1>4, <1>5

(* How many members a mask has. *)
LEMMA MemberCounts ==
  ASSUME Inputs, problem.size > 1, NEW m \in Masks, NEW i \in Members(m)
  PROVE  /\ Members(m) \subseteq Indices
         /\ Cardinality(Members(m)) \in 1 .. problem.size - 1
         /\ Cardinality(Members(Without(m, i))) = Cardinality(Members(m)) - 1
         /\ Without(m, i) = 0 => Members(m) = {i} /\ Cardinality(Members(m)) = 1
<1>1. Members(m) \subseteq Indices /\ problem.size \in Nat
  BY InputsOK DEF Members
<1>2. IsFiniteSet(Indices) /\ Cardinality(Indices) = problem.size - 1
  BY MaskFacts
<1>3. /\ IsFiniteSet(Members(m)) /\ Cardinality(Members(m)) <= problem.size - 1
      /\ Cardinality(Members(m)) \in Nat
  BY <1>1, <1>2, FS_Subset, FS_CardinalityType
<1>4. Members(Without(m, i)) = Members(m) \ {i}
  BY WithoutFacts
<1>5. Cardinality(Members(m) \ {i}) = Cardinality(Members(m)) - 1
  BY <1>3, FS_RemoveElement
<1>6. IsFiniteSet(Members(m) \ {i}) /\ Cardinality(Members(m) \ {i}) \in Nat
  BY <1>3, FS_Subset, FS_CardinalityType
<1>7. ASSUME Without(m, i) = 0
      PROVE  Members(m) = {i} /\ Cardinality(Members(m)) = 1
  <2>1. Members(m) \ {i} = {}
    BY <1>4, <1>7, MaskFacts
  <2>2. Members(m) = {i}
    BY <2>1
  <2> QED
    BY <1>3, <1>5, <1>6, <2>1, FS_EmptySet
<1> QED
  BY <1>1, <1>3, <1>4, <1>5, <1>6, <1>7

(* What a path is. *)
LEMMA PathFacts ==
  ASSUME Inputs, problem.size > 1, NEW m \in Masks, NEW i \in Members(m), NEW path
  PROVE  path \in PathsTo(m, i) <=>
           /\ path \in Seq(Indices) /\ path # <<>>
           /\ Len(path) = Cardinality(Members(m))
           /\ \A p \in 1 .. Len(path) : path[p] \in Members(m)
           /\ path[Len(path)] = i
           /\ \A p, q \in 1 .. Len(path) : path[p] = path[q] => p = q
<1> DEFINE n == Cardinality(Members(m))
<1>1. n \in Nat /\ n > 0 /\ Members(m) \subseteq Indices
  BY MemberCounts, InputsOK
<1>2. path \in PathsTo(m, i) <=>
        /\ path \in [1 .. n -> Members(m)]
        /\ path[n] = i
        /\ \A p, q \in 1 .. n : path[p] = path[q] => p = q
  BY DEF PathsTo
<1> HIDE DEF n
<1>3. ASSUME path \in [1 .. n -> Members(m)]
      PROVE  /\ path \in Seq(Indices) /\ path # <<>> /\ Len(path) = n
             /\ \A p \in 1 .. n : path[p] \in Members(m)
  BY <1>1, <1>3
<1>4. ASSUME path \in Seq(Indices), Len(path) = n, \A p \in 1 .. n : path[p] \in Members(m)
      PROVE  path \in [1 .. n -> Members(m)]
  BY <1>1, <1>4
<1> QED
  BY <1>2, <1>3, <1>4 DEF n

(* There is one path to the only member of a mask. *)
LEMMA OnlyPath ==
  ASSUME Inputs, problem.size > 1, NEW m \in Masks, NEW i \in Members(m),
         Without(m, i) = 0
  PROVE  /\ \E path \in PathsTo(m, i) : TRUE
         /\ \A path \in PathsTo(m, i) : PathCost(path) = EdgeCost(Start, NodeAt(i))
<1>1. Members(m) = {i} /\ Cardinality(Members(m)) = 1 /\ i \in Indices
  BY MemberCounts
<1>2. <<i>> \in PathsTo(m, i)
  <2>1. /\ <<i>> \in Seq(Indices) /\ <<i>> # <<>> /\ Len(<<i>>) = 1
        /\ \A p \in 1 .. 1 : <<i>>[p] \in {i}
        /\ <<i>>[1] = i
        /\ \A p, q \in 1 .. 1 : <<i>>[p] = <<i>>[q] => p = q
    BY <1>1
  <2> QED
    BY <1>1, <2>1, PathFacts
<1>3. ASSUME NEW path \in PathsTo(m, i)
      PROVE  PathCost(path) = EdgeCost(Start, NodeAt(i))
  <2>1. /\ path \in Seq(Indices) /\ path # <<>> /\ path[Len(path)] = i
        /\ Len(path) = Cardinality(Members(m))
    BY PathFacts
  <2>2. Len(path) = 1 /\ path[1] = i
    BY <1>1, <2>1
  <2> QED
    BY <2>1, <2>2, PathCostGrows
<1> QED
  BY <1>2, <1>3

(* A path to another member goes on to the last. *)
LEMMA Extended ==
  ASSUME Inputs, problem.size > 1, NEW m \in Masks, NEW i \in Members(m),
         Without(m, i) # 0, NEW j \in Members(Without(m, i)),
         NEW front \in PathsTo(Without(m, i), j)
  PROVE  \E path \in PathsTo(m, i) :
           PathCost(path) = PathCost(front) + EdgeCost(NodeAt(j), NodeAt(i))
<1> DEFINE n == Cardinality(Members(Without(m, i)))
<1>1. /\ n \in Nat /\ n > 0 /\ Cardinality(Members(m)) = n + 1
      /\ Members(m) \subseteq Indices /\ i \in Indices
      /\ Without(m, i) \in Masks /\ Members(Without(m, i)) = Members(m) \ {i}
  <2>1. /\ Without(m, i) \in Masks /\ i \in Indices
        /\ Members(Without(m, i)) = Members(m) \ {i}
    BY WithoutFacts
  <2>2. n \in Nat /\ n > 0
    <3>1. n \in 1 .. problem.size - 1
      BY <2>1, MemberCounts
    <3> QED
      BY <3>1, InputsOK
  <2>3. n = Cardinality(Members(m)) - 1 /\ Cardinality(Members(m)) \in Nat
    BY MemberCounts, InputsOK
  <2> QED
    BY <2>1, <2>2, <2>3, MemberCounts
<1>2. /\ front \in Seq(Indices) /\ front # <<>> /\ Len(front) = n /\ front[n] = j
      /\ \A p \in 1 .. n : front[p] \in Members(m) \ {i}
      /\ \A p, q \in 1 .. n : front[p] = front[q] => p = q
  <2>1. PICK w : w = Without(m, i)
    OBVIOUS
  <2>2. w \in Masks /\ j \in Members(w) /\ front \in PathsTo(w, j)
    BY <1>1, <2>1
  <2>3. /\ front \in Seq(Indices) /\ front # <<>> /\ Len(front) = Cardinality(Members(w))
        /\ front[Len(front)] = j
        /\ \A p \in 1 .. Len(front) : front[p] \in Members(w)
        /\ \A p, q \in 1 .. Len(front) : front[p] = front[q] => p = q
    BY <2>2, PathFacts
  <2> QED
    BY <1>1, <2>1, <2>3
<1> HIDE DEF n
<1>3. PICK path : path = Append(front, i)
  OBVIOUS
<1>4. /\ path \in Seq(Indices) /\ path # <<>> /\ Len(path) = n + 1
      /\ path[n + 1] = i /\ \A p \in 1 .. n : path[p] = front[p]
  BY <1>1, <1>2, <1>3
<1>5. \A p \in 1 .. n + 1 : p \in 1 .. n \/ p = n + 1
  BY <1>1
<1>6. path \in PathsTo(m, i)
  <2>1. \A p \in 1 .. n + 1 : path[p] \in Members(m)
    BY <1>2, <1>4, <1>5
  <2>2. \A p, q \in 1 .. n + 1 : path[p] = path[q] => p = q
    BY <1>2, <1>4, <1>5
  <2> QED
    BY <1>1, <1>4, <2>1, <2>2, PathFacts
<1>7. PathCost(path) =
        PathCost(front) + EdgeCost(NodeAt(path[Len(path) - 1]), NodeAt(path[Len(path)]))
  BY <1>1, <1>2, <1>4, PathCostGrows
<1>8. path[Len(path) - 1] = j /\ path[Len(path)] = i
  BY <1>1, <1>2, <1>4
<1> QED
  BY <1>6, <1>7, <1>8

(* A path of several nodes comes from one to its last but one. *)
LEMMA Shortened ==
  ASSUME Inputs, problem.size > 1, NEW m \in Masks, NEW i \in Members(m),
         Without(m, i) # 0, NEW path \in PathsTo(m, i)
  PROVE  \E j \in Members(Without(m, i)) : \E front \in PathsTo(Without(m, i), j) :
           PathCost(path) = PathCost(front) + EdgeCost(NodeAt(j), NodeAt(i))
<1> DEFINE n == Cardinality(Members(Without(m, i)))
<1>1. /\ n \in Nat /\ n > 0 /\ Cardinality(Members(m)) = n + 1
      /\ Members(m) \subseteq Indices
      /\ Without(m, i) \in Masks /\ Members(Without(m, i)) = Members(m) \ {i}
  <2>1. /\ Without(m, i) \in Masks /\ Members(Without(m, i)) = Members(m) \ {i}
        /\ Members(Without(m, i)) # {}
    BY WithoutFacts
  <2>2. n \in Nat /\ n > 0
    <3>1. PICK k : k \in Members(Without(m, i))
      BY <2>1
    <3>2. n \in 1 .. problem.size - 1
      BY <2>1, <3>1, MemberCounts
    <3> QED
      BY <3>2, InputsOK
  <2>3. n = Cardinality(Members(m)) - 1 /\ Cardinality(Members(m)) \in Nat
    BY MemberCounts, InputsOK
  <2> QED
    BY <2>1, <2>2, <2>3, MemberCounts
<1> HIDE DEF n
<1>2. /\ path \in Seq(Indices) /\ path # <<>> /\ Len(path) = n + 1 /\ path[n + 1] = i
      /\ \A p \in 1 .. n + 1 : path[p] \in Members(m)
      /\ \A p, q \in 1 .. n + 1 : path[p] = path[q] => p = q
  BY <1>1, PathFacts
<1>3. PICK front : front = [p \in 1 .. n |-> path[p]]
  OBVIOUS
<1>4. \A p \in 1 .. n : p \in 1 .. n + 1 /\ p # n + 1
  BY <1>1
<1>5. \A p \in 1 .. n : path[p] \in Members(m) \ {i}
  BY <1>1, <1>2, <1>4
<1>6. /\ front \in Seq(Indices) /\ front # <<>> /\ Len(front) = n
      /\ \A p \in 1 .. n : front[p] = path[p]
  BY <1>1, <1>3, <1>5
<1>7. PICK j : j = path[n]
  OBVIOUS
<1>8. j \in Members(Without(m, i)) /\ front[n] = j
  BY <1>1, <1>5, <1>6, <1>7
<1>9. front \in PathsTo(Without(m, i), j)
  <2>1. Len(front) = Cardinality(Members(Without(m, i)))
    BY <1>6 DEF n
  <2>2. \A p, q \in 1 .. n : front[p] = front[q] => p = q
    BY <1>2, <1>4, <1>6
  <2>3. \A p \in 1 .. n : front[p] \in Members(Without(m, i))
    BY <1>1, <1>5, <1>6
  <2> QED
    BY <1>1, <1>6, <1>8, <2>1, <2>2, <2>3, PathFacts
<1>10. PathCost(path) =
         PathCost(front) + EdgeCost(NodeAt(path[Len(path) - 1]), NodeAt(path[Len(path)]))
  BY <1>1, <1>2, <1>6, PathCostGrows
<1>11. path[Len(path) - 1] = j /\ path[Len(path)] = i
  BY <1>1, <1>2, <1>7
<1> QED
  BY <1>8, <1>9, <1>10, <1>11

(***************************************************************************)
(* With small distances the cells passed hold the costs of shortest paths. *)
(***************************************************************************)
IsShortest(m, i, cost) ==
  /\ -(Cardinality(Members(m)) * Bound) <= cost
  /\ cost <= Cardinality(Members(m)) * Bound
  /\ \E path \in PathsTo(m, i) : cost = PathCost(path)
  /\ \A path \in PathsTo(m, i) : cost <= PathCost(path)

(* None of this changes with the tables. *)
LEMMA SamePaths ==
  ASSUME UNCHANGED inputs
  PROVE  /\ \A m, i, cost : IsShortest(m, i, cost)' <=> IsShortest(m, i, cost)
         /\ SmallDistances' <=> SmallDistances
         /\ problem' = problem /\ Masks' = Masks /\ Indices' = Indices
         /\ FullMask' = FullMask
         /\ \A m : Members(m)' = Members(m)
         /\ \A i : NodeAt(i)' = NodeAt(i) /\ Start' = Start
         /\ \A from, to : EdgeCost(from, to)' = EdgeCost(from, to)
<1>1. problem' = problem /\ start_node' = start_node
  BY DEF inputs
<1>2. /\ Masks' = Masks /\ Indices' = Indices /\ FullMask' = FullMask /\ Start' = Start
      /\ Bound' = Bound
  BY <1>1 DEF Masks, Indices, FullMask, Start, Bound
<1>3. /\ \A m : Members(m)' = Members(m)
      /\ \A i : NodeAt(i)' = NodeAt(i)
      /\ \A from, to : EdgeCost(from, to)' = EdgeCost(from, to)
  BY <1>1, <1>2 DEF Members, NodeAt, EdgeCost
<1>4. SmallDistances' <=> SmallDistances
  BY <1>1 DEF SmallDistances
<1>5. \A path : PathCost(path)' = PathCost(path)
  BY <1>1 DEF PathCost, EdgeCost, NodeAt, Start
<1>6. \A m, i : PathsTo(m, i)' = PathsTo(m, i)
  BY <1>3 DEF PathsTo
<1>7. \A m, i, cost : IsShortest(m, i, cost)' <=> IsShortest(m, i, cost)
  BY <1>2, <1>3, <1>5, <1>6 DEF IsShortest
<1> QED
  BY <1>1, <1>2, <1>3, <1>4, <1>7

(* An edge costs no more than the bound, in either direction. *)
LEMMA SmallEdges ==
  ASSUME Inputs, problem.size > 1, SmallDistances, NEW i \in Indices
  PROVE  /\ EdgeCost(Start, NodeAt(i)) \in -Bound .. Bound
         /\ EdgeCost(NodeAt(i), Start) \in -Bound .. Bound
         /\ \A j \in Indices : EdgeCost(NodeAt(j), NodeAt(i)) \in -Bound .. Bound
<1>1. Start \in Nodes(problem) /\ \A j \in Indices : NodeAt(j) \in Nodes(problem)
  BY InputsOK, IndexFacts
<1>2. \A from, to \in Nodes(problem) : Distance(problem, from, to) \in -Bound .. Bound
  <2>1. problem.size > 0
    BY InputsOK
  <2> QED
    BY <2>1, BoundFacts
<1> QED
  BY <1>1, <1>2 DEF EdgeCost

(* The cells of one node are the edges from the start. *)
LEMMA EdgeIsShortest ==
  ASSUME Inputs, problem.size > 1, SmallDistances, NEW m \in Masks, NEW i \in Members(m),
         Without(m, i) = 0
  PROVE  IsShortest(m, i, EdgeCost(Start, NodeAt(i)))
<1>1. i \in Indices /\ Cardinality(Members(m)) = 1
  BY MemberCounts
<1>2. EdgeCost(Start, NodeAt(i)) \in -Bound .. Bound /\ Bound \in Nat
  <2>1. problem.size > 0
    BY InputsOK
  <2> QED
    BY <1>1, <2>1, SmallEdges, BoundFacts
<1>3. /\ -(1 * Bound) <= EdgeCost(Start, NodeAt(i))
      /\ EdgeCost(Start, NodeAt(i)) <= 1 * Bound
      /\ EdgeCost(Start, NodeAt(i)) \in Int
  BY <1>2
<1>4. /\ \E path \in PathsTo(m, i) : PathCost(path) = EdgeCost(Start, NodeAt(i))
      /\ \A path \in PathsTo(m, i) : PathCost(path) = EdgeCost(Start, NodeAt(i))
  BY OnlyPath
<1> QED
  BY <1>1, <1>3, <1>4 DEF IsShortest

(* A shortest path over a mask, with one edge more, is within the bounds   *)
(* of the next mask: it neither wraps nor reaches kInf.                    *)
LEMMA ShortestIsSmall ==
  ASSUME Inputs, problem.size > 1, SmallDistances, NEW m \in Masks, NEW i \in Members(m),
         NEW cost \in Int, IsShortest(m, i, cost), NEW edge \in -Bound .. Bound
  PROVE  /\ cost < kInf
         /\ Wrap(cost + edge) = cost + edge /\ cost + edge < kInf
         /\ -((Cardinality(Members(m)) + 1) * Bound) <= cost + edge
         /\ cost + edge <= (Cardinality(Members(m)) + 1) * Bound
<1>1. PICK n, most : n = Cardinality(Members(m)) /\ most = n * Bound
  OBVIOUS
<1>2. n \in 1 .. problem.size - 1 /\ problem.size \in Nat
  BY <1>1, MemberCounts, InputsOK
<1>3. n \in Nat /\ n <= problem.size /\ n + 1 \in Nat /\ n + 1 <= problem.size
  BY <1>2
<1>4. /\ most \in Nat /\ most < kInf /\ (n + 1) * Bound = most + Bound
      /\ (n + 1) * Bound \in Nat /\ (n + 1) * Bound < kInf /\ Bound \in Nat
  BY <1>1, <1>2, <1>3, BoundFacts
<1>5. -most <= cost /\ cost <= most
  BY <1>1 DEF IsShortest
<1>6. PICK more : more = (n + 1) * Bound
  OBVIOUS
<1>7. more \in Nat /\ more < kInf /\ -more <= cost + edge /\ cost + edge <= more
      /\ cost + edge \in Int /\ kInf \in Int
  BY <1>4, <1>5, <1>6, CostFacts
<1>8. Wrap(cost + edge) = cost + edge /\ cost + edge < kInf
  BY <1>7, SmallSum
<1>9. cost < kInf
  BY <1>4, <1>5, <1>7
<1> QED
  BY <1>1, <1>6, <1>7, <1>8, <1>9

(* The cells the loop has passed. *)
Passed(m, i) == m < mask \/ (m = mask /\ i < last)

Shortest ==
  pc = "fill" /\ SmallDistances =>
    \A m \in Masks : \A i \in Members(m) : Passed(m, i) => IsShortest(m, i, dp[m][i])

(* So every member of the mask without the last is a predecessor, by a sum *)
(* that is exact.                                                          *)
LEMMA AllArePredecessors ==
  ASSUME IInv, Shortest, SmallDistances, pc = "fill", mask \in Masks, HasPredecessors,
         NEW j \in Members(Without(mask, last))
  PROVE  /\ Without(mask, last) \in Masks
         /\ IsShortest(Without(mask, last), j, dp[Without(mask, last)][j])
         /\ dp[Without(mask, last)][j] \in Int
         /\ j \in Predecessors
         /\ CostVia(j) = dp[Without(mask, last)][j] + EdgeCost(NodeAt(j), NodeAt(last))
         /\ CostVia(j) \in Int
         /\ -(Cardinality(Members(mask)) * Bound) <= CostVia(j)
         /\ CostVia(j) <= Cardinality(Members(mask)) * Bound
<1>1. PICK w : w = Without(mask, last)
  OBVIOUS
<1>2. /\ Inputs /\ problem.size > 1 /\ Tables /\ last \in Members(mask)
      /\ last \in Indices
  BY DEF IInv, InTables, HasPredecessors
<1>3. w \in Masks /\ w < mask /\ j \in Members(w) /\ j \in Indices
  BY <1>1, <1>2, WithoutFacts, MemberCounts DEF Members
<1>4. dp[w][j] \in Int
  BY <1>2, <1>3, CostFacts DEF Tables
<1>5. IsShortest(w, j, dp[w][j])
  BY <1>3 DEF Shortest, Passed
<1>6. EdgeCost(NodeAt(j), NodeAt(last)) \in -Bound .. Bound
  BY <1>2, <1>3, SmallEdges
<1>7. PICK edge : edge = EdgeCost(NodeAt(j), NodeAt(last))
  OBVIOUS
<1>8. edge \in Int
  BY <1>2, <1>6, <1>7, BoundFacts
<1>9. /\ dp[w][j] < kInf /\ Wrap(dp[w][j] + edge) = dp[w][j] + edge
      /\ dp[w][j] + edge < kInf
      /\ -((Cardinality(Members(w)) + 1) * Bound) <= dp[w][j] + edge
      /\ dp[w][j] + edge <= (Cardinality(Members(w)) + 1) * Bound
  BY <1>2, <1>3, <1>4, <1>5, <1>6, <1>7, ShortestIsSmall
<1>10. CostVia(j) = dp[w][j] + edge /\ CostVia(j) \in Int
  BY <1>1, <1>4, <1>7, <1>8, <1>9 DEF CostVia
<1>11. Cardinality(Members(w)) + 1 = Cardinality(Members(mask))
  BY <1>1, <1>2, MemberCounts, InputsOK
<1>12. kInf \in Int
  BY CostFacts
<1>13. j \in Predecessors
  BY <1>1, <1>3, <1>4, <1>9, <1>10, <1>12 DEF Predecessors
<1> QED
  BY <1>1, <1>3, <1>4, <1>5, <1>7, <1>9, <1>10, <1>11, <1>13

(* A step passes no other cell than the one in turn. *)
LEMMA PassesOne ==
  ASSUME IInv, pc = "fill", mask \in Masks, NextCell, NEW m \in Masks, NEW i \in Indices,
         Passed(m, i)'
  PROVE  Passed(m, i) \/ (m = mask /\ i = last)
<1>1. /\ Inputs /\ problem.size > 1 /\ last \in Indices /\ problem.size \in Nat
  BY InputsOK DEF IInv, InTables
<1>2. mask \in Nat /\ m \in Nat
  BY <1>1, MaskFacts
<1>3. last \in 0 .. problem.size - 2 /\ i \in 0 .. problem.size - 2
  BY <1>1 DEF Indices
<1>4. m < mask' \/ (m = mask' /\ i < last')
  BY DEF Passed
<1>5. CASE last + 1 \in Indices
  BY <1>2, <1>3, <1>4, <1>5 DEF NextCell, Passed
<1>6. CASE last + 1 \notin Indices
  <2>1. last = problem.size - 2
    BY <1>1, <1>3, <1>6 DEF Indices
  <2> QED
    BY <1>1, <1>2, <1>3, <1>4, <1>6, <2>1 DEF NextCell, Passed
<1> QED
  BY <1>5, <1>6

(* Nothing is passed at the start but cells of no member. *)
LEMMA InitShortest == Init => Shortest
<1> SUFFICES ASSUME Init, pc = "fill", NEW m \in Masks, NEW i \in Members(m), Passed(m, i)
             PROVE  FALSE
  BY DEF Shortest
<1>1. IInv /\ mask = 1 /\ last = 0
  BY InitIInv DEF Init
<1>2. Inputs /\ problem.size > 1
  BY <1>1 DEF IInv, InTables
<1>3. m \in Nat /\ m > 0 /\ i \in Nat
  BY <1>2, MaskFacts, WithoutFacts
<1> QED
  BY <1>1, <1>3 DEF Passed

(* A cell skipped is an edge from the start, or none of its mask. *)
LEMMA SkipCellShortest ==
  ASSUME IInv, Shortest, SkipCell
  PROVE  Shortest'
<1>1. /\ pc = "fill" /\ mask \in Masks /\ ~HasPredecessors /\ NextCell
      /\ UNCHANGED inputs /\ dp' = dp
  BY DEF SkipCell
<1>2. Inputs /\ problem.size > 1 /\ last \in Indices
  BY <1>1 DEF IInv, InTables
<1> SUFFICES ASSUME SmallDistances, NEW m \in Masks, NEW i \in Members(m), Passed(m, i)'
             PROVE  IsShortest(m, i, dp[m][i])
  BY <1>1, SamePaths DEF Shortest
<1>3. i \in Indices
  BY DEF Members
<1>4. CASE Passed(m, i)
  BY <1>1, <1>4 DEF Shortest
<1>5. CASE m = mask /\ i = last
  <2>1. Without(m, i) = 0
    BY <1>1, <1>5 DEF HasPredecessors
  <2>2. m = Power[i]
    BY <1>2, <2>1, WithoutFacts
  <2>3. dp[m][i] = Singletons[m][i]
    <3>1. Untouched(m, i) /\ i \in Nat
      BY <1>1, <1>2, <1>3, MaskFacts DEF IInv, Filling
    <3> QED
      BY <1>5, <3>1 DEF Untouched
  <2>4. dp[m][i] = EdgeCost(Start, NodeAt(i))
    BY <1>2, <1>3, <2>2, <2>3, SingletonFacts
  <2> QED
    BY <1>2, <2>1, <2>4, EdgeIsShortest
<1> QED
  BY <1>1, <1>3, <1>4, <1>5, PassesOne

(* The cheapest of the sums is what the cheapest path costs: it extends a  *)
(* path, and every path comes from one that was compared.                  *)
LEMMA BestIsShortest ==
  ASSUME IInv, Shortest, SmallDistances, pc = "fill", mask \in Masks, HasPredecessors,
         NEW best \in Predecessors, \A p \in Predecessors : CostVia(best) <= CostVia(p)
  PROVE  IsShortest(mask, last, CostVia(best))
<1>1. PICK w : w = Without(mask, last)
  OBVIOUS
<1>2. /\ Inputs /\ problem.size > 1 /\ last \in Members(mask) /\ w # 0
      /\ best \in Members(w)
  BY <1>1 DEF IInv, InTables, HasPredecessors, Predecessors
<1>3. /\ w \in Masks
      /\ \A j \in Members(w) :
           /\ IsShortest(w, j, dp[w][j]) /\ dp[w][j] \in Int
           /\ j \in Predecessors
           /\ CostVia(j) = dp[w][j] + EdgeCost(NodeAt(j), NodeAt(last))
           /\ CostVia(j) \in Int
           /\ -(Cardinality(Members(mask)) * Bound) <= CostVia(j)
           /\ CostVia(j) <= Cardinality(Members(mask)) * Bound
  BY <1>1, <1>2, AllArePredecessors, WithoutFacts
<1>4. \E path \in PathsTo(mask, last) : CostVia(best) = PathCost(path)
  <2>1. PICK front \in PathsTo(w, best) : dp[w][best] = PathCost(front)
    BY <1>2, <1>3 DEF IsShortest
  <2>2. PICK path \in PathsTo(mask, last) :
          PathCost(path) = PathCost(front) + EdgeCost(NodeAt(best), NodeAt(last))
    BY <1>1, <1>2, <2>1, Extended
  <2> QED
    BY <1>2, <1>3, <2>1, <2>2
<1>5. ASSUME NEW path \in PathsTo(mask, last)
      PROVE  CostVia(best) <= PathCost(path)
  <2>1. PICK j \in Members(w) : \E front \in PathsTo(w, j) :
          PathCost(path) = PathCost(front) + EdgeCost(NodeAt(j), NodeAt(last))
    BY <1>1, <1>2, Shortened
  <2>2. PICK front \in PathsTo(w, j) :
          PathCost(path) = PathCost(front) + EdgeCost(NodeAt(j), NodeAt(last))
    BY <2>1
  <2>3. dp[w][j] <= PathCost(front)
    BY <1>3, <2>2 DEF IsShortest
  <2>4. PathCost(front) \in Int
    BY <1>2, <1>3, <2>1, <2>2, PathFacts, PathCostGrows
  <2>5. EdgeCost(NodeAt(j), NodeAt(last)) \in Int
    <3>1. j \in Indices /\ last \in Indices
      BY <1>2 DEF Members
    <3> QED
      BY <1>2, <3>1, EdgeFacts, CostFacts
  <2>6. CostVia(best) <= CostVia(j)
    BY <1>3, <2>1
  <2>7. PICK edge : edge = EdgeCost(NodeAt(j), NodeAt(last))
    OBVIOUS
  <2>8. /\ edge \in Int /\ dp[w][j] \in Int /\ CostVia(best) \in Int
        /\ CostVia(best) <= dp[w][j] + edge
    BY <1>2, <1>3, <2>1, <2>5, <2>6, <2>7
  <2> QED
    BY <2>2, <2>3, <2>4, <2>7, <2>8
<1> QED
  BY <1>2, <1>3, <1>4, <1>5 DEF IsShortest

(* A cell filled holds that sum; the others are as they were. *)
LEMMA FillCellShortest ==
  ASSUME IInv, Shortest, FillCell
  PROVE  Shortest'
<1>1. /\ pc = "fill" /\ mask \in Masks /\ HasPredecessors /\ NextCell
      /\ UNCHANGED inputs
  BY DEF FillCell
<1>2. /\ Inputs /\ problem.size > 1 /\ last \in Indices /\ Tables
      /\ last \in Members(mask) /\ Without(mask, last) # 0
  BY <1>1 DEF IInv, InTables, HasPredecessors
<1> SUFFICES ASSUME SmallDistances, NEW m \in Masks, NEW i \in Members(m), Passed(m, i)'
             PROVE  IsShortest(m, i, dp'[m][i])
  BY <1>1, SamePaths DEF Shortest
<1>3. i \in Indices
  BY DEF Members
<1>4. PICK j : j \in Members(Without(mask, last))
  BY <1>1, <1>2, WithoutFacts
<1>5. j \in Predecessors
  BY <1>1, <1>4, AllArePredecessors
<1>6. PICK best \in Predecessors :
        /\ dp' = [dp EXCEPT ![mask][last] = CostVia(best)]
        /\ \A p \in Predecessors : CostVia(best) <= CostVia(p)
  BY <1>1, <1>5, BestPredecessor DEF FillCell
<1>7. IF m = mask /\ i = last THEN dp'[m][i] = CostVia(best) ELSE dp'[m][i] = dp[m][i]
  BY <1>1, <1>2, <1>3, <1>6 DEF Tables
<1>8. CASE m = mask /\ i = last
  BY <1>1, <1>6, <1>7, <1>8, BestIsShortest
<1>9. CASE ~(m = mask /\ i = last)
  <2>1. Passed(m, i)
    BY <1>1, <1>3, <1>9, PassesOne
  <2> QED
    BY <1>1, <1>7, <1>9, <2>1 DEF Shortest
<1> QED
  BY <1>8, <1>9

(* Every step passes a cell whose cost is then a shortest path's, or ends  *)
(* the filling.                                                            *)
LEMMA NextShortest == IInv /\ Shortest /\ [Next]_vars => Shortest'
<1> SUFFICES ASSUME IInv, Shortest, [Next]_vars
             PROVE  Shortest'
  OBVIOUS
<1>1. CASE Close \/ NoTour \/ TraceBack \/ Finish
  BY <1>1 DEF Close, NoTour, TraceBack, Finish, Shortest
<1>2. CASE UNCHANGED vars
  <2>1. UNCHANGED inputs /\ UNCHANGED <<dp, mask, last, pc>>
    BY <1>2 DEF vars, inputs
  <2> QED
    BY <2>1, SamePaths DEF Shortest, Passed
<1> QED
  BY <1>1, <1>2, SkipCellShortest, FillCellShortest DEF Next

(* A cell the loop has passed holds the cost of the cheapest path it       *)
(* stands for, for every number of nodes and every distances that are      *)
(* small.                                                                  *)
THEOREM CellsExact == Spec => []CellsAreShortestPaths
<1>1. ASSUME IInv, Shortest
      PROVE  CellsAreShortestPaths
  <2> SUFFICES ASSUME pc = "fill", SmallDistances,
                      NEW m \in 1 .. mask - 1, NEW i \in Members(m)
               PROVE  dp[m][i] = Min({PathCost(path) : path \in PathsTo(m, i)})
    BY DEF CellsAreShortestPaths
  <2>1. Inputs /\ problem.size > 1 /\ mask \in 1 .. FullMask + 1 /\ Tables
    BY <1>1 DEF IInv, InTables, Filling
  <2>2. FullMask \in Nat /\ Masks = 0 .. FullMask
    BY <2>1, MaskFacts DEF Masks
  <2>3. m \in Masks /\ m < mask
    BY <2>1, <2>2
  <2>4. IsShortest(m, i, dp[m][i])
    BY <1>1, <2>3 DEF Shortest, Passed
  <2> DEFINE costs == {PathCost(path) : path \in PathsTo(m, i)}
  <2>5. \A path \in PathsTo(m, i) : PathCost(path) \in Int
    BY <2>1, <2>3, PathFacts, PathCostGrows
  <2>6. dp[m][i] \in costs /\ \A cost \in costs : dp[m][i] <= cost
    BY <2>4 DEF IsShortest
  <2>7. costs \in SUBSET Int
    BY <2>5
  <2> HIDE DEF costs
  <2>8. Min(costs) \in costs /\ \A cost \in costs : Min(costs) <= cost
    BY <2>6, <2>7, LeastCost
  <2>9. PICK a, b : a = dp[m][i] /\ b = Min(costs)
    OBVIOUS
  <2>10. a \in Int /\ b \in Int
    BY <2>6, <2>7, <2>8, <2>9
  <2>11. a <= b /\ b <= a
    BY <2>6, <2>8, <2>9
  <2>12. a = b
    BY <2>10, <2>11
  <2> QED
    BY <2>9, <2>12 DEF costs
<1> QED
  BY <1>1, InitShortest, NextShortest, Invariance, PTL DEF Spec

(***************************************************************************)
(* Tours: a tour from the start is a path over all the indices, closed by  *)
(* an edge, and a tour from elsewhere is one from the start, turned.       *)
(***************************************************************************)
(* What a route is, as a sequence. *)
LEMMA RouteFacts ==
  ASSUME Inputs, problem.size > 0, NEW route \in Routes(problem)
  PROVE  /\ route \in Seq(Nodes(problem)) /\ Len(route) = problem.size
         /\ problem.size \in Nat
         /\ \A p, q \in 1 .. problem.size : route[p] = route[q] => p = q
<1>1. problem.size \in Nat
  BY InputsOK
<1> QED
  BY <1>1 DEF Routes

(* A tour from the start costs what its path costs and the edge back. *)
LEMMA RouteIsPath ==
  ASSUME Inputs, problem.size > 1, SmallDistances, NEW route \in Routes(problem),
         route[1] = Start
  PROVE  \E i \in Indices : \E path \in PathsTo(FullMask, i) :
           RouteCost(problem, route) = PathCost(path) + EdgeCost(NodeAt(i), Start)
<1>1. PICK n : n = problem.size
  OBVIOUS
<1>2. /\ n \in Nat /\ n > 1 /\ Len(route) = n /\ route \in Seq(Nodes(problem))
      /\ \A p, q \in 1 .. n : route[p] = route[q] => p = q
      /\ \A p \in 1 .. n : route[p] \in Nodes(problem)
  BY <1>1, RouteFacts, InputsOK
<1>3. ASSUME NEW p \in 2 .. n
      PROVE  /\ IndexOf(route[p]) \in Indices
             /\ NodeAt(IndexOf(route[p])) = route[p]
  <2>1. p \in 1 .. n /\ 1 \in 1 .. n /\ p # 1
    BY <1>2
  <2>2. route[p] \in Nodes(problem) \ {Start}
    BY <1>2, <2>1
  <2> QED
    BY <2>2, IndexFacts
<1>4. PICK path : path = [p \in 1 .. n - 1 |-> IndexOf(route[p + 1])]
  OBVIOUS
<1>5. \A p \in 1 .. n - 1 : p + 1 \in 2 .. n /\ p \in 1 .. n
  BY <1>2
<1>6. \A p \in 1 .. n - 1 : /\ path[p] \in Indices
                            /\ NodeAt(path[p]) = route[p + 1]
  BY <1>3, <1>4, <1>5
<1>7. path \in Seq(Indices) /\ path # <<>> /\ Len(path) = n - 1
  BY <1>2, <1>3, <1>4, <1>5
<1>8. PICK i : i = path[n - 1]
  OBVIOUS
<1>9. i \in Indices /\ NodeAt(i) = route[n]
  BY <1>2, <1>6, <1>8
<1>10. path \in PathsTo(FullMask, i)
  <2>1. /\ FullMask \in Masks /\ Members(FullMask) = Indices
        /\ Cardinality(Indices) = n - 1
    BY <1>1, MaskFacts
  <2>2. ASSUME NEW p \in 1 .. n - 1, NEW q \in 1 .. n - 1, path[p] = path[q]
        PROVE  p = q
    <3>1. route[p + 1] = route[q + 1] /\ p + 1 \in 1 .. n /\ q + 1 \in 1 .. n
      BY <1>2, <1>6, <2>2
    <3>2. p + 1 = q + 1
      BY <1>2, <3>1
    <3> QED
      BY <3>2
  <2>3. /\ FullMask \in Masks /\ i \in Members(FullMask)
        /\ Len(path) = Cardinality(Members(FullMask)) /\ path[Len(path)] = i
        /\ \A p \in 1 .. Len(path) : path[p] \in Members(FullMask)
        /\ \A p, q \in 1 .. Len(path) : path[p] = path[q] => p = q
    BY <1>6, <1>7, <1>8, <1>9, <2>1, <2>2
  <2> QED
    BY <1>7, <2>3, PathFacts
<1>11. PICK sum : AreSums(route, sum)
  BY <1>1, <1>2, SumsExist
<1>12. RouteCost(problem, route) = sum[n]
  BY <1>1, <1>2, <1>11, RouteCostIsSum
<1>13. /\ sum \in [0 .. n -> Int] /\ sum[0] = 0
       /\ \A p \in 1 .. n : sum[p] = sum[p - 1] + Hop(route, p)
  BY <1>2, <1>11 DEF AreSums
<1>14. /\ \A p \in 1 .. n - 1 : Hop(route, p) = EdgeCost(route[p], route[p + 1])
       /\ Hop(route, n) = EdgeCost(route[n], Start)
  BY <1>2 DEF Hop, After, EdgeCost
<1>15. PICK part : part = [p \in 1 .. n - 1 |-> sum[p]]
  OBVIOUS
<1>16. AreParts(path, part)
  <2>1. part \in [1 .. n - 1 -> Int] /\ \A p \in 1 .. n - 1 : part[p] = sum[p]
    BY <1>2, <1>13, <1>15
  <2>2. part[1] = EdgeCost(Start, NodeAt(path[1]))
    <3>1. 1 \in 1 .. n - 1 /\ 1 \in 1 .. n
      BY <1>2
    <3>2. sum[1] = Hop(route, 1) /\ Hop(route, 1) = EdgeCost(route[1], route[2])
      <4>1. Hop(route, 1) = EdgeCost(route[1], route[2])
        BY <1>14, <3>1
      <4>2. sum[1] = sum[0] + Hop(route, 1) /\ sum[1] \in Int
        BY <1>13, <3>1
      <4>3. Hop(route, 1) \in Int
        BY <1>1, <1>2, <3>1, HopFacts
      <4> QED
        BY <1>13, <4>1, <4>2, <4>3
    <3> QED
      BY <1>6, <2>1, <3>1, <3>2
  <2>3. ASSUME NEW p \in 2 .. n - 1
        PROVE  part[p] = part[p - 1] + EdgeCost(NodeAt(path[p - 1]), NodeAt(path[p]))
    <3>1. /\ p \in 1 .. n - 1 /\ p - 1 \in 1 .. n - 1 /\ p \in 1 .. n
          /\ p - 1 + 1 = p
      BY <1>2
    <3>2. NodeAt(path[p - 1]) = route[p] /\ NodeAt(path[p]) = route[p + 1]
      BY <1>6, <3>1
    <3>3. sum[p] = sum[p - 1] + Hop(route, p)
      BY <1>13, <3>1
    <3> QED
      BY <1>14, <2>1, <3>1, <3>2, <3>3
  <2> QED
    BY <1>7, <2>1, <2>2, <2>3 DEF AreParts
<1>17. PathCost(path) = sum[n - 1]
  <2>1. PathCost(path) = part[n - 1]
    BY <1>7, <1>16, PathCostIsPart
  <2> QED
    BY <1>2, <1>15, <2>1
<1>18. sum[n] = sum[n - 1] + EdgeCost(NodeAt(i), Start)
  BY <1>2, <1>9, <1>13, <1>14
<1> QED
  BY <1>9, <1>10, <1>12, <1>17, <1>18

(* A tour turned by one node is a tour of the same cost. *)
LEMMA Rotated ==
  ASSUME Inputs, problem.size > 1, SmallDistances, NEW route \in Routes(problem)
  PROVE  \E turned \in Routes(problem) :
           /\ RouteCost(problem, turned) = RouteCost(problem, route)
           /\ \A p \in 1 .. problem.size - 1 : turned[p] = route[p + 1]
<1>1. PICK n : n = problem.size
  OBVIOUS
<1>2. /\ n \in Nat /\ n > 1 /\ Len(route) = n /\ route \in Seq(Nodes(problem))
      /\ \A p, q \in 1 .. n : route[p] = route[q] => p = q
      /\ \A p \in 1 .. n : route[p] \in Nodes(problem)
  BY <1>1, RouteFacts, InputsOK
<1>3. PICK turned : turned = [p \in 1 .. n |-> IF p = n THEN route[1] ELSE route[p + 1]]
  OBVIOUS
<1>4. /\ \A p \in 1 .. n - 1 : turned[p] = route[p + 1]
      /\ turned[n] = route[1]
  BY <1>2, <1>3
<1>5. turned \in [1 .. n -> Nodes(problem)]
  BY <1>2, <1>3
<1>6. \A p, q \in 1 .. n : turned[p] = turned[q] => p = q
  <2> SUFFICES ASSUME NEW p \in 1 .. n, NEW q \in 1 .. n, turned[p] = turned[q]
               PROVE  p = q
    OBVIOUS
  <2> DEFINE next(r) == IF r = n THEN 1 ELSE r + 1
  <2>1. turned[p] = route[next(p)] /\ turned[q] = route[next(q)]
    BY <1>2, <1>4
  <2>2. next(p) \in 1 .. n /\ next(q) \in 1 .. n
    BY <1>2
  <2>3. next(p) = next(q)
    BY <1>2, <2>1, <2>2
  <2> QED
    BY <1>2, <2>3
<1>7. turned \in Routes(problem)
  BY <1>1, <1>5, <1>6 DEF Routes
<1>8. turned \in Seq(Nodes(problem)) /\ Len(turned) = n
  BY <1>1, <1>2, <1>7, RouteFacts
<1>9. PICK sum : AreSums(route, sum)
  BY <1>1, <1>2, SumsExist
<1>10. PICK after : AreSums(turned, after)
  BY <1>1, <1>8, SumsExist
<1>11. /\ sum \in [0 .. n -> Int] /\ sum[0] = 0
       /\ \A p \in 1 .. n : sum[p] = sum[p - 1] + Hop(route, p)
  BY <1>2, <1>9 DEF AreSums
<1>12. /\ after \in [0 .. n -> Int] /\ after[0] = 0
       /\ \A p \in 1 .. n : after[p] = after[p - 1] + Hop(turned, p)
  BY <1>8, <1>10 DEF AreSums
<1>13. /\ \A p \in 1 .. n : Hop(route, p) \in Int /\ Hop(turned, p) \in Int
  BY <1>1, <1>2, <1>8, HopFacts
<1>14. \A p \in 1 .. n - 1 : Hop(turned, p) = Hop(route, p + 1)
  <2> SUFFICES ASSUME NEW p \in 1 .. n - 1
               PROVE  Hop(turned, p) = Hop(route, p + 1)
    OBVIOUS
  <2>1. After(turned, p) = p + 1
    BY <1>2, <1>8 DEF After
  <2>2. turned[p] = route[p + 1]
    BY <1>4
  <2>3. turned[p + 1] = route[After(route, p + 1)]
    <3>1. CASE p = n - 1
      <4>1. After(route, p + 1) = 1 /\ p + 1 = n
        BY <1>2, <3>1 DEF After
      <4> QED
        BY <1>4, <4>1
    <3>2. CASE p # n - 1
      <4>1. After(route, p + 1) = p + 1 + 1 /\ p + 1 \in 1 .. n - 1
        BY <1>2, <3>2 DEF After
      <4> QED
        BY <1>4, <4>1
    <3> QED
      BY <3>1, <3>2
  <2> QED
    BY <2>1, <2>2, <2>3 DEF Hop
<1>15. Hop(turned, n) = Hop(route, 1)
  <2>1. After(turned, n) = 1 /\ After(route, 1) = 2
    BY <1>2, <1>8 DEF After
  <2>2. turned[n] = route[1] /\ turned[1] = route[2]
    <3>1. 1 \in 1 .. n - 1 /\ 1 + 1 = 2
      BY <1>2
    <3> QED
      BY <1>4, <3>1
  <2> QED
    BY <2>1, <2>2 DEF Hop
<1>16. \A p \in Nat : p <= n - 1 => after[p] = sum[p + 1] - sum[1]
  <2> DEFINE S == {p \in Nat : p <= n - 1 => after[p] = sum[p + 1] - sum[1]}
  <2>1. 0 \in S
    BY <1>2, <1>11, <1>12
  <2>2. ASSUME NEW p \in S
        PROVE  p + 1 \in S
    <3> SUFFICES ASSUME p + 1 <= n - 1
                 PROVE  after[p + 1] = sum[p + 1 + 1] - sum[1]
      BY <2>2
    <3>1. p \in Nat /\ p + 1 \in 1 .. n - 1 /\ p + 1 \in 1 .. n /\ p + 1 + 1 \in 1 .. n
      BY <1>2
    <3>2. after[p] = sum[p + 1] - sum[1]
      BY <1>2, <2>2, <3>1
    <3>3. after[p + 1] = after[p] + Hop(turned, p + 1)
      <4>1. after[p + 1] = after[p + 1 - 1] + Hop(turned, p + 1)
        BY <1>12, <3>1
      <4>2. p + 1 - 1 = p
        BY <3>1
      <4> QED
        BY <4>1, <4>2
    <3>4. sum[p + 1 + 1] = sum[p + 1] + Hop(route, p + 1 + 1)
      <4>1. sum[p + 1 + 1] = sum[p + 1 + 1 - 1] + Hop(route, p + 1 + 1)
        BY <1>11, <3>1
      <4>2. p + 1 + 1 - 1 = p + 1
        BY <3>1
      <4> QED
        BY <4>1, <4>2
    <3>5. Hop(turned, p + 1) = Hop(route, p + 1 + 1)
      BY <1>14, <3>1
    <3>6. sum[p + 1] \in Int /\ sum[1] \in Int /\ Hop(route, p + 1 + 1) \in Int
      BY <1>2, <1>11, <1>13, <3>1
    <3> QED
      BY <3>2, <3>3, <3>4, <3>5, <3>6
  <2> HIDE DEF S
  <2>3. S \in SUBSET Nat
    BY DEF S
  <2>4. S = Nat
    BY <2>1, <2>2, <2>3, SetInduction
  <2> QED
    BY <2>4 DEF S
<1>17. after[n] = sum[n]
  <2>1. /\ n \in 1 .. n /\ 1 \in 1 .. n /\ n - 1 \in Nat /\ n - 1 + 1 = n
    BY <1>2
  <2>2. after[n - 1] = sum[n] - sum[1]
    BY <1>16, <2>1
  <2>3. after[n] = after[n - 1] + Hop(turned, n)
    BY <1>12, <2>1
  <2>4. sum[1] = sum[0] + Hop(route, 1)
    BY <1>11, <2>1
  <2>5. sum[1] \in Int /\ sum[n] \in Int /\ Hop(route, 1) \in Int
    BY <1>2, <1>11, <1>13, <2>1
  <2> QED
    BY <1>11, <1>15, <2>2, <2>3, <2>4, <2>5
<1>18. RouteCost(problem, route) = sum[n]
  BY <1>1, <1>2, <1>9, RouteCostIsSum
<1>19. RouteCost(problem, turned) = after[n]
  BY <1>1, <1>2, <1>8, <1>10, RouteCostIsSum
<1> QED
  BY <1>1, <1>4, <1>7, <1>17, <1>18, <1>19

(* A tour visits the start: it has as many places as there are nodes. *)
LEMMA StartIsVisited ==
  ASSUME Inputs, problem.size > 0, NEW route \in Routes(problem)
  PROVE  \E p \in 1 .. problem.size : route[p] = Start
<1> SUFFICES ASSUME \A p \in 1 .. problem.size : route[p] # Start
             PROVE  FALSE
  OBVIOUS
<1>1. problem.size \in Nat /\ Start \in Nodes(problem)
  BY InputsOK
<1>2. IsFiniteSet(1 .. problem.size) /\ Cardinality(1 .. problem.size) = problem.size
  <2>1. 1 \in Int /\ problem.size \in Int
    BY <1>1
  <2>2. /\ IsFiniteSet(1 .. problem.size)
        /\ Cardinality(1 .. problem.size) =
             IF 1 > problem.size THEN 0 ELSE problem.size - 1 + 1
    BY <2>1, FS_Interval
  <2> QED
    BY <1>1, <2>2
<1>3. IsFiniteSet(Nodes(problem)) /\ Cardinality(Nodes(problem)) = problem.size
  <2>1. 0 \in Int /\ problem.size - 1 \in Int
    BY <1>1
  <2>2. /\ IsFiniteSet(0 .. problem.size - 1)
        /\ Cardinality(0 .. problem.size - 1) =
             IF 0 > problem.size - 1 THEN 0 ELSE problem.size - 1 - 0 + 1
    BY <2>1, FS_Interval
  <2> QED
    BY <1>1, <2>2 DEF Nodes
<1>4. /\ IsFiniteSet(Nodes(problem) \ {Start})
      /\ Cardinality(Nodes(problem) \ {Start}) = problem.size - 1
  BY <1>1, <1>3, FS_RemoveElement
<1>5. route \in [1 .. problem.size -> Nodes(problem) \ {Start}]
  BY DEF Routes
<1>6. Cardinality(Nodes(problem) \ {Start}) < Cardinality(1 .. problem.size)
  BY <1>1, <1>2, <1>4
<1>7. \E x, y \in 1 .. problem.size : x # y /\ route[x] = route[y]
  <2>1. PICK places, others : places = 1 .. problem.size /\ others = Nodes(problem) \ {Start}
    OBVIOUS
  <2>2. IsFiniteSet(places) /\ IsFiniteSet(others) /\ route \in [places -> others]
    BY <1>2, <1>4, <1>5, <2>1
  <2>3. Cardinality(others) < Cardinality(places)
    BY <1>6, <2>1
  <2>4. \E x, y \in places : x # y /\ route[x] = route[y]
    BY <2>2, <2>3, FS_PigeonHole
  <2> QED
    BY <2>1, <2>4
<1> QED
  BY <1>7 DEF Routes

(* What no tour from the start undercuts no tour undercuts. *)
LEMMA AnyStart ==
  ASSUME Inputs, problem.size > 1, SmallDistances, NEW cost,
         \A route \in Routes(problem) :
           route[1] = Start => cost <= RouteCost(problem, route)
  PROVE  \A route \in Routes(problem) : cost <= RouteCost(problem, route)
<1> DEFINE Above(p) == \A route \in Routes(problem) :
                         route[p + 1] = Start => cost <= RouteCost(problem, route)
           S == {p \in Nat : p < problem.size => Above(p)}
<1>1. 0 \in S
  BY DEF S
<1>2. ASSUME NEW p \in S
      PROVE  p + 1 \in S
  <2> SUFFICES ASSUME p + 1 < problem.size,
                      NEW route \in Routes(problem), route[p + 1 + 1] = Start
               PROVE  cost <= RouteCost(problem, route)
    BY <1>2
  <2>1. PICK turned \in Routes(problem) :
          /\ RouteCost(problem, turned) = RouteCost(problem, route)
          /\ \A q \in 1 .. problem.size - 1 : turned[q] = route[q + 1]
    BY Rotated
  <2>2. p \in Nat /\ problem.size \in Nat /\ p + 1 \in 1 .. problem.size - 1
    BY InputsOK
  <2>3. turned[p + 1] = Start
    BY <2>1, <2>2
  <2>4. Above(p)
    BY <1>2, <2>2
  <2> QED
    BY <2>1, <2>3, <2>4
<1> HIDE DEF S
<1>3. S \in SUBSET Nat
  BY DEF S
<1>4. S = Nat
  BY <1>1, <1>2, <1>3, SetInduction
<1> SUFFICES ASSUME NEW route \in Routes(problem)
             PROVE  cost <= RouteCost(problem, route)
  OBVIOUS
<1>5. PICK p \in 1 .. problem.size : route[p] = Start
  BY StartIsVisited, InputsOK
<1>6. p - 1 \in Nat /\ p - 1 < problem.size /\ p - 1 + 1 = p
  BY InputsOK
<1>7. Above(p - 1)
  BY <1>4, <1>6 DEF S
<1> QED
  BY <1>5, <1>6, <1>7

(***************************************************************************)
(* The answer is optimal.                                                  *)
(***************************************************************************)
Cheapest(cost) == \A route \in Routes(problem) : cost <= RouteCost(problem, route)

Best ==
  SmallDistances /\ problem.size <= kHeldKarpCutoff =>
    /\ pc # "out_of_range"
    /\ pc \in {"trace", "done"} => Cheapest(best_total)

(* Once every cell is passed the cycle can be closed from every node, by a *)
(* sum that is exact.                                                      *)
LEMMA AllAreClosings ==
  ASSUME IInv, Shortest, SmallDistances, pc = "fill", mask \notin Masks, NEW i \in Indices
  PROVE  /\ i \in Closings
         /\ IsShortest(FullMask, i, dp[FullMask][i])
         /\ TotalVia(i) = dp[FullMask][i] + EdgeCost(NodeAt(i), Start)
         /\ dp[FullMask][i] \in Int /\ EdgeCost(NodeAt(i), Start) \in Int
<1>1. /\ Inputs /\ problem.size > 1 /\ Tables /\ mask \in 1 .. FullMask + 1
  BY DEF IInv, InTables, Filling
<1>2. /\ FullMask \in Masks /\ FullMask \in Nat /\ Masks = 0 .. FullMask
      /\ Members(FullMask) = Indices
  BY <1>1, MaskFacts DEF Masks
<1>3. FullMask < mask
  BY <1>1, <1>2
<1>4. IsShortest(FullMask, i, dp[FullMask][i])
  BY <1>2, <1>3 DEF Shortest, Passed
<1>5. PICK cost, edge : cost = dp[FullMask][i] /\ edge = EdgeCost(NodeAt(i), Start)
  OBVIOUS
<1>6. cost \in Int
  BY <1>1, <1>2, <1>5, CostFacts DEF Tables
<1>7. edge \in -Bound .. Bound /\ edge \in Int
  BY <1>1, <1>5, SmallEdges, BoundFacts
<1>8. cost < kInf /\ Wrap(cost + edge) = cost + edge /\ cost + edge < kInf
  <2>1. IsShortest(FullMask, i, cost) /\ i \in Members(FullMask)
    BY <1>2, <1>4, <1>5
  <2> QED
    BY <1>1, <1>2, <1>6, <1>7, <2>1, ShortestIsSmall
<1>9. kInf \in Int
  BY CostFacts
<1>10. i \in Closings
  BY <1>5, <1>6, <1>8, <1>9 DEF Closings, TotalVia
<1> QED
  BY <1>4, <1>5, <1>6, <1>7, <1>8, <1>10 DEF TotalVia

(* The best of the closings is the cost of no tour from the start exceeds. *)
LEMMA BestClosingIsCheapest ==
  ASSUME IInv, Shortest, SmallDistances, pc = "fill", mask \notin Masks,
         NEW total \in Int, \A i \in Closings : total <= TotalVia(i)
  PROVE  Cheapest(total)
<1>1. Inputs /\ problem.size > 1
  BY DEF IInv, InTables
<1>2. ASSUME NEW route \in Routes(problem), route[1] = Start
      PROVE  total <= RouteCost(problem, route)
  <2>1. PICK i \in Indices : \E path \in PathsTo(FullMask, i) :
          RouteCost(problem, route) = PathCost(path) + EdgeCost(NodeAt(i), Start)
    BY <1>1, <1>2, RouteIsPath
  <2>2. PICK path \in PathsTo(FullMask, i) :
          RouteCost(problem, route) = PathCost(path) + EdgeCost(NodeAt(i), Start)
    BY <2>1
  <2>3. /\ i \in Closings
        /\ IsShortest(FullMask, i, dp[FullMask][i])
        /\ TotalVia(i) = dp[FullMask][i] + EdgeCost(NodeAt(i), Start)
        /\ dp[FullMask][i] \in Int /\ EdgeCost(NodeAt(i), Start) \in Int
    BY AllAreClosings
  <2>4. PICK cost, edge, length : /\ cost = dp[FullMask][i]
                                  /\ edge = EdgeCost(NodeAt(i), Start)
                                  /\ length = PathCost(path)
    OBVIOUS
  <2>5. length \in Int
    <3>1. FullMask \in Masks /\ i \in Members(FullMask)
      BY <1>1, MaskFacts
    <3>2. path \in Seq(Indices) /\ path # <<>>
      BY <1>1, <3>1, PathFacts
    <3> QED
      BY <1>1, <2>4, <3>2, PathCostGrows
  <2>6. cost <= length /\ cost \in Int /\ edge \in Int
    BY <2>3, <2>4 DEF IsShortest
  <2>7. total <= cost + edge
    BY <2>3, <2>4
  <2> QED
    BY <2>2, <2>4, <2>5, <2>6, <2>7
<1> QED
  BY <1>1, <1>2, AnyStart DEF Cheapest

(* A problem answered at once has a single tour, which costs nothing.      *)
LEMMA InitBest == Init => Best
<1> SUFFICES ASSUME Init, problem.size <= kHeldKarpCutoff
             PROVE  /\ pc # "out_of_range"
                    /\ pc \in {"trace", "done"} => Cheapest(best_total)
  BY DEF Best
<1>1. Inputs /\ best_total = 0 /\ problem.size \in Nat
  BY InputsOK DEF Init, Inputs
<1>2. pc # "out_of_range" /\ (pc = "done" => problem.size <= 1) /\ pc # "trace"
  BY <1>1, CutoffAssumption DEF Init
<1>3. ASSUME problem.size <= 1, NEW route \in Routes(problem)
      PROVE  RouteCost(problem, route) = 0
  <2>1. CASE problem.size = 0
    <3>1. route = <<>>
      BY <2>1 DEF Routes
    <3> QED
      BY <1>1, <3>1, ShortRouteCost
  <2>2. CASE problem.size = 1
    <3>1. /\ route \in Seq(Nodes(problem)) /\ Len(route) = 1
      BY <1>1, <2>2, RouteFacts
    <3>2. route[1] \in Nodes(problem) /\ route = <<route[1]>>
      BY <3>1
    <3> QED
      BY <1>1, <3>2, ShortRouteCost
  <2> QED
    BY <1>1, <1>3, <2>1, <2>2
<1> QED
  BY <1>1, <1>2, <1>3 DEF Cheapest

(* The cycle is closed at the least cost of a tour, and never refused.     *)
LEMMA NextBest == IInv /\ Shortest /\ Best /\ [Next]_vars => Best'
<1> SUFFICES ASSUME IInv, Shortest, Best, [Next]_vars,
                    SmallDistances', (problem.size <= kHeldKarpCutoff)'
             PROVE  /\ (pc # "out_of_range")'
                    /\ (pc \in {"trace", "done"})' => Cheapest(best_total)'
  BY DEF Best
<1>1. UNCHANGED inputs
  BY DEF Next, SkipCell, FillCell, Close, NoTour, TraceBack, Finish, vars, inputs
<1>2. SmallDistances /\ problem.size <= kHeldKarpCutoff /\ problem' = problem
  BY <1>1, SamePaths
<1>3. CASE SkipCell \/ FillCell
  BY <1>3 DEF SkipCell, FillCell
<1>4. CASE Close
  <2>1. pc = "fill" /\ mask \notin Masks /\ Closings # {} /\ pc' = "trace"
    BY <1>4 DEF Close
  <2>2. best_total' \in Costs /\ \A i \in Closings : best_total' <= TotalVia(i)
    BY <1>4, <2>1, BestClosing DEF Close
  <2>3. PICK total : total = best_total'
    OBVIOUS
  <2>4. total \in Int /\ \A i \in Closings : total <= TotalVia(i)
    BY <2>2, <2>3, CostFacts
  <2>5. Cheapest(total)
    BY <1>2, <2>1, <2>4, BestClosingIsCheapest
  <2> QED
    BY <1>2, <2>1, <2>3, <2>5 DEF Cheapest
<1>5. CASE NoTour
  <2>1. pc = "fill" /\ mask \notin Masks /\ Closings = {}
    BY <1>5 DEF NoTour
  <2>2. 0 \in Indices
    <3>1. Inputs /\ problem.size > 1
      BY <2>1 DEF IInv, InTables
    <3> QED
      BY <3>1, MaskFacts
  <2>3. 0 \in Closings
    BY <1>2, <2>1, <2>2, AllAreClosings
  <2> QED
    BY <2>1, <2>3
<1>6. CASE TraceBack \/ Finish
  <2>1. pc = "trace" /\ pc' \in {"trace", "done"} /\ best_total' = best_total
    BY <1>6 DEF TraceBack, Finish
  <2>2. Cheapest(best_total)
    BY <1>2, <2>1 DEF Best
  <2> QED
    BY <1>2, <2>1, <2>2 DEF Cheapest
<1>7. CASE UNCHANGED vars
  <2>1. UNCHANGED <<pc, best_total, problem>>
    BY <1>7 DEF vars
  <2> QED
    BY <1>2, <2>1 DEF Best, Cheapest
<1> QED
  BY <1>3, <1>4, <1>5, <1>6, <1>7 DEF Next

(* Whatever the problems within the cutoff are, with distances small       *)
(* enough that no sum wraps, the solver answers, and no tour of the        *)
(* problem costs less than its answer.                                     *)
THEOREM ExactIfSmall == Spec => []OptimalIfSmall
<1>1. Best => OptimalIfSmall
  BY DEF Best, OptimalIfSmall, Cheapest
<1> QED
  BY <1>1, InitShortest, NextShortest, InitBest, NextBest, Invariance, PTL DEF Spec

(* What a caller may rely on, for any problem: within the cutoff, and only *)
(* there, the tour is one of the answers with its cost; the function gives *)
(* up above the cutoff or when the distances are not small.                *)
THEOREM AnswersExactly ==
  Spec => [](/\ pc = "done" => /\ problem.size <= kHeldKarpCutoff
                               /\ order \in ExactAnswers(problem, Start)
                               /\ best_total = RouteCost(problem, order)
             /\ pc = "out_of_range" => \/ problem.size > kHeldKarpCutoff
                                       \/ ~HasSmallDistances(problem))
<1> DEFINE Accepted == pc # "out_of_range" => problem.size <= kHeldKarpCutoff
           Kept == /\ pc = "done" => /\ problem.size <= kHeldKarpCutoff
                                     /\ order \in ExactAnswers(problem, Start)
                                     /\ best_total = RouteCost(problem, order)
                   /\ pc = "out_of_range" => \/ problem.size > kHeldKarpCutoff
                                             \/ ~HasSmallDistances(problem)
<1>1. Init => Accepted
  <2>1. Init => problem.size \in Nat
    BY InputsOK DEF Init, Inputs
  <2> QED
    BY <2>1, CutoffAssumption DEF Init
<1>2. Accepted /\ [Next]_vars => Accepted'
  BY DEF Next, vars, inputs, SkipCell, FillCell, Close, NoTour, TraceBack, Finish
<1>3. ASSUME IInv, Accepted, AnswerIsRoute, OptimalIfSmall
      PROVE  Kept
  <2>1. problem.size \in Nat
    BY <1>3, InputsOK DEF IInv
  <2>2. HasSmallDistances(problem) <=> SmallDistances
    BY DEF HasSmallDistances, SmallDistances, kInf
  <2>3. ASSUME pc = "done"
        PROVE  order \in ExactAnswers(problem, Start)
    <3>1. order \in RoutesFrom(problem, Start)
      BY <1>3, <2>3 DEF AnswerIsRoute, IsRouteFrom, IsRoute, RoutesFrom, Routes
    <3>2. HasSmallDistances(problem) => IsOptimal(problem, order)
      BY <1>3, <2>2, <2>3 DEF OptimalIfSmall, AnswerIsRoute, IsOptimal
    <3> QED
      BY <3>1, <3>2 DEF ExactAnswers
  <2> QED
    BY <1>3, <2>1, <2>2, <2>3, CutoffAssumption DEF AnswerIsRoute, OptimalIfSmall
<1> HIDE DEF Accepted, Kept
<1>4. Spec => []Kept
  BY <1>1, <1>2, <1>3, Invariance, AnswerIsTour, ExactIfSmall, PTL DEF Spec
<1> QED
  BY <1>4 DEF Kept
=============================================================================
