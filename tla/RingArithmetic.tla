--------------------------- MODULE RingArithmetic ---------------------------
(***************************************************************************)
(* Facts about remainders that the proofs about sequence numbers and ring  *)
(* indices share.                                                          *)
(***************************************************************************)
EXTENDS Integers, TLAPS

\* Division with remainder, for any integer.
LEMMA DivMod ==
  ASSUME NEW M \in Nat, M > 0, NEW x \in Int
  PROVE  /\ x \div M \in Int /\ x % M \in 0..M - 1
         /\ x = M * (x \div M) + (x % M)
  OBVIOUS

\* A multiple of M strictly between -2M and 2M is -M, 0 or M.
LEMMA SmallMultiple ==
  ASSUME NEW M \in Nat, M > 0, NEW k \in Int, -(2 * M) < M * k, M * k < 2 * M
  PROVE  M * k \in {-M, 0, M}
  <1>1. CASE k >= 2
    <2>1. M * k >= M * 2  BY <1>1
    <2> QED  BY <2>1
  <1>2. CASE k <= -2
    <2>1. M * (-k) >= M * 2  BY <1>2
    <2>2. M * (-k) = -(M * k)  OBVIOUS
    <2> QED  BY <2>1, <2>2
  <1>3. CASE k \in {-1, 0, 1}  BY <1>3
  <1> QED  BY <1>1, <1>2, <1>3

\* The remainder of a number within one modulus of zero.
LEMMA SmallMod ==
  ASSUME NEW M \in Nat, M > 0, NEW x \in Int, -M < x, x < M
  PROVE  x % M = IF x >= 0 THEN x ELSE x + M
  <1> DEFINE k == x \div M
  <1>1. k \in Int /\ x % M \in 0..M - 1 /\ x = M * k + (x % M)  BY DivMod
  <1> HIDE DEF k
  <1>2. -(2 * M) < M * k /\ M * k < 2 * M /\ M * k \in Int  BY <1>1
  <1>3. M * k \in {-M, 0, M}  BY <1>1, <1>2, SmallMultiple
  <1> QED  BY <1>1, <1>3

\* Two positions less than one lap apart lie in different cells of a ring.
LEMMA DistinctCells ==
  ASSUME NEW M \in Nat, M > 0, NEW i \in Int, NEW j \in Int, i < j, j - i < M
  PROVE  i % M # j % M
  <1> DEFINE a == i % M  b == j % M  p == i \div M  q == j \div M
  <1>1. p \in Int /\ a \in 0..M - 1 /\ i = M * p + a  BY DivMod
  <1>2. q \in Int /\ b \in 0..M - 1 /\ j = M * q + b  BY DivMod
  <1> HIDE DEF a, b, p, q
  <1>3. q - p \in Int /\ M * (q - p) = M * q - M * p /\ M * p \in Int /\ M * q \in Int
    BY <1>1, <1>2
  <1> SUFFICES ASSUME a = b PROVE FALSE  BY DEF a, b
  <1>4. M * (q - p) = j - i  BY <1>1, <1>2, <1>3
  <1>5. M * (q - p) \in {-M, 0, M}
    <2>1. -(2 * M) < M * (q - p) /\ M * (q - p) < 2 * M  BY <1>4
    <2> QED  BY <1>3, <2>1, SmallMultiple
  <1> QED  BY <1>4, <1>5

\* Incrementing a wrapped index and wrapping again is wrapping the increment.
LEMMA NextCell ==
  ASSUME NEW M \in Nat, M > 0, NEW i \in Nat
  PROVE  ((i % M) + 1) % M = (i + 1) % M
  <1> DEFINE a == i % M  p == i \div M  b == (i + 1) % M  q == (i + 1) \div M
  <1>1. p \in Int /\ a \in 0..M - 1 /\ i = M * p + a  BY DivMod
  <1>2. q \in Int /\ b \in 0..M - 1 /\ i + 1 = M * q + b  BY DivMod
  <1>3. (a + 1) % M = IF a + 1 < M THEN a + 1 ELSE 0
    <2>1. CASE a + 1 < M  BY <1>1, <2>1, SmallMod
    <2>2. CASE ~(a + 1 < M)
      <3>1. a + 1 = M  BY <1>1, <2>2
      <3>2. M % M = 0  OBVIOUS
      <3> QED  BY <2>2, <3>1, <3>2
    <2> QED  BY <2>1, <2>2
  <1>q. (a + 1) % M = b
    <2> HIDE DEF a, b, p, q
    <2>1. q - p \in Int /\ M * (q - p) = M * q - M * p /\ M * p \in Int /\ M * q \in Int
      BY <1>1, <1>2
    <2>2. M * (q - p) = a + 1 - b  BY <1>1, <1>2, <2>1
    <2>3. M * (q - p) \in {-M, 0, M}
      <3>1. -(2 * M) < M * (q - p) /\ M * (q - p) < 2 * M  BY <1>1, <1>2, <2>2
      <3> QED  BY <2>1, <3>1, SmallMultiple
    <2>4. CASE a + 1 < M
      <3>1. M * (q - p) = 0  BY <1>1, <1>2, <2>2, <2>3, <2>4
      <3>2. a + 1 = b  BY <1>1, <1>2, <2>2, <3>1
      <3> QED  BY <1>3, <2>4, <3>2
    <2>5. CASE ~(a + 1 < M)
      <3>1. a + 1 = M  BY <1>1, <2>5
      <3>2. b = 0  BY <1>1, <1>2, <2>2, <2>3, <3>1
      <3> QED  BY <1>3, <2>5, <3>2
    <2> QED  BY <2>4, <2>5
  <1> QED  BY <1>q DEF a, b

=============================================================================
