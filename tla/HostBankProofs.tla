--------------------------- MODULE HostBankProofs ---------------------------
(***************************************************************************)
(* Theorems about ExpertBank and CopyPlan, the host's bank of experts and  *)
(* the copies out of it: the CPU's two kernels agree on every block, a     *)
(* GEMV over a loaded expert reads the rows of the file, for every size of *)
(* the model, and the runs of plan_runs copy every miss once.              *)
(*                                                                         *)
(* The second is about a layout: offsets are sums of products of sizes,    *)
(* and two different places must never get one offset.  A place is a digit *)
(* in a mixed radix (expert, half, row, block, byte), so that it comes     *)
(* down to OneDigit, applied from the expert down to the byte.             *)
(***************************************************************************)
EXTENDS ExpertBank, CopyPlan, SequenceTheorems, TLAPS

-----------------------------------------------------------------------------
(***************************************************************************)
(* The kernels.                                                            *)
(***************************************************************************)

Q4 == 0..15
Q8 == -127..127
Products == -1905..1905

\* A product of a weight before its offset and an activation has 12 bits.
LEMMA SmallProducts ==
  ASSUME NEW w \in Q4, NEW x \in Q8
  PROVE  w * x \in Products
  <1>1. w * (127 - x) >= 0 /\ w * (127 + x) >= 0
    BY DEF Q4, Q8
  <1>2. w * (127 - x) = 127 * w - w * x /\ w * (127 + x) = 127 * w + w * x
    BY DEF Q4, Q8
  <1> QED BY <1>1, <1>2 DEF Q4, Q8, Products

\* A byte gives back both of its weights (quantize_row, dot_q4r_q8_scalar).
LEMMA UnpackPacked ==
  ASSUME NEW v \in Q4, NEW w \in Q4
  PROVE  (v + 16 * w) % 16 = v /\ (v + 16 * w) \div 16 = w
  BY DEF Q4

\* A sum of two such products is not cut off at 16 bits.
LEMMA NeverSaturates ==
  ASSUME NEW p \in Products, NEW q \in Products
  PROVE  Saturated(p + q) = p + q
  BY DEF Saturated, Products

\* One weight and its activation: what the product is with the offset and without.
LEMMA OneLane ==
  ASSUME NEW w \in Q4, NEW x \in Q8
  PROVE  \E p, o \in Products : p = w * x /\ o = 8 * x /\ (w - 8) * x = p - o
  <1>1. w * x \in Products
    BY Zenon, SmallProducts
  <1>2. 8 * x \in Products
    BY DEF Q8, Products
  <1>3. (w - 8) * x = w * x - 8 * x
    BY DEF Q4, Q8
  <1> QED BY Zenon, <1>1, <1>2, <1>3

\* Products are integers.
LEMMA ProductsAreIntegers == Products \subseteq Int
  BY DEF Products

\* The two kernels add up the same eight numbers in different orders.
LEMMA SumsInAnyOrder ==
  ASSUME NEW p1 \in Int, NEW p2 \in Int, NEW p3 \in Int, NEW p4 \in Int,
         NEW o1 \in Int, NEW o2 \in Int, NEW o3 \in Int, NEW o4 \in Int
  PROVE  /\ (p1 - o1) + (p3 - o3) + (p2 - o2) + (p4 - o4)
              = (p1 - o1) + (p2 - o2) + (p3 - o3) + (p4 - o4)
         /\ ((p1 + p2) - (o1 + o2)) + ((p3 + p4) - (o3 + o4))
              = (p1 - o1) + (p3 - o3) + (p2 - o2) + (p4 - o4)
  OBVIOUS

\* Both kernels give the sum over the four weights of a packed block.
LEMMA KernelsGiveTheSum ==
  ASSUME NEW w \in [1..4 -> Q4], NEW x \in [1..4 -> Q8]
  PROVE  /\ DotScalar(PackedBytes(w), x) = Sum4([i \in 1..4 |-> (w[i] - 8) * x[i]])
         /\ DotAvx2(PackedBytes(w), x) = DotScalar(PackedBytes(w), x)
  <1> DEFINE b == PackedBytes(w)
  <1>1. /\ w[1] \in Q4 /\ w[2] \in Q4 /\ w[3] \in Q4 /\ w[4] \in Q4
        /\ x[1] \in Q8 /\ x[2] \in Q8 /\ x[3] \in Q8 /\ x[4] \in Q8
    OBVIOUS
  <1>2. /\ b[1] % 16 = w[1] /\ b[1] \div 16 = w[3]
        /\ b[2] % 16 = w[2] /\ b[2] \div 16 = w[4]
    <2>1. b[1] = w[1] + 16 * w[3] /\ b[2] = w[2] + 16 * w[4]
      BY DEF PackedBytes
    <2> QED BY <1>1, <2>1, UnpackPacked
  <1> HIDE DEF b
  <1>3. PICK p1, o1 \in Products :
           p1 = w[1] * x[1] /\ o1 = 8 * x[1] /\ (w[1] - 8) * x[1] = p1 - o1
    BY Zenon, <1>1, OneLane
  <1>4. PICK p2, o2 \in Products :
           p2 = w[2] * x[2] /\ o2 = 8 * x[2] /\ (w[2] - 8) * x[2] = p2 - o2
    BY Zenon, <1>1, OneLane
  <1>5. PICK p3, o3 \in Products :
           p3 = w[3] * x[3] /\ o3 = 8 * x[3] /\ (w[3] - 8) * x[3] = p3 - o3
    BY Zenon, <1>1, OneLane
  <1>6. PICK p4, o4 \in Products :
           p4 = w[4] * x[4] /\ o4 = 8 * x[4] /\ (w[4] - 8) * x[4] = p4 - o4
    BY Zenon, <1>1, OneLane
  <1>7. DotScalar(b, x) = (p1 - o1) + (p3 - o3) + (p2 - o2) + (p4 - o4)
    <2>1. DotScalar(b, x)
            = (w[1] - 8) * x[1] + (w[3] - 8) * x[3] + (w[2] - 8) * x[2] + (w[4] - 8) * x[4]
      BY <1>2 DEF DotScalar
    <2> QED BY Zenon, <1>3, <1>4, <1>5, <1>6, <2>1
  <1>8. Sum4([i \in 1..4 |-> (w[i] - 8) * x[i]]) = (p1 - o1) + (p2 - o2) + (p3 - o3) + (p4 - o4)
    <2>1. Sum4([i \in 1..4 |-> (w[i] - 8) * x[i]])
            = (w[1] - 8) * x[1] + (w[2] - 8) * x[2] + (w[3] - 8) * x[3] + (w[4] - 8) * x[4]
      BY DEF Sum4
    <2> QED BY Zenon, <1>3, <1>4, <1>5, <1>6, <2>1
  <1>9. Maddubs(Unpacked(b), x) = <<p1 + p2, p3 + p4>>
    <2>1. Unpacked(b) = <<w[1], w[2], w[3], w[4]>>
      BY <1>2 DEF Unpacked
    <2>2. Maddubs(Unpacked(b), x)
            = <<Saturated(w[1] * x[1] + w[2] * x[2]), Saturated(w[3] * x[3] + w[4] * x[4])>>
      BY <2>1 DEF Maddubs
    <2>3. Maddubs(Unpacked(b), x) = <<Saturated(p1 + p2), Saturated(p3 + p4)>>
      BY Zenon, <1>3, <1>4, <1>5, <1>6, <2>2
    <2> QED BY Zenon, <2>3, NeverSaturates
  <1>10. Maddubs(<<8, 8, 8, 8>>, x) = <<o1 + o2, o3 + o4>>
    <2>1. Maddubs(<<8, 8, 8, 8>>, x)
            = <<Saturated(8 * x[1] + 8 * x[2]), Saturated(8 * x[3] + 8 * x[4])>>
      BY DEF Maddubs
    <2>2. Maddubs(<<8, 8, 8, 8>>, x) = <<Saturated(o1 + o2), Saturated(o3 + o4)>>
      BY Zenon, <1>3, <1>4, <1>5, <1>6, <2>1
    <2> QED BY Zenon, <2>2, NeverSaturates
  <1>11. DotAvx2(b, x) = ((p1 + p2) - (o1 + o2)) + ((p3 + p4) - (o3 + o4))
    BY <1>9, <1>10 DEF DotAvx2
  <1>12. /\ p1 \in Int /\ p2 \in Int /\ p3 \in Int /\ p4 \in Int
         /\ o1 \in Int /\ o2 \in Int /\ o3 \in Int /\ o4 \in Int
    BY Zenon, ProductsAreIntegers
  <1>13. /\ (p1 - o1) + (p3 - o3) + (p2 - o2) + (p4 - o4)
              = (p1 - o1) + (p2 - o2) + (p3 - o3) + (p4 - o4)
         /\ ((p1 + p2) - (o1 + o2)) + ((p3 + p4) - (o3 + o4))
              = (p1 - o1) + (p3 - o3) + (p2 - o2) + (p4 - o4)
    BY <1>12, SumsInAnyOrder
  <1> QED BY Zenon, <1>7, <1>8, <1>11, <1>13 DEF b

(***************************************************************************)
(* Blocks are made of weights and activations, and only a block is         *)
(* multiplied.                                                             *)
(***************************************************************************)
BlockInv ==
  /\ block \in {<<>>} \cup [w : [1..4 -> Nibbles], x : [1..4 -> Activations]]
  /\ KernelsAgree

\* For any weights and activations, the AVX2 kernel and the scalar one give the same
\* integer: nothing saturates, and each weight meets its own activation.
THEOREM KernelsAlwaysAgree == BankSpec => []KernelsAgree
  <1>1. BankInit => BlockInv
    BY DEF BankInit, BlockInv, KernelsAgree
  <1>2. BlockInv /\ [BankNext]_bankVars => BlockInv'
    <2> SUFFICES ASSUME BlockInv, [BankNext]_bankVars
                 PROVE  BlockInv'
      OBVIOUS
    <2>1. ASSUME block' = block, dots' = dots
          PROVE  BlockInv'
      BY <2>1 DEF BlockInv, KernelsAgree
    <2>2. CASE MultiplyBlock
      <3>1. block \in [w : [1..4 -> Nibbles], x : [1..4 -> Activations]]
        BY <2>2 DEF MultiplyBlock, BlockInv
      <3>2. block.w \in [1..4 -> Q4] /\ block.x \in [1..4 -> Q8]
        <4>1. block.w \in [1..4 -> Nibbles] /\ block.x \in [1..4 -> Activations]
          BY <3>1
        <4>2. Nibbles \subseteq Q4 /\ Activations \subseteq Q8
          BY BankConstants DEF Q4, Q8
        <4> QED BY <4>1, <4>2
      <3>3. /\ block' = block
            /\ dots' = [scalar |-> DotScalar(PackedBytes(block.w), block.x),
                        avx2 |-> DotAvx2(PackedBytes(block.w), block.x)]
        BY <2>2 DEF MultiplyBlock
      <3>4. /\ dots'.scalar = DotScalar(PackedBytes(block.w), block.x)
            /\ dots'.avx2 = DotAvx2(PackedBytes(block.w), block.x)
        BY <3>3
      <3>5. dots'.scalar = Sum4([i \in 1..4 |-> (block.w[i] - 8) * block.x[i]])
            /\ dots'.avx2 = dots'.scalar
        BY <3>2, <3>4, KernelsGiveTheSum
      <3> QED BY <3>3, <3>5 DEF BlockInv, KernelsAgree
    <2> QED BY <2>1, <2>2 DEF BankNext, RepackExpert, NextLayer, bankVars
  <1>3. BlockInv => KernelsAgree
    BY DEF BlockInv
  <1> QED BY <1>1, <1>2, <1>3, PTL DEF BankSpec
-----------------------------------------------------------------------------
(***************************************************************************)
(* Offsets as digits.                                                      *)
(***************************************************************************)

\* A larger number is larger by a whole step.
LEMMA AWholeStep ==
  ASSUME NEW a \in Nat, NEW b \in Nat, NEW n \in Nat, a < b
  PROVE  a * n + n <= b * n
  <1>1. (b - a - 1) * n >= 0
    OBVIOUS
  <1>2. (b - a - 1) * n = b * n - a * n - n
    OBVIOUS
  <1>3. a * n \in Int /\ b * n \in Int
    OBVIOUS
  <1> QED BY <1>1, <1>2, <1>3

\* An offset has one digit and one rest.
LEMMA OneDigit ==
  ASSUME NEW n \in Nat, NEW a \in Nat, NEW b \in Nat,
         NEW c \in 0..(n - 1), NEW d \in 0..(n - 1),
         a * n + c = b * n + d
  PROVE  a = b /\ c = d
  <1> DEFINE p == a * n
             q == b * n
  <1>1. p \in Nat /\ q \in Nat
    OBVIOUS
  <1>2. a < b => p + n <= q
    BY AWholeStep
  <1>3. b < a => q + n <= p
    BY AWholeStep
  <1>4. a = b => p = q
    OBVIOUS
  <1>5. p + c = q + d
    OBVIOUS
  <1> HIDE DEF p, q
  <1> QED BY <1>1, <1>2, <1>3, <1>4, <1>5

\* The last digit stays below the end of the whole.
LEMMA DigitFits ==
  ASSUME NEW n \in Nat, NEW rows \in Nat, NEW r \in 0..(rows - 1), NEW c \in 0..(n - 1)
  PROVE  r * n + c \in 0..(n * rows - 1)
  <1> DEFINE p == r * n
             q == n * rows
  <1>1. p \in Nat /\ q \in Nat
    OBVIOUS
  <1>2. q = rows * n
    OBVIOUS
  <1>3. p + n <= q
    <2>1. r * n + n <= rows * n
      BY AWholeStep
    <2> QED BY <1>2, <2>1
  <1>4. p + c \in 0..(q - 1)
    <2> HIDE DEF p, q
    <2> QED BY <1>1, <1>3
  <1> QED BY <1>4

\* What an aligned load needs of its offset.
Multiple(n) == \E c \in Nat : n = c * Align

\* Sums of multiples are multiples.
LEMMA MultipleSum ==
  ASSUME NEW m, NEW n, Multiple(m), Multiple(n)
  PROVE  Multiple(m + n)
  <1> PICK c \in Nat : m = c * Align
    BY DEF Multiple
  <1> PICK d \in Nat : n = d * Align
    BY DEF Multiple
  <1>1. c * Align + d * Align = (c + d) * Align
    BY BankConstants
  <1>2. c + d \in Nat
    OBVIOUS
  <1> QED BY <1>1, <1>2 DEF Multiple

\* A multiple any number of times is one.
LEMMA MultipleTimes ==
  ASSUME NEW m, Multiple(m), NEW r \in Nat
  PROVE  Multiple(r * m) /\ Multiple(m * r)
  <1> PICK c \in Nat : m = c * Align
    BY DEF Multiple
  <1>1. r * (c * Align) = (r * c) * Align /\ (c * Align) * r = (r * c) * Align
    BY BankConstants
  <1>2. r * c \in Nat
    OBVIOUS
  <1> QED BY <1>1, <1>2 DEF Multiple

\* A multiple leaves no remainder.
LEMMA MultipleAligned ==
  ASSUME NEW m, Multiple(m)
  PROVE  m % Align = 0
  <1> PICK c \in Nat : m = c * Align
    BY DEF Multiple
  <1> DEFINE d == (c * Align) \div Align
             r == (c * Align) % Align
  <1>1. c * Align \in Nat /\ Align \in Nat \ {0}
    BY BankConstants
  <1>2. /\ d \in Nat /\ r \in 0..(Align - 1)
        /\ c * Align = Align * d + r
    BY <1>1
  <1>3. Align * d = d * Align
    BY <1>1, <1>2
  <1>4. c * Align + 0 = d * Align + r
    BY <1>1, <1>2, <1>3
  <1>5. 0 \in 0..(Align - 1)
    BY <1>1
  <1> HIDE DEF d, r
  <1>6. r = 0
    BY <1>1, <1>2, <1>4, <1>5, OneDigit
  <1> QED BY <1>6 DEF r

-----------------------------------------------------------------------------
(***************************************************************************)
(* A row, a tensor, an expert.                                             *)
(***************************************************************************)

\* The 16 bytes of a block's weights are what its loads are aligned to.
LEMMA BlockSizes == Qk \div 2 = Align /\ Qk \in Nat \ {0} /\ Align \in Nat \ {0}
  BY BankConstants

\* The scales fit before the weights, and a row ends at a multiple.
LEMMA RowSizes ==
  ASSUME NEW k \in Nat
  PROVE  /\ k \div Qk \in Nat
         /\ Q4rScalesBytes(k) \in Nat /\ 2 * (k \div Qk) <= Q4rScalesBytes(k)
         /\ Q4rRowBytes(k) \in Nat /\ Q4rRowBytes(k) = Q4rScalesBytes(k) + (k \div Qk) * Align
         /\ Multiple(Q4rScalesBytes(k)) /\ Multiple(Q4rRowBytes(k))
  <1> DEFINE blocks == k \div Qk
             n == 2 * blocks + Align - 1
  <1>1. blocks \in Nat
    BY BlockSizes
  <1>2. n \in Nat
    BY <1>1, BlockSizes
  <1>3. Q4rScalesBytes(k) = (n \div Align) * Align
    BY <1>1 DEF Q4rScalesBytes
  <1>4. Q4rRowBytes(k) = Q4rScalesBytes(k) + blocks * Align
    BY BlockSizes DEF Q4rRowBytes
  <1> HIDE DEF blocks
  <1>5. /\ n \div Align \in Nat /\ n % Align \in 0..(Align - 1)
        /\ n = Align * (n \div Align) + (n % Align)
    <2> HIDE DEF n
    <2> QED BY <1>2, BlockSizes
  <1>6. Align * (n \div Align) = (n \div Align) * Align
    <2> HIDE DEF n
    <2> QED BY <1>5, BlockSizes
  <1>7. Q4rScalesBytes(k) \in Nat /\ n < Q4rScalesBytes(k) + Align
    <2>1. (n \div Align) * Align \in Nat
      <3> HIDE DEF n
      <3> QED BY <1>5, BlockSizes
    <2> HIDE DEF n
    <2> QED BY <2>1, <1>2, <1>3, <1>5, <1>6, BlockSizes
  <1>8. 2 * blocks <= Q4rScalesBytes(k)
    BY <1>1, <1>7, BlockSizes
  <1>9. Multiple(Q4rScalesBytes(k))
    <2> HIDE DEF n
    <2> QED BY <1>3, <1>5 DEF Multiple
  <1>10. Multiple(blocks * Align) /\ blocks * Align \in Nat
    BY <1>1, BlockSizes DEF Multiple
  <1>11. Multiple(Q4rRowBytes(k))
    BY <1>4, <1>9, <1>10, MultipleSum
  <1> HIDE DEF n
  <1> QED BY <1>1, <1>4, <1>7, <1>8, <1>9, <1>10, <1>11 DEF blocks

\* Where a byte of a repacked row goes (ScaleByte, WeightByte) and comes from.
ScaleByte(b, i) == <<2 * b + i, b * (2 + Qk \div 2) + i>>
WeightByte(k, b, i) ==
  <<Q4rScalesBytes(k) + b * (Qk \div 2) + i, b * (2 + Qk \div 2) + 2 + i>>

\* A row consists of scales and weights (repack_row_q4r).
LEMMA RowConsistsOf ==
  ASSUME NEW k, NEW m \in RepackRow(k)
  PROVE  \E b \in 0..(k \div Qk - 1) :
           \/ \E i \in 0..1 : m = ScaleByte(b, i)
           \/ \E i \in 0..(Qk \div 2 - 1) : m = WeightByte(k, b, i)
  BY Zenon DEF RepackRow, ScaleByte, WeightByte

\* Every scale of a row is in it.
LEMMA ScaleInRow ==
  ASSUME NEW k, NEW b \in 0..(k \div Qk - 1), NEW i \in 0..1
  PROVE  ScaleByte(b, i) \in RepackRow(k)
  BY SMT DEF RepackRow, ScaleByte

\* Every weight of a row is in it.
LEMMA WeightInRow ==
  ASSUME NEW k, NEW b \in 0..(k \div Qk - 1), NEW i \in 0..(Qk \div 2 - 1)
  PROVE  WeightByte(k, b, i) \in RepackRow(k)
  BY SMT DEF RepackRow, WeightByte

\* A scale is in the first part of its row.
LEMMA ScalePlace ==
  ASSUME NEW k \in Nat, NEW b \in 0..(k \div Qk - 1), NEW i \in 0..1
  PROVE  /\ b \in Nat
         /\ ScaleByte(b, i)[1] = b * 2 + i
         /\ ScaleByte(b, i)[1] \in 0..(Q4rScalesBytes(k) - 1)
         /\ ScaleByte(b, i)[1] \in 0..(Q4rRowBytes(k) - 1)
  <1> DEFINE blocks == k \div Qk
             scales == Q4rScalesBytes(k)
             row == Q4rRowBytes(k)
  <1>1. blocks \in Nat /\ scales \in Nat /\ row \in Nat /\ 2 * blocks <= scales /\ scales <= row
    <2>1. blocks * Align \in Nat
      BY RowSizes, BlockSizes
    <2> QED BY <2>1, RowSizes
  <1>2. b \in 0..(blocks - 1)
    OBVIOUS
  <1> HIDE DEF blocks, scales, row
  <1>3. 2 * b + i \in 0..(scales - 1) /\ 2 * b + i \in 0..(row - 1)
    BY <1>1, <1>2
  <1> QED BY <1>1, <1>2, <1>3 DEF ScaleByte, scales, row

\* A weight is in the second.
LEMMA WeightPlace ==
  ASSUME NEW k \in Nat, NEW b \in 0..(k \div Qk - 1), NEW i \in 0..(Qk \div 2 - 1)
  PROVE  /\ b \in Nat /\ i \in 0..(Align - 1)
         /\ WeightByte(k, b, i)[1] = Q4rScalesBytes(k) + (b * Align + i)
         /\ b * Align + i \in Nat
         /\ WeightByte(k, b, i)[1] \in Q4rScalesBytes(k)..(Q4rRowBytes(k) - 1)
  <1> DEFINE blocks == k \div Qk
             scales == Q4rScalesBytes(k)
             row == Q4rRowBytes(k)
  <1>1. /\ blocks \in Nat /\ scales \in Nat /\ row \in Nat
        /\ row = scales + blocks * Align
    BY RowSizes
  <1>2. b \in 0..(blocks - 1) /\ i \in 0..(Align - 1)
    BY BlockSizes
  <1>3. b \in Nat
    <2> HIDE DEF blocks
    <2> QED BY <1>1, <1>2
  <1>4. b * Align + i \in 0..(Align * blocks - 1)
    BY <1>1, <1>2, BlockSizes, DigitFits
  <1>5. WeightByte(k, b, i)[1] = scales + b * Align + i
    BY BlockSizes DEF WeightByte
  <1>6. Align * blocks = blocks * Align /\ blocks * Align \in Nat /\ b * Align \in Nat
    <2> HIDE DEF blocks
    <2> QED BY <1>1, <1>3, BlockSizes
  <1> DEFINE c == blocks * Align
             d == b * Align
  <1>7. /\ scales + d + i = scales + (d + i)
        /\ d + i \in Nat
        /\ scales + d + i \in scales..(row - 1)
    <2>1. i \in Int /\ d \in Nat /\ c \in Nat
      BY <1>2, <1>6
    <2>2. row = scales + c /\ d + i \in 0..(c - 1)
      BY <1>1, <1>4, <1>6
    <2> HIDE DEF blocks, scales, row, c, d
    <2> QED BY <1>1, <2>1, <2>2
  <1> QED BY <1>2, <1>3, <1>5, <1>7

\* The places of a row are within it.
LEMMA RowOffsets ==
  ASSUME NEW k \in Nat, NEW m \in RepackRow(k)
  PROVE  m[1] \in 0..(Q4rRowBytes(k) - 1)
  <1>1. \A n \in Q4rScalesBytes(k)..(Q4rRowBytes(k) - 1) : n \in 0..(Q4rRowBytes(k) - 1)
    BY RowSizes
  <1>2. PICK b \in 0..(k \div Qk - 1) :
           \/ \E i \in 0..1 : m = ScaleByte(b, i)
           \/ \E i \in 0..(Qk \div 2 - 1) : m = WeightByte(k, b, i)
    BY RowConsistsOf
  <1>3. ASSUME NEW i \in 0..1, m = ScaleByte(b, i)
        PROVE  m[1] \in 0..(Q4rRowBytes(k) - 1)
    BY Zenon, <1>3, ScalePlace
  <1>4. ASSUME NEW i \in 0..(Qk \div 2 - 1), m = WeightByte(k, b, i)
        PROVE  m[1] \in 0..(Q4rRowBytes(k) - 1)
    BY Zenon, <1>1, <1>4, WeightPlace
  <1> QED BY Zenon, <1>2, <1>3, <1>4

\* No place of a row is written twice with different bytes.
LEMMA RowUnique ==
  ASSUME NEW k \in Nat, NEW m \in RepackRow(k), NEW n \in RepackRow(k), m[1] = n[1]
  PROVE  m[2] = n[2]
  <1>1. PICK b \in 0..(k \div Qk - 1) :
           \/ \E i \in 0..1 : m = ScaleByte(b, i)
           \/ \E i \in 0..(Qk \div 2 - 1) : m = WeightByte(k, b, i)
    BY RowConsistsOf
  <1>2. PICK c \in 0..(k \div Qk - 1) :
           \/ \E j \in 0..1 : n = ScaleByte(c, j)
           \/ \E j \in 0..(Qk \div 2 - 1) : n = WeightByte(k, c, j)
    BY RowConsistsOf
  <1>3. Q4rScalesBytes(k) \in Nat
    BY RowSizes
  <1>4. ASSUME NEW i \in 0..1, m = ScaleByte(b, i), NEW j \in 0..1, n = ScaleByte(c, j)
        PROVE  m[2] = n[2]
    <2>1. b \in Nat /\ c \in Nat /\ b * 2 + i = c * 2 + j
      BY Zenon, <1>4, ScalePlace
    <2>2. b = c /\ i = j
      BY <2>1
    <2> QED BY <1>4, <2>2
  <1>5. ASSUME NEW i \in 0..(Qk \div 2 - 1), m = WeightByte(k, b, i),
               NEW j \in 0..(Qk \div 2 - 1), n = WeightByte(k, c, j)
        PROVE  m[2] = n[2]
    <2>1. /\ b \in Nat /\ i \in 0..(Align - 1) /\ c \in Nat /\ j \in 0..(Align - 1)
          /\ b * Align + i \in Nat /\ c * Align + j \in Nat
          /\ m[1] = Q4rScalesBytes(k) + (b * Align + i)
          /\ n[1] = Q4rScalesBytes(k) + (c * Align + j)
      BY Zenon, <1>5, WeightPlace
    <2>2. b * Align + i = c * Align + j
      <3>1. ASSUME NEW p \in Nat, NEW q \in Nat, NEW z \in Nat, z + p = z + q
            PROVE  p = q
        BY <3>1
      <3> QED BY Zenon, <1>3, <2>1, <3>1
    <2>3. b = c /\ i = j
      BY <2>1, <2>2, BlockSizes, OneDigit
    <2> QED BY <1>5, <2>3
  <1>6. ASSUME NEW p \in 0..(Q4rScalesBytes(k) - 1),
               NEW q \in Q4rScalesBytes(k)..(Q4rRowBytes(k) - 1)
        PROVE  p # q
    BY <1>3, RowSizes
  <1>7. ASSUME NEW d \in 0..(k \div Qk - 1), NEW i \in 0..1,
               NEW e \in 0..(k \div Qk - 1), NEW j \in 0..(Qk \div 2 - 1)
        PROVE  ScaleByte(d, i)[1] # WeightByte(k, e, j)[1]
    <2>1. ScaleByte(d, i)[1] \in 0..(Q4rScalesBytes(k) - 1)
      BY Zenon, ScalePlace
    <2>2. WeightByte(k, e, j)[1] \in Q4rScalesBytes(k)..(Q4rRowBytes(k) - 1)
      BY Zenon, WeightPlace
    <2> QED BY Zenon, <2>1, <2>2, <1>6
  <1>8. ASSUME NEW i \in 0..1, m = ScaleByte(b, i)
        PROVE  m[2] = n[2]
    <2>1. ASSUME NEW j \in 0..(Qk \div 2 - 1), n = WeightByte(k, c, j)
          PROVE  FALSE
      <3>1. ScaleByte(b, i)[1] # WeightByte(k, c, j)[1]
        BY Zenon, <1>7
      <3> QED BY Zenon, <3>1, <1>8, <2>1
    <2> QED BY Zenon, <1>2, <1>4, <1>8, <2>1
  <1>9. ASSUME NEW i \in 0..(Qk \div 2 - 1), m = WeightByte(k, b, i)
        PROVE  m[2] = n[2]
    <2>1. ASSUME NEW j \in 0..1, n = ScaleByte(c, j)
          PROVE  FALSE
      <3>1. ScaleByte(c, j)[1] # WeightByte(k, b, i)[1]
        BY Zenon, <1>7
      <3> QED BY Zenon, <3>1, <1>9, <2>1
    <2> QED BY Zenon, <1>2, <1>5, <1>9, <2>1
  <1> QED BY Zenon, <1>1, <1>8, <1>9

\* Where byte j of row r of a tensor comes from.
FromRow(tensor, l, e, rows, k, r, j) ==
  [tensor |-> tensor, layer |-> l, byte |-> (e * rows + r) * RowBytes(k) + j]

\* A byte of a tensor is one of a row.
LEMMA RowsConsistOf ==
  ASSUME NEW tensor, NEW l, NEW e, NEW rows, NEW k, NEW at,
         NEW m \in RepackRows(tensor, l, e, rows, k, at)
  PROVE  \E r \in 0..(rows - 1) : \E p \in RepackRow(k) :
           m = <<at + r * Q4rRowBytes(k) + p[1], FromRow(tensor, l, e, rows, k, r, p[2])>>
  BY Zenon DEF RepackRows, FromRow

\* Every byte of each row is among those of its tensor.
LEMMA RowInRows ==
  ASSUME NEW tensor, NEW l, NEW e, NEW rows, NEW k, NEW at,
         NEW r \in 0..(rows - 1), NEW p \in RepackRow(k)
  PROVE  <<at + r * Q4rRowBytes(k) + p[1], FromRow(tensor, l, e, rows, k, r, p[2])>>
           \in RepackRows(tensor, l, e, rows, k, at)
  BY SMT DEF RepackRows, FromRow

\* The bytes of a tensor lie from at on, within the length of its rows.
LEMMA RowsOffsets ==
  ASSUME NEW tensor, NEW l, NEW e, NEW rows \in Nat, NEW k \in Nat, NEW at \in Nat,
         NEW m \in RepackRows(tensor, l, e, rows, k, at)
  PROVE  m[1] \in at..(at + Q4rRowBytes(k) * rows - 1)
  <1>1. PICK r \in 0..(rows - 1) : \E p \in RepackRow(k) :
           m = <<at + r * Q4rRowBytes(k) + p[1], FromRow(tensor, l, e, rows, k, r, p[2])>>
    BY RowsConsistOf
  <1>2. PICK p \in RepackRow(k) :
           m = <<at + r * Q4rRowBytes(k) + p[1], FromRow(tensor, l, e, rows, k, r, p[2])>>
    BY <1>1
  <1>3. Q4rRowBytes(k) \in Nat /\ p[1] \in 0..(Q4rRowBytes(k) - 1)
    BY RowSizes, RowOffsets
  <1> DEFINE c == r * Q4rRowBytes(k)
             q == Q4rRowBytes(k) * rows
  <1>4. c + p[1] \in 0..(q - 1)
    BY <1>3, DigitFits
  <1>5. c \in Nat /\ q \in Nat
    BY <1>3
  <1>6. m[1] = at + c + p[1]
    BY <1>2
  <1> HIDE DEF c, q
  <1>7. m[1] \in at..(at + q - 1)
    BY <1>3, <1>4, <1>5, <1>6
  <1> QED BY <1>7 DEF q

\* No place of a tensor is written twice with different bytes.
LEMMA RowsUnique ==
  ASSUME NEW tensor, NEW l, NEW e, NEW rows \in Nat, NEW k \in Nat, NEW at \in Nat,
         NEW m \in RepackRows(tensor, l, e, rows, k, at),
         NEW n \in RepackRows(tensor, l, e, rows, k, at), m[1] = n[1]
  PROVE  m[2] = n[2]
  <1>1. PICK r \in 0..(rows - 1), p \in RepackRow(k) :
           m = <<at + r * Q4rRowBytes(k) + p[1], FromRow(tensor, l, e, rows, k, r, p[2])>>
    BY RowsConsistOf
  <1>2. PICK s \in 0..(rows - 1), q \in RepackRow(k) :
           n = <<at + s * Q4rRowBytes(k) + q[1], FromRow(tensor, l, e, rows, k, s, q[2])>>
    BY RowsConsistOf
  <1>3. /\ Q4rRowBytes(k) \in Nat /\ r \in Nat /\ s \in Nat
        /\ p[1] \in 0..(Q4rRowBytes(k) - 1) /\ q[1] \in 0..(Q4rRowBytes(k) - 1)
    BY RowSizes, RowOffsets
  <1> DEFINE c == r * Q4rRowBytes(k)
             d == s * Q4rRowBytes(k)
  <1>4. c + p[1] = d + q[1]
    <2>1. at + c + p[1] = at + d + q[1] /\ c \in Nat /\ d \in Nat
      BY <1>1, <1>2, <1>3
    <2> HIDE DEF c, d
    <2> QED BY <1>3, <2>1
  <1>5. r = s /\ p[1] = q[1]
    BY <1>3, <1>4, OneDigit
  <1>6. p[2] = q[2]
    BY <1>5, RowUnique
  <1> QED BY <1>1, <1>2, <1>5, <1>6

\* An expert consists of the rows of its two tensors, one behind the other.
LEMMA ExpertSizes ==
  /\ Hidden \in Nat /\ Inter \in Nat /\ GuRows \in Nat
  /\ GuBytes \in Nat /\ GuBytes = Q4rRowBytes(Hidden) * GuRows /\ Multiple(GuBytes)
  /\ Eb \in Nat /\ Eb = GuBytes + Q4rRowBytes(Inter) * Hidden /\ Multiple(Eb)
  /\ Q4rRowBytes(Inter) * Hidden \in Nat
  <1>1. Hidden \in Nat /\ Inter \in Nat /\ GuRows \in Nat
    BY BankConstants DEF GuRows
  <1>2. /\ Q4rRowBytes(Hidden) \in Nat /\ Multiple(Q4rRowBytes(Hidden))
        /\ Q4rRowBytes(Inter) \in Nat /\ Multiple(Q4rRowBytes(Inter))
    BY <1>1, RowSizes
  <1>3. Multiple(Q4rRowBytes(Hidden) * GuRows) /\ Multiple(Q4rRowBytes(Inter) * Hidden)
    BY Zenon, <1>1, <1>2, MultipleTimes
  <1>4. Q4rRowBytes(Hidden) * GuRows \in Nat /\ Q4rRowBytes(Inter) * Hidden \in Nat
    BY <1>1, <1>2
  <1>5. GuBytes \in Nat /\ GuBytes = Q4rRowBytes(Hidden) * GuRows /\ Multiple(GuBytes)
    BY Zenon, <1>3, <1>4 DEF GuBytes
  <1>6. Eb = GuBytes + Q4rRowBytes(Inter) * Hidden
    BY Zenon DEF Eb
  <1>7. Eb \in Nat
    BY <1>4, <1>5, <1>6
  <1>8. Multiple(Eb)
    BY Zenon, <1>3, <1>5, <1>6, MultipleSum
  <1> QED BY <1>1, <1>4, <1>5, <1>6, <1>7, <1>8

Experts == 0..(ExpertsPerLayer - 1)

\* An expert begins at a multiple.
LEMMA ExpertPlace ==
  ASSUME NEW l \in Nat, NEW e \in Experts
  PROVE  /\ l * ExpertsPerLayer + e \in Nat
         /\ ExpertAt(l, e) \in Nat /\ Multiple(ExpertAt(l, e))
         /\ ExpertAt(l, e) + GuBytes \in Nat /\ Multiple(ExpertAt(l, e) + GuBytes)
  <1>1. l * ExpertsPerLayer \in Nat /\ e \in Nat
    BY BankConstants DEF Experts
  <1>2. l * ExpertsPerLayer + e \in Nat
    BY <1>1
  <1>3. Multiple(ExpertAt(l, e))
    BY Zenon, <1>2, ExpertSizes, MultipleTimes DEF ExpertAt
  <1>4. \A n, m \in Nat : n * m \in Nat /\ n + m \in Nat
    OBVIOUS
  <1>5. ExpertAt(l, e) \in Nat
    BY Zenon, <1>2, <1>4, ExpertSizes DEF ExpertAt
  <1> QED BY Zenon, <1>2, <1>3, <1>4, <1>5, ExpertSizes, MultipleSum

\* The bytes of an expert lie within its part of the bank, the first tensor's before
\* the second's.
LEMMA ExpertOffsets ==
  ASSUME NEW l \in Nat, NEW e \in Experts
  PROVE  /\ \A m \in RepackRows("gate_up", l, e, GuRows, Hidden, ExpertAt(l, e)) :
              m[1] \in ExpertAt(l, e)..(ExpertAt(l, e) + GuBytes - 1)
         /\ \A m \in RepackRows("down", l, e, Hidden, Inter, ExpertAt(l, e) + GuBytes) :
              m[1] \in (ExpertAt(l, e) + GuBytes)..(ExpertAt(l, e) + Eb - 1)
  <1> DEFINE at == ExpertAt(l, e)
             down == Q4rRowBytes(Inter) * Hidden
  <1>1. /\ at \in Nat /\ at + GuBytes \in Nat /\ GuBytes \in Nat /\ Eb = GuBytes + down
        /\ down \in Nat
    BY ExpertPlace, ExpertSizes
  <1>2. ASSUME NEW m \in RepackRows("gate_up", l, e, GuRows, Hidden, at)
        PROVE  m[1] \in at..(at + GuBytes - 1)
    BY Zenon, <1>1, RowsOffsets, ExpertSizes
  <1>3. ASSUME NEW m \in RepackRows("down", l, e, Hidden, Inter, at + GuBytes)
        PROVE  m[1] \in (at + GuBytes)..(at + GuBytes + down - 1)
    BY Zenon, <1>1, RowsOffsets, ExpertSizes
  <1>4. at + GuBytes + down - 1 = at + Eb - 1
    <2> HIDE DEF at, down
    <2> QED BY <1>1
  <1> QED BY Zenon, <1>2, <1>3, <1>4

\* The bytes of an expert lie within its part of the bank.
LEMMA ExpertWithin ==
  ASSUME NEW l \in Nat, NEW e \in Experts, NEW m \in ExpertBytes(l, e)
  PROVE  m[1] \in ExpertAt(l, e)..(ExpertAt(l, e) + Eb - 1)
  <1> DEFINE at == ExpertAt(l, e)
             down == Q4rRowBytes(Inter) * Hidden
  <1>1. /\ at \in Nat /\ GuBytes \in Nat /\ Eb = GuBytes + down /\ down \in Nat
    BY ExpertPlace, ExpertSizes
  <1>2. m[1] \in at..(at + GuBytes - 1) \/ m[1] \in (at + GuBytes)..(at + Eb - 1)
    BY Zenon, ExpertOffsets DEF ExpertBytes
  <1> HIDE DEF at, down
  <1>3. m[1] \in at..(at + Eb - 1)
    BY <1>1, <1>2
  <1> QED BY <1>3 DEF at

\* No place of an expert is written twice with different bytes.
LEMMA ExpertUnique ==
  ASSUME NEW l \in Nat, NEW e \in Experts,
         NEW m \in ExpertBytes(l, e), NEW n \in ExpertBytes(l, e), m[1] = n[1]
  PROVE  m[2] = n[2]
  <1> DEFINE at == ExpertAt(l, e)
             Gu == RepackRows("gate_up", l, e, GuRows, Hidden, at)
             Down == RepackRows("down", l, e, Hidden, Inter, at + GuBytes)
  <1>1. (m \in Gu \/ m \in Down) /\ (n \in Gu \/ n \in Down)
    BY Zenon DEF ExpertBytes
  <1>2. at \in Nat /\ at + GuBytes \in Nat /\ Hidden \in Nat /\ Inter \in Nat /\ GuRows \in Nat
    BY Zenon, ExpertPlace, ExpertSizes
  <1>3. ASSUME NEW p \in Gu, NEW q \in Down
        PROVE  p[1] # q[1]
    <2>1. p[1] \in at..(at + GuBytes - 1) /\ q[1] \in (at + GuBytes)..(at + Eb - 1)
      BY Zenon, ExpertOffsets
    <2>2. GuBytes \in Nat /\ Eb \in Nat
      BY ExpertSizes
    <2> HIDE DEF at
    <2> QED BY <1>2, <2>1, <2>2
  <1>4. CASE m \in Gu /\ n \in Gu
    <2> HIDE DEF at
    <2> QED BY <1>2, <1>4, RowsUnique
  <1>5. CASE m \in Down /\ n \in Down
    <2> HIDE DEF at
    <2> QED BY <1>2, <1>5, RowsUnique
  <1> HIDE DEF Gu, Down
  <1> QED BY Zenon, <1>1, <1>3, <1>4, <1>5

\* Two experts have no place in common.
LEMMA ExpertsApart ==
  ASSUME NEW k \in Nat, NEW d \in Experts, NEW l \in Nat, NEW e \in Experts,
         NEW m \in ExpertBytes(k, d), NEW n \in ExpertBytes(l, e), m[1] = n[1]
  PROVE  k = l /\ d = e
  <1> DEFINE i == k * ExpertsPerLayer + d
             j == l * ExpertsPerLayer + e
             p == i * Eb
             q == j * Eb
  <1>1. /\ Eb \in Nat /\ i \in Nat /\ j \in Nat /\ ExpertsPerLayer \in Nat
        /\ m[1] \in p..(p + Eb - 1) /\ n[1] \in q..(q + Eb - 1)
    BY Zenon, ExpertSizes, ExpertPlace, ExpertWithin, BankConstants DEF ExpertAt
  <1>2. p \in Nat /\ q \in Nat
    <2> HIDE DEF i, j
    <2> QED BY <1>1
  <1> DEFINE c == m[1] - p
             f == n[1] - q
  <1>3. c \in 0..(Eb - 1) /\ f \in 0..(Eb - 1) /\ p + c = q + f
    <2> HIDE DEF p, q
    <2> QED BY <1>1, <1>2
  <1>4. i = j
    <2> HIDE DEF i, j, c, f
    <2> QED BY <1>1, <1>3, OneDigit
  <1>5. d \in 0..(ExpertsPerLayer - 1) /\ e \in 0..(ExpertsPerLayer - 1)
    BY DEF Experts
  <1> QED BY <1>1, <1>4, <1>5, OneDigit

-----------------------------------------------------------------------------
(***************************************************************************)
(* What is in the bank.                                                    *)
(***************************************************************************)

\* Every byte of a loaded expert is where it was put.
BankInv ==
  /\ loading \in Nat /\ repacked \subseteq Experts
  /\ \A l \in Nat, e \in Experts :
       Loaded(l, e) => \A m \in ExpertBytes(l, e) : Holds(m[1], m[2])

\* The reader of a row (gemv_q8_r) computes the places that the writer used.
LEMMA ReaderMeetsWriter ==
  ASSUME NEW tensor, NEW l, NEW e \in Nat, NEW rows \in Nat, NEW k \in Nat,
         NEW at \in Nat, Multiple(at), NEW r \in 0..(rows - 1),
         \A m \in RepackRows(tensor, l, e, rows, k, at) : Holds(m[1], m[2])
  PROVE  ReadsRow(tensor, l, e, r, rows, k, at)
  <1> DEFINE row == at + r * Q4rRowBytes(k)
             start == (e * rows + r) * RowBytes(k)
             half == Qk \div 2
  <1>1. row \in Nat /\ Multiple(row)
    <2>1. r \in Nat /\ Q4rRowBytes(k) \in Nat /\ Multiple(Q4rRowBytes(k))
      BY RowSizes
    <2>2. Multiple(r * Q4rRowBytes(k))
      BY Zenon, <2>1, MultipleTimes
    <2>3. r * Q4rRowBytes(k) \in Nat
      BY <2>1
    <2> QED BY <2>2, <2>3, MultipleSum
  <1>2. start \in Nat
    <2>1. (k \div Qk) * (2 + half) \in Nat
      <3>1. k \div Qk \in Nat
        BY RowSizes
      <3>2. 2 + half \in Nat
        BY BlockSizes
      <3>3. \A m, n \in Nat : m * n \in Nat
        OBVIOUS
      <3> QED BY Zenon, <3>1, <3>2, <3>3
    <2>2. RowBytes(k) \in Nat
      BY Zenon, <2>1 DEF RowBytes
    <2>3. e * rows + r \in Nat
      OBVIOUS
    <2> QED BY <2>2, <2>3
  <1>3. Q4rScalesBytes(k) \in Nat /\ Multiple(Q4rScalesBytes(k)) /\ half = Align /\ Align \in Nat
    BY RowSizes, BlockSizes
  <1> SUFFICES ASSUME NEW b \in 0..(k \div Qk - 1)
               PROVE  /\ (row + Q4rScalesBytes(k) + b * half) % Align = 0
                      /\ \A i \in 0..1 :
                           Holds(row + 2 * b + i,
                                 [tensor |-> tensor, layer |-> l,
                                  byte |-> start + b * (2 + half) + i])
                      /\ \A i \in 0..(half - 1) :
                           Holds(row + Q4rScalesBytes(k) + b * half + i,
                                 [tensor |-> tensor, layer |-> l,
                                  byte |-> start + b * (2 + half) + (2 + i)])
    BY Zenon DEF ReadsRow
  <1>4. b \in Nat
    BY RowSizes
  <1>5. (row + Q4rScalesBytes(k) + b * half) % Align = 0
    <2>1. Multiple(b * half)
      BY <1>3, <1>4 DEF Multiple
    <2>2. Multiple(row + Q4rScalesBytes(k) + b * half)
      BY Zenon, <1>1, <1>3, <2>1, MultipleSum
    <2> QED BY Zenon, <2>2, MultipleAligned
  <1>6. ASSUME NEW p \in RepackRow(k)
        PROVE  Holds(row + p[1], [tensor |-> tensor, layer |-> l, byte |-> start + p[2]])
    <2>1. <<row + p[1], FromRow(tensor, l, e, rows, k, r, p[2])>>
            \in RepackRows(tensor, l, e, rows, k, at)
      BY Zenon, RowInRows
    <2> DEFINE m == <<row + p[1], FromRow(tensor, l, e, rows, k, r, p[2])>>
    <2>2. Holds(m[1], m[2])
      BY Zenon, <2>1
    <2>3. m[1] = row + p[1] /\ m[2] = FromRow(tensor, l, e, rows, k, r, p[2])
      OBVIOUS
    <2> QED BY Zenon, <2>2, <2>3 DEF FromRow
  <1> DEFINE z == b * (2 + half)
             w == b * half
  <1>7. z \in Nat /\ w \in Nat
    BY <1>3, <1>4
  <1>8. ASSUME NEW i \in 0..1
        PROVE  Holds(row + 2 * b + i,
                     [tensor |-> tensor, layer |-> l, byte |-> start + z + i])
    <2>1. Holds(row + ScaleByte(b, i)[1],
                [tensor |-> tensor, layer |-> l, byte |-> start + ScaleByte(b, i)[2]])
      BY Zenon, <1>6, ScaleInRow
    <2>2. ScaleByte(b, i)[1] = 2 * b + i /\ ScaleByte(b, i)[2] = z + i
      BY DEF ScaleByte
    <2>3. row + (2 * b + i) = row + 2 * b + i /\ start + (z + i) = start + z + i
      <3> HIDE DEF row, start, z
      <3> QED BY <1>1, <1>2, <1>4, <1>7
    <2> QED BY Zenon, <2>1, <2>2, <2>3
  <1>9. ASSUME NEW i \in 0..(half - 1)
        PROVE  Holds(row + Q4rScalesBytes(k) + w + i,
                     [tensor |-> tensor, layer |-> l, byte |-> start + z + (2 + i)])
    <2>1. Holds(row + WeightByte(k, b, i)[1],
                [tensor |-> tensor, layer |-> l, byte |-> start + WeightByte(k, b, i)[2]])
      BY Zenon, <1>6, WeightInRow
    <2>2. WeightByte(k, b, i)[1] = Q4rScalesBytes(k) + w + i /\ WeightByte(k, b, i)[2] = z + 2 + i
      BY DEF WeightByte
    <2>3. i \in Nat
      BY <1>3
    <2>4. row + (Q4rScalesBytes(k) + w + i) = row + Q4rScalesBytes(k) + w + i
          /\ start + (z + 2 + i) = start + z + (2 + i)
      <3> HIDE DEF row, start, z, w, half
      <3> QED BY <1>1, <1>2, <1>3, <1>7, <2>3
    <2> QED BY Zenon, <2>1, <2>2, <2>4
  <1> QED BY Zenon, <1>5, <1>8, <1>9

\* The bank is empty at first.
LEMMA BankInitInv == BankInit => BankInv
  <1> SUFFICES ASSUME BankInit
               PROVE  BankInv
    OBVIOUS
  <1>1. loading = 0 /\ repacked = {}
    BY DEF BankInit
  <1>2. ASSUME NEW l \in Nat, NEW e \in Experts
        PROVE  ~Loaded(l, e)
    BY <1>1 DEF Loaded
  <1> QED BY <1>1, <1>2 DEF BankInv

\* An expert that is repacked is in place, and none that was is disturbed.
LEMMA RepackKeeps == BankInv /\ RepackExpert => BankInv'
  <1> SUFFICES ASSUME BankInv, RepackExpert
               PROVE  BankInv'
    OBVIOUS
  <1>1. loading \in Nat /\ repacked \subseteq Experts
    BY DEF BankInv
  <1>2. PICK d \in Experts :
           /\ d \notin repacked
           /\ LET written == ExpertBytes(loading, d)
                  offsets == {m[1] : m \in written}
              IN  bank' = [o \in offsets \cup DOMAIN bank |->
                            IF o \in offsets THEN (CHOOSE m \in written : m[1] = o)[2] ELSE bank[o]]
           /\ repacked' = repacked \cup {d}
    BY Zenon DEF RepackExpert, Experts
  <1> DEFINE written == ExpertBytes(loading, d)
             offsets == {m[1] : m \in written}
  <1>3. /\ repacked' = repacked \cup {d} /\ loading' = loading
        /\ bank' = [o \in offsets \cup DOMAIN bank |->
                     IF o \in offsets THEN (CHOOSE m \in written : m[1] = o)[2] ELSE bank[o]]
    BY Zenon, <1>2 DEF RepackExpert
  <1>4. ASSUME NEW m \in written
        PROVE  m[1] \in DOMAIN bank' /\ bank'[m[1]] = m[2]
    <2> DEFINE n == CHOOSE n \in written : n[1] = m[1]
    <2>1. n \in written /\ n[1] = m[1]
      BY Zenon
    <2>2. n[2] = m[2]
      BY Zenon, <1>1, <2>1, ExpertUnique
    <2>3. m[1] \in offsets
      OBVIOUS
    <2>4. m[1] \in DOMAIN bank' /\ bank'[m[1]] = n[2]
      <3> HIDE DEF written, offsets
      <3> QED BY Zenon, <1>3, <2>3 DEF n
    <2> QED BY Zenon, <2>2, <2>4
  <1>5. ASSUME NEW o \in DOMAIN bank, o \notin offsets
        PROVE  o \in DOMAIN bank' /\ bank'[o] = bank[o]
    <2> HIDE DEF written, offsets
    <2> QED BY Zenon, <1>3, <1>5
  <1>6. ASSUME NEW l \in Nat, NEW e \in Experts, Loaded(l, e)', NEW m \in ExpertBytes(l, e)
        PROVE  m[1] \in DOMAIN bank' /\ bank'[m[1]] = m[2]
    <2>1. CASE l = loading /\ e = d
      BY Zenon, <1>4, <2>1
    <2>2. CASE ~(l = loading /\ e = d)
      <3>1. Loaded(l, e)
        BY Zenon, <1>3, <1>6, <2>2 DEF Loaded
      <3>2. m[1] \in DOMAIN bank /\ bank[m[1]] = m[2]
        BY Zenon, <3>1 DEF BankInv, Holds
      <3>3. m[1] \notin offsets
        <4> SUFFICES ASSUME NEW n \in written, n[1] = m[1]
                     PROVE  FALSE
          BY Zenon
        <4> QED BY Zenon, <1>1, <2>2, ExpertsApart
      <3> QED BY Zenon, <1>5, <3>2, <3>3
    <2> QED BY <2>1, <2>2
  <1>7. loading' \in Nat /\ repacked' \subseteq Experts
    BY <1>1, <1>3
  <1> QED BY Zenon, <1>6, <1>7 DEF BankInv, Holds

\* The next layer begins when all experts of this one are done.
LEMMA NextLayerKeeps == BankInv /\ NextLayer => BankInv'
  <1> SUFFICES ASSUME BankInv, NextLayer
               PROVE  BankInv'
    OBVIOUS
  <1>1. /\ loading \in Nat /\ loading' = loading + 1 /\ bank' = bank
        /\ repacked = Experts /\ repacked' = {}
    BY DEF BankInv, NextLayer, Experts
  <1>2. ASSUME NEW l \in Nat, NEW e \in Experts, Loaded(l, e)'
        PROVE  Loaded(l, e)
    BY <1>1, <1>2 DEF Loaded
  <1>3. loading' \in Nat /\ repacked' \subseteq Experts
    BY <1>1
  <1>4. ASSUME NEW l \in Nat, NEW e \in Experts, Loaded(l, e)', NEW m \in ExpertBytes(l, e)
        PROVE  m[1] \in DOMAIN bank' /\ bank'[m[1]] = m[2]
    BY Zenon, <1>1, <1>2, <1>4 DEF BankInv, Holds
  <1> QED BY Zenon, <1>3, <1>4 DEF BankInv, Holds

\* For every size of the model and any order of the experts, what a GEMV reads as a
\* row is that row of the file, and its aligned loads are aligned.
THEOREM GemvAlwaysReadsTheFilesRows == BankSpec => []GemvReadsTheFilesRows
  <1>1. BankInv /\ [BankNext]_bankVars => BankInv'
    <2> SUFFICES ASSUME BankInv, [BankNext]_bankVars
                 PROVE  BankInv'
      OBVIOUS
    <2>1. CASE RepackExpert
      BY <2>1, RepackKeeps
    <2>2. CASE NextLayer
      BY <2>2, NextLayerKeeps
    <2>3. CASE MultiplyBlock \/ UNCHANGED bankVars
      <3>1. bank' = bank /\ loading' = loading /\ repacked' = repacked
        BY <2>3 DEF MultiplyBlock, bankVars
      <3> QED BY Zenon, <3>1 DEF BankInv, Loaded, Holds
    <2> QED BY <2>1, <2>2, <2>3 DEF BankNext
  <1>2. BankInv => GemvReadsTheFilesRows
    <2> SUFFICES ASSUME BankInv, NEW l \in 0..(BankLayers - 1), NEW e \in Experts, Loaded(l, e)
                 PROVE  /\ \A r \in 0..(GuRows - 1) :
                             ReadsRow("gate_up", l, e, r, GuRows, Hidden, ExpertAt(l, e))
                        /\ \A r \in 0..(Hidden - 1) :
                             ReadsRow("down", l, e, r, Hidden, Inter, ExpertAt(l, e) + GuBytes)
      BY Zenon DEF GemvReadsTheFilesRows, Experts
    <2>1. l \in Nat /\ e \in Nat
      BY BankConstants DEF Experts
    <2>2. \A m \in ExpertBytes(l, e) : Holds(m[1], m[2])
      BY Zenon, <2>1 DEF BankInv
    <2>3. /\ \A m \in RepackRows("gate_up", l, e, GuRows, Hidden, ExpertAt(l, e)) :
               Holds(m[1], m[2])
          /\ \A m \in RepackRows("down", l, e, Hidden, Inter, ExpertAt(l, e) + GuBytes) :
               Holds(m[1], m[2])
      BY Zenon, <2>2 DEF ExpertBytes
    <2>4. /\ ExpertAt(l, e) \in Nat /\ Multiple(ExpertAt(l, e))
          /\ ExpertAt(l, e) + GuBytes \in Nat /\ Multiple(ExpertAt(l, e) + GuBytes)
          /\ Hidden \in Nat /\ Inter \in Nat /\ GuRows \in Nat
      BY Zenon, <2>1, ExpertPlace, ExpertSizes
    <2>5. ASSUME NEW r \in 0..(GuRows - 1)
          PROVE  ReadsRow("gate_up", l, e, r, GuRows, Hidden, ExpertAt(l, e))
      BY Zenon, <2>1, <2>3, <2>4, ReaderMeetsWriter
    <2>6. ASSUME NEW r \in 0..(Hidden - 1)
          PROVE  ReadsRow("down", l, e, r, Hidden, Inter, ExpertAt(l, e) + GuBytes)
      BY Zenon, <2>1, <2>3, <2>4, ReaderMeetsWriter
    <2> QED BY Zenon, <2>5, <2>6
  <1> QED BY BankInitInv, <1>1, <1>2, PTL DEF BankSpec

-----------------------------------------------------------------------------
(***************************************************************************)
(* The runs of plan_runs.  They are kept in the order of their experts,    *)
(* with a gap between any two, and what has no run yet comes after them.   *)
(***************************************************************************)

EndOf(run) == run.start + run.count
Misses == PlanExperts \X PlanSlots
Runs == [start : Nat, count : Nat \ {0}, slots : Seq(PlanSlots)]

\* The misses without a run, by expert.
UnplannedInv ==
  /\ unplanned \in Seq(Misses)
  /\ \A i, j \in DOMAIN unplanned : i < j => unplanned[i][1] < unplanned[j][1]

\* Each run has one slot for each of its experts.
RunsInv ==
  /\ runs \in Seq(Runs)
  /\ \A i \in DOMAIN runs : Len(runs[i].slots) = runs[i].count

\* What is in a run or without one is what was missing.
CoverInv == (UNION {Copies(runs[i]) : i \in DOMAIN runs}) \cup ToSet(unplanned) = ToSet(missList)

\* Between two runs there is an expert that is not missing.
ApartInv == \A i, j \in DOMAIN runs : i < j => EndOf(runs[i]) < runs[j].start

\* What has no run yet comes after all runs.
BehindInv == \A i \in DOMAIN runs, k \in DOMAIN unplanned : EndOf(runs[i]) <= unplanned[k][1]

PlanInv == UnplannedInv /\ RunsInv /\ CoverInv /\ ApartInv /\ BehindInv

\* A list of misses has experts and slots in it.
LEMMA MissListsAreMisses ==
  ASSUME NEW list \in MissLists
  PROVE  list \in Seq(Misses)
  <1>1. PICK n \in 0..Cardinality(PlanSlots) : list \in [1..n -> Misses]
    BY DEF MissLists, Misses
  <1>2. CASE n \in Nat
    BY <1>1, <1>2
  <1>3. CASE n \notin Nat
    BY <1>3
  <1> QED BY <1>2, <1>3

\* A miss is a pair.
LEMMA MissesArePairs ==
  ASSUME NEW m \in Misses
  PROVE  m[1] \in Nat /\ m[2] \in PlanSlots /\ m = <<m[1], m[2]>>
  <1>1. PICK e \in PlanExperts, s \in PlanSlots : m = <<e, s>>
    BY DEF Misses
  <1>2. e \in Nat
    BY PlanConstants
  <1> QED BY <1>1, <1>2

\* Before the loop there are no runs, and the misses are in order.
LEMMA PlanInitInv == PlanInit => PlanInv
  <1> SUFFICES ASSUME PlanInit PROVE PlanInv
    OBVIOUS
  <1>1. missList \in Seq(Misses) /\ runs = <<>>
    BY Zenon, MissListsAreMisses DEF PlanInit
  <1>2. /\ unplanned \in [DOMAIN missList -> ToSet(missList)]
        /\ ToSet(unplanned) = ToSet(missList)
        /\ \A i, j \in DOMAIN unplanned : i < j => unplanned[i][1] < unplanned[j][1]
    BY DEF PlanInit, ByExpert
  <1>3. unplanned \in Seq(Misses)
    BY <1>1, <1>2 DEF ToSet
  <1>4. DOMAIN runs = {}
    BY <1>1
  <1> QED BY <1>1, <1>2, <1>3, <1>4 DEF PlanInv, UnplannedInv, RunsInv, CoverInv, ApartInv, BehindInv

\* What a run is made of.
LEMMA RunParts ==
  ASSUME NEW run \in Runs
  PROVE  /\ run.start \in Nat /\ run.count \in Nat \ {0} /\ run.slots \in Seq(PlanSlots)
         /\ run = [start |-> run.start, count |-> run.count, slots |-> run.slots]
         /\ EndOf(run) \in Nat /\ run.start < EndOf(run)
  <1>1. /\ run.start \in Nat /\ run.count \in Nat \ {0} /\ run.slots \in Seq(PlanSlots)
        /\ run = [start |-> run.start, count |-> run.count, slots |-> run.slots]
    BY DEF Runs
  <1> QED BY <1>1 DEF EndOf

\* A list and its elements.
LEMMA Elements ==
  ASSUME NEW S, NEW list \in Seq(S)
  PROVE  /\ Len(list) \in Nat /\ DOMAIN list = 1..Len(list)
         /\ \A i \in DOMAIN list : list[i] \in S
         /\ list # <<>> => Len(list) \in DOMAIN list /\ 1 \in DOMAIN list
  OBVIOUS

\* A list whose last element is another.
LEMMA AnotherLast ==
  ASSUME NEW S, NEW list \in Seq(S), list # <<>>, NEW new \in S, NEW now,
         now = Append(SubSeq(list, 1, Len(list) - 1), new)
  PROVE  /\ now \in Seq(S) /\ DOMAIN now = DOMAIN list /\ now[Len(list)] = new
         /\ \A i \in DOMAIN list : i # Len(list) => now[i] = list[i]
  <1> DEFINE front == SubSeq(list, 1, Len(list) - 1)
             n == Len(list)
  <1>1. n \in Nat \ {0} /\ DOMAIN list = 1..n
    OBVIOUS
  <1>2. front \in Seq(S) /\ Len(front) = n - 1 /\ \A i \in 1..(n - 1) : front[i] = list[i]
    BY <1>1
  <1> HIDE DEF front, n
  <1>3. /\ Append(front, new) \in Seq(S) /\ Len(Append(front, new)) = Len(front) + 1
        /\ \A i \in 1..Len(front) : Append(front, new)[i] = front[i]
        /\ Append(front, new)[Len(front) + 1] = new
    BY <1>2, AppendProperties
  <1>4. now = Append(front, new)
    BY DEF front, n
  <1>5. (n - 1) + 1 = n /\ \A i \in 1..n : i # n => i \in 1..(n - 1)
    BY <1>1
  <1>6. now \in Seq(S) /\ Len(now) = n /\ now[n] = new /\ \A i \in 1..n : i # n => now[i] = list[i]
    BY Zenon, <1>2, <1>3, <1>4, <1>5
  <1>7. DOMAIN now = 1..n
    BY Zenon, <1>6, Elements
  <1> QED BY Zenon, <1>1, <1>6, <1>7 DEF n

\* A list that has got one more element.
LEMMA OneMore ==
  ASSUME NEW S, NEW list \in Seq(S), NEW new \in S
  PROVE  /\ Append(list, new) \in Seq(S) /\ DOMAIN Append(list, new) = 1..(Len(list) + 1)
         /\ Append(list, new)[Len(list) + 1] = new
         /\ \A i \in 1..Len(list) : Append(list, new)[i] = list[i]
  <1>1. /\ Append(list, new) \in Seq(S) /\ Len(Append(list, new)) = Len(list) + 1
        /\ Append(list, new)[Len(list) + 1] = new
        /\ \A i \in 1..Len(list) : Append(list, new)[i] = list[i]
    BY AppendProperties
  <1>2. DOMAIN Append(list, new) = 1..Len(Append(list, new))
    BY Zenon, <1>1, Elements
  <1> QED BY Zenon, <1>1, <1>2

\* What is at most something smaller.
LEMMA AtMost ==
  ASSUME NEW a \in Nat, NEW b \in Nat, NEW c \in Nat, a <= b, b < c
  PROVE  a <= c
  OBVIOUS

\* A run that has got one more miss at its end copies what it did, and this miss.
LEMMA LongerRun ==
  ASSUME NEW run \in Runs, Len(run.slots) = run.count, NEW s \in PlanSlots
  PROVE  /\ Longer(run, s) \in Runs
         /\ Longer(run, s).start = run.start
         /\ EndOf(Longer(run, s)) = EndOf(run) + 1
         /\ Len(Longer(run, s).slots) = Longer(run, s).count
         /\ Copies(Longer(run, s)) = Copies(run) \cup {<<EndOf(run), s>>}
  <1> DEFINE new == Longer(run, s)
  <1>1. /\ run.start \in Nat /\ run.count \in Nat \ {0} /\ run.slots \in Seq(PlanSlots)
        /\ run = [start |-> run.start, count |-> run.count, slots |-> run.slots]
    BY Zenon, RunParts
  <1>2. new = [start |-> run.start, count |-> run.count + 1, slots |-> Append(run.slots, s)]
    BY DEF Longer
  <1>3. /\ new \in Runs /\ new.start = run.start /\ new.count = run.count + 1
        /\ new.slots = Append(run.slots, s)
    BY <1>1, <1>2 DEF Runs
  <1>4. Len(new.slots) = run.count + 1 /\ new.slots[run.count + 1] = s
    BY <1>1, <1>3
  <1>5. \A i \in 1..run.count : new.slots[i] = run.slots[i]
    BY <1>1, <1>3
  <1>6. 1..(run.count + 1) = 1..run.count \cup {run.count + 1}
    BY <1>1
  <1>7. run.start + (run.count + 1) - 1 = EndOf(run)
    BY <1>1 DEF EndOf
  <1> HIDE DEF new
  <1>8. Copies(new) = Copies(run) \cup {<<EndOf(run), s>>}
    BY <1>3, <1>4, <1>5, <1>6, <1>7 DEF Copies
  <1>9. EndOf(new) = EndOf(run) + 1
    BY <1>1, <1>3 DEF EndOf
  <1> QED BY <1>3, <1>4, <1>8, <1>9 DEF new

\* A run of one miss.
First(e, s) == [start |-> e, count |-> 1, slots |-> <<s>>]

\* It copies this miss.
LEMMA FirstRun ==
  ASSUME NEW e \in Nat, NEW s \in PlanSlots
  PROVE  /\ First(e, s) \in Runs
         /\ First(e, s).start = e
         /\ EndOf(First(e, s)) = e + 1
         /\ Len(First(e, s).slots) = First(e, s).count
         /\ Copies(First(e, s)) = {<<e, s>>}
  <1>1. First(e, s) \in Runs /\ Len(First(e, s).slots) = First(e, s).count
    BY DEF First, Runs
  <1>2. Copies(First(e, s)) = {<<e + i - 1, <<s>>[i]>> : i \in 1..1}
    BY DEF First, Copies
  <1>3. 1..1 = {1} /\ e + 1 - 1 = e
    OBVIOUS
  <1>4. Copies(First(e, s)) = {<<e, s>>}
    BY <1>2, <1>3
  <1> QED BY <1>1, <1>4 DEF First, EndOf

\* The step of the loop, in terms of the two.
LEMMA PlanMissStep ==
  ASSUME PlanInv, PlanMiss
  PROVE  \E e \in Nat, s \in PlanSlots :
           /\ unplanned # <<>> /\ unplanned[1] = <<e, s>>
           /\ unplanned' = Tail(unplanned) /\ missList' = missList
           /\ \/ /\ runs # <<>> /\ EndOf(runs[Len(runs)]) = e
                 /\ runs' = Append(SubSeq(runs, 1, Len(runs) - 1), Longer(runs[Len(runs)], s))
              \/ /\ runs # <<>> => EndOf(runs[Len(runs)]) # e
                 /\ runs' = Append(runs, First(e, s))
  <1> DEFINE e == unplanned[1][1]
             s == unplanned[1][2]
             last == runs[Len(runs)]
  <1>1. unplanned \in Seq(Misses) /\ unplanned # <<>> /\ runs \in Seq(Runs)
    BY DEF PlanInv, UnplannedInv, RunsInv, PlanMiss
  <1>2. unplanned[1] \in Misses
    BY <1>1
  <1>3. e \in Nat /\ s \in PlanSlots /\ unplanned[1] = <<e, s>>
    BY Zenon, <1>2, MissesArePairs
  <1>4. Continues(Last(runs), e) <=> EndOf(last) = e
    BY DEF Continues, EndOf, Last
  <1>5. /\ unplanned' = Tail(unplanned) /\ missList' = missList
        /\ runs' = IF runs # <<>> /\ Continues(Last(runs), e)
                   THEN Append(Front(runs), Longer(Last(runs), s))
                   ELSE Append(runs, First(e, s))
    BY DEF PlanMiss, First
  <1>6. Append(Front(runs), Longer(Last(runs), s)) = Append(SubSeq(runs, 1, Len(runs) - 1), Longer(last, s))
    BY Zenon DEF Front, Last
  <1>7. CASE runs # <<>> /\ Continues(Last(runs), e)
    <2>1. runs # <<>> /\ EndOf(last) = e /\ runs' = Append(SubSeq(runs, 1, Len(runs) - 1), Longer(runs[Len(runs)], s))
      BY <1>4, <1>5, <1>6, <1>7
    <2> QED BY Zenon, <1>1, <1>3, <1>5, <2>1
  <1>8. CASE ~(runs # <<>> /\ Continues(Last(runs), e))
    <2>1. (runs # <<>> => EndOf(last) # e) /\ runs' = Append(runs, First(e, s))
      BY <1>4, <1>5, <1>8
    <2> QED BY Zenon, <1>1, <1>3, <1>5, <2>1
  <1> QED BY <1>7, <1>8

\* The first of the misses without a run, and the others.
LEMMA TakeFirst ==
  ASSUME NEW list \in Seq(Misses), list # <<>>, NEW rest, rest = Tail(list),
         \A i, j \in DOMAIN list : i < j => list[i][1] < list[j][1]
  PROVE  /\ rest \in Seq(Misses)
         /\ \A i, j \in DOMAIN rest : i < j => rest[i][1] < rest[j][1]
         /\ \A k \in DOMAIN rest : list[1][1] < rest[k][1]
         /\ 1 \in DOMAIN list
         /\ ToSet(list) = {list[1]} \cup ToSet(rest)
  <1>1. /\ rest \in Seq(Misses) /\ Len(rest) = Len(list) - 1 /\ Len(list) \in Nat \ {0}
        /\ DOMAIN list = 1..Len(list) /\ DOMAIN rest = 1..Len(rest)
        /\ \A k \in 1..Len(rest) : rest[k] = list[k + 1]
    OBVIOUS
  <1>2. \A i, j \in 1..Len(list) : i < j => list[i][1] < list[j][1]
    BY <1>1
  <1>3. \A k \in 1..Len(rest) : k + 1 \in 1..Len(list) /\ 1 < k + 1 /\ 1 \in 1..Len(list)
    BY <1>1
  <1>4. \A i, j \in 1..Len(rest) : i < j => i + 1 < j + 1
    BY <1>1
  <1>5. \A i, j \in 1..Len(rest) : i < j => rest[i][1] < rest[j][1]
    BY <1>1, <1>2, <1>3, <1>4
  <1>6. \A k \in 1..Len(rest) : list[1][1] < rest[k][1]
    BY <1>1, <1>2, <1>3
  <1>7. \A i \in 1..Len(list) : i = 1 \/ (i - 1 \in 1..Len(rest) /\ list[i] = rest[i - 1])
    BY <1>1
  <1>8. ToSet(list) = {list[1]} \cup ToSet(rest)
    <2>1. \A i \in 1..Len(list) : list[i] \in {list[1]} \cup {rest[k] : k \in 1..Len(rest)}
      BY <1>7
    <2>2. list[1] \in {list[i] : i \in 1..Len(list)}
      BY <1>1
    <2>3. \A k \in 1..Len(rest) : rest[k] \in {list[i] : i \in 1..Len(list)}
      BY <1>1, <1>3
    <2>4. ToSet(list) = {list[i] : i \in 1..Len(list)} /\ ToSet(rest) = {rest[k] : k \in 1..Len(rest)}
      BY Zenon, <1>1 DEF ToSet
    <2>5. ToSet(list) \subseteq {list[1]} \cup ToSet(rest)
      BY Zenon, <2>1, <2>4
    <2>6. {list[1]} \cup ToSet(rest) \subseteq ToSet(list)
      BY Zenon, <2>2, <2>3, <2>4
    <2> QED BY Zenon, <2>5, <2>6
  <1> QED BY <1>1, <1>5, <1>6, <1>8

\* Runs and misses without one that may follow those of the state.
NextRuns(now, rest) ==
  /\ now \in Seq(Runs)
  /\ \A i \in DOMAIN now : Len(now[i].slots) = now[i].count
  /\ (UNION {Copies(now[i]) : i \in DOMAIN now}) \cup ToSet(rest)
       = (UNION {Copies(runs[i]) : i \in DOMAIN runs}) \cup ToSet(unplanned)
  /\ \A i, j \in DOMAIN now : i < j => EndOf(now[i]) < now[j].start
  /\ \A i \in DOMAIN now, k \in DOMAIN rest : EndOf(now[i]) <= rest[k][1]

\* A step that makes the last run longer keeps the invariant.
LEMMA LongerStep ==
  ASSUME PlanInv, NEW e \in Nat, NEW s \in PlanSlots, NEW rest, NEW now,
         unplanned # <<>>, unplanned[1] = <<e, s>>, rest = Tail(unplanned),
         runs # <<>>, EndOf(runs[Len(runs)]) = e,
         now = Append(SubSeq(runs, 1, Len(runs) - 1), Longer(runs[Len(runs)], s))
  PROVE  NextRuns(now, rest)
  <1> DEFINE n == Len(runs)
             new == Longer(runs[n], s)
  <1>1. /\ runs \in Seq(Runs) /\ n \in Nat \ {0} /\ DOMAIN runs = 1..n
        /\ runs[n] \in Runs /\ Len(runs[n].slots) = runs[n].count
        /\ n \in 1..n
    <2>1. runs \in Seq(Runs) /\ \A i \in DOMAIN runs : Len(runs[i].slots) = runs[i].count
      BY DEF PlanInv, RunsInv
    <2>2. /\ n \in Nat /\ DOMAIN runs = 1..n /\ n \in DOMAIN runs
          /\ \A i \in DOMAIN runs : runs[i] \in Runs
      BY Zenon, <2>1, Elements
    <2> QED BY <2>1, <2>2
  <1>20. runs # <<>> /\ now = Append(SubSeq(runs, 1, n - 1), new)
    OBVIOUS
  <1> HIDE DEF new
  <1>2. /\ new \in Runs /\ new.start = runs[n].start /\ EndOf(new) = e + 1
        /\ Len(new.slots) = new.count /\ Copies(new) = Copies(runs[n]) \cup {<<e, s>>}
    BY Zenon, <1>1, LongerRun DEF new
  <1>3. /\ now[n] = new /\ \A i \in 1..n : i # n => now[i] = runs[i]
        /\ now \in Seq(Runs) /\ DOMAIN now = 1..n
    <2>1. /\ now \in Seq(Runs) /\ DOMAIN now = DOMAIN runs /\ now[Len(runs)] = new
          /\ \A i \in DOMAIN runs : i # Len(runs) => now[i] = runs[i]
      BY <1>1, <1>2, <1>20, AnotherLast
    <2> QED BY Zenon, <1>1, <2>1
  <1>4. /\ \A k \in DOMAIN rest : unplanned[1][1] < rest[k][1]
        /\ rest \in Seq(Misses) /\ ToSet(unplanned) = {unplanned[1]} \cup ToSet(rest)
        /\ 1 \in DOMAIN unplanned
    BY Zenon, TakeFirst DEF PlanInv, UnplannedInv
  <1>10. \A i \in 1..n : EndOf(runs[i]) \in Nat
    BY Zenon, <1>1, RunParts, Elements
  <1>11. \A i \in 1..n, k \in DOMAIN unplanned : EndOf(runs[i]) <= unplanned[k][1]
    BY Zenon, <1>1 DEF PlanInv, BehindInv
  <1>12. \A i, j \in 1..n : i < j => EndOf(runs[i]) < runs[j].start
    BY Zenon, <1>1 DEF PlanInv, ApartInv
  <1>13. \A i \in 1..n : Len(runs[i].slots) = runs[i].count
    BY Zenon, <1>1 DEF PlanInv, RunsInv
  <1>15. unplanned[1][1] = e
    OBVIOUS
  <1>14. \A k \in DOMAIN rest : e < rest[k][1] /\ rest[k][1] \in Nat
    <2>1. \A k \in DOMAIN rest : rest[k] \in Misses
      BY Zenon, <1>4, Elements
    <2> QED BY <1>4, <1>15, <2>1, MissesArePairs
  <1> HIDE DEF new, n
  <1>5. \A i \in 1..n : Len(now[i].slots) = now[i].count
    BY <1>2, <1>3, <1>13
  <1>7. UNION {Copies(now[i]) : i \in 1..n} = (UNION {Copies(runs[i]) : i \in 1..n}) \cup {<<e, s>>}
    <2>1. Copies(now[n]) = Copies(runs[n]) \cup {<<e, s>>} /\ n \in 1..n
      BY Zenon, <1>1, <1>2, <1>3
    <2>2. \A i \in 1..n : i # n => Copies(now[i]) = Copies(runs[i])
      BY Zenon, <1>3
    <2>6. \A i \in 1..n : Copies(now[i]) \subseteq Copies(runs[i]) \cup {<<e, s>>}
      BY Zenon, <2>1, <2>2
    <2>3. \A c : c \in UNION {Copies(now[i]) : i \in 1..n}
                  => c \in (UNION {Copies(runs[i]) : i \in 1..n}) \cup {<<e, s>>}
      <3> SUFFICES ASSUME NEW c, NEW i \in 1..n, c \in Copies(now[i])
                   PROVE  c \in (UNION {Copies(runs[j]) : j \in 1..n}) \cup {<<e, s>>}
        BY Zenon
      <3>1. c \in Copies(runs[i]) \cup {<<e, s>>}
        BY Zenon, <2>6
      <3> QED BY Zenon, <3>1
    <2>5. /\ \A i \in 1..n : Copies(runs[i]) \subseteq Copies(now[i])
          /\ <<e, s>> \in Copies(now[n]) /\ n \in 1..n
      BY Zenon, <2>1, <2>2
    <2>4. \A c : c \in (UNION {Copies(runs[i]) : i \in 1..n}) \cup {<<e, s>>}
                  => c \in UNION {Copies(now[i]) : i \in 1..n}
      <3>1. ASSUME NEW c, NEW i \in 1..n, c \in Copies(runs[i])
            PROVE  c \in UNION {Copies(now[j]) : j \in 1..n}
        <4>1. c \in Copies(now[i])
          BY Zenon, <2>5, <3>1
        <4> QED BY Zenon, <4>1
      <3>2. <<e, s>> \in UNION {Copies(now[j]) : j \in 1..n}
        BY Zenon, <2>5
      <3> QED BY Zenon, <3>1, <3>2
    <2> QED BY Zenon, <2>3, <2>4
  <1>8. \A i, j \in 1..n : i < j => EndOf(now[i]) < now[j].start
    <2>2. \A i, j \in 1..n : i < j => i # n
      BY <1>1
    <2>3. \A j \in 1..n : now[j].start = runs[j].start
      BY <1>2, <1>3
    <2> QED BY <1>3, <1>12, <2>2, <2>3
  <1>9. \A i \in 1..n, k \in DOMAIN rest : EndOf(now[i]) <= rest[k][1]
    <2> SUFFICES ASSUME NEW i \in 1..n, NEW k \in DOMAIN rest
                 PROVE  EndOf(now[i]) <= rest[k][1]
      OBVIOUS
    <2>1. e < rest[k][1] /\ rest[k][1] \in Nat
      BY <1>14
    <2>2. CASE i = n
      BY <1>2, <1>3, <2>1, <2>2
    <2>3. CASE i # n
      <3>1. EndOf(runs[i]) <= e
        BY <1>4, <1>11, <1>15
      <3>2. EndOf(now[i]) = EndOf(runs[i]) /\ EndOf(runs[i]) \in Nat
        BY Zenon, <1>3, <1>10, <2>3
      <3> QED BY Zenon, <2>1, <3>1, <3>2, AtMost
    <2> QED BY <2>2, <2>3
  <1> QED BY <1>1, <1>3, <1>4, <1>5, <1>7, <1>8, <1>9 DEF NextRuns

\* A step that begins a run keeps the invariant.
LEMMA FirstStep ==
  ASSUME PlanInv, NEW e \in Nat, NEW s \in PlanSlots, NEW rest, NEW now,
         unplanned # <<>>, unplanned[1] = <<e, s>>, rest = Tail(unplanned),
         runs # <<>> => EndOf(runs[Len(runs)]) # e,
         now = Append(runs, First(e, s))
  PROVE  NextRuns(now, rest)
  <1> DEFINE n == Len(runs)
             new == First(e, s)
  <1>1. /\ runs \in Seq(Runs) /\ n \in Nat /\ DOMAIN runs = 1..n
        /\ \A i \in 1..n : runs[i] \in Runs /\ Len(runs[i].slots) = runs[i].count
        /\ runs # <<>> <=> n > 0
    <2>1. runs \in Seq(Runs) /\ \A i \in DOMAIN runs : Len(runs[i].slots) = runs[i].count
      BY DEF PlanInv, RunsInv
    <2>2. /\ n \in Nat /\ DOMAIN runs = 1..n
          /\ \A i \in DOMAIN runs : runs[i] \in Runs
      BY Zenon, <2>1, Elements
    <2>3. runs # <<>> <=> n > 0
      BY <2>1
    <2> QED BY Zenon, <2>1, <2>2, <2>3
  <1>2. /\ new \in Runs /\ new.start = e /\ EndOf(new) = e + 1
        /\ Len(new.slots) = new.count /\ Copies(new) = {<<e, s>>}
    BY Zenon, FirstRun
  <1>20. now = Append(runs, new)
    OBVIOUS
  <1> HIDE DEF new
  <1>3. /\ now \in Seq(Runs) /\ DOMAIN now = 1..(n + 1) /\ now[n + 1] = new
        /\ \A i \in 1..n : now[i] = runs[i]
    BY <1>1, <1>2, <1>20, OneMore
  <1>4. /\ \A k \in DOMAIN rest : unplanned[1][1] < rest[k][1]
        /\ rest \in Seq(Misses) /\ ToSet(unplanned) = {unplanned[1]} \cup ToSet(rest)
        /\ 1 \in DOMAIN unplanned
    BY Zenon, TakeFirst DEF PlanInv, UnplannedInv
  <1>8. \A i \in 1..n : EndOf(runs[i]) \in Nat /\ runs[i].start \in Nat /\ runs[i].start < EndOf(runs[i])
    BY Zenon, <1>1, RunParts
  <1>9. \A i, j \in 1..n : i < j => EndOf(runs[i]) < runs[j].start
    BY Zenon, <1>1 DEF PlanInv, ApartInv
  <1>13. \A i \in 1..n, k \in DOMAIN unplanned : EndOf(runs[i]) <= unplanned[k][1]
    BY Zenon, <1>1 DEF PlanInv, BehindInv
  <1>15. unplanned[1][1] = e
    OBVIOUS
  <1>14. \A k \in DOMAIN rest : e < rest[k][1] /\ rest[k][1] \in Nat
    <2>1. \A k \in DOMAIN rest : rest[k] \in Misses
      BY Zenon, <1>4, Elements
    <2> QED BY <1>4, <1>15, <2>1, MissesArePairs
  <1>16. n > 0 => EndOf(runs[n]) # e
    BY <1>1
  <1> HIDE DEF n
  <1>5. \A i \in 1..(n + 1) : i = n + 1 \/ i \in 1..n
    BY <1>1
  <1>6. \A i \in 1..(n + 1) : Len(now[i].slots) = now[i].count
    BY <1>1, <1>2, <1>3, <1>5
  <1>7. UNION {Copies(now[i]) : i \in 1..(n + 1)} = (UNION {Copies(runs[i]) : i \in 1..n}) \cup {<<e, s>>}
    <2>1. \A i \in 1..n : i \in 1..(n + 1) /\ Copies(now[i]) = Copies(runs[i])
      BY <1>1, <1>3
    <2>2. n + 1 \in 1..(n + 1) /\ Copies(now[n + 1]) = {<<e, s>>}
      BY <1>1, <1>2, <1>3
    <2>3. \A c : c \in UNION {Copies(now[i]) : i \in 1..(n + 1)}
                  => c \in (UNION {Copies(runs[i]) : i \in 1..n}) \cup {<<e, s>>}
      BY Zenon, <1>5, <2>1, <2>2
    <2>4. \A c : c \in (UNION {Copies(runs[i]) : i \in 1..n}) \cup {<<e, s>>}
                  => c \in UNION {Copies(now[i]) : i \in 1..(n + 1)}
      BY Zenon, <2>1, <2>2
    <2> QED BY Zenon, <2>3, <2>4
  <1>10. \A i \in 1..n : EndOf(runs[i]) < e
    <2> SUFFICES ASSUME NEW i \in 1..n PROVE EndOf(runs[i]) < e
      OBVIOUS
    <2>1. EndOf(runs[n]) <= e /\ EndOf(runs[n]) # e /\ n \in 1..n
      BY <1>1, <1>4, <1>13, <1>15, <1>16
    <2>2. CASE i = n
      BY <1>8, <2>1, <2>2
    <2>3. CASE i < n
      <3>1. EndOf(runs[i]) < runs[n].start /\ runs[n].start < EndOf(runs[n])
        BY <1>8, <1>9, <2>1, <2>3
      <3> QED BY <1>8, <2>1, <3>1
    <2> QED BY <1>1, <2>2, <2>3
  <1>11. \A i, j \in 1..(n + 1) : i < j => EndOf(now[i]) < now[j].start
    <2>1. \A i, j \in 1..(n + 1) : i < j => i \in 1..n
      BY <1>1
    <2> QED BY <1>2, <1>3, <1>5, <1>9, <1>10, <2>1
  <1>12. \A i \in 1..(n + 1), k \in DOMAIN rest : EndOf(now[i]) <= rest[k][1]
    <2> SUFFICES ASSUME NEW i \in 1..(n + 1), NEW k \in DOMAIN rest
                 PROVE  EndOf(now[i]) <= rest[k][1]
      OBVIOUS
    <2>1. e < rest[k][1] /\ rest[k][1] \in Nat
      BY <1>14
    <2>2. CASE i = n + 1
      BY <1>2, <1>3, <2>1, <2>2
    <2>3. CASE i \in 1..n
      <3>1. EndOf(runs[i]) < e /\ EndOf(runs[i]) \in Nat
        BY <1>8, <1>10, <2>3
      <3>2. EndOf(now[i]) = EndOf(runs[i])
        BY Zenon, <1>3, <2>3
      <3> QED BY <2>1, <3>1, <3>2
    <2> QED BY <1>5, <2>2, <2>3
  <1> QED BY <1>1, <1>3, <1>4, <1>6, <1>7, <1>11, <1>12 DEF NextRuns

\* The loop keeps the invariant.
LEMMA PlanNextInv == PlanInv /\ [PlanNext]_planVars => PlanInv'
  <1> SUFFICES ASSUME PlanInv, [PlanNext]_planVars PROVE PlanInv'
    OBVIOUS
  <1>1. CASE PlanMiss
    <2>1. PICK e \in Nat, s \in PlanSlots :
            /\ unplanned # <<>> /\ unplanned[1] = <<e, s>>
            /\ unplanned' = Tail(unplanned) /\ missList' = missList
            /\ \/ /\ runs # <<>> /\ EndOf(runs[Len(runs)]) = e
                  /\ runs' = Append(SubSeq(runs, 1, Len(runs) - 1), Longer(runs[Len(runs)], s))
               \/ /\ runs # <<>> => EndOf(runs[Len(runs)]) # e
                  /\ runs' = Append(runs, First(e, s))
      BY Zenon, <1>1, PlanMissStep
    <2>2. NextRuns(runs', unplanned')
      <3>1. CASE runs # <<>> /\ EndOf(runs[Len(runs)]) = e
                 /\ runs' = Append(SubSeq(runs, 1, Len(runs) - 1), Longer(runs[Len(runs)], s))
        BY Zenon, <2>1, <3>1, LongerStep
      <3>2. CASE (runs # <<>> => EndOf(runs[Len(runs)]) # e) /\ runs' = Append(runs, First(e, s))
        BY Zenon, <2>1, <3>2, FirstStep
      <3> QED BY Zenon, <2>1, <3>1, <3>2
    <2>3. UnplannedInv'
      BY Zenon, <2>1, TakeFirst DEF PlanInv, UnplannedInv
    <2>4. CoverInv'
      BY Zenon, <2>1, <2>2 DEF PlanInv, CoverInv, Copies, ToSet, NextRuns
    <2> QED BY <2>2, <2>3, <2>4 DEF PlanInv, RunsInv, ApartInv, BehindInv, EndOf, NextRuns
  <1>2. CASE UNCHANGED planVars
    BY <1>2 DEF planVars, PlanInv, UnplannedInv, RunsInv, CoverInv, ApartInv, BehindInv, EndOf, Copies, ToSet
  <1> QED BY <1>1, <1>2 DEF PlanNext

\* Two runs with a gap between them copy nothing twice, and none begins at the other's end.
LEMMA GapsSeparate ==
  ASSUME RunsInv, ApartInv, NEW i \in DOMAIN runs, NEW j \in DOMAIN runs
  PROVE  /\ EndOf(runs[i]) # runs[j].start
         /\ i # j => Copies(runs[i]) \cap Copies(runs[j]) = {}
  <1>1. \A k \in DOMAIN runs : runs[k].start \in Nat /\ runs[k].count \in Nat \ {0}
    BY Zenon, Elements, RunParts DEF RunsInv
  <1>2. \A k \in DOMAIN runs : \A c \in Copies(runs[k]) : runs[k].start <= c[1] /\ c[1] < EndOf(runs[k])
    BY <1>1 DEF Copies, EndOf
  <1>3. \A k \in DOMAIN runs : \A c \in Copies(runs[k]) : c[1] \in Int
    BY <1>1 DEF Copies
  <1>4. i \in Nat /\ j \in Nat
    BY DEF RunsInv
  <1>5. EndOf(runs[i]) \in Nat /\ EndOf(runs[j]) \in Nat
    BY <1>1 DEF EndOf
  <1>6. CASE i < j
    <2>1. EndOf(runs[i]) < runs[j].start
      BY <1>6 DEF ApartInv
    <2> QED BY <1>1, <1>2, <1>3, <1>5, <2>1
  <1>7. CASE j < i
    <2>1. EndOf(runs[j]) < runs[i].start
      BY <1>7 DEF ApartInv
    <2>2. runs[j].start < EndOf(runs[j]) /\ runs[i].start < EndOf(runs[i])
      BY <1>1 DEF EndOf
    <2> QED BY <1>1, <1>2, <1>3, <1>5, <2>1, <2>2
  <1>8. CASE i = j
    BY <1>1, <1>8 DEF EndOf
  <1> QED BY <1>4, <1>6, <1>7, <1>8

\* The runs of plan_runs copy every miss of the layer into its slot, each once, and
\* adjacent experts always share a run.
THEOREM RunsCopyTheMisses == PlanSpec => []RunsCopyEachMissOnce
  <1>1. PlanInv => RunsCopyEachMissOnce
    <2> SUFFICES ASSUME PlanInv, unplanned = <<>> PROVE RunsCopyEachMissOnce
      BY DEF RunsCopyEachMissOnce
    <2>1. ToSet(unplanned) = {}
      BY DEF ToSet
    <2>2. UNION {Copies(runs[i]) : i \in DOMAIN runs} = ToSet(missList)
      BY <2>1 DEF PlanInv, CoverInv
    <2>3. \A i, j \in DOMAIN runs : /\ EndOf(runs[i]) # runs[j].start
                                    /\ i # j => Copies(runs[i]) \cap Copies(runs[j]) = {}
      BY Zenon, GapsSeparate DEF PlanInv
    <2> QED BY <2>2, <2>3 DEF PlanInv, RunsInv, RunsCopyEachMissOnce, EndOf
  <1> QED BY <1>1, PlanInitInv, PlanNextInv, PTL DEF PlanSpec

=============================================================================
