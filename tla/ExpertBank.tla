------------------------------ MODULE ExpertBank ------------------------------
(***************************************************************************)
(* Where the weights of the experts lie in host memory, and what the CPU   *)
(* makes of them (ft-core/src/q4_0.rs, ft-model/src/lib.rs).  Model::load  *)
(* repacks every expert's q4_0 rows into the layout q4r, the experts of a  *)
(* layer in parallel; gemv_q8_r reads the rows back, as does the device    *)
(* after the expert has been copied.  The module has two parts that share  *)
(* the layout: which byte is where, and the integer arithmetic of a block. *)
(*                                                                         *)
(* A byte is named after its place in the file; a block has 2 bytes of     *)
(* scale and Qk \div 2 bytes of two weights each.                          *)
(***************************************************************************)
EXTENDS Integers

CONSTANTS
  Qk,            \* weights of a block: QK, 32 in the code
  Align,         \* 16: what the scales are padded to, and what _mm_load_si128 asks for
  BankLayers, ExpertsPerLayer,
  Hidden, Inter, \* HIDDEN and moe_inter
  Nibbles, Activations  \* the values of weights and of q8 that blocks are made of

ASSUME BankConstants ==
  /\ Align \in Nat \ {0} /\ Qk = 2 * Align
  /\ BankLayers \in Nat /\ ExpertsPerLayer \in Nat \ {0}
  /\ Hidden \in Nat \ {0} /\ Inter \in Nat \ {0}
  /\ Hidden % Qk = 0 /\ Inter % Qk = 0
  /\ Nibbles \subseteq 0..15 /\ Activations \subseteq -127..127

VARIABLES
  bank,     \* HostBanks: offset -> the byte there, of those that have been written
  loading,  \* the layer being repacked
  repacked, \* its experts that are done
  block,    \* a block and the activations for it: [w, x]
  dots      \* how the CPU has multiplied it: kernel -> integer sum

bankVars == <<bank, loading, repacked, block, dots>>

RowBytes(k) == (k \div Qk) * (2 + Qk \div 2)

\* Mutant of Q4rScalesBytes: the scales are not padded.
Q4rScalesUnpadded(k) == (k \div Qk) * 2
Q4rScalesBytes(k) == (((k \div Qk) * 2 + Align - 1) \div Align) * Align
Q4rRowBytes(k) == Q4rScalesBytes(k) + (k \div Qk) * (Qk \div 2)

GuRows == 2 * Inter
GuBytes == Q4rRowBytes(Hidden) * GuRows
Eb == GuBytes + Q4rRowBytes(Inter) * Hidden

\* repack_row_q4r: offset in the new row -> offset in the old one.
RepackRow(k) ==
  LET blocks == 0..(k \div Qk - 1)
      old(b) == b * (2 + Qk \div 2)
      scales == UNION {{<<2 * b + i, old(b) + i>> : i \in 0..1} : b \in blocks}
      qs == UNION {{<<Q4rScalesBytes(k) + b * (Qk \div 2) + i, old(b) + 2 + i>> :
                      i \in 0..(Qk \div 2 - 1)} : b \in blocks}
  IN  scales \cup qs

\* A tensor's rows as they are written to the bank from offset at on.
RepackRows(tensor, l, e, rows, k, at) ==
  UNION {{<<at + r * Q4rRowBytes(k) + m[1],
            [tensor |-> tensor, layer |-> l, byte |-> (e * rows + r) * RowBytes(k) + m[2]]>> :
             m \in RepackRow(k)} : r \in 0..(rows - 1)}

BankInit ==
  /\ bank = <<>>
  /\ loading = 0 /\ repacked = {} /\ dots = <<>>
  /\ block \in {<<>>} \cup [w : [1..4 -> Nibbles], x : [1..4 -> Activations]]

\* Where an expert lies in the bank, and the bytes that are written there.
ExpertAt(l, e) == (l * ExpertsPerLayer + e) * Eb
ExpertBytes(l, e) ==
  RepackRows("gate_up", l, e, GuRows, Hidden, ExpertAt(l, e))
    \cup RepackRows("down", l, e, Hidden, Inter, ExpertAt(l, e) + GuBytes)

\* One expert of the layer; rayon takes them in any order.
RepackExpert ==
  /\ block = <<>> /\ loading < BankLayers
  /\ \E e \in (0..(ExpertsPerLayer - 1)) \ repacked :
       LET written == ExpertBytes(loading, e)
           offsets == {m[1] : m \in written}
       IN  /\ bank' = [o \in offsets \cup DOMAIN bank |->
                         IF o \in offsets THEN (CHOOSE m \in written : m[1] = o)[2] ELSE bank[o]]
           /\ repacked' = repacked \cup {e}
  /\ UNCHANGED <<loading, block, dots>>

NextLayer ==
  /\ block = <<>> /\ loading < BankLayers /\ repacked = 0..(ExpertsPerLayer - 1)
  /\ loading' = loading + 1 /\ repacked' = {}
  /\ UNCHANGED <<bank, block, dots>>

-----------------------------------------------------------------------------
\* The arithmetic of a block of four weights, packed as in q4_0: byte i has weight
\* i below and weight i + 2 above.

Sum4(f) == f[1] + f[2] + f[3] + f[4]
PackedBytes(w) == [i \in 1..2 |-> w[i] + 16 * w[i + 2]]

\* dot_q4_q8_scalar and dot_q4r_q8_scalar
DotScalar(b, x) ==
  LET lo(i) == (b[i] % 16) - 8
      hi(i) == (b[i] \div 16) - 8
  IN  lo(1) * x[1] + hi(1) * x[3] + lo(2) * x[2] + hi(2) * x[4]

\* _mm256_maddubs_epi16: adjacent products added, and cut off at 16 bits.
Saturated(n) == IF n > 32767 THEN 32767 ELSE IF n < -32768 THEN -32768 ELSE n
Maddubs(u, s) == <<Saturated(u[1] * s[1] + u[2] * s[2]), Saturated(u[3] * s[3] + u[4] * s[4])>>

\* Mutant of Unpacked: the weights of a byte next to each other.
UnpackedInterleaved(b) == <<b[1] % 16, b[1] \div 16, b[2] % 16, b[2] \div 16>>
\* The lanes after the shift and the mask: the low weights, then the high ones.
Unpacked(b) == <<b[1] % 16, b[2] % 16, b[1] \div 16, b[2] \div 16>>

\* dot_q4_q8_avx2 and dot_q4r_q8_avx2: weights from 0 to 15, and 8 * x taken off.
DotAvx2(b, x) ==
  LET prod == Maddubs(Unpacked(b), x)
      off == Maddubs(<<8, 8, 8, 8>>, x)
  IN  (prod[1] - off[1]) + (prod[2] - off[2])

\* gemv_q8 and gemv_q8_r take the kernel that the processor has.
MultiplyBlock ==
  /\ block # <<>> /\ dots = <<>>
  /\ dots' = [scalar |-> DotScalar(PackedBytes(block.w), block.x),
              avx2 |-> DotAvx2(PackedBytes(block.w), block.x)]
  /\ UNCHANGED <<bank, loading, repacked, block>>

BankNext == RepackExpert \/ NextLayer \/ MultiplyBlock
BankSpec == BankInit /\ [][BankNext]_bankVars

-----------------------------------------------------------------------------
\* Properties

\* What a GEMV over a loaded expert reads as block b of row r is that block of the
\* row in the file, whatever order the experts were repacked in, and the 16 bytes
\* of its weights are loaded from where an aligned load may be made.
Holds(offset, byte) == offset \in DOMAIN bank /\ bank[offset] = byte
Loaded(l, e) == l < loading \/ (l = loading /\ e \in repacked)
ReadsRow(tensor, l, e, r, rows, k, at) ==
  \A b \in 0..(k \div Qk - 1) :
    LET row == at + r * Q4rRowBytes(k)
        qs == row + Q4rScalesBytes(k) + b * (Qk \div 2)
        from == (e * rows + r) * RowBytes(k) + b * (2 + Qk \div 2)
        src(i) == [tensor |-> tensor, layer |-> l, byte |-> from + i]
    IN  /\ qs % Align = 0
        /\ \A i \in 0..1 : Holds(row + 2 * b + i, src(i))
        /\ \A i \in 0..(Qk \div 2 - 1) : Holds(qs + i, src(2 + i))
GemvReadsTheFilesRows ==
  \A l \in 0..(BankLayers - 1), e \in 0..(ExpertsPerLayer - 1) :
    Loaded(l, e) =>
      /\ \A r \in 0..(GuRows - 1) : ReadsRow("gate_up", l, e, r, GuRows, Hidden, ExpertAt(l, e))
      /\ \A r \in 0..(Hidden - 1) :
           ReadsRow("down", l, e, r, Hidden, Inter, ExpertAt(l, e) + GuBytes)

\* Both kernels give the sum of the weights, which q4_0 stores with 8 added, times the
\* activations: no product is cut off, and no weight meets another's activation.
KernelsAgree ==
  dots # <<>> =>
    /\ dots.scalar = Sum4([i \in 1..4 |-> (block.w[i] - 8) * block.x[i]])
    /\ dots.avx2 = dots.scalar

=============================================================================
