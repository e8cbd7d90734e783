------------------------------ MODULE TextProofs ------------------------------
(***************************************************************************)
(* Proofs about the texts of a request: module Prompt, from the messages   *)
(* to the tokens, and module Reply, from the tokens to the answer.         *)
(*                                                                         *)
(* Of Reply, for every set of pieces, every list of stop sequences and     *)
(* every number of tokens: no stop sequence is ever sent and nothing else  *)
(* is lost, what is held back is held back for a reason, characters come   *)
(* whole, and the client gets what the pump sent, in order and with the    *)
(* end that belongs to it.                                                 *)
(*                                                                         *)
(* The invariant is ReplyInv.  Of the stop matcher it says that the text   *)
(* so far is free of stop sequences and that buf covers every beginning of *)
(* one at its end: so what comes next cannot complete one that begins in   *)
(* what was sent.  Of the decoder it says that the bytes before the        *)
(* pending ones do not end in the middle of a character: such bytes are    *)
(* decoded the same whatever follows (UnitsOfBoth).                        *)
(*                                                                         *)
(* Units is a recursive function on byte strings.  That it exists is       *)
(* proved, and what holds of it is shown for the shortest byte string of   *)
(* which it would not hold.                                                *)
(*                                                                         *)
(* AnswerInv adds the way to the client: while the handler runs, what the  *)
(* client has, taken apart, with what is in the channel, is what the pump  *)
(* sent (Underway).  What it has is compared with the flattened messages   *)
(* element by element: Joined(f, x) is what f makes of every element of x, *)
(* one after another.                                                      *)
(*                                                                         *)
(* Of Prompt, for every vocabulary and every list of merges over it: what  *)
(* the tokens decode to, with what is not encoded yet, is the text.  The   *)
(* invariant PromptInv says it of the bytes: a merge keeps those of the    *)
(* pieces, as the merged piece is in vocab like both of its parts, and the *)
(* tokens of a piece are decoded to them.                                  *)
(*                                                                         *)
(* SaidInv counts the messages that are rendered: with k of them seen, the *)
(* text has the letters that the turns up to k are to say (Told), and the  *)
(* system text those of the messages that wait for a later turn (Held).    *)
(*                                                                         *)
(* RanksInv says of the pieces that merging what is left of them once in   *)
(* the order of the list would come to what it comes to from the start:    *)
(* the best pair is the first that merging in turn would join, and joining *)
(* it makes no earlier merge possible.                                     *)
(***************************************************************************)
EXTENDS Prompt, Reply, FiniteSetTheorems, SequenceTheorems, WellFoundedInduction, TLAPS

\* Every set of numbers has a least one.
LEMMA LeastNumber ==
  ASSUME NEW T, T \subseteq Nat, T # {}
  PROVE  \E x \in T : \A y \in T : x <= y
  <1> DEFINE Upto(n) == 0..n
             U == {Upto(n) : n \in T}
             R == StrictSubsetOrdering(Nat)
  <1>1. ASSUME NEW n \in T
        PROVE  Upto(n) \in SUBSET Nat /\ IsFiniteSet(Upto(n))
    BY FS_Interval
  <1>2. U \subseteq FiniteSubsetsOf(Nat) /\ U # {}
    BY <1>1 DEF FiniteSubsetsOf
  <1>3. PICK u \in U : \A v \in U : <<v, u>> \notin R
    <2> HIDE DEF U, R
    <2>1. IsWellFoundedOn(R, FiniteSubsetsOf(Nat))
      BY Zenon, FS_StrictSubsetOrderingWellFounded DEF R
    <2> QED BY Zenon, <1>2, <2>1, WFMin
  <1>4. PICK x \in T : u = Upto(x)
    OBVIOUS
  <1>5. ASSUME NEW y \in T, y < x
        PROVE  FALSE
    <2>1. Upto(y) \subseteq Upto(x) /\ x \in Upto(x) /\ x \notin Upto(y)
      BY <1>5
    <2>2. Upto(y) \in SUBSET Nat /\ Upto(x) \in SUBSET Nat
      BY <1>1
    <2> HIDE DEF Upto
    <2>3. Upto(y) # Upto(x)
      BY <2>1
    <2>4. <<Upto(y), Upto(x)>> \in R
      BY <2>1, <2>2, <2>3 DEF StrictSubsetOrdering
    <2>5. Upto(y) \in U
      OBVIOUS
    <2> HIDE DEF R, U
    <2> QED BY Zenon, <1>3, <1>4, <2>4, <2>5
  <1>6. \A y \in T : x <= y
    BY <1>5
  <1> QED BY <1>6

\* Every set of numbers that has a bound has a greatest one.
LEMMA GreatestNumber ==
  ASSUME NEW n \in Nat, NEW T, T \subseteq 0..n, T # {}
  PROVE  \E x \in T : \A y \in T : y <= x
  <1> DEFINE U == {n - x : x \in T}
  <1>1. U \subseteq Nat /\ U # {}
    <2>1. \A x \in T : n - x \in Nat
      BY SMT
    <2>2. PICK x : x \in T
      BY Zenon
    <2>3. n - x \in U
      BY <2>2
    <2> QED BY Zenon, <2>1, <2>3
  <1>2. PICK u \in U : \A v \in U : u <= v
    <2> HIDE DEF U
    <2> QED BY Zenon, <1>1, LeastNumber
  <1>3. PICK x \in T : u = n - x
    OBVIOUS
  <1>4. ASSUME NEW y \in T
        PROVE  y <= x
    <2>1. n - x <= n - y
      BY <1>2, <1>3
    <2>2. x \in Int /\ y \in Int
      OBVIOUS
    <2> QED BY <2>1, <2>2
  <1> QED BY <1>4

\* s is in x from place i + 1 on.
At(s, x, i) ==
  /\ i + Len(s) <= Len(x)
  /\ \A j \in 1..Len(s) : x[i + j] = s[j]

\* The first k of s are the end of x.
Ends(s, k, x) ==
  /\ k <= Len(x)
  /\ \A j \in 1..k : x[Len(x) - k + j] = s[j]

\* A part of a sequence, by its places.
LEMMA SubSeqOf ==
  ASSUME NEW S, NEW x \in Seq(S), NEW i \in Nat, NEW n \in Nat, i + n <= Len(x)
  PROVE  /\ SubSeq(x, i + 1, i + n) \in Seq(S)
         /\ Len(SubSeq(x, i + 1, i + n)) = n
         /\ \A j \in 1..n : SubSeq(x, i + 1, i + n)[j] = x[i + j]
  <1>1. \A j \in (i + 1)..(i + n) : x[j] \in S
    BY LenProperties, ElementOfSeq
  <1>2. /\ SubSeq(x, i + 1, i + n) \in Seq(S)
        /\ Len(SubSeq(x, i + 1, i + n)) = IF i + 1 <= i + n THEN (i + n) - (i + 1) + 1 ELSE 0
        /\ \A j \in 1..((i + n) - (i + 1) + 1) : SubSeq(x, i + 1, i + n)[j] = x[(i + 1) + j - 1]
    BY <1>1, SubSeqProperties
  <1>3. (i + n) - (i + 1) + 1 = n /\ \A j \in 1..n : (i + 1) + j - 1 = i + j
    OBVIOUS
  <1> QED BY <1>2, <1>3

\* A part of a sequence is s if s is there.
LEMMA SubSeqIsAt ==
  ASSUME NEW S, NEW s \in Seq(S), NEW x \in Seq(S), NEW i \in Nat, i + Len(s) <= Len(x)
  PROVE  SubSeq(x, i + 1, i + Len(s)) = s <=> At(s, x, i)
  <1> DEFINE n == Len(s)
             z == SubSeq(x, i + 1, i + n)
  <1>1. n \in Nat
    BY LenProperties
  <1>2. z \in Seq(S) /\ Len(z) = n /\ \A j \in 1..n : z[j] = x[i + j]
    <2>1. i + n <= Len(x)
      OBVIOUS
    <2> HIDE DEF n
    <2> QED BY <1>1, <2>1, SubSeqOf
  <1> HIDE DEF z
  <1>3. z = s => At(s, x, i)
    BY <1>2 DEF At
  <1>4. At(s, x, i) => z = s
    BY <1>2, SeqEqual DEF At
  <1> QED BY <1>3, <1>4 DEF z

\* A sequence from its end.
LEMMA ReverseOf ==
  ASSUME NEW S, NEW x \in Seq(S)
  PROVE  /\ Reverse(x) \in Seq(S) /\ Len(Reverse(x)) = Len(x)
         /\ \A j \in 1..Len(x) : Reverse(x)[j] = x[Len(x) - j + 1]
  BY LenProperties DEF Reverse

\* A beginning of s is an end of x, by places.
LEMMA SuffixIsEnds ==
  ASSUME NEW S, NEW s \in Seq(S), NEW x \in Seq(S), NEW k \in 0..Len(s)
  PROVE  IsSuffix(SubSeq(s, 1, k), x) <=> Ends(s, k, x)
  <1> DEFINE p == SubSeq(s, 1, k)
             n == Len(x)
             a == Reverse(p)
             b == Reverse(x)
             c == SubSeq(a, 1, k)
             d == SubSeq(b, 1, k)
  <1>1. n \in Nat /\ Len(s) \in Nat /\ k \in Nat
    BY LenProperties
  <1>2. p \in Seq(S) /\ Len(p) = k /\ \A j \in 1..k : p[j] = s[j]
    <2>1. /\ SubSeq(s, 0 + 1, 0 + k) \in Seq(S)
          /\ Len(SubSeq(s, 0 + 1, 0 + k)) = k
          /\ \A j \in 1..k : SubSeq(s, 0 + 1, 0 + k)[j] = s[0 + j]
      BY <1>1, SubSeqOf
    <2> QED BY <2>1
  <1>3. a \in Seq(S) /\ Len(a) = k /\ \A j \in 1..k : a[j] = p[k - j + 1]
    <2> HIDE DEF p
    <2> QED BY <1>2, ReverseOf
  <1>4. b \in Seq(S) /\ Len(b) = n /\ \A j \in 1..n : b[j] = x[n - j + 1]
    BY ReverseOf
  <1>5. IsSuffix(p, x) <=> k <= n /\ c = d
    <2> HIDE DEF p
    <2> QED BY <1>3, <1>4 DEF IsSuffix, IsPrefix
  <1>6. CASE k > n
    BY <1>1, <1>5, <1>6 DEF Ends
  <1>7. CASE k <= n
    <2>1. c \in Seq(S) /\ Len(c) = k /\ \A j \in 1..k : c[j] = a[j]
      <3>1. /\ SubSeq(a, 0 + 1, 0 + k) \in Seq(S)
            /\ Len(SubSeq(a, 0 + 1, 0 + k)) = k
            /\ \A j \in 1..k : SubSeq(a, 0 + 1, 0 + k)[j] = a[0 + j]
        <4> HIDE DEF a
        <4> QED BY <1>1, <1>3, SubSeqOf
      <3> HIDE DEF a
      <3> QED BY <3>1
    <2>2. d \in Seq(S) /\ Len(d) = k /\ \A j \in 1..k : d[j] = b[j]
      <3>1. /\ SubSeq(b, 0 + 1, 0 + k) \in Seq(S)
            /\ Len(SubSeq(b, 0 + 1, 0 + k)) = k
            /\ \A j \in 1..k : SubSeq(b, 0 + 1, 0 + k)[j] = b[0 + j]
        <4> HIDE DEF b
        <4> QED BY <1>1, <1>4, <1>7, SubSeqOf
      <3> HIDE DEF b
      <3> QED BY <3>1
    <2> HIDE DEF a, b, c, d, p
    <2>3. ASSUME Ends(s, k, x)
          PROVE  c = d
      <3> SUFFICES ASSUME NEW j \in 1..k
                   PROVE  c[j] = d[j]
        BY <2>1, <2>2, SeqEqual
      <3>1. k - j + 1 \in 1..k /\ j \in 1..n /\ n - k + (k - j + 1) = n - j + 1
        BY <1>1, <1>7, j \in Int
      <3>2. c[j] = s[k - j + 1]
        BY <2>1, <1>3, <1>2, <3>1
      <3>3. d[j] = x[n - j + 1]
        BY <2>2, <1>4, <3>1
      <3>4. x[n - k + (k - j + 1)] = s[k - j + 1]
        BY <2>3, <3>1 DEF Ends
      <3> QED BY <3>1, <3>2, <3>3, <3>4
    <2>4. ASSUME c = d, NEW j \in 1..k
          PROVE  x[n - k + j] = s[j]
      <3>1. k - j + 1 \in 1..k /\ k - j + 1 \in 1..n /\ n - (k - j + 1) + 1 = n - k + j
            /\ k - (k - j + 1) + 1 = j
        BY <1>1, <1>7, j \in Int
      <3>2. c[k - j + 1] = s[j]
        BY <2>1, <1>3, <1>2, <3>1
      <3>3. d[k - j + 1] = x[n - k + j]
        BY <2>2, <1>4, <3>1
      <3> QED BY <2>4, <3>2, <3>3
    <2>5. IsSuffix(p, x) <=> Ends(s, k, x)
      BY <1>5, <1>7, <2>3, <2>4 DEF Ends
    <2> QED BY <2>5 DEF p
  <1> QED BY <1>1, <1>6, <1>7
-----------------------------------------------------------------------------
(***************************************************************************)
(* The stop matcher.                                                       *)
(***************************************************************************)
Chr == Ascii \cup {Wide, "?"}

\* The stop sequences are texts, and none is empty.
StopsAreTexts == Stops \subseteq Seq(Chr) \ {<<>>}

\* No stop sequence is in x.
Free(x) == \A s \in Stops : \A i \in Nat : ~At(s, x, i)

\* What may be the beginning of a stop sequence at the end of x is no longer than y.
Covers(y, x) ==
  \A s \in Stops : \A k \in 1..(Len(s) - 1) : Ends(s, k, x) => k <= Len(y)

\* Three texts one after another, by their places.
LEMMA ThreeTexts ==
  ASSUME NEW x \in Seq(Chr), NEW y \in Seq(Chr), NEW z \in Seq(Chr)
  PROVE  /\ x \o y \in Seq(Chr) /\ y \o z \in Seq(Chr) /\ x \o (y \o z) \in Seq(Chr)
         /\ Len(x) \in Nat /\ Len(y) \in Nat /\ Len(z) \in Nat
         /\ Len(x \o y) = Len(x) + Len(y) /\ Len(y \o z) = Len(y) + Len(z)
         /\ Len(x \o (y \o z)) = Len(x) + Len(y) + Len(z)
         /\ \A i \in 1..(Len(x) + Len(y)) : (x \o (y \o z))[i] = (x \o y)[i]
         /\ \A i \in 1..(Len(y) + Len(z)) : (x \o (y \o z))[Len(x) + i] = (y \o z)[i]
  <1>1. Len(x) \in Nat /\ Len(y) \in Nat /\ Len(z) \in Nat
    BY LenProperties
  <1>2. /\ x \o y \in Seq(Chr) /\ Len(x \o y) = Len(x) + Len(y)
        /\ \A i \in 1..(Len(x) + Len(y)) :
             (x \o y)[i] = IF i <= Len(x) THEN x[i] ELSE y[i - Len(x)]
    BY ConcatProperties
  <1>3. /\ y \o z \in Seq(Chr) /\ Len(y \o z) = Len(y) + Len(z)
        /\ \A i \in 1..(Len(y) + Len(z)) : (y \o z)[i] = IF i <= Len(y) THEN y[i] ELSE z[i - Len(y)]
    BY ConcatProperties
  <1> DEFINE u == y \o z
             w == x \o u
  <1>4. /\ w \in Seq(Chr) /\ Len(w) = Len(x) + Len(u)
        /\ \A i \in 1..(Len(x) + Len(u)) : w[i] = IF i <= Len(x) THEN x[i] ELSE u[i - Len(x)]
    <2>1. u \in Seq(Chr)
      BY <1>3
    <2> HIDE DEF u
    <2> QED BY <2>1, ConcatProperties
  <1>5. Len(u) = Len(y) + Len(z) /\ u \in Seq(Chr)
        /\ \A i \in 1..(Len(y) + Len(z)) : u[i] = IF i <= Len(y) THEN y[i] ELSE z[i - Len(y)]
    BY <1>3
  <1> HIDE DEF u, w
  <1>6. Len(w) = Len(x) + Len(y) + Len(z)
    BY <1>1, <1>4, <1>5
  <1>7. ASSUME NEW i \in 1..(Len(x) + Len(y))
        PROVE  w[i] = (x \o y)[i]
    <2>1. CASE i <= Len(x)
      BY <1>1, <1>2, <1>4, <1>5, <2>1
    <2>2. CASE i > Len(x)
      <3>1. i - Len(x) \in 1..Len(y) /\ i \in 1..(Len(x) + Len(u))
        BY <1>1, <1>5, <2>2
      <3>2. w[i] = u[i - Len(x)]
        BY <1>1, <1>4, <2>2, <3>1
      <3>3. u[i - Len(x)] = y[i - Len(x)]
        BY <1>1, <1>5, <3>1
      <3> QED BY <1>1, <1>2, <2>2, <3>2, <3>3
    <2> QED BY <1>1, <2>1, <2>2
  <1>8. ASSUME NEW i \in 1..(Len(y) + Len(z))
        PROVE  w[Len(x) + i] = u[i]
    <2>1. /\ Len(x) + i \in 1..(Len(x) + Len(u)) /\ ~(Len(x) + i <= Len(x))
          /\ (Len(x) + i) - Len(x) = i
      BY <1>1, <1>5
    <2> QED BY <1>4, <2>1
  <1> QED BY <1>1, <1>2, <1>4, <1>5, <1>6, <1>7, <1>8 DEF u, w

\* What is new cannot complete a stop sequence that begins in what was sent: its
\* beginning would have been held back.
LEMMA NothingStraddles ==
  ASSUME StopsAreTexts, NEW x \in Seq(Chr), NEW y \in Seq(Chr), NEW z \in Seq(Chr),
         Free(x \o y), Covers(y, x \o y),
         NEW s \in Stops, NEW i \in Nat, At(s, x \o (y \o z), i)
  PROVE  i >= Len(x)
  <1> SUFFICES ASSUME i < Len(x)
               PROVE  FALSE
    BY LenProperties
  <1> DEFINE p == x \o y
             w == x \o (y \o z)
             k == Len(p) - i
  <1>1. Len(s) \in Nat \ {0}
    BY LenProperties, EmptySeq DEF StopsAreTexts
  <1>2. /\ Len(x) \in Nat /\ Len(y) \in Nat /\ Len(p) = Len(x) + Len(y)
        /\ \A j \in 1..(Len(x) + Len(y)) : w[j] = p[j]
    BY ThreeTexts
  <1>3. i + Len(s) <= Len(w) /\ \A j \in 1..Len(s) : w[i + j] = s[j]
    BY DEF At
  <1> HIDE DEF p, w
  <1>4. CASE i + Len(s) <= Len(p)
    <2>1. ASSUME NEW j \in 1..Len(s)
          PROVE  p[i + j] = s[j]
      <3>1. i + j \in 1..(Len(x) + Len(y))
        BY <1>1, <1>2, <1>4
      <3> QED BY <1>2, <1>3, <3>1
    <2>2. At(s, p, i)
      BY <1>4, <2>1 DEF At
    <2> QED BY <2>2 DEF Free, p
  <1>5. CASE i + Len(s) > Len(p)
    <2>1. k \in 1..(Len(s) - 1) /\ k <= Len(p) /\ Len(p) - k = i
      BY <1>1, <1>2, <1>5
    <2>2. ASSUME NEW j \in 1..k
          PROVE  p[Len(p) - k + j] = s[j]
      <3>1. i + j \in 1..(Len(x) + Len(y)) /\ j \in 1..Len(s)
        BY <1>1, <1>2, <2>1
      <3>2. p[i + j] = s[j]
        BY <1>2, <1>3, <3>1
      <3> QED BY <2>1, <3>2
    <2>3. Ends(s, k, p)
      BY <2>1, <2>2 DEF Ends
    <2>4. k <= Len(y)
      <3> HIDE DEF k
      <3> QED BY <2>1, <2>3 DEF Covers, p
    <2> QED BY <1>2, <2>4
  <1> QED BY <1>1, <1>2, <1>4, <1>5

\* What may be the beginning of a stop sequence begins in what was held back or new.
LEMMA BeginningsAreRecent ==
  ASSUME StopsAreTexts, NEW x \in Seq(Chr), NEW y \in Seq(Chr), NEW z \in Seq(Chr),
         Covers(y, x \o y),
         NEW s \in Stops, NEW k \in 1..(Len(s) - 1), Ends(s, k, x \o (y \o z))
  PROVE  Ends(s, k, y \o z)
  <1> DEFINE p == x \o y
             u == y \o z
             w == x \o (y \o z)
             h == k - Len(z)
  <1>1. Len(s) \in Nat \ {0} /\ k \in Nat
    BY LenProperties, EmptySeq DEF StopsAreTexts
  <1>2. /\ Len(x) \in Nat /\ Len(y) \in Nat /\ Len(z) \in Nat
        /\ Len(p) = Len(x) + Len(y) /\ Len(u) = Len(y) + Len(z)
        /\ Len(w) = Len(x) + Len(y) + Len(z)
        /\ \A j \in 1..(Len(x) + Len(y)) : w[j] = p[j]
        /\ \A j \in 1..(Len(y) + Len(z)) : w[Len(x) + j] = u[j]
    BY ThreeTexts
  <1>3. k <= Len(w) /\ \A j \in 1..k : w[Len(w) - k + j] = s[j]
    BY DEF Ends
  <1>4. CASE k <= Len(u)
    <2> HIDE DEF p, u, w
    <2>1. ASSUME NEW j \in 1..k
          PROVE  u[Len(u) - k + j] = s[j]
      <3>1. /\ Len(u) - k + j \in 1..(Len(y) + Len(z))
            /\ Len(x) + (Len(u) - k + j) = Len(w) - k + j
        BY <1>1, <1>2, <1>4
      <3> QED BY <1>2, <1>3, <3>1
    <2>2. Ends(s, k, u)
      BY <1>4, <2>1 DEF Ends
    <2> QED BY <2>2 DEF u
  <1>5. CASE k > Len(u)
    <2> HIDE DEF p, u, w
    <2>1. h \in 1..(Len(s) - 1) /\ h > Len(y) /\ h <= Len(p) /\ h <= k
      BY <1>1, <1>2, <1>3, <1>5
    <2>2. ASSUME NEW j \in 1..h
          PROVE  p[Len(p) - h + j] = s[j]
      <3>1. /\ Len(p) - h + j \in 1..(Len(x) + Len(y)) /\ j \in 1..k
            /\ Len(p) - h + j = Len(w) - k + j
        BY <1>1, <1>2, <2>1
      <3> QED BY <1>2, <1>3, <3>1
    <2>3. Ends(s, h, p)
      BY <2>1, <2>2 DEF Ends
    <2>4. h <= Len(y)
      <3> HIDE DEF h
      <3> QED BY <2>1, <2>3 DEF Covers, p
    <2> QED BY <1>1, <1>2, <2>1, <2>4
  <1> QED BY <1>1, <1>2, <1>4, <1>5

\* What is held back is the longest end of the text that begins a stop sequence.
LEMMA HoldIs ==
  ASSUME StopsAreTexts, NEW t \in Seq(Chr)
  PROVE  /\ Hold(t) \in 0..Len(t)
         /\ Hold(t) # 0 => \E s \in Stops : Hold(t) < Len(s) /\ Ends(s, Hold(t), t)
         /\ \A s \in Stops : \A k \in 1..(Len(s) - 1) : Ends(s, k, t) => k <= Hold(t)
  <1> DEFINE held == {k \in 1..Len(t) : \E s \in Stops : /\ k < Len(s)
                                                         /\ IsSuffix(SubSeq(s, 1, k), t)}
             ends == {k \in 1..Len(t) : \E s \in Stops : k < Len(s) /\ Ends(s, k, t)}
  <1>1. Len(t) \in Nat /\ \A s \in Stops : s \in Seq(Chr) /\ Len(s) \in Nat
    BY LenProperties DEF StopsAreTexts
  <1>2. ASSUME NEW k \in 1..Len(t), NEW s \in Stops, k < Len(s)
        PROVE  IsSuffix(SubSeq(s, 1, k), t) <=> Ends(s, k, t)
    <2>1. k \in 0..Len(s)
      BY <1>1, <1>2
    <2> QED BY <1>1, <2>1, SuffixIsEnds
  <1>3. held = ends
    BY <1>2
  <1>4. Hold(t) = IF ends = {} THEN 0 ELSE Max(ends)
    BY <1>3 DEF Hold
  <1>5. \A s \in Stops : \A k \in 1..(Len(s) - 1) : Ends(s, k, t) => k \in ends
    BY <1>1 DEF Ends
  <1>6. \A k \in ends : k \in 1..Len(t) /\ \E s \in Stops : k < Len(s) /\ Ends(s, k, t)
    OBVIOUS
  <1> HIDE DEF held, ends
  <1>7. CASE ends = {}
    BY <1>1, <1>4, <1>5, <1>7
  <1>8. CASE ends # {}
    <2>1. \E x \in ends : \A y \in ends : y <= x
      <3>1. ends \subseteq 0..Len(t)
        BY <1>1, <1>6
      <3> QED BY Zenon, <1>1, <1>8, <3>1, GreatestNumber
    <2>2. ends \subseteq Int
      BY <1>1, <1>6
    <2>3. \E x \in ends : \A y \in ends : x >= y
      BY <2>1, <2>2
    <2>4. Hold(t) \in ends /\ \A y \in ends : Hold(t) >= y
      BY <1>4, <1>8, <2>3 DEF Max
    <2>5. \A y \in ends : y <= Hold(t)
      BY <2>2, <2>4
    <2> QED BY <1>1, <1>5, <1>6, <2>4, <2>5
  <1> QED BY <1>7, <1>8

\* The hits are the places of stop sequences; if there is none, the text is free of
\* them, and otherwise there is a first one.
LEMMA HitsAre ==
  ASSUME StopsAreTexts, NEW t \in Seq(Chr)
  PROVE  /\ HitsIn(t) = {} => Free(t)
         /\ \A s \in Stops : \A i \in Nat : At(s, t, i) => i \in HitsIn(t)
         /\ HitsIn(t) # {} => /\ Min(HitsIn(t)) \in 0..Len(t)
                              /\ \E s \in Stops : At(s, t, Min(HitsIn(t)))
                              /\ \A i \in HitsIn(t) : Min(HitsIn(t)) <= i
  <1> DEFINE hits == {i \in 0..Len(t) : \E s \in Stops : At(s, t, i)}
  <1>1. Len(t) \in Nat /\ \A s \in Stops : s \in Seq(Chr) /\ Len(s) \in Nat
    BY LenProperties DEF StopsAreTexts
  <1>2. ASSUME NEW s \in Stops, NEW i \in Nat
        PROVE  i + Len(s) <= Len(t) /\ SubSeq(t, i + 1, i + Len(s)) = s <=> At(s, t, i)
    <2>1. CASE i + Len(s) <= Len(t)
      BY <1>1, <2>1, SubSeqIsAt
    <2>2. CASE ~(i + Len(s) <= Len(t))
      BY <2>2 DEF At
    <2> QED BY <2>1, <2>2
  <1>3. HitsIn(t) = hits
    <2>1. ASSUME NEW i \in 0..Len(t)
          PROVE  (\E s \in Stops : /\ i + Len(s) <= Len(t)
                                   /\ SubSeq(t, i + 1, i + Len(s)) = s)
                 <=> \E s \in Stops : At(s, t, i)
      <3>1. i \in Nat
        BY <1>1
      <3> QED BY Zenon, <1>2, <3>1
    <2> QED BY <2>1 DEF HitsIn
  <1>4. \A s \in Stops : \A i \in Nat : At(s, t, i) => i \in hits
    BY <1>1 DEF At
  <1>5. \A i \in hits : i \in 0..Len(t) /\ \E s \in Stops : At(s, t, i)
    OBVIOUS
  <1> HIDE DEF hits
  <1>6. hits = {} => Free(t)
    BY <1>4 DEF Free
  <1>7. ASSUME hits # {}
        PROVE  Min(hits) \in hits /\ \A i \in hits : Min(hits) <= i
    <2>1. \E x \in hits : \A y \in hits : x <= y
      <3>1. hits \subseteq Nat
        BY <1>1, <1>5
      <3> QED BY Zenon, <1>7, <3>1, LeastNumber
    <2> QED BY <2>1 DEF Min
  <1> QED BY <1>3, <1>4, <1>5, <1>6, <1>7

\* What a stop sequence has at the end of y \o z it has there in x \o (y \o z), and back.
LEMMA AtBehind ==
  ASSUME NEW x \in Seq(Chr), NEW u \in Seq(Chr), NEW s \in Seq(Chr), NEW i \in Nat,
         i >= Len(x), At(s, x \o u, i)
  PROVE  i - Len(x) \in Nat /\ At(s, u, i - Len(x))
  <1> DEFINE w == x \o u
             h == i - Len(x)
  <1>1. Len(x) \in Nat /\ Len(u) \in Nat /\ Len(s) \in Nat
    BY LenProperties
  <1>2. Len(w) = Len(x) + Len(u)
        /\ \A j \in 1..(Len(x) + Len(u)) : w[j] = IF j <= Len(x) THEN x[j] ELSE u[j - Len(x)]
    BY ConcatProperties
  <1>3. i + Len(s) <= Len(w) /\ \A j \in 1..Len(s) : w[i + j] = s[j]
    BY DEF At
  <1> HIDE DEF w
  <1>4. h \in Nat /\ h + Len(s) <= Len(u)
    BY <1>1, <1>2, <1>3
  <1>5. ASSUME NEW j \in 1..Len(s)
        PROVE  u[h + j] = s[j]
    <2>1. /\ i + j \in 1..(Len(x) + Len(u)) /\ ~(i + j <= Len(x))
          /\ (i + j) - Len(x) = h + j
      BY <1>1, <1>2, <1>3
    <2> QED BY <1>2, <1>3, <2>1
  <1> HIDE DEF h
  <1>6. At(s, u, h)
    BY <1>4, <1>5 DEF At
  <1> QED BY <1>4, <1>6 DEF h

\* The beginning of a text, up to place m.
LEMMA BeginningOf ==
  ASSUME NEW x \in Seq(Chr), NEW u \in Seq(Chr), NEW m \in 0..Len(u)
  PROVE  /\ SubSeq(u, 1, m) \in Seq(Chr) /\ Len(SubSeq(u, 1, m)) = m
         /\ x \o SubSeq(u, 1, m) \in Seq(Chr) /\ Len(x \o SubSeq(u, 1, m)) = Len(x) + m
         /\ \A j \in 1..(Len(x) + m) : (x \o SubSeq(u, 1, m))[j] = (x \o u)[j]
  <1> DEFINE b == SubSeq(u, 1, m)
             w == x \o u
             v == x \o b
  <1>1. Len(x) \in Nat /\ Len(u) \in Nat /\ m \in Nat
    BY LenProperties
  <1>2. b \in Seq(Chr) /\ Len(b) = m /\ \A j \in 1..m : b[j] = u[j]
    <2>1. /\ SubSeq(u, 0 + 1, 0 + m) \in Seq(Chr)
          /\ Len(SubSeq(u, 0 + 1, 0 + m)) = m
          /\ \A j \in 1..m : SubSeq(u, 0 + 1, 0 + m)[j] = u[0 + j]
      BY <1>1, SubSeqOf
    <2> QED BY <2>1
  <1>3. \A j \in 1..(Len(x) + Len(u)) : w[j] = IF j <= Len(x) THEN x[j] ELSE u[j - Len(x)]
    BY ConcatProperties
  <1> HIDE DEF b
  <1>4. v \in Seq(Chr) /\ Len(v) = Len(x) + m
        /\ \A j \in 1..(Len(x) + m) : v[j] = IF j <= Len(x) THEN x[j] ELSE b[j - Len(x)]
    BY <1>2, ConcatProperties
  <1> HIDE DEF v, w
  <1>5. ASSUME NEW j \in 1..(Len(x) + m)
        PROVE  v[j] = w[j]
    <2>1. j \in 1..(Len(x) + Len(u)) /\ (j > Len(x) => j - Len(x) \in 1..m)
      BY <1>1
    <2>2. CASE j <= Len(x)
      BY <1>3, <1>4, <2>1, <2>2
    <2>3. CASE ~(j <= Len(x))
      <3>1. b[j - Len(x)] = u[j - Len(x)]
        BY <1>1, <1>2, <2>1, <2>3
      <3> QED BY <1>3, <1>4, <2>1, <2>3, <3>1
    <2> QED BY <2>2, <2>3
  <1> QED BY <1>2, <1>4, <1>5 DEF b, v, w

\* A stop sequence in the beginning of a text is in the text.
LEMMA AtInBeginning ==
  ASSUME NEW x \in Seq(Chr), NEW u \in Seq(Chr), NEW m \in 0..Len(u),
         NEW s \in Seq(Chr), NEW i \in Nat, At(s, x \o SubSeq(u, 1, m), i)
  PROVE  i + Len(s) <= Len(x) + m /\ At(s, x \o u, i)
  <1> DEFINE v == x \o SubSeq(u, 1, m)
             w == x \o u
  <1>1. Len(x) \in Nat /\ Len(u) \in Nat /\ Len(s) \in Nat /\ m \in Nat /\ m <= Len(u)
    BY LenProperties
  <1>2. Len(v) = Len(x) + m /\ \A j \in 1..(Len(x) + m) : v[j] = w[j]
    BY BeginningOf
  <1>3. Len(w) = Len(x) + Len(u)
    BY ConcatProperties
  <1>4. i + Len(s) <= Len(v) /\ \A j \in 1..Len(s) : v[i + j] = s[j]
    BY DEF At
  <1> HIDE DEF v, w
  <1>5. i + Len(s) <= Len(w) /\ i + Len(s) <= Len(x) + m
    BY <1>1, <1>2, <1>3, <1>4
  <1>6. ASSUME NEW j \in 1..Len(s)
        PROVE  w[i + j] = s[j]
    <2>1. i + j \in 1..(Len(x) + m)
      BY <1>1, <1>5
    <2> QED BY <1>2, <1>4, <2>1
  <1>7. At(s, w, i)
    BY <1>5, <1>6 DEF At
  <1> QED BY <1>5, <1>7 DEF w

\* Two texts one after another, by their places.
LEMMA TextsConcat ==
  \A x, y \in Seq(Chr) :
    /\ x \o y \in Seq(Chr) /\ Len(x \o y) = Len(x) + Len(y)
    /\ \A i \in 1..(Len(x) + Len(y)) : (x \o y)[i] = IF i <= Len(x) THEN x[i] ELSE y[i - Len(x)]
  BY ConcatProperties

\* How texts are put together does not matter.
LEMMA TextsAssociate == \A x, y, z \in Seq(Chr) : (x \o y) \o z = x \o (y \o z)
  BY ConcatAssociative

\* A beginning, by its places.
LEMMA PrefixIs ==
  ASSUME NEW S, NEW a \in Seq(S), NEW b \in Seq(S)
  PROVE  IsPrefix(a, b) <=> Len(a) <= Len(b) /\ \A j \in 1..Len(a) : a[j] = b[j]
  <1> DEFINE n == Len(a)
  <1>1. n \in Nat /\ Len(b) \in Nat
    BY LenProperties
  <1>2. SubSeq(a, 1, n) = a
    BY SubSeqFull
  <1>3. CASE n > Len(b)
    BY <1>1, <1>3 DEF IsPrefix
  <1>4. CASE n <= Len(b)
    <2>1. /\ SubSeq(b, 0 + 1, 0 + n) \in Seq(S)
          /\ Len(SubSeq(b, 0 + 1, 0 + n)) = n
          /\ \A j \in 1..n : SubSeq(b, 0 + 1, 0 + n)[j] = b[0 + j]
      <3>1. 0 + n <= Len(b)
        BY <1>1, <1>4
      <3> HIDE DEF n
      <3> QED BY <1>1, <3>1, SubSeqOf
    <2>2. /\ SubSeq(b, 1, n) \in Seq(S) /\ Len(SubSeq(b, 1, n)) = n
          /\ \A j \in 1..n : SubSeq(b, 1, n)[j] = b[j]
      <3> HIDE DEF n
      <3> QED BY <1>1, <2>1
    <2>3. a = SubSeq(b, 1, n) <=> \A j \in 1..n : a[j] = b[j]
      BY <2>2, SeqEqual
    <2> QED BY <1>2, <1>4, <2>3 DEF IsPrefix
  <1> QED BY <1>1, <1>3, <1>4

\* The first stop sequence ends the text: nothing of it, nor of any other, is sent.
LEMMA HitEndsTheText ==
  ASSUME StopsAreTexts, NEW x \in Seq(Chr), NEW y \in Seq(Chr), NEW z \in Seq(Chr),
         Free(x \o y), Covers(y, x \o y), HitsIn(y \o z) # {}
  PROVE  LET sent == StopPush(y \o z).text
         IN  /\ sent \in Seq(Chr)
             /\ Free(x \o sent)
             /\ \E s \in Stops : IsPrefix((x \o sent) \o s, (x \o y) \o z)
  <1> DEFINE u == y \o z
             w == x \o u
             m == Min(HitsIn(u))
             b == SubSeq(u, 1, m)
             v == x \o b
  <1>1. /\ u \in Seq(Chr) /\ w \in Seq(Chr) /\ w = (x \o y) \o z
        /\ Len(x) \in Nat /\ Len(u) \in Nat
    <2>1. u \in Seq(Chr)
      BY ConcatProperties
    <2>2. w = (x \o y) \o z
      BY Zenon, TextsAssociate
    <2> HIDE DEF u
    <2>3. w \in Seq(Chr)
      BY <2>1, ConcatProperties
    <2> QED BY <2>1, <2>2, <2>3, LenProperties
  <1>2. StopPush(u).text = b
    BY DEF StopPush
  <1>3. m \in 0..Len(u) /\ \A i \in HitsIn(u) : m <= i
    <2> HIDE DEF u
    <2> QED BY <1>1, HitsAre DEF u
  <1>4. PICK s \in Stops : At(s, u, m)
    <2> HIDE DEF u
    <2> QED BY <1>1, HitsAre DEF u
  <1>5. \A r \in Stops : \A i \in Nat : At(r, u, i) => i \in HitsIn(u)
    <2> HIDE DEF u
    <2> QED BY <1>1, HitsAre
  <1>6. \A r \in Stops : r \in Seq(Chr) /\ Len(r) \in Nat \ {0}
    BY LenProperties, EmptySeq DEF StopsAreTexts
  <1>7. /\ b \in Seq(Chr) /\ Len(b) = m /\ v \in Seq(Chr) /\ Len(v) = Len(x) + m
        /\ \A j \in 1..(Len(x) + m) : v[j] = w[j]
    <2> HIDE DEF u, m
    <2>1. m \in 0..Len(u) /\ u \in Seq(Chr)
      BY Zenon, <1>1, <1>3
    <2> QED BY <2>1, BeginningOf
  <1>8. \A r \in Stops : \A i \in Nat : At(r, w, i) => i >= Len(x)
    BY NothingStraddles
  <1>9. ASSUME NEW r \in Stops, NEW i \in Nat, At(r, v, i)
        PROVE  FALSE
    <2> HIDE DEF u, m
    <2>1. i + Len(r) <= Len(x) + m /\ At(r, w, i)
      BY <1>1, <1>3, <1>6, <1>9, AtInBeginning
    <2>2. i >= Len(x)
      BY <1>8, <2>1
    <2>3. i - Len(x) \in Nat /\ At(r, u, i - Len(x))
      BY <1>1, <1>6, <2>1, <2>2, AtBehind
    <2>4. m <= i - Len(x)
      BY <1>3, <1>5, <2>3
    <2> QED BY <1>1, <1>3, <1>6, <2>1, <2>4
  <1>10. Free(v)
    BY <1>9 DEF Free
  <1>11. IsPrefix(v \o s, w)
    <2> HIDE DEF u, m, b, v, w
    <2>0. v \in Seq(Chr) /\ s \in Seq(Chr)
      BY Zenon, <1>6, <1>7
    <2>1. /\ v \o s \in Seq(Chr) /\ Len(v \o s) = Len(v) + Len(s)
          /\ \A j \in 1..(Len(v) + Len(s)) :
               (v \o s)[j] = IF j <= Len(v) THEN v[j] ELSE s[j - Len(v)]
      BY <2>0, ConcatProperties
    <2>2. Len(w) = Len(x) + Len(u)
      BY <1>1, ConcatProperties DEF w
    <2>3. m + Len(s) <= Len(u) /\ \A j \in 1..Len(s) : u[m + j] = s[j]
      BY <1>4 DEF At
    <2>4. \A j \in 1..Len(u) : w[Len(x) + j] = u[j]
      <3>1. \A j \in 1..(Len(x) + Len(u)) :
              w[j] = IF j <= Len(x) THEN x[j] ELSE u[j - Len(x)]
        BY <1>1, ConcatProperties DEF w
      <3>2. ASSUME NEW j \in 1..Len(u)
            PROVE  /\ Len(x) + j \in 1..(Len(x) + Len(u)) /\ ~(Len(x) + j <= Len(x))
                   /\ (Len(x) + j) - Len(x) = j
        BY <1>1
      <3> QED BY <3>1, <3>2
    <2>5. ASSUME NEW j \in 1..(Len(v) + Len(s))
          PROVE  (v \o s)[j] = w[j]
      <3>1. CASE j <= Len(v)
        <4>1. j \in 1..(Len(x) + m)
          BY <1>1, <1>3, <1>7, <3>1
        <4>2. (v \o s)[j] = v[j]
          BY <2>1, <3>1
        <4> QED BY <1>7, <4>1, <4>2
      <3>2. CASE ~(j <= Len(v))
        <4> DEFINE i == j - Len(v)
        <4>1. i \in 1..Len(s) /\ m + i \in 1..Len(u) /\ Len(x) + (m + i) = j
          BY <1>1, <1>3, <1>6, <1>7, <2>3, <3>2
        <4>2. (v \o s)[j] = s[i]
          BY <2>1, <3>2
        <4> HIDE DEF i
        <4>3. u[m + i] = s[i]
          BY <2>3, <4>1
        <4>4. w[Len(x) + (m + i)] = u[m + i]
          BY <2>4, <4>1
        <4> QED BY <4>1, <4>2, <4>3, <4>4
      <3> QED BY <3>1, <3>2
    <2>6. Len(v \o s) <= Len(w)
      BY <1>1, <1>3, <1>6, <1>7, <2>1, <2>2, <2>3
    <2> QED BY <1>1, <2>1, <2>5, <2>6, PrefixIs
  <1> QED BY <1>1, <1>2, <1>7, <1>10, <1>11

\* What a push without a hit does when x was sent before and the text is now w: what
\* is sent and what is held back are together the text, which is free of stop
\* sequences; what is held back begins one, and nothing longer does.
GoesOn(p, x, w) ==
  /\ p.text \in Seq(Chr) /\ p.rest \in Seq(Chr)
  /\ (x \o p.text) \o p.rest = w
  /\ Free(w)
  /\ Covers(p.rest, w)
  /\ p.rest # <<>> => \E s \in Stops : IsStrictPrefix(p.rest, s)

\* So does a push in which there is no hit.
LEMMA RestMayBecomeAStop ==
  ASSUME StopsAreTexts, NEW x \in Seq(Chr), NEW y \in Seq(Chr), NEW z \in Seq(Chr),
         Free(x \o y), Covers(y, x \o y), HitsIn(y \o z) = {}
  PROVE  GoesOn(StopPush(y \o z), x, (x \o y) \o z)
  <1> DEFINE u == y \o z
             w == x \o u
             k == Hold(u)
             a == SubSeq(u, 1, Len(u) - k)
             b == SubSeq(u, Len(u) - k + 1, Len(u))
  <1>1. /\ u \in Seq(Chr) /\ w \in Seq(Chr) /\ w = (x \o y) \o z
        /\ Len(x) \in Nat /\ Len(u) \in Nat
    <2>1. u \in Seq(Chr)
      BY ConcatProperties
    <2>2. w = (x \o y) \o z
      BY Zenon, TextsAssociate
    <2> HIDE DEF u
    <2>3. w \in Seq(Chr)
      BY <2>1, ConcatProperties
    <2> QED BY <2>1, <2>2, <2>3, LenProperties
  <1>2. StopPush(u).text = a /\ StopPush(u).rest = b
    BY DEF StopPush
  <1>3. /\ k \in 0..Len(u)
        /\ k # 0 => \E s \in Stops : k < Len(s) /\ Ends(s, k, u)
        /\ \A s \in Stops : \A h \in 1..(Len(s) - 1) : Ends(s, h, u) => h <= k
    <2> HIDE DEF u
    <2> QED BY <1>1, HoldIs
  <1>4. \A r \in Stops : r \in Seq(Chr) /\ Len(r) \in Nat \ {0}
    BY LenProperties, EmptySeq DEF StopsAreTexts
  <1>5. b \in Seq(Chr) /\ Len(b) = k /\ \A j \in 1..k : b[j] = u[Len(u) - k + j]
    <2> HIDE DEF u, k
    <2>1. Len(u) - k \in Nat /\ k \in Nat /\ (Len(u) - k) + k <= Len(u)
          /\ (Len(u) - k) + k = Len(u)
      BY <1>1, <1>3
    <2>2. /\ SubSeq(u, (Len(u) - k) + 1, (Len(u) - k) + k) \in Seq(Chr)
          /\ Len(SubSeq(u, (Len(u) - k) + 1, (Len(u) - k) + k)) = k
          /\ \A j \in 1..k :
               SubSeq(u, (Len(u) - k) + 1, (Len(u) - k) + k)[j] = u[(Len(u) - k) + j]
      BY <1>1, <2>1, SubSeqOf
    <2> QED BY <2>1, <2>2
  <1>6. a \in Seq(Chr) /\ a \o b = u
    <2> HIDE DEF u, k
    <2>1. /\ Len(u) - k \in 0..Len(u) /\ 1 \in 1..(Len(u) + 1)
          /\ Len(u) - k \in (1 - 1)..Len(u) /\ Len(u) \in (Len(u) - k)..Len(u)
      BY <1>1, <1>3
    <2>2. a \in Seq(Chr)
      BY <1>1, <2>1, BeginningOf
    <2>3. a \o b = SubSeq(u, 1, Len(u))
      BY <1>1, <2>1, ConcatAdjacentSubSeq
    <2> QED BY <1>1, <2>2, <2>3, SubSeqFull
  <1>7. (x \o a) \o b = w
    <2>1. a \in Seq(Chr) /\ b \in Seq(Chr)
      BY <1>5, <1>6
    <2> HIDE DEF u, a, b
    <2>2. (x \o a) \o b = x \o (a \o b)
      <3>1. \A r, t \in Seq(Chr) : (x \o r) \o t = x \o (r \o t)
        BY Zenon, TextsAssociate
      <3> QED BY Zenon, <2>1, <3>1
    <2> QED BY <1>6, <2>2
  <1>8. Free(w)
    <2>1. Free(u)
      <3> HIDE DEF u
      <3> QED BY <1>1, HitsAre DEF u
    <2>2. ASSUME NEW r \in Stops, NEW i \in Nat, At(r, w, i)
          PROVE  FALSE
      <3>1. i >= Len(x)
        BY <2>2, NothingStraddles
      <3>2. i - Len(x) \in Nat /\ At(r, u, i - Len(x))
        <4> HIDE DEF u
        <4> QED BY <1>1, <1>4, <2>2, <3>1, AtBehind
      <3> QED BY <2>1, <3>2 DEF Free
    <2> QED BY <2>2 DEF Free
  <1>9. Covers(b, w)
    <2>1. \A s \in Stops : \A h \in 1..(Len(s) - 1) : Ends(s, h, w) => Ends(s, h, u)
      BY BeginningsAreRecent
    <2> HIDE DEF u, w, b, k
    <2> QED BY <1>3, <1>5, <2>1 DEF Covers
  <1>10. ASSUME b # <<>>
         PROVE  \E s \in Stops : IsStrictPrefix(b, s)
    <2> HIDE DEF u, b, k
    <2>1. k # 0
      BY <1>5, <1>10, EmptySeq
    <2>2. PICK s \in Stops : k < Len(s) /\ Ends(s, k, u)
      BY <1>3, <2>1
    <2>3. \A j \in 1..Len(b) : b[j] = s[j]
      BY <1>5, <2>2 DEF Ends
    <2>4. Len(b) <= Len(s) /\ b # s
      BY <1>1, <1>3, <1>4, <1>5, <2>2
    <2>5. IsPrefix(b, s)
      BY <1>4, <1>5, <2>3, <2>4, PrefixIs
    <2> QED BY <2>4, <2>5 DEF IsStrictPrefix
  <1> QED BY <1>1, <1>2, <1>5, <1>6, <1>7, <1>8, <1>9, <1>10 DEF GoesOn

-----------------------------------------------------------------------------
(***************************************************************************)
(* The decoder.                                                            *)
(***************************************************************************)
Byte == Ascii \cup {Lead, Cont}
Bytes == Seq(Byte)

Kind == {"char", "short", "bad"}
Decoded == [size : Nat, char : Chr, is : Kind]

\* The characters that have not all come.
Shorts == {<<Lead>>, <<Lead, Cont>>}

\* What Units makes of p, f being used for what follows the first unit.
Step(f, p) ==
  IF p = <<>> THEN <<>> ELSE <<Unit(p)>> \o f[SubSeq(p, Unit(p).size + 1, Len(p))]

\* Among byte strings there is a shortest one.
LEMMA Shortest ==
  ASSUME NEW T, T \subseteq Bytes, T # {}
  PROVE  \E p \in T : \A q \in T : Len(p) <= Len(q)
  <1> DEFINE L == {Len(p) : p \in T}
  <1>1. L \subseteq Nat /\ L # {}
    BY LenProperties DEF Bytes
  <1>2. \E x \in L : \A y \in L : x <= y
    <2> HIDE DEF L
    <2> QED BY Zenon, <1>1, LeastNumber
  <1> QED BY <1>2

\* A beginning, by its places.
LEMMA BytesPrefixIs ==
  \A a, b \in Seq(Byte) :
    IsPrefix(a, b) <=> Len(a) <= Len(b) /\ \A j \in 1..Len(a) : a[j] = b[j]
  BY PrefixIs

\* Sequences that are written down.
LEMMA Written ==
  /\ Len(<<Lead>>) = 1 /\ <<Lead>>[1] = Lead
  /\ Len(<<Lead, Cont>>) = 2 /\ <<Lead, Cont>>[1] = Lead /\ <<Lead, Cont>>[2] = Cont
  /\ Len(<<Lead, Cont, Cont>>) = 3 /\ <<Lead, Cont, Cont>>[1] = Lead
  /\ <<Lead, Cont, Cont>>[2] = Cont /\ <<Lead, Cont, Cont>>[3] = Cont
  /\ <<Lead>> \in Bytes /\ <<Lead, Cont>> \in Bytes /\ <<Lead, Cont, Cont>> \in Bytes
  /\ \A p \in Bytes : IsPrefix(<<Lead, Cont>>, p)
                      <=> Len(p) >= 2 /\ p[1] = Lead /\ p[2] = Cont
  /\ \A p \in Bytes : IsPrefix(<<Lead, Cont, Cont>>, p)
                      <=> Len(p) >= 3 /\ p[1] = Lead /\ p[2] = Cont /\ p[3] = Cont
  /\ \A p \in Bytes : p = <<Lead>> <=> Len(p) = 1 /\ p[1] = Lead
  /\ \A p \in Bytes : p = <<Lead, Cont>> <=> Len(p) = 2 /\ p[1] = Lead /\ p[2] = Cont
  <1>1. /\ Len(<<Lead>>) = 1 /\ <<Lead>>[1] = Lead
        /\ Len(<<Lead, Cont>>) = 2 /\ <<Lead, Cont>>[1] = Lead /\ <<Lead, Cont>>[2] = Cont
        /\ Len(<<Lead, Cont, Cont>>) = 3 /\ <<Lead, Cont, Cont>>[1] = Lead
        /\ <<Lead, Cont, Cont>>[2] = Cont /\ <<Lead, Cont, Cont>>[3] = Cont
    OBVIOUS
  <1>2. Lead \in Byte /\ Cont \in Byte
    BY DEF Byte
  <1>3. <<Lead>> \in Bytes /\ <<Lead, Cont>> \in Bytes /\ <<Lead, Cont, Cont>> \in Bytes
    BY <1>2 DEF Bytes
  <1> DEFINE one == <<Lead>>
             two == <<Lead, Cont>>
             three == <<Lead, Cont, Cont>>
  <1>4. ASSUME NEW p \in Bytes
        PROVE  /\ IsPrefix(two, p) <=> Len(p) >= 2 /\ p[1] = Lead /\ p[2] = Cont
               /\ IsPrefix(three, p) <=> Len(p) >= 3 /\ p[1] = Lead /\ p[2] = Cont /\ p[3] = Cont
               /\ p = one <=> Len(p) = 1 /\ p[1] = Lead
               /\ p = two <=> Len(p) = 2 /\ p[1] = Lead /\ p[2] = Cont
    <2>1. p \in Seq(Byte) /\ Len(p) \in Nat
      BY LenProperties DEF Bytes
    <2>2. /\ one \in Seq(Byte) /\ two \in Seq(Byte) /\ three \in Seq(Byte)
          /\ Len(one) = 1 /\ one[1] = Lead
          /\ Len(two) = 2 /\ two[1] = Lead /\ two[2] = Cont
          /\ Len(three) = 3 /\ three[1] = Lead /\ three[2] = Cont /\ three[3] = Cont
      BY <1>1, <1>3 DEF Bytes
    <2> HIDE DEF one, two, three
    <2>3. IsPrefix(two, p) <=> Len(p) >= 2 /\ p[1] = Lead /\ p[2] = Cont
      <3>1. IsPrefix(two, p) <=> Len(two) <= Len(p) /\ \A j \in 1..Len(two) : two[j] = p[j]
        BY Zenon, <2>1, <2>2, BytesPrefixIs
      <3> QED BY <2>1, <2>2, <3>1
    <2>4. IsPrefix(three, p) <=> Len(p) >= 3 /\ p[1] = Lead /\ p[2] = Cont /\ p[3] = Cont
      <3>1. IsPrefix(three, p) <=> Len(three) <= Len(p) /\ \A j \in 1..Len(three) : three[j] = p[j]
        BY Zenon, <2>1, <2>2, BytesPrefixIs
      <3> QED BY <2>1, <2>2, <3>1
    <2>5. p = one <=> Len(p) = 1 /\ p[1] = Lead
      <3>1. Len(p) = 1 /\ p[1] = Lead => p = one
        BY <2>1, <2>2, SeqEqual
      <3> QED BY <2>2, <3>1
    <2>6. p = two <=> Len(p) = 2 /\ p[1] = Lead /\ p[2] = Cont
      <3>1. Len(p) = 2 /\ p[1] = Lead /\ p[2] = Cont => p = two
        BY <2>1, <2>2, SeqEqual
      <3> QED BY <2>2, <3>1
    <2> QED BY <2>3, <2>4, <2>5, <2>6
  <1> HIDE DEF one, two, three
  <1>5. \A p \in Bytes :
          /\ IsPrefix(two, p) <=> Len(p) >= 2 /\ p[1] = Lead /\ p[2] = Cont
          /\ IsPrefix(three, p) <=> Len(p) >= 3 /\ p[1] = Lead /\ p[2] = Cont /\ p[3] = Cont
          /\ p = one <=> Len(p) = 1 /\ p[1] = Lead
          /\ p = two <=> Len(p) = 2 /\ p[1] = Lead /\ p[2] = Cont
    BY Zenon, <1>4
  <1> QED BY Zenon, <1>1, <1>3, <1>5 DEF one, two, three

\* The first unit, by the first three bytes and the length.
LEMMA UnitByPlaces ==
  ASSUME NEW p \in Bytes, p # <<>>
  PROVE  Unit(p) =
           IF p[1] \in Ascii THEN [size |-> 1, char |-> p[1], is |-> "char"]
           ELSE IF Len(p) >= 3 /\ p[1] = Lead /\ p[2] = Cont /\ p[3] = Cont
           THEN [size |-> 3, char |-> Wide, is |-> "char"]
           ELSE IF p[1] = Lead /\ (Len(p) = 1 \/ (Len(p) = 2 /\ p[2] = Cont))
           THEN [size |-> Len(p), char |-> "?", is |-> "short"]
           ELSE IF Len(p) > 2 /\ p[1] = Lead /\ p[2] = Cont
           THEN [size |-> 2, char |-> "?", is |-> "bad"]
           ELSE [size |-> 1, char |-> "?", is |-> "bad"]
  <1>1. Len(p) \in Nat \ {0}
    BY EmptySeq DEF Bytes
  <1>2. Lead \notin Ascii
    BY ReplyConstants
  <1> DEFINE two == IsPrefix(<<Lead, Cont>>, p)
             three == IsPrefix(<<Lead, Cont, Cont>>, p)
  <1>3. /\ two <=> Len(p) >= 2 /\ p[1] = Lead /\ p[2] = Cont
        /\ three <=> Len(p) >= 3 /\ p[1] = Lead /\ p[2] = Cont /\ p[3] = Cont
        /\ p = <<Lead>> <=> Len(p) = 1 /\ p[1] = Lead
        /\ p = <<Lead, Cont>> <=> Len(p) = 2 /\ p[1] = Lead /\ p[2] = Cont
    BY Zenon, Written
  <1>4. p \in {<<Lead>>, <<Lead, Cont>>} <=> p = <<Lead>> \/ p = <<Lead, Cont>>
    OBVIOUS
  <1>5. CASE p[1] \in Ascii
    <2>1. ~two /\ ~three /\ p \notin {<<Lead>>, <<Lead, Cont>>}
      BY <1>2, <1>3, <1>4, <1>5
    <2> QED BY <1>5, <2>1 DEF Unit
  <1>6. CASE p[1] \notin Ascii /\ three
    <2>1. /\ ~(p[1] \in Ascii) /\ ~(p \in {<<Lead>>, <<Lead, Cont>>})
          /\ ~(two /\ Len(p) > 2 /\ p[3] # Cont)
      BY <1>1, <1>3, <1>4, <1>6
    <2>2. Unit(p) = [size |-> 3, char |-> Wide, is |-> "char"]
      BY <1>6, <2>1 DEF Unit
    <2> QED BY <1>3, <1>6, <2>2
  <1>7. CASE p[1] \notin Ascii /\ ~three /\ p \in {<<Lead>>, <<Lead, Cont>>}
    <2>1. ~(two /\ Len(p) > 2 /\ p[3] # Cont)
      BY <1>1, <1>3, <1>4, <1>7
    <2>2. Unit(p) = [size |-> Len(p), char |-> "?", is |-> "short"]
      BY <1>7, <2>1 DEF Unit
    <2> QED BY <1>1, <1>3, <1>4, <1>7, <2>2
  <1>8. CASE /\ p[1] \notin Ascii /\ ~three /\ p \notin {<<Lead>>, <<Lead, Cont>>}
             /\ two /\ Len(p) > 2 /\ p[3] # Cont
    <2>1. Unit(p) = [size |-> 2, char |-> "?", is |-> "bad"]
      BY <1>8 DEF Unit
    <2> HIDE DEF two, three
    <2>2. /\ ~(Len(p) >= 3 /\ p[1] = Lead /\ p[2] = Cont /\ p[3] = Cont)
          /\ ~(p[1] = Lead /\ (Len(p) = 1 \/ (Len(p) = 2 /\ p[2] = Cont)))
          /\ Len(p) > 2 /\ p[1] = Lead /\ p[2] = Cont
      BY <1>1, <1>3, <1>4, <1>8
    <2> QED BY <1>8, <2>1, <2>2
  <1>9. CASE /\ p[1] \notin Ascii /\ ~three /\ p \notin {<<Lead>>, <<Lead, Cont>>}
             /\ ~(two /\ Len(p) > 2 /\ p[3] # Cont)
    <2>1. Unit(p) = [size |-> 1, char |-> "?", is |-> "bad"]
      BY <1>9 DEF Unit
    <2> HIDE DEF two, three
    <2>2. /\ ~(Len(p) >= 3 /\ p[1] = Lead /\ p[2] = Cont /\ p[3] = Cont)
          /\ ~(p[1] = Lead /\ (Len(p) = 1 \/ (Len(p) = 2 /\ p[2] = Cont)))
          /\ ~(Len(p) > 2 /\ p[1] = Lead /\ p[2] = Cont)
      BY <1>1, <1>3, <1>4, <1>9
    <2> QED BY <1>9, <2>1, <2>2
  <1> HIDE DEF two, three
  <1>10. \/ p[1] \in Ascii
         \/ p[1] \notin Ascii /\ three
         \/ p[1] \notin Ascii /\ ~three /\ p \in {<<Lead>>, <<Lead, Cont>>}
         \/ /\ p[1] \notin Ascii /\ ~three /\ p \notin {<<Lead>>, <<Lead, Cont>>}
            /\ two /\ Len(p) > 2 /\ p[3] # Cont
         \/ /\ p[1] \notin Ascii /\ ~three /\ p \notin {<<Lead>>, <<Lead, Cont>>}
            /\ ~(two /\ Len(p) > 2 /\ p[3] # Cont)
    OBVIOUS
  <1> QED BY Zenon, <1>5, <1>6, <1>7, <1>8, <1>9, <1>10

\* The first unit is one of the kinds, and not longer than the bytes; it is short if
\* and only if the bytes are all of an incomplete character.
LEMMA UnitIs ==
  ASSUME NEW p \in Bytes, p # <<>>
  PROVE  /\ Len(p) \in Nat \ {0}
         /\ Unit(p) \in Decoded
         /\ Unit(p).size \in 1..Len(p)
         /\ Unit(p).is = "short" <=> p \in Shorts
         /\ p \in Shorts => Unit(p).size = Len(p) /\ Unit(p).char = "?"
  <1>1. Len(p) \in Nat \ {0} /\ p[1] \in Byte
    <2>1. Len(p) \in Nat \ {0}
      BY EmptySeq DEF Bytes
    <2> QED BY <2>1, ElementOfSeq DEF Bytes
  <1>2. Lead \notin Ascii
    BY ReplyConstants
  <1>3. p \in Shorts <=> p[1] = Lead /\ (Len(p) = 1 \/ (Len(p) = 2 /\ p[2] = Cont))
    <2>1. /\ p = <<Lead>> <=> Len(p) = 1 /\ p[1] = Lead
          /\ p = <<Lead, Cont>> <=> Len(p) = 2 /\ p[1] = Lead /\ p[2] = Cont
      BY Zenon, Written
    <2> QED BY <2>1 DEF Shorts
  <1>4. /\ Unit(p) \in Decoded
        /\ Unit(p).size \in 1..Len(p)
    BY <1>1, UnitByPlaces DEF Decoded, Chr, Kind
  <1>5. /\ Unit(p).is = "short" <=> p \in Shorts
        /\ p \in Shorts => Unit(p).size = Len(p) /\ Unit(p).char = "?"
    BY <1>1, <1>2, <1>3, UnitByPlaces
  <1> QED BY <1>1, <1>4, <1>5

\* The byte strings of at most n bytes, and what it is to be Units on them.
UpTo(n) == {p \in Bytes : Len(p) <= n}
UnitsUpTo(f, n) == f = [p \in UpTo(n) |-> Step(f, p)]

\* What follows the first unit.
After(p) == SubSeq(p, Unit(p).size + 1, Len(p))

\* What follows the first unit is shorter, and ends as the whole does.
LEMMA AfterIs ==
  ASSUME NEW p \in Bytes, p # <<>>
  PROVE  /\ After(p) \in Bytes
         /\ Len(After(p)) = Len(p) - Unit(p).size
         /\ Len(After(p)) \in Nat /\ Len(After(p)) < Len(p)
         /\ \A j \in 1..(Len(p) - Unit(p).size) : After(p)[j] = p[Unit(p).size + j]
  <1> DEFINE k == Unit(p).size
             n == Len(p) - k
  <1>1. Len(p) \in Nat \ {0} /\ k \in 1..Len(p)
    BY UnitIs
  <1> HIDE DEF k
  <1>2. k \in Nat /\ n \in Nat /\ n < Len(p) /\ k + n = Len(p)
    BY <1>1
  <1>3. /\ SubSeq(p, k + 1, k + n) \in Seq(Byte)
        /\ Len(SubSeq(p, k + 1, k + n)) = n
        /\ \A j \in 1..n : SubSeq(p, k + 1, k + n)[j] = p[k + j]
    <2>1. k + n <= Len(p) /\ p \in Seq(Byte)
      BY <1>1, <1>2 DEF Bytes
    <2>2. k \in Nat /\ n \in Nat /\ k + n <= Len(p)
      BY <1>2, <2>1
    <2> HIDE DEF n, k
    <2> QED BY Zenon, <2>1, <2>2, SubSeqOf
  <1>4. SubSeq(p, k + 1, k + n) = After(p)
    BY <1>2 DEF After, k
  <1> HIDE DEF n
  <1>5. After(p) \in Bytes /\ Len(After(p)) = n /\ \A j \in 1..n : After(p)[j] = p[k + j]
    BY <1>3, <1>4 DEF Bytes
  <1> QED BY <1>2, <1>5 DEF k, n

\* What Units does with a byte string depends on what it does with shorter ones.
LEMMA StepLooksAfter ==
  ASSUME NEW f, NEW g, NEW p \in Bytes, p # <<>> => f[After(p)] = g[After(p)]
  PROVE  Step(f, p) = Step(g, p)
  BY DEF Step, After

\* On byte strings of at most n bytes there is such a function.
LEMMA UnitsUpToExists == \A n \in Nat : \E f : UnitsUpTo(f, n)
  <1> DEFINE T == {n \in Nat : ~\E f : UnitsUpTo(f, n)}
  <1> SUFFICES ASSUME T # {}
               PROVE  FALSE
    OBVIOUS
  <1>1. PICK n \in T : \A y \in T : n <= y
    <2>1. T \subseteq Nat
      OBVIOUS
    <2> HIDE DEF T
    <2> QED BY Zenon, <2>1, LeastNumber
  <1>2. n \in Nat /\ ~\E f : UnitsUpTo(f, n)
    OBVIOUS
  <1>3. PICK f : n # 0 => UnitsUpTo(f, n - 1)
    <2>1. CASE n = 0
      BY <2>1
    <2>2. CASE n # 0
      <3>1. n - 1 \in Nat /\ ~(n <= n - 1)
        BY <1>2, <2>2
      <3>2. n - 1 \notin T
        <4> HIDE DEF T
        <4> QED BY <1>1, <3>1
      <3> QED BY <3>1, <3>2
    <2> QED BY <2>1, <2>2
  <1> HIDE DEF T
  <1> DEFINE g == [p \in UpTo(n) |-> Step(f, p)]
  <1>4. ASSUME NEW p \in UpTo(n)
        PROVE  Step(f, p) = Step(g, p)
    <2>1. p \in Bytes /\ Len(p) <= n
      BY DEF UpTo
    <2>2. ASSUME p # <<>>
          PROVE  f[After(p)] = g[After(p)]
      <3>1. After(p) \in Bytes /\ Len(After(p)) \in Nat /\ Len(After(p)) < Len(p)
            /\ Len(p) \in Nat
        BY <2>1, <2>2, AfterIs, UnitIs
      <3>2. n # 0 /\ After(p) \in UpTo(n - 1) /\ After(p) \in UpTo(n)
        BY <1>2, <2>1, <3>1 DEF UpTo
      <3>3. f[After(p)] = Step(f, After(p))
        BY Zenon, <1>3, <3>2 DEF UnitsUpTo
      <3> QED BY Zenon, <3>2, <3>3
    <2> HIDE DEF g
    <2> QED BY <2>1, <2>2, StepLooksAfter
  <1>5. UnitsUpTo(g, n)
    BY Zenon, <1>4 DEF UnitsUpTo
  <1> QED BY Zenon, <1>2, <1>5

\* Two of them agree where both are defined.
LEMMA UnitsUpToAgree ==
  ASSUME NEW m \in Nat, NEW n \in Nat, NEW f, NEW g, UnitsUpTo(f, m), UnitsUpTo(g, n),
         NEW p \in Bytes, Len(p) <= m, Len(p) <= n
  PROVE  f[p] = g[p]
  <1> DEFINE T == {q \in UpTo(m) \cap UpTo(n) : f[q] # g[q]}
  <1> SUFFICES T = {}
    BY DEF UpTo
  <1> SUFFICES ASSUME T # {}
               PROVE  FALSE
    OBVIOUS
  <1>1. T \subseteq Bytes
    BY DEF UpTo
  <1>2. PICK q \in T : \A r \in T : Len(q) <= Len(r)
    <2> HIDE DEF T
    <2> QED BY Zenon, <1>1, Shortest
  <1>3. q \in UpTo(m) /\ q \in UpTo(n) /\ f[q] # g[q]
    OBVIOUS
  <1>4. q \in Bytes /\ Len(q) <= m /\ Len(q) <= n
    BY <1>3 DEF UpTo
  <1>5. ASSUME q # <<>>
        PROVE  f[After(q)] = g[After(q)]
    <2>1. After(q) \in Bytes /\ Len(After(q)) \in Nat /\ Len(After(q)) < Len(q)
          /\ Len(q) \in Nat
      BY <1>4, <1>5, AfterIs, UnitIs
    <2>2. After(q) \in UpTo(m) /\ After(q) \in UpTo(n)
      BY <1>4, <2>1 DEF UpTo
    <2>3. After(q) \notin T
      <3> HIDE DEF T
      <3> QED BY <1>2, <2>1
    <2> QED BY <2>2, <2>3
  <1>6. Step(f, q) = Step(g, q)
    BY <1>4, <1>5, StepLooksAfter
  <1>7. f[q] = Step(f, q) /\ g[q] = Step(g, q)
    BY Zenon, <1>3 DEF UnitsUpTo
  <1> QED BY <1>3, <1>6, <1>7

\* Units is what its definition says.
LEMMA UnitsIs == \A p \in Bytes : Units[p] = Step(Units, p)
  <1> DEFINE U(n) == CHOOSE f : UnitsUpTo(f, n)
             g == [p \in Bytes |-> U(Len(p))[p]]
  <1>1. \A n \in Nat : UnitsUpTo(U(n), n)
    BY Zenon, UnitsUpToExists
  <1> HIDE DEF U
  <1>2. ASSUME NEW p \in Bytes
        PROVE  g[p] = Step(g, p)
    <2> DEFINE f == U(Len(p))
    <2>1. Len(p) \in Nat /\ UnitsUpTo(f, Len(p))
      BY <1>1, LenProperties DEF Bytes
    <2>2. p \in UpTo(Len(p))
      BY <2>1 DEF UpTo
    <2>3. g[p] = f[p] /\ f[p] = Step(f, p)
      BY Zenon, <2>1, <2>2 DEF UnitsUpTo
    <2>4. ASSUME p # <<>>
          PROVE  f[After(p)] = g[After(p)]
      <3> DEFINE r == After(p)
      <3>1. r \in Bytes /\ Len(r) \in Nat /\ Len(r) < Len(p)
        BY <2>4, AfterIs
      <3>2. UnitsUpTo(U(Len(r)), Len(r)) /\ g[r] = U(Len(r))[r]
        BY Zenon, <1>1, <3>1
      <3>3. Len(r) <= Len(r) /\ Len(r) <= Len(p)
        BY <2>1, <3>1
      <3> HIDE DEF f, g, r
      <3>4. f[r] = U(Len(r))[r]
        BY <2>1, <3>1, <3>2, <3>3, UnitsUpToAgree
      <3> QED BY <3>2, <3>4 DEF r
    <2> HIDE DEF f, g
    <2>5. Step(f, p) = Step(g, p)
      BY <2>4, StepLooksAfter
    <2> QED BY <2>3, <2>5
  <1>3. g = [p \in Bytes |-> Step(g, p)]
    <2>1. g = [p \in Bytes |-> g[p]]
      OBVIOUS
    <2> HIDE DEF g
    <2> QED BY Zenon, <1>2, <2>1
  <1>4. Units = CHOOSE f : f = [p \in Bytes |-> Step(f, p)]
    BY Zenon DEF Units, Step, Bytes, Byte
  <1> HIDE DEF g
  <1>5. Units = [p \in Bytes |-> Step(Units, p)]
    BY Zenon, <1>3, <1>4
  <1> QED BY Zenon, <1>5

\* The units of a byte string are its first one and those of what follows.
LEMMA UnitsNext ==
  /\ Units[<<>>] = <<>>
  /\ \A p \in Bytes : p # <<>> => Units[p] = <<Unit(p)>> \o Units[After(p)]
  <1>1. <<>> \in Bytes
    BY EmptySeq DEF Bytes
  <1>2. Units[<<>>] = <<>>
    BY <1>1, UnitsIs DEF Step
  <1>3. ASSUME NEW p \in Bytes, p # <<>>
        PROVE  Units[p] = <<Unit(p)>> \o Units[After(p)]
    BY Zenon, <1>3, UnitsIs DEF Step, After
  <1> QED BY <1>2, <1>3

\* Units gives units.
LEMMA UnitsAreDecoded == \A p \in Bytes : Units[p] \in Seq(Decoded)
  <1> DEFINE T == {p \in Bytes : Units[p] \notin Seq(Decoded)}
  <1> SUFFICES ASSUME T # {}
               PROVE  FALSE
    OBVIOUS
  <1>1. PICK p \in T : \A q \in T : Len(p) <= Len(q)
    <2>1. T \subseteq Bytes
      OBVIOUS
    <2> HIDE DEF T
    <2> QED BY Zenon, <2>1, Shortest
  <1>2. p \in Bytes /\ Units[p] \notin Seq(Decoded)
    OBVIOUS
  <1>3. p # <<>>
    BY <1>2, UnitsNext, EmptySeq
  <1>4. After(p) \in Bytes /\ Len(After(p)) \in Nat /\ Len(After(p)) < Len(p) /\ Len(p) \in Nat
    BY <1>2, <1>3, AfterIs, UnitIs
  <1>5. Units[After(p)] \in Seq(Decoded)
    <2>1. After(p) \notin T
      <3> HIDE DEF T
      <3> QED BY <1>1, <1>4
    <2> QED BY <1>4, <2>1
  <1>6. <<Unit(p)>> \in Seq(Decoded)
    BY <1>2, <1>3, UnitIs
  <1>7. Units[p] = <<Unit(p)>> \o Units[After(p)]
    BY <1>2, <1>3, UnitsNext
  <1> QED BY <1>2, <1>5, <1>6, <1>7, ConcatProperties

\* There is a unit of a kind among these.
Amid(u, what) == \E i \in DOMAIN u : u[i].is = what

\* What is among units put together.
LEMMA Among ==
  ASSUME NEW u \in Seq(Decoded), NEW v \in Seq(Decoded), NEW what
  PROVE  Amid(u \o v, what) <=> Amid(u, what) \/ Amid(v, what)
  <1> DEFINE w == u \o v
  <1>1. /\ Len(u) \in Nat /\ Len(v) \in Nat /\ DOMAIN u = 1..Len(u) /\ DOMAIN v = 1..Len(v)
        /\ w \in Seq(Decoded) /\ Len(w) = Len(u) + Len(v)
        /\ \A i \in 1..(Len(u) + Len(v)) : w[i] = IF i <= Len(u) THEN u[i] ELSE v[i - Len(u)]
    BY ConcatProperties, LenProperties
  <1> HIDE DEF w
  <1>2. DOMAIN w = 1..(Len(u) + Len(v))
    BY <1>1, LenProperties
  <1>3. ASSUME NEW i \in DOMAIN w, w[i].is = what
        PROVE  (\E j \in DOMAIN u : u[j].is = what) \/ \E j \in DOMAIN v : v[j].is = what
    <2>1. CASE i <= Len(u)
      BY <1>1, <1>2, <1>3, <2>1
    <2>2. CASE ~(i <= Len(u))
      <3>1. i - Len(u) \in DOMAIN v /\ w[i] = v[i - Len(u)]
        BY <1>1, <1>2, <2>2
      <3> QED BY <1>3, <3>1
    <2> QED BY <2>1, <2>2
  <1>4. ASSUME NEW i \in DOMAIN u, u[i].is = what
        PROVE  \E j \in DOMAIN w : w[j].is = what
    <2>1. i \in DOMAIN w /\ w[i] = u[i]
      BY <1>1, <1>2
    <2> QED BY <1>4, <2>1
  <1>5. ASSUME NEW i \in DOMAIN v, v[i].is = what
        PROVE  \E j \in DOMAIN w : w[j].is = what
    <2>1. /\ Len(u) + i \in 1..(Len(u) + Len(v)) /\ ~(Len(u) + i <= Len(u))
          /\ (Len(u) + i) - Len(u) = i
      BY <1>1
    <2>2. w[Len(u) + i] = v[i]
      BY <1>1, <2>1
    <2> QED BY <1>2, <1>5, <2>1, <2>2
  <1>6. (\E j \in DOMAIN w : w[j].is = what)
        <=> (\E j \in DOMAIN u : u[j].is = what) \/ \E j \in DOMAIN v : v[j].is = what
    BY <1>3, <1>4, <1>5
  <1> QED BY <1>6 DEF w, Amid

\* What is among the units of p is its first one or among those that follow.
LEMMA HasNext ==
  ASSUME NEW p \in Bytes, p # <<>>, NEW what
  PROVE  Has(p, what) <=> Unit(p).is = what \/ Has(After(p), what)
  <1> DEFINE u == <<Unit(p)>>
             v == Units[After(p)]
  <1>1. u \in Seq(Decoded) /\ DOMAIN u = {1} /\ u[1] = Unit(p)
    BY UnitIs
  <1>2. v \in Seq(Decoded)
    BY AfterIs, UnitsAreDecoded
  <1>3. Units[p] = u \o v
    BY UnitsNext
  <1> HIDE DEF u, v
  <1>4. Amid(u \o v, what) <=> Amid(u, what) \/ Amid(v, what)
    BY <1>1, <1>2, Among
  <1>5. Amid(u, what) <=> Unit(p).is = what
    BY <1>1 DEF Amid
  <1>6. Has(p, what) <=> Amid(u \o v, what)
    BY Zenon, <1>3 DEF Has, Amid
  <1>7. Has(After(p), what) <=> Amid(v, what)
    BY Zenon DEF Has, Amid, v
  <1> QED BY <1>4, <1>5, <1>6, <1>7

\* The characters of units put together.
LEMMA CharsOf ==
  ASSUME NEW u \in Seq(Decoded), NEW v \in Seq(Decoded)
  PROVE  /\ Chars(u) \in Seq(Chr) /\ Len(Chars(u)) = Len(u)
         /\ Chars(u \o v) = Chars(u) \o Chars(v)
  <1>1. ASSUME NEW w \in Seq(Decoded)
        PROVE  /\ Chars(w) \in Seq(Chr) /\ Len(Chars(w)) = Len(w) /\ Len(w) \in Nat
               /\ \A i \in 1..Len(w) : Chars(w)[i] = w[i].char
    <2>1. Len(w) \in Nat /\ DOMAIN w = 1..Len(w) /\ \A i \in 1..Len(w) : w[i] \in Decoded
      BY LenProperties, ElementOfSeq
    <2>2. Chars(w) = [i \in 1..Len(w) |-> w[i].char]
      BY <2>1 DEF Chars
    <2>3. \A i \in 1..Len(w) : w[i].char \in Chr
      BY <2>1 DEF Decoded
    <2> QED BY <2>1, <2>2, <2>3
  <1> DEFINE x == u \o v
             a == Chars(u)
             b == Chars(v)
             c == Chars(x)
  <1>2. x \in Seq(Decoded) /\ Len(x) = Len(u) + Len(v)
        /\ \A i \in 1..(Len(u) + Len(v)) : x[i] = IF i <= Len(u) THEN u[i] ELSE v[i - Len(u)]
    BY ConcatProperties
  <1> HIDE DEF x
  <1>3. /\ a \in Seq(Chr) /\ Len(a) = Len(u) /\ Len(u) \in Nat
        /\ \A i \in 1..Len(u) : a[i] = u[i].char
    BY <1>1
  <1>4. /\ b \in Seq(Chr) /\ Len(b) = Len(v) /\ Len(v) \in Nat
        /\ \A i \in 1..Len(v) : b[i] = v[i].char
    BY <1>1
  <1>5. c \in Seq(Chr) /\ Len(c) = Len(x) /\ \A i \in 1..Len(x) : c[i] = x[i].char
    BY <1>1, <1>2
  <1> HIDE DEF a, b, c
  <1>6. a \o b \in Seq(Chr) /\ Len(a \o b) = Len(a) + Len(b)
        /\ \A i \in 1..(Len(a) + Len(b)) : (a \o b)[i] = IF i <= Len(a) THEN a[i] ELSE b[i - Len(a)]
    BY <1>3, <1>4, TextsConcat
  <1>7. ASSUME NEW i \in 1..Len(c)
        PROVE  c[i] = (a \o b)[i]
    <2>1. i \in 1..(Len(u) + Len(v)) /\ c[i] = x[i].char
      BY <1>2, <1>5
    <2>2. CASE i <= Len(u)
      <3>1. i \in 1..Len(u)
        BY <1>3, <1>4, <2>1, <2>2
      <3>2. x[i] = u[i] /\ (a \o b)[i] = a[i]
        BY <1>2, <1>3, <1>4, <1>6, <2>1, <2>2
      <3> QED BY <1>3, <2>1, <3>1, <3>2
    <2>3. CASE ~(i <= Len(u))
      <3>1. i - Len(u) \in 1..Len(v)
        BY <1>3, <1>4, <2>1, <2>3
      <3>2. x[i] = v[i - Len(u)] /\ (a \o b)[i] = b[i - Len(u)]
        BY <1>2, <1>3, <1>4, <1>6, <2>1, <2>3
      <3> QED BY <1>4, <2>1, <3>1, <3>2
    <2> QED BY <2>2, <2>3
  <1>8. c = a \o b
    <2>1. Len(c) = Len(a \o b)
      BY <1>2, <1>3, <1>4, <1>5, <1>6
    <2> QED BY <1>5, <1>6, <1>7, <2>1, SeqEqual
  <1> QED BY <1>3, <1>8 DEF a, b, c, x

\* A sequence without its first part.
LEMMA WithoutFirst ==
  ASSUME NEW b \in Bytes, NEW y \in Bytes
  PROVE  SubSeq(b \o y, Len(b) + 1, Len(b \o y)) = y
  <1> DEFINE w == b \o y
             k == Len(b)
             n == Len(y)
             z == SubSeq(w, k + 1, k + n)
  <1>1. b \in Seq(Byte) /\ y \in Seq(Byte) /\ k \in Nat /\ n \in Nat
    BY LenProperties DEF Bytes
  <1>2. w \in Seq(Byte) /\ Len(w) = k + n
        /\ \A j \in 1..(k + n) : w[j] = IF j <= k THEN b[j] ELSE y[j - k]
    BY <1>1, ConcatProperties
  <1> HIDE DEF w, k, n
  <1>3. z \in Seq(Byte) /\ Len(z) = n /\ \A j \in 1..n : z[j] = w[k + j]
    <2>1. k + n <= Len(w) /\ w \in Seq(Byte)
      BY <1>1, <1>2
    <2>2. k \in Nat /\ n \in Nat
      BY <1>1
    <2> QED BY Zenon, <2>1, <2>2, SubSeqOf
  <1>4. ASSUME NEW j \in 1..n
        PROVE  z[j] = y[j]
    <2>1. k + j \in 1..(k + n) /\ ~(k + j <= k) /\ (k + j) - k = j
      BY <1>1
    <2> QED BY <1>2, <1>3, <2>1
  <1> HIDE DEF z
  <1>5. z = y
    <2>1. Len(z) = Len(y)
      BY <1>3 DEF n
    <2> QED BY <1>1, <1>3, <1>4, <2>1, SeqEqual
  <1> QED BY <1>2, <1>5 DEF w, k, n, z

\* A byte string is its first unit's bytes and what follows.
LEMMA BeforeAfter ==
  ASSUME NEW p \in Bytes, p # <<>>
  PROVE  \E b \in Bytes : Len(b) = Unit(p).size /\ p = b \o After(p)
  <1> DEFINE k == Unit(p).size
             b == SubSeq(p, 1, k)
  <1>1. p \in Seq(Byte) /\ Len(p) \in Nat \ {0} /\ k \in 1..Len(p)
    BY UnitIs DEF Bytes
  <1>2. b \in Seq(Byte) /\ Len(b) = k
    <2>1. /\ SubSeq(p, 0 + 1, 0 + k) \in Seq(Byte)
          /\ Len(SubSeq(p, 0 + 1, 0 + k)) = k
      <3> HIDE DEF k
      <3>1. k \in Nat /\ 0 + k <= Len(p)
        BY <1>1
      <3> QED BY <1>1, <3>1, SubSeqOf
    <2> QED BY <1>1, <2>1
  <1>3. b \o After(p) = p
    <2> HIDE DEF k
    <2>1. /\ 1 \in 1..(Len(p) + 1) /\ k \in (1 - 1)..Len(p) /\ Len(p) \in k..Len(p)
      BY <1>1
    <2>2. b \o SubSeq(p, k + 1, Len(p)) = SubSeq(p, 1, Len(p))
      BY <1>1, <2>1, ConcatAdjacentSubSeq
    <2> QED BY <1>1, <2>2, SubSeqFull DEF After, k
  <1> QED BY <1>2, <1>3 DEF Bytes

\* Numbers up to three.
LEMMA NotSmall ==
  \A n \in Nat : /\ n # 0 /\ n # 1 => n >= 2
                 /\ n >= 2 /\ n # 2 => n >= 3
                 /\ n >= 2 => n # 1
  OBVIOUS

\* q begins with the first n bytes of p.
BeginsAs(q, p, n) == n <= Len(q) /\ \A j \in 1..n : q[j] = p[j]

\* The first unit of p stays what it is: when bytes follow, unless it is short, and
\* when other bytes follow it, if it is a character.
LEMMA FirstUnitStays ==
  ASSUME NEW p \in Bytes, p # <<>>, NEW q \in Bytes, q # <<>>,
         \/ Unit(p).is # "short" /\ BeginsAs(q, p, Len(p))
         \/ Unit(p).is = "char" /\ BeginsAs(q, p, Unit(p).size)
  PROVE  Unit(q) = Unit(p)
  <1>1. Len(p) \in Nat \ {0} /\ Len(q) \in Nat \ {0} /\ Unit(p).size \in 1..Len(p)
        /\ p[1] \in Byte
    <2>1. Len(p) \in Nat \ {0} /\ Len(q) \in Nat \ {0} /\ Unit(p).size \in 1..Len(p)
      BY UnitIs
    <2> QED BY <2>1, ElementOfSeq DEF Bytes
  <1>2. Lead \notin Ascii /\ Lead # Cont
    BY ReplyConstants
  <1>8. Len(p) \in Nat /\ Len(q) \in Nat /\ Len(p) # 0
    BY <1>1
  <1>3. q[1] = p[1]
    BY <1>1 DEF BeginsAs
  <1>4. CASE p[1] \in Ascii
    BY <1>3, <1>4, UnitByPlaces
  <1>5. CASE p[1] # Lead /\ p[1] \notin Ascii
    BY <1>3, <1>5, UnitByPlaces
  <1>6. CASE p[1] = Lead /\ Len(p) >= 3 /\ p[2] = Cont /\ p[3] = Cont
    <2>1. Unit(p) = [size |-> 3, char |-> Wide, is |-> "char"]
      BY <1>2, <1>6, UnitByPlaces
    <2>2. Len(q) >= 3 /\ q[2] = p[2] /\ q[3] = p[3]
      BY <1>1, <1>6, <2>1 DEF BeginsAs
    <2> QED BY <1>2, <1>3, <1>6, <2>1, <2>2, UnitByPlaces
  <1>7. CASE p[1] = Lead /\ ~(Len(p) >= 3 /\ p[2] = Cont /\ p[3] = Cont)
    <2>1. /\ Unit(p).is # "char" /\ p[1] \notin Ascii
          /\ Unit(p).is # "short" => ~(Len(p) = 1 \/ (Len(p) = 2 /\ p[2] = Cont))
      BY <1>2, <1>7, UnitByPlaces
    <2>2. /\ Unit(p).is # "short" /\ Len(p) <= Len(q) /\ Len(p) >= 2
      <3>1. Unit(p).is # "short" /\ BeginsAs(q, p, Len(p))
        BY <2>1
      <3>2. Len(p) # 1
        BY <2>1, <3>1
      <3>3. Len(p) >= 2
        BY Zenon, <1>8, <3>2, NotSmall
      <3> QED BY <3>1, <3>3 DEF BeginsAs
    <2>3. q[2] = p[2] /\ (Len(p) >= 3 => q[3] = p[3])
      <3>1. BeginsAs(q, p, Len(p))
        BY <2>1
      <3>2. 2 \in 1..Len(p) /\ (Len(p) >= 3 => 3 \in 1..Len(p))
        BY <1>8, <2>2
      <3> QED BY <3>1, <3>2 DEF BeginsAs
    <2>4. CASE p[2] = Cont
      <3>1. Len(p) > 2 /\ Len(p) >= 3 /\ Len(q) > 2 /\ p[3] # Cont /\ q[3] # Cont
        <4>1. Len(p) # 2
          BY <2>1, <2>2, <2>4
        <4>2. Len(p) >= 3 /\ Len(p) > 2 /\ Len(q) > 2
          <5>1. Len(p) >= 3
            BY Zenon, <1>8, <2>2, <4>1, NotSmall
          <5> QED BY <1>8, <2>2, <5>1
        <4>3. p[3] # Cont
          BY <1>7, <2>4, <4>2
        <4> QED BY <2>3, <4>2, <4>3
      <3> QED BY <1>1, <1>2, <1>3, <1>7, <2>1, <2>3, <2>4, <3>1, UnitByPlaces
    <2>5. CASE p[2] # Cont
      <3>1. Len(p) # 1 /\ Len(q) # 1
        <4>1. Len(q) >= 2
          BY <1>8, <2>2
        <4> QED BY Zenon, <1>8, <2>2, <4>1, NotSmall
      <3> QED BY <1>1, <1>2, <1>3, <1>7, <2>1, <2>3, <2>5, <3>1, UnitByPlaces
    <2> QED BY <2>4, <2>5
  <1> QED BY <1>4, <1>5, <1>6, <1>7

\* Byte strings one after another.
LEMMA BytesConcat ==
  \A p, q \in Bytes : /\ p \o q \in Bytes /\ Len(p \o q) = Len(p) + Len(q)
                      /\ Len(p) \in Nat /\ Len(q) \in Nat
                      /\ p # <<>> => Len(p) # 0 /\ p \o q # <<>>
                      /\ BeginsAs(p \o q, p, Len(p))
  <1> SUFFICES ASSUME NEW p \in Bytes, NEW q \in Bytes
               PROVE  /\ p \o q \in Bytes /\ Len(p \o q) = Len(p) + Len(q)
                      /\ Len(p) \in Nat /\ Len(q) \in Nat
                      /\ p # <<>> => Len(p) # 0 /\ p \o q # <<>>
                      /\ BeginsAs(p \o q, p, Len(p))
    OBVIOUS
  <1>1. p \in Seq(Byte) /\ q \in Seq(Byte) /\ Len(p) \in Nat /\ Len(q) \in Nat
    BY LenProperties DEF Bytes
  <1>2. /\ p \o q \in Seq(Byte) /\ Len(p \o q) = Len(p) + Len(q)
        /\ \A j \in 1..(Len(p) + Len(q)) : (p \o q)[j] = IF j <= Len(p) THEN p[j] ELSE q[j - Len(p)]
    BY <1>1, ConcatProperties
  <1>3. p # <<>> => Len(p) # 0
    BY <1>1, EmptySeq
  <1>4. p # <<>> => p \o q # <<>>
    BY <1>1, <1>2, <1>3, EmptySeq
  <1>5. BeginsAs(p \o q, p, Len(p))
    BY <1>1, <1>2 DEF BeginsAs
  <1> QED BY <1>1, <1>2, <1>3, <1>4, <1>5 DEF Bytes

\* How bytes are put together does not matter.
LEMMA BytesAssociate == \A p, q, r \in Bytes : (p \o q) \o r = p \o (q \o r)
  BY SMTT(30), ConcatAssociative DEF Bytes

\* A byte string and another one behind it are one that begins as the first.
LEMMA BytesJoin == \A p, q \in Bytes : p \o q \in Bytes /\ BeginsAs(p \o q, p, Len(p))
  BY BytesConcat

\* How units are put together does not matter.
LEMMA UnitsAssociate == \A u, v, w \in Seq(Decoded) : (u \o v) \o w = u \o (v \o w)
  BY ConcatAssociative

\* Bytes that do not end in the middle of a character are decoded by themselves,
\* whatever follows.
LEMMA UnitsOfBoth ==
  ASSUME NEW x \in Bytes, NEW d \in Bytes, ~Has(d, "short")
  PROVE  Units[d \o x] = Units[d] \o Units[x]
  <1> DEFINE T == {p \in Bytes : ~Has(p, "short") /\ Units[p \o x] # Units[p] \o Units[x]}
  <1> SUFFICES ASSUME T # {}
               PROVE  FALSE
    OBVIOUS
  <1>1. PICK p \in T : \A q \in T : Len(p) <= Len(q)
    <2>1. T \subseteq Bytes
      OBVIOUS
    <2> HIDE DEF T
    <2> QED BY Zenon, <2>1, Shortest
  <1>2. p \in Bytes /\ ~Has(p, "short") /\ Units[p \o x] # Units[p] \o Units[x]
    OBVIOUS
  <1>3. Units[x] \in Seq(Decoded)
    BY UnitsAreDecoded
  <1>4. p # <<>>
    <2>1. <<>> \o x = x
      BY ConcatEmptySeq DEF Bytes
    <2>2. <<>> \o Units[x] = Units[x]
      BY <1>3, ConcatEmptySeq
    <2> QED BY <1>2, <2>1, <2>2, UnitsNext
  <1> DEFINE a == After(p)
             w == p \o x
             first == <<Unit(p)>>
  <1>5. /\ a \in Bytes /\ Len(a) \in Nat /\ Len(a) < Len(p) /\ Len(p) \in Nat
        /\ first \in Seq(Decoded) /\ Units[a] \in Seq(Decoded)
    <2>1. a \in Bytes /\ Len(a) \in Nat /\ Len(a) < Len(p) /\ Len(p) \in Nat
      BY <1>2, <1>4, AfterIs, UnitIs
    <2>2. Unit(p) \in Decoded
      BY <1>2, <1>4, UnitIs
    <2> QED BY <2>1, <2>2, UnitsAreDecoded
  <1>6. Unit(p).is # "short" /\ ~Has(a, "short")
    BY <1>2, <1>4, HasNext
  <1>7. Units[a \o x] = Units[a] \o Units[x]
    <2>1. a \notin T
      <3> HIDE DEF T, a
      <3> QED BY <1>1, <1>5
    <2> QED BY <1>5, <1>6, <2>1
  <1>8. w \in Bytes /\ w # <<>> /\ BeginsAs(w, p, Len(p))
    BY <1>2, <1>4, BytesConcat
  <1>9. Unit(w) = Unit(p)
    <2> HIDE DEF w
    <2> QED BY <1>2, <1>4, <1>6, <1>8, FirstUnitStays
  <1>10. PICK b \in Bytes : Len(b) = Unit(p).size /\ p = b \o a
    BY <1>2, <1>4, BeforeAfter
  <1>11. After(w) = a \o x
    <2> HIDE DEF a
    <2>1. w = b \o (a \o x) /\ a \o x \in Bytes
      <3> HIDE DEF T, w, first
      <3>1. a \o x \in Bytes
        BY Zenon, <1>5, BytesJoin
      <3>2. (b \o a) \o x = b \o (a \o x)
        BY Zenon, <1>5, BytesAssociate
      <3> QED BY Zenon, <1>10, <3>1, <3>2 DEF w
    <2>2. SubSeq(b \o (a \o x), Len(b) + 1, Len(b \o (a \o x))) = a \o x
      BY <2>1, WithoutFirst
    <2> QED BY <1>9, <1>10, <2>1, <2>2 DEF After
  <1>12. Units[w] = first \o Units[a \o x]
    <2> HIDE DEF w
    <2> QED BY <1>8, <1>9, <1>11, UnitsNext
  <1>13. Units[p] = first \o Units[a]
    BY <1>2, <1>4, UnitsNext
  <1> HIDE DEF a, first, w
  <1>14. (first \o Units[a]) \o Units[x] = first \o (Units[a] \o Units[x])
    BY <1>3, <1>5, UnitsAssociate
  <1> QED BY <1>2, <1>7, <1>12, <1>13, <1>14 DEF w

\* Where a character is missing its end and nothing else is wrong, it is the last,
\* and the bytes before it are characters by themselves.
LEMMA ShortIsLast ==
  ASSUME NEW p \in Bytes, Has(p, "short"), ~Has(p, "bad")
  PROVE  \E a \in Bytes : \E e \in Shorts : p = a \o e /\ ~Has(a, "short") /\ ~Has(a, "bad")
  <1> DEFINE Split(q) == \E a \in Bytes : \E e \in Shorts :
                           q = a \o e /\ ~Has(a, "short") /\ ~Has(a, "bad")
             T == {q \in Bytes : Has(q, "short") /\ ~Has(q, "bad") /\ ~Split(q)}
  <1> SUFFICES ASSUME T # {}
               PROVE  FALSE
    OBVIOUS
  <1>1. PICK q \in T : \A r \in T : Len(q) <= Len(r)
    <2>1. T \subseteq Bytes
      OBVIOUS
    <2> HIDE DEF T
    <2> QED BY Zenon, <2>1, Shortest
  <1>2. q \in Bytes /\ Has(q, "short") /\ ~Has(q, "bad") /\ ~Split(q)
    OBVIOUS
  <1>3. ~Has(<<>>, "short") /\ ~Has(<<>>, "bad") /\ <<>> \in Bytes
    BY UnitsNext, EmptySeq DEF Has, Bytes
  <1>4. q # <<>>
    BY <1>2, <1>3
  <1>5. Unit(q).is # "bad" /\ ~Has(After(q), "bad")
    BY <1>2, <1>4, HasNext
  <1>6. CASE Unit(q).is = "short"
    <2>1. q \in Shorts
      BY <1>2, <1>4, <1>6, UnitIs
    <2>2. q = <<>> \o q
      BY <1>2, ConcatEmptySeq DEF Bytes
    <2> QED BY <1>2, <1>3, <2>1, <2>2
  <1>7. CASE Unit(q).is = "char"
    <2> DEFINE r == After(q)
    <2>1. r \in Bytes /\ Len(r) \in Nat /\ Len(r) < Len(q) /\ Len(q) \in Nat
      BY <1>2, <1>4, AfterIs, UnitIs
    <2>2. Has(r, "short")
      BY <1>2, <1>4, <1>7, HasNext
    <2>3. r \notin T
      <3> HIDE DEF T, r
      <3> QED BY <1>1, <2>1
    <2>4. Split(r)
      BY <1>5, <2>1, <2>2, <2>3
    <2>5. PICK a \in Bytes, e \in Shorts : r = a \o e /\ ~Has(a, "short") /\ ~Has(a, "bad")
      BY <2>4
    <2>6. PICK b \in Bytes : Len(b) = Unit(q).size /\ q = b \o r
      BY <1>2, <1>4, BeforeAfter
    <2>7. e \in Bytes
      BY Written DEF Shorts
    <2> DEFINE c == b \o a
    <2>8. c \in Bytes /\ BeginsAs(c, b, Len(b)) /\ q = c \o e
      <3> HIDE DEF T, r
      <3>1. c \in Bytes /\ BeginsAs(c, b, Len(b))
        BY Zenon, BytesJoin
      <3>2. (b \o a) \o e = b \o (a \o e)
        BY Zenon, <2>7, BytesAssociate
      <3> QED BY Zenon, <2>5, <2>6, <3>1, <3>2
    <2>9. Len(b) \in Nat \ {0} /\ b # <<>> /\ BeginsAs(q, b, Len(b))
      <3>1. Len(b) \in Nat \ {0}
        BY <1>2, <1>4, <2>6, UnitIs
      <3>2. b # <<>>
        BY <3>1, EmptySeq
      <3> HIDE DEF r
      <3> QED BY <2>1, <2>6, <3>1, <3>2, BytesConcat
    <2>10. c # <<>>
      BY <2>9, BytesConcat
    <2> HIDE DEF c, r
    <2>11. BeginsAs(c, q, Unit(q).size)
      BY <2>6, <2>8, <2>9 DEF BeginsAs
    <2>12. Unit(c) = Unit(q)
      BY <1>2, <1>4, <1>7, <2>8, <2>10, <2>11, FirstUnitStays
    <2>13. After(c) = a
      <3>1. SubSeq(b \o a, Len(b) + 1, Len(b \o a)) = a
        BY WithoutFirst
      <3> QED BY <2>6, <2>12, <3>1 DEF After, c
    <2>14. ~Has(c, "short") /\ ~Has(c, "bad")
      BY <1>7, <2>5, <2>8, <2>10, <2>12, <2>13, HasNext
    <2> QED BY <1>2, <2>8, <2>14
  <1>8. Unit(q).is \in Kind
    BY <1>2, <1>4, UnitIs DEF Decoded
  <1> QED BY <1>5, <1>6, <1>7, <1>8 DEF Kind

\* Decoding gives texts, and none for no bytes.
LEMMA LossyIs == Lossy(<<>>) = <<>> /\ \A p \in Bytes : Lossy(p) \in Seq(Chr)
  <1>1. Lossy(<<>>) = <<>>
    BY UnitsNext DEF Lossy, Chars
  <1>2. ASSUME NEW p \in Bytes
        PROVE  Lossy(p) \in Seq(Chr)
    <2>1. Units[p] \in Seq(Decoded)
      BY UnitsAreDecoded
    <2> QED BY <2>1, CharsOf DEF Lossy
  <1> QED BY <1>1, <1>2

\* Bytes that do not end in the middle of a character give their own text.
LEMMA LossyOfBoth ==
  ASSUME NEW x \in Bytes, NEW d \in Bytes, ~Has(d, "short")
  PROVE  /\ Lossy(d \o x) = Lossy(d) \o Lossy(x)
         /\ Has(d \o x, "short") <=> Has(x, "short")
  <1>1. Units[d \o x] = Units[d] \o Units[x]
    BY UnitsOfBoth
  <1>2. Units[d] \in Seq(Decoded) /\ Units[x] \in Seq(Decoded)
    BY UnitsAreDecoded
  <1>3. Chars(Units[d] \o Units[x]) = Chars(Units[d]) \o Chars(Units[x])
    BY <1>2, CharsOf
  <1>4. Amid(Units[d] \o Units[x], "short") <=> Amid(Units[d], "short") \/ Amid(Units[x], "short")
    BY <1>2, Among
  <1>5. /\ Has(d, "short") <=> Amid(Units[d], "short")
        /\ Has(x, "short") <=> Amid(Units[x], "short")
        /\ Has(d \o x, "short") <=> Amid(Units[d \o x], "short")
    BY Zenon DEF Has, Amid
  <1> QED BY Zenon, <1>1, <1>3, <1>4, <1>5 DEF Lossy

\* Units and one more.
LEMMA FrontAndLast ==
  ASSUME NEW u \in Seq(Decoded), NEW x \in Decoded
  PROVE  Front(u \o <<x>>) = u /\ Last(u \o <<x>>) = x
  <1> DEFINE one == <<x>>
             w == u \o one
             n == Len(u)
             z == SubSeq(w, 1, n)
  <1>1. one \in Seq(Decoded) /\ Len(one) = 1 /\ one[1] = x /\ n \in Nat
    BY LenProperties
  <1>2. /\ w \in Seq(Decoded) /\ Len(w) = n + 1
        /\ \A j \in 1..(n + 1) : w[j] = IF j <= n THEN u[j] ELSE one[j - n]
    <2> HIDE DEF one
    <2> QED BY <1>1, ConcatProperties
  <1> HIDE DEF one, w
  <1>3. w[n + 1] = x
    BY <1>1, <1>2
  <1>4. z \in Seq(Decoded) /\ Len(z) = n /\ \A j \in 1..n : z[j] = w[j]
    <2>1. /\ SubSeq(w, 0 + 1, 0 + n) \in Seq(Decoded)
          /\ Len(SubSeq(w, 0 + 1, 0 + n)) = n
          /\ \A j \in 1..n : SubSeq(w, 0 + 1, 0 + n)[j] = w[0 + j]
      <3> HIDE DEF n
      <3>1. 0 \in Nat /\ 0 + n <= Len(w)
        BY <1>1, <1>2
      <3> QED BY <1>1, <1>2, <3>1, SubSeqOf
    <2> HIDE DEF n
    <2> QED BY <1>1, <2>1
  <1>5. \A j \in 1..n : z[j] = u[j]
    BY <1>1, <1>2, <1>4
  <1> HIDE DEF z
  <1>6. z = u
    BY <1>4, <1>5, SeqEqual
  <1>7. Front(w) = z /\ Last(w) = w[n + 1]
    BY <1>1, <1>2 DEF Front, Last, z
  <1> QED BY <1>3, <1>6, <1>7 DEF w, one

\* What push holds back is the beginning of a character; what it gives out is the
\* text of the bytes before, unless there were invalid ones too.
LEMMA Utf8PushIs ==
  ASSUME NEW p \in Bytes
  PROVE  LET new == Utf8Push(p)
         IN  /\ new.text \in Seq(Chr)
             /\ new.rest = <<>> \/ new.rest \in Shorts
             /\ new.rest \in Bytes
             /\ ~(Has(p, "short") /\ Has(p, "bad")) =>
                  \E a \in Bytes : p = a \o new.rest /\ ~Has(a, "short") /\ new.text = Lossy(a)
  <1>1. <<>> \in Bytes /\ p \o <<>> = p
    BY EmptySeq, ConcatEmptySeq DEF Bytes
  <1>2. CASE ~(Has(p, "short") /\ ~Has(p, "bad"))
    <2>1. Utf8Push(p) = [text |-> Lossy(p), rest |-> <<>>]
      BY <1>2 DEF Utf8Push
    <2>2. Lossy(p) \in Seq(Chr)
      BY LossyIs
    <2>3. ~(Has(p, "short") /\ Has(p, "bad")) => ~Has(p, "short")
      BY <1>2
    <2>4. Utf8Push(p).text = Lossy(p) /\ Utf8Push(p).rest = <<>>
      BY <2>1
    <2> QED BY Zenon, <1>1, <2>2, <2>3, <2>4
  <1>3. CASE Has(p, "short") /\ ~Has(p, "bad")
    <2>1. PICK a \in Bytes, e \in Shorts : p = a \o e /\ ~Has(a, "short")
      BY <1>3, ShortIsLast
    <2>2. e \in Bytes /\ e # <<>> /\ Len(e) \in Nat
      BY Written, EmptySeq DEF Shorts
    <2>3. Unit(e) \in Decoded /\ Unit(e).size = Len(e)
      BY <2>2, UnitIs
    <2>4. Units[e] = <<Unit(e)>>
      <3>1. After(e) \in Bytes /\ Len(After(e)) = 0
        BY <2>2, <2>3, AfterIs
      <3>2. After(e) = <<>>
        BY <3>1, EmptySeq DEF Bytes
      <3>3. <<Unit(e)>> \o <<>> = <<Unit(e)>>
        BY <2>3, ConcatEmptySeq
      <3> QED BY <2>2, <3>2, <3>3, UnitsNext
    <2>5. Units[a] \in Seq(Decoded) /\ Units[p] = Units[a] \o <<Unit(e)>>
      BY <2>1, <2>2, <2>4, UnitsAreDecoded, UnitsOfBoth
    <2>6. Front(Units[p]) = Units[a] /\ Last(Units[p]) = Unit(e)
      BY <2>3, <2>5, FrontAndLast
    <2>7. SubSeq(p, Len(p) - Len(e) + 1, Len(p)) = e
      <3>1. SubSeq(a \o e, Len(a) + 1, Len(a \o e)) = e
        BY <2>2, WithoutFirst
      <3>2. Len(p) = Len(a) + Len(e) /\ Len(a) \in Nat
        BY <2>1, <2>2, BytesConcat
      <3>3. Len(p) - Len(e) + 1 = Len(a) + 1
        BY <2>2, <3>2
      <3> QED BY <2>1, <3>1, <3>3
    <2>8. Utf8Push(p) = [text |-> Lossy(a), rest |-> e]
      BY <1>3, <2>3, <2>6, <2>7 DEF Utf8Push, Lossy
    <2>9. Lossy(a) \in Seq(Chr)
      BY LossyIs
    <2>10. Utf8Push(p).text = Lossy(a) /\ Utf8Push(p).rest = e
      BY <2>8
    <2> QED BY Zenon, <2>1, <2>2, <2>9, <2>10
  <1> QED BY <1>2, <1>3

-----------------------------------------------------------------------------
(***************************************************************************)
(* The pump and the handler.                                               *)
(***************************************************************************)
RequestType ==
  [at : {"refused", "running", "left", "answered"}, endpoint : {"chat", "completion"},
   stream : BOOLEAN, usage : BOOLEAN, echo : BOOLEAN, stop : StopLists, n : {1, 2},
   prompts : {0, 1}, wellFormed : BOOLEAN, fits : BOOLEAN, temperatureInRange : BOOLEAN]

Types ==
  /\ request.at = "none" \/ request \in RequestType
  /\ bytes \in Bytes /\ mangled \in BOOLEAN
  /\ pushed \in Seq(Chr) /\ buf \in Seq(Chr) /\ said \in Seq(Chr)
  /\ ended \in {"no", "stop", "length", "failed", "gone"}

\* What is pending is the beginning of a character.
PendingInv == pending = <<>> \/ pending \in Shorts

\* Before there is a request nothing has happened.
FreshInv ==
  request.at = "none" =>
    /\ bytes = <<>> /\ pending = <<>> /\ pushed = <<>> /\ buf = <<>> /\ said = <<>>
    /\ ended = "no"

\* While the pump runs, what was sent and what is held back are the text, in which
\* there is no stop sequence, and what may become one at its end is all held back.
MatchInv ==
  request.at # "none" /\ ended = "no" =>
    /\ said \o buf = pushed
    /\ Free(pushed)
    /\ Covers(buf, pushed)
    /\ buf # <<>> => \E s \in Stops : IsStrictPrefix(buf, s)

\* When it has ended, all of the text was sent, or what was before a stop sequence.
EndInv ==
  request.at # "none" /\ ended \in {"stop", "length"} =>
    /\ buf = <<>>
    /\ Free(said)
    /\ said = pushed \/ (ended = "stop" /\ \E s \in Stops : IsPrefix(said \o s, pushed))

\* While the pump runs, the text is that of the bytes before the pending ones, which
\* no byte still to come can change.
DecodeInv ==
  ended = "no" /\ ~mangled =>
    \E d \in Bytes : bytes = d \o pending /\ ~Has(d, "short") /\ pushed = Lossy(d)

\* The inductive invariant.
ReplyInv ==
  /\ Types /\ PendingInv /\ FreshInv
  /\ MatchInv /\ EndInv
  /\ DecodeInv /\ CharactersComeWhole

\* The stop sequences of a typed request are texts.
LEMMA StopsTyped == request \in RequestType => StopsAreTexts
  <1> SUFFICES ASSUME request \in RequestType
               PROVE  StopsAreTexts
    OBVIOUS
  <1>1. request.stop \in Seq(Seq(Ascii \cup {Wide}))
    BY ReplyConstants DEF RequestType
  <1>2. \A i \in DOMAIN request.stop : request.stop[i] \in Seq(Ascii \cup {Wide})
    BY <1>1, LenProperties, ElementOfSeq
  <1>3. ASSUME NEW s \in Stops
        PROVE  s \in Seq(Chr) \ {<<>>}
    <2>1. s \in Seq(Ascii \cup {Wide}) /\ s # <<>>
      BY <1>2 DEF Stops, ToSet
    <2>2. Ascii \cup {Wide} \subseteq Chr
      BY DEF Chr
    <2> QED BY <2>1, <2>2, SeqMonotonic
  <1> QED BY <1>3 DEF StopsAreTexts

\* What is pending are bytes.
LEMMA PendingTyped == PendingInv => pending \in Bytes
  BY Written, EmptySeq DEF PendingInv, Shorts, Bytes

\* Tokens decode to bytes.
LEMMA PiecesTyped == Pieces \subseteq Bytes
  BY ReplyConstants DEF Bytes, Byte

\* Nothing is in no text.
LEMMA FreeOfNothing == StopsAreTexts => Free(<<>>) /\ Covers(<<>>, <<>>)
  <1> SUFFICES ASSUME StopsAreTexts
               PROVE  Free(<<>>) /\ Covers(<<>>, <<>>)
    OBVIOUS
  <1>1. Len(<<>>) = 0 /\ \A s \in Stops : Len(s) \in Nat \ {0}
    BY EmptySeq DEF StopsAreTexts
  <1>2. ASSUME NEW s \in Stops, NEW i \in Nat, At(s, <<>>, i)
        PROVE  FALSE
    <2>1. i + Len(s) <= 0
      BY <1>1, <1>2 DEF At
    <2> QED BY <1>1, <2>1
  <1>3. ASSUME NEW s \in Stops, NEW k \in 1..(Len(s) - 1), Ends(s, k, <<>>)
        PROVE  FALSE
    <2>1. k <= 0
      BY <1>1, <1>3 DEF Ends
    <2> QED BY <1>1, <2>1
  <1> QED BY <1>2, <1>3 DEF Free, Covers

\* The invariant holds at first.
LEMMA InitInv == ReplyInit => ReplyInv
  <1> SUFFICES ASSUME ReplyInit
               PROVE  ReplyInv
    OBVIOUS
  <1>1. <<>> \in Bytes /\ <<>> \in Seq(Chr)
    BY EmptySeq DEF Bytes
  <1>2. request.at = "none"
    BY DEF ReplyInit
  <1>3. Types /\ PendingInv /\ FreshInv
    BY <1>1, <1>2 DEF ReplyInit, Types, PendingInv, FreshInv
  <1>4. MatchInv /\ EndInv /\ CharactersComeWhole
    BY <1>2 DEF MatchInv, EndInv, CharactersComeWhole, Sayable
  <1>5. DecodeInv
    <2>1. <<>> \o <<>> = <<>>
      BY <1>1, ConcatEmptySeq
    <2>2. ~Has(<<>>, "short")
      BY UnitsNext DEF Has
    <2>3. bytes = <<>> /\ pending = <<>> /\ pushed = <<>>
      BY DEF ReplyInit
    <2> QED BY <1>1, <2>1, <2>2, <2>3, LossyIs DEF DecodeInv
  <1> QED BY <1>3, <1>4, <1>5 DEF ReplyInv

\* chat, completions.
LEMMA AcceptKeeps == ReplyInv /\ Accept => ReplyInv'
  <1> SUFFICES ASSUME ReplyInv, Accept
               PROVE  ReplyInv'
    OBVIOUS
  <1> USE DEF ReplyInv
  <1>1. request.at = "none" /\ UNCHANGED <<bytes, pending, mangled, pushed, buf, said, ended>>
    BY DEF Accept
  <1>2. PICK r \in Requests, a \in {"refused", "running"} : request' = [r EXCEPT !.at = a]
    BY Zenon DEF Accept
  <1>3. request' \in RequestType /\ request'.at \in {"refused", "running"}
    BY <1>2 DEF Requests, RequestType
  <1>4. StopsAreTexts'
    <2>1. (request \in RequestType)'
      BY <1>3 DEF RequestType
    <2> QED BY <2>1, StopsTyped, PTL
  <1>5. Types'
    BY <1>1, <1>3 DEF Types
  <1>6. PendingInv' /\ FreshInv' /\ EndInv' /\ DecodeInv'
    BY <1>1, <1>3 DEF PendingInv, FreshInv, EndInv, DecodeInv
  <1>7. MatchInv'
    <2>1. said' = <<>> /\ buf' = <<>> /\ pushed' = <<>>
      BY <1>1 DEF FreshInv
    <2>2. said' \o buf' = pushed'
      BY <2>1, EmptySeq, ConcatEmptySeq
    <2>3. (Free(<<>>) /\ Covers(<<>>, <<>>))'
      BY <1>4, FreeOfNothing, PTL
    <2> QED BY <2>1, <2>2, <2>3 DEF MatchInv
  <1>8. CharactersComeWhole'
    <2>1. bytes' = <<>> /\ pending' = <<>> /\ pushed' = <<>>
      BY <1>1 DEF FreshInv
    <2>2. <<>> \o Lossy(<<>>) = Lossy(<<>>)
      BY LossyIs, EmptySeq, ConcatEmptySeq
    <2> QED BY <2>1, <2>2 DEF CharactersComeWhole
  <1> QED BY <1>5, <1>6, <1>7, <1>8

\* What the matcher does with text z that comes while the pump runs.
LEMMA Matched ==
  ASSUME Types, MatchInv, request.at # "none", ended = "no", NEW z \in Seq(Chr)
  PROVE  LET p == StopPush(buf \o z)
         IN  /\ p.text \in Seq(Chr) /\ p.rest \in Seq(Chr) /\ p.hit \in BOOLEAN
             /\ pushed \o z \in Seq(Chr) /\ said \o p.text \in Seq(Chr)
             /\ p.hit => /\ p.rest = <<>>
                         /\ Free(said \o p.text)
                         /\ \E s \in Stops : IsPrefix((said \o p.text) \o s, pushed \o z)
             /\ ~p.hit => /\ (said \o p.text) \o p.rest = pushed \o z
                          /\ said \o (p.text \o p.rest) = pushed \o z
                          /\ Free(pushed \o z) /\ Covers(p.rest, pushed \o z)
                          /\ p.rest # <<>> => \E s \in Stops : IsStrictPrefix(p.rest, s)
  <1> DEFINE x == said
             y == buf
             u == y \o z
             p == StopPush(u)
  <1>1. /\ StopsAreTexts /\ x \in Seq(Chr) /\ y \in Seq(Chr) /\ pushed \in Seq(Chr)
        /\ x \o y = pushed /\ Free(x \o y) /\ Covers(y, x \o y)
    BY StopsTyped DEF Types, MatchInv
  <1>2. pushed \o z \in Seq(Chr)
    BY <1>1, TextsConcat
  <1>3. CASE HitsIn(u) # {}
    <2>1. p.rest = <<>> /\ p.hit = TRUE
      BY <1>3 DEF StopPush
    <2>2. /\ p.text \in Seq(Chr) /\ Free(x \o p.text)
          /\ \E s \in Stops : IsPrefix((x \o p.text) \o s, (x \o y) \o z)
      <3> HIDE DEF x, y, p
      <3> QED BY <1>1, <1>3, HitEndsTheText DEF p
    <2>3. x \o p.text \in Seq(Chr) /\ <<>> \in Seq(Chr)
      BY <1>1, <2>2, TextsConcat, EmptySeq
    <2> HIDE DEF p
    <2>4. \E s \in Stops : IsPrefix((x \o p.text) \o s, pushed \o z)
      BY <1>1, <2>2
    <2> QED BY <1>2, <2>1, <2>2, <2>3, <2>4 DEF p
  <1>4. CASE HitsIn(u) = {}
    <2>1. p.hit = FALSE
      BY <1>4 DEF StopPush
    <2>2. GoesOn(p, x, (x \o y) \o z)
      <3> HIDE DEF x, y, p
      <3> QED BY <1>1, <1>4, RestMayBecomeAStop DEF p
    <2> HIDE DEF p
    <2>3. GoesOn(p, x, pushed \o z)
      BY <1>1, <2>2
    <2>4. /\ p.text \in Seq(Chr) /\ p.rest \in Seq(Chr)
          /\ (x \o p.text) \o p.rest = pushed \o z
          /\ Free(pushed \o z) /\ Covers(p.rest, pushed \o z)
          /\ p.rest # <<>> => \E s \in Stops : IsStrictPrefix(p.rest, s)
      BY <2>3 DEF GoesOn
    <2>5. x \o p.text \in Seq(Chr) /\ (x \o p.text) \o p.rest = x \o (p.text \o p.rest)
      <3> DEFINE a == p.text
                 b == p.rest
      <3>1. a \in Seq(Chr) /\ b \in Seq(Chr)
        BY <2>4
      <3>2. x \in Seq(Chr)
        BY <1>1
      <3> HIDE DEF a, b, x
      <3>3. x \o a \in Seq(Chr)
        BY <3>1, <3>2, TextsConcat
      <3>4. (x \o a) \o b = x \o (a \o b)
        BY <3>1, <3>2, TextsAssociate
      <3> QED BY <3>3, <3>4 DEF a, b
    <2> QED BY <1>2, <2>1, <2>4, <2>5 DEF p
  <1> QED BY <1>3, <1>4

\* WorkerEvent::Token
LEMMA TakeTokenKeeps == ReplyInv /\ TakeToken => ReplyInv'
  <1> SUFFICES ASSUME ReplyInv, TakeToken
               PROVE  ReplyInv'
    OBVIOUS
  <1> USE DEF ReplyInv
  <1>1. /\ request.at \in {"running", "left"} /\ ended = "no" /\ request' = request
        /\ request.at # "none"
    BY DEF TakeToken, Pumping
  <1>2. PICK piece \in Pieces :
          LET all  == pending \o piece
              utf8 == Utf8Push(all)
              stop == StopPush(buf \o utf8.text)
              gone == request.at = "left" /\ stop.text # <<>>
          IN  /\ bytes' = bytes \o piece
              /\ pending' = utf8.rest
              /\ mangled' = (mangled \/ (Has(all, "short") /\ Has(all, "bad")))
              /\ pushed' = pushed \o utf8.text
              /\ buf' = stop.rest
              /\ said' = IF gone THEN said ELSE said \o stop.text
              /\ ended' = IF gone THEN "gone" ELSE IF stop.hit THEN "stop" ELSE "no"
    BY Zenon DEF TakeToken
  <1> DEFINE all == pending \o piece
             utf8 == Utf8Push(all)
             z == utf8.text
             stop == StopPush(buf \o z)
  <1>3. /\ bytes' = bytes \o piece /\ pending' = utf8.rest /\ pushed' = pushed \o z
        /\ buf' = stop.rest
        /\ mangled' = (mangled \/ (Has(all, "short") /\ Has(all, "bad")))
        /\ \/ said' = said /\ ended' = "gone"
           \/ /\ said' = said \o stop.text
              /\ \/ stop.hit /\ ended' = "stop"
                 \/ ~stop.hit /\ ended' = "no"
    BY Zenon, <1>2
  <1>4. piece \in Bytes /\ pending \in Bytes /\ bytes \in Bytes /\ all \in Bytes
    BY PiecesTyped, PendingTyped, BytesConcat DEF Types
  <1>5. /\ z \in Seq(Chr) /\ (utf8.rest = <<>> \/ utf8.rest \in Shorts) /\ utf8.rest \in Bytes
        /\ ~(Has(all, "short") /\ Has(all, "bad")) =>
             \E a \in Bytes : all = a \o utf8.rest /\ ~Has(a, "short") /\ z = Lossy(a)
    <2> HIDE DEF all
    <2> QED BY Zenon, <1>4, Utf8PushIs
  <1> HIDE DEF all, z
  <1>6. /\ stop.text \in Seq(Chr) /\ stop.rest \in Seq(Chr) /\ stop.hit \in BOOLEAN
        /\ pushed \o z \in Seq(Chr) /\ said \o stop.text \in Seq(Chr)
        /\ stop.hit => /\ stop.rest = <<>>
                       /\ Free(said \o stop.text)
                       /\ \E s \in Stops : IsPrefix((said \o stop.text) \o s, pushed \o z)
        /\ ~stop.hit => /\ (said \o stop.text) \o stop.rest = pushed \o z
                        /\ Free(pushed \o z) /\ Covers(stop.rest, pushed \o z)
                        /\ stop.rest # <<>> => \E s \in Stops : IsStrictPrefix(stop.rest, s)
    BY Zenon, <1>1, <1>5, Matched
  <1> HIDE DEF utf8, stop
  <1>7. Types'
    <2>1. bytes' \in Bytes
      BY <1>3, <1>4, BytesConcat
    <2>2. mangled' \in BOOLEAN
      BY <1>3 DEF Types
    <2>3. pushed' \in Seq(Chr) /\ buf' \in Seq(Chr) /\ said' \in Seq(Chr)
      BY <1>3, <1>6 DEF Types
    <2>4. ended' \in {"no", "stop", "length", "failed", "gone"}
      BY <1>3
    <2> QED BY <1>1, <2>1, <2>2, <2>3, <2>4 DEF Types
  <1>8. PendingInv' /\ FreshInv'
    BY <1>1, <1>3, <1>5 DEF PendingInv, FreshInv
  <1>9. Stops' = Stops
    BY <1>1 DEF Stops
  <1>10. MatchInv'
    <2> SUFFICES ASSUME ended' = "no"
                 PROVE  /\ said' \o buf' = pushed'
                        /\ Free(pushed') /\ Covers(buf', pushed')
                        /\ buf' # <<>> => \E s \in Stops : IsStrictPrefix(buf', s)
      BY <1>9 DEF MatchInv, Free, Covers
    <2>1. ~stop.hit /\ said' = said \o stop.text
      BY <1>3
    <2> QED BY <1>3, <1>6, <2>1
  <1>11. EndInv'
    <2> SUFFICES ASSUME ended' \in {"stop", "length"}
                 PROVE  /\ buf' = <<>> /\ Free(said') /\ ended' = "stop"
                        /\ \E s \in Stops : IsPrefix(said' \o s, pushed')
      BY <1>9 DEF EndInv, Free
    <2>1. stop.hit /\ said' = said \o stop.text /\ ended' = "stop"
      BY <1>3
    <2> QED BY <1>3, <1>6, <2>1
  <1>12. ASSUME ~mangled'
         PROVE  \E d \in Bytes : bytes' = d \o pending' /\ ~Has(d, "short") /\ pushed' = Lossy(d)
    <2>1. ~mangled /\ ~(Has(all, "short") /\ Has(all, "bad"))
      BY <1>3, <1>12
    <2>2. PICK d \in Bytes : bytes = d \o pending /\ ~Has(d, "short") /\ pushed = Lossy(d)
      BY <1>1, <2>1 DEF DecodeInv
    <2>3. PICK a \in Bytes : all = a \o utf8.rest /\ ~Has(a, "short") /\ z = Lossy(a)
      BY <1>5, <2>1
    <2>4. d \o a \in Bytes
      BY BytesConcat
    <2>5. bytes' = (d \o a) \o pending'
      <3>1. (d \o pending) \o piece = d \o (pending \o piece)
        <4>1. \A r, t \in Bytes : (d \o r) \o t = d \o (r \o t)
          BY Zenon, BytesAssociate
        <4> QED BY Zenon, <1>4, <4>1
      <3>2. (d \o a) \o utf8.rest = d \o (a \o utf8.rest)
        BY <1>5, BytesAssociate
      <3>3. all = pending \o piece
        BY Zenon DEF all
      <3> QED BY Zenon, <1>3, <2>2, <2>3, <3>1, <3>2, <3>3
    <2>6. ~Has(d \o a, "short") /\ Lossy(d \o a) = Lossy(d) \o Lossy(a)
      BY Zenon, <2>2, <2>3, LossyOfBoth
    <2>7. pushed' = Lossy(d \o a)
      BY Zenon, <1>3, <2>2, <2>3, <2>6
    <2> QED BY Zenon, <2>4, <2>5, <2>6, <2>7
  <1>13. DecodeInv'
    BY <1>12 DEF DecodeInv
  <1>14. CharactersComeWhole'
    <2> SUFFICES ASSUME ~mangled'
                 PROVE  pushed' \o Lossy(pending') = Lossy(bytes')
      BY DEF CharactersComeWhole
    <2>1. PICK d \in Bytes : bytes' = d \o pending' /\ ~Has(d, "short") /\ pushed' = Lossy(d)
      BY <1>12
    <2>2. pending' \in Bytes
      BY <1>3, <1>5
    <2> QED BY <2>1, <2>2, LossyOfBoth
  <1> QED BY <1>7, <1>8, <1>10, <1>11, <1>13, <1>14

\* WorkerEvent::Done(Some(finish))
LEMMA TakeDoneKeeps == ReplyInv /\ TakeDone => ReplyInv'
  <1> SUFFICES ASSUME ReplyInv, TakeDone
               PROVE  ReplyInv'
    OBVIOUS
  <1> USE DEF ReplyInv
  <1>1. /\ request.at \in {"running", "left"} /\ ended = "no" /\ request' = request
        /\ request.at # "none" /\ bytes' = bytes /\ mangled' = mangled
    BY DEF TakeDone, Pumping
  <1> DEFINE z == Lossy(pending)
             stop == StopPush(buf \o z)
  <1>2. PICK finish \in {"stop", "length"} :
          /\ pending' = <<>> /\ pushed' = pushed \o z /\ buf' = <<>>
          /\ said' = said \o Flush(stop)
          /\ ended' = IF stop.hit THEN "stop" ELSE finish
    BY Zenon DEF TakeDone
  <1>3. pending \in Bytes /\ z \in Seq(Chr)
    BY PendingTyped, LossyIs
  <1>4. /\ stop.text \in Seq(Chr) /\ stop.rest \in Seq(Chr) /\ stop.hit \in BOOLEAN
        /\ pushed \o z \in Seq(Chr) /\ said \o stop.text \in Seq(Chr)
        /\ stop.hit => /\ Free(said \o stop.text)
                       /\ \E s \in Stops : IsPrefix((said \o stop.text) \o s, pushed \o z)
        /\ ~stop.hit => /\ said \o (stop.text \o stop.rest) = pushed \o z
                        /\ Free(pushed \o z)
    <2> HIDE DEF z
    <2> QED BY Zenon, <1>1, <1>3, Matched
  <1> HIDE DEF z, stop
  <1>5. \/ stop.hit /\ ended' = "stop" /\ said' = said \o stop.text
        \/ ~stop.hit /\ ended' = finish /\ said' = pushed'
    <2>1. CASE stop.hit
      BY <1>2, <2>1 DEF Flush
    <2>2. CASE ~stop.hit
      BY <1>2, <1>4, <2>2 DEF Flush
    <2> QED BY <2>1, <2>2
  <1>6. ended' \in {"stop", "length"} /\ <<>> \in Seq(Chr)
    BY <1>5, EmptySeq
  <1>7. Types'
    BY <1>1, <1>2, <1>4, <1>5, <1>6 DEF Types
  <1>8. PendingInv' /\ FreshInv' /\ MatchInv' /\ DecodeInv'
    BY <1>1, <1>2, <1>6 DEF PendingInv, FreshInv, MatchInv, DecodeInv
  <1>9. Stops' = Stops
    BY <1>1 DEF Stops
  <1>10. EndInv'
    <2>1. Free(said')
      BY <1>2, <1>4, <1>5
    <2>2. said' = pushed' \/ (ended' = "stop" /\ \E s \in Stops : IsPrefix(said' \o s, pushed'))
      BY <1>2, <1>4, <1>5
    <2> QED BY <1>2, <1>9, <2>1, <2>2 DEF EndInv, Free
  <1>11. CharactersComeWhole'
    <2> SUFFICES ASSUME ~mangled
                 PROVE  pushed' \o Lossy(pending') = Lossy(bytes)
      BY <1>1 DEF CharactersComeWhole
    <2>1. pushed \o z = Lossy(bytes)
      BY <1>1 DEF CharactersComeWhole, Sayable, z
    <2>2. Lossy(pending') = <<>> /\ pushed' \o <<>> = pushed'
      BY <1>2, <1>4, LossyIs, ConcatEmptySeq
    <2> QED BY <1>2, <2>1, <2>2
  <1> QED BY <1>7, <1>8, <1>10, <1>11

\* WorkerEvent::Done(None), or the worker has died.
LEMMA TakeFailureKeeps == ReplyInv /\ TakeFailure => ReplyInv'
  <1> SUFFICES ASSUME ReplyInv, TakeFailure
               PROVE  ReplyInv'
    OBVIOUS
  <1>1. /\ request' = request /\ request.at # "none" /\ ended' = "failed"
        /\ UNCHANGED <<bytes, pending, mangled, pushed, buf, said>>
    BY DEF TakeFailure, Pumping
  <1> QED BY <1>1 DEF ReplyInv, Types, PendingInv, FreshInv, MatchInv, EndInv, DecodeInv,
                     CharactersComeWhole, Sayable

\* The handler takes an output, or the client leaves: the pump's side stays as it is.
LEMMA HandlerKeeps ==
  ASSUME ReplyInv, NEW at \in {"running", "left", "answered"}, request.at # "none",
         request' = request \/ request' = [request EXCEPT !.at = at],
         UNCHANGED <<bytes, pending, mangled, pushed, buf, said, ended>>
  PROVE  ReplyInv'
  <1> USE DEF ReplyInv
  <1>1. /\ request \in RequestType /\ request' \in RequestType /\ request'.stop = request.stop
        /\ request'.at # "none"
    BY DEF Types, RequestType
  <1>2. Stops' = Stops
    BY <1>1 DEF Stops
  <1>3. Types' /\ PendingInv' /\ FreshInv' /\ DecodeInv'
    BY <1>1 DEF Types, PendingInv, FreshInv, DecodeInv
  <1>4. MatchInv' /\ EndInv'
    BY <1>1, <1>2 DEF MatchInv, EndInv, Free, Covers
  <1>5. CharactersComeWhole'
    BY <1>1 DEF CharactersComeWhole, Sayable
  <1> QED BY <1>3, <1>4, <1>5

\* Every step keeps the invariant.
LEMMA NextKeeps == ReplyInv /\ [ReplyNext]_replyVars => ReplyInv'
  <1> SUFFICES ASSUME ReplyInv, [ReplyNext]_replyVars
               PROVE  ReplyInv'
    OBVIOUS
  <1>1. CASE Accept
    BY <1>1, AcceptKeeps
  <1>2. CASE TakeToken
    BY <1>2, TakeTokenKeeps
  <1>3. CASE TakeDone
    BY <1>3, TakeDoneKeeps
  <1>4. CASE TakeFailure
    BY <1>4, TakeFailureKeeps
  <1>5. CASE Deliver
    <2>1. /\ request.at = "running"
          /\ request' = request \/ request' = [request EXCEPT !.at = "answered"]
          /\ UNCHANGED <<bytes, pending, mangled, pushed, buf, said, ended>>
      BY <1>5 DEF Deliver
    <2> QED BY <2>1, HandlerKeeps
  <1>6. CASE ClientLeaves
    <2>1. /\ request.at = "running" /\ request' = [request EXCEPT !.at = "left"]
          /\ UNCHANGED <<bytes, pending, mangled, pushed, buf, said, ended>>
      BY <1>6 DEF ClientLeaves
    <2> QED BY <2>1, HandlerKeeps
  <1>7. CASE UNCHANGED replyVars
    <2>1. /\ request' = request
          /\ UNCHANGED <<bytes, pending, mangled, pushed, buf, said, ended>>
      BY <1>7 DEF replyVars
    <2>2. Stops' = Stops
      BY <2>1 DEF Stops
    <2>3. Types' /\ PendingInv' /\ FreshInv' /\ DecodeInv' /\ CharactersComeWhole'
      BY <2>1 DEF ReplyInv, Types, PendingInv, FreshInv, DecodeInv, CharactersComeWhole, Sayable
    <2>4. MatchInv' /\ EndInv'
      BY <2>1, <2>2 DEF ReplyInv, MatchInv, EndInv, Free, Covers
    <2> QED BY <2>3, <2>4 DEF ReplyInv
  <1> QED BY <1>1, <1>2, <1>3, <1>4, <1>5, <1>6, <1>7 DEF ReplyNext

\* The invariant holds of every behaviour.
THEOREM ReplyInvariant == ReplySpec => []ReplyInv
  BY InitInv, NextKeeps, PTL DEF ReplySpec

\* What is free of stop sequences has none in it.
LEMMA FreeMeansNoStop ==
  ASSUME StopsAreTexts, NEW x \in Seq(Chr), Free(x), NEW s \in Stops
  PROVE  ~Occurs(s, x)
  <1>1. Len(x) \in Nat /\ s \in Seq(Chr) /\ Len(s) \in Nat
    BY LenProperties DEF StopsAreTexts
  <1>2. ASSUME NEW i \in 0..(Len(x) - Len(s)), SubSeq(x, i + 1, i + Len(s)) = s
        PROVE  FALSE
    <2>1. i \in Nat /\ i + Len(s) <= Len(x)
      BY <1>1
    <2>2. At(s, x, i)
      BY <1>1, <1>2, <2>1, SubSeqIsAt
    <2> QED BY <2>1, <2>2 DEF Free
  <1> QED BY <1>2 DEF Occurs

\* The beginning of a text without stop sequences has none.
LEMMA FreeInFront ==
  ASSUME StopsAreTexts, NEW x \in Seq(Chr), NEW y \in Seq(Chr), Free(x \o y)
  PROVE  Free(x)
  <1>1. /\ Len(x) \in Nat /\ Len(y) \in Nat /\ Len(x \o y) = Len(x) + Len(y)
        /\ \A i \in 1..(Len(x) + Len(y)) :
             (x \o y)[i] = IF i <= Len(x) THEN x[i] ELSE y[i - Len(x)]
    BY LenProperties, ConcatProperties
  <1>2. \A s \in Stops : Len(s) \in Nat
    BY LenProperties DEF StopsAreTexts
  <1>3. ASSUME NEW s \in Stops, NEW i \in Nat, At(s, x, i)
        PROVE  At(s, x \o y, i)
    <2>1. i + Len(s) <= Len(x) /\ \A j \in 1..Len(s) : x[i + j] = s[j]
      BY <1>3 DEF At
    <2>2. ASSUME NEW j \in 1..Len(s)
          PROVE  (x \o y)[i + j] = s[j]
      <3>1. i + j \in 1..(Len(x) + Len(y)) /\ i + j <= Len(x)
        BY <1>1, <1>2, <2>1
      <3> QED BY <1>1, <2>1, <3>1
    <2>3. i + Len(s) <= Len(x \o y)
      BY <1>1, <1>2, <2>1
    <2> QED BY <2>2, <2>3 DEF At
  <1> QED BY <1>3 DEF Free

\* The incomplete characters are beginnings of one.
LEMMA ShortsBegin ==
  /\ IsStrictPrefix(<<Lead>>, <<Lead, Cont, Cont>>)
  /\ IsStrictPrefix(<<Lead, Cont>>, <<Lead, Cont, Cont>>)
  <1> DEFINE one == <<Lead>>
             two == <<Lead, Cont>>
             three == <<Lead, Cont, Cont>>
  <1>1. /\ one \in Seq(Byte) /\ two \in Seq(Byte) /\ three \in Seq(Byte)
        /\ Len(one) = 1 /\ one[1] = Lead
        /\ Len(two) = 2 /\ two[1] = Lead /\ two[2] = Cont
        /\ Len(three) = 3 /\ three[1] = Lead /\ three[2] = Cont
    BY Zenon, Written DEF Bytes
  <1> HIDE DEF one, two, three
  <1>2. one # three /\ two # three
    <2>1. Len(one) # Len(three) /\ Len(two) # Len(three)
      BY <1>1
    <2> QED BY Zenon, <2>1
  <1>3. IsPrefix(one, three) <=> Len(one) <= Len(three) /\ \A j \in 1..Len(one) : one[j] = three[j]
    BY Zenon, <1>1, BytesPrefixIs
  <1>4. IsPrefix(two, three) <=> Len(two) <= Len(three) /\ \A j \in 1..Len(two) : two[j] = three[j]
    BY Zenon, <1>1, BytesPrefixIs
  <1>5. IsPrefix(one, three) /\ IsPrefix(two, three)
    BY <1>1, <1>3, <1>4
  <1>6. IsStrictPrefix(one, three) /\ IsStrictPrefix(two, three)
    BY <1>2, <1>5 DEF IsStrictPrefix
  <1> QED BY <1>6 DEF one, two, three

\* However tokens cut the text into pieces, no stop sequence is ever sent, nor
\* anything after one, and nothing else is lost (StopMatcher::push and flush).
THEOREM StopsAlwaysCutTheText == ReplySpec => []StopsCutTheText
  <1>1. ReplyInv => StopsCutTheText
    <2> SUFFICES ASSUME ReplyInv, Sayable
                 PROVE  /\ \A s \in Stops : ~Occurs(s, said)
                        /\ \/ said \o buf = pushed /\ (ended # "no" => buf = <<>>)
                           \/ ended = "stop" /\ \E s \in Stops : IsPrefix(said \o s, pushed)
      BY DEF StopsCutTheText
    <2>1. /\ request.at # "none" /\ ended \in {"no", "stop", "length"} /\ StopsAreTexts
          /\ said \in Seq(Chr) /\ buf \in Seq(Chr)
      BY StopsTyped DEF Sayable, ReplyInv, Types
    <2>2. CASE ended = "no"
      <3>1. said \o buf = pushed /\ Free(said \o buf)
        BY <2>1, <2>2 DEF ReplyInv, MatchInv
      <3>2. Free(said)
        BY <2>1, <3>1, FreeInFront
      <3> QED BY <2>1, <2>2, <3>1, <3>2, FreeMeansNoStop
    <2>3. CASE ended \in {"stop", "length"}
      <3>1. /\ buf = <<>> /\ Free(said)
            /\ said = pushed \/ (ended = "stop" /\ \E s \in Stops : IsPrefix(said \o s, pushed))
        BY <2>1, <2>3 DEF ReplyInv, EndInv
      <3>2. said \o buf = said
        BY <2>1, <3>1, ConcatEmptySeq
      <3>3. \A s \in Stops : ~Occurs(s, said)
        BY <2>1, <3>1, FreeMeansNoStop
      <3> QED BY <3>1, <3>2, <3>3
    <2> QED BY <2>1, <2>2, <2>3
  <1> QED BY <1>1, ReplyInvariant, PTL

\* What is held back may yet become a stop sequence or a character, so that text is
\* never late for nothing (StopMatcher::push, Utf8Stream::push).
THEOREM AlwaysHeldBackForAReason == ReplySpec => []HeldBackOnlyWhatMayChange
  <1>1. ReplyInv => HeldBackOnlyWhatMayChange
    <2> SUFFICES ASSUME ReplyInv, Sayable
                 PROVE  /\ buf # <<>> => \E s \in Stops : IsStrictPrefix(buf, s)
                        /\ pending # <<>> => IsStrictPrefix(pending, <<Lead, Cont, Cont>>)
      BY DEF HeldBackOnlyWhatMayChange
    <2>1. buf # <<>> => \E s \in Stops : IsStrictPrefix(buf, s)
      BY DEF Sayable, ReplyInv, MatchInv, EndInv
    <2>2. ASSUME pending # <<>>
          PROVE  IsStrictPrefix(pending, <<Lead, Cont, Cont>>)
      <3>1. pending \in Shorts
        BY <2>2 DEF ReplyInv, PendingInv
      <3>2. IsStrictPrefix(<<Lead>>, <<Lead, Cont, Cont>>)
            /\ IsStrictPrefix(<<Lead, Cont>>, <<Lead, Cont, Cont>>)
        BY ShortsBegin
      <3> QED BY <3>1, <3>2 DEF Shorts
    <2> QED BY <2>1, <2>2
  <1> QED BY <1>1, ReplyInvariant, PTL

\* The text is the decoding of all bytes together, wherever the tokens split a
\* character, as long as no push meets invalid bytes and an incomplete character
\* together (Utf8Stream::push and flush).
THEOREM CharactersAlwaysComeWhole == ReplySpec => []CharactersComeWhole
  <1>1. ReplyInv => CharactersComeWhole
    BY DEF ReplyInv
  <1> QED BY <1>1, ReplyInvariant, PTL

-----------------------------------------------------------------------------
(***************************************************************************)
(* Sequences joined to one.                                                *)
(***************************************************************************)

\* f has the first n of the sequences joined, for each n (FlattenSeq).
Joins(f, ss, n) == f = [i \in 1..n |-> IF i = 1 THEN ss[i] ELSE f[i - 1] \o ss[i]]

\* Two sequences begin with the same n.
SameTo(n, ss, tt) == \A i \in 1..n : ss[i] = tt[i]

\* There is such a function.
LEMMA JoinsExist ==
  ASSUME NEW T, NEW ss \in Seq(Seq(T)), NEW n \in Nat, n <= Len(ss)
  PROVE  \E f : Joins(f, ss, n) /\ \A i \in 1..n : f[i] \in Seq(T)
  <1> DEFINE Good(m) == \E f : Joins(f, ss, m) /\ \A i \in 1..m : f[i] \in Seq(T)
             Bad == {m \in Nat : m <= Len(ss) /\ ~Good(m)}
  <1>0. Len(ss) \in Nat /\ \A i \in 1..Len(ss) : ss[i] \in Seq(T)
    OBVIOUS
  <1>1. ASSUME Bad # {} PROVE FALSE
    <2> HIDE DEF Good
    <2>1. PICK m \in Bad : \A k \in Bad : m <= k
      BY <1>1, LeastNumber
    <2>2. m \in Nat /\ m <= Len(ss) /\ ~Good(m)
      BY <2>1
    <2>3. CASE m = 0
      <3> DEFINE f == [i \in 1..0 |-> <<>>]
      <3>1. 1..0 = {}
        OBVIOUS
      <3>2. Joins(f, ss, 0) /\ \A i \in 1..0 : f[i] \in Seq(T)
        BY <3>1 DEF Joins
      <3> QED BY <2>2, <2>3, <3>2 DEF Good
    <2>4. CASE m > 0
      <3>1. m - 1 \in Nat /\ m - 1 <= Len(ss) /\ ~(m <= m - 1)
        BY <1>0, <2>2, <2>4
      <3>2. Good(m - 1)
        BY <2>1, <3>1
      <3>3. PICK g : Joins(g, ss, m - 1) /\ \A i \in 1..(m - 1) : g[i] \in Seq(T)
        BY <3>2 DEF Good
      <3> DEFINE h == IF m = 1 THEN ss[m] ELSE g[m - 1] \o ss[m]
                 f == [i \in 1..m |-> IF i = m THEN h ELSE g[i]]
      <3>4. h \in Seq(T)
        <4>1. ss[m] \in Seq(T)
          BY <1>0, <2>2, <2>4
        <4>2. CASE m = 1
          BY <4>1, <4>2
        <4>3. CASE m # 1
          <5>1. g[m - 1] \in Seq(T)
            BY <2>2, <2>4, <3>3, <4>3
          <5> QED BY <4>1, <4>3, <5>1
        <4> QED BY <4>2, <4>3
      <3>5. \A i \in 1..(m - 1) : g[i] = IF i = 1 THEN ss[i] ELSE g[i - 1] \o ss[i]
        BY <3>3 DEF Joins
      <3>6. \A i \in 1..m : i = m \/ i \in 1..(m - 1)
        BY <2>2
      <3>7. \A i \in 1..m : i = 1 \/ (i - 1 \in 1..m /\ i - 1 # m)
        BY <2>2
      <3>8. ASSUME NEW i \in 1..m
            PROVE  f[i] = IF i = 1 THEN ss[i] ELSE f[i - 1] \o ss[i]
        <4> HIDE DEF h
        <4>1. i = 1 \/ f[i - 1] = g[i - 1]
          BY <3>7
        <4>2. CASE i = m
          BY <4>1, <4>2 DEF h
        <4>3. CASE i # m
          BY <3>5, <3>6, <4>1, <4>3
        <4> QED BY <4>2, <4>3
      <3>9. Joins(f, ss, m)
        BY <3>8 DEF Joins
      <3>10. \A i \in 1..m : f[i] \in Seq(T)
        <4> HIDE DEF h
        <4> QED BY <3>3, <3>4, <3>6
      <3> HIDE DEF f
      <3> QED BY <2>2, <3>9, <3>10 DEF Good
    <2> QED BY <2>2, <2>3, <2>4
  <1> QED BY <1>1

\* What the sequences have in common is joined to the same.
LEMMA JoinsAgree ==
  ASSUME NEW ss, NEW tt, NEW n \in Nat, NEW m \in Nat, n <= m,
         SameTo(n, ss, tt),
         NEW f, NEW g, Joins(f, ss, n), Joins(g, tt, m)
  PROVE  SameTo(n, f, g)
  <1> DEFINE Bad == {i \in 1..n : f[i] # g[i]}
  <1>1. ASSUME Bad # {} PROVE FALSE
    <2>0. Bad \subseteq Nat
      OBVIOUS
    <2>1. PICK i \in Bad : \A k \in Bad : i <= k
      BY Zenon, <1>1, <2>0, LeastNumber
    <2>2. i \in 1..n /\ i \in 1..m /\ f[i] # g[i] /\ ss[i] = tt[i]
      BY <2>1 DEF SameTo
    <2>3. f[i] = (IF i = 1 THEN ss[i] ELSE f[i - 1] \o ss[i])
          /\ g[i] = (IF i = 1 THEN tt[i] ELSE g[i - 1] \o tt[i])
      BY <2>2 DEF Joins
    <2>4. CASE i = 1
      BY <2>2, <2>3, <2>4
    <2>5. CASE i # 1
      <3>1. i - 1 \in 1..n /\ ~(i <= i - 1)
        BY <2>2, <2>5
      <3>2. f[i - 1] = g[i - 1]
        BY <2>1, <3>1
      <3> QED BY <2>2, <2>3, <2>5, <3>2
    <2> QED BY <2>4, <2>5
  <1> QED BY <1>1 DEF SameTo

GoesOnFrom(f, g, tt, n) == g[n + 1] = f[n] \o tt[n + 1]

\* One more sequence comes after what is joined already.
LEMMA JoinsOneMore ==
  ASSUME NEW ss, NEW tt, NEW n \in Nat \ {0}, SameTo(n, ss, tt),
         NEW f, NEW g, Joins(f, ss, n), Joins(g, tt, n + 1)
  PROVE  GoesOnFrom(f, g, tt, n)
  <1>1. n \in 1..n /\ n + 1 \in 1..(n + 1) /\ n + 1 # 1 /\ (n + 1) - 1 = n /\ n <= n + 1 /\ n + 1 \in Nat
    OBVIOUS
  <1>2. g[n + 1] = IF n + 1 = 1 THEN tt[n + 1] ELSE g[(n + 1) - 1] \o tt[n + 1]
    BY Zenon, <1>1 DEF Joins
  <1>3. SameTo(n, f, g)
    BY Zenon, <1>1, JoinsAgree
  <1> QED BY <1>1, <1>2, <1>3 DEF SameTo, GoesOnFrom

\* A sequence is joined in one way.
LEMMA JoinsOnce ==
  ASSUME NEW ss, NEW n \in Nat \ {0}, NEW f, NEW g, Joins(f, ss, n), Joins(g, ss, n)
  PROVE  f[n] = g[n]
  <1>1. n \in 1..n /\ n <= n /\ n \in Nat /\ SameTo(n, ss, ss)
    BY DEF SameTo
  <1>2. SameTo(n, f, g)
    BY Zenon, <1>1, JoinsAgree
  <1> QED BY <1>1, <1>2 DEF SameTo

\* FlattenSeq is the last of it.
LEMMA FlattenIs ==
  ASSUME NEW T, NEW ss \in Seq(Seq(T))
  PROVE  /\ ss = <<>> => FlattenSeq(ss) = <<>>
         /\ ss # <<>> => \E f : Joins(f, ss, Len(ss)) /\ FlattenSeq(ss) = f[Len(ss)]
  <1> DEFINE n == Len(ss)
             f == CHOOSE f : f = [i \in 1..n |-> IF i = 1 THEN ss[i] ELSE f[i - 1] \o ss[i]]
  <1>1. n \in Nat /\ (ss = <<>> <=> n = 0)
    OBVIOUS
  <1>2. \E g : Joins(g, ss, n)
    BY <1>1, JoinsExist
  <1>3. Joins(f, ss, n)
    BY <1>2 DEF Joins
  <1>4. n # 0 => FlattenSeq(ss) = f[n]
    BY DEF FlattenSeq
  <1>5. n = 0 => FlattenSeq(ss) = ss
    BY DEF FlattenSeq
  <1> HIDE DEF f
  <1> QED BY <1>1, <1>3, <1>4, <1>5

\* Sequences that are joined to a sequence, one after another.
LEMMA FlattenAppend ==
  ASSUME NEW T, NEW ss \in Seq(Seq(T)), NEW s \in Seq(T)
  PROVE  /\ FlattenSeq(ss) \in Seq(T)
         /\ FlattenSeq(Append(ss, s)) = FlattenSeq(ss) \o s
  <1> DEFINE n == Len(ss)
             tt == Append(ss, s)
  <1>1. n \in Nat /\ (ss = <<>> <=> n = 0)
    OBVIOUS
  <1>2. /\ tt \in Seq(Seq(T)) /\ tt # <<>> /\ Len(tt) = n + 1 /\ tt[n + 1] = s
        /\ \A i \in 1..n : ss[i] = tt[i]
    BY AppendProperties
  <1> HIDE DEF tt, n
  <1>3. PICK g : Joins(g, tt, n + 1) /\ FlattenSeq(tt) = g[n + 1]
    BY Zenon, <1>2, FlattenIs
  <1>4. g[n + 1] = IF n + 1 = 1 THEN tt[n + 1] ELSE g[(n + 1) - 1] \o tt[n + 1]
    <2>1. n + 1 \in 1..(n + 1)
      BY <1>1
    <2> QED BY Zenon, <1>3, <2>1 DEF Joins
  <1>5. CASE n = 0
    <2>1. FlattenSeq(ss) = <<>>
      BY Zenon, <1>1, <1>5, FlattenIs
    <2>2. FlattenSeq(tt) = s
      BY <1>2, <1>3, <1>4, <1>5
    <2>3. <<>> \o s = s /\ <<>> \in Seq(T)
      OBVIOUS
    <2> QED BY Zenon, <2>1, <2>2, <2>3 DEF tt
  <1>6. CASE n # 0
    <2>1. PICK f : Joins(f, ss, n) /\ FlattenSeq(ss) = f[n]
      BY Zenon, <1>1, <1>6, FlattenIs DEF n
    <2>2. PICK h : Joins(h, ss, n) /\ \A i \in 1..n : h[i] \in Seq(T)
      <3>1. n <= Len(ss)
        BY <1>1 DEF n
      <3> QED BY Zenon, <1>1, <3>1, JoinsExist
    <2>3. n \in 1..n
      BY <1>1, <1>6
    <2>4. n \in Nat \ {0} /\ SameTo(n, ss, tt)
      BY Zenon, <1>1, <1>2, <1>6 DEF SameTo
    <2>5. f[n] = h[n]
      BY Zenon, <2>1, <2>2, <2>4, JoinsOnce
    <2>6. g[n + 1] = f[n] \o tt[n + 1]
      <3>1. Joins(f, ss, n) /\ Joins(g, tt, n + 1)
        BY Zenon, <1>3, <2>1
      <3>2. GoesOnFrom(f, g, tt, n)
        BY Zenon, <2>4, <3>1, JoinsOneMore
      <3> QED BY Zenon, <3>2 DEF GoesOnFrom
    <2>7. FlattenSeq(ss) \in Seq(T)
      BY Zenon, <2>1, <2>2, <2>3, <2>5
    <2>8. FlattenSeq(tt) = FlattenSeq(ss) \o s
      BY Zenon, <1>2, <1>3, <2>1, <2>6
    <2> QED BY Zenon, <2>7, <2>8 DEF tt
  <1> QED BY <1>5, <1>6

\* One sequence, or none.
LEMMA FlattenFew ==
  ASSUME NEW T, NEW s \in Seq(T)
  PROVE  FlattenSeq(<<>>) = <<>> /\ FlattenSeq(<<s>>) = s
  <1>1. <<>> \in Seq(Seq(T)) /\ Append(<<>>, s) = <<s>> /\ <<>> \o s = s
    OBVIOUS
  <1>2. FlattenSeq(<<>>) = <<>>
    BY Zenon, <1>1, FlattenIs
  <1>3. FlattenSeq(Append(<<>>, s)) = FlattenSeq(<<>>) \o s
    BY Zenon, <1>1, FlattenAppend
  <1> QED BY Zenon, <1>1, <1>2, <1>3

\* Concatenation is associative.
Associate(x, y, z) == (x \o y) \o z = x \o (y \o z)

\* Texts may be joined in any order.
LEMMA Associates ==
  ASSUME NEW T, NEW x \in Seq(T), NEW y \in Seq(T), NEW z \in Seq(T)
  PROVE  Associate(x, y, z)
  BY DEF Associate

\* A sequence whose second part gets longer.
LEMMA ConcatAppend ==
  \A S : \A x, y \in Seq(S), e \in S :
    Len(Append(y, e)) = Len(y) + 1 /\ x \o Append(y, e) = Append(x \o y, e)
  OBVIOUS

\* Sequences of sequences are joined in parts.
LEMMA FlattenBoth ==
  ASSUME NEW T, NEW ss \in Seq(Seq(T)), NEW tt \in Seq(Seq(T))
  PROVE  FlattenSeq(ss \o tt) = FlattenSeq(ss) \o FlattenSeq(tt)
  <1> DEFINE Good(u) == FlattenSeq(ss \o u) = FlattenSeq(ss) \o FlattenSeq(u)
             Bad == {n \in Nat : \E u \in Seq(Seq(T)) : Len(u) = n /\ ~Good(u)}
  <1>1. ASSUME Bad # {} PROVE FALSE
    <2>1. Bad \subseteq Nat
      OBVIOUS
    <2>2. PICK n \in Bad : \A k \in Bad : n <= k
      BY Zenon, <1>1, <2>1, LeastNumber
    <2>3. PICK u \in Seq(Seq(T)) : Len(u) = n /\ ~Good(u)
      BY <2>2
    <2>4. CASE u = <<>>
      <3>1. ss \o u = ss /\ <<>> \in Seq(T)
        BY <2>4
      <3>2. FlattenSeq(u) = <<>> /\ FlattenSeq(ss) \in Seq(T)
        BY Zenon, <2>4, <3>1, FlattenIs, FlattenAppend
      <3>3. FlattenSeq(ss) \o <<>> = FlattenSeq(ss)
        BY <3>2
      <3>4. Good(u)
        BY Zenon, <3>1, <3>2, <3>3
      <3> QED BY Zenon, <2>3, <3>4
    <2> HIDE DEF Good, Bad
    <2>5. CASE u # <<>>
      <3>1. PICK v \in Seq(Seq(T)), e \in Seq(T) :
              u = Append(v, e) /\ Len(u) = Len(v) + 1 /\ ss \o u = Append(ss \o v, e)
        <4>1. PICK v \in Seq(Seq(T)), e \in Seq(T) : u = Append(v, e)
          BY Zenon, <2>5, SequenceEmptyOrAppend
        <4>2. Len(u) = Len(v) + 1 /\ ss \o u = Append(ss \o v, e)
          BY <4>1, ConcatAppend
        <4> QED BY Zenon, <4>1, <4>2
      <3>2. Good(v)
        <4>1. Len(v) \in Nat
          OBVIOUS
        <4>2. ~(n <= Len(v))
          BY <2>3, <3>1, <4>1
        <4> QED BY Zenon, <2>2, <4>1, <4>2 DEF Bad
      <3>3. FlattenSeq(ss \o u) = FlattenSeq(ss \o v) \o e
        <4>1. ss \o v \in Seq(Seq(T))
          BY <3>1
        <4> QED BY <3>1, <4>1, FlattenAppend
      <3>4. FlattenSeq(u) = FlattenSeq(v) \o e
        BY Zenon, <3>1, FlattenAppend
      <3>5. FlattenSeq(ss) \in Seq(T) /\ FlattenSeq(v) \in Seq(T)
        BY Zenon, FlattenAppend, <3>1
      <3>6. Associate(FlattenSeq(ss), FlattenSeq(v), e)
        BY Zenon, <3>5, Associates
      <3>7. Good(u)
        BY Zenon, <3>2, <3>3, <3>4, <3>6 DEF Good, Associate
      <3> QED BY Zenon, <2>3, <3>7
    <2> QED BY <2>4, <2>5
  <1>2. Len(tt) \in Nat
    OBVIOUS
  <1> QED BY Zenon, <1>1, <1>2

\* A sequence with what f makes of each of its elements.
Each(f, a) == [i \in DOMAIN a |-> f[a[i]]]

\* z is that of a.
IsEach(z, f, a) == Len(z) = Len(a) /\ \A i \in 1..Len(a) : z[i] = f[a[i]]

\* w is x and then y, by places.
IsBoth(w, x, y) ==
  Len(w) = Len(x) + Len(y)
  /\ \A i \in 1..(Len(x) + Len(y)) : w[i] = IF i <= Len(x) THEN x[i] ELSE y[i - Len(x)]

\* It is as long as the sequence.
LEMMA EachIs ==
  ASSUME NEW E, NEW U, NEW f \in [E -> U], NEW c \in Seq(E)
  PROVE  Each(f, c) \in Seq(U) /\ IsEach(Each(f, c), f, c)
  <1> DEFINE n == Len(c)
  <1>1. n \in Nat /\ DOMAIN c = 1..n /\ \A i \in 1..n : c[i] \in E
    OBVIOUS
  <1> HIDE DEF n
  <1>2. Each(f, c) = [i \in 1..n |-> f[c[i]]]
    BY <1>1 DEF Each
  <1>3. \A i \in 1..n : f[c[i]] \in U
    BY <1>1
  <1> DEFINE z == [i \in 1..n |-> f[c[i]]]
  <1>4. z \in [1..n -> U] /\ \A i \in 1..n : z[i] = f[c[i]]
    BY <1>3
  <1> HIDE DEF z
  <1>5. z \in Seq(U) /\ Len(z) = n
    BY <1>1, <1>4
  <1> QED BY Zenon, <1>2, <1>4, <1>5 DEF z, n, IsEach

\* Two sequences, one after another, by places.
LEMMA BothIs ==
  ASSUME NEW E, NEW a \in Seq(E), NEW b \in Seq(E)
  PROVE  a \o b \in Seq(E) /\ IsBoth(a \o b, a, b)
  BY ConcatProperties DEF IsBoth

\* What f makes of both comes one after the other.
LEMMA EachByPlace ==
  ASSUME NEW U, NEW f, NEW a, NEW b, NEW c, NEW x, NEW y, NEW z \in Seq(U), NEW w \in Seq(U),
         Len(a) \in Nat, Len(b) \in Nat,
         IsBoth(c, a, b), IsBoth(w, x, y), IsEach(x, f, a), IsEach(y, f, b), IsEach(z, f, c)
  PROVE  z = w
  <1> DEFINE m == Len(a)
             n == Len(b)
  <1>0. m \in Nat /\ n \in Nat
    OBVIOUS
  <1>1. /\ Len(z) = m + n /\ Len(w) = m + n
        /\ \A i \in 1..(m + n) : c[i] = IF i <= m THEN a[i] ELSE b[i - m]
        /\ \A i \in 1..(m + n) : w[i] = IF i <= m THEN x[i] ELSE y[i - m]
        /\ \A i \in 1..m : x[i] = f[a[i]]
        /\ \A i \in 1..n : y[i] = f[b[i]]
        /\ \A i \in 1..(m + n) : z[i] = f[c[i]]
    BY Zenon DEF IsBoth, IsEach
  <1> HIDE DEF m, n
  <1>2. ASSUME NEW i \in 1..(m + n)
        PROVE  z[i] = w[i]
    <2>1. CASE i <= m
      <3>1. i \in 1..m
        BY <1>0, <2>1
      <3>2. c[i] = a[i] /\ w[i] = x[i]
        BY Zenon, <1>1, <2>1
      <3>3. x[i] = f[a[i]] /\ z[i] = f[c[i]]
        BY Zenon, <1>1, <3>1
      <3> QED BY Zenon, <3>2, <3>3
    <2>2. CASE ~(i <= m)
      <3>1. i - m \in 1..n
        BY <1>0, <2>2
      <3>2. c[i] = b[i - m] /\ w[i] = y[i - m]
        BY Zenon, <1>1, <2>2
      <3>3. y[i - m] = f[b[i - m]] /\ z[i] = f[c[i]]
        BY Zenon, <1>1, <3>1
      <3> QED BY Zenon, <3>2, <3>3
    <2> QED BY Zenon, <2>1, <2>2
  <1> QED BY <1>1, <1>2, SeqEqual

EachInParts(f, a, b) == Each(f, a \o b) = Each(f, a) \o Each(f, b)

\* It goes on as the sequence does.
LEMMA EachOfBoth ==
  ASSUME NEW E, NEW U, NEW f \in [E -> U], NEW a \in Seq(E), NEW b \in Seq(E)
  PROVE  EachInParts(f, a, b)
  <1> DEFINE x == Each(f, a)
             y == Each(f, b)
             c == a \o b
             z == Each(f, c)
             w == x \o y
  <1>1. c \in Seq(E) /\ IsBoth(c, a, b)
    BY Zenon, BothIs
  <1>2. Len(a) \in Nat /\ Len(b) \in Nat
    OBVIOUS
  <1>3. x \in Seq(U) /\ IsEach(x, f, a) /\ y \in Seq(U) /\ IsEach(y, f, b)
    BY Zenon, EachIs
  <1> HIDE DEF x, y, c
  <1>4. z \in Seq(U) /\ IsEach(z, f, c)
    BY Zenon, <1>1, EachIs
  <1>5. w \in Seq(U) /\ IsBoth(w, x, y)
    BY Zenon, <1>3, BothIs
  <1> HIDE DEF z, w
  <1>6. z = w
    BY Zenon, <1>1, <1>2, <1>3, <1>4, <1>5, EachByPlace
  <1> QED BY Zenon, <1>6 DEF x, y, c, z, w, EachInParts

\* What f makes of the elements, joined.
Joined(f, a) == FlattenSeq(Each(f, a))

\* The parts of x \o y are joined on their own.
InParts(f, x, y) == Joined(f, x \o y) = Joined(f, x) \o Joined(f, y)

\* A part of the elements makes a part of what is joined.
LEMMA JoinedInParts ==
  ASSUME NEW E, NEW T, NEW f \in [E -> Seq(T)], NEW a \in Seq(E), NEW b \in Seq(E)
  PROVE  Joined(f, a) \in Seq(T) /\ InParts(f, a, b)
  <1> DEFINE x == Each(f, a)
             y == Each(f, b)
  <1>1. x \in Seq(Seq(T)) /\ y \in Seq(Seq(T))
    BY EachIs
  <1>2. EachInParts(f, a, b)
    BY Zenon, EachOfBoth
  <1>3. <<>> \in Seq(T)
    BY EmptySeq
  <1> HIDE DEF x, y
  <1>4. FlattenSeq(x) \in Seq(T)
    BY Zenon, <1>1, <1>3, FlattenAppend
  <1>5. FlattenSeq(x \o y) = FlattenSeq(x) \o FlattenSeq(y)
    BY Zenon, <1>1, FlattenBoth
  <1> QED BY Zenon, <1>2, <1>4, <1>5 DEF x, y, EachInParts, Joined, InParts

FewJoined(f, e) == Joined(f, <<>>) = <<>> /\ Joined(f, <<e>>) = f[e]

\* One element, or none.
LEMMA JoinedFew ==
  ASSUME NEW E, NEW T, NEW f \in [E -> Seq(T)], NEW e \in E
  PROVE  FewJoined(f, e)
  <1>1. Each(f, <<>>) = <<>>
    BY DEF Each
  <1>2. Each(f, <<e>>) = <<f[e]>>
    <2>1. DOMAIN <<e>> = 1..1 /\ <<e>>[1] = e
      OBVIOUS
    <2> QED BY <2>1 DEF Each
  <1>3. f[e] \in Seq(T)
    OBVIOUS
  <1> QED BY Zenon, <1>1, <1>2, <1>3, FlattenFew DEF Joined, FewJoined

-----------------------------------------------------------------------------
(***************************************************************************)
(* The answer.                                                             *)
(***************************************************************************)

\* What texts are made of, the prompt included.
Letter == Chr \cup {"prompt"}

\* What the channel and the answer of a request that runs are made of.
TextEntry == [is : {"text"}, text : Seq(Letter)]
OtherEntry ==
  {[is |-> "role"], [is |-> "[DONE]"], [is |-> "failed"], Failure}
  \cup [is : {"finish"}, reason : {"stop", "length"}]
  \cup [is : {"usage"}, tokens : Nat]
  \cup [is : {"stop", "length"}, tokens : Nat]
Entry == TextEntry \cup OtherEntry

\* An entry is a text or something else, and here they are.
LEMMA EntriesAre ==
  /\ \A e \in TextEntry : e.is = "text" /\ e.text \in Seq(Letter)
  /\ \A e \in OtherEntry : e.is # "text"
  /\ Echo \in TextEntry
  /\ \A t \in Seq(Letter) : [is |-> "text", text |-> t] \in TextEntry
  /\ [is |-> "role"] \in OtherEntry /\ [is |-> "[DONE]"] \in OtherEntry
  /\ [is |-> "failed"] \in OtherEntry /\ Failure \in OtherEntry
  /\ \A reason \in {"stop", "length"} : [is |-> "finish", reason |-> reason] \in OtherEntry
  /\ \A n \in Nat : [is |-> "usage", tokens |-> n] \in OtherEntry
  /\ \A reason \in {"stop", "length"}, n \in Nat : [is |-> reason, tokens |-> n] \in OtherEntry
  <1>1. \A e \in TextEntry : e.is = "text" /\ e.text \in Seq(Letter)
    BY DEF TextEntry
  <1>2. \A e \in OtherEntry : e.is # "text"
    <2> SUFFICES ASSUME NEW e \in OtherEntry
                 PROVE  e.is # "text"
      OBVIOUS
    <2>1. CASE e \in [is : {"finish"}, reason : {"stop", "length"}]
      BY <2>1
    <2>2. CASE e \in [is : {"usage"}, tokens : Nat]
      BY <2>2
    <2>3. CASE e \in [is : {"stop", "length"}, tokens : Nat]
      BY <2>3
    <2>4. CASE e \in {[is |-> "role"], [is |-> "[DONE]"], [is |-> "failed"], Failure}
      <3>1. [is |-> "role"].is # "text" /\ [is |-> "[DONE]"].is # "text"
        OBVIOUS
      <3>2. [is |-> "failed"].is # "text" /\ Failure.is # "text"
        BY DEF Failure
      <3> QED BY Zenon, <2>4, <3>1, <3>2
    <2> QED BY Zenon, <2>1, <2>2, <2>3, <2>4 DEF OtherEntry
  <1>3. \A t \in Seq(Letter) : [is |-> "text", text |-> t] \in TextEntry
    BY DEF TextEntry
  <1>4. Echo \in TextEntry
    <2>1. <<"prompt">> \in Seq(Letter)
      BY DEF Letter
    <2> QED BY Zenon, <1>3, <2>1 DEF Echo
  <1>5. /\ [is |-> "role"] \in OtherEntry /\ [is |-> "[DONE]"] \in OtherEntry
        /\ [is |-> "failed"] \in OtherEntry /\ Failure \in OtherEntry
    BY Zenon DEF OtherEntry
  <1>6. \A reason \in {"stop", "length"} : [is |-> "finish", reason |-> reason] \in OtherEntry
    BY DEF OtherEntry
  <1>7. \A n \in Nat : [is |-> "usage", tokens |-> n] \in OtherEntry
    BY DEF OtherEntry
  <1>8. \A reason \in {"stop", "length"}, n \in Nat : [is |-> reason, tokens |-> n] \in OtherEntry
    BY DEF OtherEntry
  <1> QED BY Zenon, <1>1, <1>2, <1>3, <1>4, <1>5, <1>6, <1>7, <1>8

\* What TextOf and OthersOf take of an entry.
ItsText == [e \in Entry |-> IF e.is = "text" THEN e.text ELSE <<>>]
ItsOther == [e \in Entry |-> IF e.is = "text" THEN <<>> ELSE <<e>>]

\* They take sequences of letters and of entries.
LEMMA ItsTyped == ItsText \in [Entry -> Seq(Letter)] /\ ItsOther \in [Entry -> Seq(Entry)]
  <1>1. ASSUME NEW e \in Entry
        PROVE  (IF e.is = "text" THEN e.text ELSE <<>>) \in Seq(Letter)
    <2>1. e.is = "text" => e.text \in Seq(Letter)
      BY Zenon, EntriesAre DEF Entry
    <2>2. <<>> \in Seq(Letter)
      BY EmptySeq
    <2> QED BY Zenon, <2>1, <2>2
  <1>2. ASSUME NEW e \in Entry
        PROVE  (IF e.is = "text" THEN <<>> ELSE <<e>>) \in Seq(Entry)
    OBVIOUS
  <1>3. ItsText \in [Entry -> Seq(Letter)]
    BY <1>1 DEF ItsText
  <1>4. ItsOther \in [Entry -> Seq(Entry)]
    BY <1>2 DEF ItsOther
  <1> QED BY Zenon, <1>3, <1>4

\* The texts of an answer and what else is in it are the two, joined.
LEMMA JoinedAre ==
  ASSUME NEW a \in Seq(Entry)
  PROVE  TextOf(a) = Joined(ItsText, a) /\ OthersOf(a) = Joined(ItsOther, a)
  <1>1. \A i \in DOMAIN a : a[i] \in Entry
    BY LenProperties, ElementOfSeq
  <1>2. \A i \in DOMAIN a : ItsText[a[i]] = IF a[i].is = "text" THEN a[i].text ELSE <<>>
    BY Zenon, <1>1 DEF ItsText
  <1>3. \A i \in DOMAIN a : ItsOther[a[i]] = IF a[i].is = "text" THEN <<>> ELSE <<a[i]>>
    BY Zenon, <1>1 DEF ItsOther
  <1>4. Each(ItsText, a) = [i \in DOMAIN a |-> IF a[i].is = "text" THEN a[i].text ELSE <<>>]
    BY Zenon, <1>2 DEF Each
  <1>5. Each(ItsOther, a) = [i \in DOMAIN a |-> IF a[i].is = "text" THEN <<>> ELSE <<a[i]>>]
    BY Zenon, <1>3 DEF Each
  <1> QED BY Zenon, <1>4, <1>5 DEF TextOf, OthersOf, Joined

\* The answer in parts.
TakenApart(a, b) ==
  TextOf(a \o b) = TextOf(a) \o TextOf(b) /\ OthersOf(a \o b) = OthersOf(a) \o OthersOf(b)

\* What comes after an answer adds its texts to the texts and the rest to the rest.
LEMMA AnswerInParts ==
  ASSUME NEW a \in Seq(Entry), NEW b \in Seq(Entry)
  PROVE  /\ TextOf(a) \in Seq(Letter) /\ OthersOf(a) \in Seq(Entry)
         /\ TakenApart(a, b)
  <1>1. a \o b \in Seq(Entry)
    OBVIOUS
  <1>2. Joined(ItsText, a) \in Seq(Letter) /\ InParts(ItsText, a, b)
    BY Zenon, ItsTyped, JoinedInParts
  <1>3. Joined(ItsOther, a) \in Seq(Entry) /\ InParts(ItsOther, a, b)
    BY Zenon, ItsTyped, JoinedInParts
  <1>4. /\ TextOf(a) = Joined(ItsText, a) /\ OthersOf(a) = Joined(ItsOther, a)
        /\ TextOf(b) = Joined(ItsText, b) /\ OthersOf(b) = Joined(ItsOther, b)
        /\ TextOf(a \o b) = Joined(ItsText, a \o b) /\ OthersOf(a \o b) = Joined(ItsOther, a \o b)
    BY Zenon, <1>1, JoinedAre
  <1> QED BY Zenon, <1>2, <1>3, <1>4 DEF InParts, TakenApart

\* One text, or one entry that is none, or nothing.
LEMMA OneEntry ==
  /\ TextOf(<<>>) = <<>> /\ OthersOf(<<>>) = <<>>
  /\ \A e \in TextEntry : TextOf(<<e>>) = e.text /\ OthersOf(<<e>>) = <<>>
  /\ \A e \in OtherEntry : TextOf(<<e>>) = <<>> /\ OthersOf(<<e>>) = <<e>>
  <1>1. <<>> \in Seq(Entry) /\ \A e \in Entry : <<e>> \in Seq(Entry)
    OBVIOUS
  <1>2. ASSUME NEW e \in Entry
        PROVE  /\ TextOf(<<>>) = <<>> /\ OthersOf(<<>>) = <<>>
               /\ TextOf(<<e>>) = ItsText[e] /\ OthersOf(<<e>>) = ItsOther[e]
    <2>1. Joined(ItsText, <<>>) = <<>> /\ Joined(ItsText, <<e>>) = ItsText[e]
      BY Zenon, ItsTyped, JoinedFew DEF FewJoined
    <2>2. Joined(ItsOther, <<>>) = <<>> /\ Joined(ItsOther, <<e>>) = ItsOther[e]
      BY Zenon, ItsTyped, JoinedFew DEF FewJoined
    <2> QED BY Zenon, <1>1, <2>1, <2>2, JoinedAre
  <1>3. TextOf(<<>>) = <<>> /\ OthersOf(<<>>) = <<>>
    <2>1. Echo \in Entry
      BY Zenon, EntriesAre DEF Entry
    <2> QED BY Zenon, <1>2, <2>1
  <1>4. ASSUME NEW e \in TextEntry
        PROVE  TextOf(<<e>>) = e.text /\ OthersOf(<<e>>) = <<>>
    <2>1. e \in Entry /\ e.is = "text"
      BY Zenon, EntriesAre DEF Entry
    <2>2. ItsText[e] = e.text /\ ItsOther[e] = <<>>
      BY Zenon, <2>1 DEF ItsText, ItsOther
    <2> QED BY Zenon, <1>2, <2>1, <2>2
  <1>5. ASSUME NEW e \in OtherEntry
        PROVE  TextOf(<<e>>) = <<>> /\ OthersOf(<<e>>) = <<e>>
    <2>1. e \in Entry /\ e.is # "text"
      BY Zenon, EntriesAre DEF Entry
    <2>2. ItsText[e] = <<>> /\ ItsOther[e] = <<e>>
      BY Zenon, <2>1 DEF ItsText, ItsOther
    <2> QED BY Zenon, <1>2, <2>1, <2>2
  <1> QED BY Zenon, <1>3, <1>4, <1>5

\* They are in it as they are.
AsTheyAre(b) == TextOf(b) = <<>> /\ OthersOf(b) = b

\* Of entries that are no texts nothing is left out.
LEMMA OthersStay == \A b \in Seq(OtherEntry) : AsTheyAre(b)
  <1> DEFINE Bad == {n \in Nat : \E b \in Seq(OtherEntry) : Len(b) = n /\ ~AsTheyAre(b)}
  <1>1. ASSUME Bad # {} PROVE FALSE
    <2>1. Bad \subseteq Nat
      OBVIOUS
    <2>2. PICK n \in Bad : \A k \in Bad : n <= k
      BY Zenon, <1>1, <2>1, LeastNumber
    <2>3. PICK b \in Seq(OtherEntry) : Len(b) = n /\ ~AsTheyAre(b)
      BY <2>2
    <2>4. b # <<>>
      BY Zenon, <2>3, OneEntry DEF AsTheyAre
    <2>5. PICK c \in Seq(OtherEntry), e \in OtherEntry : b = Append(c, e)
      BY Zenon, <2>4, SequenceEmptyOrAppend
    <2>6. Len(c) \in Nat /\ ~(n <= Len(c)) /\ b = c \o <<e>>
      BY <2>3, <2>5
    <2>7. AsTheyAre(c)
      BY Zenon, <2>2, <2>6
    <2>8. c \in Seq(Entry) /\ <<e>> \in Seq(Entry)
      BY DEF Entry
    <2>9. TakenApart(c, <<e>>)
      BY Zenon, <2>8, AnswerInParts
    <2>10. TextOf(<<e>>) = <<>> /\ OthersOf(<<e>>) = <<e>>
      BY Zenon, OneEntry
    <2>11. TextOf(b) = <<>> \o <<>> /\ OthersOf(b) = c \o <<e>>
      BY Zenon, <2>6, <2>7, <2>9, <2>10 DEF AsTheyAre, TakenApart
    <2>12. AsTheyAre(b)
      BY SMTT(30), <2>6, <2>11 DEF AsTheyAre
    <2> QED BY Zenon, <2>3, <2>12
  <1>2. ASSUME NEW b \in Seq(OtherEntry)
        PROVE  AsTheyAre(b)
    <2>1. Len(b) \in Nat
      OBVIOUS
    <2> QED BY Zenon, <1>1, <2>1
  <1> QED BY Zenon, <1>2

\* The answer with what comes after it that is no text.
ClosedBy(a, b) == TextOf(a \o b) = TextOf(a) /\ OthersOf(a \o b) = OthersOf(a) \o b

\* It leaves the texts as they are.
LEMMA ClosingAdds ==
  ASSUME NEW a \in Seq(Entry), NEW b \in Seq(OtherEntry)
  PROVE  ClosedBy(a, b)
  <1>1. b \in Seq(Entry)
    BY DEF Entry
  <1>2. TakenApart(a, b) /\ TextOf(a) \in Seq(Letter)
    BY Zenon, <1>1, AnswerInParts
  <1>3. AsTheyAre(b)
    BY Zenon, OthersStay
  <1>4. TextOf(a) \o <<>> = TextOf(a)
    BY <1>2
  <1> QED BY Zenon, <1>2, <1>3, <1>4 DEF AsTheyAre, TakenApart, ClosedBy

\* The answer with one more text.
LongerBy(a, e) == TextOf(a \o <<e>>) = TextOf(a) \o e.text /\ OthersOf(a \o <<e>>) = OthersOf(a)

\* It leaves the rest as it is.
LEMMA TextAdds ==
  ASSUME NEW a \in Seq(Entry), NEW e \in TextEntry
  PROVE  LongerBy(a, e)
  <1>1. <<e>> \in Seq(Entry)
    BY DEF Entry
  <1>2. TakenApart(a, <<e>>) /\ OthersOf(a) \in Seq(Entry)
    BY Zenon, <1>1, AnswerInParts
  <1>3. TextOf(<<e>>) = e.text /\ OthersOf(<<e>>) = <<>>
    BY Zenon, OneEntry
  <1>4. OthersOf(a) \o <<>> = OthersOf(a)
    BY <1>2
  <1> QED BY Zenon, <1>2, <1>3, <1>4 DEF TakenApart, LongerBy

\* The end of the channel, once the pump has ended.
FinalOut(e, n) ==
  IF e \in {"stop", "length"} THEN <<[is |-> e, tokens |-> n]>>
  ELSE IF e = "failed" THEN <<[is |-> "failed"]>> ELSE <<>>

\* What an answer opens with: the role, or the text of the prompt.
RoleOf(r) == IF r.endpoint = "chat" /\ r.stream THEN <<[is |-> "role"]>> ELSE <<>>
EchoOf(r) == IF r.stream /\ r.echo THEN Echo.text ELSE <<>>

\* What was sent is on its way in the channel or in the answer; the end comes last.
Underway(ts) ==
  /\ ts \in Seq(TextEntry)
  /\ outs = ts \o FinalOut(ended, taken)
  /\ TextOf(answer) \o TextOf(ts) = EchoOf(request) \o said

\* Before there is a request, the channel is empty, and a chat does not echo.
ChannelInv ==
  /\ taken \in Nat
  /\ request.at = "none" => outs = <<>>
  /\ request.at # "none" /\ request.endpoint = "chat" => ~request.echo

\* While the client listens.
RunningInv ==
  request.at = "running" =>
    /\ ended # "gone"
    /\ answer \in Seq(Entry) /\ OthersOf(answer) = RoleOf(request)
    /\ \E ts \in Seq(TextEntry) : Underway(ts)

\* The inductive invariant.
AnswerInv == ReplyInv /\ ChannelInv /\ RunningInv /\ AnswerIsTheReply

\* Two texts, one after another, and the first of them.
LEMMA BeginsBoth ==
  ASSUME NEW S, NEW x \in Seq(S), NEW y \in Seq(S)
  PROVE  IsPrefix(x, x \o y)
  <1>1. /\ x \o y \in Seq(S) /\ Len(x \o y) = Len(x) + Len(y) /\ Len(x) \in Nat /\ Len(y) \in Nat
        /\ \A i \in 1..(Len(x) + Len(y)) : (x \o y)[i] = IF i <= Len(x) THEN x[i] ELSE y[i - Len(x)]
    BY ConcatProperties
  <1> DEFINE z == x \o y
             n == Len(x)
             p == SubSeq(z, 1, n)
             q == SubSeq(x, 1, n)
  <1>2. n \in Nat /\ z \in Seq(S) /\ n <= Len(z) /\ \A i \in 1..n : z[i] = x[i]
    BY <1>1
  <1>3. n <= n /\ n = Len(x)
    BY <1>1
  <1> HIDE DEF z, n
  <1>4. p \in Seq(S) /\ Len(p) = n /\ \A i \in 1..n : p[i] = z[i]
    <2>1. /\ SubSeq(z, 0 + 1, 0 + n) \in Seq(S) /\ Len(SubSeq(z, 0 + 1, 0 + n)) = n
          /\ \A j \in 1..n : SubSeq(z, 0 + 1, 0 + n)[j] = z[0 + j]
      BY <1>2, SubSeqOf
    <2> QED BY <1>2, <2>1
  <1>5. q \in Seq(S) /\ Len(q) = n /\ \A i \in 1..n : q[i] = x[i]
    <2>1. /\ SubSeq(x, 0 + 1, 0 + n) \in Seq(S) /\ Len(SubSeq(x, 0 + 1, 0 + n)) = n
          /\ \A j \in 1..n : SubSeq(x, 0 + 1, 0 + n)[j] = x[0 + j]
      BY <1>2, <1>3, SubSeqOf
    <2> QED BY <1>2, <2>1
  <1> HIDE DEF p, q
  <1>6. p = q
    BY <1>2, <1>4, <1>5, SeqEqual
  <1> QED BY <1>2, <1>6 DEF IsPrefix, p, q, z, n

\* The second of them.
LEMMA EndsBoth ==
  ASSUME NEW S, NEW x \in Seq(S), NEW y \in Seq(S)
  PROVE  IsSuffix(y, x \o y)
  <1> DEFINE z == x \o y
             k == Len(y)
  <1>1. /\ z \in Seq(S) /\ Len(z) = Len(x) + k /\ Len(x) \in Nat /\ k \in Nat
        /\ \A i \in 1..(Len(x) + k) : z[i] = IF i <= Len(x) THEN x[i] ELSE y[i - Len(x)]
    BY ConcatProperties
  <1>2. SubSeq(y, 1, Len(y)) = y
    OBVIOUS
  <1> HIDE DEF z
  <1>3. ASSUME NEW j \in 1..k
        PROVE  z[Len(z) - k + j] = y[j]
    <2> HIDE DEF k
    <2>1. /\ Len(z) - k + j \in 1..(Len(x) + k) /\ ~(Len(z) - k + j <= Len(x))
          /\ (Len(z) - k + j) - Len(x) = j
      BY <1>1
    <2> QED BY Zenon, <1>1, <2>1
  <1>4. k <= Len(z)
    BY <1>1
  <1>5. Ends(y, k, z)
    BY Zenon, <1>3, <1>4 DEF Ends
  <1>6. k \in 0..Len(y)
    BY <1>1
  <1>7. IsSuffix(SubSeq(y, 1, k), z)
    BY Zenon, <1>1, <1>5, <1>6, SuffixIsEnds
  <1> QED BY Zenon, <1>2, <1>7 DEF z, k

\* The pump sends a text, or none, and may end.
LEMMA ProducerKeeps ==
  ASSUME RunningInv, request.at = "running", ended = "no", said \in Seq(Chr),
         NEW t \in Seq(Chr),
         request' = request, answer' = answer, said' = said \o t,
         ended' # "gone",
         outs' = (outs \o Emitted(t)) \o FinalOut(ended', taken')
  PROVE  RunningInv'
  <1>1. PICK ts \in Seq(TextEntry) : Underway(ts)
    BY DEF RunningInv
  <1>2. outs = ts \o <<>>
    BY Zenon, <1>1 DEF Underway, FinalOut
  <1>3. outs = ts
    BY <1>2
  <1>4. answer \in Seq(Entry) /\ OthersOf(answer) = RoleOf(request)
    BY Zenon DEF RunningInv
  <1> DEFINE us == ts \o Emitted(t)
  <1>5. t \in Seq(Letter) /\ said \in Seq(Letter)
    BY DEF Letter
  <1>6. us \in Seq(TextEntry) /\ TextOf(us) = TextOf(ts) \o t
    <2>1. ts \in Seq(Entry) /\ TextOf(ts) \in Seq(Letter)
      <3>1. ts \in Seq(Entry)
        BY DEF Entry
      <3> QED BY Zenon, <3>1, AnswerInParts
    <2>2. CASE t = <<>>
      <3>1. us = ts \o <<>>
        BY Zenon, <2>2 DEF Emitted
      <3>2. us = ts /\ TextOf(ts) = TextOf(ts) \o <<>>
        BY <2>1, <3>1
      <3> QED BY Zenon, <2>2, <3>2
    <2>3. CASE t # <<>>
      <3> DEFINE e == [is |-> "text", text |-> t]
      <3>1. e \in TextEntry /\ e.text = t
        BY Zenon, <1>5, EntriesAre
      <3>2. us = ts \o <<e>>
        BY Zenon, <2>3 DEF Emitted
      <3> HIDE DEF e
      <3>3. LongerBy(ts, e)
        BY Zenon, <2>1, <3>1, TextAdds
      <3>4. ts \o <<e>> \in Seq(TextEntry)
        BY <3>1
      <3> QED BY Zenon, <3>1, <3>2, <3>3, <3>4 DEF LongerBy
    <2> QED BY <2>2, <2>3
  <1>7. outs' = us \o FinalOut(ended', taken')
    BY Zenon, <1>3
  <1> HIDE DEF us
  <1>8. TextOf(answer) \o TextOf(us) = EchoOf(request) \o (said \o t)
    <2>1. TextOf(answer) \in Seq(Letter)
      BY Zenon, <1>4, AnswerInParts
    <2>2. TextOf(ts) \in Seq(Letter)
      <3>1. ts \in Seq(Entry)
        BY DEF Entry
      <3> QED BY Zenon, <3>1, AnswerInParts
    <2>3. EchoOf(request) \in Seq(Letter)
      <3>1. <<>> \in Seq(Letter) /\ Echo.text \in Seq(Letter)
        BY EmptySeq, EntriesAre
      <3> QED BY Zenon, <3>1 DEF EchoOf
    <2>4. Associate(TextOf(answer), TextOf(ts), t) /\ Associate(EchoOf(request), said, t)
      BY Zenon, <1>5, <2>1, <2>2, <2>3, Associates
    <2>5. TextOf(answer) \o TextOf(ts) = EchoOf(request) \o said
      BY Zenon, <1>1 DEF Underway
    <2> QED BY Zenon, <1>6, <2>4, <2>5 DEF Associate
  <1>9. Underway(us)'
    <2>1. us' = us
      BY DEF us
    <2> QED BY Zenon, <1>6, <1>7, <1>8 DEF Underway
  <1> QED BY Zenon, <1>4, <1>6, <1>9 DEF RunningInv

\* What was sent goes from the channel into the answer: both, one after another, stay.
LEMMA RunningReads ==
  ASSUME RunningInv, ChannelInv, request.at = "running", request \in RequestType,
         said \in Seq(Chr), request.stream
  PROVE  IsPrefix(TextOf(answer), (IF request.echo THEN Echo.text ELSE <<>>) \o said)
  <1>1. PICK ts \in Seq(TextEntry) : Underway(ts)
    BY DEF RunningInv
  <1>2. answer \in Seq(Entry) /\ ts \in Seq(Entry)
    BY DEF RunningInv, Entry
  <1>3. TextOf(answer) \in Seq(Letter) /\ TextOf(ts) \in Seq(Letter)
    BY Zenon, <1>2, AnswerInParts
  <1> DEFINE x == TextOf(answer)
             y == TextOf(ts)
  <1>4. x \o y = (IF request.echo THEN Echo.text ELSE <<>>) \o said
    BY Zenon, <1>1 DEF Underway, EchoOf
  <1>5. IsPrefix(x, x \o y)
    BY Zenon, <1>3, BeginsBoth
  <1> QED BY Zenon, <1>4, <1>5

\* A sequence of texts from its first.
LEMMA FirstOf ==
  ASSUME NEW ts \in Seq(TextEntry), ts # <<>>
  PROVE  \E e \in TextEntry, us \in Seq(TextEntry) : ts = <<e>> \o us
  <1>1. /\ Head(ts) \in TextEntry /\ Tail(ts) \in Seq(TextEntry)
        /\ Len(ts) \in Nat \ {0} /\ Len(Tail(ts)) = Len(ts) - 1 /\ Head(ts) = ts[1]
        /\ \A i \in 1..(Len(ts) - 1) : Tail(ts)[i] = ts[i + 1]
    OBVIOUS
  <1> DEFINE e == Head(ts)
             us == Tail(ts)
             x == <<e>>
  <1>2. x \in Seq(TextEntry) /\ Len(x) = 1 /\ x[1] = ts[1] /\ us \in Seq(TextEntry)
    BY <1>1
  <1> HIDE DEF x
  <1> DEFINE z == x \o us
  <1>3. /\ z \in Seq(TextEntry) /\ Len(z) = Len(x) + Len(us)
        /\ \A i \in 1..(Len(x) + Len(us)) : z[i] = IF i <= Len(x) THEN x[i] ELSE us[i - Len(x)]
    BY <1>2, ConcatProperties
  <1>4. Len(us) = Len(ts) - 1 /\ \A i \in 1..(Len(ts) - 1) : us[i] = ts[i + 1]
    BY <1>1
  <1> HIDE DEF z, us, e
  <1>5. ASSUME NEW i \in 1..Len(ts)
        PROVE  ts[i] = z[i]
    <2>1. CASE i = 1
      BY <1>1, <1>2, <1>3, <1>4, <2>1
    <2>2. CASE i # 1
      <3>1. i - 1 \in 1..(Len(ts) - 1) /\ i = (i - 1) + 1 /\ ~(i <= 1)
        BY <1>1, <2>2
      <3>2. us[i - 1] = ts[i]
        BY <1>4, <3>1
      <3>3. i \in 1..(Len(x) + Len(us))
        BY <1>1, <1>2, <1>4
      <3> QED BY <1>2, <1>3, <3>1, <3>2, <3>3
    <2> QED BY <2>1, <2>2
  <1>6. ts = z
    BY <1>1, <1>2, <1>3, <1>4, <1>5, SeqEqual
  <1> QED BY Zenon, <1>1, <1>2, <1>6 DEF x, z, us, e

FirstIs(e, us, f) == Head((<<e>> \o us) \o f) = e /\ Tail((<<e>> \o us) \o f) = us \o f

\* The first is taken and the rest stays.
LEMMA FirstTaken ==
  ASSUME NEW S, NEW e \in S, NEW us \in Seq(S), NEW f \in Seq(S)
  PROVE  FirstIs(e, us, f)
  BY DEF FirstIs

\* The end of the channel is not a text.
LEMMA FinalTyped == \A e, n : n \in Nat => FinalOut(e, n) \in Seq(OtherEntry)
  <1> SUFFICES ASSUME NEW e, NEW n \in Nat
               PROVE  FinalOut(e, n) \in Seq(OtherEntry)
    OBVIOUS
  <1>1. \A x \in OtherEntry : <<x>> \in Seq(OtherEntry)
    OBVIOUS
  <1>2. <<>> \in Seq(OtherEntry)
    OBVIOUS
  <1> QED BY Zenon, <1>1, <1>2, EntriesAre DEF FinalOut

\* The handler takes a text out of the channel and adds it to the answer.
LEMMA TakesText ==
  ASSUME RunningInv, ChannelInv, request.at = "running",
         NEW ts \in Seq(TextEntry), Underway(ts), ts # <<>>, Deliver
  PROVE  RunningInv' /\ request' = request
  <1>1. PICK e \in TextEntry, us \in Seq(TextEntry) : ts = <<e>> \o us
    BY Zenon, FirstOf
  <1>2. e.is = "text" /\ e.text \in Seq(Letter)
    BY Zenon, EntriesAre
  <1>3. answer \in Seq(Entry) /\ OthersOf(answer) = RoleOf(request) /\ ended # "gone"
    BY Zenon DEF RunningInv
  <1>4. Head(outs) = e /\ Tail(outs) = us \o FinalOut(ended, taken)
    <2>1. FinalOut(ended, taken) \in Seq(Entry)
      <3>1. FinalOut(ended, taken) \in Seq(OtherEntry)
        BY FinalTyped DEF ChannelInv
      <3> QED BY <3>1 DEF Entry
    <2>2. outs = (<<e>> \o us) \o FinalOut(ended, taken)
      BY Zenon, <1>1 DEF Underway
    <2>3. e \in Entry /\ us \in Seq(Entry)
      BY DEF Entry
    <2>4. FirstIs(e, us, FinalOut(ended, taken))
      BY Zenon, <2>1, <2>3, FirstTaken
    <2> QED BY Zenon, <2>2, <2>4 DEF FirstIs
  <1>5. answer' = answer \o <<e>>
    <2>1. answer' = IF request.stream THEN answer \o <<e>> ELSE Append(answer, e)
      BY <1>2, <1>4 DEF Deliver, Streamed, Collected
    <2>2. Append(answer, e) = answer \o <<e>>
      BY <1>3
    <2> QED BY Zenon, <2>1, <2>2
  <1>6. request' = request /\ ended' = ended /\ taken' = taken /\ said' = said
    BY <1>2, <1>4 DEF Deliver
  <1>7. answer' \in Seq(Entry)
    BY <1>3, <1>5 DEF Entry
  <1>8. LongerBy(answer, e)
    BY Zenon, <1>3, TextAdds
  <1>9. OthersOf(answer') = RoleOf(request')
    BY Zenon, <1>3, <1>5, <1>6, <1>8 DEF LongerBy
  <1>10. TextOf(answer') \o TextOf(us) = EchoOf(request) \o said
    <2>1. TextOf(answer) \in Seq(Letter)
      BY Zenon, <1>3, AnswerInParts
    <2>2. us \in Seq(Entry) /\ <<e>> \in Seq(Entry)
      BY DEF Entry
    <2>3. TextOf(us) \in Seq(Letter)
      BY Zenon, <2>2, AnswerInParts
    <2>4. TextOf(ts) = e.text \o TextOf(us)
      <3>1. TakenApart(<<e>>, us)
        BY Zenon, <2>2, AnswerInParts
      <3>2. TextOf(<<e>>) = e.text
        BY Zenon, OneEntry
      <3> QED BY Zenon, <1>1, <3>1, <3>2 DEF TakenApart
    <2>5. Associate(TextOf(answer), e.text, TextOf(us))
      BY Zenon, <1>2, <2>1, <2>3, Associates
    <2>6. TextOf(answer) \o TextOf(ts) = EchoOf(request) \o said
      BY Zenon DEF Underway
    <2> QED BY Zenon, <1>5, <1>8, <2>4, <2>5, <2>6 DEF LongerBy, Associate
  <1>11. outs' = us \o FinalOut(ended, taken)
    BY Zenon, <1>4 DEF Deliver
  <1>12. Underway(us)'
    BY Zenon, <1>6, <1>10, <1>11 DEF Underway
  <1> QED BY Zenon, <1>3, <1>6, <1>7, <1>9, <1>12 DEF RunningInv

\* The parts of the whole answer: its text, and how it closes.
FullText(r, s) == (IF r.echo THEN Echo.text ELSE <<>>) \o s
DoneOf(r) == IF r.stream THEN <<[is |-> "[DONE]"]>> ELSE <<>>
ClosingOf(r, e, n) ==
  <<[is |-> "finish", reason |-> e]>>
  \o (IF r.usage \/ ~r.stream THEN <<[is |-> "usage", tokens |-> n]>> ELSE <<>>) \o DoneOf(r)

\* a is the whole answer to r, of which s was sent, when the pump has ended so.
IsWhole(r, a, s, e, n) ==
  /\ TextOf(a) = FullText(r, s)
  /\ OthersOf(a) = RoleOf(r) \o ClosingOf(r, e, n)
  /\ IsSuffix(ClosingOf(r, e, n), a)
IsFailed(r, a) == OthersOf(a) = RoleOf(r) \o <<Failure>> \o DoneOf(r)

\* Two or three entries, written in one.
LEMMA TwoEntries ==
  \A x, y : (<<x>> \o <<y>>) \o <<>> = <<x, y>> /\ (<<>> \o <<x>>) \o <<>> = <<x>>
            /\ <<x>> \o <<y>> = <<x, y>>
  <1> SUFFICES ASSUME NEW x, NEW y
               PROVE  (<<x>> \o <<y>>) \o <<>> = <<x, y>> /\ (<<>> \o <<x>>) \o <<>> = <<x>>
                      /\ <<x>> \o <<y>> = <<x, y>>
    OBVIOUS
  <1>1. <<x>> \in Seq({x, y}) /\ <<y>> \in Seq({x, y}) /\ <<x, y>> \in Seq({x, y})
    OBVIOUS
  <1>2. <<x>> \o <<y>> = <<x, y>>
    <2> DEFINE S == {x, y}
               a == <<x>>
               b == <<y>>
               p == a \o b
               q == <<x, y>>
    <2>1. /\ a \in Seq(S) /\ Len(a) = 1 /\ a[1] = x /\ b \in Seq(S) /\ Len(b) = 1 /\ b[1] = y
          /\ q \in Seq(S) /\ Len(q) = 2 /\ q[1] = x /\ q[2] = y
      OBVIOUS
    <2> HIDE DEF a, b, S, q
    <2>2. /\ p \in Seq(S) /\ Len(p) = Len(a) + Len(b)
          /\ \A i \in 1..(Len(a) + Len(b)) : p[i] = IF i <= Len(a) THEN a[i] ELSE b[i - Len(a)]
      BY <2>1, ConcatProperties
    <2> HIDE DEF p
    <2>3. Len(p) = 2 /\ p[1] = x /\ p[2] = y
      BY <2>1, <2>2
    <2>4. \A i \in 1..Len(p) : p[i] = q[i]
      BY <2>1, <2>3
    <2>5. p = q
      BY <2>1, <2>2, <2>3, <2>4, SeqEqual
    <2> QED BY Zenon, <2>5 DEF p, q, a, b
  <1>3. <<x, y>> \o <<>> = <<x, y>> /\ <<>> \o <<x>> = <<x>> /\ <<x>> \o <<>> = <<x>>
    BY <1>1, ConcatEmptySeq
  <1> QED BY Zenon, <1>2, <1>3

\* The closing is no text.
LEMMA ClosingTyped ==
  ASSUME NEW r, NEW e \in {"stop", "length"}, NEW n \in Nat
  PROVE  ClosingOf(r, e, n) \in Seq(OtherEntry)
  <1> DEFINE x == [is |-> "finish", reason |-> e]
             y == [is |-> "usage", tokens |-> n]
             z == [is |-> "[DONE]"]
  <1>1. x \in OtherEntry /\ y \in OtherEntry /\ z \in OtherEntry
    BY Zenon, EntriesAre
  <1> HIDE DEF x, y, z
  <1> DEFINE u == IF r.usage \/ ~r.stream THEN <<y>> ELSE <<>>
             d == IF r.stream THEN <<z>> ELSE <<>>
  <1>2. u \in Seq(OtherEntry) /\ d \in Seq(OtherEntry)
    BY <1>1
  <1> HIDE DEF u, d
  <1>3. <<x>> \o u \o d \in Seq(OtherEntry)
    BY <1>1, <1>2
  <1> QED BY Zenon, <1>3 DEF ClosingOf, DoneOf, u, d, x, y, z

\* sse closes the stream with the reason, the tokens if asked for, and [DONE].
LEMMA StreamCloses ==
  ASSUME NEW r, r.stream, NEW a \in Seq(Entry), NEW s, OthersOf(a) = RoleOf(r),
         TextOf(a) = EchoOf(r) \o s, NEW e \in {"stop", "length"}, NEW n \in Nat
  PROVE  IsWhole(r, a \o ClosingOf(r, e, n), s, e, n)
  <1> DEFINE b == ClosingOf(r, e, n)
  <1>1. b \in Seq(OtherEntry)
    BY Zenon, ClosingTyped
  <1> HIDE DEF b
  <1>2. ClosedBy(a, b)
    BY Zenon, <1>1, ClosingAdds
  <1>3. IsSuffix(b, a \o b)
    <2>1. b \in Seq(Entry)
      BY <1>1 DEF Entry
    <2> QED BY Zenon, <2>1, EndsBoth
  <1>4. EchoOf(r) = IF r.echo THEN Echo.text ELSE <<>>
    BY Zenon DEF EchoOf
  <1> QED BY Zenon, <1>2, <1>3, <1>4 DEF b, ClosedBy, IsWhole, FullText

\* collect puts the prompt in front, if it is asked for, and the reason and the tokens
\* behind.
LEMMA BodyCloses ==
  ASSUME NEW r, ~r.stream, NEW a \in Seq(Entry), NEW s, OthersOf(a) = RoleOf(r),
         s \in Seq(Letter),
         TextOf(a) = EchoOf(r) \o s, NEW e \in {"stop", "length"}, NEW n \in Nat
  PROVE  IsWhole(r, (IF r.echo THEN <<Echo>> ELSE <<>>) \o a \o ClosingOf(r, e, n), s, e, n)
  <1> DEFINE b == ClosingOf(r, e, n)
             p == IF r.echo THEN <<Echo>> ELSE <<>>
             c == p \o a
  <1>1. b \in Seq(OtherEntry)
    BY Zenon, ClosingTyped
  <1>2. Echo \in Entry /\ Echo.text \in Seq(Letter)
    BY EntriesAre DEF Entry
  <1>3. p \in Seq(Entry)
    BY <1>2
  <1>4. TextOf(p) = (IF r.echo THEN Echo.text ELSE <<>>) /\ OthersOf(p) = <<>>
    BY Zenon, OneEntry, EntriesAre
  <1>5. TextOf(a) = s /\ RoleOf(r) = <<>>
    <2>1. EchoOf(r) = <<>> /\ RoleOf(r) = <<>>
      BY Zenon DEF EchoOf, RoleOf
    <2>2. <<>> \o s = s
      OBVIOUS
    <2> QED BY Zenon, <2>1, <2>2
  <1> HIDE DEF b, p
  <1>6. TakenApart(p, a)
    BY Zenon, <1>3, AnswerInParts
  <1>7. c \in Seq(Entry)
    BY <1>3
  <1>8. TextOf(c) = FullText(r, s) /\ OthersOf(c) = <<>>
    <2>1. OthersOf(c) = <<>> \o <<>> /\ TextOf(c) = FullText(r, s)
      BY Zenon, <1>4, <1>5, <1>6 DEF TakenApart, FullText
    <2> QED BY <2>1
  <1> HIDE DEF c
  <1>9. ClosedBy(c, b)
    BY Zenon, <1>1, <1>7, ClosingAdds
  <1>10. IsSuffix(b, c \o b)
    <2>1. b \in Seq(Entry)
      BY <1>1 DEF Entry
    <2> QED BY Zenon, <1>7, <2>1, EndsBoth
  <1> QED BY Zenon, <1>5, <1>8, <1>9, <1>10 DEF b, c, p, ClosedBy, IsWhole, FullText

\* A failure takes the place of the closing, or of the whole body.
LEMMA FailureCloses ==
  ASSUME NEW r, NEW a \in Seq(Entry), OthersOf(a) = RoleOf(r),
         NEW b, b = IF r.stream THEN a \o <<Failure, [is |-> "[DONE]"]>> ELSE <<Failure>>
  PROVE  IsFailed(r, b)
  <1>1. Failure \in OtherEntry /\ [is |-> "[DONE]"] \in OtherEntry
    BY Zenon, EntriesAre
  <1>2. CASE r.stream
    <2> DEFINE x == Failure
               y == [is |-> "[DONE]"]
    <2>1. <<x, y>> \in Seq(OtherEntry)
      <3> HIDE DEF y
      <3> QED BY <1>1 DEF y
    <2>2. ClosedBy(a, <<x, y>>)
      BY Zenon, <2>1, ClosingAdds
    <2>3. OthersOf(b) = OthersOf(a) \o <<x, y>>
      BY Zenon, <1>2, <2>2 DEF ClosedBy
    <2>4. OthersOf(a) \in Seq(Entry)
      BY Zenon, AnswerInParts
    <2>5. OthersOf(a) \o <<x, y>> = OthersOf(a) \o <<x>> \o <<y>>
      <3>1. <<x>> \in Seq(Entry) /\ <<y>> \in Seq(Entry)
        <4> HIDE DEF x, y
        <4> QED BY <1>1 DEF x, y, Entry
      <3> HIDE DEF x, y
      <3>2. Associate(OthersOf(a), <<x>>, <<y>>)
        BY Zenon, <2>4, <3>1, Associates
      <3>3. <<x>> \o <<y>> = <<x, y>>
        BY Zenon, TwoEntries
      <3> QED BY Zenon, <3>2, <3>3 DEF Associate
    <2> QED BY Zenon, <1>2, <2>3, <2>5 DEF IsFailed, DoneOf
  <1>3. CASE ~r.stream
    <2>1. OthersOf(b) = <<Failure>>
      BY Zenon, <1>1, <1>3, OneEntry
    <2>2. RoleOf(r) = <<>> /\ DoneOf(r) = <<>>
      BY Zenon, <1>3 DEF RoleOf, DoneOf
    <2> QED BY Zenon, <2>1, <2>2, TwoEntries DEF IsFailed
  <1> QED BY <1>2, <1>3

\* The property, by its parts.
LEMMA PropertyIs ==
  AnswerIsTheReply <=>
    /\ request.at = "running" /\ request.stream =>
         IsPrefix(TextOf(answer), FullText(request, said))
    /\ request.at = "answered" /\ ended # "failed" => IsWhole(request, answer, said, ended, taken)
    /\ request.at = "answered" /\ ended = "failed" => IsFailed(request, answer)
  BY Zenon DEF AnswerIsTheReply, FullText, IsWhole, IsFailed, RoleOf, ClosingOf, DoneOf

\* The body that collect makes of the texts a.
BodyOf(r, a, e, n) == (IF r.echo THEN <<Echo>> ELSE <<>>) \o a \o ClosingOf(r, e, n)

\* What sse and collect make of the end of the channel.
LEMMA EndOutputs ==
  ASSUME NEW r, NEW a, NEW e \in {"stop", "length"}, NEW n
  PROVE  /\ r.stream => Streamed(r, [is |-> e, tokens |-> n]) = ClosingOf(r, e, n)
         /\ ~r.stream => Collected(r, a, [is |-> e, tokens |-> n]) = BodyOf(r, a, e, n)
         /\ Streamed(r, [is |-> "failed"]) = <<Failure, [is |-> "[DONE]"]>>
         /\ Collected(r, a, [is |-> "failed"]) = <<Failure>>
  <1> DEFINE o == [is |-> e, tokens |-> n]
             f == [is |-> "failed"]
  <1>1. o.is = e /\ o.tokens = n /\ o.is # "text" /\ o.is # "failed" /\ f.is = "failed"
        /\ "failed" # "text"
    OBVIOUS
  <1> HIDE DEF o, f
  <1>2. r.stream => Streamed(r, o) = ClosingOf(r, e, n)
    BY <1>1 DEF Streamed, Closing, ClosingOf, DoneOf
  <1>3. ASSUME ~r.stream
        PROVE  ClosingOf(r, e, n) = <<[is |-> "finish", reason |-> e], [is |-> "usage", tokens |-> n]>>
    BY Zenon, <1>3, TwoEntries DEF ClosingOf, DoneOf
  <1>4. Collected(r, a, o) = (IF r.echo THEN <<Echo>> ELSE <<>>) \o a
                \o <<[is |-> "finish", reason |-> e], [is |-> "usage", tokens |-> n]>>
    BY <1>1 DEF Collected
  <1>5. Streamed(r, f) = <<Failure, [is |-> "[DONE]"]>> /\ Collected(r, a, f) = <<Failure>>
    BY <1>1 DEF Streamed, Collected
  <1> QED BY Zenon, <1>2, <1>3, <1>4, <1>5 DEF o, f, BodyOf

\* The handler takes the end out of the channel: the answer is whole.
LEMMA TakesEnd ==
  ASSUME ReplyInv, ChannelInv, RunningInv, request.at = "running", Underway(<<>>), Deliver
  PROVE  /\ request' = [request EXCEPT !.at = "answered"] /\ UNCHANGED <<said, ended, taken>>
         /\ AnswerIsTheReply'
  <1> DEFINE r == request
             f == FinalOut(ended, taken)
             o == Head(outs)
  <1>1. outs # <<>> /\ outs = <<>> \o f
    BY Zenon DEF Deliver, Underway
  <1>2. outs = f
    <2>1. f \in Seq(OtherEntry)
      BY FinalTyped DEF ChannelInv
    <2> HIDE DEF f
    <2> QED BY <1>1, <2>1
  <1>3. /\ answer' = IF r.stream THEN answer \o Streamed(r, o) ELSE Collected(r, answer, o)
        /\ o.is # "text" => request' = [r EXCEPT !.at = "answered"]
        /\ UNCHANGED <<said, ended>>
    BY Zenon DEF Deliver
  <1>4. taken' = taken
    BY Zenon DEF Deliver
  <1>5. answer \in Seq(Entry) /\ OthersOf(answer) = RoleOf(r) /\ taken \in Nat /\ said \in Seq(Letter)
    BY DEF RunningInv, ChannelInv, ReplyInv, Types, Letter
  <1>6. TextOf(answer) = EchoOf(r) \o said
    <2>1. TextOf(answer) \o <<>> = EchoOf(r) \o said
      BY Zenon, OneEntry DEF Underway
    <2>2. TextOf(answer) \in Seq(Letter)
      BY Zenon, <1>5, AnswerInParts
    <2>3. TextOf(answer) \o <<>> = TextOf(answer)
      BY <2>2
    <2> QED BY Zenon, <2>1, <2>3
  <1>7. r \in RequestType /\ r.at = "running"
    BY DEF ReplyInv, Types
  <1>8. ASSUME ended \in {"stop", "length"}
        PROVE  /\ request' = [r EXCEPT !.at = "answered"]
               /\ IsWhole(r, answer', said, ended, taken)
    <2>1. o = [is |-> ended, tokens |-> taken]
      BY <1>2, <1>8 DEF FinalOut
    <2>2. o.is # "text"
      BY <1>8, <2>1
    <2> HIDE DEF o
    <2>3. CASE r.stream
      <3>1. answer' = answer \o ClosingOf(r, ended, taken)
        BY Zenon, <1>3, <1>8, <2>1, <2>3, EndOutputs
      <3> QED BY Zenon, <1>3, <1>5, <1>6, <1>8, <2>2, <2>3, <3>1, StreamCloses
    <2>4. CASE ~r.stream
      <3>1. Collected(r, answer, [is |-> ended, tokens |-> taken]) = BodyOf(r, answer, ended, taken)
        <4> HIDE DEF r
        <4> QED BY Zenon, <1>8, <2>4, EndOutputs
      <3>2. answer' = BodyOf(r, answer, ended, taken)
        BY Zenon, <1>3, <2>1, <2>4, <3>1
      <3>3. IsWhole(r, (IF r.echo THEN <<Echo>> ELSE <<>>) \o answer \o ClosingOf(r, ended, taken),
                    said, ended, taken)
        <4> HIDE DEF r
        <4> QED BY Zenon, <1>5, <1>6, <1>8, <2>4, BodyCloses
      <3> QED BY Zenon, <1>3, <2>2, <3>2, <3>3 DEF BodyOf
    <2> QED BY Zenon, <2>3, <2>4
  <1>9. ASSUME ended = "failed"
        PROVE  /\ request' = [r EXCEPT !.at = "answered"]
               /\ IsFailed(r, answer')
    <2>1. o = [is |-> "failed"]
      BY <1>2, <1>9 DEF FinalOut
    <2>2. o.is # "text"
      BY <2>1
    <2> HIDE DEF o
    <2>3. answer' = IF r.stream THEN answer \o <<Failure, [is |-> "[DONE]"]>> ELSE <<Failure>>
      <3>1. "stop" \in {"stop", "length"}
        OBVIOUS
      <3> QED BY Zenon, <1>3, <2>1, <3>1, EndOutputs
    <2>4. IsFailed(r, answer')
      BY Zenon, <1>5, <2>3, FailureCloses
    <2> QED BY Zenon, <1>3, <2>2, <2>4
  <1>10. ended \in {"stop", "length", "failed"}
    BY Zenon, <1>1, <1>2 DEF FinalOut
  <1>11. request' = [r EXCEPT !.at = "answered"]
    BY <1>8, <1>9, <1>10
  <1> DEFINE q == [r EXCEPT !.at = "answered"]
  <1>12. /\ q.at = "answered" /\ q.stream = r.stream /\ q.echo = r.echo
         /\ q.endpoint = r.endpoint /\ q.usage = r.usage
    BY <1>7 DEF RequestType
  <1> HIDE DEF q
  <1>13. ended # "failed" => IsWhole(q, answer', said, ended, taken)
    <2>1. ClosingOf(q, ended, taken) = ClosingOf(r, ended, taken)
      BY Zenon, <1>12 DEF ClosingOf, DoneOf
    <2>2. RoleOf(q) = RoleOf(r) /\ FullText(q, said) = FullText(r, said)
      BY Zenon, <1>12 DEF RoleOf, FullText
    <2>3. ended # "failed" => IsWhole(r, answer', said, ended, taken)
      BY <1>8, <1>10
    <2> QED BY Zenon, <2>1, <2>2, <2>3 DEF IsWhole
  <1>14. ended = "failed" => IsFailed(q, answer')
    <2>1. RoleOf(q) = RoleOf(r) /\ DoneOf(q) = DoneOf(r)
      BY Zenon, <1>12 DEF RoleOf, DoneOf
    <2> QED BY Zenon, <1>9, <2>1 DEF IsFailed
  <1>15. AnswerIsTheReply'
    <2>1. request' = q
      BY Zenon, <1>11 DEF q
    <2>2. request'.at = "answered" /\ request'.at # "running"
      BY <1>12, <2>1
    <2>3. /\ ended' # "failed" => IsWhole(request', answer', said', ended', taken')
          /\ ended' = "failed" => IsFailed(request', answer')
      BY Zenon, <1>3, <1>4, <1>13, <1>14, <2>1
    <2> QED BY Zenon, <2>2, <2>3
             DEF AnswerIsTheReply, FullText, IsWhole, IsFailed, RoleOf, ClosingOf, DoneOf
  <1> QED BY Zenon, <1>3, <1>4, <1>11, <1>15

\* While nothing is answered the property asks for a beginning of the text only.
LEMMA NotYetAnswered ==
  ReplyInv /\ ChannelInv /\ RunningInv /\ request.at # "answered" => AnswerIsTheReply
  <1> SUFFICES ASSUME ReplyInv, ChannelInv, RunningInv, request.at # "answered"
               PROVE  AnswerIsTheReply
    OBVIOUS
  <1>1. ASSUME request.at = "running", request.stream
        PROVE  IsPrefix(TextOf(answer), FullText(request, said))
    <2>1. request \in RequestType /\ said \in Seq(Chr)
      BY <1>1 DEF ReplyInv, Types
    <2> QED BY Zenon, <1>1, <2>1, RunningReads DEF FullText
  <1> QED BY Zenon, <1>1, PropertyIs

\* At first nothing is answered.
LEMMA AnswerInit == ReplyInit => ChannelInv /\ RunningInv
  BY DEF ReplyInit, ChannelInv, RunningInv

\* chat, completions
LEMMA AcceptAnswers ==
  ASSUME ReplyInv, ChannelInv, Accept
  PROVE  ChannelInv' /\ RunningInv' /\ request'.at # "answered"
  <1>1. /\ request.at = "none" /\ outs = <<>> /\ outs' = <<>> /\ said' = <<>> /\ ended' = "no"
        /\ taken' = taken /\ taken \in Nat
    BY DEF Accept, ReplyInv, FreshInv, ChannelInv
  <1>2. PICK r \in Requests :
          \/ request' = [r EXCEPT !.at = "refused"]
          \/ request' = [r EXCEPT !.at = "running"] /\ answer' = IF r.stream THEN Opening(r) ELSE <<>>
    BY Zenon DEF Accept
  <1>3. r.endpoint = "chat" => ~r.echo
    BY DEF Requests
  <1>4. /\ request'.at \in {"refused", "running"} /\ request'.echo = r.echo
        /\ request'.endpoint = r.endpoint /\ request'.stream = r.stream
        /\ request'.at = "running" => answer' = IF r.stream THEN Opening(r) ELSE <<>>
    <2> DEFINE a == [r EXCEPT !.at = "refused"]
               b == [r EXCEPT !.at = "running"]
    <2>1. /\ a.at = "refused" /\ a.echo = r.echo /\ a.endpoint = r.endpoint /\ a.stream = r.stream
          /\ b.at = "running" /\ b.echo = r.echo /\ b.endpoint = r.endpoint /\ b.stream = r.stream
      BY DEF Requests
    <2>2. "refused" # "running"
      OBVIOUS
    <2> HIDE DEF a, b
    <2> QED BY Zenon, <1>2, <2>1, <2>2 DEF a, b
  <1>5. ChannelInv'
    BY <1>1, <1>3, <1>4 DEF ChannelInv
  <1>6. ASSUME request'.at = "running"
        PROVE  /\ answer' \in Seq(Entry) /\ OthersOf(answer') = RoleOf(request')
               /\ TextOf(answer') = EchoOf(request')
    <2> DEFINE a == IF r.stream THEN Opening(r) ELSE <<>>
               role == [is |-> "role"]
    <2>1. RoleOf(request') = RoleOf(r) /\ EchoOf(request') = EchoOf(r) /\ answer' = a
      BY Zenon, <1>4, <1>6 DEF RoleOf, EchoOf
    <2>2. a = <<>> \/ a = <<role>> \/ a = <<Echo>>
      BY Zenon DEF Opening
    <2>3. role \in OtherEntry /\ Echo \in TextEntry
      BY Zenon, EntriesAre
    <2>4. <<>> \in Seq(Entry) /\ <<role>> \in Seq(Entry) /\ <<Echo>> \in Seq(Entry)
      <3> HIDE DEF role
      <3> QED BY <2>3 DEF Entry
    <2>5. /\ TextOf(<<>>) = <<>> /\ OthersOf(<<>>) = <<>>
          /\ TextOf(<<role>>) = <<>> /\ OthersOf(<<role>>) = <<role>>
          /\ TextOf(<<Echo>>) = Echo.text /\ OthersOf(<<Echo>>) = <<>>
      BY Zenon, <2>3, OneEntry
    <2>6. OthersOf(a) = RoleOf(r) /\ TextOf(a) = EchoOf(r)
      BY Zenon, <1>3, <2>5 DEF Opening, RoleOf, EchoOf
    <2> QED BY Zenon, <2>1, <2>2, <2>4, <2>6
  <1>7. ASSUME request'.at = "running"
        PROVE  Underway(<<>>)'
    <2>1. TextOf(answer') \o TextOf(<<>>) = EchoOf(request') \o <<>>
      BY Zenon, <1>6, <1>7, OneEntry
    <2>2. <<>> \in Seq(TextEntry) /\ <<>> \o <<>> = <<>>
      OBVIOUS
    <2>3. outs' = <<>> \o FinalOut(ended', taken')
      <3>1. ended' \notin {"stop", "length"} /\ ended' # "failed"
        BY <1>1
      <3> QED BY Zenon, <1>1, <2>2, <3>1 DEF FinalOut
    <2>4. <<>>' = <<>>
      OBVIOUS
    <2> QED BY Zenon, <1>1, <2>1, <2>2, <2>3 DEF Underway
  <1>8. RunningInv'
    <2>1. ended' # "gone" /\ <<>> \in Seq(TextEntry)
      BY <1>1
    <2> QED BY Zenon, <1>6, <1>7, <2>1 DEF RunningInv
  <1>9. request'.at # "answered"
    BY <1>4
  <1> QED BY Zenon, <1>5, <1>8, <1>9

\* What the pump does reaches a client that listens as one more text, or none, and the
\* end.
LEMMA PumpAnswers ==
  ASSUME ReplyInv, ChannelInv, RunningInv, TakeToken \/ TakeDone \/ TakeFailure
  PROVE  ChannelInv' /\ RunningInv' /\ request' = request /\ request.at \in {"running", "left"}
  <1>1. /\ request.at \in {"running", "left"} /\ ended = "no"
        /\ request' = request /\ answer' = answer
    BY DEF TakeToken, TakeDone, TakeFailure, Pumping
  <1>2. taken' \in Nat
    <2>1. TakeToken => taken' = taken + 1
      BY Zenon DEF TakeToken
    <2>2. TakeDone \/ TakeFailure => taken' = taken
      BY Zenon DEF TakeDone, TakeFailure
    <2>3. taken \in Nat
      BY Zenon DEF ChannelInv
    <2> QED BY <2>1, <2>2, <2>3
  <1>3. ChannelInv'
    BY <1>1, <1>2 DEF ChannelInv
  <1>4. CASE request.at = "left"
    <2>1. RunningInv'
      BY <1>1, <1>4 DEF RunningInv
    <2> QED BY <1>1, <1>3, <2>1
  <1>5. CASE request.at = "running"
    <2>1. Types /\ MatchInv /\ said \in Seq(Chr) /\ request.at # "none" /\ request.at # "left"
      BY <1>5 DEF ReplyInv, Types
    <2>2. \E t \in Seq(Chr) :
            /\ said' = said \o t /\ ended' # "gone"
            /\ outs' = (outs \o Emitted(t)) \o FinalOut(ended', taken')
      <3>1. CASE TakeToken
        <4>1. PICK piece \in Pieces :
                LET all  == pending \o piece
                    utf8 == Utf8Push(all)
                    stop == StopPush(buf \o utf8.text)
                IN  /\ taken' = taken + 1
                    /\ said' = said \o stop.text
                    /\ ended' = IF stop.hit THEN "stop" ELSE "no"
                    /\ outs' = outs \o Emitted(stop.text)
                         \o (IF stop.hit THEN <<[is |-> "stop", tokens |-> taken + 1]>> ELSE <<>>)
          BY Zenon, <2>1, <3>1 DEF TakeToken
        <4> DEFINE all == pending \o piece
                   z == Utf8Push(all).text
                   stop == StopPush(buf \o z)
        <4>2. z \in Seq(Chr)
          <5>1. piece \in Bytes /\ pending \in Bytes /\ all \in Bytes
            BY PiecesTyped, PendingTyped, BytesConcat DEF ReplyInv
          <5> HIDE DEF all
          <5> QED BY Zenon, <5>1, Utf8PushIs
        <4> HIDE DEF z
        <4>3. stop.text \in Seq(Chr)
          BY Zenon, <1>1, <2>1, <4>2, Matched
        <4>4. /\ taken' = taken + 1 /\ said' = said \o stop.text
              /\ ended' = IF stop.hit THEN "stop" ELSE "no"
              /\ outs' = outs \o Emitted(stop.text)
                         \o (IF stop.hit THEN <<[is |-> "stop", tokens |-> taken + 1]>> ELSE <<>>)
          BY Zenon, <4>1 DEF z
        <4> HIDE DEF stop
        <4>5. ended' # "gone"
          BY <4>4
        <4>6. FinalOut(ended', taken')
              = IF stop.hit THEN <<[is |-> "stop", tokens |-> taken + 1]>> ELSE <<>>
          <5>1. "no" \notin {"stop", "length"} /\ "no" # "failed"
            OBVIOUS
          <5> QED BY Zenon, <4>4, <5>1 DEF FinalOut
        <4> QED BY Zenon, <4>3, <4>4, <4>5, <4>6
      <3>2. CASE TakeDone
        <4>1. PICK finish \in {"stop", "length"} :
                LET utf8   == Lossy(pending)
                    stop   == StopPush(buf \o utf8)
                    reason == IF stop.hit THEN "stop" ELSE finish
                IN  /\ said' = said \o Flush(stop)
                    /\ ended' = reason
                    /\ outs' = outs \o Emitted(Flush(stop)) \o <<[is |-> reason, tokens |-> taken]>>
          BY Zenon, <2>1, <3>2 DEF TakeDone
        <4> DEFINE z == Lossy(pending)
                   stop == StopPush(buf \o z)
                   reason == IF stop.hit THEN "stop" ELSE finish
        <4>2. z \in Seq(Chr)
          BY PendingTyped, LossyIs DEF ReplyInv
        <4> HIDE DEF z
        <4>3. stop.text \in Seq(Chr) /\ stop.rest \in Seq(Chr)
          BY Zenon, <1>1, <2>1, <4>2, Matched
        <4>4. /\ said' = said \o Flush(stop) /\ ended' = reason
              /\ outs' = outs \o Emitted(Flush(stop)) \o <<[is |-> reason, tokens |-> taken]>>
          BY Zenon, <4>1 DEF z
        <4> HIDE DEF stop
        <4>5. Flush(stop) \in Seq(Chr)
          BY <4>3 DEF Flush
        <4>6. reason \in {"stop", "length"} /\ reason # "gone"
          OBVIOUS
        <4> HIDE DEF reason
        <4>7. FinalOut(ended', taken') = <<[is |-> reason, tokens |-> taken]>>
          <5>1. taken' = taken
            BY Zenon, <3>2 DEF TakeDone
          <5> QED BY Zenon, <4>4, <4>6, <5>1 DEF FinalOut
        <4> QED BY Zenon, <4>4, <4>5, <4>6, <4>7
      <3>3. CASE TakeFailure
        <4>1. ended' = "failed" /\ outs' = Append(outs, [is |-> "failed"]) /\ said' = said
          BY Zenon, <2>1, <3>3 DEF TakeFailure
        <4>2. FinalOut(ended', taken') = <<[is |-> "failed"]>> /\ ended' # "gone"
          <5>1. "failed" \notin {"stop", "length"} /\ "failed" # "gone"
            OBVIOUS
          <5> QED BY Zenon, <4>1, <5>1 DEF FinalOut
        <4>3. outs \in Seq(Entry)
          <5>1. PICK ts \in Seq(TextEntry) : outs = ts \o FinalOut(ended, taken)
            BY <1>5 DEF RunningInv, Underway
          <5>2. FinalOut(ended, taken) \in Seq(Entry)
            <6>1. FinalOut(ended, taken) \in Seq(OtherEntry)
              BY FinalTyped DEF ChannelInv
            <6> QED BY <6>1 DEF Entry
          <5>3. ts \in Seq(Entry)
            BY DEF Entry
          <5> QED BY <5>1, <5>2, <5>3
        <4>4. [is |-> "failed"] \in Entry
          BY Zenon, EntriesAre DEF Entry
        <4>5. Append(outs, [is |-> "failed"]) = (outs \o Emitted(<<>>)) \o <<[is |-> "failed"]>>
          <5> DEFINE e == [is |-> "failed"]
          <5> HIDE DEF e
          <5>1. Emitted(<<>>) = <<>>
            BY Zenon DEF Emitted
          <5>2. outs \o <<>> = outs
            BY <4>3
          <5>3. Append(outs, e) = outs \o <<e>>
            BY <4>3, <4>4 DEF e
          <5> QED BY Zenon, <5>1, <5>2, <5>3 DEF e
        <4>6. said' = said \o <<>> /\ <<>> \in Seq(Chr)
          BY <2>1, <4>1
        <4> QED BY Zenon, <4>1, <4>2, <4>5, <4>6
      <3> QED BY Zenon, <3>1, <3>2, <3>3
    <2>3. PICK t \in Seq(Chr) :
            /\ said' = said \o t /\ ended' # "gone"
            /\ outs' = (outs \o Emitted(t)) \o FinalOut(ended', taken')
      BY Zenon, <2>2
    <2>4. RunningInv'
      BY Zenon, <1>1, <1>5, <2>1, <2>3, ProducerKeeps
    <2> QED BY <1>1, <1>3, <2>4
  <1> QED BY <1>1, <1>4, <1>5

\* sse in its body, or collect
LEMMA DeliverAnswers ==
  ASSUME ReplyInv, ChannelInv, RunningInv, Deliver
  PROVE  /\ ChannelInv' /\ RunningInv'
         /\ request'.at = "running" \/ AnswerIsTheReply'
  <1>1. request.at = "running" /\ request \in RequestType
    BY DEF Deliver, ReplyInv, Types
  <1>2. PICK ts \in Seq(TextEntry) : Underway(ts)
    BY Zenon, <1>1 DEF RunningInv
  <1>3. taken' = taken
    BY Zenon DEF Deliver
  <1>4. CASE ts # <<>>
    <2>1. RunningInv' /\ request' = request
      BY Zenon, <1>1, <1>2, <1>4, TakesText
    <2>2. ChannelInv'
      BY <1>1, <1>3, <2>1 DEF ChannelInv
    <2> QED BY <1>1, <2>1, <2>2
  <1>5. CASE ts = <<>>
    <2>1. Underway(<<>>)
      BY Zenon, <1>2, <1>5
    <2>2. request' = [request EXCEPT !.at = "answered"] /\ AnswerIsTheReply'
      BY Zenon, <1>1, <2>1, TakesEnd
    <2>3. request'.at = "answered" /\ request'.endpoint = request.endpoint /\ request'.echo = request.echo
      BY <1>1, <2>2 DEF RequestType
    <2>4. ChannelInv'
      BY <1>1, <1>3, <2>3 DEF ChannelInv
    <2>5. RunningInv'
      BY <2>3 DEF RunningInv
    <2> QED BY <2>2, <2>4, <2>5
  <1> QED BY <1>4, <1>5

\* Every step keeps the invariant.
LEMMA AnswerKept == AnswerInv /\ [ReplyNext]_replyVars => AnswerInv'
  <1> SUFFICES ASSUME AnswerInv, [ReplyNext]_replyVars
               PROVE  AnswerInv'
    OBVIOUS
  <1>1. ReplyInv /\ ChannelInv /\ RunningInv /\ AnswerIsTheReply
    BY DEF AnswerInv
  <1>2. ReplyInv'
    BY <1>1, NextKeeps
  <1>3. ASSUME ChannelInv', RunningInv', request'.at # "answered"
        PROVE  AnswerInv'
    <2>1. AnswerIsTheReply'
      <3>1. (request.at # "answered")'
        BY <1>3
      <3> QED BY <1>2, <1>3, <3>1, NotYetAnswered, PTL
    <2> QED BY <1>2, <1>3, <2>1 DEF AnswerInv
  <1>4. CASE Accept
    BY <1>1, <1>3, <1>4, AcceptAnswers
  <1>5. CASE TakeToken \/ TakeDone \/ TakeFailure
    <2>1. ChannelInv' /\ RunningInv' /\ request' = request /\ request.at \in {"running", "left"}
      BY <1>1, <1>5, PumpAnswers
    <2> QED BY <1>3, <2>1
  <1>6. CASE Deliver
    <2>1. /\ ChannelInv' /\ RunningInv'
          /\ request'.at = "running" \/ AnswerIsTheReply'
      BY <1>1, <1>6, DeliverAnswers
    <2> QED BY <1>2, <1>3, <2>1 DEF AnswerInv
  <1>7. CASE ClientLeaves
    <2>1. request.at = "running" /\ request' = [request EXCEPT !.at = "left"] /\ taken' = taken
      BY <1>7 DEF ClientLeaves
    <2>2. request'.at = "left" /\ request'.endpoint = request.endpoint /\ request'.echo = request.echo
      BY <1>1, <2>1 DEF ReplyInv, Types, RequestType
    <2>3. ChannelInv' /\ RunningInv'
      BY <1>1, <2>1, <2>2 DEF ChannelInv, RunningInv
    <2> QED BY <1>3, <2>2, <2>3
  <1>8. CASE UNCHANGED replyVars
    <2>1. UNCHANGED <<request, said, taken, ended, outs, answer>>
      BY <1>8 DEF replyVars
    <2>2. ChannelInv'
      BY <1>1, <2>1 DEF ChannelInv
    <2>3. RunningInv'
      BY Zenon, <1>1, <2>1 DEF RunningInv, Underway
    <2>4. AnswerIsTheReply'
      BY Zenon, <1>1, <2>1 DEF AnswerIsTheReply
    <2> QED BY <1>2, <2>2, <2>3, <2>4 DEF AnswerInv
  <1> QED BY <1>4, <1>5, <1>6, <1>7, <1>8 DEF ReplyNext

\* The client gets the opening, then what the pump sent and nothing else, then the reason
\* why it ended, the tokens if it asked for them, and [DONE] if it is a stream; a failure
\* is reported in place of the end (sse, collect, chat and completions).
THEOREM AnswerAlwaysIsTheReply == ReplySpec => []AnswerIsTheReply
  <1>1. ReplyInit => AnswerInv
    <2> SUFFICES ASSUME ReplyInit
                 PROVE  AnswerInv
      OBVIOUS
    <2>1. ReplyInv /\ ChannelInv /\ RunningInv
      BY InitInv, AnswerInit
    <2>2. request.at # "answered"
      BY DEF ReplyInit
    <2>3. AnswerIsTheReply
      BY <2>1, <2>2, NotYetAnswered
    <2> QED BY <2>1, <2>3 DEF AnswerInv
  <1>2. AnswerInv => AnswerIsTheReply
    BY DEF AnswerInv
  <1> QED BY <1>1, <1>2, AnswerKept, PTL DEF ReplySpec

-----------------------------------------------------------------------------
(***************************************************************************)
(* From the text to the tokens.                                            *)
(***************************************************************************)

\* What is joined of what is joined: f of the parts that g makes.
JoinedTwice(f, g, h, a) == Joined(f, Joined(g, a)) = Joined(h, a)

\* It is the same as joining what h makes, if that is f of what g makes.
LEMMA JoinedOfJoined ==
  ASSUME NEW D, NEW E, NEW T, NEW f \in [E -> Seq(T)], NEW g \in [D -> Seq(E)],
         NEW h \in [D -> Seq(T)], \A d \in D : h[d] = Joined(f, g[d])
  PROVE  \A a \in Seq(D) : JoinedTwice(f, g, h, a)
  <1> DEFINE Bad == {n \in Nat : \E a \in Seq(D) : Len(a) = n /\ ~JoinedTwice(f, g, h, a)}
  <1>1. ASSUME Bad # {} PROVE FALSE
    <2>1. Bad \subseteq Nat
      OBVIOUS
    <2>2. PICK n \in Bad : \A k \in Bad : n <= k
      BY Zenon, <1>1, <2>1, LeastNumber
    <2>3. PICK a \in Seq(D) : Len(a) = n /\ ~JoinedTwice(f, g, h, a)
      BY <2>2
    <2>4. CASE a = <<>>
      <3>1. Each(g, <<>>) = <<>> /\ Each(f, <<>>) = <<>> /\ Each(h, <<>>) = <<>>
        BY DEF Each
      <3>2. <<>> \in Seq(T)
        BY EmptySeq
      <3>3. FlattenSeq(<<>>) = <<>>
        BY Zenon, <3>2, FlattenFew
      <3> QED BY Zenon, <2>3, <2>4, <3>1, <3>3 DEF JoinedTwice, Joined
    <2>5. CASE a # <<>>
      <3>1. PICK c \in Seq(D), d \in D : a = Append(c, d)
        BY Zenon, <2>5, SequenceEmptyOrAppend
      <3>2. Len(c) \in Nat /\ ~(n <= Len(c)) /\ a = c \o <<d>> /\ <<d>> \in Seq(D)
        BY <2>3, <3>1
      <3>3. Joined(f, Joined(g, c)) = Joined(h, c)
        BY Zenon, <2>2, <3>2 DEF JoinedTwice
      <3>4. InParts(g, c, <<d>>) /\ Joined(g, c) \in Seq(E)
        BY Zenon, <3>2, JoinedInParts
      <3>5. Joined(g, <<d>>) = g[d] /\ Joined(h, <<d>>) = h[d] /\ g[d] \in Seq(E)
        <4>1. g[d] \in Seq(E)
          OBVIOUS
        <4>2. FewJoined(g, d)
          BY JoinedFew
        <4>3. FewJoined(h, d)
          BY JoinedFew
        <4> QED BY Zenon, <4>1, <4>2, <4>3 DEF FewJoined
      <3>6. InParts(f, Joined(g, c), g[d])
        BY Zenon, <3>4, <3>5, JoinedInParts
      <3>7. InParts(h, c, <<d>>)
        BY Zenon, <3>2, JoinedInParts
      <3>8. JoinedTwice(f, g, h, a)
        BY Zenon, <3>2, <3>3, <3>4, <3>5, <3>6, <3>7 DEF InParts, JoinedTwice
      <3> QED BY Zenon, <2>3, <3>8
    <2> QED BY <2>4, <2>5
  <1>2. ASSUME NEW a \in Seq(D)
        PROVE  JoinedTwice(f, g, h, a)
    <2>1. Len(a) \in Nat
      OBVIOUS
    <2> QED BY Zenon, <1>1, <2>1
  <1> QED BY Zenon, <1>2

EachTwice(f, n, h, a) == Each(f, Each(n, a)) = Each(h, a)

\* What f makes of each element of what n makes of each element.
LEMMA EachOfEach ==
  ASSUME NEW D, NEW E, NEW n \in [D -> E], NEW f, NEW h, NEW a \in Seq(D),
         \A d \in D : h[d] = f[n[d]]
  PROVE  EachTwice(f, n, h, a)
  <1>1. \A i \in DOMAIN a : a[i] \in D
    BY LenProperties, ElementOfSeq
  <1>2. DOMAIN Each(n, a) = DOMAIN a /\ \A i \in DOMAIN a : Each(n, a)[i] = n[a[i]]
    BY DEF Each
  <1>3. \A i \in DOMAIN a : f[Each(n, a)[i]] = h[a[i]]
    BY Zenon, <1>1, <1>2
  <1> QED BY Zenon, <1>2, <1>3 DEF Each, EachTwice

\* What is in a text, and tokens.
TextUnit == Char \cup Markers
Token == [str : Seq(TextUnit)] \cup [byte : STRING]

\* The tables that the text goes through: a unit's piece, a piece's tokens, a token's
\* bytes, a token's text as it is shown.
Shown == [c \in TextUnit |-> IF c = Underline THEN Space ELSE c]
TokenBytes == [t \in Token |-> IF "byte" \in DOMAIN t THEN <<t.byte>> ELSE Joined(Utf8, Each(Shown, t.str))]
IdsOf == [p \in Seq(TextUnit) |-> PieceIds(p)]
KeptOf == [c \in TextUnit |-> Kept(c)]
ByteToken == [b \in STRING |-> IF b \in ByteTokens THEN <<[byte |-> b]>> ELSE <<>>]
ByteKept == [b \in STRING |-> IF b \in ByteTokens THEN <<b>> ELSE <<>>]
PieceBytes == [p \in Seq(TextUnit) |-> Joined(TokenBytes, PieceIds(p))]

\* The units are different.
LEMMA UnitsAre ==
  /\ Utf8 \in [TextUnit -> Seq(STRING)]
  /\ Space \in Char /\ Underline \in Char /\ Space # Underline
  /\ Char \subseteq TextUnit /\ Markers \subseteq TextUnit /\ Char \cap Markers = {}
  /\ "none" \notin Markers /\ MarkersKnown \subseteq Markers
  <1>1. Char \cap Markers = {}
    BY PromptConstants DEF Char, Markers, RoleNames, Space, Underline, TurnOpen, TurnClose,
       Channel, ChannelEnd, Eos
  <1>2. "none" \notin Markers
    BY DEF Markers, TurnOpen, TurnClose, Channel, ChannelEnd, Eos
  <1> QED BY <1>1, <1>2, PromptConstants DEF TextUnit, Char, Space, Underline

\* A token is of one kind.
LEMMA TokensAre ==
  /\ \A p \in Seq(TextUnit) : [str |-> p] \in Token /\ "byte" \notin DOMAIN [str |-> p] /\ [str |-> p].str = p
  /\ \A b \in STRING : [byte |-> b] \in Token /\ "byte" \in DOMAIN [byte |-> b] /\ [byte |-> b].byte = b
  /\ \A t \in Token : IF "byte" \in DOMAIN t THEN t.byte \in STRING ELSE t.str \in Seq(TextUnit)
  <1>1. \A p : "byte" \notin DOMAIN [str |-> p] /\ [str |-> p].str = p
    OBVIOUS
  <1>2. \A b : "byte" \in DOMAIN [byte |-> b] /\ [byte |-> b].byte = b
    OBVIOUS
  <1>3. \A p \in Seq(TextUnit) : [str |-> p] \in Token
    BY DEF Token
  <1>4. \A b \in STRING : [byte |-> b] \in Token
    BY DEF Token
  <1>5. ASSUME NEW t \in Token
        PROVE  IF "byte" \in DOMAIN t THEN t.byte \in STRING ELSE t.str \in Seq(TextUnit)
    <2>1. CASE t \in [str : Seq(TextUnit)]
      BY <2>1
    <2>2. CASE t \in [byte : STRING]
      BY <2>2
    <2> QED BY Zenon, <2>1, <2>2 DEF Token
  <1> QED BY Zenon, <1>1, <1>2, <1>3, <1>4, <1>5

\* The tables give what they should.
LEMMA TablesTyped ==
  /\ Shown \in [TextUnit -> TextUnit]
  /\ TokenBytes \in [Token -> Seq(STRING)]
  /\ ByteToken \in [STRING -> Seq(Token)]
  /\ ByteKept \in [STRING -> Seq(STRING)]
  <1>1. Shown \in [TextUnit -> TextUnit]
    BY UnitsAre DEF Shown
  <1>2. \A s \in Seq(TextUnit) : Joined(Utf8, Each(Shown, s)) \in Seq(STRING)
    <2> SUFFICES ASSUME NEW s \in Seq(TextUnit)
                 PROVE  Joined(Utf8, Each(Shown, s)) \in Seq(STRING)
      OBVIOUS
    <2>1. Each(Shown, s) \in Seq(TextUnit)
      BY Zenon, <1>1, EachIs
    <2> QED BY Zenon, <2>1, UnitsAre, JoinedInParts
  <1>3. \A b \in STRING : <<b>> \in Seq(STRING) /\ <<[byte |-> b]>> \in Seq(Token)
    <2> SUFFICES ASSUME NEW b \in STRING
                 PROVE  <<b>> \in Seq(STRING) /\ <<[byte |-> b]>> \in Seq(Token)
      OBVIOUS
    <2> DEFINE t == [byte |-> b]
    <2>1. t \in Token
      BY Zenon, TokensAre
    <2> HIDE DEF t
    <2> QED BY <2>1 DEF t
  <1>4. TokenBytes \in [Token -> Seq(STRING)]
    <2>1. \A t \in Token : (IF "byte" \in DOMAIN t THEN <<t.byte>> ELSE Joined(Utf8, Each(Shown, t.str)))
                             \in Seq(STRING)
      BY Zenon, <1>2, <1>3, TokensAre
    <2> QED BY Zenon, <2>1 DEF TokenBytes
  <1>5. <<>> \in Seq(Token) /\ <<>> \in Seq(STRING)
    BY EmptySeq
  <1>6. ByteToken \in [STRING -> Seq(Token)]
    <2>1. \A b \in STRING : (IF b \in ByteTokens THEN <<[byte |-> b]>> ELSE <<>>) \in Seq(Token)
      BY Zenon, <1>3, <1>5
    <2> QED BY Zenon, <2>1 DEF ByteToken
  <1>7. ByteKept \in [STRING -> Seq(STRING)]
    <2>1. \A b \in STRING : (IF b \in ByteTokens THEN <<b>> ELSE <<>>) \in Seq(STRING)
      BY Zenon, <1>3, <1>5
    <2> QED BY Zenon, <2>1 DEF ByteKept
  <1> QED BY Zenon, <1>1, <1>4, <1>6, <1>7

\* BytesOf joins the bytes of the units.
LEMMA BytesOfIs ==
  ASSUME NEW s \in Seq(TextUnit)
  PROVE  BytesOf(s) = Joined(Utf8, s) /\ BytesOf(s) \in Seq(STRING)
  <1>1. BytesOf(s) = Joined(Utf8, s)
    BY Zenon DEF BytesOf, Joined, Each
  <1>2. Joined(Utf8, s) \in Seq(STRING)
    BY Zenon, UnitsAre, JoinedInParts
  <1> QED BY Zenon, <1>1, <1>2

\* The bytes of a piece that has no token of its own that have one.
LEMMA WithTokenIs ==
  ASSUME NEW bs \in Seq(STRING)
  PROVE  WithToken(bs) = Joined(ByteKept, bs) /\ WithToken(bs) \in Seq(STRING)
  <1>1. \A i \in DOMAIN bs : bs[i] \in STRING
    BY LenProperties, ElementOfSeq
  <1>2. \A i \in DOMAIN bs : ByteKept[bs[i]] = IF bs[i] \in ByteTokens THEN <<bs[i]>> ELSE <<>>
    BY Zenon, <1>1 DEF ByteKept
  <1>3. Each(ByteKept, bs) = [i \in DOMAIN bs |-> IF bs[i] \in ByteTokens THEN <<bs[i]>> ELSE <<>>]
    BY Zenon, <1>2 DEF Each
  <1>4. Joined(ByteKept, bs) \in Seq(STRING)
    BY Zenon, TablesTyped, JoinedInParts
  <1> QED BY Zenon, <1>3, <1>4 DEF WithToken, Joined

\* The tokens of a piece.
LEMMA PieceIdsAre ==
  ASSUME NEW p \in Seq(TextUnit)
  PROVE  /\ PieceIds(p) \in Seq(Token)
         /\ p \notin Vocab => PieceIds(p) = Joined(ByteToken, BytesOf(p))
  <1> DEFINE bs == BytesOf(p)
  <1>1. bs \in Seq(STRING)
    BY Zenon, BytesOfIs
  <1>2. CASE p \in Vocab
    <2> DEFINE t == [str |-> p]
    <2>1. t \in Token
      BY Zenon, TokensAre
    <2>2. PieceIds(p) = <<t>>
      BY Zenon, <1>2 DEF PieceIds
    <2> HIDE DEF t
    <2> QED BY <1>2, <2>1, <2>2
  <1>3. CASE p \notin Vocab
    <2> HIDE DEF bs
    <2>1. \A i \in DOMAIN bs : bs[i] \in STRING
      BY <1>1, LenProperties, ElementOfSeq
    <2>2. \A i \in DOMAIN bs :
            ByteToken[bs[i]] = IF bs[i] \in ByteTokens THEN <<[byte |-> bs[i]]>> ELSE <<>>
      BY Zenon, <2>1 DEF ByteToken
    <2>3. Each(ByteToken, bs) = [i \in DOMAIN bs |->
            IF bs[i] \in ByteTokens THEN <<[byte |-> bs[i]]>> ELSE <<>>]
      BY Zenon, <2>2 DEF Each
    <2>4. Joined(ByteToken, bs) \in Seq(Token)
      BY Zenon, <1>1, TablesTyped, JoinedInParts
    <2> QED BY Zenon, <1>3, <2>3, <2>4 DEF PieceIds, Joined, bs
  <1> QED BY <1>2, <1>3

\* What the tokens of a piece decode to.
LEMMA PieceBytesAre ==
  ASSUME NEW p \in Seq(TextUnit)
  PROVE  /\ PieceBytes[p] = Joined(TokenBytes, PieceIds(p)) /\ PieceBytes[p] \in Seq(STRING)
         /\ p \in Vocab => PieceBytes[p] = Joined(Utf8, Each(Shown, p))
         /\ p \notin Vocab => PieceBytes[p] = WithToken(BytesOf(p))
  <1>1. PieceBytes[p] = Joined(TokenBytes, PieceIds(p))
    BY Zenon DEF PieceBytes
  <1>2. PieceIds(p) \in Seq(Token)
    BY Zenon, PieceIdsAre
  <1>3. Joined(TokenBytes, PieceIds(p)) \in Seq(STRING)
    BY Zenon, <1>2, TablesTyped, JoinedInParts
  <1>4. ASSUME p \in Vocab
        PROVE  PieceBytes[p] = Joined(Utf8, Each(Shown, p))
    <2> DEFINE t == [str |-> p]
    <2>1. PieceIds(p) = <<t>>
      BY Zenon, <1>4 DEF PieceIds
    <2>2. t \in Token /\ "byte" \notin DOMAIN t /\ t.str = p
      BY Zenon, TokensAre
    <2> HIDE DEF t
    <2>3. FewJoined(TokenBytes, t)
      BY Zenon, <2>2, TablesTyped, JoinedFew
    <2>4. TokenBytes[t] = Joined(Utf8, Each(Shown, p))
      BY Zenon, <2>2 DEF TokenBytes
    <2> QED BY Zenon, <1>1, <2>1, <2>3, <2>4 DEF FewJoined
  <1>5. ASSUME p \notin Vocab
        PROVE  PieceBytes[p] = WithToken(BytesOf(p))
    <2>1. PieceIds(p) = Joined(ByteToken, BytesOf(p))
      BY Zenon, <1>5, PieceIdsAre
    <2>2. BytesOf(p) \in Seq(STRING)
      BY Zenon, BytesOfIs
    <2>3. ASSUME NEW b \in STRING
          PROVE  ByteKept[b] = Joined(TokenBytes, ByteToken[b])
      <3> DEFINE t == [byte |-> b]
      <3>1. t \in Token /\ "byte" \in DOMAIN t /\ t.byte = b
        BY Zenon, TokensAre
      <3>2. ByteToken[b] = (IF b \in ByteTokens THEN <<t>> ELSE <<>>)
        BY Zenon DEF ByteToken
      <3>3. ByteKept[b] = (IF b \in ByteTokens THEN <<b>> ELSE <<>>)
        BY Zenon DEF ByteKept
      <3> HIDE DEF t
      <3>4. FewJoined(TokenBytes, t)
        BY Zenon, <3>1, TablesTyped, JoinedFew
      <3>5. TokenBytes[t] = <<b>>
        BY Zenon, <3>1 DEF TokenBytes
      <3> QED BY Zenon, <3>2, <3>3, <3>4, <3>5 DEF FewJoined
    <2>4. JoinedTwice(TokenBytes, ByteToken, ByteKept, BytesOf(p))
      BY <2>2, <2>3, TablesTyped, JoinedOfJoined
    <2>5. WithToken(BytesOf(p)) = Joined(ByteKept, BytesOf(p))
      BY Zenon, <2>2, WithTokenIs
    <2> QED BY Zenon, <1>1, <2>1, <2>4, <2>5 DEF JoinedTwice
  <1> QED BY Zenon, <1>1, <1>3, <1>4, <1>5

\* decode_bytes joins the bytes of the tokens.
LEMMA DecodeIdsIs ==
  ASSUME NEW ts \in Seq(Token)
  PROVE  DecodeIds(ts) = Joined(TokenBytes, ts)
  <1>1. \A i \in DOMAIN ts : ts[i] \in Token
    BY LenProperties, ElementOfSeq
  <1>2. ASSUME NEW s \in Seq(TextUnit)
        PROVE  BytesOf([j \in DOMAIN s |-> IF s[j] = Underline THEN Space ELSE s[j]])
               = Joined(Utf8, Each(Shown, s))
    <2>1. \A j \in DOMAIN s : s[j] \in TextUnit
      BY LenProperties, ElementOfSeq
    <2>2. \A j \in DOMAIN s : Shown[s[j]] = IF s[j] = Underline THEN Space ELSE s[j]
      BY Zenon, <2>1 DEF Shown
    <2>3. Each(Shown, s) = [j \in DOMAIN s |-> IF s[j] = Underline THEN Space ELSE s[j]]
      BY Zenon, <2>2 DEF Each
    <2>4. Each(Shown, s) \in Seq(TextUnit)
      BY Zenon, TablesTyped, EachIs
    <2> QED BY Zenon, <2>3, <2>4, BytesOfIs
  <1>3. \A i \in DOMAIN ts :
          TokenBytes[ts[i]] =
            IF "byte" \in DOMAIN ts[i] THEN <<ts[i].byte>>
            ELSE BytesOf([j \in DOMAIN ts[i].str |->
                            IF ts[i].str[j] = Underline THEN Space ELSE ts[i].str[j]])
    BY Zenon, <1>1, <1>2, TokensAre DEF TokenBytes
  <1>4. Each(TokenBytes, ts) = [i \in DOMAIN ts |->
          IF "byte" \in DOMAIN ts[i] THEN <<ts[i].byte>>
          ELSE BytesOf([j \in DOMAIN ts[i].str |->
                          IF ts[i].str[j] = Underline THEN Space ELSE ts[i].str[j]])]
    BY Zenon, <1>3 DEF Each
  <1> QED BY Zenon, <1>4 DEF DecodeIds, Joined

\* One element.
LEMMA EachOne == \A f, e : Each(f, <<e>>) = <<f[e]>>
  <1> SUFFICES ASSUME NEW f, NEW e
               PROVE  Each(f, <<e>>) = <<f[e]>>
    OBVIOUS
  <1>1. DOMAIN <<e>> = 1..1 /\ <<e>>[1] = e
    OBVIOUS
  <1> QED BY <1>1 DEF Each

\* The bytes of one unit, as they are and as they are shown.
LEMMA OneUnit ==
  ASSUME NEW c \in TextUnit
  PROVE  /\ <<c>> \in Seq(TextUnit)
         /\ Joined(Utf8, Each(Shown, <<c>>)) = Utf8[IF c = Underline THEN Space ELSE c]
         /\ BytesOf(<<c>>) = Utf8[c] /\ Utf8[c] \in Seq(STRING)
         /\ Utf8[IF c = Underline THEN Space ELSE c] \in Seq(STRING)
  <1>1. <<c>> \in Seq(TextUnit)
    OBVIOUS
  <1>2. Shown[c] = (IF c = Underline THEN Space ELSE c) /\ Shown[c] \in TextUnit
    BY UnitsAre DEF Shown
  <1>3. Each(Shown, <<c>>) = <<Shown[c]>>
    BY Zenon, EachOne
  <1>4. FewJoined(Utf8, c) /\ FewJoined(Utf8, Shown[c])
    BY Zenon, <1>2, UnitsAre, JoinedFew
  <1>5. BytesOf(<<c>>) = Joined(Utf8, <<c>>)
    BY Zenon, <1>1, BytesOfIs
  <1>6. Utf8[c] \in Seq(STRING) /\ Utf8[Shown[c]] \in Seq(STRING)
    BY <1>2, UnitsAre
  <1> QED BY Zenon, <1>1, <1>2, <1>3, <1>4, <1>5, <1>6 DEF FewJoined

\* The piece of one character is decoded to what is kept of that.
LEMMA CharKept ==
  ASSUME NEW c \in Char
  PROVE  /\ <<Normal(c)>> \in Seq(TextUnit)
         /\ PieceBytes[<<Normal(c)>>] = Kept(c) /\ Kept(c) \in Seq(STRING)
  <1> DEFINE n == Normal(c)
             p == <<n>>
  <1>1. n \in TextUnit /\ c \in TextUnit /\ c \notin MarkersKnown
    BY UnitsAre DEF Normal
  <1>2. (IF n = Underline THEN Space ELSE n) = (IF c = Underline THEN Space ELSE c)
    BY UnitsAre DEF Normal
  <1> HIDE DEF n
  <1>3. /\ p \in Seq(TextUnit)
        /\ Joined(Utf8, Each(Shown, p)) = Utf8[IF n = Underline THEN Space ELSE n]
        /\ BytesOf(p) = Utf8[n]
    BY Zenon, <1>1, OneUnit
  <1>4. Kept(c) = IF p \in Vocab THEN Utf8[IF c = Underline THEN Space ELSE c] ELSE WithToken(Utf8[n])
    BY Zenon, <1>1 DEF Kept, n
  <1> HIDE DEF p
  <1>5. /\ PieceBytes[p] \in Seq(STRING)
        /\ p \in Vocab => PieceBytes[p] = Joined(Utf8, Each(Shown, p))
        /\ p \notin Vocab => PieceBytes[p] = WithToken(BytesOf(p))
    BY Zenon, <1>3, PieceBytesAre
  <1>6. PieceBytes[p] = Kept(c)
    BY Zenon, <1>2, <1>3, <1>4, <1>5
  <1> QED BY Zenon, <1>3, <1>5, <1>6 DEF p, n

\* The tokens of a marker.
MarkerIds(m) == IF m \in MarkersKnown THEN <<[str |-> <<m>>]>> ELSE PieceIds(<<m>>)

\* They are decoded to what is kept of it.
LEMMA MarkerKept ==
  ASSUME NEW m \in Markers
  PROVE  /\ MarkerIds(m) \in Seq(Token) /\ Joined(TokenBytes, MarkerIds(m)) = Kept(m)
         /\ Kept(m) \in Seq(STRING)
  <1> DEFINE p == <<m>>
  <1>1. m \in TextUnit /\ m \notin Char /\ m # Space /\ m # Underline
    BY UnitsAre
  <1>2. p \notin Vocab
    <2>1. p \in Seq(Char) => m \in Char
      <3>1. Len(p) = 1 /\ p[1] = m
        OBVIOUS
      <3> HIDE DEF p
      <3> QED BY <3>1, ElementOfSeq
    <2> QED BY Zenon, <1>1, <2>1, PromptConstants
  <1>3. Normal(m) = m
    BY Zenon, <1>1 DEF Normal
  <1>4. /\ p \in Seq(TextUnit)
        /\ Joined(Utf8, Each(Shown, p)) = Utf8[m]
        /\ BytesOf(p) = Utf8[m] /\ Utf8[m] \in Seq(STRING)
    BY Zenon, <1>1, OneUnit
  <1>5. Kept(m) = IF m \in MarkersKnown THEN Utf8[m] ELSE WithToken(Utf8[m])
    BY Zenon, <1>1, <1>2, <1>3 DEF Kept
  <1> HIDE DEF p
  <1>6. CASE m \in MarkersKnown
    <2> DEFINE t == [str |-> p]
    <2>1. t \in Token /\ "byte" \notin DOMAIN t /\ t.str = p
      BY Zenon, <1>4, TokensAre
    <2>2. MarkerIds(m) = <<t>>
      BY Zenon, <1>6 DEF MarkerIds, p
    <2> HIDE DEF t
    <2>3. FewJoined(TokenBytes, t)
      BY Zenon, <2>1, TablesTyped, JoinedFew
    <2>4. TokenBytes[t] = Utf8[m]
      BY Zenon, <1>4, <2>1 DEF TokenBytes
    <2>5. <<t>> \in Seq(Token)
      BY <2>1
    <2> QED BY Zenon, <1>4, <1>5, <1>6, <2>2, <2>3, <2>4, <2>5 DEF FewJoined
  <1>7. CASE m \notin MarkersKnown
    <2>1. MarkerIds(m) = PieceIds(p)
      BY Zenon, <1>7 DEF MarkerIds, p
    <2>2. PieceIds(p) \in Seq(Token)
      BY Zenon, <1>4, PieceIdsAre
    <2>3. PieceBytes[p] = Joined(TokenBytes, PieceIds(p)) /\ PieceBytes[p] \in Seq(STRING)
          /\ PieceBytes[p] = WithToken(BytesOf(p))
      BY Zenon, <1>2, <1>4, PieceBytesAre DEF p
    <2> QED BY Zenon, <1>4, <1>5, <1>7, <2>1, <2>2, <2>3
  <1> QED BY <1>6, <1>7

\* A merge keeps the bytes.
MergeKeeps(p, q) == PieceBytes[p \o q] = PieceBytes[p] \o PieceBytes[q]

\* So two pieces that merge decode as the merged one does.
LEMMA MergedPiece ==
  ASSUME NEW p \in Vocab, NEW q \in Vocab, p \o q \in Vocab
  PROVE  MergeKeeps(p, q)
  <1>1. Vocab \subseteq Seq(TextUnit)
    <2>1. Seq(Char) \subseteq Seq(TextUnit)
      BY DEF TextUnit
    <2> QED BY Zenon, <2>1, PromptConstants
  <1>2. p \in Seq(TextUnit) /\ q \in Seq(TextUnit) /\ p \o q \in Seq(TextUnit)
    BY Zenon, <1>1
  <1>3. /\ PieceBytes[p] = Joined(Utf8, Each(Shown, p))
        /\ PieceBytes[q] = Joined(Utf8, Each(Shown, q))
        /\ PieceBytes[p \o q] = Joined(Utf8, Each(Shown, p \o q))
    BY Zenon, <1>2, PieceBytesAre
  <1>4. EachInParts(Shown, p, q)
    BY Zenon, <1>2, TablesTyped, EachOfBoth
  <1>5. Each(Shown, p) \in Seq(TextUnit) /\ Each(Shown, q) \in Seq(TextUnit)
    BY Zenon, <1>2, TablesTyped, EachIs
  <1>6. InParts(Utf8, Each(Shown, p), Each(Shown, q))
    BY Zenon, <1>5, UnitsAre, JoinedInParts
  <1> QED BY Zenon, <1>3, <1>4, <1>6 DEF EachInParts, InParts, MergeKeeps

\* x in front of place k, what is there, and what comes after it.
CutsAt(x, k) == x = SubSeq(x, 1, k - 1) \o (<<x[k]>> \o SubSeq(x, k + 1, Len(x)))

\* These are all of it.
LEMMA CutInThree ==
  ASSUME NEW S, NEW x \in Seq(S), NEW k \in 1..Len(x)
  PROVE  /\ CutsAt(x, k) /\ x[k] \in S
         /\ SubSeq(x, 1, k - 1) \in Seq(S) /\ SubSeq(x, k + 1, Len(x)) \in Seq(S)
  <1>1. Len(x) \in Nat /\ k \in 1..(Len(x) + 1) /\ Len(x) \in k..Len(x) /\ k - 1 \in (1 - 1)..Len(x)
    BY LenProperties
  <1>2. x[k] \in S /\ \A i \in 1..Len(x) : x[i] \in S
    BY ElementOfSeq
  <1>3. SubSeq(x, 1, k - 1) \in Seq(S) /\ SubSeq(x, k + 1, Len(x)) \in Seq(S)
    <2>1. \A i \in 1..(k - 1) : x[i] \in S
      BY <1>1, <1>2
    <2>2. \A i \in (k + 1)..Len(x) : x[i] \in S
      BY <1>1, <1>2
    <2>3. 1 \in Int /\ k - 1 \in Int /\ k + 1 \in Int /\ Len(x) \in Int
      BY <1>1
    <2> QED BY <2>1, <2>2, <2>3, SubSeqProperties
  <1>4. SubSeq(x, k, Len(x)) = <<x[k]>> \o SubSeq(x, k + 1, Len(x))
    BY <1>1, SubSeqRecursiveFirst
  <1>5. SubSeq(x, 1, k - 1) \o SubSeq(x, k, Len(x)) = SubSeq(x, 1, Len(x))
    <2>1. /\ 1 \in 1..(Len(x) + 1) /\ k - 1 \in (1 - 1)..Len(x) /\ Len(x) \in (k - 1)..Len(x)
          /\ (k - 1) + 1 = k
      BY <1>1
    <2>2. SubSeq(x, 1, k - 1) \o SubSeq(x, (k - 1) + 1, Len(x)) = SubSeq(x, 1, Len(x))
      BY <2>1, ConcatAdjacentSubSeq
    <2> QED BY Zenon, <2>1, <2>2
  <1>6. SubSeq(x, 1, Len(x)) = x
    BY SubSeqFull
  <1>7. CutsAt(x, k)
    BY Zenon, <1>4, <1>5, <1>6 DEF CutsAt
  <1> QED BY Zenon, <1>2, <1>3, <1>7

\* The pieces of a span: the characters, and what merges make of them.
Piece == Vocab \cup {<<Normal(c)>> : c \in Char}

\* They are texts.
LEMMA PiecesAre ==
  /\ Piece \subseteq Seq(TextUnit)
  /\ PieceBytes \in [Seq(TextUnit) -> Seq(STRING)]
  /\ IdsOf \in [Seq(TextUnit) -> Seq(Token)]
  <1>1. Vocab \subseteq Seq(TextUnit)
    <2>1. Seq(Char) \subseteq Seq(TextUnit)
      BY DEF TextUnit
    <2> QED BY Zenon, <2>1, PromptConstants
  <1>2. Piece \subseteq Seq(TextUnit)
    BY Zenon, <1>1, CharKept DEF Piece
  <1>3. PieceBytes \in [Seq(TextUnit) -> Seq(STRING)]
    <2>1. \A p \in Seq(TextUnit) : Joined(TokenBytes, PieceIds(p)) \in Seq(STRING)
      BY Zenon, PieceBytesAre
    <2> QED BY Zenon, <2>1 DEF PieceBytes
  <1>4. IdsOf \in [Seq(TextUnit) -> Seq(Token)]
    BY Zenon, PieceIdsAre DEF IdsOf
  <1> QED BY Zenon, <1>2, <1>3, <1>4

\* What can be merged is in vocab, and so is what it makes.
LEMMA MergeableAre ==
  ASSUME NEW ps \in Seq(Piece), NEW i \in Mergeable(ps)
  PROVE  /\ i \in 1..Len(ps) /\ i + 1 \in 1..Len(ps)
         /\ ps[i] \in Vocab /\ ps[i + 1] \in Vocab /\ ps[i] \o ps[i + 1] \in Vocab
         /\ MergeRank[<<ps[i], ps[i + 1]>>] \in Nat
  <1>1. i \in 1..Len(ps) /\ i + 1 \in 1..Len(ps)
    BY LenProperties DEF Mergeable
  <1> DEFINE m == <<ps[i], ps[i + 1]>>
             U == {j \in DOMAIN MergeList : MergeList[j] = m}
  <1>2. m \in ToSet(MergeList)
    BY Zenon DEF Mergeable, MergeRank
  <1>3. PICK j \in DOMAIN MergeList : MergeList[j] = m
    BY Zenon, <1>2 DEF ToSet
  <1>4. DOMAIN MergeList = 1..Len(MergeList) /\ Len(MergeList) \in Nat
    BY LenProperties, PromptConstants
  <1>5. m \in Vocab \X Vocab
    <2>1. MergeList[j] \in Vocab \X Vocab
      BY <1>3, <1>4, ElementOfSeq, PromptConstants
    <2> QED BY Zenon, <1>3, <2>1
  <1>6. m[1] = ps[i] /\ m[2] = ps[i + 1]
    OBVIOUS
  <1>7. ps[i] \in Vocab /\ ps[i + 1] \in Vocab
    BY <1>5
  <1>8. ps[i] \o ps[i + 1] \in Vocab
    BY Zenon, <1>2, <1>6, PromptConstants
  <1>9. MergeRank[m] \in Nat
    <2>1. MergeRank[m] = Max(U)
      BY Zenon, <1>2 DEF MergeRank
    <2>2. U \subseteq 0..Len(MergeList) /\ U # {}
      BY <1>3, <1>4
    <2> HIDE DEF U
    <2>3. \E x \in U : \A y \in U : y <= x
      BY Zenon, <1>4, <2>2, GreatestNumber
    <2>4. \A x, y \in U : y <= x => x >= y
      BY <2>2
    <2>5. \E x \in U : \A y \in U : x >= y
      BY Zenon, <2>3, <2>4
    <2>6. Max(U) \in U
      BY Zenon, <2>5 DEF Max
    <2>7. \A k \in 0..Len(MergeList) : k \in Nat
      BY <1>4
    <2> QED BY Zenon, <2>1, <2>2, <2>6, <2>7
  <1> QED BY Zenon, <1>1, <1>7, <1>8, <1>9

\* A pair of the best rank, and the first of them.
IsBest(ps, i) ==
  \A j \in Mergeable(ps) :
    LET r == MergeRank[<<ps[i], ps[i + 1]>>] s == MergeRank[<<ps[j], ps[j + 1]>>]
    IN  r < s \/ (r = s /\ i <= j)

\* encode's loop finds a pair if there is one.
LEMMA BestPairIs ==
  ASSUME NEW ps \in Seq(Piece), Mergeable(ps) # {}
  PROVE  BestPair(ps) \in Mergeable(ps) /\ IsBest(ps, BestPair(ps))
  <1> DEFINE M == Mergeable(ps)
             Rank(i) == MergeRank[<<ps[i], ps[i + 1]>>]
             R == {Rank(i) : i \in M}
  <1>1. \A i \in M : Rank(i) \in Nat /\ i \in Nat
    BY MergeableAre
  <1> HIDE DEF M, Rank
  <1>2. R \subseteq Nat /\ R # {}
    BY <1>1 DEF M
  <1>3. PICK r \in R : \A q \in R : r <= q
    <2> HIDE DEF R
    <2> QED BY Zenon, <1>2, LeastNumber
  <1> DEFINE B == {i \in M : Rank(i) = r}
  <1>4. B \subseteq Nat /\ B # {}
    BY <1>1, <1>3
  <1>5. PICK b \in B : \A i \in B : b <= i
    <2> HIDE DEF B
    <2> QED BY Zenon, <1>4, LeastNumber
  <1>6. b \in M /\ Rank(b) = r
    BY <1>5
  <1>7. ASSUME NEW j \in M
        PROVE  Rank(b) < Rank(j) \/ (Rank(b) = Rank(j) /\ b <= j)
    <2>1. r <= Rank(j) /\ Rank(j) \in Nat /\ r \in Nat
      BY <1>1, <1>3
    <2>2. Rank(j) = r => b <= j
      BY <1>5
    <2> QED BY <1>6, <2>1, <2>2
  <1>8. \E i \in M : \A j \in M : Rank(i) < Rank(j) \/ (Rank(i) = Rank(j) /\ i <= j)
    BY Zenon, <1>6, <1>7
  <1>9. BestPair(ps) = CHOOSE i \in M : \A j \in M : Rank(i) < Rank(j) \/ (Rank(i) = Rank(j) /\ i <= j)
    BY DEF BestPair, M, Rank
  <1> QED BY Zenon, <1>8, <1>9 DEF M, Rank, IsBest

\* Merging two of the pieces keeps what they are decoded to.
LEMMA JoinKeeps ==
  ASSUME NEW ps \in Seq(Piece), NEW i \in Mergeable(ps)
  PROVE  JoinAt(ps, i) \in Seq(Piece) /\ Joined(PieceBytes, JoinAt(ps, i)) = Joined(PieceBytes, ps)
  <1> DEFINE p == ps[i]
             q == ps[i + 1]
             a == SubSeq(ps, 1, i - 1)
             c == SubSeq(ps, i + 1, Len(ps))
             b == SubSeq(ps, i + 2, Len(ps))
             d == p \o q
  <1>1. /\ i \in 1..Len(ps) /\ i + 1 \in 1..Len(ps)
        /\ p \in Vocab /\ q \in Vocab /\ d \in Vocab
    BY Zenon, MergeableAre
  <1>2. ps = a \o (<<p>> \o c) /\ a \in Seq(Piece) /\ c \in Seq(Piece)
    BY Zenon, <1>1, CutInThree DEF CutsAt
  <1>3. c = <<q>> \o b /\ b \in Seq(Piece)
    <2>1. Len(ps) \in Nat /\ i \in Nat /\ i + 1 <= Len(ps) /\ i + 1 \in 1..Len(ps)
          /\ Len(ps) \in (i + 1)..Len(ps) /\ (i + 1) + 1 = i + 2
      BY <1>1, LenProperties
    <2>2. c = <<ps[i + 1]>> \o SubSeq(ps, (i + 1) + 1, Len(ps))
      BY <2>1, SubSeqRecursiveFirst
    <2>3. SubSeq(ps, (i + 1) + 1, Len(ps)) \in Seq(Piece)
      BY Zenon, <2>1, CutInThree
    <2> QED BY Zenon, <2>1, <2>2, <2>3
  <1>4. JoinAt(ps, i) = (a \o <<d>>) \o b
    BY Zenon DEF JoinAt
  <1>5. p \in Piece /\ q \in Piece /\ d \in Piece
    BY Zenon, <1>1 DEF Piece
  <1>6. MergeKeeps(p, q)
    BY Zenon, <1>1, MergedPiece
  <1>7. p \in Seq(TextUnit) /\ q \in Seq(TextUnit) /\ d \in Seq(TextUnit)
    BY Zenon, <1>5, PiecesAre
  <1> HIDE DEF p, q, a, b, c, d
  <1>8. /\ <<p>> \in Seq(Piece) /\ <<q>> \in Seq(Piece) /\ <<d>> \in Seq(Piece)
        /\ a \o <<d>> \in Seq(Piece) /\ <<q>> \o b \in Seq(Piece) /\ <<p>> \o c \in Seq(Piece)
        /\ (a \o <<d>>) \o b \in Seq(Piece)
    BY <1>2, <1>3, <1>5
  <1> DEFINE F(s) == Joined(PieceBytes, s)
             At1(s, t) == F(s \o t) = F(s) \o F(t)
  <1>9. ASSUME NEW s \in Seq(Piece), NEW t \in Seq(Piece)
        PROVE  F(s) \in Seq(STRING) /\ At1(s, t)
    <2>1. s \in Seq(Seq(TextUnit)) /\ t \in Seq(Seq(TextUnit))
      <3>1. Seq(Piece) \subseteq Seq(Seq(TextUnit))
        BY PiecesAre
      <3> QED BY Zenon, <3>1
    <2>2. F(s) \in Seq(STRING) /\ InParts(PieceBytes, s, t)
      BY Zenon, <2>1, PiecesAre, JoinedInParts
    <2> QED BY Zenon, <2>2 DEF InParts
  <1>10. ASSUME NEW s \in Seq(TextUnit)
         PROVE  F(<<s>>) = PieceBytes[s]
    <2>1. FewJoined(PieceBytes, s)
      BY Zenon, PiecesAre, JoinedFew
    <2> QED BY Zenon, <2>1 DEF FewJoined
  <1> HIDE DEF F
  <1>11. F(ps) = F(a) \o (F(<<p>>) \o (F(<<q>>) \o F(b)))
    <2>1. At1(a, <<p>> \o c) /\ At1(<<p>>, c) /\ At1(<<q>>, b)
      BY Zenon, <1>2, <1>3, <1>8, <1>9
    <2> QED BY Zenon, <1>2, <1>3, <2>1
  <1>12. F((a \o <<d>>) \o b) = (F(a) \o (F(<<p>>) \o F(<<q>>))) \o F(b)
    <2>1. At1(a \o <<d>>, b) /\ At1(a, <<d>>)
      BY Zenon, <1>2, <1>3, <1>8, <1>9
    <2>2. F(<<d>>) = F(<<p>>) \o F(<<q>>)
      BY Zenon, <1>6, <1>7, <1>10 DEF MergeKeeps, d
    <2> QED BY Zenon, <2>1, <2>2
  <1>13. F(a) \in Seq(STRING) /\ F(<<p>>) \in Seq(STRING) /\ F(<<q>>) \in Seq(STRING) /\ F(b) \in Seq(STRING)
    BY Zenon, <1>2, <1>3, <1>8, <1>9
  <1>14. F(<<p>>) \o F(<<q>>) \in Seq(STRING)
    BY <1>13
  <1>15. Associate(F(<<p>>), F(<<q>>), F(b)) /\ Associate(F(a), F(<<p>>) \o F(<<q>>), F(b))
    BY Zenon, <1>13, <1>14, Associates
  <1>16. F((a \o <<d>>) \o b) = F(ps)
    BY Zenon, <1>11, <1>12, <1>15 DEF Associate
  <1> QED BY Zenon, <1>4, <1>8, <1>16 DEF F

\* The tokens of the pieces are decoded to what the pieces are.
LEMMA PiecesDecoded ==
  ASSUME NEW ps \in Seq(Piece)
  PROVE  LET made == FlattenSeq([i \in DOMAIN ps |-> PieceIds(ps[i])])
         IN  made \in Seq(Token) /\ Joined(TokenBytes, made) = Joined(PieceBytes, ps)
  <1> DEFINE made == FlattenSeq([i \in DOMAIN ps |-> PieceIds(ps[i])])
  <1>1. ps \in Seq(Seq(TextUnit))
    <2>1. Seq(Piece) \subseteq Seq(Seq(TextUnit))
      BY PiecesAre
    <2> QED BY Zenon, <2>1
  <1>2. \A i \in DOMAIN ps : ps[i] \in Seq(TextUnit)
    BY <1>1, LenProperties, ElementOfSeq
  <1>3. \A i \in DOMAIN ps : IdsOf[ps[i]] = PieceIds(ps[i])
    BY Zenon, <1>2 DEF IdsOf
  <1>4. Each(IdsOf, ps) = [i \in DOMAIN ps |-> PieceIds(ps[i])]
    BY Zenon, <1>3 DEF Each
  <1>5. made = Joined(IdsOf, ps)
    BY Zenon, <1>4 DEF Joined
  <1>6. Joined(IdsOf, ps) \in Seq(Token)
    BY Zenon, <1>1, PiecesAre, JoinedInParts
  <1>7. \A p \in Seq(TextUnit) : PieceBytes[p] = Joined(TokenBytes, IdsOf[p])
    BY Zenon DEF PieceBytes, IdsOf
  <1>8. JoinedTwice(TokenBytes, IdsOf, PieceBytes, ps)
    BY <1>1, <1>7, PiecesAre, TablesTyped, JoinedOfJoined
  <1> QED BY Zenon, <1>5, <1>6, <1>8 DEF JoinedTwice

\* At first the pieces of a span are its characters.
LEMMA CharactersOf ==
  ASSUME NEW s \in Seq(Char)
  PROVE  LET ps == [i \in DOMAIN s |-> <<Normal(s[i])>>]
         IN  ps \in Seq(Piece) /\ Joined(PieceBytes, ps) = Joined(KeptOf, s)
  <1> DEFINE ps == [i \in DOMAIN s |-> <<Normal(s[i])>>]
             N == [c \in Char |-> <<Normal(c)>>]
  <1>1. \A i \in DOMAIN s : s[i] \in Char
    BY LenProperties, ElementOfSeq
  <1>2. \A c \in Char : <<Normal(c)>> \in Piece /\ N[c] = <<Normal(c)>>
    BY Zenon DEF Piece
  <1>3. N \in [Char -> Piece]
    BY Zenon, <1>2
  <1> HIDE DEF N
  <1>4. Each(N, s) = ps
    BY Zenon, <1>1, <1>2 DEF Each
  <1>5. Each(N, s) \in Seq(Piece)
    BY Zenon, <1>3, EachIs
  <1>6. \A c \in Char : KeptOf[c] = PieceBytes[N[c]]
    <2>1. \A c \in Char : KeptOf[c] = Kept(c)
      BY Zenon, UnitsAre DEF KeptOf
    <2> QED BY Zenon, <1>2, <2>1, CharKept
  <1>7. EachTwice(PieceBytes, N, KeptOf, s)
    BY Zenon, <1>3, <1>6, EachOfEach
  <1> QED BY Zenon, <1>4, <1>5, <1>7 DEF Joined, EachTwice

\* What is kept of each unit of a text, joined.
LEMMA KeptIs ==
  /\ KeptOf \in [TextUnit -> Seq(STRING)]
  /\ \A x \in Seq(TextUnit) : /\ FlattenSeq([i \in DOMAIN x |-> Kept(x[i])]) = Joined(KeptOf, x)
                              /\ Joined(KeptOf, x) \in Seq(STRING)
  <1>1. KeptOf \in [TextUnit -> Seq(STRING)]
    <2>1. \A c \in TextUnit : Kept(c) \in Seq(STRING)
      BY Zenon, CharKept, MarkerKept DEF TextUnit
    <2> QED BY Zenon, <2>1 DEF KeptOf
  <1>2. ASSUME NEW x \in Seq(TextUnit)
        PROVE  /\ FlattenSeq([i \in DOMAIN x |-> Kept(x[i])]) = Joined(KeptOf, x)
               /\ Joined(KeptOf, x) \in Seq(STRING)
    <2>1. \A i \in DOMAIN x : x[i] \in TextUnit
      BY LenProperties, ElementOfSeq
    <2>2. \A i \in DOMAIN x : KeptOf[x[i]] = Kept(x[i])
      BY Zenon, <2>1 DEF KeptOf
    <2>3. Each(KeptOf, x) = [i \in DOMAIN x |-> Kept(x[i])]
      BY Zenon, <2>2 DEF Each
    <2>4. Joined(KeptOf, x) \in Seq(STRING)
      BY Zenon, <1>1, JoinedInParts
    <2> QED BY Zenon, <2>3, <2>4 DEF Joined
  <1> QED BY Zenon, <1>1, <1>2

\* What is kept of the special after a span, and that special as a text.
MarkerBytes(m) == IF m = "none" THEN <<>> ELSE Kept(m)
MarkerText(m) == IF m = "none" THEN <<>> ELSE <<m>>

\* They belong together.
LEMMA MarkerTextKept ==
  ASSUME NEW m \in Markers \cup {"none"}
  PROVE  /\ MarkerText(m) \in Seq(TextUnit) /\ MarkerBytes(m) \in Seq(STRING)
         /\ Joined(KeptOf, MarkerText(m)) = MarkerBytes(m)
  <1>1. <<>> \in Seq(TextUnit) /\ <<>> \in Seq(STRING)
    BY EmptySeq
  <1>2. Space \in TextUnit
    BY Zenon, UnitsAre
  <1>3. FewJoined(KeptOf, Space)
    BY Zenon, <1>2, KeptIs, JoinedFew
  <1>4. CASE m = "none"
    BY Zenon, <1>1, <1>3, <1>4 DEF MarkerText, MarkerBytes, FewJoined
  <1>5. CASE m # "none"
    <2>1. m \in Markers /\ m \in TextUnit
      BY Zenon, <1>5, UnitsAre
    <2>2. FewJoined(KeptOf, m)
      BY Zenon, <2>1, KeptIs, JoinedFew
    <2>3. KeptOf[m] = Kept(m) /\ Kept(m) \in Seq(STRING)
      BY Zenon, <2>1, MarkerKept DEF KeptOf
    <2>4. <<m>> \in Seq(TextUnit)
      BY <2>1
    <2> QED BY Zenon, <1>5, <2>2, <2>3, <2>4 DEF MarkerText, MarkerBytes, FewJoined
  <1> QED BY <1>4, <1>5

\* What was decoded, the span, the special after it and what comes then: the text.
AllKept(x, ts, s, m, r) ==
  Joined(KeptOf, x)
    = ((Joined(TokenBytes, ts) \o Joined(KeptOf, s)) \o MarkerBytes(m)) \o Joined(KeptOf, r)

PromptTypes ==
  /\ promptPc \in {"render", "cut", "merge", "encoded", "refused"}
  /\ inbox \in Seq(Message)
  /\ system \in Seq(TextUnit) /\ text \in Seq(TextUnit) /\ rest \in Seq(TextUnit)
  /\ ids \in Seq(Token) /\ span \in Seq(Char) /\ marker \in Markers \cup {"none"}

\* While a chat is rendered there are no tokens yet.
RenderInv == promptPc = "render" => ids = <<>>

\* Between two spans there is neither a span nor a special.
BetweenInv == promptPc # "merge" => span = <<>> /\ marker = "none"

\* The pieces are decoded to what is kept of the span, however far they are merged.
SpanInv ==
  promptPc = "merge" => pieces \in Seq(Piece) /\ Joined(PieceBytes, pieces) = Joined(KeptOf, span)

\* Nothing of the text is lost.
KeptInv == promptPc \in {"cut", "merge", "encoded"} => AllKept(text, ids, span, marker, rest)

\* The inductive invariant.
PromptInv == PromptTypes /\ RenderInv /\ BetweenInv /\ SpanInv /\ KeptInv

\* The property, with the tables.
LEMMA KeptIsKept == PromptTypes /\ KeptInv => TokensKeepTheText
  <1> SUFFICES ASSUME PromptTypes, KeptInv, promptPc \in {"cut", "merge", "encoded"}
               PROVE  FlattenSeq([i \in DOMAIN text |-> Kept(text[i])])
                        = DecodeIds(ids) \o FlattenSeq([i \in DOMAIN span |-> Kept(span[i])])
                            \o (IF marker = "none" THEN <<>> ELSE Kept(marker))
                            \o FlattenSeq([i \in DOMAIN rest |-> Kept(rest[i])])
    BY Zenon DEF TokensKeepTheText
  <1>1. text \in Seq(TextUnit) /\ rest \in Seq(TextUnit) /\ ids \in Seq(Token) /\ span \in Seq(TextUnit)
    BY DEF PromptTypes, TextUnit
  <1>2. /\ FlattenSeq([i \in DOMAIN text |-> Kept(text[i])]) = Joined(KeptOf, text)
        /\ FlattenSeq([i \in DOMAIN span |-> Kept(span[i])]) = Joined(KeptOf, span)
        /\ FlattenSeq([i \in DOMAIN rest |-> Kept(rest[i])]) = Joined(KeptOf, rest)
        /\ DecodeIds(ids) = Joined(TokenBytes, ids)
    BY Zenon, <1>1, KeptIs, DecodeIdsIs
  <1>3. AllKept(text, ids, span, marker, rest)
    BY DEF KeptInv
  <1> QED BY Zenon, <1>2, <1>3 DEF AllKept, MarkerBytes

\* Between two spans there is only what was decoded and the rest.
LEMMA OnlyTheRest ==
  ASSUME NEW x \in Seq(TextUnit), NEW ts \in Seq(Token), NEW r \in Seq(TextUnit)
  PROVE  AllKept(x, ts, <<>>, "none", r)
           <=> Joined(KeptOf, x) = Joined(TokenBytes, ts) \o Joined(KeptOf, r)
  <1>1. Joined(KeptOf, <<>>) = <<>>
    <2>1. Space \in TextUnit
      BY Zenon, UnitsAre
    <2>2. FewJoined(KeptOf, Space)
      BY Zenon, <2>1, KeptIs, JoinedFew
    <2> QED BY Zenon, <2>2 DEF FewJoined
  <1>2. Joined(TokenBytes, ts) \in Seq(STRING)
    BY Zenon, TablesTyped, JoinedInParts
  <1> DEFINE d == Joined(TokenBytes, ts)
  <1>3. (d \o <<>>) \o <<>> = d
    <2> HIDE DEF d
    <2>1. d \in Seq(STRING)
      BY <1>2 DEF d
    <2>2. d \o <<>> = d
      BY <2>1
    <2> QED BY Zenon, <2>2
  <1> QED BY Zenon, <1>1, <1>3 DEF AllKept, MarkerBytes

\* Four texts one after another, in two ways.
FourTexts(d, s, m, r) == ((d \o s) \o m) \o r = d \o (s \o (m \o r))

\* Four texts may be joined in any order.
LEMMA FourTextsAssociate ==
  ASSUME NEW S, NEW d \in Seq(S), NEW s \in Seq(S), NEW m \in Seq(S), NEW r \in Seq(S)
  PROVE  FourTexts(d, s, m, r)
  <1>1. s \o m \in Seq(S) /\ m \o r \in Seq(S) /\ d \o s \in Seq(S)
    OBVIOUS
  <1>2. Associate(d \o s, m, r) /\ Associate(d, s, m \o r)
    BY Zenon, <1>1, Associates
  <1> QED BY Zenon, <1>2 DEF Associate, FourTexts

\* What render_chat says is made of the units of a text.
LEMMA MessageTextIs ==
  ASSUME NEW m \in Message
  PROVE  MessageText(m) \in Seq(TextUnit)
  <1> DEFINE Part == [kind : STRING, text : Seq(TextUnit)]
             T == [q \in Part |-> q.text]
             ps == m.parts
  <1>1. ps \in Seq(Part)
    BY DEF Message, TextUnit
  <1>2. T \in [Part -> Seq(TextUnit)]
    OBVIOUS
  <1>3. \A i \in DOMAIN ps : ps[i] \in Part
    BY <1>1, LenProperties, ElementOfSeq
  <1>4. MessageText(m) = FlattenSeq([i \in DOMAIN ps |-> ps[i].text])
    BY Zenon DEF MessageText
  <1> HIDE DEF ps
  <1>5. Each(T, ps) = [i \in DOMAIN ps |-> ps[i].text]
    BY Zenon, <1>3 DEF Each, T
  <1> HIDE DEF T, Part
  <1>6. Joined(T, ps) \in Seq(TextUnit)
    BY Zenon, <1>1, <1>2, JoinedInParts
  <1> QED BY Zenon, <1>4, <1>5, <1>6 DEF Joined

\* What render_chat writes is text.
LEMMA TurnsAre ==
  /\ \A role \in RoleNames, body \in Seq(TextUnit) : Turn(role, body) \in Seq(TextUnit)
  /\ GenerationPrompt \in Seq(TextUnit) /\ BlankLine \in Seq(TextUnit)
  /\ "user" \in RoleNames /\ "model" \in RoleNames
  <1>1. /\ TurnOpen \in TextUnit /\ TurnClose \in TextUnit /\ Channel \in TextUnit /\ ChannelEnd \in TextUnit
        /\ "user" \in TextUnit /\ "model" \in TextUnit /\ "thought" \in TextUnit /\ "nl" \in TextUnit
        /\ RoleNames \subseteq TextUnit
    BY DEF TextUnit, Char, Markers, RoleNames
  <1>2. GenerationPrompt \in Seq(TextUnit) /\ BlankLine \in Seq(TextUnit)
    BY <1>1 DEF GenerationPrompt, BlankLine
  <1>3. ASSUME NEW role \in RoleNames, NEW body \in Seq(TextUnit)
        PROVE  Turn(role, body) \in Seq(TextUnit)
    <2> DEFINE a == <<TurnOpen, role, "nl">>
               c == <<TurnClose, "nl">>
    <2>1. a \in Seq(TextUnit) /\ c \in Seq(TextUnit)
      BY <1>1
    <2>2. Turn(role, body) = a \o body \o c
      BY DEF Turn
    <2> HIDE DEF a, c
    <2>3. a \o body \o c \in Seq(TextUnit)
      BY <2>1
    <2> QED BY <2>2, <2>3
  <1> QED BY <1>2, <1>3 DEF RoleNames

\* A text nothing of which is encoded is all there.
Untouched(x) == AllKept(x, <<>>, <<>>, "none", x)

\* So it is before the first token.
LEMMA NothingYet == \A x \in Seq(TextUnit) : Untouched(x)
  <1> SUFFICES ASSUME NEW x \in Seq(TextUnit) PROVE Untouched(x)
    OBVIOUS
  <1>1. <<>> \in Seq(Token)
    BY EmptySeq
  <1>2. AllKept(x, <<>>, <<>>, "none", x)
          <=> Joined(KeptOf, x) = Joined(TokenBytes, <<>>) \o Joined(KeptOf, x)
    BY Zenon, <1>1, OnlyTheRest
  <1>3. Joined(TokenBytes, <<>>) = <<>>
    <2>1. PICK t \in Token : TRUE
      <3>1. <<>> \in Seq(TextUnit)
        BY EmptySeq
      <3> QED BY Zenon, <3>1, TokensAre
    <2>2. FewJoined(TokenBytes, t)
      BY Zenon, <2>1, TablesTyped, JoinedFew
    <2> QED BY Zenon, <2>2 DEF FewJoined
  <1> DEFINE k == Joined(KeptOf, x)
  <1>4. <<>> \o k = k
    <2>1. k \in Seq(STRING)
      BY Zenon, KeptIs
    <2> HIDE DEF k
    <2> QED BY <2>1
  <1> QED BY Zenon, <1>2, <1>3, <1>4 DEF Untouched

\* At the start there is the text, or nothing.
LEMMA PromptStarts == PromptInit => PromptInv
  <1> SUFFICES ASSUME PromptInit PROVE PromptInv
    OBVIOUS
  <1>1. <<>> \in Seq(TextUnit) /\ <<>> \in Seq(Token) /\ <<>> \in Seq(Char) /\ <<>> \in Seq(Message)
    BY EmptySeq
  <1>2. PromptTypes
    BY <1>1, PromptConstants DEF PromptInit, PromptTypes, TextUnit
  <1>3. RenderInv /\ BetweenInv /\ SpanInv
    BY DEF PromptInit, RenderInv, BetweenInv, SpanInv
  <1>4. KeptInv
    <2> SUFFICES ASSUME promptPc \in {"cut", "merge", "encoded"}
                 PROVE  AllKept(text, ids, span, marker, rest)
      BY DEF KeptInv
    <2>1. rest = text /\ ids = <<>> /\ span = <<>> /\ marker = "none"
      BY DEF PromptInit
    <2>2. text \in Seq(TextUnit)
      BY <1>2 DEF PromptTypes
    <2>3. Untouched(text)
      BY <2>2, NothingYet
    <2> QED BY <2>1, <2>3 DEF Untouched
  <1> QED BY <1>2, <1>3, <1>4 DEF PromptInv

\* While the prompt is rendered, nothing is encoded.
LEMMA RenderKeeps == PromptInv /\ (Refuse \/ HoldSystem \/ RenderTurn) => PromptInv'
  <1> SUFFICES ASSUME PromptInv, Refuse \/ HoldSystem \/ RenderTurn PROVE PromptInv'
    OBVIOUS
  <1>1. promptPc = "render" /\ promptPc' \in {"render", "refused"}
    BY DEF Refuse, HoldSystem, RenderTurn
  <1>2. UNCHANGED <<rest, ids, span, marker>>
    BY DEF Refuse, HoldSystem, RenderTurn
  <1>3. PromptTypes /\ RenderInv /\ BetweenInv
    BY DEF PromptInv
  <1>4. inbox' \in Seq(Message) /\ system' \in Seq(TextUnit) /\ text' \in Seq(TextUnit)
    <2>1. CASE Refuse
      BY <1>3, <2>1 DEF Refuse, PromptTypes
    <2>2. CASE inbox # <<>> /\ (HoldSystem \/ RenderTurn)
      <3> DEFINE m == inbox[1]
                 body == MessageText(m)
      <3>1. inbox \in Seq(Message) /\ inbox # <<>>
        BY <1>3, <2>2 DEF PromptTypes
      <3>2. m \in Message /\ Tail(inbox) \in Seq(Message)
        BY <3>1, EmptySeq, LenProperties, ElementOfSeq
      <3>3. body \in Seq(TextUnit)
        BY Zenon, <3>2, MessageTextIs
      <3>4. system \in Seq(TextUnit) /\ text \in Seq(TextUnit) /\ BlankLine \in Seq(TextUnit) /\ <<>> \in Seq(TextUnit)
        BY <1>3, TurnsAre, EmptySeq DEF PromptTypes
      <3> DEFINE role == IF IsUser(m) THEN "user" ELSE "model"
                 spoken == IF IsUser(m) /\ system # <<>> THEN system \o BlankLine \o body ELSE body
                 gap == IF system = <<>> THEN <<>> ELSE BlankLine
      <3>5. CASE HoldSystem
        <4>1. system' = system \o gap \o body
          BY <3>5 DEF HoldSystem
        <4>2. gap \in Seq(TextUnit)
          BY <3>4
        <4> HIDE DEF gap, body
        <4>3. system \o gap \o body \in Seq(TextUnit)
          BY <3>3, <3>4, <4>2
        <4>4. inbox' = Tail(inbox) /\ text' = text
          BY <3>5 DEF HoldSystem
        <4> QED BY Zenon, <3>2, <3>4, <4>1, <4>3, <4>4
      <3>6. CASE RenderTurn
        <4>1. text' = text \o Turn(role, spoken) /\ system' = SystemAfter(m) /\ inbox' = Tail(inbox)
          BY <3>6 DEF RenderTurn
        <4>2. spoken \in Seq(TextUnit)
          <5> HIDE DEF body
          <5>1. system \o BlankLine \o body \in Seq(TextUnit)
            BY <3>3, <3>4
          <5> QED BY Zenon, <3>3, <5>1
        <4>3. role \in RoleNames
          BY Zenon, TurnsAre
        <4>4. system' \in Seq(TextUnit)
          BY Zenon, <3>4, <4>1 DEF SystemAfter
        <4> HIDE DEF spoken, role
        <4>5. Turn(role, spoken) \in Seq(TextUnit)
          BY Zenon, <4>2, <4>3, TurnsAre
        <4> DEFINE t == Turn(role, spoken)
        <4>6. text \o t \in Seq(TextUnit)
          <5>1. t \in Seq(TextUnit)
            BY <4>5
          <5> HIDE DEF t
          <5> QED BY <3>4, <5>1
        <4> QED BY Zenon, <3>2, <4>1, <4>4, <4>6
      <3> QED BY <2>2, <3>5, <3>6
    <2> QED BY <2>1, <2>2 DEF HoldSystem, RenderTurn
  <1> QED BY <1>1, <1>2, <1>3, <1>4 DEF PromptInv, PromptTypes, RenderInv, BetweenInv, SpanInv, KeptInv

\* The text of a chat is complete: all of it is still to be encoded.
LEMMA EndChatKeeps == PromptInv /\ EndChat => PromptInv'
  <1> SUFFICES ASSUME PromptInv, EndChat PROVE PromptInv'
    OBVIOUS
  <1> DEFINE last == IF system = <<>> THEN <<>> ELSE Turn("user", system)
  <1>1. /\ text' = text \o last \o GenerationPrompt /\ rest' = text' /\ promptPc' = "cut"
        /\ promptPc = "render" /\ UNCHANGED <<inbox, system, pieces, span, marker, ids, chat>>
    BY DEF EndChat
  <1>2. PromptTypes /\ RenderInv /\ BetweenInv
    BY DEF PromptInv
  <1>3. text' \in Seq(TextUnit)
    <2>1. system \in Seq(TextUnit) /\ text \in Seq(TextUnit) /\ <<>> \in Seq(TextUnit)
      BY <1>2, EmptySeq DEF PromptTypes
    <2>2. last \in Seq(TextUnit) /\ GenerationPrompt \in Seq(TextUnit)
      BY Zenon, <2>1, TurnsAre
    <2> HIDE DEF last
    <2> DEFINE g == GenerationPrompt
    <2>3. g \in Seq(TextUnit)
      BY <2>2
    <2> HIDE DEF g
    <2>4. text \o last \o g \in Seq(TextUnit)
      BY <2>1, <2>2, <2>3
    <2> QED BY Zenon, <1>1, <2>4 DEF g
  <1>4. ids = <<>> /\ span = <<>> /\ marker = "none"
    BY <1>1, <1>2 DEF RenderInv, BetweenInv
  <1>5. Untouched(text')
    BY Zenon, <1>3, NothingYet
  <1>6. AllKept(text', ids', span', marker', rest')
    BY Zenon, <1>1, <1>4, <1>5 DEF Untouched
  <1> QED BY <1>1, <1>2, <1>3, <1>4, <1>6
          DEF PromptInv, PromptTypes, RenderInv, BetweenInv, SpanInv, KeptInv

\* The first of some places.
LEMMA FirstPlace ==
  ASSUME NEW n \in Nat, NEW at \in SUBSET (1..n), at # {}
  PROVE  Min(at) \in at /\ \A j \in at : Min(at) <= j
  <1>1. at \subseteq Nat
    OBVIOUS
  <1>2. \E x \in at : \A y \in at : x <= y
    BY Zenon, <1>1, LeastNumber
  <1> QED BY Zenon, <1>2 DEF Min

\* Where the text is cut: characters, a special or nothing, and what comes then.
Cut(x, s, m, r) ==
  /\ s \in Seq(Char) /\ m \in Markers \cup {"none"} /\ r \in Seq(TextUnit)
  /\ x = s \o (MarkerText(m) \o r)

\* CutSpan cuts it so.
LEMMA CutIs ==
  ASSUME NEW x \in Seq(TextUnit)
  PROVE  LET at == {i \in DOMAIN x : x[i] \in Markers}
             cut == IF at = {} THEN Len(x) + 1 ELSE Min(at)
         IN  Cut(x, SubSeq(x, 1, cut - 1), IF at = {} THEN "none" ELSE x[cut], SubSeq(x, cut + 1, Len(x)))
  <1> DEFINE at == {i \in DOMAIN x : x[i] \in Markers}
             cut == IF at = {} THEN Len(x) + 1 ELSE Min(at)
             s == SubSeq(x, 1, cut - 1)
             m == IF at = {} THEN "none" ELSE x[cut]
             r == SubSeq(x, cut + 1, Len(x))
  <1> SUFFICES Cut(x, s, m, r)
    BY Zenon
  <1>1. DOMAIN x = 1..Len(x) /\ Len(x) \in Nat /\ \A i \in 1..Len(x) : x[i] \in TextUnit
    BY LenProperties, ElementOfSeq
  <1>2. CASE at = {}
    <2>1. \A i \in 1..Len(x) : x[i] \in Char
      BY <1>1, <1>2 DEF TextUnit
    <2>2. s = x /\ r = <<>> /\ m = "none"
      <3>1. cut = Len(x) + 1
        BY <1>2
      <3> HIDE DEF cut
      <3> QED BY <1>1, <1>2, <3>1
    <2>3. x \in Seq(Char)
      BY <1>1, <2>1
    <2>4. <<>> \in Seq(TextUnit) /\ <<>> \o <<>> = <<>> /\ x \o <<>> = x
      BY EmptySeq
    <2>5. MarkerText("none") = <<>>
      BY DEF MarkerText
    <2> QED BY Zenon, <2>2, <2>3, <2>4, <2>5 DEF Cut
  <1>3. CASE at # {}
    <2>1. at \in SUBSET (1..Len(x))
      BY <1>1
    <2>2. cut = Min(at)
      BY <1>3
    <2>3. cut \in at /\ \A j \in at : cut <= j
      BY Zenon, <1>1, <1>3, <2>1, <2>2, FirstPlace
    <2>4. cut \in 1..Len(x) /\ x[cut] \in Markers /\ \A i \in 1..(cut - 1) : x[i] \in Char
      <3>1. cut \in 1..Len(x) /\ x[cut] \in Markers
        BY <1>1, <2>3
      <3>2. ASSUME NEW i \in 1..(cut - 1)
            PROVE  x[i] \in Char
        <4> HIDE DEF cut
        <4>1. i \in 1..Len(x) /\ ~(cut <= i)
          BY <1>1, <3>1
        <4>2. i \notin at
          BY <2>3, <4>1
        <4> QED BY <1>1, <4>1, <4>2 DEF TextUnit
      <3> QED BY <3>1, <3>2
    <2>5. m = x[cut]
      BY <1>3
    <2> HIDE DEF cut
    <2>6. CutsAt(x, cut) /\ r \in Seq(TextUnit)
      BY <2>4, CutInThree
    <2>7. s \in Seq(Char)
      BY <1>1, <2>4
    <2>8. MarkerText(m) = <<m>>
      BY Zenon, <2>4, <2>5, UnitsAre DEF MarkerText
    <2> HIDE DEF m
    <2> QED BY Zenon, <2>4, <2>5, <2>6, <2>7, <2>8 DEF Cut, CutsAt
  <1> QED BY <1>2, <1>3

\* The text before the first special becomes the span.
LEMMA CutSpanKeeps == PromptInv /\ CutSpan => PromptInv'
  <1> SUFFICES ASSUME PromptInv, CutSpan PROVE PromptInv'
    OBVIOUS
  <1>1. PromptTypes /\ BetweenInv /\ KeptInv /\ promptPc = "cut" /\ promptPc' = "merge"
    BY DEF PromptInv, CutSpan
  <1>2. UNCHANGED <<inbox, system, text, ids, chat>>
    BY DEF CutSpan
  <1>3. rest \in Seq(TextUnit) /\ text \in Seq(TextUnit) /\ ids \in Seq(Token)
    BY <1>1 DEF PromptTypes
  <1>4. Cut(rest, span', marker', rest')
    BY Zenon, <1>3, CutIs DEF CutSpan
  <1>5. pieces' = [i \in DOMAIN span' |-> <<Normal(span'[i])>>]
    BY DEF CutSpan
  <1>6. pieces' \in Seq(Piece) /\ Joined(PieceBytes, pieces') = Joined(KeptOf, span')
    BY Zenon, <1>4, <1>5, CharactersOf DEF Cut
  <1>7. AllKept(text, ids, span', marker', rest')
    <2> DEFINE d == Joined(TokenBytes, ids)
               s == Joined(KeptOf, span')
               m == MarkerBytes(marker')
               r == Joined(KeptOf, rest')
    <2>1. span = <<>> /\ marker = "none"
      BY <1>1 DEF BetweenInv
    <2>2. AllKept(text, ids, <<>>, "none", rest)
      BY <1>1, <2>1 DEF KeptInv
    <2>3. Joined(KeptOf, text) = d \o Joined(KeptOf, rest)
      BY Zenon, <1>3, <2>2, OnlyTheRest
    <2>4. span' \in Seq(TextUnit)
      BY <1>4 DEF Cut, TextUnit
    <2>5. /\ MarkerText(marker') \in Seq(TextUnit) /\ m \in Seq(STRING) /\ rest' \in Seq(TextUnit)
          /\ Joined(KeptOf, MarkerText(marker')) = m
      BY Zenon, <1>4, MarkerTextKept DEF Cut
    <2>6. MarkerText(marker') \o rest' \in Seq(TextUnit)
      <3> DEFINE t == MarkerText(marker')
      <3>1. t \in Seq(TextUnit)
        BY <2>5
      <3> HIDE DEF t
      <3>2. t \o rest' \in Seq(TextUnit)
        BY <2>5, <3>1
      <3> QED BY <3>2 DEF t
    <2>7. InParts(KeptOf, MarkerText(marker'), rest') /\ InParts(KeptOf, span', MarkerText(marker') \o rest')
      BY Zenon, <2>4, <2>5, <2>6, KeptIs, JoinedInParts
    <2>8. Joined(KeptOf, rest) = s \o (m \o r)
      BY Zenon, <1>4, <2>5, <2>7 DEF InParts, Cut
    <2>9. d \in Seq(STRING) /\ s \in Seq(STRING) /\ r \in Seq(STRING)
      BY Zenon, <1>3, <2>4, <2>5, TablesTyped, KeptIs, JoinedInParts
    <2> HIDE DEF d, s, m, r
    <2>10. FourTexts(d, s, m, r)
      BY <2>5, <2>9, FourTextsAssociate
    <2> QED BY Zenon, <2>3, <2>8, <2>10 DEF FourTexts, AllKept, d, s, m, r
  <1> QED BY <1>1, <1>2, <1>4, <1>6, <1>7
          DEF PromptInv, PromptTypes, RenderInv, BetweenInv, SpanInv, KeptInv, Cut

\* A merge keeps the bytes of the pieces.
LEMMA MergePairKeeps == PromptInv /\ MergePair => PromptInv'
  <1> SUFFICES ASSUME PromptInv, MergePair PROVE PromptInv'
    OBVIOUS
  <1>1. /\ promptPc = "merge" /\ Mergeable(pieces) # {}
        /\ pieces' = JoinAt(pieces, BestPair(pieces))
        /\ UNCHANGED <<promptPc, inbox, system, text, rest, span, marker, ids, chat>>
    BY DEF MergePair
  <1>2. pieces \in Seq(Piece) /\ Joined(PieceBytes, pieces) = Joined(KeptOf, span)
    BY <1>1 DEF PromptInv, SpanInv
  <1>3. BestPair(pieces) \in Mergeable(pieces)
    BY Zenon, <1>1, <1>2, BestPairIs
  <1>4. pieces' \in Seq(Piece) /\ Joined(PieceBytes, pieces') = Joined(PieceBytes, pieces)
    BY Zenon, <1>1, <1>2, <1>3, JoinKeeps
  <1> QED BY <1>1, <1>2, <1>4
          DEF PromptInv, PromptTypes, RenderInv, BetweenInv, SpanInv, KeptInv

\* The tokens of the pieces and of the special are decoded to what is kept of them.
LEMMA EmitSpanKeeps == PromptInv /\ EmitSpan => PromptInv'
  <1> SUFFICES ASSUME PromptInv, EmitSpan PROVE PromptInv'
    OBVIOUS
  <1> DEFINE made == FlattenSeq([i \in DOMAIN pieces |-> PieceIds(pieces[i])])
             special == IF marker = "none" THEN <<>> ELSE MarkerIds(marker)
  <1>1. /\ promptPc = "merge" /\ promptPc' = "cut" /\ span' = <<>> /\ marker' = "none"
        /\ UNCHANGED <<inbox, system, text, rest, chat>>
    BY DEF EmitSpan
  <1>2. ids' = (ids \o made) \o special
    BY DEF EmitSpan, MarkerIds
  <1>3. /\ pieces \in Seq(Piece) /\ Joined(PieceBytes, pieces) = Joined(KeptOf, span)
        /\ AllKept(text, ids, span, marker, rest) /\ PromptTypes
    BY <1>1 DEF PromptInv, SpanInv, KeptInv
  <1>4. /\ text \in Seq(TextUnit) /\ rest \in Seq(TextUnit) /\ ids \in Seq(Token)
        /\ marker \in Markers \cup {"none"} /\ span \in Seq(TextUnit)
    BY <1>3 DEF PromptTypes, TextUnit
  <1>5. made \in Seq(Token) /\ Joined(TokenBytes, made) = Joined(KeptOf, span)
    BY Zenon, <1>3, PiecesDecoded
  <1>6. special \in Seq(Token) /\ Joined(TokenBytes, special) = MarkerBytes(marker)
    <2>1. CASE marker = "none"
      <3>1. PICK t \in Token : TRUE
        <4>1. <<>> \in Seq(TextUnit)
          BY EmptySeq
        <4> QED BY Zenon, <4>1, TokensAre
      <3>2. FewJoined(TokenBytes, t)
        BY Zenon, <3>1, TablesTyped, JoinedFew
      <3>3. <<>> \in Seq(Token)
        BY EmptySeq
      <3> QED BY Zenon, <2>1, <3>2, <3>3 DEF FewJoined, MarkerBytes
    <2>2. CASE marker # "none"
      <3>1. marker \in Markers
        BY Zenon, <1>4, <2>2
      <3> QED BY Zenon, <2>2, <3>1, MarkerKept DEF MarkerBytes
    <2> QED BY <2>1, <2>2
  <1> HIDE DEF made, special
  <1>7. ids \o made \in Seq(Token) /\ (ids \o made) \o special \in Seq(Token)
    BY <1>4, <1>5, <1>6
  <1>8. InParts(TokenBytes, ids, made) /\ InParts(TokenBytes, ids \o made, special)
    BY Zenon, <1>4, <1>5, <1>6, <1>7, TablesTyped, JoinedInParts
  <1>9. Joined(TokenBytes, ids')
          = (Joined(TokenBytes, ids) \o Joined(KeptOf, span)) \o MarkerBytes(marker)
    BY Zenon, <1>2, <1>5, <1>6, <1>8 DEF InParts
  <1>10. ids' \in Seq(Token)
    BY Zenon, <1>2, <1>7
  <1>11. Joined(KeptOf, text) = Joined(TokenBytes, ids') \o Joined(KeptOf, rest)
    BY Zenon, <1>3, <1>9 DEF AllKept
  <1>12. AllKept(text, ids', <<>>, "none", rest)
    BY Zenon, <1>4, <1>10, <1>11, OnlyTheRest
  <1>13. <<>> \in Seq(Char)
    BY EmptySeq
  <1> QED BY <1>1, <1>3, <1>10, <1>12, <1>13
          DEF PromptInv, PromptTypes, RenderInv, BetweenInv, SpanInv, KeptInv

\* No step loses any of the text.
LEMMA PromptStepKeeps == PromptInv /\ [PromptNext]_promptVars => PromptInv'
  <1>1. PromptInv /\ Encoded => PromptInv'
    BY DEF PromptInv, PromptTypes, RenderInv, BetweenInv, SpanInv, KeptInv, Encoded
  <1>2. PromptInv /\ UNCHANGED promptVars => PromptInv'
    BY DEF PromptInv, PromptTypes, RenderInv, BetweenInv, SpanInv, KeptInv, promptVars
  <1> QED BY Zenon, <1>1, <1>2, RenderKeeps, EndChatKeeps, CutSpanKeeps, MergePairKeeps, EmitSpanKeeps
          DEF PromptNext

\* On the way from the text of a request to its tokens nothing is lost, doubled or
\* moved: for every vocabulary, every list of merges over it and every text, what the
\* tokens decode to, with the span, the special after it and the rest, is the text, but
\* for the bytes without a token, which encode (tokenizer.rs) leaves out silently.
THEOREM TokensAlwaysKeepTheText == PromptSpec => []TokensKeepTheText
  <1>1. PromptInv => TokensKeepTheText
    BY KeptIsKept DEF PromptInv
  <1> QED BY <1>1, PromptStarts, PromptStepKeeps, PTL DEF PromptSpec

-----------------------------------------------------------------------------
(***************************************************************************)
(* What is said of the messages of a chat.                                 *)
(***************************************************************************)

\* The letters of a text, as they are joined.
LetterOf == [u \in TextUnit |-> IF u \in Letters THEN <<u>> ELSE <<>>]

LettersInParts(x, y) == OnlyLetters(x \o y) = OnlyLetters(x) \o OnlyLetters(y)

\* The letters of a text are those of its parts.
LEMMA LettersAre ==
  /\ LetterOf \in [TextUnit -> Seq(Letters)]
  /\ \A x \in Seq(TextUnit) : OnlyLetters(x) = Joined(LetterOf, x) /\ OnlyLetters(x) \in Seq(Letters)
  /\ \A x, y \in Seq(TextUnit) : LettersInParts(x, y)
  <1>1. LetterOf \in [TextUnit -> Seq(Letters)]
    BY DEF LetterOf
  <1>2. ASSUME NEW x \in Seq(TextUnit)
        PROVE  OnlyLetters(x) = Joined(LetterOf, x) /\ OnlyLetters(x) \in Seq(Letters)
    <2>1. \A i \in DOMAIN x : x[i] \in TextUnit
      BY LenProperties, ElementOfSeq
    <2>2. \A i \in DOMAIN x : LetterOf[x[i]] = IF x[i] \in Letters THEN <<x[i]>> ELSE <<>>
      BY <2>1 DEF LetterOf
    <2>3. Each(LetterOf, x) = [i \in DOMAIN x |-> IF x[i] \in Letters THEN <<x[i]>> ELSE <<>>]
      BY Zenon, <2>2 DEF Each
    <2>4. Joined(LetterOf, x) \in Seq(Letters)
      BY Zenon, <1>1, JoinedInParts
    <2> QED BY Zenon, <2>3, <2>4 DEF Joined, OnlyLetters
  <1>3. ASSUME NEW x \in Seq(TextUnit), NEW y \in Seq(TextUnit)
        PROVE  LettersInParts(x, y)
    <2>1. InParts(LetterOf, x, y)
      BY Zenon, <1>1, JoinedInParts
    <2>2. x \o y \in Seq(TextUnit)
      OBVIOUS
    <2>3. OnlyLetters(x \o y) = Joined(LetterOf, x \o y)
      BY Zenon, <1>2, <2>2
    <2> QED BY Zenon, <1>2, <2>1, <2>3 DEF InParts, LettersInParts
  <1> QED BY Zenon, <1>1, <1>2, <1>3

NoLetters(x) == x \in Seq(TextUnit) /\ OnlyLetters(x) = <<>>

\* Nothing at all has no letters, nor has a unit that is no letter.
LEMMA NoLettersIn ==
  /\ NoLetters(<<>>)
  /\ \A u \in TextUnit \ Letters : NoLetters(<<u>>)
  /\ \A x, y : NoLetters(x) /\ NoLetters(y) => NoLetters(x \o y)
  <1>1. <<>> \in Seq(TextUnit) /\ <<>> \in Seq(Letters)
    BY EmptySeq
  <1>2. Space \in TextUnit
    BY Zenon, UnitsAre
  <1>3. NoLetters(<<>>)
    <2>1. FewJoined(LetterOf, Space)
      BY Zenon, <1>2, LettersAre, JoinedFew
    <2> QED BY Zenon, <1>1, <2>1, LettersAre DEF NoLetters, FewJoined
  <1>4. ASSUME NEW u \in TextUnit \ Letters
        PROVE  NoLetters(<<u>>)
    <2>1. FewJoined(LetterOf, u)
      BY Zenon, LettersAre, JoinedFew
    <2>2. LetterOf[u] = <<>>
      BY DEF LetterOf
    <2>3. <<u>> \in Seq(TextUnit)
      OBVIOUS
    <2> QED BY Zenon, <2>1, <2>2, <2>3, LettersAre DEF NoLetters, FewJoined
  <1>5. ASSUME NEW x, NEW y, NoLetters(x), NoLetters(y)
        PROVE  NoLetters(x \o y)
    <2>1. x \in Seq(TextUnit) /\ y \in Seq(TextUnit) /\ OnlyLetters(x) = <<>> /\ OnlyLetters(y) = <<>>
      BY Zenon, <1>5 DEF NoLetters
    <2>2. LettersInParts(x, y)
      BY Zenon, <2>1, LettersAre
    <2>3. x \o y \in Seq(TextUnit)
      BY <2>1
    <2>4. <<>> \o <<>> = <<>>
      OBVIOUS
    <2> QED BY Zenon, <2>1, <2>2, <2>3, <2>4 DEF LettersInParts, NoLetters
  <1> QED BY Zenon, <1>3, <1>4, <1>5

\* Two texts with the same letters in the same order.
SameLetters(x, y) == x \in Seq(TextUnit) /\ y \in Seq(TextUnit) /\ OnlyLetters(x) = OnlyLetters(y)

\* What has no letters may be put before a text or after it.
LEMMA LettersAlone ==
  ASSUME NEW x \in Seq(TextUnit), NEW y, NoLetters(y)
  PROVE  SameLetters(y \o x, x) /\ SameLetters(x \o y, x)
  <1>1. y \in Seq(TextUnit) /\ OnlyLetters(y) = <<>>
    BY Zenon DEF NoLetters
  <1>2. LettersInParts(x, y) /\ LettersInParts(y, x) /\ OnlyLetters(x) \in Seq(Letters)
    BY Zenon, <1>1, LettersAre
  <1>3. x \o y \in Seq(TextUnit) /\ y \o x \in Seq(TextUnit)
    BY <1>1
  <1> DEFINE l == OnlyLetters(x)
  <1>4. l \o <<>> = l /\ <<>> \o l = l
    <2>1. l \in Seq(Letters)
      BY <1>2
    <2> HIDE DEF l
    <2> QED BY <2>1
  <1> QED BY Zenon, <1>1, <1>2, <1>3, <1>4 DEF LettersInParts, SameLetters

\* What a turn says is its body; the rest of it is no letters.
LEMMA TurnSays ==
  /\ \A role \in RoleNames, body \in Seq(TextUnit) : SameLetters(Turn(role, body), body)
  /\ NoLetters(GenerationPrompt) /\ NoLetters(BlankLine)
  <1>1. /\ TurnOpen \in TextUnit \ Letters /\ TurnClose \in TextUnit \ Letters
        /\ Channel \in TextUnit \ Letters /\ ChannelEnd \in TextUnit \ Letters
        /\ RoleNames \subseteq TextUnit \ Letters
        /\ "model" \in RoleNames /\ "thought" \in RoleNames /\ "nl" \in RoleNames
    BY PromptConstants DEF TextUnit, Char, Markers, RoleNames
  <1>2. ASSUME NEW a \in TextUnit \ Letters, NEW b \in TextUnit \ Letters
        PROVE  NoLetters(<<a, b>>)
    <2>1. <<a, b>> = <<a>> \o <<b>>
      <3> DEFINE x == <<a>>
                 y == <<b>>
                 z == <<a, b>>
      <3>1. /\ x \in Seq({a, b}) /\ y \in Seq({a, b}) /\ z \in Seq({a, b})
            /\ Len(x) = 1 /\ Len(y) = 1 /\ Len(z) = 2
            /\ x[1] = a /\ y[1] = b /\ z[1] = a /\ z[2] = b
        OBVIOUS
      <3> HIDE DEF x, y, z
      <3> DEFINE w == x \o y
      <3>2. w \in Seq({a, b}) /\ IsBoth(w, x, y)
        BY Zenon, <3>1, BothIs
      <3> HIDE DEF w
      <3>3. Len(w) = 2 /\ w[1] = a /\ w[2] = b
        BY <3>1, <3>2 DEF IsBoth
      <3>4. w = z
        BY <3>1, <3>2, <3>3
      <3> QED BY Zenon, <3>4 DEF w, x, y, z
    <2> QED BY Zenon, <2>1, NoLettersIn
  <1>3. ASSUME NEW a \in TextUnit \ Letters, NEW b \in TextUnit \ Letters, NEW c \in TextUnit \ Letters
        PROVE  NoLetters(<<a, b, c>>)
    <2>1. <<a, b, c>> = <<a, b>> \o <<c>>
      OBVIOUS
    <2> QED BY Zenon, <1>2, <2>1, NoLettersIn
  <1>4. NoLetters(BlankLine)
    BY <1>1, <1>2 DEF BlankLine
  <1>5. NoLetters(GenerationPrompt)
    <2> DEFINE a == <<TurnOpen, "model", "nl">>
               b == <<Channel, "thought", "nl">>
               c == <<ChannelEnd>>
    <2>1. NoLetters(a) /\ NoLetters(b) /\ NoLetters(c)
      BY <1>1, <1>3, NoLettersIn
    <2>2. GenerationPrompt = (a \o b) \o c
      BY DEF GenerationPrompt
    <2> HIDE DEF a, b, c
    <2> QED BY Zenon, <2>1, <2>2, NoLettersIn
  <1>6. ASSUME NEW role \in RoleNames, NEW body \in Seq(TextUnit)
        PROVE  SameLetters(Turn(role, body), body)
    <2> DEFINE a == <<TurnOpen, role, "nl">>
               c == <<TurnClose, "nl">>
    <2>1. NoLetters(a) /\ NoLetters(c)
      BY <1>1, <1>2, <1>3
    <2>2. Turn(role, body) = a \o body \o c
      BY DEF Turn
    <2> HIDE DEF a, c
    <2>3. a \o body \in Seq(TextUnit) /\ a \o body \o c = (a \o body) \o c
      BY <2>1 DEF NoLetters
    <2>4. SameLetters(a \o body, body) /\ SameLetters((a \o body) \o c, a \o body)
      BY Zenon, <2>1, <2>3, LettersAlone
    <2> QED BY Zenon, <2>2, <2>3, <2>4 DEF SameLetters
  <1> QED BY Zenon, <1>4, <1>5, <1>6

\* The turn that takes a system message: the first of the user after it, or the end.
Takes(c, j, t) ==
  /\ t \in Places(c) /\ t > j /\ (t > Len(c) \/ IsUser(c[t]))
  /\ \A k \in Places(c) : k > j /\ (k > Len(c) \/ IsUser(c[k])) => t <= k

\* There is always one.
LEMMA TakesIs ==
  ASSUME NEW c \in Seq(Message), NEW j \in 1..Len(c)
  PROVE  Takes(c, j, TakesSystem(c, j))
  <1> DEFINE at == {k \in Places(c) : k > j /\ (k > Len(c) \/ IsUser(c[k]))}
             n == Len(c) + 1
  <1>1. Len(c) \in Nat /\ n \in Nat /\ Places(c) = 1..n
    BY DEF Places
  <1>2. at \in SUBSET (1..n)
    BY <1>1
  <1>3. n \in at
    BY <1>1
  <1>4. TakesSystem(c, j) = Min(at)
    BY Zenon DEF TakesSystem
  <1> HIDE DEF n
  <1>5. Min(at) \in at /\ \A k \in at : Min(at) <= k
    <2> HIDE DEF at
    <2> QED BY Zenon, <1>1, <1>2, <1>3, FirstPlace
  <1> QED BY Zenon, <1>4, <1>5 DEF Takes

\* Nobody is of two kinds.
LEMMA OneKind == \A m : ~(IsSystem(m) /\ IsUser(m))
  BY DEF IsSystem, IsUser

\* What the turn at k + 1 has to take of the first k messages: the system messages
\* that no turn has taken.
HeldText(c, k, j) == IF IsSystem(c[j]) /\ TakesSystem(c, j) > k THEN MessageText(c[j]) ELSE <<>>
Held(c, k) == FlattenSeq([j \in 1..k |-> HeldText(c, k, j)])
\* What the turn at k takes.
TakenText(c, k, j) == IF IsSystem(c[j]) /\ TakesSystem(c, j) = k THEN MessageText(c[j]) ELSE <<>>
Taken(c, k) == FlattenSeq([j \in DOMAIN c |-> TakenText(c, k, j)])
\* What the turns up to k say.
Told(c, k) == FlattenSeq([j \in 1..k |-> SaidAt(c, j)])

\* These are texts.
LEMMA TextsAre ==
  ASSUME NEW c \in Seq(Message)
  PROVE  /\ Len(c) \in Nat /\ DOMAIN c = 1..Len(c)
         /\ \A j \in 1..Len(c) : c[j] \in Message /\ MessageText(c[j]) \in Seq(TextUnit)
         /\ \A k, j : j \in 1..Len(c) => /\ HeldText(c, k, j) \in Seq(TextUnit)
                                         /\ TakenText(c, k, j) \in Seq(TextUnit)
         /\ <<>> \in Seq(TextUnit)
  <1>1. Len(c) \in Nat /\ DOMAIN c = 1..Len(c)
    OBVIOUS
  <1>2. \A j \in 1..Len(c) : c[j] \in Message
    OBVIOUS
  <1>3. \A j \in 1..Len(c) : MessageText(c[j]) \in Seq(TextUnit)
    BY Zenon, <1>2, MessageTextIs
  <1>4. <<>> \in Seq(TextUnit)
    BY EmptySeq
  <1>5. \A k, j : j \in 1..Len(c) => HeldText(c, k, j) \in Seq(TextUnit) /\ TakenText(c, k, j) \in Seq(TextUnit)
    BY Zenon, <1>3, <1>4 DEF HeldText, TakenText
  <1> QED BY Zenon, <1>1, <1>2, <1>3, <1>4, <1>5


\* The first n of the sequences f, joined.
FirstJoined(f, n) == FlattenSeq([j \in 1..n |-> f[j]])

FirstGoesOn(f, n) == FirstJoined(f, n + 1) = FirstJoined(f, n) \o f[n + 1]

\* One more comes after them.
LEMMA FirstOneMore ==
  ASSUME NEW T, NEW m \in Nat, NEW f \in [1..m -> Seq(T)], NEW n \in 0..m
  PROVE  FirstJoined(f, n) \in Seq(T) /\ (n + 1 <= m => FirstGoesOn(f, n))
  <1> DEFINE a == [j \in 1..n |-> f[j]]
             b == [j \in 1..(n + 1) |-> f[j]]
  <1>1. a \in Seq(Seq(T)) /\ Len(a) = n /\ \A j \in 1..n : a[j] = f[j]
    OBVIOUS
  <1>2. FirstJoined(f, n) \in Seq(T)
    <2> HIDE DEF a
    <2>1. <<>> \in Seq(T)
      BY EmptySeq
    <2>2. FlattenSeq(a) \in Seq(T)
      BY Zenon, <1>1, <2>1, FlattenAppend
    <2> QED BY Zenon, <2>2 DEF FirstJoined, a
  <1>3. ASSUME n + 1 <= m PROVE FirstGoesOn(f, n)
    <2>1. b \in Seq(Seq(T)) /\ Len(b) = n + 1 /\ \A j \in 1..(n + 1) : b[j] = f[j]
      BY <1>3
    <2>2. f[n + 1] \in Seq(T)
      BY <1>3
    <2> DEFINE e == f[n + 1]
    <2>3. e \in Seq(T) /\ b[n + 1] = e
      BY <2>1, <2>2
    <2>4. \A j \in 1..n : b[j] = a[j]
      BY <1>1, <2>1
    <2> HIDE DEF a, b, e
    <2>5. b = Append(a, e)
      <3>1. Append(a, e) \in Seq(Seq(T)) /\ Len(Append(a, e)) = n + 1
        BY <1>1, <2>3
      <3>2. \A j \in 1..(n + 1) : b[j] = Append(a, e)[j]
        <4>1. /\ \A j \in 1..n : Append(a, e)[j] = a[j]
              /\ Append(a, e)[n + 1] = e
          BY <1>1, <2>3, AppendProperties
        <4>2. \A j \in 1..(n + 1) : j = n + 1 \/ j \in 1..n
          OBVIOUS
        <4> QED BY Zenon, <2>3, <2>4, <4>1, <4>2
      <3> QED BY <2>1, <3>1, <3>2, SeqEqual
    <2>6. FlattenSeq(b) = FlattenSeq(a) \o e
      BY Zenon, <1>1, <2>3, <2>5, FlattenAppend
    <2> QED BY Zenon, <2>6 DEF FirstGoesOn, FirstJoined, a, b, e
  <1> QED BY Zenon, <1>2, <1>3

\* Those after the first n, which are empty, add nothing.
LEMMA RestIsEmpty ==
  ASSUME NEW T, NEW m \in Nat, NEW f \in [1..m -> Seq(T)], NEW n \in 0..m,
         \A j \in 1..m : n < j => f[j] = <<>>
  PROVE  FirstJoined(f, m) = FirstJoined(f, n)
  <1> DEFINE Bad == {k \in n..m : FirstJoined(f, k) # FirstJoined(f, n)}
  <1>1. ASSUME Bad # {} PROVE FALSE
    <2>0. Bad \subseteq Nat
      OBVIOUS
    <2>1. PICK k \in Bad : \A l \in Bad : k <= l
      BY Zenon, <1>1, <2>0, LeastNumber
    <2>2. k \in n..m /\ FirstJoined(f, k) # FirstJoined(f, n)
      BY <2>1
    <2>3. k # n
      BY <2>2
    <2> DEFINE l == k - 1
    <2>4. l \in n..m /\ l \in 0..m /\ l + 1 <= m /\ l + 1 = k /\ ~(k <= l) /\ k \in 1..m /\ n < k
      BY <2>2, <2>3
    <2> HIDE DEF l
    <2>5. FirstJoined(f, l) = FirstJoined(f, n)
      BY <2>1, <2>4
    <2>6. FirstGoesOn(f, l) /\ FirstJoined(f, l) \in Seq(T)
      BY Zenon, <2>4, FirstOneMore
    <2>7. f[k] = <<>>
      BY <2>4
    <2> DEFINE u == FirstJoined(f, l)
    <2>8. u \o <<>> = u
      <3>1. u \in Seq(T)
        BY <2>6
      <3> HIDE DEF u
      <3> QED BY <3>1
    <2> QED BY Zenon, <2>2, <2>4, <2>5, <2>6, <2>7, <2>8 DEF FirstGoesOn
  <1> QED BY <1>1

\* The messages after the first k have nothing that the turn at k + 1 takes.
TakesNoLater(c, k) == \A j \in 1..Len(c) : k < j => TakenText(c, k + 1, j) = <<>>
\* What it takes of the others is what is held for it.
TakesHeld(c, k) == \A j \in 1..Len(c) : j <= k => TakenText(c, k + 1, j) = HeldText(c, k, j)

\* A turn that takes what is held takes all of that, and nothing else.
LEMMA TakenIsHeld ==
  ASSUME NEW c \in Seq(Message), NEW k \in 0..Len(c), TakesNoLater(c, k), TakesHeld(c, k)
  PROVE  Taken(c, k + 1) = Held(c, k)
  <1> DEFINE m == Len(c)
             f == [j \in 1..m |-> TakenText(c, k + 1, j)]
  <1>1. m \in Nat /\ DOMAIN c = 1..m /\ k \in 0..m
    BY TextsAre
  <1>2. f \in [1..m -> Seq(TextUnit)]
    BY TextsAre
  <1>3. \A j \in 1..m : k < j => f[j] = <<>>
    BY DEF TakesNoLater
  <1>4. \A j \in 1..k : j \in 1..m /\ j <= k
    BY <1>1
  <1>5. \A j \in 1..k : f[j] = HeldText(c, k, j)
    BY <1>4 DEF TakesHeld
  <1>6. \A j \in 1..m : f[j] = TakenText(c, k + 1, j)
    OBVIOUS
  <1>7. Taken(c, k + 1) = FirstJoined(f, m)
    <2> HIDE DEF f, m
    <2>1. [j \in DOMAIN c |-> TakenText(c, k + 1, j)] = [j \in 1..m |-> f[j]]
      BY Zenon, <1>1, <1>6
    <2> QED BY Zenon, <2>1 DEF Taken, FirstJoined
  <1> HIDE DEF f, m
  <1>8. Held(c, k) = FirstJoined(f, k)
    <2>1. [j \in 1..k |-> HeldText(c, k, j)] = [j \in 1..k |-> f[j]]
      BY Zenon, <1>5
    <2> QED BY Zenon, <2>1 DEF Held, FirstJoined
  <1> QED BY Zenon, <1>1, <1>2, <1>3, <1>7, <1>8, RestIsEmpty

\* If nothing is taken, that is nothing.
LEMMA NothingTaken ==
  ASSUME NEW c \in Seq(Message), NEW k, \A j \in 1..Len(c) : TakenText(c, k, j) = <<>>
  PROVE  Taken(c, k) = <<>>
  <1> DEFINE m == Len(c)
             f == [j \in 1..m |-> <<>>]
  <1>1. m \in Nat /\ DOMAIN c = 1..m /\ 0 \in 0..m
    BY TextsAre
  <1>2. f \in [1..m -> Seq(TextUnit)]
    BY TextsAre
  <1>3. \A j \in 1..m : f[j] = <<>>
    OBVIOUS
  <1>4. Taken(c, k) = FirstJoined(f, m)
    <2> HIDE DEF f
    <2>1. [j \in DOMAIN c |-> TakenText(c, k, j)] = [j \in 1..m |-> f[j]]
      BY Zenon, <1>1, <1>3
    <2> QED BY Zenon, <2>1 DEF Taken, FirstJoined
  <1> HIDE DEF m, f
  <1>5. FirstJoined(f, m) = FirstJoined(f, 0)
    BY Zenon, <1>1, <1>2, <1>3, RestIsEmpty
  <1>6. FirstJoined(f, 0) = <<>>
    <2>1. [j \in 1..0 |-> f[j]] = <<>>
      OBVIOUS
    <2>2. <<>> \in Seq(Seq(TextUnit))
      BY EmptySeq
    <2> QED BY Zenon, <2>1, <2>2, FlattenIs DEF FirstJoined
  <1> QED BY Zenon, <1>4, <1>5, <1>6

\* A turn of the user, and the end, take what is held.
LEMMA HeldIsTaken ==
  ASSUME NEW c \in Seq(Message), NEW k \in 0..Len(c), k < Len(c) => IsUser(c[k + 1])
  PROVE  Taken(c, k + 1) = Held(c, k)
  <1>1. Len(c) \in Nat /\ k + 1 \in Places(c) /\ (k + 1 > Len(c) \/ IsUser(c[k + 1]))
    BY DEF Places
  <1>2. ASSUME NEW j \in 1..Len(c)
        PROVE  (k < j => TakesSystem(c, j) # k + 1) /\ (j <= k => (TakesSystem(c, j) = k + 1 <=> TakesSystem(c, j) > k))
    <2> DEFINE t == TakesSystem(c, j)
    <2>1. Takes(c, j, t)
      BY Zenon, TakesIs
    <2> HIDE DEF t
    <2>2. t \in Nat /\ t > j /\ j \in Nat /\ k \in Nat
      BY <1>1, <2>1 DEF Takes, Places
    <2>3. j <= k => t <= k + 1
      <3>1. j <= k => k + 1 > j
        BY <2>2
      <3> QED BY Zenon, <1>1, <2>1, <3>1 DEF Takes
    <2>4. (k < j => t # k + 1) /\ (j <= k => (t = k + 1 <=> t > k))
      BY <2>2, <2>3
    <2> QED BY <2>4 DEF t
  <1>3. TakesNoLater(c, k)
    BY Zenon, <1>2 DEF TakesNoLater, TakenText
  <1>4. TakesHeld(c, k)
    BY Zenon, <1>2 DEF TakesHeld, TakenText, HeldText
  <1> QED BY Zenon, <1>3, <1>4, TakenIsHeld

\* Then nothing is held any more.
LEMMA NothingHeld ==
  ASSUME NEW c \in Seq(Message), NEW k \in 0..(Len(c) - 1), IsUser(c[k + 1])
  PROVE  Held(c, k + 1) = <<>>
  <1> DEFINE m == Len(c)
             f == [j \in 1..m |-> HeldText(c, k + 1, j)]
  <1>1. m \in Nat /\ k + 1 \in 1..m /\ k + 1 \in 0..m /\ k \in Nat /\ k + 1 \in Places(c)
    BY TextsAre DEF Places
  <1>2. f \in [1..m -> Seq(TextUnit)]
    BY TextsAre
  <1>3. ASSUME NEW j \in 1..(k + 1)
        PROVE  HeldText(c, k + 1, j) = <<>>
    <2>1. CASE j = k + 1
      <3>1. ~IsSystem(c[j])
        BY Zenon, <2>1, OneKind
      <3> QED BY Zenon, <3>1 DEF HeldText
    <2>2. CASE j # k + 1
      <3>1. j \in 1..Len(c) /\ k + 1 > j
        BY <1>1, <2>2
      <3> DEFINE t == TakesSystem(c, j)
      <3>2. Takes(c, j, t)
        BY Zenon, <3>1, TakesIs
      <3> HIDE DEF t
      <3>3. t <= k + 1 /\ t \in Nat
        BY <1>1, <3>1, <3>2 DEF Takes, Places
      <3>4. ~(t > k + 1)
        BY <1>1, <3>3
      <3> QED BY Zenon, <3>4 DEF HeldText, t
    <2> QED BY <2>1, <2>2
  <1> DEFINE g == [j \in 1..(k + 1) |-> <<>>]
  <1>4. g \in [1..(k + 1) -> Seq(TextUnit)] /\ \A j \in 1..(k + 1) : g[j] = <<>>
    BY TextsAre
  <1>5. Held(c, k + 1) = FirstJoined(g, k + 1)
    <2> HIDE DEF g
    <2>1. [j \in 1..(k + 1) |-> HeldText(c, k + 1, j)] = [j \in 1..(k + 1) |-> g[j]]
      BY Zenon, <1>3, <1>4
    <2> QED BY Zenon, <2>1 DEF Held, FirstJoined
  <1>6. k + 1 \in Nat /\ 0 \in 0..(k + 1)
    BY <1>1
  <1> HIDE DEF g, m, f
  <1>7. FirstJoined(g, k + 1) = FirstJoined(g, 0)
    BY Zenon, <1>4, <1>6, RestIsEmpty
  <1>8. FirstJoined(g, 0) = <<>>
    <2>1. [j \in 1..0 |-> g[j]] = <<>>
      OBVIOUS
    <2>2. <<>> \in Seq(Seq(TextUnit))
      BY EmptySeq
    <2> QED BY Zenon, <2>1, <2>2, FlattenIs DEF FirstJoined
  <1> QED BY Zenon, <1>5, <1>7, <1>8

HeldGoesOn(c, k) ==
  Held(c, k + 1) = Held(c, k) \o (IF IsSystem(c[k + 1]) THEN MessageText(c[k + 1]) ELSE <<>>)

\* Another message takes nothing, and is held itself if it is a system message.
LEMMA HeldOneMore ==
  ASSUME NEW c \in Seq(Message), NEW k \in 0..(Len(c) - 1), ~IsUser(c[k + 1])
  PROVE  HeldGoesOn(c, k) /\ Taken(c, k + 1) = <<>>
  <1> DEFINE m == Len(c)
             f == [j \in 1..m |-> HeldText(c, k + 1, j)]
  <1>1. m \in Nat /\ k + 1 \in 1..m /\ k \in 0..m /\ k \in Nat /\ k + 1 <= m
    BY TextsAre
  <1>2. f \in [1..m -> Seq(TextUnit)] /\ \A j \in 1..m : f[j] = HeldText(c, k + 1, j)
    BY TextsAre
  <1>3. ASSUME NEW j \in 1..m
        PROVE  LET t == TakesSystem(c, j) IN t \in Nat /\ t > j /\ t # k + 1
    <2> DEFINE t == TakesSystem(c, j)
    <2>1. Takes(c, j, t)
      BY Zenon, TakesIs
    <2> HIDE DEF t
    <2>2. t \in Nat /\ t > j /\ t # k + 1
      BY <1>1, <2>1 DEF Takes, Places
    <2> QED BY <2>2 DEF t
  <1>4. Taken(c, k + 1) = <<>>
    <2>1. \A j \in 1..Len(c) : TakenText(c, k + 1, j) = <<>>
      BY Zenon, <1>3 DEF TakenText
    <2> QED BY Zenon, <2>1, NothingTaken
  <1>5. f[k + 1] = IF IsSystem(c[k + 1]) THEN MessageText(c[k + 1]) ELSE <<>>
    <2>1. TakesSystem(c, k + 1) > k + 1
      BY <1>1, <1>3
    <2> QED BY Zenon, <1>1, <1>2, <2>1 DEF HeldText
  <1>6. \A j \in 1..k : f[j] = HeldText(c, k, j)
    <2> SUFFICES ASSUME NEW j \in 1..k PROVE f[j] = HeldText(c, k, j)
      OBVIOUS
    <2>1. j \in 1..m
      BY <1>1
    <2> DEFINE t == TakesSystem(c, j)
    <2>2. t \in Nat /\ t # k + 1
      BY Zenon, <1>3, <2>1
    <2> HIDE DEF t
    <2>3. t > k + 1 <=> t > k
      BY <1>1, <2>2
    <2> QED BY Zenon, <1>2, <2>1, <2>3 DEF HeldText, t
  <1> HIDE DEF f, m
  <1>7. FirstGoesOn(f, k)
    BY Zenon, <1>1, <1>2, FirstOneMore
  <1>8. Held(c, k) = FirstJoined(f, k)
    <2>1. [j \in 1..k |-> HeldText(c, k, j)] = [j \in 1..k |-> f[j]]
      BY Zenon, <1>6
    <2> QED BY Zenon, <2>1 DEF Held, FirstJoined
  <1>9. Held(c, k + 1) = FirstJoined(f, k + 1)
    <2>1. \A j \in 1..(k + 1) : j \in 1..m
      BY <1>1
    <2>2. [j \in 1..(k + 1) |-> HeldText(c, k + 1, j)] = [j \in 1..(k + 1) |-> f[j]]
      BY Zenon, <1>2, <2>1
    <2> QED BY Zenon, <2>2 DEF Held, FirstJoined
  <1> QED BY Zenon, <1>4, <1>5, <1>7, <1>8, <1>9 DEF FirstGoesOn, HeldGoesOn

\* What is held of no message is nothing, and no turn has said anything.
LEMMA HeldAtFirst ==
  ASSUME NEW c \in Seq(Message)
  PROVE  Held(c, 0) = <<>> /\ Told(c, 0) = <<>>
  <1>1. [j \in 1..0 |-> HeldText(c, 0, j)] = <<>> /\ [j \in 1..0 |-> SaidAt(c, j)] = <<>>
    OBVIOUS
  <1>2. <<>> \in Seq(Seq(TextUnit))
    BY EmptySeq
  <1> QED BY Zenon, <1>1, <1>2, FlattenIs DEF Held, Told

\* What a message says itself, where its turn is.
OwnText(c, k) == IF k <= Len(c) /\ ~IsSystem(c[k]) THEN MessageText(c[k]) ELSE <<>>

ToldGoesOn(c, k) == Told(c, k + 1) = Told(c, k) \o (Taken(c, k + 1) \o OwnText(c, k + 1))

\* What the turns say is made of texts, one after another.
LEMMA ToldOneMore ==
  ASSUME NEW c \in Seq(Message), NEW k \in 0..Len(c)
  PROVE  /\ Told(c, k) \in Seq(TextUnit) /\ Held(c, k) \in Seq(TextUnit)
         /\ Taken(c, k + 1) \in Seq(TextUnit) /\ OwnText(c, k + 1) \in Seq(TextUnit)
         /\ ToldGoesOn(c, k)
  <1> DEFINE m == Len(c)
             n == m + 1
             f == [j \in 1..n |-> SaidAt(c, j)]
             h == [j \in 1..m |-> HeldText(c, k, j)]
  <1>1. m \in Nat /\ n \in Nat /\ k \in 0..m /\ k \in 0..n /\ k + 1 <= n /\ k + 1 \in 1..n /\ m \in 0..m
    BY TextsAre
  <1>2. \A j : SaidAt(c, j) = Taken(c, j) \o OwnText(c, j)
    BY Zenon DEF SaidAt, Taken, TakenText, OwnText
  <1>3. ASSUME NEW j \in 1..n
        PROVE  Taken(c, j) \in Seq(TextUnit) /\ OwnText(c, j) \in Seq(TextUnit)
    <2> DEFINE g == [i \in 1..m |-> TakenText(c, j, i)]
    <2>1. g \in [1..m -> Seq(TextUnit)] /\ \A i \in 1..m : g[i] = TakenText(c, j, i)
      BY TextsAre
    <2> HIDE DEF g
    <2>2. FirstJoined(g, m) \in Seq(TextUnit)
      BY Zenon, <1>1, <2>1, FirstOneMore
    <2>3. DOMAIN c = 1..m
      BY TextsAre
    <2>4. [i \in DOMAIN c |-> TakenText(c, j, i)] = [i \in 1..m |-> g[i]]
      BY Zenon, <2>1, <2>3
    <2>5. Taken(c, j) \in Seq(TextUnit)
      BY Zenon, <2>2, <2>4 DEF Taken, FirstJoined
    <2>6. j <= Len(c) => j \in 1..Len(c)
      BY <1>1
    <2>7. OwnText(c, j) \in Seq(TextUnit)
      BY Zenon, <2>6, TextsAre DEF OwnText
    <2> QED BY Zenon, <2>5, <2>7
  <1>4. f \in [1..n -> Seq(TextUnit)] /\ \A j \in 1..n : f[j] = Taken(c, j) \o OwnText(c, j)
    <2>1. ASSUME NEW j \in 1..n
          PROVE  SaidAt(c, j) \in Seq(TextUnit)
      <3> DEFINE a == Taken(c, j)
                 b == OwnText(c, j)
      <3>1. a \in Seq(TextUnit) /\ b \in Seq(TextUnit) /\ SaidAt(c, j) = a \o b
        BY Zenon, <1>2, <1>3
      <3> HIDE DEF a, b
      <3>2. a \o b \in Seq(TextUnit)
        BY <3>1
      <3> QED BY Zenon, <3>1, <3>2
    <2> QED BY <1>2, <2>1
  <1>5. h \in [1..m -> Seq(TextUnit)] /\ \A j \in 1..m : h[j] = HeldText(c, k, j)
    BY TextsAre
  <1>6. \A j \in 1..(k + 1) : j \in 1..n
    BY <1>1
  <1>7. \A j \in 1..k : j \in 1..n /\ j \in 1..m
    BY <1>1
  <1>8. \A j \in 1..n : f[j] = SaidAt(c, j)
    OBVIOUS
  <1> HIDE DEF f, h, m, n
  <1>9. Told(c, k) = FirstJoined(f, k)
    <2>1. [j \in 1..k |-> SaidAt(c, j)] = [j \in 1..k |-> f[j]]
      BY Zenon, <1>7, <1>8
    <2> QED BY Zenon, <2>1 DEF Told, FirstJoined
  <1>10. Told(c, k + 1) = FirstJoined(f, k + 1)
    <2>1. [j \in 1..(k + 1) |-> SaidAt(c, j)] = [j \in 1..(k + 1) |-> f[j]]
      BY Zenon, <1>6, <1>8
    <2> QED BY Zenon, <2>1 DEF Told, FirstJoined
  <1>11. Held(c, k) = FirstJoined(h, k)
    <2>1. [j \in 1..k |-> HeldText(c, k, j)] = [j \in 1..k |-> h[j]]
      BY Zenon, <1>5, <1>7
    <2> QED BY Zenon, <2>1 DEF Held, FirstJoined
  <1>12. FirstJoined(f, k) \in Seq(TextUnit) /\ FirstGoesOn(f, k)
    BY Zenon, <1>1, <1>4, FirstOneMore
  <1>13. FirstJoined(h, k) \in Seq(TextUnit)
    BY Zenon, <1>1, <1>5, FirstOneMore
  <1> QED BY Zenon, <1>1, <1>3, <1>4, <1>9, <1>10, <1>11, <1>12, <1>13 DEF FirstGoesOn, ToldGoesOn

\* The letters are the same in what is the same in parts.
LEMMA SameInParts ==
  ASSUME NEW x, NEW y, NEW u, NEW v, SameLetters(x, y), SameLetters(u, v)
  PROVE  SameLetters(x \o u, y \o v)
  <1>1. /\ x \in Seq(TextUnit) /\ y \in Seq(TextUnit) /\ OnlyLetters(x) = OnlyLetters(y)
        /\ u \in Seq(TextUnit) /\ v \in Seq(TextUnit) /\ OnlyLetters(u) = OnlyLetters(v)
    BY Zenon DEF SameLetters
  <1>2. LettersInParts(x, u) /\ LettersInParts(y, v)
    BY Zenon, <1>1, LettersAre
  <1>3. x \o u \in Seq(TextUnit) /\ y \o v \in Seq(TextUnit)
    BY <1>1
  <1> QED BY Zenon, <1>1, <1>2, <1>3 DEF LettersInParts, SameLetters

\* What has no letters goes without saying.
LEMMA SameBut ==
  ASSUME NEW x, NEW y, NEW g, SameLetters(x, y), NoLetters(g)
  PROVE  SameLetters(x \o g, y)
  <1>1. x \in Seq(TextUnit)
    BY Zenon DEF SameLetters
  <1>2. SameLetters(x \o g, x)
    BY Zenon, <1>1, LettersAlone
  <1> QED BY Zenon, <1>2 DEF SameLetters

\* Nothing may be joined to a text.
LEMMA NothingJoined == \A x \in Seq(TextUnit) : x \o <<>> = x /\ <<>> \o x = x
  OBVIOUS

\* How many messages are rendered.
Seen == Len(chat) - Len(inbox)

\* The messages still to be rendered are the last ones of the request.
InboxInv ==
  promptPc = "render" =>
    /\ chat \in Seq(Message) /\ Len(inbox) <= Len(chat)
    /\ \A i \in 1..Len(inbox) : inbox[i] = chat[Seen + i]

\* The turns so far say what they have to, and the system text is what they left.
TurnsInv ==
  promptPc = "render" => SameLetters(text, Told(chat, Seen)) /\ SameLetters(system, Held(chat, Seen))

\* So do all of them, in the end.
AllToldInv ==
  (chat # <<>> /\ promptPc \in {"cut", "merge", "encoded"}) => SameLetters(text, Told(chat, Len(chat) + 1))

\* Every message so far is said, or held for the next turn of the user.
SaidInv == PromptTypes /\ InboxInv /\ TurnsInv /\ AllToldInv

\* At the start nothing is said.
LEMMA SaidStarts == PromptInit => SaidInv
  <1> SUFFICES ASSUME PromptInit PROVE SaidInv
    OBVIOUS
  <1>1. PromptTypes
    BY PromptStarts DEF PromptInv
  <1>2. CASE promptPc = "render"
    <2>1. /\ chat \in Conversations /\ inbox = chat /\ text = <<>> /\ system = <<>>
      BY <1>2 DEF PromptInit
    <2>2. chat \in Seq(Message) /\ Len(chat) \in Nat
      BY <2>1, PromptConstants
    <2>3. Seen = 0
      BY <2>1, <2>2 DEF Seen
    <2>4. InboxInv
      BY <2>1, <2>2, <2>3 DEF InboxInv
    <2>5. Held(chat, 0) = <<>> /\ Told(chat, 0) = <<>>
      BY Zenon, <2>2, HeldAtFirst
    <2>6. SameLetters(<<>>, <<>>)
      BY EmptySeq DEF SameLetters
    <2>7. TurnsInv
      BY Zenon, <2>1, <2>3, <2>5, <2>6 DEF TurnsInv
    <2>8. AllToldInv
      BY <1>2 DEF AllToldInv
    <2> QED BY <1>1, <2>4, <2>7, <2>8 DEF SaidInv
  <1>3. CASE promptPc = "cut"
    <2>1. chat = <<>>
      BY <1>3 DEF PromptInit
    <2> QED BY <1>1, <1>3, <2>1 DEF SaidInv, InboxInv, TurnsInv, AllToldInv
  <1> QED BY <1>2, <1>3 DEF PromptInit

\* The message that is rendered next.
NextSeen(m) == inbox # <<>> /\ m = inbox[1] /\ inbox' = Tail(inbox) /\ UNCHANGED <<promptPc, chat>>

\* It is the one after those that are seen, and then it is seen.
LEMMA NextIs ==
  ASSUME SaidInv, promptPc = "render", NEW m, NextSeen(m)
  PROVE  /\ Seen \in 0..(Len(chat) - 1) /\ m = chat[Seen + 1] /\ m \in Message /\ chat \in Seq(Message)
         /\ Seen' = Seen + 1 /\ InboxInv'
  <1>1. /\ chat \in Seq(Message) /\ inbox \in Seq(Message) /\ Len(inbox) <= Len(chat)
        /\ \A i \in 1..Len(inbox) : inbox[i] = chat[Seen + i]
    BY DEF SaidInv, InboxInv, PromptTypes
  <1>2. Len(chat) \in Nat /\ Len(inbox) \in Nat /\ Len(inbox) > 0 /\ 1 \in 1..Len(inbox)
    BY <1>1 DEF NextSeen
  <1>3. Seen \in 0..(Len(chat) - 1)
    BY <1>1, <1>2 DEF Seen
  <1>4. m = chat[Seen + 1]
    BY Zenon, <1>1, <1>2 DEF NextSeen
  <1>5. m \in Message
    BY <1>1, <1>2 DEF NextSeen
  <1>6. Len(inbox') = Len(inbox) - 1 /\ \A i \in 1..(Len(inbox) - 1) : inbox'[i] = inbox[i + 1]
    BY <1>1, <1>2 DEF NextSeen
  <1>7. chat' = chat /\ Seen' = Seen + 1
    BY <1>2, <1>6 DEF NextSeen, Seen
  <1>8. \A i \in 1..(Len(inbox) - 1) : inbox'[i] = chat[(Seen + 1) + i]
    <2> SUFFICES ASSUME NEW i \in 1..(Len(inbox) - 1) PROVE inbox'[i] = chat[(Seen + 1) + i]
      OBVIOUS
    <2>1. i + 1 \in 1..Len(inbox) /\ Seen + (i + 1) = (Seen + 1) + i
      BY <1>2, <1>3
    <2>2. inbox[i + 1] = chat[Seen + (i + 1)]
      BY Zenon, <1>1, <2>1
    <2> QED BY Zenon, <1>6, <2>1, <2>2
  <1>9. InboxInv'
    <2>1. Len(inbox') <= Len(chat')
      BY <1>1, <1>2, <1>6, <1>7
    <2> QED BY <1>1, <1>6, <1>7, <1>8, <2>1 DEF InboxInv
  <1> QED BY <1>1, <1>3, <1>4, <1>5, <1>7, <1>9

\* A system message is held.
LEMMA HoldKeepsSaid == SaidInv /\ PromptTypes' /\ HoldSystem => SaidInv'
  <1> SUFFICES ASSUME SaidInv, PromptTypes', HoldSystem PROVE SaidInv'
    OBVIOUS
  <1> DEFINE m == inbox[1]
             body == MessageText(m)
             gap == IF system = <<>> THEN <<>> ELSE BlankLine
             k == Seen
  <1>1. promptPc = "render" /\ NextSeen(m) /\ IsSystem(m) /\ UNCHANGED <<promptPc, chat, text>>
    BY DEF HoldSystem, NextSeen
  <1>2. system' = system \o gap \o body
    BY DEF HoldSystem
  <1>3. /\ k \in 0..(Len(chat) - 1) /\ m = chat[k + 1] /\ m \in Message /\ chat \in Seq(Message)
        /\ Seen' = k + 1 /\ InboxInv'
    BY Zenon, <1>1, NextIs
  <1>4. SameLetters(text, Told(chat, k)) /\ SameLetters(system, Held(chat, k))
    BY <1>1 DEF SaidInv, TurnsInv
  <1> HIDE DEF m, k, gap, body
  <1>5. Len(chat) \in Nat /\ k \in 0..Len(chat) /\ ~IsUser(chat[k + 1]) /\ IsSystem(chat[k + 1])
    BY <1>1, <1>3, OneKind
  <1>6. HeldGoesOn(chat, k) /\ Taken(chat, k + 1) = <<>>
    BY Zenon, <1>3, <1>5, HeldOneMore
  <1>7. Held(chat, k + 1) = Held(chat, k) \o body
    BY Zenon, <1>3, <1>5, <1>6 DEF HeldGoesOn, body
  <1>8. Told(chat, k + 1) = Told(chat, k)
    <2>1. OwnText(chat, k + 1) = <<>>
      BY Zenon, <1>5 DEF OwnText
    <2>2. ToldGoesOn(chat, k) /\ Told(chat, k) \in Seq(TextUnit)
      BY Zenon, <1>3, <1>5, ToldOneMore
    <2>3. <<>> \o <<>> = <<>>
      OBVIOUS
    <2> QED BY Zenon, <1>6, <2>1, <2>2, <2>3, NothingJoined DEF ToldGoesOn
  <1>9. SameLetters(system', Held(chat, k + 1))
    <2>1. NoLetters(gap)
      BY Zenon, NoLettersIn, TurnsAre, TurnSays DEF gap
    <2>2. SameLetters(system \o gap, Held(chat, k))
      BY Zenon, <1>4, <2>1, SameBut
    <2>3. body \in Seq(TextUnit)
      BY Zenon, <1>3, MessageTextIs DEF body
    <2>4. SameLetters(body, body)
      BY Zenon, <2>3 DEF SameLetters
    <2>5. SameLetters((system \o gap) \o body, Held(chat, k) \o body)
      BY Zenon, <2>2, <2>4, SameInParts
    <2> QED BY Zenon, <1>2, <1>7, <2>5
  <1>10. TurnsInv'
    BY Zenon, <1>1, <1>3, <1>4, <1>8, <1>9 DEF TurnsInv
  <1>11. AllToldInv'
    BY <1>1 DEF AllToldInv
  <1> QED BY <1>3, <1>10, <1>11 DEF SaidInv

\* A turn says its message and, if it is the user's, what was held.
LEMMA TurnKeepsSaid == SaidInv /\ PromptTypes' /\ RenderTurn => SaidInv'
  <1> SUFFICES ASSUME SaidInv, PromptTypes', RenderTurn PROVE SaidInv'
    OBVIOUS
  <1> DEFINE m == inbox[1]
             body == MessageText(m)
             role == IF IsUser(m) THEN "user" ELSE "model"
             spoken == IF IsUser(m) /\ system # <<>> THEN system \o BlankLine \o body ELSE body
             k == Seen
  <1>1. promptPc = "render" /\ NextSeen(m) /\ (IsUser(m) \/ m.role = "assistant") /\ UNCHANGED <<promptPc, chat>>
    BY DEF RenderTurn, NextSeen
  <1>2. text' = text \o Turn(role, spoken) /\ system' = SystemAfter(m)
    BY DEF RenderTurn
  <1>3. /\ k \in 0..(Len(chat) - 1) /\ m = chat[k + 1] /\ m \in Message /\ chat \in Seq(Message)
        /\ Seen' = k + 1 /\ InboxInv'
    BY Zenon, <1>1, NextIs
  <1>4. SameLetters(text, Told(chat, k)) /\ SameLetters(system, Held(chat, k))
    BY <1>1 DEF SaidInv, TurnsInv
  <1>5. ~IsSystem(m)
    BY <1>1 DEF IsSystem, IsUser
  <1> HIDE DEF m, k
  <1>6. Len(chat) \in Nat /\ k \in 0..Len(chat) /\ k + 1 <= Len(chat)
    BY <1>3
  <1>7. body \in Seq(TextUnit) /\ SameLetters(body, body)
    BY Zenon, <1>3, MessageTextIs DEF SameLetters
  <1>8. OwnText(chat, k + 1) = body
    BY Zenon, <1>3, <1>5, <1>6 DEF OwnText
  <1>9. role \in RoleNames
    BY Zenon, TurnsAre
  <1>10. ToldGoesOn(chat, k) /\ Held(chat, k) \in Seq(TextUnit)
    BY Zenon, <1>3, <1>6, ToldOneMore
  <1> HIDE DEF body, role
  <1>11. CASE IsUser(m)
    <2>1. Held(chat, k + 1) = <<>> /\ Taken(chat, k + 1) = Held(chat, k)
      BY Zenon, <1>3, <1>6, <1>11, NothingHeld, HeldIsTaken
    <2>2. SameLetters(spoken, Held(chat, k) \o body)
      <3>1. CASE system # <<>>
        <4>1. spoken = (system \o BlankLine) \o body
          BY Zenon, <1>11, <3>1
        <4>2. SameLetters(system \o BlankLine, Held(chat, k))
          BY Zenon, <1>4, TurnSays, SameBut
        <4> HIDE DEF spoken
        <4> QED BY Zenon, <1>7, <4>1, <4>2, SameInParts
      <3>2. CASE system = <<>>
        <4>1. spoken = body
          BY Zenon, <3>2
        <4>2. SameLetters(system \o body, Held(chat, k) \o body)
          BY Zenon, <1>4, <1>7, SameInParts
        <4>3. <<>> \o body = body
          BY Zenon, <1>7, NothingJoined
        <4> QED BY Zenon, <3>2, <4>1, <4>2, <4>3
      <3> QED BY <3>1, <3>2
    <2> HIDE DEF spoken
    <2>3. spoken \in Seq(TextUnit)
      BY Zenon, <2>2 DEF SameLetters
    <2>4. SameLetters(Turn(role, spoken), spoken)
      BY Zenon, <1>9, <2>3, TurnSays
    <2>5. SameLetters(Turn(role, spoken), Held(chat, k) \o body)
      BY Zenon, <2>2, <2>4 DEF SameLetters
    <2>6. SameLetters(text', Told(chat, k) \o (Held(chat, k) \o body))
      BY Zenon, <1>2, <1>4, <2>5, SameInParts
    <2>7. SameLetters(text', Told(chat, k + 1))
      BY Zenon, <1>8, <1>10, <2>1, <2>6 DEF ToldGoesOn
    <2>8. system' = <<>>
      BY Zenon, <1>2, <1>11 DEF SystemAfter
    <2>9. SameLetters(system', Held(chat, k + 1))
      BY Zenon, <2>1, <2>8, NoLettersIn DEF SameLetters, NoLetters
    <2> QED BY Zenon, <1>1, <1>3, <2>7, <2>9 DEF SaidInv, TurnsInv, AllToldInv
  <1>12. CASE ~IsUser(m)
    <2>1. HeldGoesOn(chat, k) /\ Taken(chat, k + 1) = <<>>
      BY Zenon, <1>3, <1>12, HeldOneMore
    <2>2. Held(chat, k + 1) = Held(chat, k)
      BY Zenon, <1>3, <1>5, <1>10, <2>1, NothingJoined DEF HeldGoesOn
    <2>3. spoken = body
      BY Zenon, <1>12
    <2> HIDE DEF spoken
    <2>4. SameLetters(Turn(role, spoken), body)
      BY Zenon, <1>7, <1>9, <2>3, TurnSays
    <2>5. SameLetters(text', Told(chat, k) \o body)
      BY Zenon, <1>2, <1>4, <2>4, SameInParts
    <2>6. SameLetters(text', Told(chat, k + 1))
      BY Zenon, <1>7, <1>8, <1>10, <2>1, <2>5, NothingJoined DEF ToldGoesOn
    <2>7. system' = system
      BY Zenon, <1>2, <1>12 DEF SystemAfter
    <2> QED BY Zenon, <1>1, <1>3, <1>4, <2>2, <2>6, <2>7 DEF SaidInv, TurnsInv, AllToldInv
  <1> QED BY <1>11, <1>12

\* What no turn has taken is said at the end.
LEMMA EndKeepsSaid == SaidInv /\ PromptTypes' /\ EndChat => SaidInv'
  <1> SUFFICES ASSUME SaidInv, PromptTypes', EndChat PROVE SaidInv'
    OBVIOUS
  <1> DEFINE last == IF system = <<>> THEN <<>> ELSE Turn("user", system)
             k == Len(chat)
  <1>1. /\ text' = (text \o last) \o GenerationPrompt /\ promptPc' = "cut"
        /\ promptPc = "render" /\ inbox = <<>> /\ UNCHANGED <<inbox, chat>>
    BY DEF EndChat
  <1>2. chat \in Seq(Message)
    BY <1>1 DEF SaidInv, InboxInv
  <1>3. k \in Nat /\ Seen = k /\ k \in 0..Len(chat) /\ ~(k < Len(chat)) /\ ~(k + 1 <= Len(chat))
    BY <1>1, <1>2 DEF Seen
  <1>4. SameLetters(text, Told(chat, k)) /\ SameLetters(system, Held(chat, k))
    BY <1>1, <1>3 DEF SaidInv, TurnsInv
  <1> HIDE DEF k
  <1>5. SameLetters(last, Held(chat, k))
    <2>1. CASE system = <<>>
      BY Zenon, <1>4, <2>1
    <2>2. CASE system # <<>>
      <3>1. system \in Seq(TextUnit)
        BY Zenon, <1>4 DEF SameLetters
      <3>2. SameLetters(Turn("user", system), system)
        BY Zenon, <3>1, TurnsAre, TurnSays
      <3> QED BY Zenon, <1>4, <2>2, <3>2 DEF SameLetters
    <2> QED BY <2>1, <2>2
  <1> HIDE DEF last
  <1>6. Taken(chat, k + 1) = Held(chat, k)
    BY Zenon, <1>2, <1>3, HeldIsTaken
  <1>7. OwnText(chat, k + 1) = <<>>
    BY Zenon, <1>3 DEF OwnText
  <1>8. ToldGoesOn(chat, k) /\ Held(chat, k) \in Seq(TextUnit)
    BY Zenon, <1>2, <1>3, ToldOneMore
  <1>9. Told(chat, k + 1) = Told(chat, k) \o Held(chat, k)
    BY Zenon, <1>6, <1>7, <1>8, NothingJoined DEF ToldGoesOn
  <1>10. SameLetters(text \o last, Told(chat, k) \o Held(chat, k))
    BY Zenon, <1>4, <1>5, SameInParts
  <1>11. SameLetters(text', Told(chat, k + 1))
    BY Zenon, <1>1, <1>9, <1>10, TurnSays, SameBut
  <1>12. promptPc' # "render"
    BY <1>1
  <1> QED BY Zenon, <1>1, <1>11, <1>12 DEF SaidInv, InboxInv, TurnsInv, AllToldInv, k

\* What is said stays said while it is encoded.
LEMMA EncodingKeepsSaid ==
  SaidInv /\ PromptTypes' /\ (Refuse \/ CutSpan \/ MergePair \/ EmitSpan \/ Encoded \/ UNCHANGED promptVars)
    => SaidInv'
  <1> SUFFICES ASSUME SaidInv, PromptTypes',
                      Refuse \/ CutSpan \/ MergePair \/ EmitSpan \/ Encoded \/ UNCHANGED promptVars
               PROVE  SaidInv'
    OBVIOUS
  <1>1. UNCHANGED <<text, chat, system, inbox>>
    BY DEF Refuse, CutSpan, MergePair, EmitSpan, Encoded, promptVars
  <1>2. /\ promptPc' = "render" => promptPc = "render"
        /\ promptPc' \in {"cut", "merge", "encoded"} => promptPc \in {"cut", "merge", "encoded"}
    BY DEF Refuse, CutSpan, MergePair, EmitSpan, Encoded, promptVars
  <1>3. Seen' = Seen
    BY <1>1 DEF Seen
  <1>4. InboxInv'
    BY <1>1, <1>2, <1>3 DEF SaidInv, InboxInv
  <1>5. TurnsInv'
    BY Zenon, <1>1, <1>2, <1>3 DEF SaidInv, TurnsInv
  <1>6. AllToldInv'
    BY Zenon, <1>1, <1>2 DEF SaidInv, AllToldInv
  <1> QED BY <1>4, <1>5, <1>6 DEF SaidInv

\* Every step says what it has to.
LEMMA SaidStepKeeps == SaidInv /\ PromptTypes' /\ [PromptNext]_promptVars => SaidInv'
  BY Zenon, HoldKeepsSaid, TurnKeepsSaid, EndKeepsSaid, EncodingKeepsSaid DEF PromptNext

\* What render_chat (openai.rs) makes of a conversation says every message once and in its
\* order, however many there are and of whatever roles: a system message in the next turn of
\* the user, or in one of its own at the end.  (The doc of render_chat says "the first user
\* turn"; that is the next one for the messages before it.)
THEOREM MessagesAreAlwaysSaidOnce == PromptSpec => []EveryMessageIsSaidOnce
  <1>1. SaidInv => EveryMessageIsSaidOnce
    <2> SUFFICES ASSUME SaidInv, chat # <<>>, promptPc \in {"cut", "merge", "encoded"}
                 PROVE  OnlyLetters(text) = OnlyLetters(FlattenSeq([k \in Places(chat) |-> SaidAt(chat, k)]))
      BY DEF EveryMessageIsSaidOnce
    <2>1. SameLetters(text, Told(chat, Len(chat) + 1))
      BY Zenon DEF SaidInv, AllToldInv
    <2> QED BY Zenon, <2>1 DEF SameLetters, Told, Places
  <1>2. PromptInv => PromptTypes
    BY DEF PromptInv
  <1> QED BY <1>1, <1>2, PromptStarts, PromptStepKeeps, SaidStarts, SaidStepKeeps, PTL DEF PromptSpec

-----------------------------------------------------------------------------
(***************************************************************************)
(* The merges in turn.                                                     *)
(***************************************************************************)

\* The pieces taken of the first n, for each n.
TakenFrom(f, ps, m, n) == f = [i \in 0..n |-> IF i = 0 THEN <<>> ELSE Take(f[i - 1], ps[i], m)]

\* There are such pieces.
LEMMA TakesExist == \A ps, m : \A n \in Nat : \E f : TakenFrom(f, ps, m, n)
  <1> SUFFICES ASSUME NEW ps, NEW m
               PROVE  \A n \in Nat : \E f : TakenFrom(f, ps, m, n)
    OBVIOUS
  <1> DEFINE Good(n) == \E f : TakenFrom(f, ps, m, n)
             Bad == {n \in Nat : ~Good(n)}
  <1>1. ASSUME Bad # {} PROVE FALSE
    <2>0. Bad \subseteq Nat
      OBVIOUS
    <2>1. PICK n \in Bad : \A k \in Bad : n <= k
      BY Zenon, <1>1, <2>0, LeastNumber
    <2>2. n \in Nat /\ ~Good(n)
      BY <2>1
    <2>3. CASE n = 0
      <3> DEFINE f == [k \in 0..0 |-> <<>>]
      <3>1. f = [k \in 0..0 |-> IF k = 0 THEN <<>> ELSE Take(f[k - 1], ps[k], m)]
        OBVIOUS
      <3>2. TakenFrom(f, ps, m, 0)
        BY Zenon, <3>1 DEF TakenFrom
      <3> QED BY Zenon, <2>2, <2>3, <3>2
    <2>4. CASE n # 0
      <3>1. n - 1 \in Nat /\ ~(n <= n - 1)
        BY <2>2, <2>4
      <3>2. Good(n - 1)
        <4> HIDE DEF Good
        <4> QED BY <2>1, <3>1
      <3>3. PICK e : TakenFrom(e, ps, m, n - 1)
        BY Zenon, <3>2
      <3> DEFINE f == [k \in 0..n |-> IF k = 0 THEN <<>> ELSE Take(e[k - 1], ps[k], m)]
      <3>4. \A k \in 0..(n - 1) : e[k] = IF k = 0 THEN <<>> ELSE Take(e[k - 1], ps[k], m)
        BY Zenon, <3>3 DEF TakenFrom
      <3>5. \A k \in 0..(n - 1) : k \in 0..n
        BY <2>2
      <3>6. \A k \in 0..(n - 1) : f[k] = e[k]
        BY Zenon, <3>4, <3>5
      <3>7. \A k \in 0..n : k = 0 \/ k - 1 \in 0..(n - 1)
        BY <2>2
      <3>8. \A k \in 0..n : f[k] = IF k = 0 THEN <<>> ELSE Take(f[k - 1], ps[k], m)
        BY Zenon, <3>6, <3>7
      <3>9. DOMAIN f = 0..n /\ f = [k \in 0..n |-> f[k]]
        BY Zenon
      <3> HIDE DEF f
      <3>10. TakenFrom(f, ps, m, n)
        BY Zenon, <3>8, <3>9 DEF TakenFrom
      <3> QED BY Zenon, <2>2, <3>10
    <2> QED BY <2>3, <2>4
  <1>2. ASSUME NEW n \in Nat PROVE Good(n)
    <2> HIDE DEF Good
    <2> QED BY <1>1
  <1> QED BY Zenon, <1>2

\* MergeAll takes all the pieces.
LEMMA MergeAllIs ==
  ASSUME NEW ps, NEW m, Len(ps) \in Nat
  PROVE  \E f : TakenFrom(f, ps, m, Len(ps)) /\ MergeAll(ps, m) = f[Len(ps)]
  <1> DEFINE n == Len(ps)
             f == CHOOSE f : f = [i \in 0..n |-> IF i = 0 THEN <<>> ELSE Take(f[i - 1], ps[i], m)]
  <1>1. \E g : TakenFrom(g, ps, m, n)
    BY Zenon, TakesExist
  <1>2. TakenFrom(f, ps, m, n)
    BY Zenon, <1>1 DEF TakenFrom
  <1>3. MergeAll(ps, m) = f[n]
    BY Zenon DEF MergeAll
  <1> QED BY Zenon, <1>2, <1>3

\* The pieces merged by the first n merges, for each n.
Merges(h, ps, n) == h = [k \in 0..n |-> IF k = 0 THEN ps ELSE MergeAll(h[k - 1], MergeList[k])]

\* There are such pieces.
LEMMA MergesExist == \A ps : \A n \in Nat : \E h : Merges(h, ps, n)
  <1> SUFFICES ASSUME NEW ps
               PROVE  \A n \in Nat : \E h : Merges(h, ps, n)
    OBVIOUS
  <1> DEFINE Good(n) == \E h : Merges(h, ps, n)
             Bad == {n \in Nat : ~Good(n)}
  <1>1. ASSUME Bad # {} PROVE FALSE
    <2>0. Bad \subseteq Nat
      OBVIOUS
    <2>1. PICK n \in Bad : \A k \in Bad : n <= k
      BY Zenon, <1>1, <2>0, LeastNumber
    <2>2. n \in Nat /\ ~Good(n)
      BY <2>1
    <2>3. CASE n = 0
      <3> DEFINE h == [k \in 0..0 |-> ps]
      <3>1. h = [k \in 0..0 |-> IF k = 0 THEN ps ELSE MergeAll(h[k - 1], MergeList[k])]
        OBVIOUS
      <3>2. Merges(h, ps, 0)
        BY Zenon, <3>1 DEF Merges
      <3> QED BY Zenon, <2>2, <2>3, <3>2
    <2>4. CASE n # 0
      <3>1. n - 1 \in Nat /\ ~(n <= n - 1)
        BY <2>2, <2>4
      <3>2. Good(n - 1)
        <4> HIDE DEF Good
        <4> QED BY <2>1, <3>1
      <3>3. PICK e : Merges(e, ps, n - 1)
        BY Zenon, <3>2
      <3> DEFINE h == [k \in 0..n |-> IF k = 0 THEN ps ELSE MergeAll(e[k - 1], MergeList[k])]
      <3>4. \A k \in 0..(n - 1) : e[k] = IF k = 0 THEN ps ELSE MergeAll(e[k - 1], MergeList[k])
        BY Zenon, <3>3 DEF Merges
      <3>5. \A k \in 0..(n - 1) : k \in 0..n
        BY <2>2
      <3>6. \A k \in 0..(n - 1) : h[k] = e[k]
        BY Zenon, <3>4, <3>5
      <3>7. \A k \in 0..n : k = 0 \/ k - 1 \in 0..(n - 1)
        BY <2>2
      <3>8. \A k \in 0..n : h[k] = IF k = 0 THEN ps ELSE MergeAll(h[k - 1], MergeList[k])
        BY Zenon, <3>6, <3>7
      <3>9. DOMAIN h = 0..n /\ h = [k \in 0..n |-> h[k]]
        BY Zenon
      <3> HIDE DEF h
      <3>10. Merges(h, ps, n)
        BY Zenon, <3>8, <3>9 DEF Merges
      <3> QED BY Zenon, <2>2, <3>10
    <2> QED BY <2>3, <2>4
  <1>2. ASSUME NEW n \in Nat PROVE Good(n)
    <2> HIDE DEF Good
    <2> QED BY <1>1
  <1> QED BY Zenon, <1>2

\* MergeInTurn goes through all the merges.
LEMMA MergeInTurnIs ==
  ASSUME NEW ps
  PROVE  \E h : Merges(h, ps, Len(MergeList)) /\ MergeInTurn(ps) = h[Len(MergeList)]
  <1> DEFINE n == Len(MergeList)
             h == CHOOSE h : h = [k \in 0..n |-> IF k = 0 THEN ps ELSE MergeAll(h[k - 1], MergeList[k])]
  <1>0. n \in Nat
    BY PromptConstants, LenProperties
  <1>1. \E g : Merges(g, ps, n)
    BY Zenon, <1>0, MergesExist
  <1>2. Merges(h, ps, n)
    BY Zenon, <1>1 DEF Merges
  <1>3. MergeInTurn(ps) = h[n]
    BY Zenon DEF MergeInTurn
  <1> QED BY Zenon, <1>2, <1>3

-----------------------------------------------------------------------------
\* The pair m is at i.
PairAt(ps, m, i) == <<ps[i], ps[i + 1]>> = m

\* No m before n.
NoneBefore(ps, m, n) == \A i \in 1..(n - 1) : ~PairAt(ps, m, i)

\* Up to the first m nothing is merged.
LEMMA TakenAsTheyAre ==
  ASSUME NEW S, NEW ps \in Seq(S), NEW m, NEW f, TakenFrom(f, ps, m, Len(ps)),
         NEW n \in 0..Len(ps), NoneBefore(ps, m, n)
  PROVE  \A k \in 0..n : f[k] = SubSeq(ps, 1, k)
  <1>0. Len(ps) \in Nat /\ n \in Nat /\ n <= Len(ps)
    BY LenProperties
  <1> DEFINE Bad == {k \in 0..n : f[k] # SubSeq(ps, 1, k)}
  <1> SUFFICES ASSUME Bad # {} PROVE FALSE
    OBVIOUS
  <1>1. Bad \subseteq Nat
    BY <1>0
  <1>2. PICK k \in Bad : \A j \in Bad : k <= j
    BY Zenon, <1>1, LeastNumber
  <1>3. k \in 0..n /\ k \in 0..Len(ps) /\ f[k] # SubSeq(ps, 1, k)
    BY <1>0, <1>2
  <1>4. \A i \in 0..Len(ps) : f[i] = IF i = 0 THEN <<>> ELSE Take(f[i - 1], ps[i], m)
    BY Zenon DEF TakenFrom
  <1>5. CASE k = 0
    <2>1. f[k] = <<>>
      BY Zenon, <1>3, <1>4, <1>5
    <2>2. SubSeq(ps, 1, 0) = <<>>
      BY SubSeqEmpty, <1>0
    <2> QED BY Zenon, <1>3, <1>5, <2>1, <2>2
  <1>6. CASE k # 0
    <2> DEFINE a == SubSeq(ps, 1, k - 1)
    <2>1. k - 1 \in 0..n /\ ~(k <= k - 1) /\ k \in 1..Len(ps) /\ k - 1 \in Nat
      BY <1>0, <1>3, <1>6
    <2>2. f[k - 1] = a
      <3> HIDE DEF a
      <3>1. k - 1 \notin Bad
        <4> HIDE DEF Bad
        <4> QED BY <1>2, <2>1
      <3> QED BY <2>1, <3>1 DEF a
    <2>3. f[k] = Take(a, ps[k], m)
      BY Zenon, <1>3, <1>4, <1>6, <2>2
    <2>4. ~(a # <<>> /\ <<Last(a), ps[k]>> = m)
      <3> SUFFICES ASSUME a # <<>> PROVE <<Last(a), ps[k]>> # m
        OBVIOUS
      <3>1. Len(a) = k - 1 /\ \A i \in 1..(k - 1) : a[i] = ps[i]
        BY <1>0, <2>1
      <3>2. k - 1 # 0
        <4> SUFFICES ASSUME k - 1 = 0 PROVE FALSE
          OBVIOUS
        <4>1. a = SubSeq(ps, 1, 0)
          BY Zenon
        <4>2. SubSeq(ps, 1, 0) = <<>>
          BY SubSeqEmpty
        <4> QED BY Zenon, <4>1, <4>2
      <3>3. k - 1 \in 1..(k - 1) /\ k - 1 \in 1..(n - 1) /\ (k - 1) + 1 = k
        BY <1>0, <1>3, <2>1, <3>2
      <3>4. Last(a) = ps[k - 1]
        BY Zenon, <3>1, <3>3 DEF Last
      <3> QED BY Zenon, <3>3, <3>4 DEF NoneBefore, PairAt
    <2>5. f[k] = Append(a, ps[k])
      BY Zenon, <2>3, <2>4 DEF Take
    <2>6. Append(a, ps[k]) = SubSeq(ps, 1, k)
      BY <1>0, <2>1
    <2> QED BY Zenon, <1>3, <2>5, <2>6
  <1> QED BY <1>5, <1>6

\* Without an m nothing is merged.
LEMMA NothingToMerge ==
  ASSUME NEW S, NEW ps \in Seq(S), NEW m, NoneBefore(ps, m, Len(ps))
  PROVE  MergeAll(ps, m) = ps
  <1>1. Len(ps) \in Nat /\ Len(ps) \in 0..Len(ps)
    BY LenProperties
  <1>2. PICK f : TakenFrom(f, ps, m, Len(ps)) /\ MergeAll(ps, m) = f[Len(ps)]
    BY Zenon, <1>1, MergeAllIs
  <1>3. f[Len(ps)] = SubSeq(ps, 1, Len(ps))
    BY Zenon, <1>1, <1>2, TakenAsTheyAre
  <1>4. SubSeq(ps, 1, Len(ps)) = ps
    OBVIOUS
  <1> QED BY Zenon, <1>2, <1>3, <1>4

\* The pieces after a join, one by one.
JoinedAt(ps, qs, i) ==
  /\ Len(ps) \in Nat /\ Len(qs) = Len(ps) - 1
  /\ \A k \in 1..(i - 1) : qs[k] = ps[k]
  /\ qs[i] = ps[i] \o ps[i + 1]
  /\ \A k \in (i + 1)..Len(qs) : qs[k] = ps[k + 1]
  /\ SubSeq(qs, 1, i - 1) = SubSeq(ps, 1, i - 1)

\* JoinAt makes these.
LEMMA JoinIs ==
  ASSUME NEW S, NEW ps \in Seq(S), NEW i \in 1..(Len(ps) - 1), ps[i] \o ps[i + 1] \in S
  PROVE  JoinAt(ps, i) \in Seq(S) /\ JoinedAt(ps, JoinAt(ps, i), i)
  <1> DEFINE d == ps[i] \o ps[i + 1]
             a == SubSeq(ps, 1, i - 1)
             b == SubSeq(ps, i + 2, Len(ps))
             qs == JoinAt(ps, i)
  <1>1. /\ Len(ps) \in Nat /\ i \in Nat /\ i >= 1 /\ i + 1 <= Len(ps)
        /\ \A k \in 1..Len(ps) : ps[k] \in S
    BY LenProperties, ElementOfSeq
  <1>2. /\ a \in Seq(S) /\ Len(a) = i - 1 /\ \A k \in 1..(i - 1) : a[k] = ps[k]
    BY <1>1
  <1>3. /\ b \in Seq(S) /\ Len(b) = Len(ps) - (i + 1)
        /\ \A k \in 1..(Len(ps) - (i + 1)) : b[k] = ps[k + (i + 1)]
    BY <1>1
  <1>4. qs = a \o <<d>> \o b
    BY Zenon DEF JoinAt
  <1>5. d \in S
    OBVIOUS
  <1> HIDE DEF a, b, d, qs
  <1> DEFINE c == a \o <<d>>
  <1>6. c \in Seq(S) /\ Len(c) = i /\ c[i] = d /\ \A k \in 1..(i - 1) : c[k] = ps[k]
    BY SMTT(30), <1>1, <1>2, <1>5
  <1> HIDE DEF c
  <1>7. qs = c \o b
    BY <1>4 DEF c
  <1>8. /\ qs \in Seq(S) /\ Len(qs) = Len(ps) - 1 /\ qs[i] = d
        /\ \A k \in 1..(i - 1) : qs[k] = ps[k]
    <2>1. qs \in Seq(S) /\ Len(qs) = Len(c) + Len(b) /\ \A k \in 1..Len(c) : qs[k] = c[k]
      <3>1. b \in Seq(S) /\ c \in Seq(S)
        BY Zenon, <1>3, <1>6
      <3> QED BY SMTT(60), <1>7, <3>1, ConcatProperties
    <2>2. Len(c) + Len(b) = Len(ps) - 1 /\ i \in 1..Len(c) /\ \A k \in 1..(i - 1) : k \in 1..Len(c)
      BY <1>1, <1>3, <1>6
    <2> QED BY Zenon, <1>6, <2>1, <2>2
  <1>9. ASSUME NEW k \in (i + 1)..Len(qs) PROVE qs[k] = ps[k + 1]
    <2>1. k - i \in 1..(Len(ps) - (i + 1)) /\ (k - i) + (i + 1) = k + 1 /\ ~(k <= i)
          /\ k \in 1..(Len(c) + Len(b))
      BY <1>1, <1>3, <1>6, <1>8
    <2>2. qs[k] = b[k - i]
      BY SMTT(30), <1>3, <1>6, <1>7, <2>1
    <2> QED BY <1>3, <2>1, <2>2
  <1>10. SubSeq(qs, 1, i - 1) = SubSeq(ps, 1, i - 1)
    BY <1>1, <1>8
  <1> QED BY <1>1, <1>8, <1>9, <1>10 DEF JoinedAt, qs, d

\* If the first m is joined, what MergeAll makes of the pieces is the same.
LEMMA JoinIsTheFirst ==
  ASSUME NEW S, NEW ps \in Seq(S), NEW qs \in Seq(S), NEW i \in 1..(Len(ps) - 1), NEW m,
         JoinedAt(ps, qs, i), PairAt(ps, m, i), NoneBefore(ps, m, i),
         m[1] \o m[2] # m[2]
  PROVE  MergeAll(qs, m) = MergeAll(ps, m)
  <1> DEFINE d == m[1] \o m[2]
             a == SubSeq(ps, 1, i - 1)
  <1>1. /\ Len(ps) \in Nat /\ Len(qs) \in Nat /\ Len(qs) = Len(ps) - 1
        /\ i \in Nat /\ i >= 1 /\ i + 1 <= Len(ps) /\ i - 1 \in Nat
    <2>1. Len(ps) \in Nat /\ Len(qs) \in Nat
      BY LenProperties
    <2>2. Len(qs) = Len(ps) - 1
      BY Zenon DEF JoinedAt
    <2> QED BY <2>1, <2>2
  <1>2. m[1] = ps[i] /\ m[2] = ps[i + 1]
    BY DEF PairAt
  <1>3. qs[i] = d
    BY Zenon, <1>2 DEF JoinedAt
  <1>4. PICK f : TakenFrom(f, ps, m, Len(ps)) /\ MergeAll(ps, m) = f[Len(ps)]
    BY Zenon, <1>1, MergeAllIs
  <1>5. PICK g : TakenFrom(g, qs, m, Len(qs)) /\ MergeAll(qs, m) = g[Len(qs)]
    BY Zenon, <1>1, MergeAllIs
  <1>6. \A k \in 0..Len(ps) : f[k] = IF k = 0 THEN <<>> ELSE Take(f[k - 1], ps[k], m)
    BY Zenon, <1>4 DEF TakenFrom
  <1>7. \A k \in 0..Len(qs) : g[k] = IF k = 0 THEN <<>> ELSE Take(g[k - 1], qs[k], m)
    BY Zenon, <1>5 DEF TakenFrom
  <1>8. f[i] = SubSeq(ps, 1, i)
    <2>1. i \in 0..Len(ps) /\ i \in 0..i
      BY <1>1
    <2> QED BY Zenon, <1>4, <2>1, TakenAsTheyAre
  <1>9. g[i - 1] = a
    <2>1. i - 1 \in 0..Len(qs) /\ i - 1 \in 0..(i - 1)
      BY <1>1
    <2>2. ASSUME NEW j \in 1..((i - 1) - 1) PROVE ~PairAt(qs, m, j)
      <3>1. j \in 1..(i - 1) /\ j + 1 \in 1..(i - 1)
        BY <1>1
      <3>2. qs[j] = ps[j] /\ qs[j + 1] = ps[j + 1]
        BY Zenon, <3>1 DEF JoinedAt
      <3> QED BY Zenon, <3>1, <3>2 DEF NoneBefore, PairAt
    <2>3. NoneBefore(qs, m, i - 1)
      BY Zenon, <2>2 DEF NoneBefore
    <2>4. g[i - 1] = SubSeq(qs, 1, i - 1)
      BY Zenon, <1>5, <2>1, <2>3, TakenAsTheyAre
    <2> QED BY Zenon, <2>4 DEF JoinedAt
  <1>10. f[i + 1] = Append(a, d)
    <2>1. i + 1 \in 0..Len(ps) /\ i + 1 # 0 /\ (i + 1) - 1 = i
      BY <1>1
    <2>2. f[i + 1] = Take(SubSeq(ps, 1, i), ps[i + 1], m)
      BY Zenon, <1>6, <1>8, <2>1
    <2> DEFINE c == SubSeq(ps, 1, i)
    <2>3. Len(c) = i /\ c # <<>> /\ c[i] = ps[i] /\ SubSeq(c, 1, i - 1) = a
      BY <1>1
    <2>4. Last(c) = ps[i] /\ Front(c) = a
      BY Zenon, <2>3 DEF Last, Front
    <2> HIDE DEF a, c, d
    <2>5. Take(c, ps[i + 1], m) = Append(a, d)
      BY Zenon, <2>3, <2>4 DEF Take, PairAt, d
    <2> QED BY Zenon, <2>2, <2>5 DEF c
  <1>11. g[i] = Append(a, d)
    <2>1. i \in 0..Len(qs) /\ i # 0
      BY <1>1
    <2>2. g[i] = Take(a, d, m)
      BY Zenon, <1>3, <1>7, <1>9, <2>1
    <2>3. <<Last(a), d>> # m
      <3> SUFFICES ASSUME <<Last(a), d>> = m PROVE FALSE
        OBVIOUS
      <3> DEFINE z == Last(a)
      <3> HIDE DEF z, d
      <3>1. m[2] = d
        BY DEF z
      <3> QED BY <3>1 DEF d
    <2> HIDE DEF a
    <2> QED BY Zenon, <2>2, <2>3 DEF Take
  <1> HIDE DEF a, d
  <1> DEFINE Bad == {k \in i..Len(qs) : g[k] # f[k + 1]}
  <1>12. ASSUME Bad # {} PROVE FALSE
    <2>1. Bad \subseteq Nat
      BY <1>1
    <2>2. PICK k \in Bad : \A j \in Bad : k <= j
      BY Zenon, <1>12, <2>1, LeastNumber
    <2>3. k \in i..Len(qs) /\ g[k] # f[k + 1]
      BY <2>2
    <2>4. k # i
      BY Zenon, <1>10, <1>11, <2>3
    <2>5. /\ k - 1 \in i..Len(qs) /\ ~(k <= k - 1) /\ k \in (i + 1)..Len(qs) /\ k \in 0..Len(qs) /\ k # 0
          /\ k + 1 \in 0..Len(ps) /\ k + 1 # 0 /\ (k + 1) - 1 = k /\ (k - 1) + 1 = k
      BY <1>1, <2>3, <2>4
    <2>6. k - 1 \notin Bad
      <3> HIDE DEF Bad
      <3> QED BY Zenon, <2>2, <2>5
    <2>7. g[k - 1] = f[k]
      BY Zenon, <2>5, <2>6
    <2>8. g[k] = Take(g[k - 1], qs[k], m) /\ f[k + 1] = Take(f[k], ps[k + 1], m)
      BY Zenon, <1>6, <1>7, <2>5
    <2>9. qs[k] = ps[k + 1]
      BY Zenon, <2>5 DEF JoinedAt
    <2> QED BY Zenon, <2>3, <2>7, <2>8, <2>9
  <1>13. Len(qs) \in i..Len(qs) /\ Len(qs) + 1 = Len(ps)
    BY <1>1
  <1>14. g[Len(qs)] = f[Len(ps)]
    BY Zenon, <1>12, <1>13
  <1> QED BY Zenon, <1>4, <1>5, <1>14

(***************************************************************************)
(* What the loop depends on, as the merges of a trained tokenizer have it: *)
(* no pair is listed twice, and a piece that is the result of a merge is   *)
(* part of later pairs only.  from_gguf does not check it.                 *)
(***************************************************************************)
Made(k) == MergeList[k][1] \o MergeList[k][2]
MergesBuildOnEarlierOnes ==
  /\ \A j, k \in DOMAIN MergeList : MergeList[j] = MergeList[k] => j = k
  /\ \A j, k \in DOMAIN MergeList : Made(j) \in {MergeList[k][1], MergeList[k][2]} => j < k

\* None of the first n merges applies.
NoneOfFirst(ps, n) == \A k \in 1..n : NoneBefore(ps, MergeList[k], Len(ps))

\* A join by a merge makes none of the earlier merges possible.
LEMMA JoinMakesNoEarlier ==
  ASSUME MergesBuildOnEarlierOnes, NEW ps, NEW qs, NEW i \in 1..(Len(ps) - 1), JoinedAt(ps, qs, i),
         NEW k \in DOMAIN MergeList, PairAt(ps, MergeList[k], i), NoneOfFirst(ps, k - 1)
  PROVE  NoneOfFirst(qs, k - 1)
  <1> SUFFICES ASSUME NEW r \in 1..(k - 1), NEW j \in 1..(Len(qs) - 1), PairAt(qs, MergeList[r], j)
               PROVE  FALSE
    BY Zenon DEF NoneOfFirst, NoneBefore
  <1>1. DOMAIN MergeList = 1..Len(MergeList) /\ Len(MergeList) \in Nat
    BY PromptConstants, LenProperties
  <1>2. r \in DOMAIN MergeList /\ ~(k < r) /\ r < k
    BY <1>1
  <1> DEFINE m == MergeList[r]
             n == MergeList[k]
  <1>3. n[1] = ps[i] /\ n[2] = ps[i + 1] /\ m[1] = qs[j] /\ m[2] = qs[j + 1]
    BY DEF PairAt
  <1>4. qs[i] = Made(k)
    BY Zenon, <1>3 DEF Made, JoinedAt
  <1>5. Made(k) # m[1] /\ Made(k) # m[2]
    BY Zenon, <1>2 DEF MergesBuildOnEarlierOnes
  <1>6. j # i /\ j + 1 # i
    BY Zenon, <1>3, <1>4, <1>5
  <1>7. Len(qs) = Len(ps) - 1 /\ Len(ps) \in Nat
    BY DEF JoinedAt
  <1>8. \A l \in 1..(Len(ps) - 1) : ~PairAt(ps, m, l)
    BY Zenon DEF NoneOfFirst, NoneBefore
  <1>9. PairAt(qs, m, j)
    OBVIOUS
  <1> HIDE DEF m, n
  <1>10. CASE j + 1 < i
    <2>1. j \in 1..(i - 1) /\ j + 1 \in 1..(i - 1) /\ j \in 1..(Len(ps) - 1)
      BY <1>7, <1>10
    <2>2. qs[j] = ps[j] /\ qs[j + 1] = ps[j + 1]
      BY Zenon, <2>1 DEF JoinedAt
    <2> QED BY Zenon, <1>8, <1>9, <2>1, <2>2 DEF PairAt
  <1>11. CASE i < j
    <2>1. j \in (i + 1)..Len(qs) /\ j + 1 \in (i + 1)..Len(qs) /\ j + 1 \in 1..(Len(ps) - 1)
      BY <1>7, <1>11
    <2>2. qs[j] = ps[j + 1] /\ qs[j + 1] = ps[(j + 1) + 1]
      BY Zenon, <2>1 DEF JoinedAt
    <2> QED BY Zenon, <1>8, <1>9, <2>1, <2>2 DEF PairAt
  <1> QED BY <1>6, <1>7, <1>10, <1>11

\* Merges that do not apply leave the pieces.
LEMMA MergesThatDoNothing ==
  ASSUME NEW S, NEW ps \in Seq(S), NEW n \in 0..Len(MergeList), NoneOfFirst(ps, n),
         NEW h, Merges(h, ps, Len(MergeList))
  PROVE  \A k \in 0..n : h[k] = ps
  <1>0. Len(MergeList) \in Nat
    BY PromptConstants, LenProperties
  <1> DEFINE Bad == {k \in 0..n : h[k] # ps}
  <1> SUFFICES ASSUME Bad # {} PROVE FALSE
    OBVIOUS
  <1>1. Bad \subseteq Nat
    BY <1>0
  <1>2. PICK k \in Bad : \A j \in Bad : k <= j
    BY Zenon, <1>1, LeastNumber
  <1>3. \A j \in 0..Len(MergeList) : h[j] = IF j = 0 THEN ps ELSE MergeAll(h[j - 1], MergeList[j])
    BY Zenon DEF Merges
  <1>4. k \in 0..n /\ k \in 0..Len(MergeList) /\ h[k] # ps
    BY <1>0, <1>2
  <1>5. k # 0
    BY Zenon, <1>3, <1>4
  <1>6. k - 1 \in 0..n /\ ~(k <= k - 1) /\ k \in 1..n
    BY <1>0, <1>4, <1>5
  <1>7. k - 1 \notin Bad
    <2> HIDE DEF Bad
    <2> QED BY Zenon, <1>2, <1>6
  <1>8. h[k] = MergeAll(ps, MergeList[k])
    BY Zenon, <1>3, <1>4, <1>5, <1>6, <1>7
  <1>9. NoneBefore(ps, MergeList[k], Len(ps))
    BY Zenon, <1>6 DEF NoneOfFirst
  <1>10. MergeAll(ps, MergeList[k]) = ps
    BY Zenon, <1>9, NothingToMerge
  <1> QED BY Zenon, <1>4, <1>8, <1>10

\* The merges that have a pair at i, and its rank.
LEMMA RankIs ==
  ASSUME MergesBuildOnEarlierOnes, NEW m
  PROVE  \A k \in DOMAIN MergeList : MergeList[k] = m => m \in DOMAIN MergeRank /\ MergeRank[m] = k
  <1> SUFFICES ASSUME NEW k \in DOMAIN MergeList, MergeList[k] = m
               PROVE  m \in DOMAIN MergeRank /\ MergeRank[m] = k
    OBVIOUS
  <1>1. DOMAIN MergeList = 1..Len(MergeList) /\ Len(MergeList) \in Nat
    BY PromptConstants, LenProperties
  <1>2. m \in ToSet(MergeList)
    BY Zenon DEF ToSet
  <1> DEFINE U == {i \in DOMAIN MergeList : MergeList[i] = m}
  <1>3. MergeRank[m] = Max(U) /\ DOMAIN MergeRank = ToSet(MergeList)
    BY Zenon, <1>2 DEF MergeRank
  <1>4. U = {k}
    BY Zenon DEF MergesBuildOnEarlierOnes
  <1> HIDE DEF U
  <1>5. Max({k}) = k
    <2>1. k >= k
      BY <1>1
    <2>2. (CHOOSE x \in {k} : \A y \in {k} : x >= y) \in {k}
      BY Zenon, <2>1
    <2> QED BY Zenon, <2>2 DEF Max
  <1> QED BY Zenon, <1>2, <1>3, <1>4, <1>5

\* A pair of merge k at i is where the loop may merge.
LEMMA MergeableWhere ==
  ASSUME MergesBuildOnEarlierOnes, NEW ps, NEW k \in DOMAIN MergeList,
         NEW i \in 1..(Len(ps) - 1), PairAt(ps, MergeList[k], i)
  PROVE  i \in Mergeable(ps) /\ MergeRank[<<ps[i], ps[i + 1]>>] = k
  BY Zenon, RankIs DEF PairAt, Mergeable

\* A step of the loop leaves what the merges in turn make of the pieces.
LEMMA BestPairKeepsMerges ==
  ASSUME MergesBuildOnEarlierOnes, NEW ps \in Seq(Piece), NEW i \in Mergeable(ps), IsBest(ps, i)
  PROVE  MergeInTurn(JoinAt(ps, i)) = MergeInTurn(ps)
  <1> DEFINE m == <<ps[i], ps[i + 1]>>
             qs == JoinAt(ps, i)
             N == Len(MergeList)
  <1>1. DOMAIN MergeList = 1..N /\ N \in Nat
    BY PromptConstants, LenProperties
  <1>2. PICK k \in DOMAIN MergeList : MergeList[k] = m
    <2>1. m \in ToSet(MergeList)
      BY Zenon DEF Mergeable, MergeRank
    <2> QED BY Zenon, <2>1 DEF ToSet
  <1>3. i \in 1..(Len(ps) - 1) /\ PairAt(ps, MergeList[k], i)
    BY Zenon, <1>2 DEF Mergeable, PairAt
  <1>4. MergeRank[m] = k
    BY Zenon, <1>3, MergeableWhere
  <1>5. Len(ps) \in Nat /\ k \in Nat /\ k >= 1 /\ i \in Nat
    BY <1>1, <1>3, LenProperties
  <1>6. \A r \in DOMAIN MergeList, j \in 1..(Len(ps) - 1) :
          PairAt(ps, MergeList[r], j) => k < r \/ (k = r /\ i <= j)
    <2> SUFFICES ASSUME NEW r \in DOMAIN MergeList, NEW j \in 1..(Len(ps) - 1),
                        PairAt(ps, MergeList[r], j)
                 PROVE  k < r \/ (k = r /\ i <= j)
      OBVIOUS
    <2>1. j \in Mergeable(ps) /\ MergeRank[<<ps[j], ps[j + 1]>>] = r
      BY Zenon, MergeableWhere
    <2> QED BY Zenon, <1>4, <2>1 DEF IsBest
  <1>7. NoneOfFirst(ps, k - 1)
    <2>1. \A r \in 1..(k - 1) : r \in DOMAIN MergeList /\ ~(k < r) /\ k # r
      BY <1>1, <1>5
    <2> QED BY Zenon, <1>6, <2>1 DEF NoneOfFirst, NoneBefore
  <1>8. NoneBefore(ps, MergeList[k], i)
    <2>1. \A j \in 1..(i - 1) : j \in 1..(Len(ps) - 1) /\ ~(i <= j) /\ ~(k < k)
      BY <1>3, <1>5
    <2> QED BY Zenon, <1>6, <2>1 DEF NoneBefore
  <1>9. ps[i] \o ps[i + 1] \in Piece
    BY Zenon, MergeableAre DEF Piece
  <1>10. qs \in Seq(Piece) /\ JoinedAt(ps, qs, i)
    BY Zenon, <1>3, <1>9, JoinIs
  <1> HIDE DEF qs
  <1>11. NoneOfFirst(qs, k - 1)
    BY Zenon, <1>3, <1>7, <1>10, JoinMakesNoEarlier
  <1>12. Made(k) # MergeList[k][2]
    <2>1. ~(k < k)
      BY <1>5
    <2> QED BY Zenon, <2>1 DEF MergesBuildOnEarlierOnes
  <1>13. MergeAll(qs, MergeList[k]) = MergeAll(ps, MergeList[k])
    BY Zenon, <1>3, <1>8, <1>10, <1>12, JoinIsTheFirst DEF Made
  <1>14. PICK h : Merges(h, ps, N) /\ MergeInTurn(ps) = h[N]
    BY Zenon, MergeInTurnIs
  <1>15. PICK e : Merges(e, qs, N) /\ MergeInTurn(qs) = e[N]
    BY Zenon, MergeInTurnIs
  <1>16. \A j \in 0..N : h[j] = IF j = 0 THEN ps ELSE MergeAll(h[j - 1], MergeList[j])
    BY Zenon, <1>14 DEF Merges
  <1>17. \A j \in 0..N : e[j] = IF j = 0 THEN qs ELSE MergeAll(e[j - 1], MergeList[j])
    BY Zenon, <1>15 DEF Merges
  <1>18. k - 1 \in 0..N /\ k - 1 \in 0..(k - 1) /\ k \in 0..N /\ k # 0
    BY <1>1, <1>5
  <1>19. h[k - 1] = ps /\ e[k - 1] = qs
    <2> DEFINE n == k - 1
    <2>0. n \in 0..Len(MergeList) /\ Merges(h, ps, Len(MergeList)) /\ Merges(e, qs, Len(MergeList))
          /\ NoneOfFirst(ps, n) /\ NoneOfFirst(qs, n) /\ qs \in Seq(Piece)
      BY Zenon, <1>7, <1>10, <1>11, <1>14, <1>15, <1>18
    <2> HIDE DEF n, m
    <2>1. \A j \in 0..n : h[j] = ps
      BY Zenon, <2>0, MergesThatDoNothing
    <2>2. \A j \in 0..n : e[j] = qs
      BY Zenon, <2>0, MergesThatDoNothing
    <2> QED BY Zenon, <1>18, <2>1, <2>2 DEF n
  <1>20. h[k] = e[k]
    BY Zenon, <1>13, <1>16, <1>17, <1>18, <1>19
  <1> DEFINE Bad == {j \in k..N : h[j] # e[j]}
  <1>21. ASSUME Bad # {} PROVE FALSE
    <2>1. Bad \subseteq Nat
      BY <1>1, <1>5
    <2>2. PICK j \in Bad : \A l \in Bad : j <= l
      BY Zenon, <1>21, <2>1, LeastNumber
    <2>3. j \in k..N /\ h[j] # e[j] /\ j # k
      BY <1>20, <2>2
    <2>4. j - 1 \in k..N /\ ~(j <= j - 1) /\ j \in 0..N /\ j # 0
      BY <1>1, <1>5, <2>3
    <2>5. j - 1 \notin Bad
      <3> HIDE DEF Bad
      <3> QED BY Zenon, <2>2, <2>4
    <2>6. h[j - 1] = e[j - 1]
      BY Zenon, <2>4, <2>5
    <2> QED BY Zenon, <1>16, <1>17, <2>3, <2>4, <2>6
  <1>22. N \in k..N
    BY <1>1, <1>5
  <1>23. h[N] = e[N]
    BY Zenon, <1>21, <1>22
  <1> QED BY Zenon, <1>14, <1>15, <1>23 DEF qs

\* When the loop finds no pair, the merges in turn find none.
LEMMA NothingLeftToMerge ==
  ASSUME MergesBuildOnEarlierOnes, NEW ps \in Seq(Piece), Mergeable(ps) = {}
  PROVE  MergeInTurn(ps) = ps
  <1> DEFINE N == Len(MergeList)
  <1>1. DOMAIN MergeList = 1..N /\ N \in Nat /\ N \in 0..N
    BY PromptConstants, LenProperties
  <1>2. NoneOfFirst(ps, N)
    <2>1. ASSUME NEW k \in 1..N, NEW i \in 1..(Len(ps) - 1), PairAt(ps, MergeList[k], i)
          PROVE  FALSE
      <3>1. i \in Mergeable(ps)
        BY Zenon, <1>1, <2>1, MergeableWhere
      <3> QED BY Zenon, <3>1
    <2> QED BY Zenon, <2>1 DEF NoneOfFirst, NoneBefore
  <1>3. PICK h : Merges(h, ps, Len(MergeList)) /\ MergeInTurn(ps) = h[Len(MergeList)]
    BY Zenon, MergeInTurnIs
  <1>4. N \in 0..Len(MergeList) /\ Merges(h, ps, Len(MergeList)) /\ NoneOfFirst(ps, N)
    BY Zenon, <1>1, <1>2, <1>3
  <1> HIDE DEF N
  <1>5. \A k \in 0..N : h[k] = ps
    BY Zenon, <1>4, MergesThatDoNothing
  <1> QED BY Zenon, <1>1, <1>3, <1>5 DEF N

\* The inductive invariant: what the merges in turn make of the pieces so far is what
\* they make of the characters of the span.
RanksInv == promptPc = "merge" => MergeInTurn(pieces) = MergeInTurn(Characters(span))

\* Each step keeps it.
LEMMA RanksKept ==
  ASSUME MergesBuildOnEarlierOnes, PromptInv, RanksInv, [PromptNext]_promptVars
  PROVE  RanksInv'
  <1>1. CASE CutSpan
    <2>1. pieces' = Characters(span')
      BY Zenon, <1>1 DEF CutSpan, Characters
    <2> QED BY Zenon, <2>1 DEF RanksInv, Characters
  <1>2. CASE MergePair
    <2>1. /\ promptPc = "merge" /\ Mergeable(pieces) # {} /\ span' = span
          /\ pieces' = JoinAt(pieces, BestPair(pieces))
      BY <1>2 DEF MergePair
    <2>2. pieces \in Seq(Piece)
      BY <2>1 DEF PromptInv, SpanInv
    <2>3. BestPair(pieces) \in Mergeable(pieces) /\ IsBest(pieces, BestPair(pieces))
      BY Zenon, <2>1, <2>2, BestPairIs
    <2>4. MergeInTurn(pieces') = MergeInTurn(pieces)
      BY Zenon, <2>1, <2>2, <2>3, BestPairKeepsMerges
    <2> QED BY Zenon, <2>1, <2>4 DEF RanksInv, Characters
  <1>3. CASE Refuse \/ HoldSystem \/ RenderTurn \/ EndChat \/ EmitSpan \/ Encoded
    BY <1>3 DEF RanksInv, Refuse, HoldSystem, RenderTurn, EndChat, EmitSpan, Encoded
  <1>4. CASE UNCHANGED promptVars
    BY <1>4 DEF RanksInv, promptVars, Characters
  <1> QED BY <1>1, <1>2, <1>3, <1>4 DEF PromptNext

\* With the merges of a trained tokenizer, the loop of encode (tokenizer.rs), which looks for
\* the best pair of the whole span again after every merge, makes the pieces that going
\* once through the list of merges makes: for every such list, vocabulary and text.
THEOREM PiecesAlwaysFollowTheRanks ==
  MergesBuildOnEarlierOnes => (PromptSpec => []PiecesFollowTheRanks)
  <1> SUFFICES ASSUME MergesBuildOnEarlierOnes PROVE PromptSpec => []PiecesFollowTheRanks
    OBVIOUS
  <1>1. PromptInit => PromptInv /\ RanksInv
    BY PromptStarts DEF PromptInit, RanksInv
  <1>2. PromptInv /\ RanksInv /\ [PromptNext]_promptVars => PromptInv' /\ RanksInv'
    BY PromptStepKeeps, RanksKept
  <1>3. PromptInv /\ RanksInv => PiecesFollowTheRanks
    <2> SUFFICES ASSUME PromptInv, RanksInv, promptPc = "merge", Mergeable(pieces) = {}
                 PROVE  pieces = MergeInTurn(Characters(span))
      BY Zenon DEF PiecesFollowTheRanks
    <2>1. pieces \in Seq(Piece)
      BY DEF PromptInv, SpanInv
    <2>2. MergeInTurn(pieces) = pieces
      BY Zenon, <2>1, NothingLeftToMerge
    <2> QED BY Zenon, <2>2 DEF RanksInv
  <1> QED BY <1>1, <1>2, <1>3, PTL DEF PromptSpec

===============================================================================
