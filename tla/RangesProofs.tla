----------------------------- MODULE RangesProofs ------------------------------
(***************************************************************************)
(* The answer to a GET is the right one, however its ranges and the blocks *)
(* of the file overlap, and for any number and any size of them.           *)
(***************************************************************************)
EXTENDS Ranges, WellFoundedInduction, SequenceTheorems, TLAPS

(* Induction, said with sets and functions only. *)

\* A nonempty set of naturals has a least member.
LEMMA LeastOfNat ==
    ASSUME NEW S \in SUBSET Nat, S # {}
    PROVE  \E n \in S : \A k \in S : n <= k
<1> DEFINE R == OpToRel(<, Nat)
<1>1. IsWellFoundedOn(R, Nat)
  BY NatLessThanWellFounded
<1>2. \A a, b \in Nat : a < b => <<a, b>> \in R
  BY DEF OpToRel
<1> HIDE DEF R
<1>3. PICK n \in S : \A k \in S : <<k, n>> \notin R
  BY <1>1, WFMin
<1>4. n \in Nat /\ \A k \in S : k \in Nat /\ ~(k < n)
  BY <1>2, <1>3
<1>5. QED
  BY <1>4

LEMMA SetInduction ==
    ASSUME NEW S, 0 \in S, \A n \in Nat : n \in S => n + 1 \in S
    PROVE  Nat \subseteq S
<1> SUFFICES ASSUME Nat \ S # {} PROVE FALSE
  OBVIOUS
<1>1. PICK n \in Nat \ S : \A k \in Nat \ S : n <= k
  BY LeastOfNat
<1>2. n # 0 /\ n - 1 \in Nat /\ ~(n <= n - 1)
  OBVIOUS
<1>3. n - 1 \in S
  BY <1>1, <1>2
<1>4. n \in S
  BY <1>2, <1>3
<1>5. QED
  BY <1>4

\* The function that starts with a and goes on step by step.
Follows(g, N, a, step) ==
    /\ g[0] = a
    /\ \A n \in 1 .. N : g[n] = step[n][g[n - 1]]

Steps(step, N, V) == \A n \in 1 .. N, v \in V : step[n][v] \in V

LEMMA Recursion ==
    ASSUME NEW V, NEW a \in V, NEW N \in Nat, NEW step, Steps(step, N, V)
    PROVE  \E g \in [0 .. N -> V] : Follows(g, N, a, step)
<1> USE DEF Follows, Steps
<1> DEFINE Good(n, g) == g \in [0 .. n -> V] /\ Follows(g, n, a, step)
           S == {n \in Nat : n <= N => \E g : Good(n, g)}
<1>1. 0 \in S
  <2>1. Good(0, [k \in 0 .. 0 |-> a])
    OBVIOUS
  <2>2. QED
    BY <2>1
<1>2. ASSUME NEW n \in Nat, n \in S
      PROVE  n + 1 \in S
  <2> SUFFICES ASSUME n + 1 <= N PROVE \E g : Good(n + 1, g)
    OBVIOUS
  <2>1. PICK g : Good(n, g)
    BY <1>2
  <2> DEFINE h == [k \in 0 .. n + 1 |-> IF k = n + 1 THEN step[n + 1][g[n]] ELSE g[k]]
  <2>2. h \in [0 .. n + 1 -> V] /\ h[0] = a
    BY <2>1
  <2>3. ASSUME NEW k \in 1 .. n + 1
        PROVE  h[k] = step[k][h[k - 1]]
    <3>1. CASE k = n + 1
      BY <3>1
    <3>2. CASE k # n + 1
      <4>1. k \in 1 .. n /\ k \in 0 .. n + 1 /\ k - 1 \in 0 .. n + 1 /\ k - 1 # n + 1
        BY <3>2
      <4>2. QED
        BY <2>1, <3>2, <4>1
    <3>3. QED
      BY <3>1, <3>2
  <2>4. QED
    BY <2>2, <2>3
<1> HIDE DEF S
<1>3. N \in S
  BY <1>1, <1>2, SetInduction
<1>4. QED
  BY <1>3 DEF S

-----------------------------------------------------------------------------
(* Where the blocks end. *)

SizesOK ==
    /\ sizes \in Seq(Nat)
    /\ \A k \in Blocks : k < Len(sizes) => sizes[k] > 0

LEMMA EndsAdd ==
    ASSUME SizesOK
    PROVE  /\ EndOf \in [0 .. Len(sizes) -> Nat]
           /\ EndOf[0] = 0
           /\ \A k \in Blocks : EndOf[k] = EndOf[k - 1] + sizes[k]
<1> DEFINE N == Len(sizes)
           step == [n \in 1 .. N |-> [v \in Nat |-> v + sizes[n]]]
<1>1. N \in Nat /\ \A n \in 1 .. N : sizes[n] \in Nat
  BY DEF SizesOK
<1>2. \A n \in 1 .. N, v \in Nat : step[n][v] \in Nat /\ step[n][v] = v + sizes[n]
  BY <1>1
<1> HIDE DEF step
<1>3. PICK g \in [0 .. N -> Nat] : Follows(g, N, 0, step)
  <2>1. Steps(step, N, Nat)
    BY <1>2 DEF Steps
  <2>2. QED
    BY <1>1, <2>1, Recursion
<1>4. \A n \in 1 .. N : g[n] = g[n - 1] + sizes[n]
  <2>1. ASSUME NEW n \in 1 .. N
        PROVE  g[n] = g[n - 1] + sizes[n]
    <3>1. n - 1 \in 0 .. N
      BY <1>1
    <3>2. g[n - 1] \in Nat
      BY <1>3, <3>1
    <3>3. QED
      BY <1>2, <1>3, <3>2 DEF Follows
  <2>2. QED
    BY <2>1
<1>5. g = [k \in 0 .. N |-> IF k = 0 THEN 0 ELSE g[k - 1] + sizes[k]]
  <2>1. \A k \in 0 .. N : g[k] = IF k = 0 THEN 0 ELSE g[k - 1] + sizes[k]
    BY <1>1, <1>3, <1>4 DEF Follows
  <2>2. QED
    BY <1>3, <2>1
<1>6. EndOf = [k \in 0 .. N |-> IF k = 0 THEN 0 ELSE EndOf[k - 1] + sizes[k]]
  BY <1>5 DEF EndOf
<1>7. EndOf[0] = 0 /\ \A k \in Blocks : EndOf[k] = EndOf[k - 1] + sizes[k]
  BY <1>1, <1>6 DEF Blocks
<1>8. \A n \in Nat : n <= N => EndOf[n] \in Nat
  <2> DEFINE S == {n \in Nat : n <= N => EndOf[n] \in Nat}
  <2>1. 0 \in S
    BY <1>7
  <2>2. \A n \in Nat : n \in S => n + 1 \in S
    BY <1>1, <1>7 DEF Blocks
  <2> HIDE DEF S
  <2>3. Nat \subseteq S
    BY <2>1, <2>2, SetInduction
  <2>4. QED
    BY <2>3 DEF S
<1>9. QED
  BY <1>1, <1>6, <1>7, <1>8

LEMMA EndsOrdered ==
    ASSUME SizesOK, NEW a \in 0 .. Len(sizes), NEW b \in 0 .. Len(sizes), a <= b
    PROVE  EndOf[a] <= EndOf[b]
<1> DEFINE S == {d \in Nat : a + d <= Len(sizes) => EndOf[a] <= EndOf[a + d]}
<1>0. Len(sizes) \in Nat /\ \A k \in Blocks : sizes[k] \in Nat
  BY DEF SizesOK, Blocks
<1>1. 0 \in S
  BY <1>0, EndsAdd
<1>2. ASSUME NEW d \in Nat, d \in S, a + (d + 1) <= Len(sizes)
      PROVE  EndOf[a] <= EndOf[a + (d + 1)]
  <2>1. a + (d + 1) \in Blocks /\ a + d \in 0 .. Len(sizes) /\ (a + (d + 1)) - 1 = a + d
    BY <1>0, <1>2 DEF Blocks
  <2>2. EndOf[a + (d + 1)] = EndOf[a + d] + sizes[a + (d + 1)]
    BY <2>1, EndsAdd
  <2>3. EndOf[a] \in Nat /\ EndOf[a + d] \in Nat
    BY <2>1, EndsAdd
  <2>4. QED
    BY <1>0, <1>2, <2>1, <2>2, <2>3
<1>3. \A d \in Nat : d \in S => d + 1 \in S
  BY <1>2
<1> HIDE DEF S
<1>4. b - a \in S
  BY <1>0, <1>1, <1>3, SetInduction
<1>5. QED
  BY <1>0, <1>4 DEF S

LEMMA SizeOK ==
    ASSUME SizesOK
    PROVE  /\ Size \in Nat /\ Size = EndOf[Len(sizes)] /\ Len(sizes) \in Nat
           /\ \A k \in 0 .. Len(sizes) : EndOf[k] \in Nat /\ EndOf[k] <= Size
<1>1. Len(sizes) \in Nat
  BY DEF SizesOK
<1>2. \A k \in 0 .. Len(sizes) : EndOf[k] \in Nat
  BY EndsAdd
<1>3. \A k \in 0 .. Len(sizes) : EndOf[k] <= EndOf[Len(sizes)]
  BY <1>1, EndsOrdered
<1>4. QED
  BY <1>1, <1>2, <1>3 DEF Size

RangeOK(r) ==
    /\ r \in [start : Nat, length : Nat \ {0}]
    /\ r.start + r.length <= Size

\* A range lies in the blocks from its first to its last.
LEMMA Span ==
    ASSUME SizesOK, NEW r, RangeOK(r)
    PROVE  /\ FirstBlock(r) \in Blocks /\ LastBlock(r) \in Blocks
           /\ FirstBlock(r) <= LastBlock(r)
           /\ EndOf[FirstBlock(r) - 1] <= r.start /\ r.start < EndOf[FirstBlock(r)]
           /\ EndOf[LastBlock(r) - 1] < r.start + r.length
           /\ r.start + r.length <= EndOf[LastBlock(r)]
           /\ \A k \in Blocks : r.start < EndOf[k] => FirstBlock(r) <= k
           /\ \A k \in Blocks : k >= FirstBlock(r) /\ r.start + r.length <= EndOf[k]
                                => LastBlock(r) <= k
<1> DEFINE N == Len(sizes)
           F == {k \in Blocks : r.start < EndOf[k]}
           f == FirstBlock(r)
           L == {k \in Blocks : k >= f /\ r.start + r.length <= EndOf[k]}
           l == LastBlock(r)
<1>1. /\ N \in Nat /\ EndOf[0] = 0 /\ \A k \in 0 .. N : EndOf[k] \in Nat
      /\ r.start \in Nat /\ r.length \in Nat /\ r.length > 0 /\ r.start + r.length <= EndOf[N]
  <2>1. N \in Nat
    BY DEF SizesOK
  <2>2. EndOf[0] = 0 /\ \A k \in 0 .. N : EndOf[k] \in Nat
    BY EndsAdd
  <2>3. /\ r.start \in Nat /\ r.length \in Nat /\ r.length > 0
        /\ r.start + r.length <= EndOf[N]
    BY DEF RangeOK, Size
  <2>4. QED
    BY <2>1, <2>2, <2>3
<1>2. N \in Blocks
  BY <1>1 DEF Blocks
<1>3. f \in F /\ \A k \in F : f <= k
  <2>1. N \in F /\ F \subseteq Nat
    BY <1>1, <1>2 DEF Blocks
  <2>2. \E n \in F : \A k \in F : n <= k
    BY <2>1, LeastOfNat
  <2>3. QED
    BY <2>2 DEF FirstBlock, Min
<1>4. l \in L /\ \A k \in L : l <= k
  <2>1. N \in L /\ L \subseteq Nat
    BY <1>1, <1>2, <1>3 DEF Blocks
  <2>2. \E n \in L : \A k \in L : n <= k
    BY <2>1, LeastOfNat
  <2>3. QED
    BY <2>2 DEF LastBlock, Min
<1>5. f \in 1 .. N /\ l \in 1 .. N /\ f <= l
  BY <1>3, <1>4 DEF Blocks
<1> HIDE DEF f, l
<1>6. EndOf[f - 1] <= r.start
  <2>1. CASE f = 1
    BY <1>1, <2>1
  <2>2. CASE f # 1
    <3>1. f - 1 \in Blocks /\ f - 1 \in 0 .. N /\ ~(f <= f - 1)
      BY <1>1, <1>5, <2>2 DEF Blocks
    <3>2. QED
      BY <1>1, <1>3, <3>1
  <2>3. QED
    BY <2>1, <2>2
<1>7. EndOf[l - 1] < r.start + r.length
  <2>1. CASE l = f
    <3>1. f - 1 \in 0 .. N
      BY <1>1, <1>5
    <3>2. QED
      BY <1>1, <1>6, <2>1, <3>1
  <2>2. CASE l # f
    <3>1. l - 1 \in Blocks /\ l - 1 \in 0 .. N /\ ~(l <= l - 1) /\ l - 1 >= f
      BY <1>1, <1>5, <2>2 DEF Blocks
    <3>2. QED
      BY <1>1, <1>4, <3>1
  <2>3. QED
    BY <2>1, <2>2
<1>8. QED
  BY <1>3, <1>4, <1>5, <1>6, <1>7 DEF f, l

Pieces == [offset : Nat, length : Nat]

\* The piece of a block ends where the block or the range ends, and begins where
\* the range or the block does.
LEMMA PieceSpan ==
    ASSUME SizesOK, NEW r, RangeOK(r), NEW k \in Blocks
    PROVE  /\ k \notin FirstBlock(r) .. LastBlock(r) => BlocksOfRange(r)[k] = <<>>
           /\ k \in FirstBlock(r) .. LastBlock(r) =>
                \E p \in Pieces :
                    /\ BlocksOfRange(r)[k] = <<p>>
                    /\ EndOf[k - 1] + p.offset =
                           IF k = FirstBlock(r) THEN r.start ELSE EndOf[k - 1]
                    /\ EndOf[k - 1] + p.offset + p.length =
                           IF k = LastBlock(r) THEN r.start + r.length ELSE EndOf[k]
                    /\ p.offset + p.length <= sizes[k]
<1> DEFINE f == FirstBlock(r)
           l == LastBlock(r)
           o == OffsetIn(r, k)
           n == LengthIn(r, k)
<1>1. k \notin f .. l => BlocksOfRange(r)[k] = <<>>
  BY DEF BlocksOfRange
<1> SUFFICES ASSUME k \in f .. l
             PROVE  /\ o \in Nat /\ n \in Nat
                    /\ EndOf[k - 1] + o = IF k = f THEN r.start ELSE EndOf[k - 1]
                    /\ EndOf[k - 1] + o + n = IF k = l THEN r.start + r.length ELSE EndOf[k]
                    /\ o + n <= sizes[k]
  <2>0. r.start < Size
    <3>1. /\ r.start \in Nat /\ r.length \in Nat /\ r.length > 0
          /\ r.start + r.length <= Size /\ Size \in Nat
      BY SizeOK DEF RangeOK
    <3>2. QED
      BY <3>1
  <2>1. k \in f .. l => BlocksOfRange(r)[k] = <<[offset |-> o, length |-> n]>>
    BY <2>0 DEF BlocksOfRange
  <2>2. o \in Nat /\ n \in Nat => [offset |-> o, length |-> n] \in Pieces
    BY DEF Pieces
  <2> HIDE DEF o, n
  <2>3. QED
    BY <1>1, <2>1, <2>2
<1>2. /\ f \in 1 .. Len(sizes) /\ l \in 1 .. Len(sizes) /\ f <= l /\ Len(sizes) \in Nat
      /\ k \in 1 .. Len(sizes)
      /\ EndOf[f - 1] <= r.start /\ r.start < EndOf[f]
      /\ EndOf[l - 1] < r.start + r.length /\ r.start + r.length <= EndOf[l]
  BY Span DEF Blocks, SizesOK
<1>3. /\ r.start \in Nat /\ r.length \in Nat
      /\ EndOf[k] \in Nat /\ EndOf[k - 1] \in Nat /\ EndOf[k] = EndOf[k - 1] + sizes[k]
      /\ sizes[k] \in Nat
  <2>1. k \in 0 .. Len(sizes) /\ k - 1 \in 0 .. Len(sizes)
    BY <1>2
  <2>2. /\ EndOf[k] \in Nat /\ EndOf[k - 1] \in Nat
        /\ EndOf[k] = EndOf[k - 1] + sizes[k]
    BY <2>1, EndsAdd
  <2>3. sizes[k] \in Nat
    BY DEF SizesOK, Blocks
  <2>4. QED
    BY <2>2, <2>3 DEF RangeOK
<1> HIDE DEF f, l
<1>4. /\ o = IF k = f THEN r.start - EndOf[k - 1] ELSE 0
      /\ n = IF k = l THEN Least(r.length, r.length + r.start - EndOf[k - 1]) ELSE sizes[k] - o
  <2>1. /\ o = IF k = f THEN r.start - EndOf[k] + sizes[k] ELSE 0
        /\ n = IF k = l THEN Least(r.length, r.length - EndOf[k] + sizes[k] + r.start)
                ELSE sizes[k] - o
    BY DEF OffsetIn, LengthIn, f, l
  <2> HIDE DEF o, n
  <2>2. /\ r.start - EndOf[k] + sizes[k] = r.start - EndOf[k - 1]
        /\ r.length - EndOf[k] + sizes[k] + r.start = r.length + r.start - EndOf[k - 1]
    BY <1>3
  <2>3. QED
    BY <2>1, <2>2
<1>5. k # f => r.start < EndOf[k - 1]
  <2>1. ASSUME k # f
        PROVE  EndOf[f] <= EndOf[k - 1] /\ EndOf[f] \in Nat
    <3>1. f \in 0 .. Len(sizes) /\ k - 1 \in 0 .. Len(sizes) /\ f <= k - 1
      BY <1>2, <2>1
    <3>2. QED
      BY <3>1, EndsOrdered, EndsAdd
  <2>2. QED
    BY <1>2, <1>3, <2>1
<1> HIDE DEF o, n
<1>6. /\ k = f => EndOf[k - 1] <= r.start /\ r.start < EndOf[k]
      /\ k = l => EndOf[k - 1] < r.start + r.length /\ r.start + r.length <= EndOf[k]
  BY <1>2
<1>7. CASE k = f /\ k = l
  BY <1>3, <1>4, <1>6, <1>7 DEF Least
<1>8. CASE k = f /\ k # l
  BY <1>3, <1>4, <1>6, <1>8
<1>9. CASE k # f /\ k = l
  BY <1>3, <1>4, <1>5, <1>6, <1>9 DEF Least
<1>10. CASE k # f /\ k # l
  BY <1>3, <1>4, <1>10
<1>11. QED
  BY <1>7, <1>8, <1>9, <1>10

-----------------------------------------------------------------------------
(* What is planned, and what is to be sent. *)

RangesOK(q) ==
    /\ Len(q) \in Nat
    /\ \A n \in 1 .. Len(q) : RangeOK(q[n])

\* A range of no bytes starts where the file ends.
NoBytes(r) == r \in [start : Nat, length : Nat] /\ r.start = Size /\ r.length = 0

InFile(q) ==
    /\ Len(q) \in Nat
    /\ \A n \in 1 .. Len(q) : RangeOK(q[n]) \/ NoBytes(q[n])

Plans == [Blocks -> Seq(Pieces)]

LEMMA NoPiecesOf ==
    ASSUME SizesOK, NEW r, NoBytes(r), NEW k \in Blocks
    PROVE  BlocksOfRange(r)[k] = <<>>
<1>1. Size \in Nat /\ r.start = Size
  BY SizeOK DEF NoBytes
<1>2. ~(r.start < Size)
  BY <1>1
<1>3. QED
  BY <1>2 DEF BlocksOfRange

LEMMA PiecesTyped ==
    ASSUME SizesOK, NEW r, RangeOK(r) \/ NoBytes(r), NEW k \in Blocks
    PROVE  BlocksOfRange(r)[k] \in Seq(Pieces)
<1>1. BlocksOfRange(r)[k] = <<>> \/ \E p \in Pieces : BlocksOfRange(r)[k] = <<p>>
  BY PieceSpan, NoPiecesOf
<1>2. <<>> \in Seq(Pieces) /\ \A p \in Pieces : <<p>> \in Seq(Pieces)
  OBVIOUS
<1>3. QED
  BY <1>1, <1>2

LEMMA PlanOfAll ==
    ASSUME SizesOK, NEW q, InFile(q)
    PROVE  /\ \A n \in 0 .. Len(q) : PlanOf(q)[n] \in Plans
           /\ \A k \in Blocks : PlanOf(q)[0][k] = <<>>
           /\ \A n \in 1 .. Len(q), k \in Blocks :
                  PlanOf(q)[n][k] = PlanOf(q)[n - 1][k] \o BlocksOfRange(q[n])[k]
<1> DEFINE N == Len(q)
           step == [n \in 1 .. N |-> [v \in Plans |-> WithRange(v, q[n])]]
           P == PlanOf(q)
<1>1. N \in Nat /\ NoPieces \in Plans
  BY DEF InFile, Plans, NoPieces
<1>2. ASSUME NEW n \in 1 .. N, NEW v \in Plans
      PROVE  WithRange(v, q[n]) \in Plans
  <2>1. \A k \in Blocks : v[k] \in Seq(Pieces) /\ BlocksOfRange(q[n])[k] \in Seq(Pieces)
    BY PiecesTyped DEF Plans, InFile
  <2>2. \A k \in Blocks : v[k] \o BlocksOfRange(q[n])[k] \in Seq(Pieces)
    BY <2>1, ConcatProperties
  <2>3. QED
    BY <2>2 DEF Plans, WithRange
<1>3. \A n \in 1 .. N, v \in Plans : step[n][v] = WithRange(v, q[n])
  OBVIOUS
<1> HIDE DEF step
<1>4. PICK g \in [0 .. N -> Plans] : Follows(g, N, NoPieces, step)
  <2>1. Steps(step, N, Plans)
    BY <1>2, <1>3 DEF Steps
  <2>2. QED
    BY <1>1, <2>1, Recursion
<1>5. \A n \in 1 .. N : g[n] = WithRange(g[n - 1], q[n])
  <2>1. ASSUME NEW n \in 1 .. N
        PROVE  g[n] = WithRange(g[n - 1], q[n])
    <3>1. n - 1 \in 0 .. N
      BY <1>1
    <3>2. g[n - 1] \in Plans
      BY <1>4, <3>1
    <3>3. QED
      BY <1>3, <1>4, <3>2 DEF Follows
  <2>2. QED
    BY <2>1
<1>6. g = [n \in 0 .. N |-> IF n = 0 THEN NoPieces ELSE WithRange(g[n - 1], q[n])]
  <2>1. \A n \in 0 .. N : g[n] = IF n = 0 THEN NoPieces ELSE WithRange(g[n - 1], q[n])
    BY <1>1, <1>4, <1>5 DEF Follows
  <2>2. QED
    BY <1>4, <2>1
<1>7. P = [n \in 0 .. N |-> IF n = 0 THEN NoPieces ELSE WithRange(P[n - 1], q[n])]
  BY <1>6 DEF PlanOf
<1> HIDE DEF P
<1>8. P[0] = NoPieces /\ \A n \in 1 .. N : P[n] = WithRange(P[n - 1], q[n])
  BY <1>1, <1>7
<1>9. \A n \in Nat : n <= N => P[n] \in Plans
  <2> DEFINE S == {n \in Nat : n <= N => P[n] \in Plans}
  <2>1. 0 \in S
    BY <1>1, <1>8
  <2>2. ASSUME NEW n \in Nat, n \in S, n + 1 <= N
        PROVE  P[n + 1] \in Plans
    <3>1. n + 1 \in 1 .. N /\ (n + 1) - 1 = n /\ n <= N
      BY <1>1, <2>2
    <3>2. QED
      BY <1>2, <1>8, <2>2, <3>1
  <2>3. \A n \in Nat : n \in S => n + 1 \in S
    BY <2>2
  <2> HIDE DEF S
  <2>4. Nat \subseteq S
    BY <2>1, <2>3, SetInduction
  <2>5. QED
    BY <2>4 DEF S
<1>10. \A n \in 1 .. N, k \in Blocks : P[n][k] = P[n - 1][k] \o BlocksOfRange(q[n])[k]
  BY <1>8 DEF WithRange
<1>11. \A n \in 0 .. N : P[n] \in Plans
  BY <1>1, <1>9
<1>12. \A k \in Blocks : P[0][k] = <<>>
  BY <1>8 DEF NoPieces
<1>13. QED
  BY <1>10, <1>11, <1>12 DEF P

LEMMA PlanAdds ==
    ASSUME SizesOK, NEW q, RangesOK(q)
    PROVE  /\ \A n \in 0 .. Len(q) : PlanOf(q)[n] \in Plans
           /\ \A k \in Blocks : PlanOf(q)[0][k] = <<>>
           /\ \A n \in 1 .. Len(q), k \in Blocks :
                  PlanOf(q)[n][k] = PlanOf(q)[n - 1][k] \o BlocksOfRange(q[n])[k]
<1>1. InFile(q)
  BY DEF InFile, RangesOK
<1>2. QED
  BY <1>1, PlanOfAll

\* What sequence s starts with.
Starts(a, s) == Len(a) <= Len(s) /\ \A x \in 1 .. Len(a) : s[x] = a[x]

LEMMA StartsConcat ==
    ASSUME NEW V, NEW s \in Seq(V), NEW t \in Seq(V)
    PROVE  Starts(s, s \o t)
<1>1. Len(s) \in Nat /\ Len(t) \in Nat
  OBVIOUS
<1>2. /\ Len(s \o t) = Len(s) + Len(t)
      /\ \A x \in 1 .. Len(s) + Len(t) : x <= Len(s) => (s \o t)[x] = s[x]
  BY ConcatProperties
<1>3. QED
  BY <1>1, <1>2 DEF Starts

LEMMA StartsOn ==
    ASSUME NEW V, NEW s \in Seq(V), NEW t \in Seq(V), NEW u \in Seq(V),
           Starts(s, t), Starts(t, u)
    PROVE  Starts(s, u)
<1>1. Len(s) \in Nat /\ Len(t) \in Nat /\ Len(u) \in Nat
  OBVIOUS
<1>2. QED
  BY <1>1 DEF Starts

\* What only grows at its end always starts the same.
LEMMA Grows ==
    ASSUME NEW V, NEW N \in Nat, NEW s, NEW t,
           \A n \in 0 .. N : s[n] \in Seq(V),
           \A n \in 1 .. N : t[n] \in Seq(V) /\ s[n] = s[n - 1] \o t[n],
           NEW c \in 0 .. N, NEW n \in 0 .. N, c <= n
    PROVE  Starts(s[c], s[n])
<1> DEFINE S == {h \in Nat : h \in c .. N => Starts(s[c], s[h])}
<1>0. \A h \in 0 .. N : Starts(s[h], s[h])
  BY DEF Starts
<1>1. 0 \in S
  BY <1>0
<1>2. ASSUME NEW h \in Nat, h \in c .. N => Starts(s[c], s[h]), h + 1 \in c .. N
      PROVE  Starts(s[c], s[h + 1])
  <2>1. h \in 0 .. N /\ h + 1 \in 1 .. N /\ (h + 1) - 1 = h /\ h + 1 \in 0 .. N
    BY <1>2
  <2>2. /\ s[h] \in Seq(V) /\ t[h + 1] \in Seq(V) /\ s[h + 1] = s[h] \o t[h + 1]
        /\ s[c] \in Seq(V) /\ s[h + 1] \in Seq(V)
    BY <2>1
  <2>3. Starts(s[h], s[h + 1])
    BY <2>2, StartsConcat
  <2>4. c = h + 1 \/ Starts(s[c], s[h])
    BY <1>2
  <2>5. QED
    BY <1>0, <2>1, <2>2, <2>3, <2>4, StartsOn
<1>3. \A h \in Nat : h \in S => h + 1 \in S
  <2>1. ASSUME NEW h \in Nat, h \in c .. N => Starts(s[c], s[h])
        PROVE  h + 1 \in Nat /\ (h + 1 \in c .. N => Starts(s[c], s[h + 1]))
    <3>1. h + 1 \in c .. N => Starts(s[c], s[h + 1])
      BY <1>2, <2>1, Zenon
    <3>2. QED
      BY <3>1
  <2>2. QED
    BY <2>1
<1> HIDE DEF S
<1>4. n \in S
  <2>1. Nat \subseteq S
    BY <1>1, <1>3, SetInduction
  <2>2. QED
    BY <2>1
<1>5. n \in c .. N
  OBVIOUS
<1>6. QED
  BY <1>4, <1>5 DEF S

\* What was planned for the first ranges stays in front.
LEMMA PlanGrows ==
    ASSUME SizesOK, NEW q, RangesOK(q), NEW k \in Blocks,
           NEW c \in 0 .. Len(q), NEW n \in 0 .. Len(q), c <= n
    PROVE  Starts(PlanOf(q)[c][k], PlanOf(q)[n][k])
<1> DEFINE s == [h \in 0 .. Len(q) |-> PlanOf(q)[h][k]]
           t == [h \in 1 .. Len(q) |-> BlocksOfRange(q[h])[k]]
<1>1. Len(q) \in Nat
  BY DEF RangesOK
<1>2. \A h \in 0 .. Len(q) : s[h] = PlanOf(q)[h][k] /\ s[h] \in Seq(Pieces)
  BY PlanAdds DEF Plans
<1>3. ASSUME NEW h \in 1 .. Len(q)
      PROVE  t[h] \in Seq(Pieces) /\ s[h] = s[h - 1] \o t[h]
  <2>1. h \in 0 .. Len(q) /\ h - 1 \in 0 .. Len(q)
    BY <1>1
  <2>2. t[h] = BlocksOfRange(q[h])[k] /\ t[h] \in Seq(Pieces)
    BY PiecesTyped DEF RangesOK
  <2>3. QED
    BY <1>2, <2>1, <2>2, PlanAdds
<1> HIDE DEF s, t
<1>4. Starts(s[c], s[n])
  BY <1>1, <1>2, <1>3, Grows
<1>5. QED
  BY <1>2, <1>4

\* Ranges that have nothing of a block add nothing to it.
LEMMA PlanStays ==
    ASSUME SizesOK, NEW q, RangesOK(q), NEW k \in Blocks,
           NEW c \in 0 .. Len(q), NEW n \in 0 .. Len(q), c <= n,
           \A h \in c + 1 .. n : BlocksOfRange(q[h])[k] = <<>>
    PROVE  PlanOf(q)[n][k] = PlanOf(q)[c][k]
<1> DEFINE P(h) == PlanOf(q)[h][k]
           S == {d \in Nat : c + d <= n => P(c + d) = P(c)}
<1>0. Len(q) \in Nat
  BY DEF RangesOK
<1>1. \A h \in 0 .. Len(q) : P(h) \in Seq(Pieces)
  BY PlanAdds DEF Plans
<1> HIDE DEF P
<1>2. 0 \in S
  BY <1>0
<1>3. ASSUME NEW d \in Nat, d \in S, c + (d + 1) <= n
      PROVE  P(c + (d + 1)) = P(c)
  <2>1. /\ c + (d + 1) \in 1 .. Len(q) /\ c + (d + 1) \in c + 1 .. n
        /\ (c + (d + 1)) - 1 = c + d /\ c + d \in 0 .. Len(q) /\ c + d <= n
    BY <1>0, <1>3
  <2>2. P(c + (d + 1)) = P(c + d) \o <<>>
    <3>1. PICK h \in c + 1 .. n : h = c + (d + 1) /\ h \in 1 .. Len(q)
      BY <2>1
    <3>2. PlanOf(q)[h][k] = PlanOf(q)[h - 1][k] \o BlocksOfRange(q[h])[k]
      BY <3>1, PlanAdds
    <3>3. BlocksOfRange(q[h])[k] = <<>>
      BY <3>1
    <3>4. QED
      BY <2>1, <3>1, <3>2, <3>3 DEF P
  <2>3. P(c + d) \o <<>> = P(c + d)
    BY <1>1, <2>1, ConcatEmptySeq
  <2>4. QED
    BY <1>3, <2>1, <2>2, <2>3
<1>4. \A d \in Nat : d \in S => d + 1 \in S
  BY <1>3
<1> HIDE DEF S
<1>5. n - c \in S
  BY <1>0, <1>2, <1>4, SetInduction
<1>6. n - c \in Nat /\ c + (n - c) = n
  BY <1>0
<1>7. QED
  BY <1>0, <1>5, <1>6 DEF S, P

\* Sorted ranges that do not overlap are apart, not only neighbours.
Apart(q) ==
    \A n \in 1 .. Len(q) - 1 : q[n].start + q[n].length <= q[n + 1].start

LEMMA AllApart ==
    ASSUME SizesOK, NEW q, RangesOK(q), Apart(q),
           NEW g \in 1 .. Len(q), NEW h \in 1 .. Len(q), g < h
    PROVE  q[g].start + q[g].length <= q[h].start
<1> DEFINE S == {n \in Nat : n \in g + 1 .. Len(q) => q[g].start + q[g].length <= q[n].start}
<1>0. Len(q) \in Nat /\ g \in Nat /\ \A n \in 1 .. Len(q) : q[n].start \in Nat /\ q[n].length \in Nat
  BY DEF RangesOK, RangeOK
<1>1. 0 \in S
  OBVIOUS
<1>2. ASSUME NEW n \in Nat, n \in S, n + 1 \in g + 1 .. Len(q)
      PROVE  q[g].start + q[g].length <= q[n + 1].start
  <2>1. n \in 1 .. Len(q) - 1 /\ n \in 1 .. Len(q) /\ n + 1 \in 1 .. Len(q)
    BY <1>0, <1>2
  <2>2. q[n].start + q[n].length <= q[n + 1].start
    BY <2>1 DEF Apart
  <2>3. n = g \/ q[g].start + q[g].length <= q[n].start
    BY <1>0, <1>2
  <2>4. /\ q[n].start \in Nat /\ q[n].length \in Nat /\ q[n + 1].start \in Nat
        /\ q[g].start \in Nat /\ q[g].length \in Nat
    BY <1>0, <2>1
  <2>5. CASE n = g
    BY <2>2, <2>5
  <2>6. CASE n # g
    <3>1. \A a, s, l, t \in Nat : a <= s /\ s + l <= t => a <= t
      OBVIOUS
    <3>2. q[g].start + q[g].length \in Nat /\ q[g].start + q[g].length <= q[n].start
      BY <2>3, <2>4, <2>6, SMTT(20)
    <3>3. QED
      BY <2>2, <2>4, <3>1, <3>2
  <2>7. QED
    BY <2>5, <2>6
<1>3. \A n \in Nat : n \in S => n + 1 \in S
  BY <1>0, <1>2
<1> HIDE DEF S
<1>4. h \in S
  BY <1>0, <1>1, <1>3, SetInduction
<1>5. h \in g + 1 .. Len(q)
  BY <1>0
<1>6. QED
  BY <1>4, <1>5 DEF S

\* Of two ranges the first ends in a block before the one where the second begins,
\* or in the same.
LEMMA BlocksApart ==
    ASSUME SizesOK, NEW q, RangesOK(q), Apart(q),
           NEW g \in 1 .. Len(q), NEW h \in 1 .. Len(q), g < h
    PROVE  LastBlock(q[g]) <= FirstBlock(q[h])
<1>1. /\ RangeOK(q[g]) /\ RangeOK(q[h])
      /\ q[g].start + q[g].length <= q[h].start
      /\ q[g].start \in Nat /\ q[g].length \in Nat /\ q[h].start \in Nat
  BY AllApart DEF RangesOK, RangeOK
<1>2. FirstBlock(q[h]) \in Blocks /\ q[h].start < EndOf[FirstBlock(q[h])]
  BY <1>1, Span
<1>3. EndOf[FirstBlock(q[h])] \in Nat
  BY <1>2, EndsAdd DEF Blocks, SizesOK
<1>4. /\ q[g].start < EndOf[FirstBlock(q[h])]
      /\ q[g].start + q[g].length <= EndOf[FirstBlock(q[h])]
  BY <1>1, <1>2, <1>3
<1>5. FirstBlock(q[g]) <= FirstBlock(q[h])
  BY <1>1, <1>2, <1>4, Span
<1>6. FirstBlock(q[h]) >= FirstBlock(q[g])
  BY <1>1, <1>2, <1>5, Span DEF Blocks
<1>7. QED
  BY <1>1, <1>2, <1>4, <1>6, Span

-----------------------------------------------------------------------------
(* What is to be sent. *)

Items == Nat \cup [start : Nat, length : Nat] \cup {"footer"}

LEMMA Associates ==
    \A a, b, c \in Seq(Items) : (a \o b) \o c = a \o (b \o c)
BY ConcatAssociative

LEMMA BytesJoin ==
    ASSUME NEW a \in Nat, NEW n \in Nat, NEW l \in Nat
    PROVE  /\ Bytes(a, n) \in Seq(Items) /\ Len(Bytes(a, n)) = n
           /\ Bytes(a, n) \o Bytes(a + n, l) = Bytes(a, n + l)
<1>1. \A b, h \in Nat : Bytes(b, h) \in Seq(Nat) /\ Len(Bytes(b, h)) = h
  BY DEF Bytes
<1>2. Bytes(a, n) \in Seq(Items)
  BY DEF Bytes, Items
<1> DEFINE s == Bytes(a, n) \o Bytes(a + n, l)
           t == Bytes(a, n + l)
<1>3. /\ Bytes(a, n) \in Seq(Nat) /\ Len(Bytes(a, n)) = n
      /\ Bytes(a + n, l) \in Seq(Nat) /\ Len(Bytes(a + n, l)) = l
      /\ s \in Seq(Nat) /\ Len(s) = n + l
  <2>1. a + n \in Nat
    OBVIOUS
  <2>2. /\ Bytes(a, n) \in Seq(Nat) /\ Len(Bytes(a, n)) = n
        /\ Bytes(a + n, l) \in Seq(Nat) /\ Len(Bytes(a + n, l)) = l
    BY <1>1, <2>1
  <2>3. QED
    BY <2>2, ConcatProperties
<1>4. ASSUME NEW x \in 1 .. n + l
      PROVE  s[x] = t[x]
  <2>1. s[x] = IF x <= n THEN Bytes(a, n)[x] ELSE Bytes(a + n, l)[x - n]
    BY <1>3, ConcatProperties
  <2>2. CASE x <= n
    BY <2>1, <2>2 DEF Bytes
  <2>3. CASE ~(x <= n)
    <3>1. x - n \in 1 .. l /\ (a + n) + (x - n) = a + x
      BY <2>3
    <3>2. s[x] = Bytes(a + n, l)[x - n]
      BY <2>1, <2>3
    <3>3. Bytes(a + n, l)[x - n] = (a + n) + (x - n)
      BY <3>1 DEF Bytes
    <3>4. t[x] = a + x
      BY DEF Bytes
    <3>5. QED
      BY <3>1, <3>2, <3>3, <3>4
  <2>4. QED
    BY <2>2, <2>3
<1>5. t \in Seq(Nat) /\ Len(t) = n + l
  BY <1>1
<1> HIDE DEF s, t
<1>6. s = t
  BY <1>3, <1>4, <1>5, SeqEqual
<1>7. QED
  BY <1>1, <1>2, <1>6 DEF s, t

LEMMA PartTyped ==
    ASSUME NEW r, RangeOK(r) \/ NoBytes(r)
    PROVE  /\ Part(r) \in Seq(Items)
           /\ Len(Part(r)) = (IF Multipart THEN 1 ELSE 0) + r.length
<1> DEFINE h == IF Multipart THEN <<r>> ELSE <<>>
<1>1. r \in Items /\ r.start \in Nat /\ r.length \in Nat
  BY DEF RangeOK, NoBytes, Items
<1>2. h \in Seq(Items) /\ Len(h) = IF Multipart THEN 1 ELSE 0
  BY <1>1
<1>3. BytesOf(r) \in Seq(Items) /\ Len(BytesOf(r)) = r.length
  BY <1>1, BytesJoin DEF BytesOf
<1>4. Part(r) = h \o BytesOf(r)
  BY DEF Part
<1> HIDE DEF h
<1>5. Part(r) \in Seq(Items) /\ Len(Part(r)) = Len(h) + Len(BytesOf(r))
  BY <1>2, <1>3, <1>4, ConcatProperties
<1>6. QED
  BY <1>2, <1>3, <1>5

LEMMA AnswerOfAll ==
    ASSUME NEW q, InFile(q)
    PROVE  /\ \A n \in 0 .. Len(q) : Answer(q)[n] \in Seq(Items)
           /\ Answer(q)[0] = <<>>
           /\ \A n \in 1 .. Len(q) : Answer(q)[n] = Answer(q)[n - 1] \o Part(q[n])
<1> DEFINE N == Len(q)
           step == [n \in 1 .. N |-> [v \in Seq(Items) |-> v \o Part(q[n])]]
           A == Answer(q)
<1>1. N \in Nat /\ <<>> \in Seq(Items)
  BY DEF InFile
<1>2. ASSUME NEW n \in 1 .. N, NEW v \in Seq(Items)
      PROVE  v \o Part(q[n]) \in Seq(Items)
  <2>1. Part(q[n]) \in Seq(Items)
    BY PartTyped DEF InFile
  <2>2. QED
    BY <2>1, ConcatProperties
<1>3. \A n \in 1 .. N, v \in Seq(Items) : step[n][v] = v \o Part(q[n])
  OBVIOUS
<1> HIDE DEF step
<1>4. PICK g \in [0 .. N -> Seq(Items)] : Follows(g, N, <<>>, step)
  <2>1. Steps(step, N, Seq(Items))
    BY <1>2, <1>3 DEF Steps
  <2>2. QED
    BY <1>1, <2>1, Recursion
<1>5. \A n \in 1 .. N : g[n] = g[n - 1] \o Part(q[n])
  <2>1. ASSUME NEW n \in 1 .. N
        PROVE  g[n] = g[n - 1] \o Part(q[n])
    <3>1. n - 1 \in 0 .. N
      BY <1>1
    <3>2. g[n - 1] \in Seq(Items)
      BY <1>4, <3>1
    <3>3. QED
      BY <1>3, <1>4, <3>2 DEF Follows
  <2>2. QED
    BY <2>1
<1>6. g = [n \in 0 .. N |-> IF n = 0 THEN <<>> ELSE g[n - 1] \o Part(q[n])]
  <2>1. ASSUME NEW n \in 0 .. N
        PROVE  g[n] = IF n = 0 THEN <<>> ELSE g[n - 1] \o Part(q[n])
    <3>1. CASE n = 0
      BY <1>4, <3>1 DEF Follows
    <3>2. CASE n # 0
      <4>1. n \in 1 .. N
        BY <3>2
      <4>2. QED
        BY <1>5, <3>2, <4>1
    <3>3. QED
      BY <3>1, <3>2
  <2>2. QED
    BY <1>4, <2>1
<1>7. A = [n \in 0 .. N |-> IF n = 0 THEN <<>> ELSE A[n - 1] \o Part(q[n])]
  BY <1>6 DEF Answer
<1> HIDE DEF A
<1>8. A[0] = <<>> /\ \A n \in 1 .. N : A[n] = A[n - 1] \o Part(q[n])
  <2>1. 0 \in 0 .. N
    BY <1>1
  <2>2. A[0] = <<>>
    BY <1>7, <2>1
  <2>3. ASSUME NEW n \in 1 .. N
        PROVE  A[n] = A[n - 1] \o Part(q[n])
    <3>1. n \in 0 .. N /\ n # 0
      BY <1>1
    <3>2. A[n] = IF n = 0 THEN <<>> ELSE A[n - 1] \o Part(q[n])
      BY <1>7, <3>1
    <3>3. QED
      BY <3>1, <3>2
  <2>4. QED
    BY <2>2, <2>3
<1>9. \A n \in Nat : n <= N => A[n] \in Seq(Items)
  <2> DEFINE S == {n \in Nat : n <= N => A[n] \in Seq(Items)}
  <2>1. 0 \in S
    BY <1>1, <1>8
  <2>2. ASSUME NEW n \in Nat, n \in S, n + 1 <= N
        PROVE  A[n + 1] \in Seq(Items)
    <3>1. n + 1 \in 1 .. N /\ (n + 1) - 1 = n /\ n <= N
      BY <1>1, <2>2
    <3>2. QED
      BY <1>2, <1>8, <2>2, <3>1
  <2>3. \A n \in Nat : n \in S => n + 1 \in S
    BY <2>2
  <2> HIDE DEF S
  <2>4. Nat \subseteq S
    BY <2>1, <2>3, SetInduction
  <2>5. QED
    BY <2>4 DEF S
<1>10. \A n \in 0 .. N : A[n] \in Seq(Items)
  BY <1>1, <1>9
<1>11. QED
  BY <1>8, <1>10 DEF A

LEMMA AnswerAdds ==
    ASSUME NEW q, RangesOK(q)
    PROVE  /\ \A n \in 0 .. Len(q) : Answer(q)[n] \in Seq(Items)
           /\ Answer(q)[0] = <<>>
           /\ \A n \in 1 .. Len(q) : Answer(q)[n] = Answer(q)[n - 1] \o Part(q[n])
<1>1. InFile(q)
  BY DEF InFile, RangesOK
<1>2. QED
  BY <1>1, AnswerOfAll

LEMMA AnswerGrows ==
    ASSUME NEW q, InFile(q), NEW c \in 0 .. Len(q), NEW n \in 0 .. Len(q), c <= n
    PROVE  Starts(Answer(q)[c], Answer(q)[n])
<1> DEFINE t == [h \in 1 .. Len(q) |-> Part(q[h])]
<1>1. Len(q) \in Nat
  BY DEF InFile
<1>2. \A h \in 1 .. Len(q) : t[h] = Part(q[h]) /\ t[h] \in Seq(Items)
  BY PartTyped DEF InFile
<1> HIDE DEF t
<1>3. \A h \in 1 .. Len(q) : Answer(q)[h] = Answer(q)[h - 1] \o t[h]
  BY <1>2, AnswerOfAll
<1>4. \A h \in 0 .. Len(q) : Answer(q)[h] \in Seq(Items)
  BY AnswerOfAll
<1>5. QED
  BY <1>1, <1>2, <1>3, <1>4, Grows

-----------------------------------------------------------------------------
(* The ranges to send. *)

\* Those that have a byte.  Without a Range header the file is one, if there is
\* anything in it.
Parts ==
    IF asked # <<>> THEN SubSeq(asked, 1, Filled)
    ELSE IF Size = 0 THEN <<>> ELSE <<[start |-> 0, length |-> Size]>>

PlanTo(c) == PlanOf(Parts)[c]

Sent(c) == Answer(Parts)[c]

End(r) == r.start + r.length

Request == [start : Nat, length : Nat]

\* Sorted, those without a byte come last.
FilledFirst ==
    /\ Filled \in 0 .. Len(asked)
    /\ \A k \in 1 .. Len(asked) : asked[k].length > 0 <=> k <= Filled

AskedOK ==
    /\ SizesOK /\ mime \in Nat
    /\ InFile(asked) /\ asked \in Seq(Request)
    /\ FilledFirst
    /\ Apart(asked)

LEMMA FilledOK ==
    ASSUME AskedOK
    PROVE  /\ Filled \in Nat /\ Len(asked) \in Nat /\ Filled <= Len(asked)
           /\ \A k \in 1 .. Filled : k \in 1 .. Len(asked) /\ RangeOK(asked[k])
           /\ \A k \in Filled + 1 .. Len(asked) : k \in 1 .. Len(asked) /\ NoBytes(asked[k])
<1>1. /\ Filled \in Nat /\ Len(asked) \in Nat /\ Filled <= Len(asked)
      /\ \A k \in 1 .. Len(asked) : asked[k].length > 0 <=> k <= Filled
  BY DEF AskedOK, FilledFirst
<1>2. \A k \in 1 .. Len(asked) : RangeOK(asked[k]) \/ NoBytes(asked[k])
  BY DEF AskedOK, InFile
<1>3. \A r : RangeOK(r) => r.length > 0
  BY DEF RangeOK
<1>4. \A r : NoBytes(r) => ~(r.length > 0)
  BY DEF NoBytes
<1>5. ASSUME NEW k \in 1 .. Filled
      PROVE  k \in 1 .. Len(asked) /\ RangeOK(asked[k])
  <2>1. k \in 1 .. Len(asked) /\ k <= Filled
    BY <1>1
  <2>2. QED
    BY <1>1, <1>2, <1>4, <2>1
<1>6. ASSUME NEW k \in Filled + 1 .. Len(asked)
      PROVE  k \in 1 .. Len(asked) /\ NoBytes(asked[k])
  <2>1. k \in 1 .. Len(asked) /\ ~(k <= Filled)
    BY <1>1
  <2>2. QED
    BY <1>1, <1>2, <1>3, <2>1
<1>7. QED
  BY <1>1, <1>5, <1>6

\* The three cases of a request.
LEMMA PartsShape ==
    ASSUME AskedOK
    PROVE  \/ /\ asked # <<>> /\ Parts = SubSeq(asked, 1, Filled)
              /\ Parts \in Seq(Request) /\ Len(Parts) = Filled
              /\ \A n \in 1 .. Filled : Parts[n] = asked[n]
           \/ asked = <<>> /\ Size = 0 /\ Parts = <<>>
           \/ /\ asked = <<>> /\ Size > 0 /\ Len(Parts) = 1
              /\ Parts[1] = [start |-> 0, length |-> Size]
              /\ RangeOK(Parts[1])
<1>1. Size \in Nat
  BY SizeOK DEF AskedOK
<1>2. CASE asked # <<>>
  <2>1. Parts = SubSeq(asked, 1, Filled)
    BY <1>2 DEF Parts
  <2>2. /\ asked \in Seq(Request) /\ Filled \in 0 .. Len(asked) /\ 1 \in 1 .. Len(asked) + 1
        /\ Filled \in 1 - 1 .. Len(asked)
    BY FilledOK DEF AskedOK
  <2>3. /\ SubSeq(asked, 1, Filled) \in Seq(Request)
        /\ Len(SubSeq(asked, 1, Filled)) = Filled
        /\ \A n \in 1 .. Filled : SubSeq(asked, 1, Filled)[n] = asked[n]
    BY <2>2
  <2>4. QED
    BY <1>2, <2>1, <2>3
<1>3. CASE asked = <<>> /\ Size = 0
  BY <1>3 DEF Parts
<1>4. CASE asked = <<>> /\ Size # 0
  <2>1. Parts = <<[start |-> 0, length |-> Size]>>
    BY <1>4 DEF Parts
  <2>2. RangeOK([start |-> 0, length |-> Size])
    BY <1>1, <1>4 DEF RangeOK
  <2>3. QED
    BY <1>1, <1>4, <2>1, <2>2
<1>5. QED
  BY <1>2, <1>3, <1>4

LEMMA PartsOK ==
    ASSUME AskedOK
    PROVE  RangesOK(Parts) /\ Apart(Parts)
<1>1. CASE /\ asked # <<>> /\ Len(Parts) = Filled
           /\ \A n \in 1 .. Filled : Parts[n] = asked[n]
  <2>1. RangesOK(Parts)
    BY <1>1, FilledOK DEF RangesOK
  <2>2. Apart(Parts)
    <3>1. ASSUME NEW n \in 1 .. Filled - 1
          PROVE  Parts[n].start + Parts[n].length <= Parts[n + 1].start
      <4>1. n \in 1 .. Filled /\ n + 1 \in 1 .. Filled /\ n \in 1 .. Len(asked) - 1
        BY FilledOK
      <4>2. asked[n].start + asked[n].length <= asked[n + 1].start
        BY <4>1 DEF AskedOK, Apart
      <4>3. QED
        BY <1>1, <4>1, <4>2
    <3>2. QED
      BY <1>1, <3>1 DEF Apart
  <2>3. QED
    BY <2>1, <2>2
<1>2. CASE Parts = <<>>
  BY <1>2 DEF RangesOK, Apart
<1>3. CASE Len(Parts) = 1 /\ RangeOK(Parts[1])
  BY <1>3 DEF RangesOK, Apart
<1>4. QED
  BY <1>1, <1>2, <1>3, PartsShape

\* The whole file as a range has every block in full.
LEMMA WholeFile ==
    ASSUME SizesOK, Size > 0, NEW k \in Blocks
    PROVE  BlocksOfRange([start |-> 0, length |-> Size])[k] = BlocksInFull[k]
<1> DEFINE r == [start |-> 0, length |-> Size]
           f == FirstBlock(r)
           l == LastBlock(r)
<1>1. /\ Size \in Nat /\ Size = EndOf[Len(sizes)] /\ Len(sizes) \in Nat
      /\ \A h \in 0 .. Len(sizes) : EndOf[h] \in Nat /\ EndOf[h] <= Size
  BY SizeOK
<1>2. RangeOK(r) /\ r.start = 0 /\ r.length = Size
  BY <1>1 DEF RangeOK
<1> HIDE DEF r
<1>3. /\ f \in 1 .. Len(sizes) /\ l \in 1 .. Len(sizes) /\ f <= l
      /\ EndOf[f - 1] <= 0 /\ 0 < EndOf[f]
      /\ EndOf[l - 1] < Size /\ Size <= EndOf[l]
      /\ 0 < EndOf[k] => f <= k
      /\ k >= f /\ Size <= EndOf[k] => l <= k
  <2>1. /\ r.start + r.length = Size
    BY <1>1, <1>2
  <2>2. /\ f \in Blocks /\ l \in Blocks /\ f <= l
        /\ EndOf[f - 1] <= r.start /\ r.start < EndOf[f]
        /\ EndOf[l - 1] < r.start + r.length /\ r.start + r.length <= EndOf[l]
    BY <1>2, Span
  <2>3. \A h \in Blocks : r.start < EndOf[h] => f <= h
    BY <1>2, Span
  <2>4. \A h \in Blocks : h >= f /\ r.start + r.length <= EndOf[h] => l <= h
    BY <1>2, Span
  <2> HIDE DEF f, l
  <2>5. QED
    BY <1>2, <2>1, <2>2, <2>3, <2>4 DEF Blocks
<1>4. /\ k \in 1 .. Len(sizes) /\ sizes[k] \in Nat /\ EndOf[k] = EndOf[k - 1] + sizes[k]
      /\ EndOf[k] \in Nat /\ EndOf[k - 1] \in Nat /\ EndOf[k] <= Size
      /\ k < Len(sizes) => sizes[k] > 0
  <2>1. k \in 1 .. Len(sizes) /\ k \in 0 .. Len(sizes) /\ k - 1 \in 0 .. Len(sizes)
    BY <1>1 DEF Blocks
  <2>2. EndOf[k] = EndOf[k - 1] + sizes[k]
    BY <2>1, EndsAdd
  <2>3. /\ EndOf[k] \in Nat /\ EndOf[k - 1] \in Nat /\ EndOf[k] <= Size
    BY <1>1, <2>1
  <2>4. sizes[k] \in Nat /\ (k < Len(sizes) => sizes[k] > 0)
    BY <2>1 DEF SizesOK, Blocks
  <2>5. QED
    BY <2>1, <2>2, <2>3, <2>4
<1>5. BlocksInFull[k] = IF sizes[k] = 0 THEN <<>> ELSE <<[offset |-> 0, length |-> sizes[k]]>>
  BY DEF BlocksInFull
<1> HIDE DEF f, l
<1>6. CASE k < f
  <2>1. EndOf[k] = 0 /\ sizes[k] = 0
    BY <1>3, <1>4, <1>6
  <2>2. BlocksOfRange(r)[k] = <<>>
    BY <1>2, <1>3, <1>6, PieceSpan DEF f, l
  <2>3. QED
    BY <1>5, <2>1, <2>2 DEF r
<1>7. CASE k > l
  <2>1. l \in 0 .. Len(sizes) /\ k - 1 \in 0 .. Len(sizes) /\ l <= k - 1
    BY <1>1, <1>3, <1>4, <1>7
  <2>2. EndOf[l] <= EndOf[k - 1] /\ EndOf[l] \in Nat
    BY <1>1, <2>1, EndsOrdered
  <2>3. sizes[k] = 0
    BY <1>1, <1>3, <1>4, <2>2, SMTT(20)
  <2>4. BlocksOfRange(r)[k] = <<>>
    BY <1>2, <1>3, <1>7, PieceSpan DEF f, l
  <2>5. QED
    BY <1>5, <2>3, <2>4 DEF r
<1>8. CASE k \in f .. l
  <2>1. PICK p \in Pieces :
            /\ BlocksOfRange(r)[k] = <<p>>
            /\ EndOf[k - 1] + p.offset = IF k = f THEN 0 ELSE EndOf[k - 1]
            /\ EndOf[k - 1] + p.offset + p.length = IF k = l THEN 0 + Size ELSE EndOf[k]
    BY <1>2, <1>8, PieceSpan DEF f, l
  <2>2. p.offset \in Nat /\ p.length \in Nat /\ p = [offset |-> p.offset, length |-> p.length]
    BY DEF Pieces
  <2>3. p.offset = 0
    BY <1>3, <1>4, <2>1, <2>2
  <2>4. k = l => EndOf[k] = Size
    BY <1>1, <1>3, <1>4
  <2>5. p.length = sizes[k]
    BY <1>1, <1>4, <2>1, <2>2, <2>3, <2>4
  <2>6. k = Len(sizes) => k = l
    BY <1>1, <1>3, <1>8
  <2>7. sizes[k] # 0
    <3>1. CASE k = l
      BY <1>1, <1>3, <1>4, <2>4, <3>1
    <3>2. CASE k # l
      BY <1>1, <1>4, <2>6, <3>2
    <3>3. QED
      BY <3>1, <3>2
  <2>8. QED
    BY <1>5, <2>1, <2>2, <2>3, <2>5, <2>7 DEF r
<1>9. QED
  BY <1>1, <1>3, <1>4, <1>6, <1>7, <1>8

\* The ranges without a byte add no piece.
LEMMA PlanFilled ==
    ASSUME AskedOK, asked # <<>>
    PROVE  PlanOf(asked)[Len(asked)] = PlanOf(Parts)[Len(Parts)]
<1> DEFINE A == PlanOf(asked)
           B == PlanOf(Parts)
<1>0. /\ Len(Parts) = Filled /\ \A n \in 1 .. Filled : Parts[n] = asked[n]
      /\ Filled \in Nat /\ Len(asked) \in Nat /\ Filled <= Len(asked)
  BY PartsShape, FilledOK
<1>1. /\ \A n \in 0 .. Len(asked) : A[n] \in Plans
      /\ \A k \in Blocks : A[0][k] = <<>>
      /\ \A n \in 1 .. Len(asked), k \in Blocks :
             A[n][k] = A[n - 1][k] \o BlocksOfRange(asked[n])[k]
  BY PlanOfAll DEF AskedOK
<1>2. /\ \A n \in 0 .. Filled : B[n] \in Plans
      /\ \A k \in Blocks : B[0][k] = <<>>
      /\ \A n \in 1 .. Filled, k \in Blocks :
             B[n][k] = B[n - 1][k] \o BlocksOfRange(Parts[n])[k]
  BY <1>0, PartsOK, PlanAdds DEF AskedOK
<1> HIDE DEF A, B
<1>3. \A n \in Nat : n <= Filled => \A k \in Blocks : A[n][k] = B[n][k]
  <2> DEFINE S == {n \in Nat : n <= Filled => \A k \in Blocks : A[n][k] = B[n][k]}
  <2>1. 0 \in S
    BY <1>1, <1>2
  <2>2. ASSUME NEW n \in Nat, n \in S, n + 1 <= Filled, NEW k \in Blocks
        PROVE  A[n + 1][k] = B[n + 1][k]
    <3>1. n + 1 \in 1 .. Filled /\ n + 1 \in 1 .. Len(asked) /\ (n + 1) - 1 = n /\ n <= Filled
      BY <1>0, <2>2
    <3>2. A[n][k] = B[n][k] /\ Parts[n + 1] = asked[n + 1]
      BY <1>0, <2>2, <3>1
    <3>3. /\ A[n + 1][k] = A[(n + 1) - 1][k] \o BlocksOfRange(asked[n + 1])[k]
          /\ B[n + 1][k] = B[(n + 1) - 1][k] \o BlocksOfRange(Parts[n + 1])[k]
      BY <1>1, <1>2, <3>1
    <3>4. QED
      BY <3>1, <3>2, <3>3
  <2>3. \A n \in Nat : n \in S => n + 1 \in S
    BY <1>0, <2>2
  <2> HIDE DEF S
  <2>4. Nat \subseteq S
    BY <2>1, <2>3, SetInduction
  <2>5. QED
    BY <2>4 DEF S
<1>4. \A d \in Nat : Filled + d <= Len(asked) =>
          \A k \in Blocks : A[Filled + d][k] = B[Filled][k]
  <2> DEFINE S == {d \in Nat : Filled + d <= Len(asked) =>
                      \A k \in Blocks : A[Filled + d][k] = B[Filled][k]}
  <2>1. 0 \in S
    BY <1>0, <1>3
  <2>2. ASSUME NEW d \in Nat, d \in S, Filled + (d + 1) <= Len(asked), NEW k \in Blocks
        PROVE  A[Filled + (d + 1)][k] = B[Filled][k]
    <3>1. PICK n \in Nat : n = Filled + (d + 1)
      BY <1>0
    <3>2. /\ n \in Filled + 1 .. Len(asked) /\ n - 1 = Filled + d /\ Filled + d <= Len(asked)
          /\ n \in 1 .. Len(asked) /\ n - 1 \in 0 .. Len(asked)
      BY <1>0, <2>2, <3>1
    <3>3. BlocksOfRange(asked[n])[k] = <<>>
      BY <3>2, FilledOK, NoPiecesOf DEF AskedOK
    <3>4. A[n - 1][k] = B[Filled][k] /\ A[n - 1][k] \in Seq(Pieces)
      BY <1>1, <2>2, <3>2 DEF Plans
    <3>5. A[n][k] = A[n - 1][k] \o <<>>
      BY <1>1, <3>2, <3>3
    <3>6. A[n - 1][k] \o <<>> = A[n - 1][k]
      BY <3>4, ConcatEmptySeq
    <3>7. QED
      BY <3>1, <3>4, <3>5, <3>6
  <2>3. \A d \in Nat : d \in S => d + 1 \in S
    <3>1. ASSUME NEW d \in Nat, d \in S
          PROVE  Filled + (d + 1) <= Len(asked) =>
                     \A k \in Blocks : A[Filled + (d + 1)][k] = B[Filled][k]
      BY <2>2, <3>1, Zenon
    <3>2. \A d \in Nat : d + 1 \in Nat
      OBVIOUS
    <3>3. QED
      BY <3>1, <3>2, Zenon
  <2> HIDE DEF S
  <2>4. Nat \subseteq S
    BY <2>1, <2>3, SetInduction
  <2>5. QED
    BY <2>4 DEF S
<1>5. \A k \in Blocks : A[Len(asked)][k] = B[Filled][k]
  <2>1. PICK d \in Nat : Filled + d = Len(asked)
    BY <1>0
  <2>2. Filled + d <= Len(asked)
    BY <1>0, <2>1
  <2>3. \A k \in Blocks : A[Filled + d][k] = B[Filled][k]
    BY <1>4, <2>2, Zenon
  <2>4. QED
    BY <2>1, <2>3, Zenon
<1>6. A[Len(asked)] \in Plans /\ B[Filled] \in Plans
  BY <1>0, <1>1, <1>2
<1>7. A[Len(asked)] = B[Filled]
  BY <1>5, <1>6 DEF Plans
<1>8. QED
  BY <1>0, <1>7 DEF A, B

LEMMA PlannedParts ==
    ASSUME AskedOK
    PROVE  Planned = PlanTo(Len(Parts))
<1>1. CASE asked # <<>>
  BY <1>1, PlanFilled DEF Planned, PlanTo
<1>2. CASE asked = <<>> /\ Size = 0 /\ Parts = <<>>
  <2>1. RangesOK(Parts) /\ SizesOK
    BY PartsOK DEF AskedOK
  <2>2. ASSUME NEW k \in Blocks
        PROVE  sizes[k] = 0
    <3>1. /\ Len(sizes) \in Nat /\ \A h \in 0 .. Len(sizes) : EndOf[h] \in Nat /\ EndOf[h] <= 0
      BY <1>2, <2>1, SizeOK
    <3>2. k \in 0 .. Len(sizes) /\ k - 1 \in 0 .. Len(sizes)
      BY <3>1 DEF Blocks
    <3>3. EndOf[k] = EndOf[k - 1] + sizes[k] /\ sizes[k] \in Nat
      BY <2>1, EndsAdd DEF SizesOK, Blocks
    <3>4. EndOf[k] = 0 /\ EndOf[k - 1] = 0
      BY <3>1, <3>2
    <3>5. QED
      BY <3>3, <3>4
  <2>3. Planned = [k \in Blocks |-> <<>>]
    BY <1>2, <2>2 DEF Planned, BlocksInFull
  <2>4. Len(Parts) = 0
    BY <1>2
  <2>5. PlanTo(0) \in Plans /\ \A k \in Blocks : PlanTo(0)[k] = <<>>
    <3>1. 0 \in 0 .. Len(Parts)
      BY <2>4
    <3>2. PlanOf(Parts)[0] \in Plans /\ \A k \in Blocks : PlanOf(Parts)[0][k] = <<>>
      BY <2>1, <3>1, PlanAdds
    <3>3. QED
      BY <3>2 DEF PlanTo
  <2>6. QED
    BY <2>3, <2>4, <2>5 DEF Plans
<1>3. CASE /\ asked = <<>> /\ Size > 0 /\ Len(Parts) = 1
           /\ Parts[1] = [start |-> 0, length |-> Size]
  <2>1. RangesOK(Parts) /\ SizesOK
    BY PartsOK DEF AskedOK
  <2>2. PlanTo(1) \in Plans /\ PlanTo(0) \in Plans
    <3>1. 0 \in 0 .. Len(Parts) /\ 1 \in 0 .. Len(Parts)
      BY <1>3
    <3>2. PlanOf(Parts)[0] \in Plans /\ PlanOf(Parts)[1] \in Plans
      BY <2>1, <3>1, PlanAdds
    <3>3. QED
      BY <3>2 DEF PlanTo
  <2>3. ASSUME NEW k \in Blocks
        PROVE  PlanTo(1)[k] = BlocksInFull[k]
    <3>1. /\ PlanTo(1)[k] = <<>> \o BlocksOfRange(Parts[1])[k]
      <4>1. 1 \in 1 .. Len(Parts) /\ 1 - 1 = 0
        BY <1>3
      <4>2. /\ PlanTo(1)[k] = PlanTo(0)[k] \o BlocksOfRange(Parts[1])[k]
            /\ PlanTo(0)[k] = <<>>
        <5>1. \A h \in 1 .. Len(Parts) :
                  PlanOf(Parts)[h][k] = PlanOf(Parts)[h - 1][k] \o BlocksOfRange(Parts[h])[k]
          BY <2>1, PlanAdds
        <5>2. PlanOf(Parts)[0][k] = <<>>
          BY <2>1, PlanAdds
        <5>3. PlanOf(Parts)[1][k] = PlanOf(Parts)[1 - 1][k] \o BlocksOfRange(Parts[1])[k]
          BY <4>1, <5>1
        <5>4. QED
          BY <4>1, <5>2, <5>3 DEF PlanTo
      <4>3. QED
        BY <4>2
    <3>2. BlocksOfRange(Parts[1])[k] \in Seq(Pieces)
      BY <1>3, <2>1, PiecesTyped DEF RangesOK
    <3>3. <<>> \o BlocksOfRange(Parts[1])[k] = BlocksOfRange(Parts[1])[k]
      BY <3>2, ConcatEmptySeq
    <3>4. QED
      BY <1>3, <2>1, <3>1, <3>3, WholeFile
  <2>4. Planned = BlocksInFull
    BY <1>3 DEF Planned
  <2>5. PlanTo(1) = BlocksInFull
    BY <2>2, <2>3 DEF Plans, BlocksInFull
  <2>6. QED
    BY <1>3, <2>4, <2>5
<1>4. QED
  BY <1>1, <1>2, <1>3, PartsShape

\* What of the parts is sent is what the ranges begin with.
LEMMA SentFilled ==
    ASSUME AskedOK, asked # <<>>
    PROVE  Sent(Len(Parts)) = Answer(asked)[Filled]
<1> DEFINE A == Answer(asked)
           B == Answer(Parts)
<1>0. /\ Len(Parts) = Filled /\ \A n \in 1 .. Filled : Parts[n] = asked[n]
      /\ Filled \in Nat /\ Len(asked) \in Nat /\ Filled <= Len(asked)
  BY PartsShape, FilledOK
<1>1. /\ A[0] = <<>>
      /\ \A n \in 1 .. Len(asked) : A[n] = A[n - 1] \o Part(asked[n])
  BY AnswerOfAll DEF AskedOK
<1>2. /\ B[0] = <<>>
      /\ \A n \in 1 .. Filled : B[n] = B[n - 1] \o Part(Parts[n])
  BY <1>0, PartsOK, AnswerAdds
<1> HIDE DEF A, B
<1>3. \A n \in Nat : n <= Filled => A[n] = B[n]
  <2> DEFINE S == {n \in Nat : n <= Filled => A[n] = B[n]}
  <2>1. 0 \in S
    BY <1>1, <1>2
  <2>2. ASSUME NEW n \in Nat, n \in S, n + 1 <= Filled
        PROVE  A[n + 1] = B[n + 1]
    <3>1. n + 1 \in 1 .. Filled /\ n + 1 \in 1 .. Len(asked) /\ (n + 1) - 1 = n /\ n <= Filled
      BY <1>0, <2>2
    <3>2. A[n] = B[n] /\ Parts[n + 1] = asked[n + 1]
      BY <1>0, <2>2, <3>1
    <3>3. /\ A[n + 1] = A[(n + 1) - 1] \o Part(asked[n + 1])
          /\ B[n + 1] = B[(n + 1) - 1] \o Part(Parts[n + 1])
      BY <1>1, <1>2, <3>1
    <3>4. QED
      BY <3>1, <3>2, <3>3
  <2>3. \A n \in Nat : n \in S => n + 1 \in S
    BY <1>0, <2>2
  <2> HIDE DEF S
  <2>4. Nat \subseteq S
    BY <2>1, <2>3, SetInduction
  <2>5. QED
    BY <2>4 DEF S
<1>4. A[Filled] = B[Filled]
  BY <1>0, <1>3
<1>5. QED
  BY <1>0, <1>4 DEF A, B, Sent

\* The parts are what the right answer begins with; if no range lacks a byte, only
\* the footer follows.
LEMMA ExpectedTyped ==
    ASSUME SizesOK, InFile(asked)
    PROVE  Expected \in Seq(Items)
<1>1. CASE asked = <<>>
  <2>1. Bytes(0, Size) \in Seq(Items)
    BY SizeOK, BytesJoin
  <2>2. QED
    BY <1>1, <2>1 DEF Expected
<1>2. CASE asked # <<>>
  <2>1. Len(asked) \in Nat /\ Len(asked) \in 0 .. Len(asked)
    BY DEF InFile
  <2>2. Answer(asked)[Len(asked)] \in Seq(Items)
    BY <2>1, AnswerOfAll
  <2>3. (IF Multipart THEN <<"footer">> ELSE <<>>) \in Seq(Items)
    <3>1. "footer" \in Items
      BY DEF Items
    <3>2. <<"footer">> \in Seq(Items) /\ <<>> \in Seq(Items)
      BY <3>1
    <3>3. QED
      BY <3>2
  <2>4. QED
    BY <1>2, <2>2, <2>3, ConcatProperties DEF Expected
<1>3. QED
  BY <1>1, <1>2

LEMMA ExpectedParts ==
    ASSUME AskedOK
    PROVE  /\ Sent(Len(Parts)) \in Seq(Items) /\ Expected \in Seq(Items)
           /\ Starts(Sent(Len(Parts)), Expected)
           /\ ~Multipart => Expected = Sent(Len(Parts))
           /\ Multipart /\ Filled = Len(asked) =>
                  Expected = Sent(Len(Parts)) \o <<"footer">>
           /\ Multipart => /\ Len(Parts) = Filled
                           /\ \A n \in 1 .. Filled : Parts[n] = asked[n]
<1>0. /\ RangesOK(Parts) /\ Len(Parts) \in Nat /\ Size \in Nat /\ Expected \in Seq(Items)
  BY PartsOK, SizeOK, ExpectedTyped DEF RangesOK, AskedOK
<1>1. /\ \A n \in 0 .. Len(Parts) : Sent(n) \in Seq(Items)
      /\ Sent(0) = <<>>
      /\ \A n \in 1 .. Len(Parts) : Sent(n) = Sent(n - 1) \o Part(Parts[n])
      /\ Sent(Len(Parts)) \in Seq(Items)
  <2>1. Len(Parts) \in 0 .. Len(Parts)
    BY <1>0
  <2>2. \A n \in 0 .. Len(Parts) : Sent(n) \in Seq(Items)
    BY <1>0, AnswerAdds DEF Sent
  <2>3. QED
    BY <1>0, <2>1, <2>2, AnswerAdds DEF Sent
<1>2. CASE asked # <<>>
  <2> DEFINE foot == IF Multipart THEN <<"footer">> ELSE <<>>
             a == Answer(asked)[Filled]
             e == Answer(asked)[Len(asked)]
  <2>1. /\ Filled \in Nat /\ Len(asked) \in Nat /\ Filled \in 0 .. Len(asked)
        /\ Filled <= Len(asked) /\ Len(asked) \in 0 .. Len(asked)
    BY FilledOK
  <2>2. a \in Seq(Items) /\ e \in Seq(Items) /\ Starts(a, e)
    BY <2>1, AnswerOfAll, AnswerGrows DEF AskedOK
  <2>3. foot \in Seq(Items)
    <3>1. "footer" \in Items
      BY DEF Items
    <3>2. <<"footer">> \in Seq(Items) /\ <<>> \in Seq(Items)
      BY <3>1
    <3>3. QED
      BY <3>2
  <2>4. Expected = e \o foot /\ Sent(Len(Parts)) = a
    BY <1>2, SentFilled DEF Expected
  <2>5. ~Multipart => e = a
    <3>1. ASSUME ~Multipart
          PROVE  e = a
      <4>1. Len(asked) = 1
        <5>1. ~(Len(asked) > 1) /\ Len(asked) # 0
          BY <1>2, <3>1 DEF Multipart, AskedOK
        <5>2. QED
          BY <2>1, <5>1
      <4>2. CASE Filled = 1
        BY <4>1, <4>2
      <4>3. CASE Filled = 0
        <5>1. NoBytes(asked[1]) /\ 1 \in 1 .. Len(asked) /\ 1 - 1 = 0
          BY <4>1, <4>3, FilledOK
        <5>2. e = Answer(asked)[0] \o Part(asked[1]) /\ Answer(asked)[0] = <<>>
          <6>1. Answer(asked)[1] = Answer(asked)[1 - 1] \o Part(asked[1])
            BY <5>1, AnswerOfAll DEF AskedOK
          <6>2. Answer(asked)[0] = <<>>
            BY AnswerOfAll DEF AskedOK
          <6>3. QED
            BY <4>1, <5>1, <6>1, <6>2
        <5>3. Part(asked[1]) \in Seq(Items) /\ Len(Part(asked[1])) = 0
          <6>1. /\ Part(asked[1]) \in Seq(Items)
                /\ Len(Part(asked[1])) = (IF Multipart THEN 1 ELSE 0) + asked[1].length
            BY <5>1, PartTyped
          <6>2. QED
            BY <3>1, <5>1, <6>1 DEF NoBytes
        <5>4. Part(asked[1]) = <<>>
          BY <5>3
        <5>5. QED
          BY <4>3, <5>2, <5>4
      <4>4. QED
        BY <2>1, <4>1, <4>2, <4>3
    <3>2. QED
      BY <3>1
  <2> HIDE DEF a, e, foot
  <2>6. Starts(e, Expected)
    BY <1>0, <2>2, <2>3, <2>4, StartsConcat
  <2>7. Starts(a, Expected)
    BY <1>0, <2>2, <2>6, StartsOn
  <2>8. ~Multipart => Expected = a
    <3>1. ASSUME ~Multipart
          PROVE  Expected = a
      <4>1. foot = <<>> /\ e = a
        BY <2>5, <3>1 DEF foot
      <4>2. a \o <<>> = a
        BY <2>2, ConcatEmptySeq
      <4>3. QED
        BY <2>4, <4>1, <4>2
    <3>2. QED
      BY <3>1
  <2>9. Multipart /\ Filled = Len(asked) => Expected = a \o <<"footer">>
    BY <2>4 DEF a, e, foot
  <2>10. Len(Parts) = Filled /\ \A n \in 1 .. Filled : Parts[n] = asked[n]
    BY <1>2, PartsShape
  <2>11. QED
    BY <1>0, <1>1, <2>4, <2>7, <2>8, <2>9, <2>10
<1>3. ASSUME Expected = Sent(Len(Parts)), ~Multipart
      PROVE  Starts(Sent(Len(Parts)), Expected)
  BY <1>0, <1>3 DEF Starts
<1>4. CASE asked = <<>> /\ Size = 0 /\ Parts = <<>>
  <2>1. ~Multipart /\ Len(Parts) = 0
    BY <1>4 DEF Multipart
  <2>2. Expected = Bytes(0, 0) /\ Bytes(0, 0) \in Seq(Items) /\ Len(Bytes(0, 0)) = 0
    BY <1>4, BytesJoin DEF Expected
  <2>3. Expected = <<>>
    BY <2>2
  <2>4. Expected = Sent(Len(Parts))
    BY <1>1, <2>1, <2>3
  <2>5. QED
    BY <1>0, <1>1, <1>3, <2>1, <2>4
<1>5. CASE /\ asked = <<>> /\ Size > 0 /\ Len(Parts) = 1
           /\ Parts[1] = [start |-> 0, length |-> Size]
  <2>1. ~Multipart
    BY <1>5 DEF Multipart
  <2>2. Part(Parts[1]) = <<>> \o Bytes(0, Size)
    BY <1>5, <2>1 DEF Part, BytesOf
  <2>3. Bytes(0, Size) \in Seq(Items)
    BY <1>0, BytesJoin
  <2>4. <<>> \o Bytes(0, Size) = Bytes(0, Size)
    BY <2>3, ConcatEmptySeq
  <2>5. Sent(1) = <<>> \o Part(Parts[1])
    <3>1. 1 \in 1 .. Len(Parts) /\ 1 - 1 = 0
      BY <1>5
    <3>2. Sent(1) = Sent(1 - 1) \o Part(Parts[1])
      BY <1>1, <3>1
    <3>3. QED
      BY <1>1, <3>1, <3>2
  <2>6. Sent(1) = Bytes(0, Size)
    BY <2>2, <2>4, <2>5
  <2>7. Expected = Bytes(0, Size)
    BY <1>5 DEF Expected
  <2>8. Expected = Sent(Len(Parts))
    BY <1>5, <2>6, <2>7
  <2>9. QED
    BY <1>0, <1>1, <1>3, <2>1, <2>8
<1>6. QED
  BY <1>2, <1>4, <1>5, PartsShape

-----------------------------------------------------------------------------
(* The pieces of a range among those of its blocks. *)

\* Before the first block of a range nothing of it or of later ranges is planned.
LEMMA NoneEarlier ==
    ASSUME SizesOK, NEW q, RangesOK(q), Apart(q), NEW k \in Blocks,
           NEW c \in 0 .. Len(q), c < Len(q) => k < FirstBlock(q[c + 1])
    PROVE  PlanOf(q)[Len(q)][k] = PlanOf(q)[c][k]
<1>0. Len(q) \in Nat /\ k \in Nat
  BY DEF RangesOK, Blocks
<1>1. ASSUME NEW h \in c + 1 .. Len(q)
      PROVE  BlocksOfRange(q[h])[k] = <<>>
  <2>0. /\ h \in 1 .. Len(q) /\ c + 1 \in 1 .. Len(q) /\ c < Len(q) /\ h \in Nat
        /\ k < FirstBlock(q[c + 1])
    BY <1>0
  <2>1. /\ RangeOK(q[h]) /\ RangeOK(q[c + 1])
    BY <2>0 DEF RangesOK
  <2>2. /\ FirstBlock(q[h]) \in Nat /\ FirstBlock(q[c + 1]) \in Nat
        /\ LastBlock(q[c + 1]) \in Nat /\ LastBlock(q[h]) \in Nat
        /\ FirstBlock(q[c + 1]) <= LastBlock(q[c + 1])
    BY <2>1, Span, SMTT(20) DEF Blocks
  <2>3. CASE h = c + 1
    <3>1. k \notin FirstBlock(q[h]) .. LastBlock(q[h])
      BY <1>0, <2>0, <2>2, <2>3
    <3>2. QED
      BY <2>1, <3>1, PieceSpan
  <2>4. CASE h # c + 1
    <3>0. c + 1 < h
      BY <2>0, <2>4
    <3>1. LastBlock(q[c + 1]) <= FirstBlock(q[h])
      BY <2>0, <3>0, BlocksApart
    <3>2. k \notin FirstBlock(q[h]) .. LastBlock(q[h])
      BY <1>0, <2>0, <2>2, <3>1
    <3>3. QED
      BY <2>1, <3>2, PieceSpan
  <2>5. QED
    BY <2>3, <2>4
<1>2. Len(q) \in 0 .. Len(q) /\ c <= Len(q)
  BY <1>0
<1>3. QED
  BY <1>1, <1>2, PlanStays

\* After the last block of a range nothing of it or of earlier ranges is planned.
LEMMA NoneLater ==
    ASSUME SizesOK, NEW q, RangesOK(q), Apart(q), NEW k \in Blocks,
           NEW c \in 0 .. Len(q), c > 0 => LastBlock(q[c]) < k
    PROVE  PlanOf(q)[c][k] = <<>>
<1>0. Len(q) \in Nat /\ k \in Nat
  BY DEF RangesOK, Blocks
<1>1. ASSUME NEW h \in 0 + 1 .. c
      PROVE  BlocksOfRange(q[h])[k] = <<>>
  <2>0. h \in 1 .. Len(q) /\ c \in 1 .. Len(q) /\ c > 0 /\ LastBlock(q[c]) < k
    BY <1>0
  <2>1. RangeOK(q[h]) /\ RangeOK(q[c])
    BY <2>0 DEF RangesOK
  <2>2. /\ FirstBlock(q[h]) \in Nat /\ FirstBlock(q[c]) \in Nat
        /\ LastBlock(q[c]) \in Nat /\ LastBlock(q[h]) \in Nat
        /\ FirstBlock(q[c]) <= LastBlock(q[c])
    BY <2>1, Span DEF Blocks
  <2>3. LastBlock(q[h]) < k
    <3>1. CASE h = c
      BY <2>0, <3>1
    <3>2. CASE h # c
      <4>1. h < c
        BY <2>0, <3>2
      <4>2. LastBlock(q[h]) <= FirstBlock(q[c])
        BY <2>0, <4>1, BlocksApart
      <4>3. QED
        BY <1>0, <2>0, <2>2, <4>2
    <3>3. QED
      BY <3>1, <3>2
  <2>4. k \notin FirstBlock(q[h]) .. LastBlock(q[h])
    BY <1>0, <2>2, <2>3
  <2>5. QED
    BY <2>1, <2>4, PieceSpan
<1>2. 0 \in 0 .. Len(q) /\ 0 <= c
  BY <1>0
<1>3. PlanOf(q)[c][k] = PlanOf(q)[0][k]
  BY <1>1, <1>2, PlanStays
<1>4. QED
  BY <1>3, PlanAdds

\* The piece of a range comes right after those of the ranges before it.
PieceFits(q, c, k) ==
    LET r == q[c]
        n == Len(PlanOf(q)[c - 1][k]) + 1
        v == PlanOf(q)[Len(q)][k]
    IN  /\ k \in Blocks /\ Len(v) \in Nat
        /\ n \in 1 .. Len(v) /\ Len(PlanOf(q)[c][k]) = n
        /\ k > FirstBlock(r) => n = 1
        /\ k < LastBlock(r) => n = Len(v)
        /\ v[n] \in Pieces
        /\ EndOf[k - 1] + v[n].offset = IF k = FirstBlock(r) THEN r.start ELSE EndOf[k - 1]
        /\ EndOf[k - 1] + v[n].offset + v[n].length =
               IF k = LastBlock(r) THEN r.start + r.length ELSE EndOf[k]
        /\ v[n].offset + v[n].length <= sizes[k]

LEMMA PieceAt ==
    ASSUME SizesOK, NEW q, RangesOK(q), Apart(q), NEW c \in 1 .. Len(q),
           NEW k \in FirstBlock(q[c]) .. LastBlock(q[c])
    PROVE  PieceFits(q, c, k)
<1> DEFINE r == q[c]
           s == PlanOf(q)[c - 1][k]
           t == PlanOf(q)[c][k]
           v == PlanOf(q)[Len(q)][k]
<1>0. /\ Len(q) \in Nat /\ c \in Nat /\ c \in 0 .. Len(q) /\ c - 1 \in 0 .. Len(q)
      /\ Len(q) \in 0 .. Len(q) /\ c <= Len(q)
  BY DEF RangesOK
<1>1. RangeOK(r)
  BY DEF RangesOK
<1>2. /\ FirstBlock(r) \in 1 .. Len(sizes) /\ LastBlock(r) \in 1 .. Len(sizes)
      /\ FirstBlock(r) <= LastBlock(r) /\ Len(sizes) \in Nat
  BY <1>1, Span DEF Blocks, SizesOK
<1>3. k \in Blocks /\ k \in Nat
  BY <1>2 DEF Blocks
<1>4. PICK p \in Pieces :
          /\ BlocksOfRange(r)[k] = <<p>>
          /\ EndOf[k - 1] + p.offset = IF k = FirstBlock(r) THEN r.start ELSE EndOf[k - 1]
          /\ EndOf[k - 1] + p.offset + p.length =
                 IF k = LastBlock(r) THEN r.start + r.length ELSE EndOf[k]
          /\ p.offset + p.length <= sizes[k]
  BY <1>1, <1>3, PieceSpan
<1>5. s \in Seq(Pieces) /\ t \in Seq(Pieces) /\ v \in Seq(Pieces) /\ t = s \o <<p>>
  <2>1. /\ PlanOf(q)[c - 1] \in Plans /\ PlanOf(q)[c] \in Plans /\ PlanOf(q)[Len(q)] \in Plans
    BY <1>0, PlanAdds
  <2>2. t = s \o BlocksOfRange(r)[k]
    BY <1>3, PlanAdds
  <2>3. QED
    BY <1>3, <1>4, <2>1, <2>2 DEF Plans
<1>6. /\ Len(s) \in Nat /\ Len(t) = Len(s) + 1 /\ t[Len(s) + 1] = p
  BY <1>5
<1>7. Starts(t, v)
  BY <1>0, <1>3, PlanGrows
<1>8. Len(v) \in Nat /\ Len(s) + 1 \in 1 .. Len(v) /\ v[Len(s) + 1] = p
  BY <1>5, <1>6, <1>7, SMTT(20) DEF Starts
<1>9. ASSUME k > FirstBlock(r)
      PROVE  Len(s) + 1 = 1
  <2>1. c - 1 > 0 => LastBlock(q[c - 1]) < k
    <3>1. ASSUME c - 1 > 0
          PROVE  LastBlock(q[c - 1]) < k
      <4>1. c - 1 \in 1 .. Len(q) /\ c - 1 < c
        BY <1>0, <3>1
      <4>2. LastBlock(q[c - 1]) <= FirstBlock(r)
        BY <4>1, BlocksApart
      <4>3. LastBlock(q[c - 1]) \in Nat
        BY <4>1, Span DEF RangesOK, Blocks
      <4>4. QED
        BY <1>2, <1>3, <1>9, <4>2, <4>3
    <3>2. QED
      BY <3>1
  <2>2. s = <<>>
    BY <1>0, <1>3, <2>1, NoneLater
  <2>3. QED
    BY <2>2
<1>10. ASSUME k < LastBlock(r)
       PROVE  Len(s) + 1 = Len(v)
  <2>1. c < Len(q) => k < FirstBlock(q[c + 1])
    <3>1. ASSUME c < Len(q)
          PROVE  k < FirstBlock(q[c + 1])
      <4>1. c + 1 \in 1 .. Len(q) /\ c < c + 1
        BY <1>0, <3>1
      <4>2. LastBlock(r) <= FirstBlock(q[c + 1])
        BY <4>1, BlocksApart
      <4>3. FirstBlock(q[c + 1]) \in Nat
        BY <4>1, Span DEF RangesOK, Blocks
      <4>4. QED
        BY <1>2, <1>3, <1>10, <4>2, <4>3
    <3>2. QED
      BY <3>1
  <2>2. v = t
    BY <1>0, <1>3, <2>1, NoneEarlier
  <2>3. QED
    BY <1>6, <2>2
<1>11. QED
  BY <1>3, <1>4, <1>6, <1>8, <1>9, <1>10 DEF PieceFits

Header(c) == IF Multipart THEN <<Parts[c]>> ELSE <<>>

\* The beginning of part c: its header and n bytes.
Begun(c, n) == (Sent(c - 1) \o Header(c)) \o Bytes(Parts[c].start, n)

LEMMA Begins ==
    ASSUME AskedOK, NEW c \in 1 .. Len(Parts)
    PROVE  /\ Parts[c].start \in Nat /\ Parts[c].length \in Nat /\ Parts[c].length > 0
           /\ Sent(c - 1) \in Seq(Items) /\ Header(c) \in Seq(Items)
           /\ \A n \in Nat : Begun(c, n) \in Seq(Items)
           /\ Begun(c, Parts[c].length) = Sent(c)
           /\ \A n, l \in Nat :
                  Begun(c, n) \o Bytes(Parts[c].start + n, l) = Begun(c, n + l)
<1> DEFINE r == Parts[c]
           s == Sent(c - 1)
           h == Header(c)
<1>0. RangesOK(Parts) /\ RangeOK(r)
  BY PartsOK DEF RangesOK
<1>1. r.start \in Nat /\ r.length \in Nat /\ r.length > 0 /\ r \in Items
  BY <1>0 DEF RangeOK, Items
<1>2. s \in Seq(Items) /\ Sent(c) = s \o Part(r)
  <2>1. Len(Parts) \in Nat /\ c - 1 \in 0 .. Len(Parts)
    BY <1>0 DEF RangesOK
  <2>2. /\ Answer(Parts)[c - 1] \in Seq(Items)
        /\ Answer(Parts)[c] = Answer(Parts)[c - 1] \o Part(r)
    BY <1>0, <2>1, AnswerAdds
  <2>3. QED
    BY <2>2 DEF Sent
<1>3. h \in Seq(Items)
  BY <1>1 DEF Header
<1>4. \A n \in Nat : Bytes(r.start, n) \in Seq(Items)
  BY <1>1, BytesJoin
<1>5. s \o h \in Seq(Items)
  BY <1>2, <1>3, ConcatProperties
<1>6. Part(r) = h \o Bytes(r.start, r.length)
  BY DEF Part, BytesOf, Header
<1>7. \A n \in Nat : Begun(c, n) = (s \o h) \o Bytes(r.start, n)
  BY DEF Begun
<1> HIDE DEF r, s, h
<1>8. \A n \in Nat : Begun(c, n) \in Seq(Items)
  BY <1>4, <1>5, <1>7, ConcatProperties
<1>9. Begun(c, r.length) = Sent(c)
  <2>1. Bytes(r.start, r.length) \in Seq(Items)
    BY <1>1, <1>4
  <2>2. (s \o h) \o Bytes(r.start, r.length) = s \o (h \o Bytes(r.start, r.length))
    BY <1>2, <1>3, <2>1, Associates
  <2>3. QED
    BY <1>1, <1>2, <1>6, <1>7, <2>2, Zenon
<1>10. ASSUME NEW n \in Nat, NEW l \in Nat
       PROVE  Begun(c, n) \o Bytes(r.start + n, l) = Begun(c, n + l)
  <2>1. r.start + n \in Nat /\ n + l \in Nat
    BY <1>1
  <2>2. /\ Bytes(r.start, n) \in Seq(Items) /\ Bytes(r.start + n, l) \in Seq(Items)
        /\ Bytes(r.start, n) \o Bytes(r.start + n, l) = Bytes(r.start, n + l)
    BY <1>1, <2>1, BytesJoin
  <2>3. /\ Begun(c, n) = (s \o h) \o Bytes(r.start, n)
        /\ Begun(c, n + l) = (s \o h) \o Bytes(r.start, n + l)
    BY <1>7, <2>1, Zenon
  <2>4. ((s \o h) \o Bytes(r.start, n)) \o Bytes(r.start + n, l)
            = (s \o h) \o (Bytes(r.start, n) \o Bytes(r.start + n, l))
    BY <1>5, <2>2, Associates
  <2>5. QED
    BY <2>2, <2>3, <2>4
<1>11. QED
  BY <1>1, <1>2, <1>3, <1>8, <1>9, <1>10 DEF r, s, h

-----------------------------------------------------------------------------
(* How long a number is. *)

LEMMA TenAdds ==
    /\ Ten[0] = 1
    /\ \A w \in Nat : Ten[w] \in Nat /\ Ten[w] > 0 /\ Ten[w + 1] = 10 * Ten[w]
<1> DEFINE G(n) == {g \in [0 .. n -> Nat] : g[0] = 1 /\ \A k \in 1 .. n : g[k] = 10 * g[k - 1]}
           h == [n \in Nat |-> (CHOOSE g \in G(n) : TRUE)[n]]
<1>1. ASSUME NEW n \in Nat
      PROVE  G(n) # {}
  <2> DEFINE step == [k \in 1 .. n |-> [v \in Nat |-> 10 * v]]
  <2>1. \A k \in 1 .. n, v \in Nat : step[k][v] = 10 * v /\ step[k][v] \in Nat
    OBVIOUS
  <2> HIDE DEF step
  <2>2. PICK g \in [0 .. n -> Nat] : Follows(g, n, 1, step)
    <3>1. Steps(step, n, Nat)
      BY <2>1 DEF Steps
    <3>2. QED
      BY <3>1, Recursion
  <2>3. \A k \in 1 .. n : k - 1 \in 0 .. n
    OBVIOUS
  <2>4. \A k \in 1 .. n : g[k - 1] \in Nat
    BY <2>2, <2>3
  <2>5. \A k \in 1 .. n : g[k] = 10 * g[k - 1]
    BY <2>1, <2>2, <2>4 DEF Follows
  <2>6. g \in G(n)
    BY <2>2, <2>5 DEF Follows
  <2>7. QED
    BY <2>6
<1>2. ASSUME NEW a \in Nat, NEW b \in Nat, NEW f \in G(a), NEW g \in G(b)
      PROVE  \A k \in Nat : k <= a /\ k <= b => f[k] = g[k]
  <2> DEFINE S == {k \in Nat : k <= a /\ k <= b => f[k] = g[k]}
  <2>1. 0 \in S
    OBVIOUS
  <2>2. ASSUME NEW k \in Nat, k \in S, k + 1 <= a, k + 1 <= b
        PROVE  f[k + 1] = g[k + 1]
    <3>1. k + 1 \in 1 .. a /\ k + 1 \in 1 .. b /\ (k + 1) - 1 = k /\ k <= a /\ k <= b
      BY <2>2
    <3>2. f[k] = g[k]
      BY <2>2, <3>1
    <3>3. f[k + 1] = 10 * f[(k + 1) - 1] /\ g[k + 1] = 10 * g[(k + 1) - 1]
      BY <3>1
    <3>4. QED
      BY <3>1, <3>2, <3>3
  <2>3. \A k \in Nat : k \in S => k + 1 \in S
    BY <2>2
  <2> HIDE DEF S
  <2>4. Nat \subseteq S
    BY <2>1, <2>3, SetInduction
  <2>5. QED
    BY <2>4 DEF S
<1>3. ASSUME NEW n \in Nat
      PROVE  h[n] \in Nat /\ h[n] = IF n = 0 THEN 1 ELSE 10 * h[n - 1]
  <2>1. PICK g \in G(n) : h[n] = g[n]
    BY <1>1
  <2>2. g \in [0 .. n -> Nat] /\ n \in 0 .. n
    BY <2>1
  <2>3. CASE n = 0
    BY <2>1, <2>2, <2>3
  <2>4. CASE n # 0
    <3>1. n - 1 \in Nat /\ n \in 1 .. n /\ n - 1 <= n
      BY <2>4
    <3>2. PICK f \in G(n - 1) : h[n - 1] = f[n - 1]
      BY <1>1, <3>1
    <3>3. f[n - 1] = g[n - 1]
      <4>1. n \in Nat /\ g \in G(n) /\ f \in G(n - 1)
        BY <2>1, <3>2
      <4> HIDE DEF G
      <4>2. \A k \in Nat : k <= n - 1 /\ k <= n => f[k] = g[k]
        BY <1>2, <3>1, <4>1
      <4>3. QED
        BY <3>1, <4>2
    <3>4. g[n] = 10 * g[n - 1]
      BY <2>1, <3>1
    <3>5. QED
      BY <2>1, <2>2, <2>4, <3>2, <3>3, <3>4
  <2>5. QED
    BY <2>3, <2>4
<1>4. h = [n \in Nat |-> IF n = 0 THEN 1 ELSE 10 * h[n - 1]]
  <2>1. \A n \in Nat : h[n] = IF n = 0 THEN 1 ELSE 10 * h[n - 1]
    BY <1>3
  <2>2. h = [n \in Nat |-> h[n]]
    OBVIOUS
  <2> HIDE DEF h
  <2>3. QED
    BY <2>1, <2>2
<1> HIDE DEF h
<1>5. Ten = [w \in Nat |-> IF w = 0 THEN 1 ELSE 10 * Ten[w - 1]]
  BY <1>4 DEF Ten
<1>6. Ten[0] = 1
  BY <1>5
<1>7. \A w \in Nat : Ten[w + 1] = 10 * Ten[w]
  <2>1. ASSUME NEW w \in Nat
        PROVE  Ten[w + 1] = 10 * Ten[w]
    <3>1. w + 1 \in Nat /\ w + 1 # 0 /\ (w + 1) - 1 = w
      OBVIOUS
    <3>2. Ten[w + 1] = IF w + 1 = 0 THEN 1 ELSE 10 * Ten[(w + 1) - 1]
      BY <1>5, <3>1
    <3>3. QED
      BY <3>1, <3>2
  <2>2. QED
    BY <2>1
<1>8. \A w \in Nat : Ten[w] \in Nat /\ Ten[w] > 0
  <2> DEFINE S == {w \in Nat : Ten[w] \in Nat /\ Ten[w] > 0}
  <2>1. 0 \in S
    BY <1>6
  <2>2. \A w \in Nat : w \in S => w + 1 \in S
    BY <1>7
  <2> HIDE DEF S
  <2>3. Nat \subseteq S
    BY <2>1, <2>2, SetInduction
  <2>4. QED
    BY <2>3 DEF S
<1>9. QED
  BY <1>6, <1>7, <1>8

LEMMA TenOrdered ==
    ASSUME NEW a \in Nat, NEW b \in Nat, a <= b
    PROVE  Ten[a] <= Ten[b]
<1> DEFINE S == {d \in Nat : Ten[a] <= Ten[a + d]}
<1>1. 0 \in S
  BY TenAdds
<1>2. ASSUME NEW d \in Nat, d \in S
      PROVE  d + 1 \in S
  <2>1. Ten[(a + d) + 1] = 10 * Ten[a + d] /\ Ten[a + d] \in Nat /\ Ten[a] \in Nat
    BY TenAdds
  <2>2. a + (d + 1) = (a + d) + 1
    OBVIOUS
  <2>3. Ten[a] <= Ten[a + d]
    BY <1>2
  <2>4. Ten[a] <= 10 * Ten[a + d]
    BY <2>1, <2>3
  <2>5. QED
    BY <2>1, <2>2, <2>4
<1> HIDE DEF S
<1>3. b - a \in S
  BY <1>1, <1>2, SetInduction
<1>4. QED
  BY <1>3 DEF S

\* w digits are what it takes to write n.
Takes(n, w) == w \in 1 .. n + 1 /\ n < Ten[w] /\ (w = 1 \/ Ten[w - 1] <= n)

\* Division by ten takes the last digit off.
LEMMA LastDigit ==
    ASSUME NEW n \in Nat
    PROVE  /\ n < 10 => Takes(n, 1) /\ n \div 10 = 0
           /\ n >= 10 => /\ n \div 10 \in Nat \ {0} /\ n \div 10 < n
                         /\ \A w : Takes(n \div 10, w) => Takes(n, w + 1)
<1>1. Ten[1] = 10
  <2>1. Ten[0 + 1] = 10 * Ten[0] /\ Ten[0] = 1
    BY TenAdds
  <2>2. QED
    BY <2>1
<1>2. CASE n < 10
  BY <1>1, <1>2 DEF Takes
<1>3. CASE n >= 10
  <2>1. PICK q \in Nat : q = n \div 10
    OBVIOUS
  <2>2. 10 * q <= n /\ n < 10 * q + 10 /\ q # 0 /\ q < n
    BY <1>3, <2>1
  <2>3. ASSUME NEW w, Takes(q, w)
        PROVE  Takes(n, w + 1)
    <3>1. w \in 1 .. q + 1 /\ q < Ten[w] /\ (w = 1 \/ Ten[w - 1] <= q)
      BY <2>3 DEF Takes
    <3>2. w \in Nat /\ w - 1 \in Nat /\ (w - 1) + 1 = w
      BY <3>1
    <3>3. Ten[w] \in Nat /\ Ten[w + 1] = 10 * Ten[w]
      BY <3>2, TenAdds
    <3>4. Ten[w - 1] \in Nat /\ Ten[w] = 10 * Ten[w - 1]
      <4>1. Ten[w - 1] \in Nat /\ Ten[(w - 1) + 1] = 10 * Ten[w - 1]
        BY <3>2, TenAdds
      <4>2. QED
        BY <3>2, <4>1
    <3>5. n < Ten[w + 1]
      BY <2>2, <3>1, <3>3
    <3>6. Ten[w] <= n
      <4>1. CASE w = 1
        BY <1>1, <1>3, <4>1
      <4>2. CASE Ten[w - 1] <= q
        BY <2>2, <3>4, <4>2
      <4>3. QED
        BY <3>1, <4>1, <4>2
    <3>7. w + 1 \in 1 .. n + 1 /\ (w + 1) - 1 = w
      BY <2>2, <3>1
    <3>8. QED
      BY <3>5, <3>6, <3>7 DEF Takes
  <2>4. QED
    BY <1>3, <2>1, <2>2, <2>3
<1>4. QED
  BY <1>2, <1>3

LEMMA WidthTakes ==
    ASSUME NEW n \in Nat
    PROVE  Takes(n, Width(n)) /\ \A w : Takes(n, w) => w = Width(n)
<1> DEFINE S == {a \in Nat : \A k \in 0 .. a : \E w : Takes(k, w)}
<1>1. 0 \in S
  <2>1. Takes(0, 1)
    BY LastDigit
  <2>2. QED
    BY <2>1
<1>2. ASSUME NEW a \in Nat, a \in S
      PROVE  a + 1 \in S
  <2>1. \E w : Takes(a + 1, w)
    <3>1. CASE a + 1 < 10
      BY <3>1, LastDigit
    <3>2. CASE a + 1 >= 10
      <4>1. /\ (a + 1) \div 10 \in Nat /\ (a + 1) \div 10 < a + 1
            /\ \A w : Takes((a + 1) \div 10, w) => Takes(a + 1, w + 1)
        BY <3>2, LastDigit
      <4>2. (a + 1) \div 10 \in 0 .. a
        BY <4>1
      <4>3. \E w : Takes((a + 1) \div 10, w)
        BY <1>2, <4>2
      <4>4. QED
        BY <4>1, <4>3
    <3>3. QED
      BY <3>1, <3>2
  <2>2. \A k \in 0 .. a : \E w : Takes(k, w)
    BY <1>2
  <2>3. \A k \in 0 .. a + 1 : k \in 0 .. a \/ k = a + 1
    OBVIOUS
  <2>4. QED
    BY <2>1, <2>2, <2>3
<1> HIDE DEF S
<1>3. n \in S
  BY <1>1, <1>2, SetInduction
<1>4. \E w : Takes(n, w)
  BY <1>3 DEF S
<1>5. Takes(n, Width(n))
  BY <1>4 DEF Takes, Width
<1>6. ASSUME NEW v, NEW w, Takes(n, v), Takes(n, w)
      PROVE  ~(v < w)
  <2> SUFFICES ASSUME v < w PROVE FALSE
    OBVIOUS
  <2>1. /\ v \in Nat /\ w \in Nat /\ v >= 1 /\ n < Ten[v] /\ (w = 1 \/ Ten[w - 1] <= n)
    BY <1>6 DEF Takes
  <2>2. w - 1 \in Nat /\ v <= w - 1 /\ w # 1
    BY <2>1
  <2>3. Ten[v] <= Ten[w - 1] /\ Ten[v] \in Nat /\ Ten[w - 1] \in Nat
    BY <2>1, <2>2, TenOrdered, TenAdds
  <2>4. QED
    BY <2>1, <2>2, <2>3
<1>7. ASSUME NEW w, Takes(n, w)
      PROVE  w = Width(n)
  <2>1. ~(w < Width(n)) /\ ~(Width(n) < w)
    BY <1>5, <1>6, <1>7
  <2>2. w \in Nat /\ Width(n) \in Nat
    BY <1>5, <1>7 DEF Takes
  <2>3. QED
    BY <2>1, <2>2
<1>8. QED
  BY <1>5, <1>7

\* Digits counts what %d prints.
LEMMA DigitsOK ==
    /\ \A n \in Nat : Digits(n) = Width(n) /\ Digits(n) \in Nat
    /\ \A n \in Int : n + 1 = 0 => Digits(n) \in Nat
<1> DEFINE g == [n \in Nat |-> IF n = 0 THEN 0 ELSE Width(n)]
           Eq(f) == f = [k \in Nat |-> IF k = 0 THEN 0 ELSE 1 + f[k \div 10]]
           D == CHOOSE f : Eq(f)
<1>1. \A n \in Nat : Width(n) \in Nat
  BY WidthTakes DEF Takes
<1>2. ASSUME NEW n \in Nat, n # 0
      PROVE  g[n] = 1 + g[n \div 10]
  <2>1. CASE n < 10
    <3>1. Takes(n, 1) /\ n \div 10 = 0
      BY <2>1, LastDigit
    <3>2. Width(n) = 1
      BY <3>1, WidthTakes
    <3>3. QED
      BY <1>2, <3>1, <3>2
  <2>2. CASE n >= 10
    <3>1. PICK q \in Nat \ {0} : q = n \div 10 /\ \A w : Takes(q, w) => Takes(n, w + 1)
      BY <2>2, LastDigit
    <3>2. Takes(n, Width(q) + 1)
      BY <3>1, WidthTakes
    <3>3. Width(n) = Width(q) + 1
      BY <3>2, WidthTakes
    <3>4. QED
      BY <1>1, <1>2, <3>1, <3>3
  <2>3. QED
    BY <2>1, <2>2
<1>3. Eq(g)
  <2>1. \A k \in Nat : g[k] = IF k = 0 THEN 0 ELSE 1 + g[k \div 10]
    BY <1>2
  <2>2. g = [k \in Nat |-> g[k]]
    OBVIOUS
  <2> HIDE DEF g
  <2>3. QED
    BY <2>1, <2>2
<1>4. Eq(D)
  BY <1>3
<1>5. \A n \in Nat : g[n] = IF n = 0 THEN 0 ELSE Width(n)
  OBVIOUS
<1> HIDE DEF D, g
<1>6. D[0] = 0 /\ \A k \in Nat : k # 0 => D[k] = 1 + D[k \div 10]
  BY <1>4
<1>7. \A n \in Nat : D[n] = g[n]
  <2> DEFINE S == {a \in Nat : \A k \in 0 .. a : D[k] = g[k]}
  <2>1. 0 \in S
    BY <1>5, <1>6
  <2>2. ASSUME NEW a \in Nat, a \in S
        PROVE  a + 1 \in S
    <3>1. PICK q \in 0 .. a : q = (a + 1) \div 10
      OBVIOUS
    <3>2. D[q] = g[q]
      BY <2>2
    <3>3. D[a + 1] = 1 + D[q] /\ g[a + 1] = 1 + g[q]
      BY <1>2, <1>6, <3>1
    <3>4. \A k \in 0 .. a + 1 : k \in 0 .. a \/ k = a + 1
      OBVIOUS
    <3>5. QED
      BY <2>2, <3>2, <3>3, <3>4
  <2> HIDE DEF S
  <2>3. Nat \subseteq S
    BY <2>1, <2>2, SetInduction
  <2>4. QED
    BY <2>3 DEF S
<1>8. Width(0) = 1
  <2>1. Takes(0, 1)
    BY LastDigit
  <2>2. QED
    BY <2>1, WidthTakes
<1>9. \A n \in Nat : Digits(n) = IF n = 0 THEN 1 ELSE D[n]
  BY DEF Digits, D
<1>10. ASSUME NEW n \in Int, n + 1 = 0
       PROVE  Digits(n) = D[1]
  <2>1. n # 0 /\ n < 0 /\ 0 - n = 1
    BY <1>10
  <2>2. QED
    BY <2>1 DEF Digits, D
<1>11. QED
  BY <1>1, <1>5, <1>7, <1>8, <1>9, <1>10

-----------------------------------------------------------------------------
(* How long the answer is. *)

\* A range in the file counts as many bytes as it has and its header prints.
LEMMA HeaderCounts ==
    ASSUME SizesOK, mime \in Nat, NEW r, RangeOK(r) \/ NoBytes(r)
    PROVE  /\ r.length \in Nat /\ RangeDigits(r) \in Nat
           /\ RangeOK(r) => /\ HeaderLength(r) \in Nat
                            /\ HeaderLength(r) = 49 + (IF mime > 0 THEN 15 + mime ELSE 0)
                                                    + RangeDigits(r)
<1>1. /\ Size \in Nat /\ r.start \in Nat /\ r.length \in Nat
      /\ r.start + r.length - 1 \in Int
      /\ r.start + r.length - 1 \in Nat \/ (r.start + r.length - 1) + 1 = 0
      /\ RangeOK(r) => r.start + r.length - 1 \in Nat
  BY SizeOK DEF RangeOK, NoBytes
<1>2. /\ Digits(Size) = Width(Size) /\ Digits(Size) \in Nat
      /\ Digits(r.start) = Width(r.start) /\ Digits(r.start) \in Nat
      /\ Digits(r.start + r.length - 1) \in Nat
      /\ RangeOK(r) => Digits(r.start + r.length - 1) = Width(r.start + r.length - 1)
  BY <1>1, DigitsOK
<1> DEFINE a == Digits(Size)
           b == Digits(r.start)
           c == Digits(r.start + r.length - 1)
           t == IF mime > 0 THEN 15 + mime ELSE 0
<1>3. RangeDigits(r) = b + c + a
  BY DEF RangeDigits
<1>4. RangeOK(r) =>
          HeaderLength(r) = 1 + (2 + 20 + 1) + (IF mime > 0 THEN 13 + 1 + mime + 1 ELSE 0)
                              + (14 + 1 + 5 + 1 + b + 1 + c + 1 + a + 1) + 1
  BY <1>2 DEF HeaderLength, BoundaryLength
<1>5. a \in Nat /\ b \in Nat /\ c \in Nat
  BY <1>2
<1> HIDE DEF a, b, c
<1>6. QED
  BY <1>1, <1>3, <1>4, <1>5

LEMMA LengthAdds ==
    ASSUME SizesOK, mime \in Nat, InFile(asked)
    PROVE  /\ \A n \in 0 .. Len(asked) : LengthOf[n] \in Nat
           /\ LengthOf[0] = 26
           /\ \A n \in 1 .. Len(asked) :
                  LengthOf[n] = LengthOf[n - 1] + 49 + asked[n].length
                                    + (IF mime > 0 THEN 15 + mime ELSE 0)
                                    + RangeDigits(asked[n])
<1> DEFINE N == Len(asked)
           Add(v, n) == v + 49 + asked[n].length + (IF mime > 0 THEN 15 + mime ELSE 0)
                          + RangeDigits(asked[n])
           step == [n \in 1 .. N |-> [v \in Nat |-> Add(v, n)]]
<1>1. N \in Nat /\ \A n \in 1 .. N : asked[n].length \in Nat /\ RangeDigits(asked[n]) \in Nat
  BY HeaderCounts DEF InFile
<1>2. \A n \in 1 .. N, v \in Nat : Add(v, n) \in Nat
  BY <1>1
<1>3. LengthOf = CHOOSE f : f = [n \in 0 .. N |-> IF n = 0 THEN 26 ELSE Add(f[n - 1], n)]
  BY DEF LengthOf
<1> HIDE DEF Add
<1>4. \A n \in 1 .. N, v \in Nat : step[n][v] \in Nat /\ step[n][v] = Add(v, n)
  BY <1>2
<1> HIDE DEF step
<1>5. PICK g \in [0 .. N -> Nat] : Follows(g, N, 26, step)
  <2>1. Steps(step, N, Nat)
    BY <1>4 DEF Steps
  <2>2. QED
    BY <1>1, <2>1, Recursion
<1>6. ASSUME NEW n \in 1 .. N
      PROVE  g[n] = Add(g[n - 1], n)
  <2>1. n - 1 \in 0 .. N
    BY <1>1
  <2>2. g[n - 1] \in Nat
    BY <1>5, <2>1
  <2>3. QED
    BY <1>4, <1>5, <2>2 DEF Follows
<1>7. g = [n \in 0 .. N |-> IF n = 0 THEN 26 ELSE Add(g[n - 1], n)]
  <2>1. \A n \in 0 .. N : g[n] = IF n = 0 THEN 26 ELSE Add(g[n - 1], n)
    BY <1>1, <1>5, <1>6 DEF Follows
  <2>2. QED
    BY <1>5, <2>1
<1>8. LengthOf = [n \in 0 .. N |-> IF n = 0 THEN 26 ELSE Add(LengthOf[n - 1], n)]
  BY <1>3, <1>7
<1>9. LengthOf[0] = 26 /\ \A n \in 1 .. N : LengthOf[n] = Add(LengthOf[n - 1], n)
  <2>1. 0 \in 0 .. N /\ \A n \in 1 .. N : n \in 0 .. N /\ n # 0
    BY <1>1
  <2>2. QED
    BY <1>8, <2>1
<1>10. \A n \in Nat : n <= N => LengthOf[n] \in Nat
  <2> DEFINE S == {n \in Nat : n <= N => LengthOf[n] \in Nat}
  <2>1. 0 \in S
    BY <1>9
  <2>2. ASSUME NEW n \in Nat, n \in S, n + 1 <= N
        PROVE  LengthOf[n + 1] \in Nat
    <3>1. n + 1 \in 1 .. N /\ (n + 1) - 1 = n /\ n <= N
      BY <1>1, <2>2
    <3>2. LengthOf[n + 1] = Add(LengthOf[n], n + 1) /\ LengthOf[n] \in Nat
      BY <1>9, <2>2, <3>1
    <3>3. QED
      BY <1>2, <3>1, <3>2
  <2>3. \A n \in Nat : n \in S => n + 1 \in S
    BY <2>2
  <2> HIDE DEF S
  <2>4. Nat \subseteq S
    BY <2>1, <2>3, SetInduction
  <2>5. QED
    BY <2>4 DEF S
<1>11. QED
  BY <1>1, <1>9, <1>10 DEF Add

LEMMA Counted ==
    ASSUME SizesOK, mime \in Nat, InFile(asked), NEW n \in 1 .. Len(asked), RangeOK(asked[n])
    PROVE  /\ LengthOf[n] = LengthOf[n - 1] + HeaderLength(asked[n]) + asked[n].length
           /\ LengthOf[n - 1] \in Nat /\ LengthOf[n] \in Nat
           /\ HeaderLength(asked[n]) \in Nat
<1>1. Len(asked) \in Nat /\ n - 1 \in 0 .. Len(asked) /\ n \in 0 .. Len(asked)
  BY DEF InFile
<1>2. LengthOf[n - 1] \in Nat /\ LengthOf[n] \in Nat
  BY <1>1, LengthAdds
<1> DEFINE a == LengthOf[n - 1]
           h == HeaderLength(asked[n])
           l == asked[n].length
           d == RangeDigits(asked[n])
<1>3. LengthOf[n] = a + 49 + l + (IF mime > 0 THEN 15 + mime ELSE 0) + d
  BY LengthAdds
<1>4. /\ l \in Nat /\ d \in Nat /\ h \in Nat
      /\ h = 49 + (IF mime > 0 THEN 15 + mime ELSE 0) + d
  BY HeaderCounts
<1>5. a \in Nat
  BY <1>2
<1> HIDE DEF a, h, l, d
<1>6. LengthOf[n] = a + h + l
  BY <1>3, <1>4, <1>5
<1>7. QED
  BY <1>2, <1>4, <1>6 DEF a, h, l

LEMMA Lengthens ==
    ASSUME NEW s \in Seq(Items), NEW a \in Nat, NEW n \in Nat
    PROVE  Len((s \o <<>>) \o Bytes(a, n)) = Len(s) + n
<1>1. s \o <<>> = s /\ Bytes(a, n) \in Seq(Items) /\ Len(Bytes(a, n)) = n
  BY ConcatEmptySeq, BytesJoin
<1>2. Len(s \o Bytes(a, n)) = Len(s) + Len(Bytes(a, n))
  BY <1>1, ConcatProperties
<1>3. QED
  BY <1>1, <1>2

-----------------------------------------------------------------------------
(* The invariant of the loop: between two pieces the answer is the right one so *)
(* far, and block, piece and range are those that come next in it.             *)

\* What is noted of the parts: c have had their header, and left bytes of the last
\* of them are to come.
Noted(c, left) ==
    /\ Multipart => /\ m = left
                    /\ ranges \in Seq(Request)
                    /\ Len(ranges) = Len(asked) - c
                    /\ \A n \in 1 .. Len(asked) - c : ranges[n] = asked[c + n]
                    /\ sent = LengthOf[c] - 26 - left
    /\ ~Multipart => sent = Len(out)

\* The first c parts are sent, and nothing else.
Whole(c) ==
    /\ Noted(c, 0)
    /\ out = Sent(c)
    /\ c < Len(Parts) => i <= FirstBlock(Parts[c + 1])
    /\ c > 0 => i >= LastBlock(Parts[c])
    /\ i \in Blocks => j = Len(PlanTo(c)[i]) + 1
    /\ pos > 0 => c > 0 /\ i \in Blocks /\ EndOf[i - 1] + pos <= End(Parts[c])

\* Of part c the last so many bytes are not: it goes on in another block.
Cut(c, left) ==
    /\ Noted(c, left)
    /\ out = Begun(c, Parts[c].length - left)
    /\ i \in FirstBlock(Parts[c]) .. LastBlock(Parts[c])
    /\ \/ /\ j = 1 /\ pos = 0
          /\ i > FirstBlock(Parts[c])
          /\ End(Parts[c]) - left = EndOf[i - 1]
       \/ /\ i < LastBlock(Parts[c])
          /\ j = Len(plan[i]) + 1
          /\ End(Parts[c]) - left = EndOf[i]

AnyCut == \E c \in 1 .. Len(Parts) : \E left \in 1 .. Parts[c].length - 1 : Cut(c, left)

Sending ==
    /\ plan = PlanTo(Len(Parts))
    /\ i \in 1 .. Len(sizes) + 1
    /\ z = pos /\ pos \in Nat
    /\ AnyCut \/ \E c \in 0 .. Len(Parts) : Whole(c)

LEMMA Static ==
    ASSUME UNCHANGED <<sizes, mime, asked>>
    PROVE  /\ EndOf' = EndOf /\ Blocks' = Blocks /\ Parts' = Parts /\ Multipart' = Multipart
           /\ \A r : FirstBlock(r)' = FirstBlock(r) /\ LastBlock(r)' = LastBlock(r)
           /\ \A c : PlanTo(c)' = PlanTo(c) /\ Sent(c)' = Sent(c)
           /\ \A c, n : Begun(c, n)' = Begun(c, n)
           /\ PlanTo(Len(Parts))' = PlanTo(Len(Parts)) /\ Sent(Len(Parts))' = Sent(Len(Parts))
           /\ Expected' = Expected /\ ContentLength' = ContentLength /\ Missing' = Missing
           /\ LengthOf' = LengthOf /\ Filled' = Filled
<1>1. EndOf' = EndOf
  BY DEF EndOf
<1>2. Blocks' = Blocks /\ Multipart' = Multipart /\ Size' = Size
  BY <1>1 DEF Blocks, Multipart, Size
<1>0. Filled' = Filled
  BY DEF Filled
<1>3. Parts' = Parts
  BY <1>0, <1>2 DEF Parts
<1>4. \A r : FirstBlock(r)' = FirstBlock(r)
  BY <1>1, <1>2 DEF FirstBlock
<1>5. \A r : LastBlock(r)' = LastBlock(r)
  BY <1>1, <1>2, <1>4 DEF LastBlock
<1>6. \A q : PlanOf(q)' = PlanOf(q)
  <2>1. \A r : BlocksOfRange(r)' = BlocksOfRange(r)
    BY <1>1, <1>2, <1>4, <1>5 DEF BlocksOfRange, OffsetIn, LengthIn
  <2>2. \A v, r : WithRange(v, r)' = WithRange(v, r)
    BY <1>2, <2>1 DEF WithRange
  <2>3. NoPieces' = NoPieces
    BY <1>2 DEF NoPieces
  <2>4. QED
    BY <2>2, <2>3 DEF PlanOf
<1>7. \A q : Answer(q)' = Answer(q)
  <2>1. \A r : Part(r)' = Part(r)
    BY <1>2 DEF Part, BytesOf, Bytes
  <2>2. QED
    BY <2>1 DEF Answer
<1>8. \A c : PlanTo(c)' = PlanTo(c) /\ Sent(c)' = Sent(c)
  BY <1>3, <1>6, <1>7 DEF PlanTo, Sent
<1>9. \A c, n : Begun(c, n)' = Begun(c, n)
  BY <1>2, <1>3, <1>8 DEF Begun, Header, Bytes
<1>10. Expected' = Expected
  BY <1>2, <1>7 DEF Expected, Bytes
<1>11. ContentLength' = ContentLength /\ Missing' = Missing /\ LengthOf' = LengthOf
  <2>1. \A r : RangeDigits(r)' = RangeDigits(r)
    BY <1>2 DEF RangeDigits
  <2>2. LengthOf' = LengthOf
    BY <2>1 DEF LengthOf
  <2>3. QED
    BY <1>0, <1>2, <2>2 DEF ContentLength, Missing
<1>12. PlanTo(Len(Parts))' = PlanTo(Len(Parts)) /\ Sent(Len(Parts))' = Sent(Len(Parts))
  BY <1>3, <1>6, <1>7 DEF PlanTo, Sent
<1>13. QED
  BY <1>0, <1>1, <1>2, <1>3, <1>4, <1>5, <1>8, <1>9, <1>10, <1>11, <1>12

\* A piece that the block holds, and that is not behind the reader, is read whole.
LEMMA Reads ==
    ASSUME plan[i][j] \in Pieces, z = pos, pos \in Nat, sizes[i] \in Nat,
           pos <= plan[i][j].offset, plan[i][j].offset + plan[i][j].length <= sizes[i]
    PROVE  From = plan[i][j].offset /\ Copied = plan[i][j].length
<1>1. plan[i][j].offset \in Nat /\ plan[i][j].length \in Nat
  BY DEF Pieces
<1>2. From = plan[i][j].offset
  BY <1>1 DEF From
<1>3. QED
  BY <1>1, <1>2 DEF Copied, Least

\* After whole parts the next piece is the first of the next part.
LEMMA NextPart ==
    ASSUME AskedOK, plan = PlanTo(Len(Parts)), pos \in Nat,
           NEW c \in 0 .. Len(Parts), Whole(c), i \in Blocks, j \in DOMAIN plan[i]
    PROVE  /\ c < Len(Parts) /\ c + 1 \in 1 .. Len(Parts)
           /\ i = FirstBlock(Parts[c + 1]) /\ j = Len(PlanTo(c)[i]) + 1
           /\ EndOf[i - 1] + pos <= Parts[c + 1].start
<1>1. SizesOK /\ RangesOK(Parts) /\ Apart(Parts) /\ Len(Parts) \in Nat
  BY PartsOK DEF AskedOK, RangesOK
<1>2. /\ plan[i] \in Seq(Pieces) /\ PlanTo(c)[i] \in Seq(Pieces)
      /\ j = Len(PlanTo(c)[i]) + 1 /\ j \in 1 .. Len(plan[i])
  <2>1. Len(Parts) \in 0 .. Len(Parts)
    BY <1>1
  <2>2. PlanOf(Parts)[c] \in Plans /\ PlanOf(Parts)[Len(Parts)] \in Plans
    BY <1>1, <2>1, PlanAdds
  <2>3. PlanTo(c)[i] \in Seq(Pieces) /\ plan[i] \in Seq(Pieces)
    BY <2>2 DEF PlanTo, Plans
  <2>4. QED
    BY <2>3 DEF Whole
<1>3. plan[i] # PlanTo(c)[i]
  BY <1>2
<1>4. ~(c < Len(Parts) => i < FirstBlock(Parts[c + 1]))
  BY <1>1, <1>3, NoneEarlier DEF PlanTo
<1>5. /\ c < Len(Parts) /\ c + 1 \in 1 .. Len(Parts) /\ i <= FirstBlock(Parts[c + 1])
      /\ ~(i < FirstBlock(Parts[c + 1]))
  BY <1>1, <1>4 DEF Whole
<1>6. /\ RangeOK(Parts[c + 1]) /\ FirstBlock(Parts[c + 1]) \in Blocks
      /\ EndOf[FirstBlock(Parts[c + 1]) - 1] <= Parts[c + 1].start
      /\ Parts[c + 1].start \in Nat
  BY <1>1, <1>5, Span DEF RangesOK, RangeOK
<1>7. i = FirstBlock(Parts[c + 1])
  BY <1>5, <1>6 DEF Blocks
<1>8. EndOf[i - 1] + pos <= Parts[c + 1].start
  <2>1. EndOf[i - 1] \in Nat
    <3>1. i - 1 \in 0 .. Len(sizes)
      BY <1>1 DEF Blocks, SizesOK
    <3>2. QED
      BY <1>1, <3>1, EndsAdd
  <2>2. CASE pos = 0
    BY <1>6, <1>7, <2>1, <2>2
  <2>3. CASE pos > 0
    <3>1. c > 0 /\ EndOf[i - 1] + pos <= End(Parts[c])
      BY <2>3 DEF Whole
    <3>2. c \in 1 .. Len(Parts) /\ c < c + 1
      BY <1>1, <3>1
    <3>3. Parts[c].start + Parts[c].length <= Parts[c + 1].start
      BY <1>1, <1>5, <3>2, AllApart
    <3>4. Parts[c].start \in Nat /\ Parts[c].length \in Nat
      BY <1>1, <3>2 DEF RangesOK, RangeOK
    <3>5. End(Parts[c]) \in Nat /\ End(Parts[c]) <= Parts[c + 1].start
      BY <3>3, <3>4 DEF End
    <3>6. \A a, b, d \in Nat : a <= b /\ b <= d => a <= d
      OBVIOUS
    <3>7. EndOf[i - 1] + pos \in Nat
      BY <2>1
    <3>8. QED
      BY <1>6, <3>1, <3>5, <3>6, <3>7
  <2>4. QED
    BY <2>2, <2>3
<1>9. QED
  BY <1>2, <1>5, <1>7, <1>8

\* What is known of a piece before it is read.
LEMMA PieceFacts ==
    ASSUME AskedOK, plan = PlanTo(Len(Parts)), NEW c \in 1 .. Len(Parts),
           i \in FirstBlock(Parts[c]) .. LastBlock(Parts[c]),
           j = Len(PlanTo(c - 1)[i]) + 1
    PROVE  LET r == Parts[c]
               p == plan[i][j]
           IN  /\ i \in Blocks /\ sizes[i] \in Nat
               /\ EndOf[i] \in Nat /\ EndOf[i - 1] \in Nat
               /\ FirstBlock(r) \in Blocks /\ LastBlock(r) \in Blocks
               /\ r.start \in Nat /\ r.length \in Nat /\ r.length > 0
               /\ j \in Nat /\ Len(PlanTo(c)[i]) = j
               /\ i < LastBlock(r) => j = Len(plan[i])
               /\ p \in Pieces /\ p.offset \in Nat /\ p.length \in Nat
               /\ EndOf[i - 1] + p.offset = IF i = FirstBlock(r) THEN r.start ELSE EndOf[i - 1]
               /\ EndOf[i - 1] + p.offset + p.length =
                      IF i = LastBlock(r) THEN r.start + r.length ELSE EndOf[i]
               /\ p.offset + p.length <= sizes[i]
<1> DEFINE r == Parts[c]
<1>1. SizesOK /\ RangesOK(Parts) /\ Apart(Parts) /\ RangeOK(r)
  BY PartsOK DEF AskedOK, RangesOK
<1>2. r.start \in Nat /\ r.length \in Nat /\ r.length > 0
  BY <1>1 DEF RangeOK
<1>3. FirstBlock(r) \in Blocks /\ LastBlock(r) \in Blocks
  BY <1>1, Span
<1>4. /\ i \in Blocks /\ Len(plan[i]) \in Nat
      /\ j \in 1 .. Len(plan[i]) /\ Len(PlanTo(c)[i]) = j
      /\ i < LastBlock(r) => j = Len(plan[i])
      /\ plan[i][j] \in Pieces
      /\ EndOf[i - 1] + plan[i][j].offset = IF i = FirstBlock(r) THEN r.start ELSE EndOf[i - 1]
      /\ EndOf[i - 1] + plan[i][j].offset + plan[i][j].length =
             IF i = LastBlock(r) THEN r.start + r.length ELSE EndOf[i]
      /\ plan[i][j].offset + plan[i][j].length <= sizes[i]
  <2> DEFINE n == Len(PlanOf(Parts)[c - 1][i]) + 1
             v == PlanOf(Parts)[Len(Parts)][i]
  <2>1. /\ i \in Blocks /\ Len(v) \in Nat
        /\ n \in 1 .. Len(v) /\ Len(PlanOf(Parts)[c][i]) = n
        /\ i < LastBlock(r) => n = Len(v)
        /\ v[n] \in Pieces
        /\ EndOf[i - 1] + v[n].offset = IF i = FirstBlock(r) THEN r.start ELSE EndOf[i - 1]
        /\ EndOf[i - 1] + v[n].offset + v[n].length =
               IF i = LastBlock(r) THEN r.start + r.length ELSE EndOf[i]
        /\ v[n].offset + v[n].length <= sizes[i]
    <3>1. PieceFits(Parts, c, i)
      BY <1>1, PieceAt
    <3>2. QED
      BY <3>1 DEF PieceFits
  <2>2. n = j /\ v = plan[i] /\ PlanOf(Parts)[c][i] = PlanTo(c)[i]
    BY DEF PlanTo
  <2> HIDE DEF n, v
  <2>3. QED
    BY <2>1, <2>2
<1>5. EndOf[i] \in Nat /\ EndOf[i - 1] \in Nat /\ sizes[i] \in Nat
  <2>0. i \in Blocks
    BY <1>4
  <2>1. i \in 0 .. Len(sizes) /\ i - 1 \in 0 .. Len(sizes)
    BY <1>1, <2>0 DEF Blocks, SizesOK
  <2>2. EndOf[i] \in Nat /\ EndOf[i - 1] \in Nat
    BY <1>1, <2>1, EndsAdd
  <2>3. sizes[i] \in Nat
    BY <1>1, <2>0 DEF SizesOK, Blocks
  <2>4. QED
    BY <2>2, <2>3
<1>6. plan[i][j].offset \in Nat /\ plan[i][j].length \in Nat
  BY <1>4 DEF Pieces
<1>7. QED
  BY <1>2, <1>3, <1>4, <1>5, <1>6

LEMMA Between ==
    \A s, n, a \in Nat : s < a /\ a < s + n =>
        (s + n) - a \in 1 .. n - 1 /\ (s + n) - ((s + n) - a) = a
OBVIOUS

\* Where a piece leaves the part it belongs to; at is where it ends in the file.
LEMMA Goes ==
    ASSUME AskedOK, NEW c \in 1 .. Len(Parts), NEW at \in Nat, NEW left \in Int,
           i \in FirstBlock(Parts[c]) .. LastBlock(Parts[c]),
           UNCHANGED <<sizes, mime, asked, plan, i>>,
           j' = Len(PlanTo(c)[i]) + 1,
           i < LastBlock(Parts[c]) => j' = Len(plan[i]) + 1,
           at = IF i = LastBlock(Parts[c]) THEN End(Parts[c]) ELSE EndOf[i],
           EndOf[i - 1] + pos' = at, left = End(Parts[c]) - at,
           out' = Begun(c, Parts[c].length - left), Noted(c, left)'
    PROVE  Whole(c)' \/ (left \in 1 .. Parts[c].length - 1 /\ Cut(c, left)')
<1> DEFINE r == Parts[c]
           f == FirstBlock(r)
           l == LastBlock(r)
<1>1. SizesOK /\ RangesOK(Parts) /\ Apart(Parts) /\ RangeOK(r) /\ Len(Parts) \in Nat
  BY PartsOK DEF AskedOK, RangesOK
<1>2. r.start \in Nat /\ r.length \in Nat /\ End(r) = r.start + r.length
  BY <1>1 DEF RangeOK, End
<1>3. /\ EndOf' = EndOf /\ Blocks' = Blocks /\ Parts' = Parts
      /\ \A s : FirstBlock(s)' = FirstBlock(s) /\ LastBlock(s)' = LastBlock(s)
      /\ \A d : PlanTo(d)' = PlanTo(d) /\ Sent(d)' = Sent(d)
      /\ \A d, n : Begun(d, n)' = Begun(d, n)
  BY Static
<1>4. f \in Blocks /\ l \in Blocks
  BY <1>1, Span
<1>5. /\ i \in f .. l /\ i \in 1 .. Len(sizes) /\ f \in 1 .. Len(sizes)
      /\ l \in 1 .. Len(sizes) /\ Len(sizes) \in Nat /\ i \in Nat
  <2>1. Len(sizes) \in Nat
    BY <1>1 DEF SizesOK
  <2>2. f \in 1 .. Len(sizes) /\ l \in 1 .. Len(sizes) /\ i \in f .. l
    BY <1>4 DEF Blocks
  <2> HIDE DEF f, l
  <2>3. QED
    BY <2>1, <2>2
<1>6. EndOf[l - 1] < r.start + r.length /\ r.start < EndOf[f]
  BY <1>1, Span
<1>7. c < Len(Parts) => l <= FirstBlock(Parts[c + 1])
  <2>1. ASSUME c < Len(Parts)
        PROVE  l <= FirstBlock(Parts[c + 1])
    <3>1. c + 1 \in 1 .. Len(Parts) /\ c < c + 1
      BY <1>1, <2>1
    <3>2. QED
      BY <1>1, <3>1, BlocksApart
  <2>2. QED
    BY <2>1
<1>8. Begun(c, r.length) = Sent(c)
  BY Begins
<1>9. /\ at = IF i = l THEN End(r) ELSE EndOf[i]
      /\ left = End(r) - at
      /\ i < l => j' = Len(plan[i]) + 1
      /\ out' = Begun(c, r.length - left)
  OBVIOUS
<1>10. CASE i = l
  <2>1. at = End(r)
    BY <1>9, <1>10
  <2> HIDE DEF r, f, l
  <2>2. left = 0 /\ r.length - left = r.length
    BY <1>2, <1>9, <2>1
  <2>3. out' = Sent(c) /\ Noted(c, 0)'
    BY <1>8, <1>9, <2>2
  <2>4. /\ c > 0 /\ i >= l /\ EndOf[i - 1] + pos' <= End(r)
        /\ c < Len(Parts) => i <= FirstBlock(Parts[c + 1])
    BY <1>2, <1>5, <1>7, <1>10, <2>1
  <2>5. i \in Blocks /\ i' = i /\ Blocks' = Blocks
    BY <1>3, <1>5 DEF Blocks
  <2>6. End(Parts[c])' = End(r)
    BY <1>3 DEF r, End
  <2>7. /\ Len(Parts)' = Len(Parts) /\ FirstBlock(Parts[c + 1])' = FirstBlock(Parts[c + 1])
        /\ LastBlock(Parts[c])' = l /\ Len(PlanTo(c)[i])' = Len(PlanTo(c)[i])
        /\ EndOf[i - 1]' = EndOf[i - 1] /\ Sent(c)' = Sent(c)
    BY <1>3, <2>5 DEF r, l
  <2>8. Whole(c)'
    BY <2>3, <2>4, <2>5, <2>6, <2>7 DEF Whole
  <2>9. QED
    BY <2>8
<1>11. CASE i # l
  <2>1. at = EndOf[i]
    BY <1>9, <1>11
  <2> HIDE DEF r, f, l
  <2>2. i < l /\ f <= i
    BY <1>5, <1>11
  <2>3. at < End(r)
    <3>1. i \in 0 .. Len(sizes) /\ l - 1 \in 0 .. Len(sizes) /\ i <= l - 1
      BY <1>5, <2>2
    <3>2. EndOf[i] <= EndOf[l - 1] /\ EndOf[l - 1] \in Nat
      BY <1>1, <3>1, EndsOrdered, EndsAdd
    <3>3. EndOf[l - 1] < End(r)
      BY <1>2, <1>6
    <3>4. EndOf[i] \in Nat /\ End(r) \in Nat
      BY <1>2, <2>1
    <3>5. QED
      BY <2>1, <3>2, <3>3, <3>4
  <2>4. r.start < at
    <3>1. i \in 0 .. Len(sizes) /\ f \in 0 .. Len(sizes)
      BY <1>5
    <3>2. EndOf[f] <= EndOf[i] /\ EndOf[f] \in Nat
      BY <1>1, <2>2, <3>1, EndsOrdered, EndsAdd
    <3>3. QED
      BY <1>2, <1>6, <2>1, <3>2
  <2>5. left \in 1 .. r.length - 1 /\ End(r) - left = EndOf[i]
    <3>1. End(r) \in Nat
      BY <1>2
    <3>2. /\ r.start \in Nat /\ r.length \in Nat /\ at \in Nat /\ left \in Int
          /\ End(r) = r.start + r.length /\ left = End(r) - at /\ at < End(r) /\ r.start < at
      BY <1>2, <1>9, <2>3, <2>4
    <3>3. left \in 1 .. r.length - 1 /\ End(r) - left = at
      <4>1. left = (r.start + r.length) - at /\ at < r.start + r.length
        BY <3>2
      <4>2. /\ (r.start + r.length) - at \in 1 .. r.length - 1
            /\ (r.start + r.length) - ((r.start + r.length) - at) = at
        BY <3>2, <4>1, Between
      <4>3. QED
        BY <3>2, <4>1, <4>2
    <3>4. QED
      BY <2>1, <3>3
  <2>6. j' = Len(plan[i]) + 1 /\ i' = i /\ plan' = plan
    BY <1>9, <2>2
  <2>7. /\ End(Parts[c])' = End(r)
    BY <1>3 DEF r, End
  <2>8. /\ FirstBlock(Parts[c])' = f /\ LastBlock(Parts[c])' = l
        /\ EndOf[i]' = EndOf[i] /\ Len(plan[i])' = Len(plan[i])
        /\ Begun(c, Parts[c].length - left)' = Begun(c, r.length - left)
    BY <1>3, <2>6 DEF r, f, l
  <2>9. Cut(c, left)'
    BY <1>5, <1>9, <2>2, <2>5, <2>6, <2>7, <2>8 DEF Cut
  <2>10. QED
    BY <2>5, <2>9 DEF r
<1>12. QED
  BY <1>10, <1>11

\* Where the piece at hand ends in the file.
At == EndOf[i - 1] + plan[i][j].offset + plan[i][j].length

\* The piece at hand is the next of part c, and it is read and noted as such.
ReadOf(c, left) ==
    /\ i \in FirstBlock(Parts[c]) .. LastBlock(Parts[c])
    /\ j = Len(PlanTo(c - 1)[i]) + 1
    /\ From = plan[i][j].offset /\ Copied = plan[i][j].length
    /\ left = End(Parts[c]) - At
    /\ out' = Begun(c, Parts[c].length - left)
    /\ Noted(c, left)'

LEMMA PieceDoes ==
    ASSUME Piece
    PROVE  /\ i \in Blocks /\ j \in DOMAIN plan[i]
           /\ out' = (out \o NextHeader) \o Bytes(EndOf[i - 1] + From, Copied)
           /\ ranges' = IF HeaderDue THEN Tail(ranges) ELSE ranges
           /\ m' = (IF HeaderDue THEN Head(ranges).length ELSE m) - Copied
           /\ z' = plan[i][j].offset + Copied /\ pos' = From + Copied
           /\ j' = j + 1
           /\ pc' = IF Copied < plan[i][j].length THEN "short" ELSE "block"
           /\ sent' = sent + (IF NextHeader = <<>> THEN 0 ELSE HeaderLength(Head(ranges)))
                          + Copied
           /\ UNCHANGED <<sizes, mime, asked, plan, i>>
BY DEF Piece, ReadUpTo

LEMMA ReadMoves ==
    ASSUME AskedOK, Sending, Piece, NEW c \in 1 .. Len(Parts), NEW left \in Int,
           ReadOf(c, left)
    PROVE  pc' = "block" /\ Sending'
<1> DEFINE e == EndOf[i - 1]
           o == plan[i][j].offset
           n == plan[i][j].length
           s == Parts[c].start
           k == Parts[c].length
           b == EndOf[i]
<1>0. /\ plan = PlanTo(Len(Parts)) /\ z = pos /\ pos \in Nat
      /\ i \in 1 .. Len(sizes) + 1 /\ Len(Parts) \in Nat
  BY PartsOK DEF Sending, RangesOK
<1>1. /\ j' = j + 1 /\ UNCHANGED <<sizes, mime, asked, plan, i>>
      /\ From = o /\ Copied = n
      /\ z' = o + n /\ pos' = o + n /\ pc' = IF n < n THEN "short" ELSE "block"
  BY PieceDoes DEF ReadOf
<1>2. /\ i \in FirstBlock(Parts[c]) .. LastBlock(Parts[c])
      /\ j = Len(PlanTo(c - 1)[i]) + 1
      /\ out' = Begun(c, k - left) /\ Noted(c, left)' /\ left = End(Parts[c]) - At
  BY DEF ReadOf
<1>3. /\ e \in Nat /\ o \in Nat /\ n \in Nat /\ s \in Nat /\ k \in Nat /\ b \in Nat
      /\ j = Len(PlanTo(c)[i])
      /\ i < LastBlock(Parts[c]) => j = Len(plan[i])
      /\ e + o + n = IF i = LastBlock(Parts[c]) THEN s + k ELSE b
  BY <1>0, <1>2, PieceFacts
<1>4. At = e + o + n /\ End(Parts[c]) = s + k
  BY DEF At, End
<1> HIDE DEF e, o, n, s, k, b
<1>5. /\ At \in Nat /\ e + pos' = At
      /\ At = IF i = LastBlock(Parts[c]) THEN s + k ELSE b
  BY <1>1, <1>3, <1>4
<1>6. Whole(c)' \/ (left \in 1 .. k - 1 /\ Cut(c, left)')
  <2>1. /\ j' = Len(PlanTo(c)[i]) + 1
        /\ i < LastBlock(Parts[c]) => j' = Len(plan[i]) + 1
    BY <1>1, <1>3
  <2>2. EndOf[i - 1] + pos' = At
    BY <1>5 DEF e
  <2>3. At = IF i = LastBlock(Parts[c]) THEN End(Parts[c]) ELSE EndOf[i]
    BY <1>4, <1>5 DEF b
  <2>4. left = End(Parts[c]) - At
    BY <1>2
  <2>5. out' = Begun(c, Parts[c].length - left)
    BY <1>2 DEF k
  <2>6. Whole(c)' \/ (left \in 1 .. Parts[c].length - 1 /\ Cut(c, left)')
    BY <1>1, <1>2, <1>5, <2>1, <2>2, <2>3, <2>4, <2>5, Goes
  <2>7. QED
    BY <2>6 DEF k
<1>7. Parts' = Parts /\ PlanTo(Len(Parts))' = PlanTo(Len(Parts))
  BY <1>1, Static
<1>8. AnyCut' \/ \E d \in 0 .. Len(Parts') : Whole(d)'
  <2>1. CASE Whole(c)'
    <3>1. c \in 0 .. Len(Parts')
      BY <1>0, <1>7
    <3>2. QED
      BY <2>1, <3>1
  <2>2. CASE left \in 1 .. k - 1 /\ Cut(c, left)'
    <3>1. c \in 1 .. Len(Parts') /\ left \in 1 .. Parts'[c].length - 1
      BY <1>7, <2>2 DEF k
    <3>2. QED
      BY <2>2, <3>1 DEF AnyCut
  <2>3. QED
    BY <1>6, <2>1, <2>2
<1>9. plan' = PlanTo(Len(Parts))'
  BY <1>0, <1>1, <1>7
<1>10. pc' = "block" /\ z' = pos' /\ pos' \in Nat /\ i' \in 1 .. Len(sizes') + 1
  BY <1>0, <1>1, <1>3
<1>11. QED
  BY <1>8, <1>9, <1>10 DEF Sending

LEMMA FromWhole ==
    ASSUME AskedOK, Sending, Piece, NEW d \in 0 .. Len(Parts), Whole(d)
    PROVE  d + 1 \in 1 .. Len(Parts) /\ \E left \in Int : ReadOf(d + 1, left)
<1> DEFINE c == d + 1
           e == EndOf[i - 1]
           o == plan[i][j].offset
           n == plan[i][j].length
           s == Parts[c].start
           k == Parts[c].length
<1>0. /\ SizesOK /\ RangesOK(Parts) /\ Len(Parts) \in Nat /\ d \in Nat
      /\ plan = PlanTo(Len(Parts)) /\ z = pos /\ pos \in Nat
  BY PartsOK DEF Sending, AskedOK, RangesOK
<1>1. i \in Blocks /\ j \in DOMAIN plan[i] /\ UNCHANGED <<sizes, mime, asked>>
  BY PieceDoes
<1>2. /\ c \in 1 .. Len(Parts) /\ d < Len(Parts) /\ c - 1 = d /\ c = d + 1
      /\ i = FirstBlock(Parts[c]) /\ j = Len(PlanTo(d)[i]) + 1
      /\ EndOf[i - 1] + pos <= s
  BY <1>0, <1>1, NextPart
<1> HIDE DEF c
<1>3. i \in FirstBlock(Parts[c]) .. LastBlock(Parts[c])
  <2>1. RangeOK(Parts[c])
    BY <1>0, <1>2 DEF RangesOK
  <2>2. /\ FirstBlock(Parts[c]) \in Blocks /\ LastBlock(Parts[c]) \in Blocks
        /\ FirstBlock(Parts[c]) <= LastBlock(Parts[c])
    BY <1>0, <2>1, Span
  <2>3. QED
    BY <1>2, <2>2 DEF Blocks
<1>4. j = Len(PlanTo(c - 1)[i]) + 1
  BY <1>2
<1>5. /\ sizes[i] \in Nat /\ e \in Nat /\ s \in Nat /\ k \in Nat
      /\ plan[i][j] \in Pieces /\ o \in Nat /\ n \in Nat
      /\ e + o = s /\ o + n <= sizes[i]
  <2>1. i = FirstBlock(Parts[c])
    BY <1>2
  <2>2. QED
    BY <1>0, <1>2, <1>3, <1>4, <2>1, PieceFacts
<1>6. e + pos <= s
  BY <1>2
<1>7. From = o /\ Copied = n
  <2>1. pos <= plan[i][j].offset
    <3> HIDE DEF e, s, o
    <3>1. pos <= o
      BY <1>0, <1>5, <1>6
    <3>2. QED
      BY <3>1 DEF o
  <2>2. QED
    BY <1>0, <1>5, <2>1, Reads
<1>8. At = e + o + n /\ End(Parts[c]) = s + k
  BY DEF At, End
<1>9. Multipart => HeaderDue /\ Head(ranges) = Parts[c] /\ Parts[c] = asked[c]
                   /\ Tail(ranges) \in Seq(Request)
                   /\ Len(Tail(ranges)) = Len(asked) - c
                   /\ \A h \in 1 .. Len(asked) - c : Tail(ranges)[h] = asked[c + h]
  <2> SUFFICES ASSUME Multipart
               PROVE  /\ HeaderDue /\ Head(ranges) = Parts[c] /\ Parts[c] = asked[c]
                      /\ Tail(ranges) \in Seq(Request)
                      /\ Len(Tail(ranges)) = Len(asked) - c
                      /\ \A h \in 1 .. Len(asked) - c : Tail(ranges)[h] = asked[c + h]
    OBVIOUS
  <2>0. /\ Len(asked) \in Nat /\ Filled <= Len(asked) /\ Filled \in Nat
        /\ Len(Parts) = Filled /\ Parts[c] = asked[c]
    BY <1>2, FilledOK, ExpectedParts
  <2>1. /\ m = 0 /\ ranges \in Seq(Request)
        /\ Len(ranges) = Len(asked) - d
        /\ \A h \in 1 .. Len(asked) - d : ranges[h] = asked[d + h]
    BY DEF Whole, Noted
  <2>2. Len(asked) - d > 0 /\ 1 \in 1 .. Len(asked) - d
    BY <1>0, <1>2, <2>0
  <2>3. ranges # <<>>
    BY <2>1, <2>2
  <2>4. Head(ranges) = ranges[1]
    BY <2>1, <2>3
  <2>5. ranges[1] = Parts[c]
    BY <1>2, <2>0, <2>1, <2>2
  <2>6. /\ Tail(ranges) \in Seq(Request)
        /\ Len(Tail(ranges)) = Len(ranges) - 1
        /\ \A h \in 1 .. Len(Tail(ranges)) : Tail(ranges)[h] = ranges[h + 1]
    BY <2>1, <2>3, HeadTailProperties
  <2>7. Len(Tail(ranges)) = Len(asked) - c
    BY <1>0, <1>2, <2>0, <2>1, <2>6
  <2>8. ASSUME NEW h \in 1 .. Len(asked) - c
        PROVE  Tail(ranges)[h] = asked[c + h]
    <3>1. h + 1 \in 1 .. Len(asked) - d /\ d + (h + 1) = c + h
      BY <1>0, <1>2, <2>0
    <3>2. Tail(ranges)[h] = ranges[h + 1]
      BY <2>6, <2>7
    <3>3. ranges[h + 1] = asked[d + (h + 1)]
      BY <2>1, <3>1
    <3>4. QED
      BY <3>1, <3>2, <3>3
  <2>9. HeaderDue
    BY <2>1, <2>3 DEF HeaderDue
  <2>10. QED
    BY <2>0, <2>4, <2>5, <2>6, <2>7, <2>8, <2>9
<1>10. NextHeader = Header(c)
  <2>1. CASE Multipart
    BY <1>9, <2>1 DEF NextHeader, Header
  <2>2. CASE ~Multipart
    BY <2>2 DEF NextHeader, Header, HeaderDue
  <2>3. QED
    BY <2>1, <2>2
<1>11. out' = (Sent(c - 1) \o Header(c)) \o Bytes(e + o, n)
  <2>1. out = Sent(c - 1)
    BY <1>2 DEF Whole
  <2>2. QED
    BY <1>7, <1>10, <2>1, PieceDoes
<1>12. m' = (IF HeaderDue THEN Head(ranges).length ELSE m) - n
       /\ ranges' = IF HeaderDue THEN Tail(ranges) ELSE ranges
  BY <1>7, PieceDoes
<1>13. Multipart => m' = k - n /\ ranges' = Tail(ranges)
  BY <1>9, <1>12
<1>14. Begun(c, n) = (Sent(c - 1) \o Header(c)) \o Bytes(s, n)
  BY DEF Begun
<1> HIDE DEF e, o, n, s, k
<1>15. out' = Begun(c, n)
  BY <1>5, <1>11, <1>14
<1>16. PICK left \in Int : left = k - n
  BY <1>5
<1>17. left = End(Parts[c]) - At /\ k - left = n
  BY <1>5, <1>8, <1>16
<1>18. Noted(c, left)'
  <2>1. /\ Parts' = Parts /\ Multipart' = Multipart /\ LengthOf' = LengthOf
        /\ asked' = asked
    BY <1>1, Static
  <2>2. CASE Multipart
    <3>1. sent = LengthOf[d] - 26 - 0
      BY <2>2 DEF Whole, Noted
    <3>2. sent' = sent + HeaderLength(Parts[c]) + n
      <4>1. NextHeader # <<>>
        BY <1>9, <2>2 DEF NextHeader
      <4>2. QED
        BY <1>7, <1>9, <2>2, <4>1, PieceDoes
    <3>3. /\ LengthOf[c] = LengthOf[d] + HeaderLength(Parts[c]) + k
          /\ LengthOf[d] \in Nat /\ HeaderLength(Parts[c]) \in Nat
      <4>1. c \in 1 .. Len(asked) /\ RangeOK(asked[c]) /\ Parts[c] = asked[c]
        BY <1>2, <1>9, <2>2, FilledOK, ExpectedParts
      <4>2. QED
        BY <1>2, <4>1, Counted DEF AskedOK, k
    <3>4. sent' = LengthOf[c] - 26 - left
      <4>1. PICK a \in Nat, h \in Nat : a = LengthOf[d] /\ h = HeaderLength(Parts[c])
        BY <3>3
      <4>2. sent' = (a - 26) + h + n
        BY <3>1, <3>2, <4>1
      <4>3. LengthOf[c] = a + h + k
        BY <3>3, <4>1
      <4>4. k \in Nat /\ n \in Nat /\ left = k - n
        BY <1>5, <1>16
      <4>5. ASSUME NEW x \in Nat, NEW y \in Nat
            PROVE  (a + h + x) - 26 - (x - y) = (a - 26) + h + y
        <5>1. a \in Nat /\ h \in Nat
          BY <4>1
        <5>2. QED
          BY <5>1
      <4>6. (a + h + k) - 26 - (k - n) = (a - 26) + h + n
        BY <4>4, <4>5, Zenon
      <4>7. LengthOf[c] - 26 - left = (a + h + k) - 26 - (k - n)
        BY <4>3, <4>4, Zenon
      <4>8. QED
        BY <4>2, <4>6, <4>7, Zenon
    <3>5. /\ m' = left /\ ranges' = Tail(ranges)
      BY <1>13, <1>16, <2>2
    <3>6. QED
      BY <1>9, <2>1, <2>2, <3>4, <3>5 DEF Noted, Request
  <2>3. CASE ~Multipart
    <3>1. sent = Len(out) /\ out = Sent(d)
      BY <2>3 DEF Whole, Noted
    <3>2. sent' = sent + 0 + n /\ out' = (out \o <<>>) \o Bytes(e + o, n)
      <4>1. NextHeader = <<>>
        BY <2>3 DEF NextHeader, HeaderDue
      <4>2. QED
        BY <1>7, <4>1, PieceDoes DEF e, o, n
    <3>3. out \in Seq(Items)
      BY <1>2, <3>1, Begins
    <3>4. Len(out') = Len(out) + n
      BY <1>5, <3>2, <3>3, Lengthens
    <3>5. sent' = Len(out')
      BY <1>5, <3>1, <3>2, <3>3, <3>4
    <3>6. QED
      BY <2>1, <2>3, <3>5 DEF Noted
  <2>4. QED
    BY <2>2, <2>3
<1>19. From = plan[i][j].offset /\ Copied = plan[i][j].length
  BY <1>7 DEF o, n
<1>20. out' = Begun(c, Parts[c].length - left)
  BY <1>15, <1>17 DEF k
<1>21. ReadOf(c, left)
  BY <1>3, <1>4, <1>17, <1>18, <1>19, <1>20 DEF ReadOf
<1>22. QED
  BY <1>2, <1>21

LEMMA FromCut ==
    ASSUME AskedOK, Sending, Piece, NEW c \in 1 .. Len(Parts),
           NEW old \in 1 .. Parts[c].length - 1, Cut(c, old)
    PROVE  \E left \in Int : ReadOf(c, left)
<1> DEFINE e == EndOf[i - 1]
           o == plan[i][j].offset
           n == plan[i][j].length
           s == Parts[c].start
           k == Parts[c].length
<1>0. /\ SizesOK /\ RangesOK(Parts) /\ Apart(Parts) /\ Len(Parts) \in Nat
      /\ plan = PlanTo(Len(Parts)) /\ z = pos /\ pos \in Nat
  BY PartsOK DEF Sending, AskedOK, RangesOK
<1>1. i \in Blocks /\ j \in DOMAIN plan[i] /\ UNCHANGED <<sizes, mime, asked>>
  BY PieceDoes
<1>2. /\ i \in FirstBlock(Parts[c]) .. LastBlock(Parts[c])
      /\ Noted(c, old) /\ out = Begun(c, k - old)
  BY DEF Cut
<1>3. j \in 1 .. Len(plan[i])
  <2>1. Len(Parts) \in 0 .. Len(Parts)
    BY <1>0
  <2>2. PlanOf(Parts)[Len(Parts)] \in Plans
    BY <1>0, <2>1, PlanAdds
  <2>3. plan[i] \in Seq(Pieces)
    BY <1>0, <1>1, <2>2 DEF PlanTo, Plans
  <2>4. QED
    BY <1>1, <2>3
<1>4. Len(plan[i]) \in Nat
  <2>1. Len(Parts) \in 0 .. Len(Parts)
    BY <1>0
  <2>2. PlanOf(Parts)[Len(Parts)] \in Plans
    BY <1>0, <2>1, PlanAdds
  <2>3. plan[i] \in Seq(Pieces)
    BY <1>0, <1>1, <2>2 DEF PlanTo, Plans
  <2>4. QED
    BY <2>3
<1>5. j # Len(plan[i]) + 1
  BY <1>3, <1>4
<1>6. /\ j = 1 /\ pos = 0 /\ i > FirstBlock(Parts[c])
      /\ End(Parts[c]) - old = EndOf[i - 1]
  BY <1>5 DEF Cut
<1>7. j = Len(PlanTo(c - 1)[i]) + 1
  <2>1. PieceFits(Parts, c, i)
    BY <1>0, <1>2, PieceAt
  <2>2. QED
    BY <1>6, <2>1 DEF PieceFits, PlanTo
<1>8. /\ sizes[i] \in Nat /\ e \in Nat /\ s \in Nat /\ k \in Nat /\ FirstBlock(Parts[c]) \in Blocks
      /\ plan[i][j] \in Pieces /\ o \in Nat /\ n \in Nat
      /\ e + o = IF i = FirstBlock(Parts[c]) THEN s ELSE e
      /\ o + n <= sizes[i]
  BY <1>0, <1>2, <1>7, PieceFacts
<1>9. i # FirstBlock(Parts[c])
  <2>1. FirstBlock(Parts[c]) \in Nat
    BY <1>8 DEF Blocks
  <2>2. QED
    BY <1>6, <2>1
<1>10. o = 0
  <2>1. e + o = e
    BY <1>8, <1>9
  <2> HIDE DEF e, o
  <2>2. QED
    BY <1>8, <2>1
<1>11. From = o /\ Copied = n
  <2>1. pos <= plan[i][j].offset
    BY <1>6, <1>10
  <2>2. QED
    BY <1>0, <1>8, <2>1, Reads
<1>12. At = e + o + n /\ End(Parts[c]) = s + k
  BY DEF At, End
<1>13. End(Parts[c]) - old = e /\ old \in 1 .. k - 1
  BY <1>6
<1>14. ~HeaderDue
  BY <1>2 DEF HeaderDue, Noted
<1>15. out' = (out \o <<>>) \o Bytes(e + o, n) /\ m' = m - n /\ ranges' = ranges
  BY <1>11, <1>14, PieceDoes DEF NextHeader
<1> HIDE DEF e, o, n, s, k
<1>16. /\ k - old \in Nat /\ s + (k - old) = e /\ e + o = e
       /\ (k - old) + n = k - (old - n) /\ (s + k) - (e + o + n) = old - n
  <2>1. old \in Nat /\ 1 <= old /\ old <= k - 1
    BY <1>8, <1>13
  <2>2. (s + k) - old = e
    BY <1>12, <1>13
  <2>3. k - old \in Nat /\ s + (k - old) = e /\ (k - old) + n = k - (old - n)
    BY <1>8, <2>1, <2>2
  <2>4. e + o = e
    BY <1>8, <1>10
  <2>5. (s + k) - (e + n) = old - n
    BY <1>8, <2>1, <2>2
  <2>6. QED
    BY <2>3, <2>4, <2>5
<1>17. out \in Seq(Items)
  <2>1. Begun(c, k - old) \in Seq(Items)
    BY <1>16, Begins
  <2>2. QED
    BY <1>2, <2>1
<1>18. out \o <<>> = out
  BY <1>17, ConcatEmptySeq
<1>19. out' = Begun(c, k - old) \o Bytes(s + (k - old), n)
  <2>1. e + o = s + (k - old)
    BY <1>16
  <2>2. QED
    BY <1>2, <1>15, <1>18, <2>1
<1>20. Begun(c, k - old) \o Bytes(s + (k - old), n) = Begun(c, (k - old) + n)
  <2>1. \A a, b \in Nat : Begun(c, a) \o Bytes(s + a, b) = Begun(c, a + b)
    BY Begins DEF s
  <2>2. QED
    BY <1>8, <1>16, <2>1
<1>21. PICK left \in Int : left = old - n
  BY <1>8
<1>22. left = End(Parts[c]) - At /\ (k - old) + n = k - left
  <2>1. End(Parts[c]) - At = old - n
    BY <1>12, <1>16
  <2>2. QED
    BY <1>16, <1>21, <2>1
<1>23. Noted(c, left)'
  <2>1. /\ Parts' = Parts /\ Multipart' = Multipart /\ LengthOf' = LengthOf
        /\ asked' = asked
    BY <1>1, Static
  <2>2. sent' = sent + 0 + n
    <3>1. NextHeader = <<>>
      BY <1>14 DEF NextHeader
    <3>2. QED
      BY <1>11, <3>1, PieceDoes
  <2>3. CASE Multipart
    <3>1. sent = LengthOf[c] - 26 - old /\ old \in Int
      BY <1>2, <1>13, <2>3 DEF Noted
    <3>2. LengthOf[c] \in Nat
      <4>1. c \in 1 .. Len(asked) /\ RangeOK(asked[c])
        BY <2>3, FilledOK, ExpectedParts
      <4>2. QED
        BY <4>1, Counted DEF AskedOK
    <3>3. sent' = LengthOf[c] - 26 - left
      BY <1>8, <1>21, <2>2, <3>1, <3>2
    <3>4. QED
      BY <1>2, <1>15, <1>21, <2>1, <2>3, <3>3 DEF Noted, Request
  <2>4. CASE ~Multipart
    <3>1. sent = Len(out)
      BY <1>2, <2>4 DEF Noted
    <3>2. Len(out') = Len(out) + n
      BY <1>8, <1>15, <1>17, Lengthens
    <3>3. sent' = Len(out')
      BY <1>8, <1>17, <2>2, <3>1, <3>2
    <3>4. QED
      BY <2>1, <2>4, <3>3 DEF Noted
  <2>5. QED
    BY <2>3, <2>4
<1>24. out' = Begun(c, Parts[c].length - left)
  BY <1>19, <1>20, <1>22 DEF k
<1>25. From = plan[i][j].offset /\ Copied = plan[i][j].length
  BY <1>11 DEF o, n
<1>26. ReadOf(c, left)
  BY <1>2, <1>7, <1>22, <1>23, <1>24, <1>25 DEF ReadOf
<1>27. QED
  BY <1>26

LEMMA PieceStep ==
    ASSUME AskedOK, Sending, Piece
    PROVE  pc' = "block" /\ Sending'
<1>1. CASE AnyCut
  <2>1. PICK c \in 1 .. Len(Parts) : \E old \in 1 .. Parts[c].length - 1 : Cut(c, old)
    BY <1>1 DEF AnyCut
  <2>2. PICK old \in 1 .. Parts[c].length - 1 : Cut(c, old)
    BY <2>1
  <2>3. QED
    BY <2>2, FromCut, ReadMoves
<1>2. CASE \E c \in 0 .. Len(Parts) : Whole(c)
  <2>1. PICK d \in 0 .. Len(Parts) : Whole(d)
    BY <1>2
  <2>2. d + 1 \in 1 .. Len(Parts) /\ \E left \in Int : ReadOf(d + 1, left)
    BY <2>1, FromWhole
  <2>3. QED
    BY <2>2, ReadMoves
<1>3. QED
  BY <1>1, <1>2 DEF Sending

LEMMA BlockStep ==
    ASSUME AskedOK, Sending, Block
    PROVE  Sending'
<1>0. /\ SizesOK /\ RangesOK(Parts) /\ Apart(Parts) /\ Len(Parts) \in Nat /\ Len(sizes) \in Nat
      /\ plan = PlanTo(Len(Parts)) /\ z = pos /\ pos \in Nat
  BY PartsOK DEF Sending, AskedOK, RangesOK, SizesOK
<1>1. /\ i \in Blocks /\ j \notin DOMAIN plan[i]
      /\ i' = i + 1 /\ j' = 1 /\ z' = 0 /\ pos' = 0
      /\ UNCHANGED <<sizes, mime, ranges, asked, plan, pc, m, out, sent>>
  BY DEF Block
<1>2. /\ EndOf' = EndOf /\ Blocks' = Blocks /\ Parts' = Parts /\ Multipart' = Multipart
      /\ \A s : FirstBlock(s)' = FirstBlock(s) /\ LastBlock(s)' = LastBlock(s)
      /\ \A d : PlanTo(d)' = PlanTo(d) /\ Sent(d)' = Sent(d)
      /\ \A d, n : Begun(d, n)' = Begun(d, n)
      /\ PlanTo(Len(Parts))' = PlanTo(Len(Parts)) /\ LengthOf' = LengthOf
  BY <1>1, Static
<1>3. \A d, left : Noted(d, left)' = Noted(d, left)
  BY <1>1, <1>2 DEF Noted
<1>4. DOMAIN plan[i] = 1 .. Len(plan[i])
  <2>1. Len(Parts) \in 0 .. Len(Parts)
    BY <1>0
  <2>2. PlanOf(Parts)[Len(Parts)] \in Plans
    BY <1>0, <2>1, PlanAdds
  <2>3. plan[i] \in Seq(Pieces)
    BY <1>0, <1>1, <2>2 DEF PlanTo, Plans
  <2>4. QED
    BY <2>3
<1>5. \A c \in 1 .. Len(Parts) :
          /\ FirstBlock(Parts[c]) \in 1 .. Len(sizes) /\ LastBlock(Parts[c]) \in 1 .. Len(sizes)
          /\ FirstBlock(Parts[c]) <= LastBlock(Parts[c])
  BY <1>0, Span DEF RangesOK, Blocks
\* A block is not left before the pieces of a part that reaches into it.
<1>6. ASSUME NEW c \in 1 .. Len(Parts), i \in FirstBlock(Parts[c]) .. LastBlock(Parts[c])
      PROVE  /\ j # Len(PlanTo(c - 1)[i]) + 1
             /\ i > FirstBlock(Parts[c]) => j # 1
  <2>1. /\ Len(PlanTo(c - 1)[i]) + 1 \in 1 .. Len(plan[i])
        /\ i > FirstBlock(Parts[c]) => Len(PlanTo(c - 1)[i]) + 1 = 1
    <3> DEFINE n == Len(PlanOf(Parts)[c - 1][i]) + 1
               v == PlanOf(Parts)[Len(Parts)][i]
    <3>1. n \in 1 .. Len(v) /\ (i > FirstBlock(Parts[c]) => n = 1)
      <4>1. SizesOK /\ RangesOK(Parts) /\ Apart(Parts)
        BY <1>0
      <4>2. PieceFits(Parts, c, i)
        BY <4>1, <1>6, PieceAt
      <4>3. QED
        BY <4>2 DEF PieceFits
    <3>2. n = Len(PlanTo(c - 1)[i]) + 1 /\ v = plan[i]
      BY <1>0 DEF PlanTo
    <3>3. QED
      BY <3>1, <3>2
  <2>2. QED
    BY <1>1, <1>4, <2>1
<1>7. ASSUME NEW d \in 0 .. Len(Parts), Whole(d)
      PROVE  Whole(d)'
  <2>1. d \in Nat /\ i \in Nat
    BY <1>0, <1>1 DEF Blocks
  <2>2. d < Len(Parts) => i + 1 <= FirstBlock(Parts[d + 1])
    <3>1. ASSUME d < Len(Parts)
          PROVE  i + 1 <= FirstBlock(Parts[d + 1])
      <4>1. d + 1 \in 1 .. Len(Parts) /\ (d + 1) - 1 = d
        BY <1>0, <3>1
      <4>2. i <= FirstBlock(Parts[d + 1]) /\ j = Len(PlanTo(d)[i]) + 1
        BY <1>1, <1>7, <3>1 DEF Whole
      <4>3. /\ FirstBlock(Parts[d + 1]) \in Nat /\ LastBlock(Parts[d + 1]) \in Nat
            /\ FirstBlock(Parts[d + 1]) <= LastBlock(Parts[d + 1])
        BY <1>5, <4>1
      <4>4. i \notin FirstBlock(Parts[d + 1]) .. LastBlock(Parts[d + 1])
        BY <1>6, <4>1, <4>2
      <4>5. QED
        BY <2>1, <4>2, <4>3, <4>4
    <3>2. QED
      BY <3>1
  <2>3. d > 0 => LastBlock(Parts[d]) < i + 1
    <3>1. ASSUME d > 0
          PROVE  LastBlock(Parts[d]) < i + 1
      <4>1. LastBlock(Parts[d]) \in Nat /\ i >= LastBlock(Parts[d])
        BY <1>5, <1>7, <3>1 DEF Whole
      <4>2. QED
        BY <2>1, <4>1
    <3>2. QED
      BY <3>1
  <2>4. i + 1 \in Blocks => 1 = Len(PlanTo(d)[i + 1]) + 1
    <3>1. ASSUME i + 1 \in Blocks
          PROVE  PlanTo(d)[i + 1] = <<>>
      BY <1>0, <2>3, <3>1, NoneLater DEF PlanTo
    <3>2. QED
      BY <3>1
  <2>5. d > 0 => i + 1 >= LastBlock(Parts[d])
    <3>1. ASSUME d > 0
          PROVE  i + 1 >= LastBlock(Parts[d])
      <4>1. LastBlock(Parts[d]) \in Nat /\ i >= LastBlock(Parts[d])
        BY <1>5, <1>7, <3>1 DEF Whole
      <4>2. QED
        BY <2>1, <4>1
    <3>2. QED
      BY <3>1
  <2>6. Noted(d, 0) /\ out = Sent(d)
    BY <1>7 DEF Whole
  <2>7. Noted(d, 0)' /\ out' = Sent(d)'
    BY <1>1, <1>2, <1>3, <2>6
  <2>8. /\ d < Len(Parts)' => i' <= FirstBlock(Parts[d + 1])'
        /\ d > 0 => i' >= LastBlock(Parts[d])'
    BY <1>1, <1>2, <2>2, <2>5
  <2>9. i' \in Blocks' => j' = Len(PlanTo(d)[i])' + 1
    <3>1. Len(PlanTo(d)[i])' = Len(PlanTo(d)[i + 1])
      BY <1>1, <1>2
    <3>2. QED
      BY <1>1, <1>2, <2>4, <3>1
  <2>10. ~(pos' > 0)
    BY <1>1
  <2>11. QED
    BY <2>7, <2>8, <2>9, <2>10 DEF Whole
<1>8. ASSUME NEW c \in 1 .. Len(Parts), NEW left \in 1 .. Parts[c].length - 1, Cut(c, left)
      PROVE  Cut(c, left)'
  <2>1. /\ i \in FirstBlock(Parts[c]) .. LastBlock(Parts[c])
        /\ Noted(c, left) /\ out = Begun(c, Parts[c].length - left)
    BY <1>8 DEF Cut
  <2>2. ~(j = 1 /\ i > FirstBlock(Parts[c]))
    BY <1>6, <2>1
  <2>3. i < LastBlock(Parts[c]) /\ End(Parts[c]) - left = EndOf[i]
    BY <1>8, <2>2 DEF Cut
  <2>4. /\ FirstBlock(Parts[c]) \in Nat /\ LastBlock(Parts[c]) \in Nat /\ i \in Nat
    BY <1>1, <1>5 DEF Blocks
  <2>5. /\ i + 1 \in FirstBlock(Parts[c]) .. LastBlock(Parts[c])
        /\ i + 1 > FirstBlock(Parts[c]) /\ (i + 1) - 1 = i
    BY <2>1, <2>3, <2>4
  <2>6. End(Parts[c])' = End(Parts[c])
    BY <1>2 DEF End
  <2>7. EndOf[i - 1]' = EndOf[i]
    BY <1>1, <1>2, <2>5
  <2>8. Noted(c, left)' /\ out' = Begun(c, Parts[c].length - left)'
    BY <1>1, <1>2, <1>3, <2>1
  <2>9. /\ i' \in FirstBlock(Parts[c])' .. LastBlock(Parts[c])' /\ i' > FirstBlock(Parts[c])'
    BY <1>1, <1>2, <2>5
  <2>10. End(Parts[c])' - left = EndOf[i - 1]' /\ j' = 1 /\ pos' = 0
    BY <1>1, <2>3, <2>6, <2>7
  <2>11. QED
    BY <2>8, <2>9, <2>10 DEF Cut
<1>9. AnyCut' \/ \E c \in 0 .. Len(Parts') : Whole(c)'
  <2>1. CASE AnyCut
    BY <1>2, <1>8, <2>1 DEF AnyCut
  <2>2. CASE \E c \in 0 .. Len(Parts) : Whole(c)
    BY <1>2, <1>7, <2>2
  <2>3. QED
    BY <2>1, <2>2 DEF Sending
<1>10. plan' = PlanTo(Len(Parts))'
  BY <1>0, <1>1, <1>2
<1>11. i' \in 1 .. Len(sizes') + 1 /\ z' = pos' /\ pos' \in Nat
  BY <1>0, <1>1 DEF Blocks
<1>12. QED
  BY <1>9, <1>10, <1>11 DEF Sending

\* An answer of one part, or without parts, is as long as was announced.
LEMMA SingleLength ==
    ASSUME AskedOK, ~Multipart
    PROVE  Len(Expected) = ContentLength /\ Missing = 0
<1>0. Len(asked) \in Nat /\ Size \in Nat
  BY SizeOK, FilledOK DEF AskedOK
<1>1. Missing = 0
  BY DEF Missing
<1>2. CASE asked = <<>>
  <2>1. Expected = Bytes(0, Size) /\ ContentLength = Size
    BY <1>2 DEF Expected, ContentLength
  <2>2. QED
    BY <1>0, <1>1, <2>1, BytesJoin
<1>3. CASE asked # <<>>
  <2>1. Len(asked) = 1
    <3>1. ~(Len(asked) > 1) /\ Len(asked) # 0
      BY <1>3 DEF Multipart, AskedOK
    <3>2. QED
      BY <1>0, <3>1
  <2>2. 1 \in 1 .. Len(asked) /\ 1 - 1 = 0
    BY <2>1
  <2>3. /\ Part(asked[1]) \in Seq(Items) /\ Len(Part(asked[1])) = 0 + asked[1].length
        /\ asked[1].length \in Nat
    <3>1. RangeOK(asked[1]) \/ NoBytes(asked[1])
      BY <2>2 DEF AskedOK, InFile
    <3>2. asked[1].length \in Nat
      BY <3>1 DEF RangeOK, NoBytes
    <3>3. QED
      BY <3>1, <3>2, PartTyped
  <2>4. Answer(asked)[1] = <<>> \o Part(asked[1])
    <3>1. Answer(asked)[0] = <<>>
      BY AnswerOfAll DEF AskedOK
    <3>2. Answer(asked)[1] = Answer(asked)[1 - 1] \o Part(asked[1])
      BY <2>2, AnswerOfAll DEF AskedOK
    <3>3. QED
      BY <2>2, <3>1, <3>2
  <2>5. Answer(asked)[1] = Part(asked[1])
    BY <2>3, <2>4, ConcatEmptySeq
  <2>6. Expected = Answer(asked)[1] \o <<>>
    BY <1>3, <2>1 DEF Expected
  <2>7. Expected = Part(asked[1])
    BY <2>3, <2>5, <2>6, ConcatEmptySeq
  <2>8. ContentLength = asked[1].length
    BY <1>3, <2>1 DEF ContentLength
  <2>9. QED
    BY <1>1, <2>3, <2>7, <2>8
<1>4. QED
  BY <1>2, <1>3

\* A finished answer begins like the right one, and is as long as was announced
\* but for what is missing.
Finished ==
    /\ out \in Seq(Items) /\ Starts(out, Expected)
    /\ sent + Missing = ContentLength

LEMMA FooterStep ==
    ASSUME AskedOK, Sending, Footer
    PROVE  Finished'
<1>0. /\ SizesOK /\ RangesOK(Parts) /\ Len(Parts) \in Nat /\ Len(sizes) \in Nat
  BY PartsOK DEF AskedOK, RangesOK, SizesOK
<1>1. /\ i \notin Blocks
      /\ out' = IF FooterDue THEN Append(out, "footer") ELSE out
      /\ sent' = IF FooterDue THEN sent + 26 ELSE sent
      /\ UNCHANGED <<sizes, mime, asked>>
  <2>1. FooterLength = 26
    BY DEF FooterLength, BoundaryLength
  <2>2. QED
    BY <2>1 DEF Footer
<1>2. \A c \in 1 .. Len(Parts) :
          /\ FirstBlock(Parts[c]) \in 1 .. Len(sizes) /\ LastBlock(Parts[c]) \in 1 .. Len(sizes)
  BY <1>0, Span DEF RangesOK, Blocks
<1>3. i = Len(sizes) + 1
  BY <1>0, <1>1 DEF Sending, Blocks
<1>4. ~AnyCut
  <2>1. ASSUME NEW c \in 1 .. Len(Parts), NEW left, Cut(c, left)
        PROVE  FALSE
    <3>1. i \in FirstBlock(Parts[c]) .. LastBlock(Parts[c])
      BY <2>1 DEF Cut
    <3>2. QED
      BY <1>0, <1>2, <1>3, <3>1
  <2>2. QED
    BY <2>1 DEF AnyCut
<1>5. PICK d \in 0 .. Len(Parts) : Whole(d)
  BY <1>4 DEF Sending
<1>6. d = Len(Parts)
  <2>1. ASSUME d < Len(Parts)
        PROVE  FALSE
    <3>1. d + 1 \in 1 .. Len(Parts)
      BY <1>0, <2>1
    <3>2. i <= FirstBlock(Parts[d + 1])
      BY <1>5, <2>1 DEF Whole
    <3>3. FirstBlock(Parts[d + 1]) \in 1 .. Len(sizes)
      BY <1>2, <3>1
    <3>4. QED
      BY <1>0, <1>3, <3>2, <3>3
  <2>2. QED
    BY <1>0, <2>1
<1>7. /\ out = Sent(Len(Parts)) /\ out \in Seq(Items) /\ Noted(Len(Parts), 0)
      /\ Starts(out, Expected) /\ Expected \in Seq(Items)
  BY <1>5, <1>6, ExpectedParts DEF Whole
<1>8. Expected' = Expected /\ ContentLength' = ContentLength /\ Missing' = Missing
  BY <1>1, Static
<1>9. CASE ~Multipart
  <2>1. ~FooterDue
    BY <1>9 DEF FooterDue
  <2>2. out' = out /\ sent' = Len(out)
    BY <1>1, <1>7, <1>9, <2>1 DEF Noted
  <2>3. out = Expected
    BY <1>7, <1>9, ExpectedParts
  <2>4. Len(Expected) = ContentLength /\ Missing = 0
    BY <1>9, SingleLength
  <2>5. sent' + Missing' = ContentLength'
    BY <1>7, <1>8, <2>2, <2>3, <2>4
  <2>6. QED
    BY <1>7, <1>8, <2>2, <2>5 DEF Finished
<1>10. CASE Multipart
  <2>1. /\ m = 0 /\ ranges \in Seq(Request) /\ Len(ranges) = Len(asked) - Filled
        /\ sent = LengthOf[Filled] - 26 - 0 /\ Len(Parts) = Filled
    BY <1>7, <1>10, ExpectedParts DEF Noted
  <2>2. /\ Filled \in 0 .. Len(asked) /\ Len(asked) \in 0 .. Len(asked)
        /\ Filled \in Nat /\ Len(asked) \in Nat /\ Filled <= Len(asked)
    BY FilledOK
  <2>3. LengthOf[Filled] \in Nat /\ LengthOf[Len(asked)] \in Nat
    BY <2>2, LengthAdds DEF AskedOK
  <2>4. ContentLength = LengthOf[Len(asked)]
    <3>1. Len(asked) > 1
      BY <1>10 DEF Multipart
    <3>2. asked # <<>> /\ Len(asked) # 1
      <4>1. asked = <<>> => ~Multipart
        BY DEF Multipart
      <4>2. asked # <<>>
        BY <1>10, <4>1, Zenon
      <4>3. Len(asked) # 1
        BY <2>2, <3>1
      <4>4. QED
        BY <4>2, <4>3
    <3>3. QED
      BY <3>2 DEF ContentLength
  <2>5. Missing = IF Filled < Len(asked) THEN LengthOf[Len(asked)] - LengthOf[Filled] + 26 ELSE 0
    BY <1>10 DEF Missing, FooterLength, BoundaryLength
  <2>6. CASE Filled = Len(asked)
    <3>1. FooterDue
      <4>1. Len(ranges) = 0
        BY <2>1, <2>2, <2>6
      <4>2. QED
        BY <1>10, <2>1, <4>1 DEF FooterDue
    <3>2. out' = Append(out, "footer") /\ Expected = out \o <<"footer">>
      BY <1>1, <1>7, <1>10, <2>6, <3>1, ExpectedParts
    <3>3. out' = Expected
      BY <1>7, <3>2
    <3>4. Starts(Expected, Expected)
      BY <1>7 DEF Starts
    <3>5. sent' + Missing' = ContentLength'
      <4>1. sent' = sent + 26
        BY <1>1, <3>1
      <4>2. ~(Filled < Len(asked))
        BY <2>2, <2>6
      <4>3. Missing = 0
        BY <2>5, <4>2
      <4>4. sent = LengthOf[Len(asked)] - 26
        BY <2>1, <2>3, <2>6
      <4>5. QED
        BY <1>8, <2>3, <2>4, <4>1, <4>3, <4>4
    <3>6. QED
      BY <1>7, <1>8, <3>3, <3>4, <3>5 DEF Finished
  <2>7. CASE Filled # Len(asked)
    <3>1. ~FooterDue
      <4>1. Len(ranges) # 0
        BY <2>1, <2>2, <2>7
      <4>2. QED
        BY <2>1, <4>1 DEF FooterDue
    <3>2. out' = out /\ sent' = sent
      BY <1>1, <3>1
    <3>3. sent' + Missing' = ContentLength'
      <4>1. Filled < Len(asked)
        BY <2>2, <2>7
      <4>2. PICK a \in Nat, b \in Nat : a = LengthOf[Filled] /\ b = LengthOf[Len(asked)]
        BY <2>3
      <4>3. Missing = b - a + 26
        BY <2>5, <4>1, <4>2
      <4>4. sent = a - 26 /\ ContentLength = b
        BY <2>1, <2>4, <4>2
      <4>5. (a - 26) + (b - a + 26) = b
        BY <4>2
      <4>6. QED
        BY <1>8, <3>2, <4>3, <4>4, <4>5
    <3>4. QED
      BY <1>7, <1>8, <3>2, <3>3 DEF Finished
  <2>8. QED
    BY <2>6, <2>7
<1>11. QED
  BY <1>9, <1>10

-----------------------------------------------------------------------------
(* The invariant holds. *)

IInv ==
    /\ SizesOK /\ mime \in Nat
    /\ InFile(asked) /\ asked \in Seq(Request)
    /\ pc \in {"parse", "refused", "block", "broken", "done"}
    /\ pc = "parse" => i = 1 /\ j = 1 /\ z = 0 /\ pos = 0 /\ m = 0 /\ sent = 0
    /\ pc \in {"parse", "refused"} => out = <<>>
    /\ pc \in {"block", "broken"} => Apart(asked) /\ FilledFirst /\ Sending
    /\ pc = "done" => Finished

\* A file has full blocks and a last one that may be shorter.
LEMMA FilesOK ==
    ASSUME sizes \in Files
    PROVE  SizesOK
<1>1. PICK n \in 1 .. MaxBlocks, t \in 0 .. BlockSize - 1 :
          sizes = [k \in 1 .. n |-> IF k = n THEN t ELSE BlockSize]
  BY DEF Files
<1>2. BlockSize \in Nat \ {0} /\ MaxBlocks \in Nat
  BY BoundsAssumption
<1>3. n \in Nat /\ t \in Nat
  BY <1>2
<1>4. \A k \in 1 .. n : sizes[k] = IF k = n THEN t ELSE BlockSize
  BY <1>1
<1>5. sizes \in [1 .. n -> Nat]
  BY <1>1, <1>2, <1>3
<1>6. sizes \in Seq(Nat) /\ Len(sizes) = n
  BY <1>3, <1>5
<1>7. \A k \in 1 .. n : k < n => sizes[k] > 0
  BY <1>2, <1>4
<1>8. QED
  BY <1>6, <1>7 DEF SizesOK, Blocks

LEMMA RequestsOK ==
    ASSUME SizesOK, asked \in Requests
    PROVE  InFile(asked) /\ asked \in Seq(Request)
<1> DEFINE Some == {r \in [start : 0 .. Size, length : 0 .. Size] :
                       /\ r.start + r.length <= Size
                       /\ r.length = 0 => r.start = Size}
<1>0. Size \in Nat /\ MaxRanges \in Nat
  BY SizeOK, BoundsAssumption
<1>1. PICK n \in 0 .. MaxRanges : asked \in [1 .. n -> Some]
  BY DEF Requests, SeqOf
<1>2. ASSUME NEW r \in Some
      PROVE  r \in Request /\ (RangeOK(r) \/ NoBytes(r))
  <2>1. r \in [start : Nat, length : Nat] /\ r.start \in Nat /\ r.length \in Nat
    BY <1>0
  <2>2. CASE r.length = 0
    BY <2>1, <2>2 DEF Request, NoBytes
  <2>3. CASE r.length # 0
    <3>1. r = [start |-> r.start, length |-> r.length] /\ r.length \in Nat \ {0}
      BY <2>1, <2>3
    <3>2. r \in [start : Nat, length : Nat \ {0}]
      BY <2>1, <3>1
    <3>3. QED
      BY <2>1, <3>2 DEF Request, RangeOK
  <2>4. QED
    BY <2>2, <2>3
<1> HIDE DEF Some
<1>3. n \in Nat /\ asked \in [1 .. n -> Request]
  BY <1>0, <1>1, <1>2
<1>4. asked \in Seq(Request) /\ Len(asked) = n /\ DOMAIN asked = 1 .. n
  BY <1>3
<1>5. \A k \in 1 .. n : RangeOK(asked[k]) \/ NoBytes(asked[k])
  BY <1>1, <1>2
<1>6. QED
  BY <1>3, <1>4, <1>5 DEF InFile

LEMMA InitIInv == Init => IInv
<1> SUFFICES ASSUME Init PROVE IInv
  OBVIOUS
<1>1. SizesOK /\ mime \in Nat
  BY FilesOK, MimeAssumption DEF Init
<1>2. InFile(asked) /\ asked \in Seq(Request)
  BY <1>1, RequestsOK DEF Init
<1>3. QED
  BY <1>1, <1>2 DEF Init, IInv

\* Sorting keeps every range.
LEMMA SortedOK ==
    ASSUME InFile(asked), asked \in Seq(Request), NEW q \in Sorted(asked)
    PROVE  /\ InFile(q) /\ q \in Seq(Request) /\ Len(q) = Len(asked)
           /\ \A n \in 1 .. Len(q) - 1 : q[n].start <= q[n + 1].start
<1>1. /\ \E f \in Bijection(DOMAIN asked, DOMAIN asked) : q = [n \in DOMAIN asked |-> asked[f[n]]]
      /\ \A n \in 1 .. Len(asked) - 1 : q[n].start <= q[n + 1].start
  BY DEF Sorted
<1>2. PICK f \in [DOMAIN asked -> DOMAIN asked] : q = [n \in DOMAIN asked |-> asked[f[n]]]
  BY <1>1 DEF Bijection, Injection
<1>3. DOMAIN asked = 1 .. Len(asked) /\ Len(asked) \in Nat
  OBVIOUS
<1>4. \A n \in 1 .. Len(asked) : asked[n] \in Request
  OBVIOUS
<1>5. \A n \in 1 .. Len(asked) : f[n] \in 1 .. Len(asked) /\ q[n] = asked[f[n]]
  BY <1>2, <1>3
<1>6. q \in [1 .. Len(asked) -> Request]
  BY <1>2, <1>3, <1>4, <1>5
<1>7. q \in Seq(Request) /\ Len(q) = Len(asked)
  BY <1>3, <1>6
<1>8. \A n \in 1 .. Len(asked) : RangeOK(q[n]) \/ NoBytes(q[n])
  BY <1>5 DEF InFile
<1>9. QED
  BY <1>1, <1>3, <1>7, <1>8 DEF InFile

\* In order, the ranges without a byte come last: no other starts where they do.
LEMMA EmptyLast ==
    ASSUME SizesOK, InFile(asked), asked \in Seq(Request),
           \A n \in 1 .. Len(asked) - 1 : asked[n].start <= asked[n + 1].start
    PROVE  FilledFirst
<1> DEFINE N == Len(asked)
           E == {n \in 1 .. N : asked[n].length = 0}
<1>0. /\ N \in Nat /\ Size \in Nat
      /\ \A n \in 1 .. N : /\ asked[n].length \in Nat /\ asked[n].start \in Nat
                           /\ asked[n].length = 0 <=> asked[n].start >= Size
  <2>1. \A n \in 1 .. N : RangeOK(asked[n]) \/ NoBytes(asked[n])
    BY DEF InFile
  <2>2. Size \in Nat
    BY SizeOK
  <2>3. \A r : RangeOK(r) \/ NoBytes(r) => /\ r.length \in Nat /\ r.start \in Nat
                                           /\ r.length = 0 <=> r.start >= Size
    BY <2>2 DEF RangeOK, NoBytes
  <2>4. QED
    BY <2>1, <2>2, <2>3 DEF InFile
<1>1. ASSUME NEW n \in 1 .. N - 1, n \in E
      PROVE  n + 1 \in E
  <2>1. n \in 1 .. N /\ n + 1 \in 1 .. N /\ asked[n].start <= asked[n + 1].start
    BY <1>0
  <2>2. asked[n].start >= Size
    BY <1>0, <1>1, <2>1
  <2>3. asked[n + 1].start >= Size
    BY <1>0, <2>1, <2>2
  <2>4. QED
    BY <1>0, <2>1, <2>3
<1>2. ASSUME NEW n \in E, NEW k \in 1 .. N, n <= k
      PROVE  k \in E
  <2> DEFINE S == {d \in Nat : n + d <= N => n + d \in E}
  <2>1. n \in 1 .. N /\ n \in Nat
    BY <1>0
  <2>2. 0 \in S
    BY <2>1
  <2>3. ASSUME NEW d \in Nat, d \in S, n + (d + 1) <= N
        PROVE  n + (d + 1) \in E
    <3>1. PICK a \in 1 .. N - 1 : a = n + d /\ a + 1 = n + (d + 1)
      BY <1>0, <2>1, <2>3
    <3>2. a \in E
      BY <1>0, <2>3, <3>1
    <3> HIDE DEF E
    <3>3. a + 1 \in E
      BY <1>1, <3>2
    <3>4. QED
      BY <3>1, <3>3
  <2>4. \A d \in Nat : d \in S => d + 1 \in S
    <3>1. \A d \in Nat : d \in S <=> (n + d <= N => n + d \in E)
      OBVIOUS
    <3>2. ASSUME NEW d \in Nat, d \in S
          PROVE  d + 1 \in S
      <4>1. n + (d + 1) <= N => n + (d + 1) \in E
        BY <2>3, <3>2, Zenon
      <4>2. d + 1 \in Nat
        OBVIOUS
      <4> HIDE DEF S, E
      <4>3. QED
        BY <3>1, <4>1, <4>2, Zenon
    <3>3. QED
      BY <3>2
  <2> HIDE DEF S
  <2>5. k - n \in S
    <3>1. Nat \subseteq S
      BY <2>2, <2>4, SetInduction
    <3>2. k - n \in Nat
      BY <1>0, <1>2, <2>1
    <3>3. QED
      BY <3>1, <3>2
  <2>6. n + (k - n) = k /\ k <= N
    BY <1>0, <2>1
  <2>7. QED
    BY <2>5, <2>6 DEF S
<1>3. \E n \in 0 .. N : \A k \in 1 .. N : asked[k].length > 0 <=> k <= n
  <2>1. CASE E = {}
    <3>1. N \in 0 .. N /\ \A k \in 1 .. N : asked[k].length > 0 /\ k <= N
      BY <1>0, <2>1
    <3>2. QED
      BY <3>1
  <2>2. CASE E # {}
    <3>1. E \in SUBSET Nat
      BY <1>0
    <3>2. PICK e \in E : \A k \in E : e <= k
      BY <2>2, <3>1, LeastOfNat
    <3>3. e - 1 \in 0 .. N
      BY <1>0
    <3>4. ASSUME NEW k \in 1 .. N
          PROVE  asked[k].length > 0 <=> k <= e - 1
      <4>1. CASE k \in E
        BY <1>0, <3>2, <4>1
      <4>2. CASE k \notin E
        <5>1. ~(e <= k) /\ e \in 1 .. N
          BY <1>2, <4>2
        <5>2. asked[k].length > 0
          BY <1>0, <4>2
        <5>3. QED
          BY <1>0, <5>1, <5>2
      <4>3. QED
        BY <4>1, <4>2
    <3>5. QED
      BY <3>3, <3>4
  <2>3. QED
    BY <2>1, <2>2
<1>4. QED
  BY <1>3 DEF FilledFirst, Filled

LEMMA ApartOK ==
    ASSUME NEW q \in Seq(Request), ~Overlap(q)
    PROVE  Apart(q)
<1>1. ASSUME NEW n \in 1 .. Len(q) - 1
      PROVE  q[n].start + q[n].length <= q[n + 1].start
  <2>1. n \in 1 .. Len(q) /\ n + 1 \in 1 .. Len(q)
    OBVIOUS
  <2>2. q[n] \in Request /\ q[n + 1] \in Request
    BY <2>1
  <2>3. q[n].start \in Nat /\ q[n].length \in Nat /\ q[n + 1].start \in Nat
    BY <2>2 DEF Request
  <2>4. ~(q[n].start + q[n].length > q[n + 1].start)
    BY DEF Overlap
  <2>5. QED
    BY <2>3, <2>4
<1>2. QED
  BY <1>1 DEF Apart

\* Before the first block nothing is sent.
Fresh ==
    /\ AskedOK
    /\ i = 1 /\ j = 1 /\ z = 0 /\ pos = 0 /\ m = 0 /\ out = <<>> /\ sent = 0
    /\ ranges = asked /\ plan = Planned

LEMMA Started == Fresh => Sending
<1> SUFFICES ASSUME Fresh PROVE Sending
  OBVIOUS
<1>0. AskedOK /\ SizesOK /\ RangesOK(Parts) /\ Len(Parts) \in Nat /\ Len(sizes) \in Nat
  BY PartsOK DEF Fresh, AskedOK, RangesOK, SizesOK
<1>1. plan = PlanTo(Len(Parts))
  BY <1>0, PlannedParts DEF Fresh
<1>2. 0 < Len(Parts) => i <= FirstBlock(Parts[0 + 1])
  <2>1. ASSUME 0 < Len(Parts)
        PROVE  1 <= FirstBlock(Parts[1])
    <3>1. RangeOK(Parts[1])
      BY <1>0, <2>1 DEF RangesOK
    <3>2. QED
      BY <1>0, <3>1, Span DEF Blocks
  <2>2. QED
    BY <2>1 DEF Fresh
<1>3. i \in Blocks => j = Len(PlanTo(0)[i]) + 1
  <2>1. ASSUME i \in Blocks
        PROVE  PlanTo(0)[i] = <<>>
    BY <1>0, <2>1, PlanAdds DEF PlanTo
  <2>2. QED
    BY <2>1 DEF Fresh
<1>4. out = Sent(0)
  BY <1>0, AnswerAdds DEF Fresh, Sent
<1>5. Noted(0, 0)
  <2>1. LengthOf[0] - 26 - 0 = 0
    BY LengthAdds DEF Fresh, AskedOK
  <2>2. ranges = asked /\ m = 0 /\ asked \in Seq(Request) /\ out = <<>> /\ sent = 0
    BY <1>0 DEF Fresh, AskedOK
  <2>3. /\ Len(ranges) = Len(asked) - 0
        /\ \A n \in 1 .. Len(asked) - 0 : ranges[n] = asked[0 + n]
    BY <2>2
  <2>4. QED
    BY <2>1, <2>2, <2>3 DEF Noted
<1>6. Whole(0)
  BY <1>2, <1>3, <1>4, <1>5 DEF Whole, Fresh
<1>7. i \in 1 .. Len(sizes) + 1 /\ z = pos /\ pos \in Nat
  BY <1>0 DEF Fresh
<1>8. 0 \in 0 .. Len(Parts)
  BY <1>0
<1>9. QED
  BY <1>1, <1>6, <1>7, <1>8 DEF Sending

LEMMA ParseStep ==
    ASSUME IInv, Parse
    PROVE  IInv'
<1>1. /\ asked' \in Sorted(asked) /\ UNCHANGED <<sizes, mime, i, j, z, pos, m, out, sent>>
      /\ i = 1 /\ j = 1 /\ z = 0 /\ pos = 0 /\ m = 0 /\ out = <<>> /\ sent = 0
      /\ SizesOK /\ mime \in Nat /\ InFile(asked) /\ asked \in Seq(Request)
  BY DEF Parse, IInv
<1>2. /\ InFile(asked') /\ asked' \in Seq(Request)
      /\ \A n \in 1 .. Len(asked') - 1 : asked'[n].start <= asked'[n + 1].start
  BY <1>1, SortedOK
<1>3. SizesOK' /\ (mime \in Nat)' /\ InFile(asked)' /\ (asked \in Seq(Request))'
  <2>1. EndOf' = EndOf
    BY <1>1 DEF EndOf
  <2>2. Size' = Size
    BY <1>1, <2>1 DEF Size
  <2>3. SizesOK'
    BY <1>1 DEF SizesOK, Blocks
  <2>4. InFile(asked)'
    BY <1>2, <2>2 DEF InFile, RangeOK, NoBytes
  <2>5. QED
    BY <1>1, <1>2, <2>3, <2>4 DEF Request
<1>4. CASE Overlap(asked')
  <2>1. pc' = "refused" /\ out' = <<>>
    BY <1>1, <1>4 DEF Parse
  <2>2. QED
    BY <1>3, <2>1 DEF IInv
<1>5. CASE ~Overlap(asked')
  <2>1. pc' = "block" /\ ranges' = asked' /\ plan' = Planned'
    BY <1>5 DEF Parse
  <2>2. Apart(asked')
    BY <1>2, <1>5, ApartOK
  <2>3. Apart(asked)'
    BY <2>2 DEF Apart
  <2>4. FilledFirst'
    <3>1. (SizesOK /\ InFile(asked) /\ asked \in Seq(Request)
              /\ (\A n \in 1 .. Len(asked) - 1 : asked[n].start <= asked[n + 1].start)
              => FilledFirst)'
      BY EmptyLast, PTL
    <3>2. QED
      BY <1>2, <1>3, <3>1
  <2>5. AskedOK'
    BY <1>3, <2>3, <2>4 DEF AskedOK
  <2>6. Fresh'
    BY <1>1, <2>1, <2>5 DEF Fresh
  <2>7. Sending'
    <3>1. (Fresh => Sending)'
      BY Started, PTL
    <3>2. QED
      BY <2>6, <3>1
  <2>8. QED
    BY <1>3, <2>1, <2>3, <2>4, <2>7 DEF IInv
<1>6. QED
  BY <1>4, <1>5

LEMMA NextIInv == IInv /\ [Next]_vars => IInv'
<1> SUFFICES ASSUME IInv, [Next]_vars PROVE IInv'
  OBVIOUS
<1> DEFINE Steady == SizesOK /\ mime \in Nat /\ InFile(asked) /\ asked \in Seq(Request)
<1>1. Steady
  BY DEF IInv
<1>2. ASSUME UNCHANGED <<sizes, mime, asked>>
      PROVE  /\ Steady' /\ Apart(asked)' = Apart(asked) /\ FilledFirst' = FilledFirst
             /\ Expected' = Expected /\ ContentLength' = ContentLength /\ Missing' = Missing
  <2>1. /\ EndOf' = EndOf /\ Expected' = Expected /\ ContentLength' = ContentLength
        /\ Missing' = Missing /\ Filled' = Filled
    BY <1>2, Static
  <2>2. Size' = Size
    BY <1>2, <2>1 DEF Size
  <2>3. SizesOK'
    BY <1>1, <1>2 DEF SizesOK, Blocks
  <2>4. InFile(asked)'
    BY <1>1, <1>2, <2>2 DEF InFile, RangeOK, NoBytes
  <2>5. Apart(asked)' = Apart(asked)
    BY <1>2 DEF Apart
  <2>6. (asked \in Seq(Request))' /\ (mime \in Nat)'
    BY <1>1, <1>2 DEF Request
  <2>7. FilledFirst' = FilledFirst
    BY <1>2, <2>1 DEF FilledFirst
  <2>8. QED
    BY <2>1, <2>3, <2>4, <2>5, <2>6, <2>7
<1>3. pc \in {"block", "broken"} => AskedOK /\ Sending
  BY DEF IInv, AskedOK
<1>4. ASSUME UNCHANGED <<sizes, mime, ranges, asked, plan, i, j, z, pos, m, out, sent>>, Sending
      PROVE  Sending'
  <2>1. /\ EndOf' = EndOf /\ Blocks' = Blocks /\ Parts' = Parts /\ Multipart' = Multipart
        /\ \A s : FirstBlock(s)' = FirstBlock(s) /\ LastBlock(s)' = LastBlock(s)
        /\ \A d : PlanTo(d)' = PlanTo(d) /\ Sent(d)' = Sent(d)
        /\ \A d, n : Begun(d, n)' = Begun(d, n)
        /\ PlanTo(Len(Parts))' = PlanTo(Len(Parts)) /\ LengthOf' = LengthOf
    BY <1>4, Static
  <2>2. \A d, left : Noted(d, left)' = Noted(d, left)
    BY <1>4, <2>1 DEF Noted
  <2>3. ASSUME NEW d, Whole(d)
        PROVE  Whole(d)'
    <3>1. /\ Noted(d, 0)' /\ out' = Sent(d)'
      BY <1>4, <2>1, <2>2, <2>3 DEF Whole
    <3>2. /\ Len(PlanTo(d)[i])' = Len(PlanTo(d)[i]) /\ EndOf[i - 1]' = EndOf[i - 1]
          /\ End(Parts[d])' = End(Parts[d])
      BY <1>4, <2>1 DEF End
    <3>3. QED
      BY <1>4, <2>1, <2>3, <3>1, <3>2 DEF Whole
  <2>4. ASSUME NEW d, NEW left, Cut(d, left)
        PROVE  Cut(d, left)'
    <3>1. Noted(d, left)' /\ out' = Begun(d, Parts[d].length - left)'
      BY <1>4, <2>1, <2>2, <2>4 DEF Cut
    <3>2. /\ Len(plan[i])' = Len(plan[i]) /\ EndOf[i - 1]' = EndOf[i - 1] /\ EndOf[i]' = EndOf[i]
          /\ End(Parts[d])' = End(Parts[d])
      BY <1>4, <2>1 DEF End
    <3>3. QED
      BY <1>4, <2>1, <2>4, <3>1, <3>2 DEF Cut
  <2>5. AnyCut' \/ \E d \in 0 .. Len(Parts') : Whole(d)'
    BY <1>4, <2>1, <2>3, <2>4 DEF Sending, AnyCut
  <2>6. QED
    BY <1>4, <2>1, <2>5 DEF Sending
<1>5. CASE Parse
  BY <1>5, ParseStep
<1>6. CASE Piece
  <2>1. pc = "block" /\ UNCHANGED <<sizes, mime, asked>>
    BY <1>6 DEF Piece
  <2>2. pc' = "block" /\ Sending'
    BY <1>3, <1>6, <2>1, PieceStep
  <2>3. Apart(asked) /\ FilledFirst
    BY <2>1 DEF IInv
  <2>4. QED
    BY <1>2, <2>1, <2>2, <2>3 DEF IInv
<1>7. CASE Block
  <2>1. pc = "block" /\ pc' = "block" /\ UNCHANGED <<sizes, mime, asked>>
    BY <1>7 DEF Block
  <2>2. Sending'
    BY <1>3, <1>7, <2>1, BlockStep
  <2>3. Apart(asked) /\ FilledFirst
    BY <2>1 DEF IInv
  <2>4. QED
    BY <1>2, <2>1, <2>2, <2>3 DEF IInv
<1>8. CASE Broken
  <2>1. pc = "block" /\ pc' = "broken"
        /\ UNCHANGED <<sizes, mime, ranges, asked, plan, i, j, z, pos, m, out, sent>>
    BY <1>8 DEF Broken
  <2>2. Sending'
    BY <1>3, <1>4, <2>1
  <2>3. Apart(asked) /\ FilledFirst
    BY <2>1 DEF IInv
  <2>4. QED
    BY <1>2, <2>1, <2>2, <2>3 DEF IInv
<1>9. CASE Footer
  <2>1. pc = "block" /\ pc' = "done" /\ UNCHANGED <<sizes, mime, asked>>
    BY <1>9 DEF Footer
  <2>2. Finished'
    BY <1>3, <1>9, <2>1, FooterStep
  <2>3. QED
    BY <1>2, <2>1, <2>2 DEF IInv
<1>10. CASE Ended \/ UNCHANGED vars
  <2>1. UNCHANGED <<sizes, mime, ranges, asked, plan, pc, i, j, z, pos, m, out, sent>>
    BY <1>10 DEF Ended, vars
  <2>2. Sending => Sending'
    BY <1>4, <2>1
  <2>3. Finished => Finished'
    BY <1>2, <2>1 DEF Finished, Starts
  <2>4. QED
    BY <1>2, <2>1, <2>2, <2>3 DEF IInv
<1>11. QED
  BY <1>5, <1>6, <1>7, <1>8, <1>9, <1>10 DEF Next

THEOREM Answered == Spec => []IInv
  BY InitIInv, NextIInv, PTL DEF Spec

-----------------------------------------------------------------------------
(* What it says. *)

LEMMA StartsIsPrefix ==
    ASSUME NEW s \in Seq(Items), NEW t \in Seq(Items), Starts(s, t)
    PROVE  IsPrefix(s, t)
<1>1. /\ Len(s) \in Nat /\ Len(t) \in Nat /\ Len(s) <= Len(t)
      /\ \A x \in 1 .. Len(s) : t[x] = s[x]
  BY DEF Starts
<1>2. \A x \in 1 .. Len(s) : s[x] \in Items /\ t[x] \in Items
  BY <1>1
<1> DEFINE u == SubSeq(s, 1, Len(s))
           v == SubSeq(t, 1, Len(s))
<1>3. /\ u \in Seq(Items) /\ Len(u) = Len(s)
      /\ \A x \in 1 .. Len(s) : u[x] = s[x]
  BY <1>1, <1>2, SubSeqProperties
<1>4. /\ v \in Seq(Items) /\ Len(v) = Len(s)
      /\ \A x \in 1 .. Len(s) : v[x] = t[x]
  BY <1>1, <1>2, SubSeqProperties
<1> HIDE DEF u, v
<1>5. \A x \in 1 .. Len(u) : u[x] = v[x]
  BY <1>1, <1>3, <1>4
<1>6. u = v
  BY <1>3, <1>4, <1>5, SeqEqual
<1>7. QED
  BY <1>1, <1>6 DEF IsPrefix, u, v

\* While it is sent, the answer is a beginning of the right one.
LEMMA SentStarts ==
    ASSUME AskedOK, Sending
    PROVE  out \in Seq(Items) /\ Starts(out, Expected)
<1>0. RangesOK(Parts) /\ Len(Parts) \in Nat /\ Len(Parts) \in 0 .. Len(Parts)
  BY PartsOK DEF RangesOK
<1>1. /\ Sent(Len(Parts)) \in Seq(Items) /\ Expected \in Seq(Items)
      /\ Starts(Sent(Len(Parts)), Expected) /\ InFile(Parts)
  BY <1>0, ExpectedParts DEF RangesOK, InFile
<1>2. \A c \in 0 .. Len(Parts) : Sent(c) \in Seq(Items) /\ Starts(Sent(c), Expected)
  <2>1. ASSUME NEW c \in 0 .. Len(Parts)
        PROVE  Sent(c) \in Seq(Items) /\ Starts(Sent(c), Expected)
    <3>1. Sent(c) \in Seq(Items) /\ Starts(Sent(c), Sent(Len(Parts)))
      <4>1. c <= Len(Parts)
        BY <1>0
      <4>2. Answer(Parts)[c] \in Seq(Items)
        BY <1>0, AnswerAdds
      <4>3. Starts(Answer(Parts)[c], Answer(Parts)[Len(Parts)])
        BY <1>0, <1>1, <4>1, AnswerGrows
      <4>4. QED
        BY <4>2, <4>3 DEF Sent
    <3>2. QED
      BY <1>1, <3>1, StartsOn
  <2>2. QED
    BY <2>1
<1>3. CASE \E c \in 0 .. Len(Parts) : Whole(c)
  BY <1>2, <1>3 DEF Whole
<1>4. CASE AnyCut
  <2>1. PICK c \in 1 .. Len(Parts) : \E left \in 1 .. Parts[c].length - 1 : Cut(c, left)
    BY <1>4 DEF AnyCut
  <2>2. PICK left \in 1 .. Parts[c].length - 1 : Cut(c, left)
    BY <2>1
  <2> DEFINE k == Parts[c].length
             s == Parts[c].start
  <2>3. out = Begun(c, k - left)
    BY <2>2 DEF Cut
  <2>4. /\ s \in Nat /\ k \in Nat
        /\ \A n \in Nat : Begun(c, n) \in Seq(Items)
        /\ Begun(c, k) = Sent(c)
        /\ \A n, l \in Nat : Begun(c, n) \o Bytes(s + n, l) = Begun(c, n + l)
    BY Begins
  <2>5. left \in 1 .. k - 1
    OBVIOUS
  <2> HIDE DEF k, s
  <2>6. k - left \in Nat /\ left \in Nat /\ (k - left) + left = k /\ s + (k - left) \in Nat
    BY <2>4, <2>5
  <2>7. Begun(c, k - left) \o Bytes(s + (k - left), left) = Sent(c)
    BY <2>4, <2>6
  <2>8. out \in Seq(Items) /\ Bytes(s + (k - left), left) \in Seq(Items)
    BY <2>3, <2>4, <2>6, BytesJoin
  <2>9. Starts(out, Sent(c))
    BY <2>3, <2>7, <2>8, StartsConcat
  <2>10. c \in 0 .. Len(Parts)
    BY <1>0
  <2>11. QED
    BY <1>1, <1>2, <2>8, <2>9, <2>10, StartsOn
<1>5. QED
  BY <1>3, <1>4 DEF Sending

LEMMA InvRightSoFar == IInv => RightSoFar
<1> SUFFICES ASSUME IInv, pc # "parse" PROVE IsPrefix(out, Expected)
  BY DEF RightSoFar
<1>1. Expected \in Seq(Items)
  BY ExpectedTyped DEF IInv
<1>2. CASE pc = "refused"
  <2>1. out = <<>> /\ Len(out) = 0
    BY <1>2 DEF IInv
  <2>2. Starts(out, Expected) /\ out \in Seq(Items)
    BY <1>1, <2>1 DEF Starts
  <2>3. QED
    BY <1>1, <2>2, StartsIsPrefix
<1>3. CASE pc \in {"block", "broken"}
  <2>1. AskedOK /\ Sending
    BY <1>3 DEF IInv, AskedOK
  <2>2. QED
    BY <1>1, <2>1, SentStarts, StartsIsPrefix
<1>4. CASE pc = "done"
  BY <1>1, <1>4, StartsIsPrefix DEF IInv, Finished
<1>5. QED
  BY <1>2, <1>3, <1>4 DEF IInv

\* However the ranges of a request and the blocks of a file overlap, and wherever
\* the answer breaks off, every header and byte sent is the next of the right
\* answer, for any number and size of ranges and blocks.
THEOREM AnswersRight == Spec => []RightSoFar
  BY Answered, InvRightSoFar, PTL

\* The Content-Length of an answer, counted from its ranges, is what is then written
\* piece by piece, for any ranges, blocks and type; but of several ranges those of no
\* bytes get no header, and then there is no footer.
THEOREM LengthsKept == Spec => []LengthKept
<1>1. IInv => LengthKept
  BY DEF IInv, Finished, LengthKept
<1>2. QED
  BY <1>1, Answered, PTL

\* No range is cut into a piece that its block does not hold whole.
THEOREM AllPiecesFit == Spec => []PiecesFit
<1>1. IInv => PiecesFit
  BY DEF IInv, PiecesFit
<1>2. QED
  BY <1>1, Answered, PTL

=============================================================================
