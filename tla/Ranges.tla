-------------------------------- MODULE Ranges ---------------------------------
(***************************************************************************)
(* GET with a Range header (service/get.go, internal/multipart): which     *)
(* part of which block is sent for which range, and the loop that sends    *)
(* them.  Bytes are numbered, so the answer shows where each came from; of *)
(* the headers between them the lengths are kept.                          *)
(***************************************************************************)
EXTENDS Integers, Sequences, SequencesExt, FiniteSetsExt

CONSTANTS
    BlockSize,   \* Block.Size
    MaxBlocks,   \* blocks of a file
    MaxRanges,   \* ranges of a request
    MimeLength   \* lengths of the type of a file, 0 if it has none

ASSUME MimeAssumption == MimeLength \subseteq Nat

ASSUME BoundsAssumption == {BlockSize, MaxBlocks, MaxRanges} \subseteq Nat \ {0}

VARIABLES
    sizes,    \* sizes[i]: the length of block i of the file
    mime,     \* the length of its type
    ranges,   \* the ranges that have no header yet
    asked,    \* the ranges of the request, as ParseRange left them
    plan,     \* plan[i]: offset and length of the pieces of block i
    pc,
    i, j,     \* the next piece is plan[i][j]
    z, pos,   \* z: where the code thinks block i is read up to; pos: where it is
    m,        \* what is left of the range under its header
    out,      \* what was written after the HTTP header
    sent      \* how many bytes that was

vars == <<sizes, mime, ranges, asked, plan, pc, i, j, z, pos, m, out, sent>>

Blocks == 1 .. Len(sizes)

\* Where block k ends in the file.
EndOf[k \in 0 .. Len(sizes)] == IF k = 0 THEN 0 ELSE EndOf[k - 1] + sizes[k]

Size == EndOf[Len(sizes)]

\* What PUT stores: full blocks and a shorter one, which may be empty.
Files == {[k \in 1 .. n |-> IF k = n THEN t ELSE BlockSize] :
              n \in 1 .. MaxBlocks, t \in 0 .. BlockSize - 1}

\* What http_range.ParseRange may return for a file of this size: ranges that
\* end within the file, and ranges of no bytes, that start where it ends: the
\* last none ("bytes=-0"), or the last few of an empty file.
Requests ==
    SeqOf({r \in [start : 0 .. Size, length : 0 .. Size] :
              /\ r.start + r.length <= Size
              /\ r.length = 0 => r.start = Size},
          MaxRanges)

-----------------------------------------------------------------------------
(* internal/multipart *)

\* slices.SortFunc leaves open in which order equals come.
Sorted(q) ==
    {s \in {[n \in DOMAIN q |-> q[f[n]]] : f \in Bijection(DOMAIN q, DOMAIN q)} :
        \A n \in 1 .. Len(q) - 1 : s[n].start <= s[n + 1].start}

Overlap(q) ==
    \E n \in 1 .. Len(q) - 1 : q[n].start + q[n].length > q[n + 1].start

BlocksInFull == [k \in Blocks |->
    IF sizes[k] = 0 THEN <<>> ELSE <<[offset |-> 0, length |-> sizes[k]]>>]

\* The first block that ends after the start of r, and the first from there that
\* ends with r or after it.
FirstBlock(r) == Min({k \in Blocks : r.start < EndOf[k]})
LastBlock(r) ==
    Min({k \in Blocks : k >= FirstBlock(r) /\ r.start + r.length <= EndOf[k]})

OffsetIn(r, k) == IF k = FirstBlock(r) THEN r.start - EndOf[k] + sizes[k] ELSE 0

Least(a, b) == IF a < b THEN a ELSE b

\* Slip: the range is not cut where its last block begins.
LengthInUncut(r, k) ==
    IF k = LastBlock(r) THEN r.length ELSE sizes[k] - OffsetIn(r, k)

LengthIn(r, k) ==
    IF k = LastBlock(r)
    THEN Least(r.length, r.length - EndOf[k] + sizes[k] + r.start)
    ELSE sizes[k] - OffsetIn(r, k)

\* A range that starts where the file ends has no offset, hence no piece: the
\* length noted for it comes after all others of the last block.
BlocksOfRange(r) == [k \in Blocks |->
    IF r.start < Size /\ k \in FirstBlock(r) .. LastBlock(r)
    THEN <<[offset |-> OffsetIn(r, k), length |-> LengthIn(r, k)]>>
    ELSE <<>>]

\* What Digits counts for one number: dividing by ten until nothing is left.  It
\* has no sign: Go divides towards 0.
Digits(n) ==
    LET D[k \in Nat] == IF k = 0 THEN 0 ELSE 1 + D[k \div 10]
    IN  IF n = 0 THEN 1 ELSE D[IF n < 0 THEN 0 - n ELSE n]

\* How long %d prints a natural number.
Ten[w \in Nat] == IF w = 0 THEN 1 ELSE 10 * Ten[w - 1]
Width(n) == CHOOSE w \in 1 .. n + 1 : n < Ten[w] /\ (w = 1 \/ Ten[w - 1] <= n)

\* %020d of a uint64.
BoundaryLength == 20

\* WriteHeader, line by line: an empty one; "--" and the boundary; "Content-Type:"
\* and the type, if there is one; "Content-Range:", "bytes" and first-last/size; an
\* empty one.
HeaderLength(r) ==
    1 + (2 + BoundaryLength + 1)
      + (IF mime > 0 THEN 13 + 1 + mime + 1 ELSE 0)
      + (14 + 1 + 5 + 1 + Width(r.start) + 1 + Width(r.start + r.length - 1) + 1
            + Width(Size) + 1)
      + 1

\* WriteFooter: an empty line; "--", the boundary and "--".
FooterLength == 1 + (2 + BoundaryLength + 2 + 1)

-----------------------------------------------------------------------------
(* Block.Get *)

Init ==
    /\ sizes \in Files
    /\ mime \in MimeLength
    /\ asked \in Requests
    /\ ranges = <<>> /\ plan = <<>> /\ out = <<>> /\ sent = 0
    /\ pc = "parse"
    /\ i = 1 /\ j = 1 /\ z = 0 /\ pos = 0 /\ m = 0

Multipart == Len(asked) > 1

NoPieces == [k \in Blocks |-> <<>>]

\* The pieces of r come after those there are.
WithRange(v, r) == [k \in Blocks |-> v[k] \o BlocksOfRange(r)[k]]

\* PlanOf(q)[n]: the pieces of the first n ranges of q.
PlanOf(q) ==
    LET P[n \in 0 .. Len(q)] == IF n = 0 THEN NoPieces ELSE WithRange(P[n - 1], q[n])
    IN P

Planned == IF asked = <<>> THEN BlocksInFull ELSE PlanOf(asked)[Len(asked)]

\* Slip: the end of the range is the byte after its last.
RangeDigitsPast(r) == Digits(r.start) + Digits(r.start + r.length) + Digits(Size)

RangeDigits(r) == Digits(r.start) + Digits(r.start + r.length - 1) + Digits(Size)

\* Of the footer and the first n ranges, each with its header.
LengthOf[n \in 0 .. Len(asked)] ==
    IF n = 0 THEN 26
    ELSE LengthOf[n - 1] + 49 + asked[n].length
                         + (IF mime > 0 THEN 15 + mime ELSE 0) + RangeDigits(asked[n])

ContentLength ==
    CASE asked = <<>> -> Size
      [] Len(asked) = 1 -> asked[1].length
      [] OTHER -> LengthOf[Len(asked)]

\* Sort, refuse overlaps, plan all ranges.
Parse ==
    /\ pc = "parse"
    /\ UNCHANGED <<sizes, mime, i, j, z, pos, m, out, sent>>
    /\ asked' \in Sorted(asked)
    /\ IF Overlap(asked')
       THEN pc' = "refused" /\ UNCHANGED <<ranges, plan>>
       ELSE pc' = "block" /\ ranges' = asked' /\ plan' = Planned'

\* Slip: what was copied is not counted as read.
ReadUpToShort(n) == plan[i][j].offset

\* After n bytes of the piece at hand the block is read up to here.
ReadUpTo(n) == plan[i][j].offset + n

\* Where CopyRange starts in block i: Seek is relative, and a seek of 0 or less
\* is none; ...
From == LET o == plan[i][j].offset - z IN IF o > 0 THEN pos + o ELSE pos

\* ... and how much it copies: CopyN stops where the object ends.
Copied == Least(plan[i][j].length, sizes[i] - From)

Bytes(a, n) == [k \in 1 .. n |-> a + k]

HeaderDue == Multipart /\ ranges # <<>> /\ m = 0

NextHeader == IF HeaderDue THEN <<Head(ranges)>> ELSE <<>>

\* One turn of the inner loop; less than was to be copied is an error.
Piece ==
    /\ pc = "block"
    /\ i \in Blocks
    /\ j \in DOMAIN plan[i]
    /\ out' = out \o NextHeader \o Bytes(EndOf[i - 1] + From, Copied)
    /\ sent' = sent + (IF NextHeader = <<>> THEN 0 ELSE HeaderLength(Head(ranges))) + Copied
    /\ ranges' = IF HeaderDue THEN Tail(ranges) ELSE ranges
    /\ m' = (IF HeaderDue THEN Head(ranges).length ELSE m) - Copied
    /\ z' = ReadUpTo(Copied)
    /\ pos' = From + Copied
    /\ j' = j + 1
    /\ pc' = IF Copied < plan[i][j].length THEN "short" ELSE "block"
    /\ UNCHANGED <<sizes, mime, asked, plan, i>>

\* The next block, with a reader of its own.
Block ==
    /\ pc = "block"
    /\ i \in Blocks
    /\ j \notin DOMAIN plan[i]
    /\ i' = i + 1
    /\ j' = 1 /\ z' = 0 /\ pos' = 0
    /\ UNCHANGED <<sizes, mime, ranges, asked, plan, pc, m, out, sent>>

\* An object cannot be read: the answer ends here.
Broken ==
    /\ pc = "block"
    /\ i \in Blocks
    /\ j \in DOMAIN plan[i]
    /\ pc' = "broken"
    /\ UNCHANGED <<sizes, mime, ranges, asked, plan, i, j, z, pos, m, out, sent>>

FooterDue == Multipart /\ ranges = <<>> /\ m = 0

Footer ==
    /\ pc = "block"
    /\ i \notin Blocks
    /\ out' = IF FooterDue THEN Append(out, "footer") ELSE out
    /\ sent' = IF FooterDue THEN sent + FooterLength ELSE sent
    /\ pc' = "done"
    /\ UNCHANGED <<sizes, mime, ranges, asked, plan, i, j, z, pos, m>>

Ended == pc \in {"refused", "short", "broken", "done"} /\ UNCHANGED vars

Next == Parse \/ Piece \/ Block \/ Broken \/ Footer \/ Ended

Spec == Init /\ [][Next]_vars

-----------------------------------------------------------------------------
(* Properties *)

BytesOf(r) == Bytes(r.start, r.length)

\* Under a header of its own, if there are several.
Part(r) == (IF Multipart THEN <<r>> ELSE <<>>) \o BytesOf(r)

\* Answer(q)[n]: the first n ranges of q.
Answer(q) ==
    LET A[n \in 0 .. Len(q)] == IF n = 0 THEN <<>> ELSE A[n - 1] \o Part(q[n])
    IN A

\* The answer, said without blocks: the file, or the range, or the ranges in
\* order, each under its header, and the footer.
Expected ==
    IF asked = <<>> THEN Bytes(0, Size)
    ELSE Answer(asked)[Len(asked)] \o (IF Multipart THEN <<"footer">> ELSE <<>>)

\* However ranges and blocks overlap, and wherever the answer breaks off, what
\* was sent is how the right answer begins (get.go:80-138, multipart.go:49-88).
RightSoFar == pc # "parse" => IsPrefix(out, Expected)

\* How many ranges have a byte; sorted, those without come last.
Filled == CHOOSE n \in 0 .. Len(asked) :
    \A k \in 1 .. Len(asked) : asked[k].length > 0 <=> k <= n

\* What is announced and never sent: in an answer of several parts a range of no
\* bytes has no piece, hence no header, and stays in the way of the footer.
Missing ==
    IF Multipart /\ Filled < Len(asked)
    THEN LengthOf[Len(asked)] - LengthOf[Filled] + FooterLength
    ELSE 0

\* The Content-Length, counted before from the ranges (get.go:39-71), is that of
\* the answer, written from the pieces (get.go:80-138, multipart.go:90-120), up to
\* the last byte of every header.  Several ranges of which some have no bytes are
\* the exception: the client waits for their headers and the footer, no more and no
\* less.
LengthKept == pc = "done" => sent + Missing = ContentLength

\* No piece reaches past the end of its block, where CopyRange would give up
\* (multipart.go:62-88, io.go:42-50).
PiecesFit == pc # "short"

=============================================================================
