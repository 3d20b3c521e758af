---------------------------- MODULE SmartPatch_proofs ----------------------------
(***************************************************************************)
(* The layout of the patches, and what generatePatch and the inference do  *)
(* with it, for every frame, model input and scale.                        *)
(*                                                                         *)
(* Along one axis: what the grid guarantees whenever there are two patches *)
(* or more.  In both: every patch is cut from inside the frame, always in  *)
(* the serial build, and in that with ENABLE_THREADPROCESS if the overlaps *)
(* share out evenly; and the patches fit into the buffers that are         *)
(* allocated for them.  At the end the image: where the outputs are put,   *)
(* and that what is put together there is the frame.                       *)
(***************************************************************************)
EXTENDS SmartPatch, FiniteSetTheorems, TLAPS

--------------------------------------------------------------------------------
(* The grid along one axis.                                                  *)

\* Euclid's division, which is all that is needed of \div and %.
LEMMA Division ==
    ASSUME NEW a \in Nat, NEW b \in Nat \ {0}
    PROVE  /\ a \div b \in Nat /\ a % b \in Nat
           /\ a = b * (a \div b) + (a % b)
           /\ a % b < b
  OBVIOUS

\* The block count is the least that covers the axis.
LEMMA BlocksFacts ==
    ASSUME NEW size \in Nat \ {0}, NEW crop \in Nat \ {0}
    PROVE  /\ Blocks(size, crop) \in Nat \ {0}
           /\ Spare(size, crop) \in Nat
           /\ Spare(size, crop) <= crop - 1
           /\ Blocks(size, crop) > 1 <=> size > crop
<1> DEFINE a == size + crop - 1
           b == a \div crop
           r == a % crop
<1>1. a \in Nat
  OBVIOUS
<1>2. b \in Nat /\ r \in Nat /\ a = crop * b + r /\ r < crop
  BY <1>1, Division
<1>3. Blocks(size, crop) = b /\ Spare(size, crop) = crop * b - size
  BY DEF Blocks, Spare
<1>4. crop * b \in Nat
  BY <1>2
<1> HIDE DEF b, r
<1>5. crop * b - size \in Nat /\ crop * b - size <= crop - 1
  BY <1>2, <1>4
<1>6. b # 0
  <2> SUFFICES ASSUME b = 0 PROVE FALSE
    OBVIOUS
  <2>1. crop * b = 0
    OBVIOUS
  <2> QED  BY <1>5, <2>1
<1>7. b > 1 => size > crop
  <2> SUFFICES ASSUME b > 1 PROVE size > crop
    OBVIOUS
  <2>1. crop * b >= crop * 2
    BY <1>2
  <2> QED  BY <1>4, <1>5, <2>1
<1>8. size > crop => b > 1
  <2> SUFFICES ASSUME b = 1 PROVE ~(size > crop)
    BY <1>2, <1>6
  <2>1. crop * b = crop
    OBVIOUS
  <2> QED  BY <1>5, <2>1
<1> QED  BY <1>2, <1>3, <1>5, <1>6, <1>7, <1>8
\* A block count that covers the axis, the last block being needed, is the one.
LEMMA BlocksUnique ==
    ASSUME NEW size \in Nat \ {0}, NEW crop \in Nat \ {0}, NEW b \in Nat \ {0},
           crop * (b - 1) < size, size <= crop * b
    PROVE  Blocks(size, crop) = b
<1> DEFINE a == size + crop - 1
           q == a \div crop
           r == a % crop
<1>1. a \in Nat
  OBVIOUS
<1>2. q \in Nat /\ r \in Nat /\ a = crop * q + r /\ r < crop
  BY <1>1, Division
<1>3. Blocks(size, crop) = q
  BY DEF Blocks
<1> HIDE DEF q, r
<1>4. crop * (b - 1) = crop * b - crop /\ crop * b \in Nat /\ crop * q \in Nat
  BY <1>2
<1>5. ~(q < b)
  <2> SUFFICES ASSUME q < b PROVE FALSE
    OBVIOUS
  <2>1. crop * q <= crop * (b - 1)
    BY <1>2
  <2> QED  BY <1>2, <1>4, <2>1
<1>6. ~(b < q)
  <2> SUFFICES ASSUME b < q PROVE FALSE
    OBVIOUS
  <2>1. crop * (b + 1) <= crop * q
    BY <1>2
  <2>2. crop * (b + 1) = crop * b + crop
    OBVIOUS
  <2> QED  BY <1>2, <1>4, <2>1, <2>2
<1> QED  BY <1>2, <1>3, <1>5, <1>6

\* The frame and the image have the same number of blocks.
LEMMA BlocksScale ==
    ASSUME NEW size \in Nat \ {0}, NEW crop \in Nat \ {0}, NEW s \in Nat \ {0}
    PROVE  /\ s * size \in Nat \ {0} /\ s * crop \in Nat \ {0}
           /\ Blocks(s * size, s * crop) = Blocks(size, crop)
<1> DEFINE b == Blocks(size, crop)
<1>1. b \in Nat \ {0} /\ crop * b - size \in Nat /\ crop * b - size <= crop - 1
  BY BlocksFacts DEF Spare
<1> HIDE DEF b
<1>2. crop * (b - 1) < size /\ size <= crop * b
  BY <1>1
<1>3. s * size \in Nat \ {0} /\ s * crop \in Nat \ {0}
  OBVIOUS
<1>4. (s * crop) * (b - 1) = s * (crop * (b - 1)) /\ (s * crop) * b = s * (crop * b)
  BY <1>1
<1>5. crop * (b - 1) \in Nat /\ crop * b \in Nat
  BY <1>1
<1>6. s * (crop * (b - 1)) < s * size /\ s * size <= s * (crop * b)
  BY <1>2, <1>5
<1>7. Blocks(s * size, s * crop) = b
  BY <1>1, <1>3, <1>4, <1>6, BlocksUnique
<1> QED  BY <1>3, <1>7 DEF b

\* The names the proofs use: b blocks, o the overlap, l what the last one moves.
LEMMA Shares ==
    ASSUME NEW size \in Nat \ {0}, NEW crop \in Nat \ {0}, size > crop
    PROVE  /\ Blocks(size, crop) \in Nat /\ Blocks(size, crop) > 1
           /\ InterLength(size, crop) \in Nat /\ LastFill(size, crop) \in Nat
           /\ crop * Blocks(size, crop) - size
                = (Blocks(size, crop) - 1) * InterLength(size, crop) + LastFill(size, crop)
           /\ InterLength(size, crop) + LastFill(size, crop) <= crop - 1
           /\ LastFill(size, crop) < Blocks(size, crop) - 1
<1> DEFINE b == Blocks(size, crop)
           s == Spare(size, crop)
           o == InterLength(size, crop)
           l == LastFill(size, crop)
<1>1. b \in Nat /\ b > 1 /\ s \in Nat /\ s <= crop - 1
  BY BlocksFacts
<1>2. s = crop * b - size
  BY DEF Spare
<1>3. o = s \div (b - 1) /\ l = s % (b - 1)
  BY DEF InterLength, LastFill
<1> HIDE DEF b, s, o, l
<1>4. b - 1 \in Nat \ {0}
  BY <1>1
<1>5. o \in Nat /\ l \in Nat /\ s = (b - 1) * o + l /\ l < b - 1
  BY <1>1, <1>3, <1>4, Division
<1>6. (b - 1) * o >= o
  BY <1>4, <1>5
<1>7. o + l <= crop - 1
  BY <1>1, <1>4, <1>5, <1>6
<1> QED  BY <1>1, <1>2, <1>5, <1>7 DEF b, s, o, l

\* The first patch starts at the edge of the frame and the last one ends at the
\* opposite edge.
THEOREM GridSpansFrame ==
    ASSUME NEW size \in Nat \ {0}, NEW crop \in Nat \ {0}, size > crop
    PROVE  /\ Start(size, crop, 0) = 0
           /\ Start(size, crop, Blocks(size, crop) - 1) + crop = size
<1> DEFINE b == Blocks(size, crop)
           o == InterLength(size, crop)
           l == LastFill(size, crop)
<1>1. /\ b \in Nat /\ b > 1 /\ o \in Nat /\ l \in Nat
      /\ crop * b - size = (b - 1) * o + l
  BY Shares
<1>2. Start(size, crop, 0) = (crop - o) * 0 - (IF 0 = b - 1 THEN l ELSE 0)
  BY DEF Start
<1>3. Start(size, crop, b - 1) = (crop - o) * (b - 1) - l
  BY DEF Start
<1> HIDE DEF b, o, l
<1>4. Start(size, crop, 0) = 0
  BY <1>1, <1>2
<1>5. (crop - o) * (b - 1) = crop * b - crop - (b - 1) * o
  BY <1>1
<1>6. Start(size, crop, b - 1) + crop = size
  BY <1>1, <1>3, <1>5
<1> QED  BY <1>4, <1>6 DEF b

\* The patches are longer than the frame, by less than a patch each: together they
\* are shorter than two frames.
LEMMA GridWithinTwice ==
    ASSUME NEW size \in Nat \ {0}, NEW crop \in Nat \ {0}, size > crop
    PROVE  crop * Blocks(size, crop) \in Nat /\ crop * Blocks(size, crop) <= 2 * size
<1>1. /\ Blocks(size, crop) \in Nat
      /\ crop * Blocks(size, crop) - size \in Nat
      /\ crop * Blocks(size, crop) - size <= crop - 1
  BY BlocksFacts DEF Spare
<1> DEFINE b == Blocks(size, crop)
<1> HIDE DEF b
<1>2. crop * b \in Nat
  BY <1>1 DEF b
<1> QED  BY <1>1, <1>2 DEF b

\* No patch leaves the frame: fill_patch never refuses the corners that
\* calculatePatchCoordinateList computes.
THEOREM GridInsideFrame ==
    ASSUME NEW size \in Nat \ {0}, NEW crop \in Nat \ {0}, size > crop,
           NEW i \in 0 .. Blocks(size, crop) - 1
    PROVE  /\ Start(size, crop, i) >= 0
           /\ Start(size, crop, i) + crop <= size
<1> DEFINE b == Blocks(size, crop)
           o == InterLength(size, crop)
           l == LastFill(size, crop)
<1>1. /\ b \in Nat /\ b > 1 /\ o \in Nat /\ l \in Nat
      /\ crop * b - size = (b - 1) * o + l
      /\ o + l <= crop - 1
      /\ i \in 0 .. b - 1
  BY Shares
<1>2. Start(size, crop, i) = (crop - o) * i - (IF i = b - 1 THEN l ELSE 0)
  BY DEF Start
<1>3. CASE i = b - 1
  <2>1. Start(size, crop, i) + crop = size
    BY <1>3, GridSpansFrame
  <2> HIDE DEF b, o, l
  <2>2. Start(size, crop, i) \in Int
    BY <1>1, <1>2
  <2> QED  BY <2>1, <2>2
<1>4. CASE i < b - 1
  <2> HIDE DEF b, o, l
  <2>1. i \in Nat /\ crop - o \in Nat /\ Start(size, crop, i) = (crop - o) * i
    BY <1>1, <1>2, <1>4
  <2>2. (crop - o) * i >= 0
    BY <2>1
  <2>3. (crop - o) * i <= (crop - o) * (b - 2)
    BY <1>1, <1>4, <2>1
  <2>4. (crop - o) * (b - 2) = crop * b - crop - crop - (b - 1) * o + o
    BY <1>1
  <2>5. (crop - o) * (b - 2) + crop <= size
    BY <1>1, <2>4
  <2> QED  BY <1>1, <2>1, <2>2, <2>3, <2>5
<1> QED  BY <1>1, <1>3, <1>4 DEF b

\* Every pixel lies in some patch: fill_image divides no pixel by zero.
THEOREM GridCoversFrame ==
    ASSUME NEW size \in Nat \ {0}, NEW crop \in Nat \ {0}, size > crop,
           NEW y \in 0 .. size - 1
    PROVE  \E i \in 0 .. Blocks(size, crop) - 1 :
               /\ Start(size, crop, i) <= y
               /\ y < Start(size, crop, i) + crop
<1> DEFINE b == Blocks(size, crop)
           o == InterLength(size, crop)
           l == LastFill(size, crop)
           last == Start(size, crop, b - 1)
           i == y \div (crop - o)
<1>1. /\ b \in Nat /\ b > 1 /\ o \in Nat /\ l \in Nat /\ o + l <= crop - 1
  BY Shares
<1>2. last + crop = size
  BY GridSpansFrame
<1>3. last = (crop - o) * (b - 1) - l
  BY DEF Start
<1>4. Start(size, crop, i) = (crop - o) * i - (IF i = b - 1 THEN l ELSE 0)
  BY DEF Start
<1>5. CASE last <= y
  <2>1. b - 1 \in 0 .. b - 1 /\ y < last + crop
    BY <1>1, <1>2
  <2> QED  BY <1>5, <2>1
<1>6. CASE ~(last <= y)
  <2>1. crop - o \in Nat \ {0}
    BY <1>1
  <2>2. /\ i \in Nat /\ y % (crop - o) \in Nat /\ y % (crop - o) < crop - o
        /\ y = (crop - o) * i + (y % (crop - o))
    BY <2>1, Division
  <2> HIDE DEF i, b, o, l, last
  <2>3. (crop - o) * i <= y /\ y < (crop - o) * i + crop
    BY <1>1, <2>1, <2>2
  <2>4. i < b - 1
    <3> SUFFICES ASSUME i >= b - 1 PROVE FALSE
      BY <1>1, <2>2
    <3>1. (crop - o) * i >= (crop - o) * (b - 1)
      BY <1>1, <2>1, <2>2
    <3>2. (crop - o) * (b - 1) \in Nat /\ (crop - o) * i \in Nat
      BY <1>1, <2>1, <2>2
    <3>3. last <= (crop - o) * (b - 1)
      BY <1>1, <1>3, <3>2
    <3>4. last \in Int
      BY <1>1, <1>3, <3>2
    <3> QED  BY <1>6, <2>3, <3>1, <3>2, <3>3, <3>4
  <2>5. i \in 0 .. b - 1 /\ Start(size, crop, i) = (crop - o) * i
    BY <1>1, <1>4, <2>1, <2>2, <2>4
  <2> QED  BY <2>3, <2>5 DEF b
<1> QED  BY <1>5, <1>6

\* If the overlap can be shared out evenly, the grid of the image is the
\* enlarged grid of the frame, and the build with threads lays the same grid:
\* each output is put where its input came from.
THEOREM EvenGridScales ==
    ASSUME NEW size \in Nat \ {0}, NEW crop \in Nat \ {0}, size > crop,
           NEW s \in Nat \ {0}, LastFill(size, crop) = 0, NEW i \in Nat
    PROVE  /\ Start(s * size, s * crop, i) = s * Start(size, crop, i)
           /\ ThreadStart(size, crop, i) = Start(size, crop, i)
           /\ ThreadStart(s * size, s * crop, i) = s * Start(size, crop, i)
<1> DEFINE b == Blocks(size, crop)
           o == InterLength(size, crop)
           S == Spare(s * size, s * crop)
<1>1. b \in Nat /\ b > 1 /\ o \in Nat /\ crop * b - size = (b - 1) * o
  BY Shares
<1>0. Blocks(s * size, s * crop) = b
  BY BlocksScale
<1>2. S = (s * crop) * b - s * size
  BY <1>0 DEF Spare
<1>3. /\ InterLength(s * size, s * crop) = S \div (b - 1)
      /\ LastFill(s * size, s * crop) = S % (b - 1)
  BY <1>0 DEF InterLength, LastFill
<1>4. /\ Start(size, crop, i) = (crop - o) * i - (IF i = b - 1 THEN 0 ELSE 0)
      /\ ThreadStart(size, crop, i) = (crop - o) * i
  BY DEF Start, ThreadStart
<1>5. Start(s * size, s * crop, i)
        = (s * crop - InterLength(s * size, s * crop)) * i
            - (IF i = b - 1 THEN LastFill(s * size, s * crop) ELSE 0)
  BY <1>0 DEF Start
<1>9. ThreadStart(s * size, s * crop, i) = (s * crop - InterLength(s * size, s * crop)) * i
  BY DEF ThreadStart
<1> HIDE DEF b, o, S
<1>6. S = (b - 1) * (s * o)
  <2>1. (s * crop) * b = s * (crop * b)
    BY <1>1
  <2>2. S = s * (crop * b - size)
    BY <1>1, <1>2, <2>1
  <2> QED  BY <1>1, <2>2
<1>7. S \div (b - 1) = s * o /\ S % (b - 1) = 0
  <2> DEFINE d == b - 1
             m == s * o
  <2>1. d \in Nat \ {0} /\ m \in Nat /\ S = d * m
    BY <1>1, <1>6
  <2> HIDE DEF d, m
  <2>2. S \div d = m /\ S % d = 0
    BY <2>1
  <2> QED  BY <2>2 DEF d, m
<1>8. (s * crop - s * o) * i = s * ((crop - o) * i)
  BY <1>1
<1> QED  BY <1>1, <1>3, <1>4, <1>5, <1>7, <1>8, <1>9

--------------------------------------------------------------------------------
(* The patches.                                                              *)

\* The threads of multithread_p_5w ignore the rest: there must be none.
EvenOverlaps(f) ==
    /\ Blocks(f.h, f.patchHeight) > 1 => LastFill(f.h, f.patchHeight) = 0
    /\ Blocks(f.w, f.patchWidth) > 1 => LastFill(f.w, f.patchWidth) = 0
ThreadsOnlyEven == \A f \in Frames : f.threads => EvenOverlaps(f)

\* How far generatePatch is, and what it has done by then.
GenerateInv ==
    /\ frame \in Frames
    /\ DOMAIN patchIn = Patches
    /\ phase = "generate" /\ BlockRows > 1 /\ BlockCols > 1 =>
         /\ idx \in Patches
         /\ \A p \in Patches : p < idx => patchIn[p] # NotFilled
    /\ phase \in {"infer", "restore", "done"} =>
         /\ BlockRows > 1 /\ BlockCols > 1
         /\ \A p \in Patches : patchIn[p] # NotFilled

\* The frame and its grid.
LEMMA FrameFacts ==
    ASSUME frame \in Frames
    PROVE  /\ frame.h \in Nat \ {0} /\ frame.w \in Nat \ {0}
           /\ PatchHeight \in Nat \ {0} /\ PatchWidth \in Nat \ {0}
           /\ BlockRows \in Nat \ {0} /\ BlockCols \in Nat \ {0}
           /\ BlockRows > 1 <=> frame.h > PatchHeight
           /\ BlockCols > 1 <=> frame.w > PatchWidth
<1>1. /\ frame.h \in Nat \ {0} /\ frame.w \in Nat \ {0}
      /\ PatchHeight \in Nat \ {0} /\ PatchWidth \in Nat \ {0}
  BY FramesAssumption DEF PatchHeight, PatchWidth
<1> QED  BY <1>1, BlocksFacts DEF BlockRows, BlockCols

\* The number of patches.
LEMMA PatchCount ==
    ASSUME frame \in Frames
    PROVE  /\ BlockRows * BlockCols \in Nat \ {0}
           /\ Cardinality(Patches) = BlockRows * BlockCols
<1>1. BlockRows \in Nat \ {0} /\ BlockCols \in Nat \ {0}
  BY FrameFacts
<1> DEFINE n == BlockRows * BlockCols
<1>2. n \in Nat \ {0}
  BY <1>1
<1>3. Patches = 0 .. n - 1
  BY DEF Patches
<1> HIDE DEF n
<1>4. Cardinality(0 .. n - 1) = n
  BY <1>2, FS_Interval
<1> QED  BY <1>2, <1>3, <1>4 DEF n

\* A patch number is a block row and a block column.
LEMMA PatchPosition ==
    ASSUME frame \in Frames, NEW p \in Patches
    PROVE  /\ p \div BlockCols \in 0 .. BlockRows - 1
           /\ p % BlockCols \in 0 .. BlockCols - 1
<1> DEFINE r == BlockRows
           c == BlockCols
           i == p \div c
           j == p % c
<1>1. r \in Nat \ {0} /\ c \in Nat \ {0}
  BY FrameFacts
<1>2. p \in 0 .. r * c - 1
  BY DEF Patches
<1>3. p \in Nat /\ p < r * c /\ r * c \in Nat
  <2>1. r * c \in Nat
    BY <1>1
  <2> QED  BY <1>2, <2>1
<1>4. i \in Nat /\ j \in Nat /\ p = c * i + j /\ j < c
  BY <1>1, <1>3, Division
<1> HIDE DEF r, c, i, j
<1>5. i < r
  <2> SUFFICES ASSUME i >= r PROVE FALSE
    BY <1>1, <1>4
  <2>1. c * i >= c * r /\ c * r = r * c /\ c * i \in Nat
    BY <1>1, <1>4
  <2> QED  BY <1>3, <1>4, <2>1
<1>6. i \in 0 .. r - 1 /\ j \in 0 .. c - 1
  BY <1>1, <1>4, <1>5
<1> QED  BY <1>6 DEF r, c, i, j

\* fill_patch never refuses a patch, and multithread_p_5w need not if there is no rest.
LEMMA CornersLegal ==
    ASSUME frame \in Frames, ThreadProcess => EvenOverlaps(frame),
           BlockRows > 1, BlockCols > 1, NEW p \in Patches
    PROVE  Inside(p, 1)
<1>1. /\ frame.h \in Nat \ {0} /\ frame.w \in Nat \ {0}
      /\ PatchHeight \in Nat \ {0} /\ PatchWidth \in Nat \ {0}
      /\ frame.h > PatchHeight /\ frame.w > PatchWidth
  BY FrameFacts
<1>2. /\ 1 * frame.h = frame.h /\ 1 * frame.w = frame.w
      /\ 1 * PatchHeight = PatchHeight /\ 1 * PatchWidth = PatchWidth
  BY <1>1
<1>3. /\ p \div BlockCols \in 0 .. Blocks(frame.h, PatchHeight) - 1
      /\ p % BlockCols \in 0 .. Blocks(frame.w, PatchWidth) - 1
  BY PatchPosition DEF BlockRows, BlockCols
<1>4. /\ Start(frame.h, PatchHeight, p \div BlockCols) >= 0
      /\ Start(frame.h, PatchHeight, p \div BlockCols) + PatchHeight <= frame.h
  BY <1>1, <1>3, GridInsideFrame
<1>5. /\ Start(frame.w, PatchWidth, p % BlockCols) >= 0
      /\ Start(frame.w, PatchWidth, p % BlockCols) + PatchWidth <= frame.w
  BY <1>1, <1>3, GridInsideFrame
<1>6. /\ Top(p, 1) = Start(frame.h, PatchHeight, p \div BlockCols)
      /\ Left(p, 1) = Start(frame.w, PatchWidth, p % BlockCols)
  <2>1. CASE ~ThreadProcess
    BY <1>2, <2>1 DEF Top, Left, StartOf
  <2>2. CASE ThreadProcess
    <3>1. LastFill(frame.h, PatchHeight) = 0 /\ LastFill(frame.w, PatchWidth) = 0
      BY <2>2 DEF EvenOverlaps, BlockRows, BlockCols, PatchHeight, PatchWidth
    <3>2. p \div BlockCols \in Nat /\ p % BlockCols \in Nat
      BY <1>3
    <3>3. /\ ThreadStart(frame.h, PatchHeight, p \div BlockCols)
                = Start(frame.h, PatchHeight, p \div BlockCols)
          /\ ThreadStart(frame.w, PatchWidth, p % BlockCols)
                = Start(frame.w, PatchWidth, p % BlockCols)
      BY <1>1, <3>1, <3>2, EvenGridScales
    <3> QED  BY <1>2, <2>2, <3>3 DEF Top, Left, StartOf
  <2> QED  BY <2>1, <2>2
<1> QED  BY <1>2, <1>4, <1>5, <1>6 DEF Inside

LEMMA GenerateStep ==
    ASSUME GenerateInv, [Next]_vars
    PROVE  GenerateInv'
<1>1. CASE FillPatch
  <2> DEFINE piece == [cell \in Cells(1) |-> Offset(idx, 1, cell)]
  <2>1. /\ phase = "generate" /\ BlockRows > 1 /\ BlockCols > 1
        /\ idx' = idx + 1
        /\ phase' = IF idx + 1 = Cardinality(Patches) THEN "infer" ELSE "generate"
        /\ frame' = frame
    BY <1>1 DEF FillPatch
  <2>2. frame \in Frames /\ idx \in Patches /\ DOMAIN patchIn = Patches
    BY <2>1 DEF GenerateInv
  <2>3. patchIn' = [patchIn EXCEPT ![idx] = piece]
    <3>1. ThreadProcess \/ Inside(idx, 1)
      BY <2>1, <2>2, CornersLegal
    <3> QED  BY <1>1, <3>1 DEF FillPatch
  <2>4. piece # NotFilled
    <3>1. <<0, 0>> \in Cells(1)
      BY <2>2, FrameFacts DEF Cells
    <3>2. DOMAIN piece # {}
      BY <3>1
    <3> HIDE DEF piece
    <3>3. DOMAIN NotFilled = {}
      BY DEF NotFilled
    <3> QED  BY <3>2, <3>3
  <2> HIDE DEF piece
  <2>5. /\ Patches' = Patches
        /\ BlockRows' = BlockRows /\ BlockCols' = BlockCols
    BY <2>1 DEF Patches, BlockRows, BlockCols, PatchHeight, PatchWidth
  <2>6. DOMAIN patchIn' = Patches
    BY <2>2, <2>3
  <2>7. \A p \in Patches : patchIn'[p] = IF p = idx THEN piece ELSE patchIn[p]
    BY <2>2, <2>3
  <2>8. \A p \in Patches : p < idx + 1 => patchIn'[p] # NotFilled
    <3> SUFFICES ASSUME NEW p \in Patches, p < idx + 1, p # idx
                 PROVE  patchIn[p] # NotFilled
      BY <2>4, <2>7
    <3>1. p \in Int /\ idx \in Int
      BY <2>2 DEF Patches
    <3>2. p < idx
      BY <3>1
    <3> QED  BY <2>1, <3>2 DEF GenerateInv
  <2> DEFINE n == BlockRows * BlockCols
  <2>9. n \in Nat \ {0} /\ Cardinality(Patches) = n /\ Patches = 0 .. n - 1
    BY <2>2, PatchCount DEF Patches
  <2> HIDE DEF n
  <2>10. CASE idx + 1 = n
    <3>1. \A p \in Patches : p < idx + 1
      BY <2>9, <2>10
    <3>2. phase' = "infer"
      BY <2>1, <2>9, <2>10
    <3> QED  BY <2>1, <2>2, <2>5, <2>6, <2>8, <3>1, <3>2 DEF GenerateInv
  <2>11. CASE idx + 1 # n
    <3>1. idx' \in Patches
      BY <2>1, <2>2, <2>9, <2>11
    <3>2. phase' = "generate"
      BY <2>1, <2>9, <2>11
    <3> QED  BY <2>1, <2>2, <2>5, <2>6, <2>8, <3>1, <3>2 DEF GenerateInv
  <2> QED  BY <2>10, <2>11
<1>2. ASSUME phase' \in {"infer", "restore", "done", "crashed", "malformed"},
             phase' \in {"infer", "restore", "done"} => phase \in {"infer", "restore"},
             UNCHANGED <<frame, patchIn>>
      PROVE  GenerateInv'
  BY <1>2 DEF GenerateInv, Patches, BlockRows, BlockCols, PatchHeight, PatchWidth
<1>3. CASE MalformedShape
  BY <1>2, <1>3 DEF MalformedShape
<1>4. CASE DivisionByZero
  BY <1>2, <1>4 DEF DivisionByZero
<1>5. CASE AddPatch
  BY <1>2, <1>5 DEF AddPatch
<1>6. ASSUME NEW p \in Patches, Infer(p)
      PROVE  GenerateInv'
  BY <1>2, <1>6 DEF Infer
<1>7. ASSUME NEW p \in Patches, CopyRow(p)
      PROVE  GenerateInv'
  BY <1>2, <1>7 DEF CopyRow
<1>8. CASE UNCHANGED vars
  BY <1>8 DEF vars, GenerateInv, Patches, BlockRows, BlockCols, PatchHeight, PatchWidth
<1> QED  BY <1>1, <1>3, <1>4, <1>5, <1>6, <1>7, <1>8 DEF Next, Ended

LEMMA GenerateInit == Init => GenerateInv
<1> SUFFICES ASSUME Init PROVE GenerateInv
  OBVIOUS
<1>1. frame \in Frames /\ phase = "generate" /\ idx = 0 /\ DOMAIN patchIn = Patches
  BY DEF Init
<1>2. BlockRows * BlockCols \in Nat \ {0}
  BY <1>1, PatchCount
<1>3. 0 \in Patches /\ \A p \in Patches : ~(p < 0)
  BY <1>2 DEF Patches
<1> QED  BY <1>1, <1>3 DEF GenerateInv

\* generatePatch leaves every patch filled, and filled with pixels of the frame only:
\* fill_patch never refuses the corners it is given, and multithread_p_5w, which does
\* not look at them, is right as long as the overlaps leave no rest.
THEOREM EveryPatchInside ==
    ASSUME ThreadsOnlyEven
    PROVE  Spec => []PatchesInsideFrame
<1>1. Init => GenerateInv
  BY GenerateInit
<1>2. GenerateInv /\ [Next]_vars => GenerateInv'
  BY GenerateStep
<1>3. GenerateInv => PatchesInsideFrame
  BY CornersLegal DEF GenerateInv, PatchesInsideFrame, ThreadsOnlyEven, ThreadProcess
<1> QED  BY <1>1, <1>2, <1>3, PTL DEF Spec

--------------------------------------------------------------------------------

\* What the four factors of a buffer come to: two frames each way, and s * s.
LEMMA Areas ==
    ASSUME NEW h \in Nat, NEW w \in Nat, NEW ph \in Nat, NEW pw \in Nat,
           NEW r \in Nat, NEW c \in Nat, NEW s \in Nat, NEW n \in Nat,
           ph * r <= 2 * h, pw * c <= 2 * w, n <= r * c
    PROVE  n * ((s * ph) * (s * pw)) <= 4 * ((s * h) * (s * w))
<1>1. ph * r \in Nat /\ pw * c \in Nat /\ r * c \in Nat /\ h * w \in Nat
  OBVIOUS
<1>2. (ph * r) * (pw * c) <= (2 * h) * (2 * w)
  <2> DEFINE x == ph * r
             y == pw * c
  <2>1. x \in Nat /\ y \in Nat /\ x <= 2 * h /\ y <= 2 * w
    BY <1>1
  <2> HIDE DEF x, y
  <2>2. x * y <= (2 * h) * y
    BY <2>1
  <2>3. (2 * h) * y <= (2 * h) * (2 * w)
    BY <2>1
  <2> QED  BY <2>1, <2>2, <2>3 DEF x, y
<1>3. (r * c) * (ph * pw) = (ph * r) * (pw * c) /\ (2 * h) * (2 * w) = 4 * (h * w)
  OBVIOUS
<1>4. n * (ph * pw) <= (r * c) * (ph * pw)
  <2> DEFINE a == ph * pw
             b == r * c
  <2>1. a \in Nat /\ b \in Nat /\ n <= b
    BY <1>1
  <2> HIDE DEF a, b
  <2>2. n * a <= b * a
    BY <2>1
  <2> QED  BY <2>2 DEF a, b
<1>5. n * (ph * pw) <= 4 * (h * w)
  <2> DEFINE a == n * (ph * pw)
             b == (r * c) * (ph * pw)
             d == 4 * (h * w)
  <2>1. a \in Int /\ b \in Int /\ d \in Int /\ a <= b /\ b <= d
    BY <1>2, <1>3, <1>4
  <2> HIDE DEF a, b, d
  <2>2. a <= d
    BY <2>1
  <2> QED  BY <2>2 DEF a, d
<1>6. /\ n * ((s * ph) * (s * pw)) = (s * s) * (n * (ph * pw))
      /\ 4 * ((s * h) * (s * w)) = (s * s) * (4 * (h * w))
  OBVIOUS
<1>7. (s * s) * (n * (ph * pw)) <= (s * s) * (4 * (h * w))
  <2> DEFINE a == n * (ph * pw)
             d == 4 * (h * w)
             e == s * s
  <2>1. a \in Nat /\ d \in Nat /\ e \in Nat /\ a <= d
    BY <1>5
  <2> HIDE DEF a, d, e
  <2>2. e * a <= e * d
    BY <2>1
  <2> QED  BY <2>2 DEF a, d, e
<1> QED  BY <1>6, <1>7

\* A frame that is split into several rows and columns needs less than four times
\* its size for its patches, and four times is what the constructor allocates
\* because it takes the bytes of the frame for its floats.
LEMMA BuffersSuffice ==
    ASSUME frame \in Frames, BlockRows > 1, BlockCols > 1,
           NEW p \in Patches, NEW s \in {1, Scale}
    PROVE  (p + 1) * PatchSize(s) <= BufferSize(s)
<1>1. /\ frame.h \in Nat \ {0} /\ frame.w \in Nat \ {0}
      /\ PatchHeight \in Nat \ {0} /\ PatchWidth \in Nat \ {0}
      /\ BlockRows \in Nat /\ BlockCols \in Nat
      /\ frame.h > PatchHeight /\ frame.w > PatchWidth
  BY FrameFacts
<1>2. PatchHeight * BlockRows <= 2 * frame.h /\ PatchWidth * BlockCols <= 2 * frame.w
  BY <1>1, GridWithinTwice DEF BlockRows, BlockCols
<1>3. s \in Nat
  BY FramesAssumption DEF Scale
<1>4. p + 1 \in Nat /\ p + 1 <= BlockRows * BlockCols
  <2> DEFINE n == BlockRows * BlockCols
  <2>1. n \in Nat /\ p \in 0 .. n - 1
    BY PatchCount DEF Patches
  <2> HIDE DEF n
  <2>2. p + 1 \in Nat /\ p + 1 <= n
    BY <2>1
  <2> QED  BY <2>2 DEF n
<1>5. (p + 1) * ((s * PatchHeight) * (s * PatchWidth)) <= 4 * ((s * frame.h) * (s * frame.w))
  BY <1>1, <1>2, <1>3, <1>4, Areas
<1> QED  BY <1>5 DEF PatchSize, BufferSize

\* No patch is written past the end of the buffers, neither by generatePatch nor by
\* the inference, whatever the frame, the model input and the scale.
THEOREM PatchBuffersSuffice == Spec => []PatchesFitTheirBuffers
<1>1. Init => GenerateInv
  BY GenerateInit
<1>2. GenerateInv /\ [Next]_vars => GenerateInv'
  BY GenerateStep
<1>3. GenerateInv => PatchesFitTheirBuffers
  BY BuffersSuffice DEF GenerateInv, PatchesFitTheirBuffers
<1> QED  BY <1>1, <1>2, <1>3, PTL DEF Spec

--------------------------------------------------------------------------------
(* The image put together.                                                   *)

\* Each output is put where its input was taken from: the overlaps share out evenly,
\* or the image has the size of the frame and is put together by fill_image, from the
\* same corners.  And fill_image, which adds to what the buffer holds, needs it cleared.
SameCorners(f) == EvenOverlaps(f) \/ (f.scale = 1 /\ ~f.threads)
ImagesFit == \A f \in Frames : SameCorners(f) /\ (f.threads \/ f.zeroed)

\* A quotient and a rest are those of the division.
LEMMA DivisionUnique ==
    ASSUME NEW b \in Nat \ {0}, NEW q \in Nat, NEW r \in Nat, r < b
    PROVE  (b * q + r) \div b = q /\ (b * q + r) % b = r
<1> DEFINE a == b * q + r
           x == a \div b
           y == a % b
<1>1. a \in Nat /\ b * q \in Nat
  OBVIOUS
<1>2. x \in Nat /\ y \in Nat /\ a = b * x + y /\ y < b
  BY <1>1, Division
<1> HIDE DEF x, y
<1>3. b * x + y = b * q + r /\ b * x \in Nat
  BY <1>2
<1>4. ~(x < q)
  <2> SUFFICES ASSUME x <= q - 1 PROVE FALSE
    BY <1>2
  <2>1. b * x <= b * (q - 1) /\ b * (q - 1) = b * q - b
    BY <1>2
  <2> QED  BY <1>1, <1>2, <1>3, <2>1
<1>5. ~(q < x)
  <2> SUFFICES ASSUME q <= x - 1 PROVE FALSE
    BY <1>2
  <2>1. b * q <= b * (x - 1) /\ b * (x - 1) = b * x - b
    BY <1>2
  <2> QED  BY <1>1, <1>2, <1>3, <2>1
<1>6. x = q /\ y = r
  <2>1. x = q
    BY <1>2, <1>4, <1>5
  <2> QED  BY <1>1, <1>2, <1>3, <2>1
<1> QED  BY <1>6 DEF x, y, a

\* A row of the image and a column in it are a pixel, and the pixel tells them.
LEMMA PixelOf ==
    ASSUME NEW s \in Nat \ {0}, NEW h \in Nat \ {0}, NEW w \in Nat \ {0},
           NEW row \in 0 .. s * h - 1, NEW col \in 0 .. s * w - 1
    PROVE  /\ row * s * w + col \in 0 .. s * h * s * w - 1
           /\ (row * s * w + col) \div (s * w) = row
           /\ (row * s * w + col) % (s * w) = col
<1> DEFINE m == s * w
           n == s * h
<1>1. m \in Nat \ {0} /\ n \in Nat \ {0} /\ row \in 0 .. n - 1 /\ col \in 0 .. m - 1
  OBVIOUS
<1>2. row * s * w = m * row /\ s * h * s * w = m * n
  OBVIOUS
<1> HIDE DEF m, n
<1>3. row \in Nat /\ col \in Nat /\ col < m /\ row <= n - 1
  BY <1>1
<1>4. m * row + col \in 0 .. m * n - 1
  <2>1. m * row <= m * (n - 1) /\ m * (n - 1) = m * n - m
    BY <1>1, <1>3
  <2>2. m * row \in Nat /\ m * n \in Nat
    BY <1>1, <1>3
  <2> QED  BY <1>1, <1>3, <2>1, <2>2
<1>5. (m * row + col) \div m = row /\ (m * row + col) % m = col
  BY <1>1, <1>3, DivisionUnique
<1> QED  BY <1>2, <1>4, <1>5 DEF m

\* Every pixel of the image is of that form.
LEMMA RowAndColumn ==
    ASSUME NEW s \in Nat \ {0}, NEW h \in Nat \ {0}, NEW w \in Nat \ {0},
           NEW o \in 0 .. s * h * s * w - 1
    PROVE  /\ o \div (s * w) \in 0 .. s * h - 1 /\ o % (s * w) \in 0 .. s * w - 1
           /\ o = (o \div (s * w)) * s * w + (o % (s * w))
<1> DEFINE m == s * w
           n == s * h
           row == o \div m
           col == o % m
<1>1. m \in Nat \ {0} /\ n \in Nat \ {0}
  OBVIOUS
<1>2. s * h * s * w = m * n
  OBVIOUS
<1>3. m * n \in Nat /\ o \in Nat /\ o < m * n
  BY <1>1, <1>2
<1>4. row \in Nat /\ col \in Nat /\ o = m * row + col /\ col < m
  BY <1>1, <1>3, Division
<1> HIDE DEF row, col
<1>5. row * s * w = m * row
  BY <1>4
<1> HIDE DEF m, n
<1>6. row < n
  <2> SUFFICES ASSUME row >= n PROVE FALSE
    BY <1>1, <1>4
  <2>1. m * row >= m * n /\ m * row \in Nat
    BY <1>1, <1>4
  <2> QED  BY <1>3, <1>4, <2>1
<1>7. row \in 0 .. n - 1 /\ col \in 0 .. m - 1
  BY <1>1, <1>4, <1>6
<1>8. o = row * s * w + col
  BY <1>4, <1>5
<1> QED  BY <1>7, <1>8 DEF m, n, row, col

\* A row of the image enlarges the row of the frame it is taken from.
LEMMA Shrunk ==
    ASSUME NEW s \in Nat \ {0}, NEW size \in Nat \ {0}, NEW crop \in Nat \ {0},
           NEW start \in Nat, start + crop <= size, NEW c \in 0 .. s * crop - 1
    PROVE  /\ s * start + c \in 0 .. s * size - 1
           /\ c \div s \in 0 .. crop - 1
           /\ (s * start + c) \div s = start + (c \div s)
<1> DEFINE q == c \div s
           r == c % s
<1>1. c \in Nat /\ s * crop \in Nat /\ c < s * crop
  OBVIOUS
<1>2. q \in Nat /\ r \in Nat /\ c = s * q + r /\ r < s
  BY <1>1, Division
<1> HIDE DEF q, r
<1>3. q < crop
  <2> SUFFICES ASSUME q >= crop PROVE FALSE
    BY <1>2
  <2>1. s * q >= s * crop /\ s * q \in Nat
    BY <1>2
  <2> QED  BY <1>1, <1>2, <2>1
<1>4. s * start + c = s * (start + q) + r
  BY <1>2
<1>5. (s * (start + q) + r) \div s = start + q
  <2>1. start + q \in Nat
    BY <1>2
  <2> QED  BY <1>2, <2>1, DivisionUnique
<1>6. s * start + c \in 0 .. s * size - 1
  <2>1. s * (start + crop) <= s * size /\ s * (start + crop) = s * start + s * crop
    OBVIOUS
  <2>2. s * start \in Nat /\ s * size \in Nat
    OBVIOUS
  <2> QED  BY <1>1, <2>1, <2>2
<1> QED  BY <1>2, <1>3, <1>4, <1>5, <1>6 DEF q

\* Every row of the image belongs to a block that has been enlarged.
LEMMA EnlargedCover ==
    ASSUME NEW s \in Nat \ {0}, NEW size \in Nat \ {0}, NEW crop \in Nat \ {0}, size > crop,
           NEW row \in 0 .. s * size - 1
    PROVE  \E i \in 0 .. Blocks(size, crop) - 1 :
               LET t == Start(size, crop, i)
               IN  t \in Nat /\ row - s * t \in 0 .. s * crop - 1
<1> DEFINE y == row \div s
           r == row % s
<1>1. row \in Nat /\ row < s * size /\ s * size \in Nat
  <2>1. s * size \in Nat
    OBVIOUS
  <2> QED  BY <2>1
<1>2. y \in Nat /\ r \in Nat /\ row = s * y + r /\ r < s
  BY <1>1, Division
<1> HIDE DEF y, r
<1>3. y \in 0 .. size - 1
  <2> SUFFICES ASSUME y >= size PROVE FALSE
    BY <1>2
  <2>1. s * y >= s * size /\ s * y \in Nat
    BY <1>2
  <2> QED  BY <1>1, <1>2, <2>1
<1>4. PICK i \in 0 .. Blocks(size, crop) - 1 :
          Start(size, crop, i) <= y /\ y < Start(size, crop, i) + crop
  BY <1>3, GridCoversFrame
<1> DEFINE t == Start(size, crop, i)
<1>5. t >= 0
  BY GridInsideFrame
<1>6. t \in Int
  <2>1. InterLength(size, crop) \in Nat /\ LastFill(size, crop) \in Nat /\ i \in Int
    BY Shares
  <2> QED  BY <2>1 DEF Start
<1> HIDE DEF t
<1>7. t <= y /\ y <= (t + crop) - 1 /\ t \in Nat
  BY <1>2, <1>4, <1>5, <1>6 DEF t
<1>8. s * t <= s * y /\ s * t \in Nat /\ s * y \in Nat
  BY <1>2, <1>7
<1>9. s * y <= s * ((t + crop) - 1) /\ s * ((t + crop) - 1) = s * t + s * crop - s
  BY <1>2, <1>7
<1>10. s * crop \in Nat
  OBVIOUS
<1>11. row - s * t \in 0 .. s * crop - 1
  BY <1>1, <1>2, <1>8, <1>9, <1>10
<1> QED  BY <1>7, <1>11 DEF t

\* The corners of a patch in the image are its corners in the frame, enlarged, and lie
\* within the frame.
LEMMA Corners ==
    ASSUME frame \in Frames, SameCorners(frame), BlockRows > 1, BlockCols > 1,
           NEW p \in Patches
    PROVE  /\ Top(p, 1) \in Nat /\ Left(p, 1) \in Nat
           /\ Top(p, 1) = Start(frame.h, PatchHeight, p \div BlockCols)
           /\ Left(p, 1) = Start(frame.w, PatchWidth, p % BlockCols)
           /\ Top(p, 1) + PatchHeight <= frame.h /\ Left(p, 1) + PatchWidth <= frame.w
           /\ Top(p, Scale) = Scale * Top(p, 1) /\ Left(p, Scale) = Scale * Left(p, 1)
<1>1. /\ frame.h \in Nat \ {0} /\ frame.w \in Nat \ {0}
      /\ PatchHeight \in Nat \ {0} /\ PatchWidth \in Nat \ {0}
      /\ frame.h > PatchHeight /\ frame.w > PatchWidth
      /\ Scale \in Nat \ {0}
  BY FrameFacts, FramesAssumption DEF Scale
<1> DEFINE i == p \div BlockCols
           j == p % BlockCols
<1>2. /\ i \in 0 .. Blocks(frame.h, PatchHeight) - 1 /\ j \in 0 .. Blocks(frame.w, PatchWidth) - 1
  BY PatchPosition DEF BlockRows, BlockCols
<1>3. i \in Nat /\ j \in Nat
  BY <1>2
<1>4. /\ Top(p, 1) = StartOf(frame.h, PatchHeight, i)
      /\ Left(p, 1) = StartOf(frame.w, PatchWidth, j)
  <2>1. /\ 1 * frame.h = frame.h /\ 1 * frame.w = frame.w
        /\ 1 * PatchHeight = PatchHeight /\ 1 * PatchWidth = PatchWidth
    BY <1>1
  <2> QED  BY <2>1 DEF Top, Left
<1>5. /\ Top(p, Scale) = StartOf(Scale * frame.h, Scale * PatchHeight, i)
      /\ Left(p, Scale) = StartOf(Scale * frame.w, Scale * PatchWidth, j)
  BY DEF Top, Left
<1> HIDE DEF i, j
<1>6. /\ Start(frame.h, PatchHeight, i) >= 0 /\ Start(frame.h, PatchHeight, i) + PatchHeight <= frame.h
      /\ Start(frame.w, PatchWidth, j) >= 0 /\ Start(frame.w, PatchWidth, j) + PatchWidth <= frame.w
  BY <1>1, <1>2, GridInsideFrame
<1>7. /\ InterLength(frame.h, PatchHeight) \in Nat /\ LastFill(frame.h, PatchHeight) \in Nat
      /\ InterLength(frame.w, PatchWidth) \in Nat /\ LastFill(frame.w, PatchWidth) \in Nat
  BY <1>1, Shares
<1>8. Start(frame.h, PatchHeight, i) \in Int /\ Start(frame.w, PatchWidth, j) \in Int
  BY <1>1, <1>3, <1>7 DEF Start
<1>9. Start(frame.h, PatchHeight, i) \in Nat /\ Start(frame.w, PatchWidth, j) \in Nat
  BY <1>6, <1>8
<1>10. CASE EvenOverlaps(frame)
  <2>1. LastFill(frame.h, PatchHeight) = 0 /\ LastFill(frame.w, PatchWidth) = 0
    BY <1>10 DEF EvenOverlaps, BlockRows, BlockCols, PatchHeight, PatchWidth
  <2>2. /\ Start(Scale * frame.h, Scale * PatchHeight, i) = Scale * Start(frame.h, PatchHeight, i)
        /\ ThreadStart(frame.h, PatchHeight, i) = Start(frame.h, PatchHeight, i)
        /\ ThreadStart(Scale * frame.h, Scale * PatchHeight, i)
             = Scale * Start(frame.h, PatchHeight, i)
    BY <1>1, <1>3, <2>1, EvenGridScales
  <2>3. /\ Start(Scale * frame.w, Scale * PatchWidth, j) = Scale * Start(frame.w, PatchWidth, j)
        /\ ThreadStart(frame.w, PatchWidth, j) = Start(frame.w, PatchWidth, j)
        /\ ThreadStart(Scale * frame.w, Scale * PatchWidth, j)
             = Scale * Start(frame.w, PatchWidth, j)
    BY <1>1, <1>3, <2>1, EvenGridScales
  <2>4. /\ StartOf(frame.h, PatchHeight, i) = Start(frame.h, PatchHeight, i)
        /\ StartOf(frame.w, PatchWidth, j) = Start(frame.w, PatchWidth, j)
        /\ StartOf(Scale * frame.h, Scale * PatchHeight, i) = Scale * Start(frame.h, PatchHeight, i)
        /\ StartOf(Scale * frame.w, Scale * PatchWidth, j) = Scale * Start(frame.w, PatchWidth, j)
    BY <2>2, <2>3 DEF StartOf
  <2> QED  BY <1>4, <1>5, <1>6, <1>9, <2>4 DEF i, j
<1>11. CASE Scale = 1 /\ ~ThreadProcess
  <2>1. /\ StartOf(frame.h, PatchHeight, i) = Start(frame.h, PatchHeight, i)
        /\ StartOf(frame.w, PatchWidth, j) = Start(frame.w, PatchWidth, j)
    BY <1>11 DEF StartOf
  <2>2. Top(p, Scale) = Top(p, 1) /\ Left(p, Scale) = Left(p, 1)
    BY <1>11
  <2>3. Scale * Top(p, 1) = Top(p, 1) /\ Scale * Left(p, 1) = Left(p, 1)
    BY <1>4, <1>9, <1>11, <2>1
  <2> QED  BY <1>4, <1>6, <1>9, <2>1, <2>2, <2>3 DEF i, j
<1> QED  BY <1>10, <1>11 DEF SameCorners, Scale, ThreadProcess

\* So each value that a patch puts into the image is put where it is to be seen.
LEMMA PlacedRight ==
    ASSUME frame \in Frames, SameCorners(frame), BlockRows > 1, BlockCols > 1,
           NEW p \in Patches, NEW cell \in Cells(Scale)
    PROVE  /\ <<cell[1] \div Scale, cell[2] \div Scale>> \in Cells(1)
           /\ Offset(p, Scale, cell) \in Pixels(Scale)
           /\ Source(Offset(p, Scale, cell))
                = Offset(p, 1, <<cell[1] \div Scale, cell[2] \div Scale>>)
<1>1. /\ frame.h \in Nat \ {0} /\ frame.w \in Nat \ {0}
      /\ PatchHeight \in Nat \ {0} /\ PatchWidth \in Nat \ {0} /\ Scale \in Nat \ {0}
  BY FrameFacts, FramesAssumption DEF Scale
<1>2. cell[1] \in 0 .. Scale * PatchHeight - 1 /\ cell[2] \in 0 .. Scale * PatchWidth - 1
  BY DEF Cells
<1> DEFINE t == Top(p, 1)
           l == Left(p, 1)
           a == cell[1] \div Scale
           b == cell[2] \div Scale
           row == Scale * t + cell[1]
           col == Scale * l + cell[2]
<1>3. /\ t \in Nat /\ l \in Nat /\ t + PatchHeight <= frame.h /\ l + PatchWidth <= frame.w
      /\ Top(p, Scale) = Scale * t /\ Left(p, Scale) = Scale * l
  BY Corners
<1> HIDE DEF t, l
<1>4. /\ row \in 0 .. Scale * frame.h - 1
      /\ a \in 0 .. PatchHeight - 1 /\ row \div Scale = t + a
  <2> DEFINE s == Scale
             h == frame.h
             ph == PatchHeight
             c == cell[1]
  <2>1. /\ s \in Nat \ {0} /\ h \in Nat \ {0} /\ ph \in Nat \ {0}
        /\ t + ph <= h /\ c \in 0 .. s * ph - 1
    BY <1>1, <1>2, <1>3
  <2> HIDE DEF s, h, ph, c
  <2>2. /\ s * t + c \in 0 .. s * h - 1 /\ c \div s \in 0 .. ph - 1
        /\ (s * t + c) \div s = t + (c \div s)
    BY <1>3, <2>1, Shrunk
  <2> QED  BY <2>2 DEF s, h, ph, c
<1>5. /\ col \in 0 .. Scale * frame.w - 1
      /\ b \in 0 .. PatchWidth - 1 /\ col \div Scale = l + b
  <2> DEFINE s == Scale
             w == frame.w
             pw == PatchWidth
             c == cell[2]
  <2>1. /\ s \in Nat \ {0} /\ w \in Nat \ {0} /\ pw \in Nat \ {0}
        /\ l + pw <= w /\ c \in 0 .. s * pw - 1
    BY <1>1, <1>2, <1>3
  <2> HIDE DEF s, w, pw, c
  <2>2. /\ s * l + c \in 0 .. s * w - 1 /\ c \div s \in 0 .. pw - 1
        /\ (s * l + c) \div s = l + (c \div s)
    BY <1>3, <2>1, Shrunk
  <2> QED  BY <2>2 DEF s, w, pw, c
<1>6. Offset(p, Scale, cell) = row * Scale * frame.w + col
  <2>1. Offset(p, Scale, cell) = (Scale * t + cell[1]) * Scale * frame.w + Scale * l + cell[2]
    BY <1>3 DEF Offset
  <2>2. /\ row * Scale * frame.w \in Int /\ Scale * l \in Int /\ cell[2] \in Int
    BY <1>1, <1>2, <1>3, <1>4
  <2> QED  BY <2>1, <2>2
<1>7. <<a, b>> \in Cells(1)
  <2>1. 1 * PatchHeight = PatchHeight /\ 1 * PatchWidth = PatchWidth
    BY <1>1
  <2> HIDE DEF a, b
  <2> QED  BY <1>4, <1>5, <2>1 DEF Cells
<1> HIDE DEF a, b, row, col
<1>8. /\ row * Scale * frame.w + col \in 0 .. Scale * frame.h * Scale * frame.w - 1
      /\ (row * Scale * frame.w + col) \div (Scale * frame.w) = row
      /\ (row * Scale * frame.w + col) % (Scale * frame.w) = col
  <2> DEFINE s == Scale
             h == frame.h
             w == frame.w
  <2>1. /\ s \in Nat \ {0} /\ h \in Nat \ {0} /\ w \in Nat \ {0}
        /\ row \in 0 .. s * h - 1 /\ col \in 0 .. s * w - 1
    BY <1>1, <1>4, <1>5
  <2> HIDE DEF s, h, w
  <2>2. /\ row * s * w + col \in 0 .. s * h * s * w - 1
        /\ (row * s * w + col) \div (s * w) = row
        /\ (row * s * w + col) % (s * w) = col
    BY <2>1, PixelOf
  <2> QED  BY <2>2 DEF s, h, w
<1>9. Offset(p, Scale, cell) \in Pixels(Scale)
  BY <1>6, <1>8 DEF Pixels
<1>10. Source(Offset(p, Scale, cell)) = (t + a) * frame.w + (l + b)
  BY <1>4, <1>5, <1>6, <1>8 DEF Source
<1>11. Offset(p, 1, <<a, b>>) = (t + a) * frame.w + (l + b)
  <2>1. Offset(p, 1, <<a, b>>) = (t + a) * 1 * frame.w + l + b
    BY DEF Offset, t, l
  <2>2. t + a \in Nat /\ a \in Nat /\ b \in Nat
    BY <1>3, <1>4, <1>5
  <2>3. (t + a) * 1 * frame.w = (t + a) * frame.w /\ (t + a) * frame.w \in Nat
    BY <1>1, <2>2
  <2> QED  BY <1>3, <2>1, <2>2, <2>3
<1> QED  BY <1>7, <1>9, <1>10, <1>11 DEF a, b

\* And every pixel of the image belongs to some patch.
LEMMA ImageCovered ==
    ASSUME frame \in Frames, SameCorners(frame), BlockRows > 1, BlockCols > 1,
           NEW o \in Pixels(Scale)
    PROVE  \E p \in Patches, cell \in Cells(Scale) : Offset(p, Scale, cell) = o
<1>1. /\ frame.h \in Nat \ {0} /\ frame.w \in Nat \ {0}
      /\ PatchHeight \in Nat \ {0} /\ PatchWidth \in Nat \ {0} /\ Scale \in Nat \ {0}
      /\ frame.h > PatchHeight /\ frame.w > PatchWidth
      /\ BlockRows \in Nat \ {0} /\ BlockCols \in Nat \ {0}
  BY FrameFacts, FramesAssumption DEF Scale
<1>2. PICK row \in 0 .. Scale * frame.h - 1, col \in 0 .. Scale * frame.w - 1 :
          o = row * Scale * frame.w + col
  <2> DEFINE s == Scale
             h == frame.h
             w == frame.w
  <2>1. /\ s \in Nat \ {0} /\ h \in Nat \ {0} /\ w \in Nat \ {0}
        /\ o \in 0 .. s * h * s * w - 1
    BY <1>1 DEF Pixels
  <2> HIDE DEF s, h, w
  <2>2. /\ o \div (s * w) \in 0 .. s * h - 1 /\ o % (s * w) \in 0 .. s * w - 1
        /\ o = (o \div (s * w)) * s * w + (o % (s * w))
    BY <2>1, RowAndColumn
  <2> QED  BY <2>2 DEF s, h, w
<1>3. PICK i \in 0 .. BlockRows - 1 :
          LET t == Start(frame.h, PatchHeight, i)
          IN  t \in Nat /\ row - Scale * t \in 0 .. Scale * PatchHeight - 1
  BY <1>1, EnlargedCover DEF BlockRows
<1>4. PICK j \in 0 .. BlockCols - 1 :
          LET l == Start(frame.w, PatchWidth, j)
          IN  l \in Nat /\ col - Scale * l \in 0 .. Scale * PatchWidth - 1
  BY <1>1, EnlargedCover DEF BlockCols
<1> DEFINE p == BlockCols * i + j
           t == Start(frame.h, PatchHeight, i)
           l == Start(frame.w, PatchWidth, j)
           cell == <<row - Scale * t, col - Scale * l>>
<1>5. p \div BlockCols = i /\ p % BlockCols = j
  <2>1. i \in Nat /\ j \in Nat /\ j < BlockCols
    BY <1>1
  <2> QED  BY Zenon, <1>1, <2>1, DivisionUnique
<1>6. p \in Patches
  <2> DEFINE m == BlockRows
             n == BlockCols
  <2>1. m \in Nat \ {0} /\ n \in Nat \ {0} /\ i \in 0 .. m - 1 /\ j \in 0 .. n - 1
    BY <1>1
  <2>2. Patches = 0 .. m * n - 1
    BY DEF Patches
  <2> HIDE DEF m, n
  <2>3. n * i <= n * (m - 1) /\ n * (m - 1) = m * n - n /\ n * i \in Nat /\ m * n \in Nat
    BY <2>1
  <2>4. n * i + j \in 0 .. m * n - 1
    BY <2>1, <2>3
  <2> QED  BY <2>2, <2>4 DEF n
<1> HIDE DEF p
<1>7. Top(p, Scale) = Scale * t /\ Left(p, Scale) = Scale * l
  BY <1>5, <1>6, Corners
<1>8. cell \in Cells(Scale)
  BY <1>3, <1>4 DEF Cells
<1>9. Offset(p, Scale, cell) = o
  <2>1. Offset(p, Scale, cell)
          = (Scale * t + (row - Scale * t)) * Scale * frame.w + Scale * l + (col - Scale * l)
    BY <1>7 DEF Offset
  <2>2. t \in Nat /\ l \in Nat /\ row \in Nat /\ col \in Nat
    BY <1>1, <1>3, <1>4
  <2> HIDE DEF t, l
  <2>3. /\ Scale * t + (row - Scale * t) = row
        /\ Scale * t \in Int /\ Scale * l \in Int /\ row * Scale * frame.w \in Int
    BY <1>1, <2>2
  <2> QED  BY <1>2, <2>1, <2>2, <2>3
<1> QED  BY <1>6, <1>8, <1>9

--------------------------------------------------------------------------------

\* The grids as functions of the frame: where the output of a patch is put, what the
\* patch holds, and what is to be seen in the image.
OutCells == Cells(Scale)
OutPixels == Pixels(Scale)
Place == [p \in Patches |-> [c \in OutCells |-> Offset(p, Scale, c)]]
Piece == [p \in Patches |-> [c \in Cells(1) |-> Offset(p, 1, c)]]
Sources == [o \in OutPixels |-> Source(o)]

\* A buffer that is filled is filled with its piece of the frame, and its output is
\* that piece enlarged.
BufferInv ==
    /\ \A p \in Patches : patchIn[p] \in {NotFilled, Piece[p]}
    /\ DOMAIN patchOut = Patches
    /\ \A p \in Patches : patchOut[p] # NotFilled =>
         \A c \in OutCells : patchOut[p][c] = Sources[Place[p][c]]
    /\ phase \in {"restore", "done"} => \A p \in Patches : patchOut[p] # NotFilled

\* How far the image is: fill_image has added the patches before idx, the threads have
\* copied rows[p] rows of patch p, and nobody has put a wrong value anywhere that stays.
ImageInv ==
    /\ DOMAIN image = OutPixels
    /\ ~ThreadProcess =>
         /\ phase \in {"generate", "infer"} => \A o \in OutPixels : image[o] = {}
         /\ phase = "restore" =>
              /\ idx \in Patches
              /\ \A o \in OutPixels : image[o] \subseteq {Sources[o]}
              /\ \A p \in Patches : p < idx =>
                   \A c \in OutCells : Sources[Place[p][c]] \in image[Place[p][c]]
    /\ ThreadProcess =>
         /\ rows \in [Patches -> Nat]
         /\ phase \in {"generate", "infer"} => \A p \in Patches : rows[p] = 0
         /\ phase = "restore" =>
              \A p \in Patches, c \in OutCells : c[1] < rows[p] =>
                  image[Place[p][c]] = {Sources[Place[p][c]]}
    /\ phase = "done" => \A o \in OutPixels : image[o] = {Sources[o]}

RestoreInv == GenerateInv /\ BufferInv /\ ImageInv

LEMMA PlaceFacts ==
    ASSUME frame \in Frames, SameCorners(frame), BlockRows > 1, BlockCols > 1
    PROVE  /\ \A p \in Patches, c \in OutCells :
                /\ Place[p][c] \in OutPixels /\ Place[p][c] = Offset(p, Scale, c)
                /\ <<c[1] \div Scale, c[2] \div Scale>> \in Cells(1)
                /\ Sources[Place[p][c]] = Piece[p][<<c[1] \div Scale, c[2] \div Scale>>]
           /\ \A o \in OutPixels : \E p \in Patches, c \in OutCells : Place[p][c] = o
<1>1. ASSUME NEW p \in Patches, NEW c \in OutCells
      PROVE  /\ Place[p][c] \in OutPixels /\ Place[p][c] = Offset(p, Scale, c)
             /\ <<c[1] \div Scale, c[2] \div Scale>> \in Cells(1)
             /\ Sources[Place[p][c]] = Piece[p][<<c[1] \div Scale, c[2] \div Scale>>]
  <2> DEFINE d == <<c[1] \div Scale, c[2] \div Scale>>
  <2>1. /\ d \in Cells(1) /\ Offset(p, Scale, c) \in Pixels(Scale)
        /\ Source(Offset(p, Scale, c)) = Offset(p, 1, d)
    BY PlacedRight DEF OutCells
  <2> HIDE DEF d
  <2>2. Place[p][c] = Offset(p, Scale, c)
    BY DEF Place
  <2>3. Sources[Offset(p, Scale, c)] = Source(Offset(p, Scale, c))
    BY <2>1 DEF Sources, OutPixels
  <2>4. Piece[p][d] = Offset(p, 1, d)
    BY <2>1 DEF Piece
  <2> QED  BY <2>1, <2>2, <2>3, <2>4 DEF OutPixels, d
<1>2. ASSUME NEW o \in OutPixels
      PROVE  \E p \in Patches, c \in OutCells : Place[p][c] = o
  <2>1. PICK p \in Patches, c \in Cells(Scale) : Offset(p, Scale, c) = o
    BY ImageCovered DEF OutPixels
  <2>2. c \in OutCells /\ Place[p][c] = o
    BY <2>1, <1>1 DEF OutCells
  <2> QED  BY <2>2
<1> QED  BY <1>1, <1>2

\* A step leaves the frame and so the grids alone.
LEMMA SameGrids ==
    ASSUME frame' = frame
    PROVE  /\ Patches' = Patches /\ OutCells' = OutCells /\ OutPixels' = OutPixels
           /\ Place' = Place /\ Piece' = Piece /\ Sources' = Sources
           /\ Scale' = Scale /\ ThreadProcess' = ThreadProcess
           /\ PatchHeight' = PatchHeight /\ PatchWidth' = PatchWidth
           /\ BlockRows' = BlockRows /\ BlockCols' = BlockCols
<1>1. /\ Scale' = Scale /\ ThreadProcess' = ThreadProcess
      /\ PatchHeight' = PatchHeight /\ PatchWidth' = PatchWidth
      /\ BlockRows' = BlockRows /\ BlockCols' = BlockCols
  BY DEF Scale, ThreadProcess, PatchHeight, PatchWidth, BlockRows, BlockCols
<1>2. Patches' = Patches
  BY <1>1 DEF Patches
<1>3. OutCells' = OutCells /\ OutPixels' = OutPixels
  BY <1>1 DEF OutCells, OutPixels, Cells, Pixels
<1>4. Place' = Place
  BY <1>1, <1>2, <1>3 DEF Place, Offset, Top, Left, StartOf
<1>5. Piece' = Piece
  BY <1>1, <1>2 DEF Piece, Cells, Offset, Top, Left, StartOf
<1>6. Sources' = Sources
  BY <1>1, <1>3 DEF Sources, Source
<1> QED  BY <1>1, <1>2, <1>3, <1>4, <1>5, <1>6

LEMMA RestoreInit ==
    ASSUME ImagesFit, Init
    PROVE  RestoreInv
<1>1. /\ frame \in Frames /\ phase = "generate"
      /\ rows = [p \in Patches |-> 0]
      /\ patchIn = [p \in Patches |-> NotFilled]
      /\ patchOut = [p \in Patches |-> NotFilled]
      /\ image = [o \in Pixels(Scale) |-> IF frame.zeroed THEN {} ELSE {Garbage}]
  BY DEF Init
<1>2. GenerateInv
  BY GenerateInit
<1>3. BufferInv
  BY <1>1 DEF BufferInv
<1>4. ~ThreadProcess => frame.zeroed
  BY <1>1 DEF ImagesFit, ThreadProcess
<1>5. ImageInv
  BY <1>1, <1>4 DEF ImageInv, OutPixels
<1> QED  BY <1>2, <1>3, <1>5 DEF RestoreInv

\* generatePatch fills in a piece of the frame, or refuses to.
LEMMA RestoreFill ==
    ASSUME RestoreInv, FillPatch
    PROVE  BufferInv' /\ ImageInv'
<1>1. /\ phase = "generate" /\ phase' \in {"generate", "infer"} /\ frame' = frame
      /\ patchOut' = patchOut /\ image' = image /\ rows' = rows
      /\ patchIn' = IF ThreadProcess \/ Inside(idx, 1)
                    THEN [patchIn EXCEPT ![idx] = [cell \in Cells(1) |-> Offset(idx, 1, cell)]]
                    ELSE patchIn
  BY DEF FillPatch
<1>2. /\ Patches' = Patches /\ OutCells' = OutCells /\ OutPixels' = OutPixels
      /\ Place' = Place /\ Piece' = Piece /\ Sources' = Sources /\ ThreadProcess' = ThreadProcess
  BY <1>1, SameGrids
<1>3. BufferInv /\ ImageInv /\ DOMAIN patchIn = Patches
  BY DEF RestoreInv, GenerateInv
<1>4. \A p \in Patches : patchIn'[p] \in {NotFilled, Piece[p]}
  <2> SUFFICES ASSUME NEW p \in Patches, patchIn'[p] # patchIn[p]
               PROVE  patchIn'[p] = Piece[p]
    BY <1>3 DEF BufferInv
  <2>1. p = idx /\ patchIn'[p] = [cell \in Cells(1) |-> Offset(idx, 1, cell)]
    BY <1>1, <1>3
  <2> QED  BY <2>1 DEF Piece
<1>5. BufferInv'
  BY <1>1, <1>2, <1>3, <1>4 DEF BufferInv, NotFilled
<1>6. ImageInv'
  BY <1>1, <1>2, <1>3 DEF ImageInv
<1> QED  BY <1>5, <1>6

\* The inference of a patch enlarges its piece.
LEMMA RestoreInfer ==
    ASSUME RestoreInv, ImagesFit, NEW p \in Patches, Infer(p)
    PROVE  BufferInv' /\ ImageInv'
<1> DEFINE out == [c \in OutCells |->
                      IF patchIn[p] = NotFilled THEN Garbage
                      ELSE patchIn[p][<<c[1] \div Scale, c[2] \div Scale>>]]
<1>1. /\ phase = "infer" /\ frame' = frame
      /\ patchOut' = [patchOut EXCEPT ![p] = out]
      /\ idx' = 0
      /\ phase' = IF \A q \in Patches \ {p} : patchOut[q] # NotFilled THEN "restore" ELSE "infer"
      /\ rows' = rows /\ patchIn' = patchIn /\ image' = image
  BY DEF Infer, OutCells
<1>2. /\ Patches' = Patches /\ OutCells' = OutCells /\ OutPixels' = OutPixels
      /\ Place' = Place /\ Piece' = Piece /\ Sources' = Sources /\ ThreadProcess' = ThreadProcess
  BY <1>1, SameGrids
<1>3. /\ BufferInv /\ ImageInv /\ frame \in Frames /\ SameCorners(frame)
      /\ BlockRows > 1 /\ BlockCols > 1 /\ patchIn[p] # NotFilled
  BY <1>1 DEF RestoreInv, GenerateInv, ImagesFit
<1>4. patchIn[p] = Piece[p]
  BY <1>3 DEF BufferInv
<1>5. \A c \in OutCells : out[c] = Sources[Place[p][c]]
  BY <1>3, <1>4, PlaceFacts
<1>6. out # NotFilled
  <2>1. <<0, 0>> \in OutCells
    <3>1. Scale \in Nat \ {0} /\ PatchHeight \in Nat \ {0} /\ PatchWidth \in Nat \ {0}
      BY <1>3, FrameFacts, FramesAssumption DEF Scale
    <3>2. Scale * PatchHeight \in Nat \ {0} /\ Scale * PatchWidth \in Nat \ {0}
      BY <3>1
    <3> QED  BY <3>2 DEF OutCells, Cells
  <2>2. DOMAIN out # {}
    BY <2>1
  <2> HIDE DEF out
  <2>3. DOMAIN NotFilled = {}
    BY DEF NotFilled
  <2> QED  BY <2>2, <2>3
<1> HIDE DEF out
<1>7. /\ DOMAIN patchOut' = Patches
      /\ patchOut'[p] = out /\ \A q \in Patches \ {p} : patchOut'[q] = patchOut[q]
  BY <1>1, <1>3 DEF BufferInv
<1>8. BufferInv'
  <2>1. \A q \in Patches : patchOut'[q] # NotFilled =>
           \A c \in OutCells : patchOut'[q][c] = Sources[Place[q][c]]
    BY <1>3, <1>5, <1>7 DEF BufferInv
  <2>2. phase' \in {"restore", "done"} => \A q \in Patches : patchOut'[q] # NotFilled
    BY <1>1, <1>6, <1>7
  <2>3. \A q \in Patches : patchIn'[q] \in {NotFilled, Piece[q]}
    BY <1>1, <1>3 DEF BufferInv
  <2> QED  BY <1>2, <1>7, <2>1, <2>2, <2>3 DEF BufferInv, NotFilled
<1>9. ImageInv'
  <2>1. 0 \in Patches /\ \A q \in Patches : ~(q < 0)
    <3>1. BlockRows * BlockCols \in Nat \ {0}
      BY <1>3, PatchCount
    <3> QED  BY <3>1 DEF Patches
  <2>2. ASSUME ~ThreadProcess
        PROVE  \A o \in OutPixels : image[o] = {}
    BY <1>1, <1>3, <2>2 DEF ImageInv
  <2>3. ASSUME ThreadProcess
        PROVE  /\ \A q \in Patches : rows[q] = 0 /\ rows \in [Patches -> Nat]
               /\ \A q \in Patches, c \in OutCells : ~(c[1] < rows[q])
    <3>1. \A q \in Patches : rows[q] = 0 /\ rows \in [Patches -> Nat]
      BY <1>1, <1>3, <2>3 DEF ImageInv
    <3>2. \A c \in OutCells : ~(c[1] < 0)
      <4>1. Scale * PatchHeight \in Int
        BY <1>3, FrameFacts, FramesAssumption DEF Scale
      <4> QED  BY <4>1 DEF OutCells, Cells
    <3> QED  BY <3>1, <3>2
  <2>4. phase' \in {"infer", "restore"}
    BY <1>1
  <2> QED  BY <1>1, <1>2, <1>3, <2>1, <2>2, <2>3, <2>4 DEF ImageInv
<1> QED  BY <1>8, <1>9

\* fill_image adds a patch.
LEMMA RestoreAdd ==
    ASSUME RestoreInv, ImagesFit, AddPatch
    PROVE  BufferInv' /\ ImageInv'
<1>1. /\ phase = "restore" /\ ~ThreadProcess /\ frame' = frame
      /\ image' = [o \in OutPixels |->
                      image[o] \cup {patchOut[idx][c] :
                          c \in {d \in OutCells : Offset(idx, Scale, d) = o}}]
      /\ idx' = idx + 1
      /\ phase' = IF idx + 1 = Cardinality(Patches) THEN "done" ELSE "restore"
      /\ rows' = rows /\ patchIn' = patchIn /\ patchOut' = patchOut
  BY DEF AddPatch, OutPixels, OutCells
<1>2. /\ Patches' = Patches /\ OutCells' = OutCells /\ OutPixels' = OutPixels
      /\ Place' = Place /\ Piece' = Piece /\ Sources' = Sources /\ ThreadProcess' = ThreadProcess
  BY <1>1, SameGrids
<1>3. /\ BufferInv /\ ImageInv /\ frame \in Frames /\ SameCorners(frame)
      /\ BlockRows > 1 /\ BlockCols > 1
  BY <1>1 DEF RestoreInv, GenerateInv, ImagesFit
<1>4. /\ idx \in Patches
      /\ \A o \in OutPixels : image[o] \subseteq {Sources[o]}
      /\ \A p \in Patches : p < idx =>
           \A c \in OutCells : Sources[Place[p][c]] \in image[Place[p][c]]
  BY <1>1, <1>3 DEF ImageInv
<1>5. \A c \in OutCells : /\ Place[idx][c] \in OutPixels
                          /\ Offset(idx, Scale, c) = Place[idx][c]
                          /\ patchOut[idx][c] = Sources[Place[idx][c]]
  <2>1. idx \in Patches /\ phase \in {"restore", "done"}
    BY <1>1, <1>4
  <2>2. \A c \in OutCells : patchOut[idx][c] = Sources[Place[idx][c]]
    BY <1>3, <2>1 DEF BufferInv
  <2>3. \A c \in OutCells : /\ Place[idx][c] \in OutPixels
                            /\ Offset(idx, Scale, c) = Place[idx][c]
    BY <1>3, <2>1, PlaceFacts
  <2> QED  BY <2>2, <2>3
<1>6. \A p \in Patches, c \in OutCells : Place[p][c] \in OutPixels
  BY <1>3, PlaceFacts
<1>7. \A o \in OutPixels : image[o] \subseteq image'[o] /\ image'[o] \subseteq {Sources[o]}
  BY <1>1, <1>4, <1>5
<1>8. \A c \in OutCells : Sources[Place[idx][c]] \in image'[Place[idx][c]]
  BY <1>1, <1>5
<1> DEFINE n == BlockRows * BlockCols
<1>9. n \in Nat \ {0} /\ Cardinality(Patches) = n /\ Patches = 0 .. n - 1
  BY <1>3, PatchCount DEF Patches
<1> HIDE DEF n
<1>10. ASSUME NEW p \in Patches, p < idx + 1, NEW c \in OutCells
       PROVE  Sources[Place[p][c]] \in image'[Place[p][c]]
  <2>1. p < idx \/ p = idx
    BY <1>4, <1>9, <1>10
  <2>2. CASE p < idx
    BY <1>4, <1>6, <1>7, <2>2
  <2>3. CASE p = idx
    BY <1>8, <2>3
  <2> QED  BY <2>1, <2>2, <2>3
<1>11. BufferInv'
  <2>1. phase' \in {"restore", "done"}
    BY <1>1
  <2> QED  BY <1>1, <1>2, <1>3, <2>1 DEF BufferInv, NotFilled
<1>12. CASE idx + 1 = n
  <2>1. phase' = "done"
    BY <1>1, <1>9, <1>12
  <2>2. \A p \in Patches : p < idx + 1
    BY <1>9, <1>12
  <2>3. ASSUME NEW o \in OutPixels PROVE image'[o] = {Sources[o]}
    <3>1. PICK p \in Patches, c \in OutCells : Place[p][c] = o
      BY <1>3, PlaceFacts
    <3>2. Sources[o] \in image'[o]
      BY <1>10, <2>2, <3>1
    <3> QED  BY <1>7, <3>2
  <2> QED  BY <1>1, <1>2, <1>11, <2>1, <2>3 DEF ImageInv
<1>13. CASE idx + 1 # n
  <2>1. phase' = "restore" /\ idx' \in Patches
    BY <1>1, <1>4, <1>9, <1>13
  <2> QED  BY <1>1, <1>2, <1>7, <1>10, <1>11, <2>1 DEF ImageInv
<1> QED  BY <1>12, <1>13

\* A thread copies a row, over what others may have copied there.
LEMMA RestoreCopy ==
    ASSUME RestoreInv, ImagesFit, NEW p \in Patches, CopyRow(p)
    PROVE  BufferInv' /\ ImageInv'
<1> DEFINE r == rows[p]
           first == Offset(p, Scale, <<r, 0>>)
           width == Scale * PatchWidth
           height == Scale * PatchHeight
<1>1. /\ phase = "restore" /\ ThreadProcess /\ frame' = frame
      /\ r < height
      /\ image' = [o \in OutPixels |->
                      IF o - first \in 0 .. width - 1
                      THEN {patchOut[p][<<r, o - first>>]} ELSE image[o]]
      /\ rows' = [rows EXCEPT ![p] = r + 1]
      /\ phase' = IF \A q \in Patches : rows'[q] = height THEN "done" ELSE "restore"
      /\ idx' = idx /\ patchIn' = patchIn /\ patchOut' = patchOut
  BY DEF CopyRow, OutPixels
<1>2. /\ Patches' = Patches /\ OutCells' = OutCells /\ OutPixels' = OutPixels
      /\ Place' = Place /\ Piece' = Piece /\ Sources' = Sources /\ ThreadProcess' = ThreadProcess
  BY <1>1, SameGrids
<1>3. /\ BufferInv /\ ImageInv /\ frame \in Frames /\ SameCorners(frame)
      /\ BlockRows > 1 /\ BlockCols > 1
  BY <1>1 DEF RestoreInv, GenerateInv, ImagesFit
<1>4. /\ rows \in [Patches -> Nat]
      /\ \A q \in Patches, c \in OutCells : c[1] < rows[q] =>
           image[Place[q][c]] = {Sources[Place[q][c]]}
  BY <1>1, <1>3 DEF ImageInv
<1>5. /\ width \in Nat \ {0} /\ height \in Nat \ {0} /\ r \in 0 .. height - 1
      /\ OutCells = (0 .. height - 1) \X (0 .. width - 1)
  <2>1. Scale \in Nat \ {0} /\ PatchHeight \in Nat \ {0} /\ PatchWidth \in Nat \ {0}
    BY <1>3, FrameFacts, FramesAssumption DEF Scale
  <2>2. width \in Nat \ {0} /\ height \in Nat \ {0}
    BY <2>1
  <2>3. r \in Nat
    BY <1>4
  <2> QED  BY <1>1, <2>2, <2>3 DEF OutCells, Cells
<1>6. /\ \A q \in Patches, c \in OutCells : Place[q][c] \in OutPixels
      /\ \A o \in OutPixels : \E q \in Patches, c \in OutCells : Place[q][c] = o
  BY <1>3, PlaceFacts
<1>7. \A k \in 0 .. width - 1 : /\ <<r, k>> \in OutCells /\ Place[p][<<r, k>>] = first + k
                                /\ first \in Int
  <2> SUFFICES ASSUME NEW k \in 0 .. width - 1
               PROVE  /\ <<r, k>> \in OutCells /\ Place[p][<<r, k>>] = first + k
                      /\ first \in Int
    OBVIOUS
  <2>1. <<r, k>> \in OutCells
    BY <1>5
  <2> DEFINE a == (Top(p, Scale) + r) * Scale * frame.w + Left(p, Scale)
  <2>2. Place[p][<<r, k>>] = a + k /\ first = a + 0
    BY <1>3, <2>1, PlaceFacts DEF Offset
  <2>3. a \in Int
    <3>1. /\ Top(p, Scale) = Scale * Top(p, 1) /\ Left(p, Scale) = Scale * Left(p, 1)
          /\ Top(p, 1) \in Nat /\ Left(p, 1) \in Nat
      BY <1>3, Corners
    <3>2. Scale \in Nat /\ frame.w \in Nat
      BY <1>3, FramesAssumption DEF Scale
    <3>3. Top(p, Scale) \in Int /\ Left(p, Scale) \in Int
      BY <3>1, <3>2
    <3>4. r \in Int
      BY <1>5
    <3> QED  BY <3>2, <3>3, <3>4
  <2> HIDE DEF a, first
  <2>4. first = a /\ k \in Int
    BY <2>2, <2>3, <1>5
  <2> QED  BY <2>1, <2>2, <2>3, <2>4
<1> HIDE DEF r, first, width, height
<1>8. \A c \in OutCells : patchOut[p][c] = Sources[Place[p][c]]
  BY <1>1, <1>3 DEF BufferInv
<1>9. ASSUME NEW o \in OutPixels PROVE image'[o] = image[o] \/ image'[o] = {Sources[o]}
  <2> SUFFICES ASSUME o - first \in 0 .. width - 1 PROVE image'[o] = {Sources[o]}
    BY <1>1
  <2>1. o \in Int
    <3>1. Scale * frame.h * Scale * frame.w \in Int
      BY <1>3, FramesAssumption DEF Scale
    <3> QED  BY <3>1 DEF OutPixels, Pixels
  <2>2. <<r, o - first>> \in OutCells /\ Place[p][<<r, o - first>>] = first + (o - first)
        /\ first \in Int
    BY <1>7
  <2>3. first + (o - first) = o
    BY <2>1, <2>2
  <2> QED  BY <1>1, <1>8, <2>2, <2>3
<1>10. \A k \in 0 .. width - 1 : image'[Place[p][<<r, k>>]] = {Sources[Place[p][<<r, k>>]]}
  <2> SUFFICES ASSUME NEW k \in 0 .. width - 1
               PROVE  image'[Place[p][<<r, k>>]] = {Sources[Place[p][<<r, k>>]]}
    OBVIOUS
  <2>1. /\ <<r, k>> \in OutCells /\ Place[p][<<r, k>>] = first + k /\ first \in Int
        /\ Place[p][<<r, k>>] \in OutPixels
    BY <1>6, <1>7
  <2>2. (first + k) - first = k
    BY <1>5, <2>1
  <2>3. image'[first + k] = {patchOut[p][<<r, k>>]}
    BY <1>1, <2>1, <2>2
  <2> QED  BY <1>8, <2>1, <2>3
<1>11. rows' \in [Patches -> Nat]
  BY <1>1, <1>4, <1>5
<1>12. ASSUME NEW q \in Patches, NEW c \in OutCells, c[1] < rows'[q]
       PROVE  image'[Place[q][c]] = {Sources[Place[q][c]]}
  <2>1. CASE c[1] < rows[q]
    BY <1>4, <1>6, <1>9, <2>1
  <2>2. CASE ~(c[1] < rows[q])
    <3>1. c[1] \in Nat /\ c[2] \in 0 .. width - 1 /\ c = <<c[1], c[2]>>
      BY <1>5
    <3>2. q = p /\ rows'[q] = r + 1
      BY <1>1, <1>4, <1>12, <2>2
    <3>3. rows[q] = r
      BY <3>2 DEF r
    <3>4. c[1] = r
      BY <1>5, <1>12, <2>2, <3>1, <3>2, <3>3
    <3> QED  BY <1>10, <3>1, <3>2, <3>4
  <2> QED  BY <2>1, <2>2
<1>13. BufferInv'
  <2>1. phase' \in {"restore", "done"}
    BY <1>1
  <2> QED  BY <1>1, <1>2, <1>3, <2>1 DEF BufferInv, NotFilled
<1>14. CASE phase' = "done"
  <2>1. \A q \in Patches : rows'[q] = height
    BY <1>1, <1>14
  <2>2. ASSUME NEW o \in OutPixels PROVE image'[o] = {Sources[o]}
    <3>1. PICK q \in Patches, c \in OutCells : Place[q][c] = o
      BY <1>6
    <3>2. c[1] < rows'[q]
      BY <1>5, <2>1
    <3> QED  BY <1>12, <3>1, <3>2
  <2> QED  BY <1>1, <1>2, <1>11, <1>13, <1>14, <2>2 DEF ImageInv
<1>15. CASE phase' = "restore"
  BY <1>1, <1>2, <1>11, <1>12, <1>13, <1>15 DEF ImageInv
<1> QED  BY <1>1, <1>14, <1>15

\* Every step keeps the buffers and the image right.
LEMMA RestoreStep ==
    ASSUME ImagesFit, RestoreInv, [Next]_vars
    PROVE  RestoreInv'
<1>1. GenerateInv'
  BY GenerateStep DEF RestoreInv
<1>2. CASE FillPatch
  BY <1>1, <1>2, RestoreFill DEF RestoreInv
<1>3. CASE AddPatch
  BY <1>1, <1>3, RestoreAdd DEF RestoreInv
<1>4. ASSUME NEW p \in Patches, Infer(p) \/ CopyRow(p) PROVE RestoreInv'
  BY <1>1, <1>4, RestoreInfer, RestoreCopy DEF RestoreInv
<1>5. CASE MalformedShape \/ DivisionByZero
  <2>1. /\ phase' \in {"malformed", "crashed"} /\ frame' = frame /\ idx' = idx
        /\ rows' = rows /\ patchIn' = patchIn /\ patchOut' = patchOut /\ image' = image
    BY <1>5 DEF MalformedShape, DivisionByZero
  <2>2. /\ Patches' = Patches /\ OutCells' = OutCells /\ OutPixels' = OutPixels
        /\ Place' = Place /\ Piece' = Piece /\ Sources' = Sources /\ ThreadProcess' = ThreadProcess
    BY <2>1, SameGrids
  <2>3. BufferInv /\ ImageInv
    BY DEF RestoreInv
  <2>4. BufferInv'
    BY <2>1, <2>2, <2>3 DEF BufferInv, NotFilled
  <2>5. ImageInv'
    BY <2>1, <2>2, <2>3 DEF ImageInv
  <2> QED  BY <1>1, <2>4, <2>5 DEF RestoreInv
<1>6. CASE UNCHANGED vars
  <2>1. /\ phase' = phase /\ frame' = frame /\ idx' = idx
        /\ rows' = rows /\ patchIn' = patchIn /\ patchOut' = patchOut /\ image' = image
    BY <1>6 DEF vars
  <2>2. /\ Patches' = Patches /\ OutCells' = OutCells /\ OutPixels' = OutPixels
        /\ Place' = Place /\ Piece' = Piece /\ Sources' = Sources /\ ThreadProcess' = ThreadProcess
    BY <2>1, SameGrids
  <2>3. BufferInv /\ ImageInv
    BY DEF RestoreInv
  <2>4. BufferInv'
    BY <2>1, <2>2, <2>3 DEF BufferInv, NotFilled
  <2>5. ImageInv'
    BY <2>1, <2>2, <2>3 DEF ImageInv
  <2> QED  BY <1>1, <2>4, <2>5 DEF RestoreInv
<1> QED  BY <1>2, <1>3, <1>4, <1>5, <1>6 DEF Next, Ended

\* The restored image shows the frame, for every frame, model input and scale: each of
\* its pixels is put together from outputs that all show the pixel of the frame it
\* enlarges, whatever the order of the inferences and of the threads' copies.
\* ImagesFit says for which frames.  The corners of the patches are computed anew from
\* the enlarged sizes, and a division that leaves a rest does not scale; and fill_image
\* adds to what the output buffer holds, so that only the build that copies leaves
\* nothing of it.
THEOREM ImageRestored == ASSUME ImagesFit PROVE Spec => []RestoredExactly
<1>1. Init => RestoreInv
  BY RestoreInit
<1>2. RestoreInv /\ [Next]_vars => RestoreInv'
  BY RestoreStep
<1>3. RestoreInv => RestoredExactly
  BY DEF RestoreInv, ImageInv, RestoredExactly, OutPixels, Sources
<1> QED  BY <1>1, <1>2, <1>3, PTL DEF Spec
================================================================================
