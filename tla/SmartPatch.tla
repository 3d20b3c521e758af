------------------------------ MODULE SmartPatch -------------------------------
(***************************************************************************)
(* One SmartPatch (smart_patch.cpp): a frame that exceeds the model input  *)
(* is cut into patches, the patches are inferred, and the image is put     *)
(* together from their outputs.                                            *)
(*                                                                         *)
(* A pixel is told by its offset in the frame, and the model is one that   *)
(* only enlarges: each pixel of a patch becomes a square of Scale x Scale  *)
(* equal pixels.  So the image is right if each of its pixels shows the    *)
(* pixel of the frame it enlarges.  Batch, frames and channels (B, N, C)   *)
(* are planes that are treated alike; there is one plane here.             *)
(***************************************************************************)
EXTENDS PatchGrid, FiniteSets

CONSTANTS
    Frames,    \* the frames, each with the configuration it is split under:
               \* [h, w, patchHeight, patchWidth, scale, threads, zeroed]
    ShapeDims  \* what _inputShape.size() may be

\* SmartPatch splits a frame only if it exceeds the model input somewhere.
\* "threads" is a build with ENABLE_THREADPROCESS; "zeroed" is an application
\* that clears the output buffer before each call.
ASSUME FramesAssumption ==
    \A f \in Frames :
        /\ f.h \in Nat \ {0} /\ f.w \in Nat \ {0}
        /\ f.patchHeight \in Nat \ {0} /\ f.patchWidth \in Nat \ {0}
        /\ f.h > f.patchHeight \/ f.w > f.patchWidth
        /\ f.scale \in Nat \ {0}
        /\ f.threads \in BOOLEAN /\ f.zeroed \in BOOLEAN

ASSUME ShapeAssumption == ShapeDims \subseteq {2, 5}

VARIABLES
    frame,     \* the frame and its configuration
    dims,      \* _inputShape.size()
    phase,     \* where the call is
    idx,       \* patches generated, later patches added to the image
    rows,      \* per patch: the rows its thread has copied into the image
    patchIn,   \* per patch: the pixels of its input buffer
    patchOut,  \* per patch: the pixels of its output buffer, once inferred
    image      \* per pixel of the output: the values it was made of

\* A buffer as it was allocated, and a pixel that does not come from the frame.
NotFilled == <<>>
Garbage == -1

vars == <<frame, dims, phase, idx, rows, patchIn, patchOut, image>>

--------------------------------------------------------------------------------
(* The two grids: of the frame in patches and of the image in their outputs. *)

\* _config.patchHeight and patchWidth, the model input, _config.scale, the build.
PatchHeight == frame.patchHeight
PatchWidth == frame.patchWidth
Scale == frame.scale
ThreadProcess == frame.threads

BlockRows == Blocks(frame.h, PatchHeight)
BlockCols == Blocks(frame.w, PatchWidth)
Patches == 0 .. BlockRows * BlockCols - 1

StartOf(size, crop, i) ==
    IF ThreadProcess THEN ThreadStart(size, crop, i) ELSE Start(size, crop, i)

\* Mutant of Top: the two block indices are swapped.
TopOfTransposed(p, s) ==
    StartOf(s * frame.h, s * PatchHeight, p % BlockCols)

\* The upper left corner of patch p, in the frame (s = 1) and, computed anew
\* from the enlarged sizes, in the image (s = Scale).
Top(p, s) == StartOf(s * frame.h, s * PatchHeight, p \div BlockCols)
Left(p, s) == StartOf(s * frame.w, s * PatchWidth, p % BlockCols)

Cells(s) == (0 .. s * PatchHeight - 1) \X (0 .. s * PatchWidth - 1)
Offset(p, s, cell) == (Top(p, s) + cell[1]) * s * frame.w + Left(p, s) + cell[2]
Pixels(s) == 0 .. s * frame.h * s * frame.w - 1

Inside(p, s) ==
    /\ Top(p, s) >= 0 /\ Top(p, s) + s * PatchHeight <= s * frame.h
    /\ Left(p, s) >= 0 /\ Left(p, s) + s * PatchWidth <= s * frame.w

\* One patch after the other lies in a buffer that SmartPatch allocates once, of
\* PatchSize(1) pixels each on the way in and PatchSize(Scale) on the way out.
PatchSize(s) == (s * PatchHeight) * (s * PatchWidth)

\* Mutant of BufferSize: as many floats as the frame has pixels.
BufferSizeOfFrame(s) == (s * frame.h) * (s * frame.w)

\* The floats allocated: the constructor counts the bytes of the frame, and then
\* allocates that many floats.
BufferSize(s) == 4 * ((s * frame.h) * (s * frame.w))

\* The pixel of the frame that pixel o of the image enlarges.
Source(o) ==
    LET row == o \div (Scale * frame.w)
        col == o % (Scale * frame.w)
    IN  (row \div Scale) * frame.w + (col \div Scale)

--------------------------------------------------------------------------------

Init ==
    /\ frame \in Frames
    /\ dims \in ShapeDims
    /\ phase = "generate"
    /\ idx = 0
    /\ rows = [p \in Patches |-> 0]
    /\ patchIn = [p \in Patches |-> NotFilled]
    /\ patchOut = [p \in Patches |-> NotFilled]
    /\ image = [o \in Pixels(Scale) |-> IF frame.zeroed THEN {} ELSE {Garbage}]

\* generatePatch stumbles over a shape that is not B, N, C, H, W: it prints an
\* error and copies nothing, and what follows reads past the end of the shape.
\* Nothing is modelled after that.
MalformedShape ==
    /\ phase = "generate"
    /\ dims < 5
    /\ ThreadProcess \/ (BlockRows > 1 /\ BlockCols > 1)
    /\ phase' = "malformed"
    /\ UNCHANGED <<frame, dims, idx, rows, patchIn, patchOut, image>>

\* The overlap of a single block: an integer division by zero ends the process.
DivisionByZero ==
    /\ phase = "generate"
    /\ BlockRows = 1 \/ BlockCols = 1
    /\ dims = 5 \/ ~ThreadProcess
    /\ phase' = "crashed"
    /\ UNCHANGED <<frame, dims, idx, rows, patchIn, patchOut, image>>

\* fill_patch, which refuses corners outside of the frame; or the part of
\* multithread_p_5w for one patch, which does not.  Its threads only read the
\* frame and each writes a patch of its own, so their order does not matter.
FillPatch ==
    /\ phase = "generate" /\ dims = 5
    /\ BlockRows > 1 /\ BlockCols > 1
    /\ patchIn' = IF ThreadProcess \/ Inside(idx, 1)
                  THEN [patchIn EXCEPT ![idx] =
                            [cell \in Cells(1) |-> Offset(idx, 1, cell)]]
                  ELSE patchIn
    /\ idx' = idx + 1
    /\ phase' = IF idx + 1 = Cardinality(Patches) THEN "infer" ELSE "generate"
    /\ UNCHANGED <<frame, dims, rows, patchOut, image>>

\* The SDK infers the patches in any order and waits for all of them.
Infer(p) ==
    /\ phase = "infer"
    /\ patchOut[p] = NotFilled
    /\ patchOut' = [patchOut EXCEPT ![p] =
                        [cell \in Cells(Scale) |->
                            IF patchIn[p] = NotFilled THEN Garbage
                            ELSE patchIn[p][<<cell[1] \div Scale, cell[2] \div Scale>>]]]
    /\ idx' = 0
    /\ phase' = IF \A q \in Patches \ {p} : patchOut[q] # NotFilled THEN "restore" ELSE "infer"
    /\ UNCHANGED <<frame, dims, rows, patchIn, image>>

\* fill_image adds a patch to what the output buffer holds.  In the end it
\* divides each pixel by the number of patches added, which yields the pixel if
\* all that was added is the same, and nothing sensible if nothing was.
AddPatch ==
    /\ phase = "restore" /\ ~ThreadProcess
    /\ image' = [o \in Pixels(Scale) |->
                    image[o] \cup {patchOut[idx][cell] :
                        cell \in {c \in Cells(Scale) : Offset(idx, Scale, c) = o}}]
    /\ idx' = idx + 1
    /\ phase' = IF idx + 1 = Cardinality(Patches) THEN "done" ELSE "restore"
    /\ UNCHANGED <<frame, dims, rows, patchIn, patchOut>>

\* The part of multithread_p_5w for patch p copies one more row over the image,
\* concurrently with the threads of the other patches.
CopyRow(p) ==
    /\ phase = "restore" /\ ThreadProcess
    /\ rows[p] < Scale * PatchHeight
    /\ LET first == Offset(p, Scale, <<rows[p], 0>>)
       IN  image' = [o \in Pixels(Scale) |->
                        IF o - first \in 0 .. Scale * PatchWidth - 1
                        THEN {patchOut[p][<<rows[p], o - first>>]}
                        ELSE image[o]]
    /\ rows' = [rows EXCEPT ![p] = @ + 1]
    /\ phase' = IF \A q \in Patches : rows'[q] = Scale * PatchHeight
                THEN "done" ELSE "restore"
    /\ UNCHANGED <<frame, dims, idx, patchIn, patchOut>>

Ended ==
    /\ phase \in {"done", "crashed", "malformed"}
    /\ UNCHANGED vars

Next ==
    \/ MalformedShape \/ DivisionByZero \/ FillPatch \/ AddPatch
    \/ \E p \in Patches : Infer(p) \/ CopyRow(p)
    \/ Ended

Spec == Init /\ [][Next]_vars

--------------------------------------------------------------------------------

\* When generatePatch is through, every patch is a piece of the frame and no
\* patch holds pixels from outside of it (what the check of illegal patch corners
\* in fill_patch is there for).
PatchesInsideFrame ==
    phase \in {"infer", "restore", "done"} =>
        \A p \in Patches : patchIn[p] # NotFilled /\ Inside(p, 1)

\* The restored image shows the frame: every pixel is covered by some patch, all
\* patches that cover it agree, whichever is copied last, and each output is put
\* where its input was taken from.
RestoredExactly ==
    phase = "done" => \A o \in Pixels(Scale) : image[o] = {Source(o)}

\* The patches fit into the buffers, which are allocated from the size of the frame
\* before the patches are counted, although the patches overlap and are larger
\* than the frame taken together.
PatchesFitTheirBuffers ==
    phase \in {"infer", "restore", "done"} =>
        \A p \in Patches, s \in {1, Scale} : (p + 1) * PatchSize(s) <= BufferSize(s)

\* generatePatch splits every frame it is given, in the shape that ivsr_init has
\* stored: it neither stumbles over the shape nor divides by zero.
EveryFrameIsSplit == phase \notin {"malformed", "crashed"}
================================================================================
