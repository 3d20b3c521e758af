------------------------------- MODULE PatchGrid -------------------------------
(***************************************************************************)
(* How smart_patch.cpp lays overlapping patches over a frame, along one of *)
(* its two axes: Blocks patches of length crop over size pixels, each one  *)
(* InterLength pixels into the one before it.                              *)
(*                                                                         *)
(* The integers of the code are 32 bits wide and frames are far smaller,   *)
(* so they are integers here; none of the divisions below has a negative   *)
(* operand, where C++ and TLA+ would differ.                               *)
(***************************************************************************)
EXTENDS Integers

\* The block count: ceil(size * 1.0 / crop).
Blocks(size, crop) == (size + crop - 1) \div crop

\* What the patches have too much, to be shared out among the overlaps.
Spare(size, crop) == crop * Blocks(size, crop) - size

\* interHeight and interWidth, and lastFillHeight and lastFillWidth.  A single
\* block makes both of them divisions by zero.
InterLength(size, crop) == Spare(size, crop) \div (Blocks(size, crop) - 1)
LastFill(size, crop) == Spare(size, crop) % (Blocks(size, crop) - 1)

\* Mutant of Start: the last patch is not moved back.
StartWithoutFill(size, crop, i) == (crop - InterLength(size, crop)) * i

\* Where calculatePatchCoordinateList lets patch i start.
Start(size, crop, i) ==
    (crop - InterLength(size, crop)) * i
        - (IF i = Blocks(size, crop) - 1 THEN LastFill(size, crop) ELSE 0)

\* Mutant of ThreadStart: the patches are laid without their overlap.
ThreadStartWithoutOverlap(size, crop, i) == crop * i

\* Where multithread_p_5w lets it start: the rest of the division is ignored.
ThreadStart(size, crop, i) == (crop - InterLength(size, crop)) * i
================================================================================
