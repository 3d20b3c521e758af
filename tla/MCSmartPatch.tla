----------------------------- MODULE MCSmartPatch ------------------------------
(* Frames and their configurations for the model checker. *)
EXTENDS SmartPatch

SerialFrame(h, w) == [h |-> h, w |-> w, patchHeight |-> 3, patchWidth |-> 2, scale |-> 1,
                      threads |-> FALSE, zeroed |-> TRUE]
ThreadFrame(h, w) == [h |-> h, w |-> w, patchHeight |-> 2, patchWidth |-> 3, scale |-> 2,
                      threads |-> TRUE, zeroed |-> FALSE]

\* Serial, patches of 3 x 2 pixels: one to three rows, two or three columns of
\* patches.  8 and 5 leave a rest when the overlap is shared out, 4, 7 and 3 do
\* not, and a height of 3 is a single row of patches.
SerialFrames == {SerialFrame(h, w) : h \in {3, 4, 5, 7, 8}, w \in {3, 5}}

\* Threads, patches of 2 x 3 pixels, none with a rest.
EvenFrames == {ThreadFrame(3, 4), ThreadFrame(4, 5), ThreadFrame(3, 7)}

SplitFrames == SerialFrames \cup EvenFrames

\* Threads, patches of 3 x 2 pixels, with a rest along both axes.
UnevenFrames == {[SerialFrame(8, 5) EXCEPT !.threads = TRUE]}
================================================================================
