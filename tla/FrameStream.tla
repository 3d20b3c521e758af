------------------------------ MODULE FrameStream ------------------------------
(***************************************************************************)
(* What a video filter promises of a stream: the frames come out in the    *)
(* order in which they went in, once each, every one computed from its     *)
(* own neighbourhood; and at a regular end all of them have come out.      *)
(***************************************************************************)
EXTENDS Integers, Sequences

CONSTANTS
    MaxFrames,  \* bound: the frames of the stream
    Batch       \* the frames a "basicvsr" model takes at once

VARIABLES
    kind,    \* the kind of model
    first,   \* it is the first stream of the process
    fed,     \* the frames that went in
    sent,    \* the frames that came out: [frame, shows]
    outcome  \* "open", or how the stream ended: "eof", "error"

vars == <<kind, first, fed, sent, outcome>>

\* The input frames that output frame k is computed from, when n have gone in.
Neighbourhood(k, n) ==
    IF kind = "tsenet"
    THEN <<IF k = 1 THEN 1 ELSE k - 1, k, IF k = n THEN k ELSE k + 1>>
    ELSE <<k>>

\* The frames that come out of n: of a batch model whole batches only.
Complete(n) == IF kind = "basicvsr" THEN n - (n % Batch) ELSE n

Init ==
    /\ kind \in {"single", "tsenet", "basicvsr"}
    /\ first \in BOOLEAN
    /\ fed = 0
    /\ sent = <<>>
    /\ outcome = "open"

Feed ==
    /\ outcome = "open"
    /\ fed < MaxFrames
    /\ fed' = fed + 1
    /\ UNCHANGED <<kind, first, sent, outcome>>

\* What the frames show is left open for batches, and for TSENet but in the first
\* stream of a process.
ShowsPromised == kind = "single" \/ (kind = "tsenet" /\ first)

\* The next frames come out.
Emit(n) ==
    /\ outcome = "open"
    /\ Len(sent) + n <= fed
    /\ Len(sent') = Len(sent) + n
    /\ SubSeq(sent', 1, Len(sent)) = sent
    /\ \A i \in Len(sent) + 1 .. Len(sent) + n :
         /\ sent'[i].frame = i
         /\ ShowsPromised => sent'[i].shows = Neighbourhood(i, fed)
    /\ UNCHANGED <<kind, first, fed, outcome>>

End ==
    /\ outcome = "open"
    /\ Len(sent) = Complete(fed)
    /\ outcome' = "eof"
    /\ UNCHANGED <<kind, first, fed, sent>>

Abort ==
    /\ outcome = "open"
    /\ outcome' = "error"
    /\ UNCHANGED <<kind, first, fed, sent>>

Next == Feed \/ (\E n \in 1 .. MaxFrames : Emit(n)) \/ End \/ Abort

Spec == Init /\ [][Next]_vars
================================================================================
