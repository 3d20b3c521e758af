-------------------------------- MODULE IvsrApi --------------------------------
(***************************************************************************)
(* What ivsr_process and ivsr_process_async promise (ivsr.h), whatever     *)
(* threads, queues and inference requests are behind them:                 *)
(*                                                                         *)
(*   - a call that succeeds has every patch inferred, once, before its     *)
(*     callback runs, and its callback runs once;                          *)
(*   - a synchronous call returns OK only after that, an asynchronous one  *)
(*     may return before;                                                  *)
(*   - a call that is rejected or that fails before its work began has no  *)
(*     patch inferred and no callback.                                     *)
(*                                                                         *)
(* The calls are made one after the other.                                 *)
(***************************************************************************)
EXTENDS Naturals

CONSTANTS
    Calls,    \* the calls an application may make
    Patches   \* the patches a frame is split into

VARIABLES
    kind,      \* per call: "none", "sync" or "async", as it was accepted
    status,    \* per call: "none" until it returns, then what it returned
    inferred,  \* per call: the patches inferred
    notified   \* per call: how often its callback ran

vars == <<kind, status, inferred, notified>>

\* The patches of a call of kind k; an asynchronous call is never split.
PatchesOf(k) == IF k = "async" THEN {1} ELSE Patches

InProgress(c) == kind[c] # "none" /\ status[c] = "none"

Init ==
    /\ kind = [c \in Calls |-> "none"]
    /\ status = [c \in Calls |-> "none"]
    /\ inferred = [c \in Calls |-> {}]
    /\ notified = [c \in Calls |-> 0]

--------------------------------------------------------------------------------

Accept(c, k) ==
    /\ \A d \in Calls : ~InProgress(d)
    /\ kind[c] = "none" /\ status[c] = "none"
    /\ kind' = [kind EXCEPT ![c] = k]
    /\ UNCHANGED <<status, inferred, notified>>

Reject(c) ==
    /\ \A d \in Calls : ~InProgress(d)
    /\ kind[c] = "none" /\ status[c] = "none"
    /\ status' = [status EXCEPT ![c] = "GENERAL_ERROR"]
    /\ UNCHANGED <<kind, inferred, notified>>

\* OpenVINO infers one more patch.
Infer(c, p) ==
    /\ kind[c] # "none"
    /\ p \in PatchesOf(kind[c]) \ inferred[c]
    /\ inferred' = [inferred EXCEPT ![c] = @ \cup {p}]
    /\ UNCHANGED <<kind, status, notified>>

\* A synchronous call calls back and returns.
Complete(c) ==
    /\ InProgress(c) /\ kind[c] = "sync"
    /\ inferred[c] = Patches
    /\ notified' = [notified EXCEPT ![c] = 1]
    /\ status' = [status EXCEPT ![c] = "OK"]
    /\ UNCHANGED <<kind, inferred>>

ReturnAsync(c) ==
    /\ InProgress(c) /\ kind[c] = "async"
    /\ status' = [status EXCEPT ![c] = "OK"]
    /\ UNCHANGED <<kind, inferred, notified>>

\* The callback of an asynchronous call, before or after the call returned.
NotifyAsync(c) ==
    /\ kind[c] = "async" /\ notified[c] = 0
    /\ inferred[c] = {1}
    /\ notified' = [notified EXCEPT ![c] = 1]
    /\ UNCHANGED <<kind, status, inferred>>

Fail(c) ==
    /\ InProgress(c) /\ inferred[c] = {}
    /\ status' = [status EXCEPT ![c] = "UNKNOWN_ERROR"]
    /\ UNCHANGED <<kind, inferred, notified>>

Next == \E c \in Calls :
    \/ \E k \in {"sync", "async"} : Accept(c, k)
    \/ Reject(c)
    \/ \E p \in Patches : Infer(c, p)
    \/ Complete(c) \/ ReturnAsync(c) \/ NotifyAsync(c) \/ Fail(c)

Spec == Init /\ [][Next]_vars
================================================================================
