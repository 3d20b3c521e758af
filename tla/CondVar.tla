-------------------------------- MODULE CondVar --------------------------------
(***************************************************************************)
(* std::condition_variable.  A condition variable is the set of threads    *)
(* asleep on it.  A thread that finds its predicate false while it holds   *)
(* the mutex joins the set; a thread taken out of the set contends for the *)
(* mutex again and evaluates its predicate anew.                           *)
(***************************************************************************)

\* What notify_one may leave of the sleepers: one of them is woken, whichever
\* the implementation picks; with nobody asleep the notification is lost.
NotifyOne(sleepers) ==
    IF sleepers = {} THEN {{}} ELSE {sleepers \ {t} : t \in sleepers}

\* What notify_all leaves of the sleepers.
NotifyAll(sleepers) == {}
================================================================================
