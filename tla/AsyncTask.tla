------------------------------ MODULE AsyncTask ------------------------------
(***************************************************************************)
(* The life of one asyncio.Task as the agents of this system use it: a     *)
(* coroutine that sleeps, wakes up, and may be cancelled by another one.   *)
(* asyncio is not part of the repository; these rules are the ones its     *)
(* callers rely on.                                                        *)
(*                                                                         *)
(*   "created"    create_task() was called, the body has not started       *)
(*   "sleeping"   the body is suspended in asyncio.sleep()                 *)
(*   "cancelling" cancel() reached it while suspended: its next step       *)
(*                raises CancelledError inside the body, even if the timer *)
(*                had expired in the meantime                              *)
(*   "aborted"    cancel() reached it before its first step: the body, its *)
(*                except and finally clauses included, never runs          *)
(*   "done"       finished, or never created                               *)
(***************************************************************************)

Phases == {"created", "sleeping", "cancelling", "aborted", "done"}

\* The body is running and nobody has asked it to stop.
Live(p) == p \in {"created", "sleeping"}

\* task.done(): only a task that has finished.
IsDone(p) == p = "done"

\* The effect of cancel().
AfterCancel(p) ==
    CASE p = "created"  -> "aborted"
      [] p = "sleeping" -> "cancelling"
      [] OTHER          -> p
==============================================================================
