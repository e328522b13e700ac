--------------------------- MODULE CompletionDemo ---------------------------
(***************************************************************************)
(* Chapter05/wait_event/completion.c: module init initialises a           *)
(* completion, arms a one-shot kernel timer delay_ms ahead and waits in   *)
(* wait_for_completion, which no signal interrupts; the handler does      *)
(* data++ and complete().  Module exit stops the timer with               *)
(* del_timer_sync.  delay_ms is a module parameter and may be 0, so the   *)
(* timer may expire, and complete() run, before init reaches              *)
(* wait_for_completion.  data is only printed and is left out.            *)
(***************************************************************************)
EXTENDS Naturals

VARIABLES
    done,      \* cinfo.done.done: complete() calls not yet consumed
    armed,     \* cinfo.timer is pending
    tpc,       \* where ktimer_handler is: "idle", "complete", "return"
    ipc        \* where module init / exit is

vars == <<done, armed, tpc, ipc>>

IPcs == {"load", "wait", "sleep", "loaded", "unloaded"}

TypeOK ==
    /\ done \in Nat /\ armed \in BOOLEAN
    /\ tpc \in {"idle", "complete", "return"} /\ ipc \in IPcs

Init == done = 0 /\ armed = FALSE /\ tpc = "idle" /\ ipc = "load"

-----------------------------------------------------------------------------
(* completion_init up to the wait: init_completion, timer_setup,          *)
(* mod_timer(jiffies + delay).                                             *)
completion_init_setup ==
    /\ ipc = "load"
    /\ done' = 0 /\ armed' = TRUE /\ ipc' = "wait"
    /\ UNCHANGED tpc

(* wait_for_completion: a complete() already done is consumed at once;   *)
(* otherwise the task sleeps (TASK_UNINTERRUPTIBLE).                       *)
completion_init_wait ==
    /\ ipc = "wait"
    /\ IF done > 0 THEN done' = done - 1 /\ ipc' = "loaded"
                   ELSE ipc' = "sleep" /\ UNCHANGED done
    /\ UNCHANGED <<armed, tpc>>

(* The sleeping task is woken by complete() and consumes it; then "job    *)
(* done" and init returns 0.                                               *)
completion_init_wake ==
    /\ ipc = "sleep" /\ done > 0
    /\ done' = done - 1 /\ ipc' = "loaded"
    /\ UNCHANGED <<armed, tpc>>


(* completion_exit: del_timer_sync waits for a running handler.           *)
completion_exit ==
    /\ ipc = "loaded" /\ tpc = "idle"
    /\ armed' = FALSE /\ ipc' = "unloaded"
    /\ UNCHANGED <<done, tpc>>

-----------------------------------------------------------------------------
(* The timer expires (once: the handler does not re-arm it) and           *)
(* ktimer_handler prints and increments info->data.                       *)
TimerExpire ==
    /\ armed /\ tpc = "idle"
    /\ armed' = FALSE /\ tpc' = "complete"
    /\ UNCHANGED <<done, ipc>>

\* Faulty variant: a wake-up that is lost when nobody waits yet, as a
\* bare wake_up on a wait queue would be.
complete_nocount == done' = IF ipc = "sleep" THEN done + 1 ELSE done

(* complete(&info->done): done++ and wake one waiter; a complete() before *)
(* the wait is remembered by the count.                                    *)
complete == done' = done + 1

ktimer_handler_complete ==
    /\ tpc = "complete"
    /\ complete
    /\ tpc' = "return"
    /\ UNCHANGED <<armed, ipc>>

(* The handler returns.                                                    *)
ktimer_handler_return ==
    /\ tpc = "return"
    /\ tpc' = "idle"
    /\ UNCHANGED <<done, armed, ipc>>

Next ==
    \/ completion_init_setup \/ completion_init_wait \/ completion_init_wake
    \/ completion_exit
    \/ TimerExpire \/ ktimer_handler_complete \/ ktimer_handler_return

Spec == Init /\ [][Next]_vars

(* The insmod task runs when woken, and a pending timer expires; rmmod    *)
(* is a user's choice and carries no fairness.                             *)
Fairness ==
    /\ WF_vars(completion_init_setup) /\ WF_vars(completion_init_wait)
    /\ WF_vars(completion_init_wake)
    /\ WF_vars(TimerExpire) /\ WF_vars(ktimer_handler_complete)
    /\ WF_vars(ktimer_handler_return)

FairSpec == Spec /\ Fairness

-----------------------------------------------------------------------------
(* insmod returns: the single timer expiry completes cinfo.done, whether  *)
(* it comes before or after init reaches wait_for_completion, which no    *)
(* signal could end.                                                       *)
InitReturns == <>(ipc \in {"loaded", "unloaded"})
====
