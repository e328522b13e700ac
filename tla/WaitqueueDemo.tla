---------------------------- MODULE WaitqueueDemo ----------------------------
(***************************************************************************)
(* Chapter05/wait_event/waitqueue.c: module init arms a periodic kernel   *)
(* timer and sleeps in wait_event_interruptible until wqinfo.data > 5;    *)
(* the handler increments data, wakes the queue and re-arms.  A signal    *)
(* makes init fail with -ERESTARTSYS after del_timer_sync; otherwise the  *)
(* module loads, and module exit later stops the timer with                *)
(* del_timer_sync.  The handler may run on another CPU than init.         *)
(***************************************************************************)
EXTENDS Naturals

CONSTANTS
    Threshold,   \* the condition is data > Threshold (5 in the code)
    MaxData      \* bound on data: the timer is not let past it

ASSUME Threshold \in Nat /\ MaxData \in Nat /\ MaxData > Threshold

VARIABLES
    data,      \* wqinfo.data
    armed,     \* wqinfo.timer is pending
    running,   \* ktimer_handler is running
    queued,    \* the init task is on wqinfo.waitq
    ipc,       \* where module init / exit is
    sig        \* a signal is pending on the insmod task

vars == <<data, armed, running, queued, ipc, sig>>

IPcs == {"load", "wait", "sleep", "cancel", "loaded", "failed", "unloaded"}

TypeOK ==
    /\ data \in 0 .. MaxData /\ armed \in BOOLEAN /\ running \in BOOLEAN
    /\ queued \in BOOLEAN /\ ipc \in IPcs /\ sig \in BOOLEAN

Init ==
    /\ data = 0 /\ armed = FALSE /\ running = FALSE /\ queued = FALSE
    /\ ipc = "load" /\ sig = FALSE

-----------------------------------------------------------------------------
(* waitqueue_init: init_waitqueue_head, timer_setup, mod_timer.            *)
waitqueue_init_setup ==
    /\ ipc = "load"
    /\ armed' = TRUE /\ ipc' = "wait"
    /\ UNCHANGED <<data, running, queued, sig>>

(* One turn of wait_event_interruptible: a true condition ends the wait  *)
(* (return 0, finish_wait dequeues the task); otherwise                   *)
(* prepare_to_wait_event's pending signal ends it (goto exit), or the     *)
(* task sleeps queued.                                                     *)
waitqueue_init_wait ==
    /\ ipc = "wait"
    /\ \/ data > Threshold /\ queued' = FALSE /\ ipc' = "loaded"
       \/ data <= Threshold /\ sig /\ queued' = FALSE /\ ipc' = "cancel"
       \/ data <= Threshold /\ ~sig /\ queued' = TRUE /\ ipc' = "sleep"
    /\ UNCHANGED <<data, armed, running, sig>>

(* schedule() returns after a wake-up dequeued the task or a signal came. *)
waitqueue_init_schedule ==
    /\ ipc = "sleep" /\ (~queued \/ sig)
    /\ ipc' = "wait"
    /\ UNCHANGED <<data, armed, running, queued, sig>>

(* The exit label: del_timer_sync, then the error is returned and the     *)
(* module is not loaded.                                                   *)
waitqueue_init_cancel ==
    /\ ipc = "cancel" /\ ~running
    /\ armed' = FALSE /\ ipc' = "failed"
    /\ UNCHANGED <<data, running, queued, sig>>


(* waitqueue_exit: del_timer_sync.                                         *)
waitqueue_exit ==
    /\ ipc = "loaded" /\ ~running
    /\ armed' = FALSE /\ ipc' = "unloaded"
    /\ UNCHANGED <<data, running, queued, sig>>

(* A signal to the insmod task while it waits; it wakes the task.          *)
Signal ==
    /\ ipc \in {"wait", "sleep"} /\ ~sig
    /\ sig' = TRUE
    /\ UNCHANGED <<data, armed, running, queued, ipc>>

-----------------------------------------------------------------------------
(* Expiry: ktimer_handler runs and does info->data++.                      *)
ktimer_handler_inc ==
    /\ armed /\ ~running /\ data < MaxData
    /\ armed' = FALSE /\ running' = TRUE /\ data' = data + 1
    /\ UNCHANGED <<queued, ipc, sig>>

\* Faulty variant: the handler does not wake the queue.
wake_up_interruptible_none == UNCHANGED queued

(* wake_up_interruptible(&info->waitq) dequeues the sleeping task.        *)
wake_up_interruptible == queued' = FALSE

(* The wake-up, then mod_timer re-arms the timer.                          *)
ktimer_handler_wake ==
    /\ running
    /\ wake_up_interruptible
    /\ running' = FALSE /\ armed' = TRUE
    /\ UNCHANGED <<data, ipc, sig>>

Next ==
    \/ waitqueue_init_setup \/ waitqueue_init_wait \/ waitqueue_init_schedule
    \/ waitqueue_init_cancel \/ waitqueue_exit \/ Signal
    \/ ktimer_handler_inc \/ ktimer_handler_wake

Spec == Init /\ [][Next]_vars

(* The insmod task runs when runnable and the periodic timer keeps        *)
(* expiring; signals and rmmod come from users and carry no fairness.     *)
Fairness ==
    /\ WF_vars(waitqueue_init_setup) /\ WF_vars(waitqueue_init_wait)
    /\ WF_vars(waitqueue_init_schedule) /\ WF_vars(waitqueue_init_cancel)
    /\ WF_vars(ktimer_handler_inc) /\ WF_vars(ktimer_handler_wake)


FairSpec == Spec /\ Fairness

-----------------------------------------------------------------------------
(* insmod returns: wait_event_interruptible sees data > 5 after the       *)
(* handler's wake-ups, or a signal ends the wait.                         *)
InitReturns == <>(ipc \in {"loaded", "failed", "unloaded"})
====
