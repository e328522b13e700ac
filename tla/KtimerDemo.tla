----------------------------- MODULE KtimerDemo -----------------------------
(***************************************************************************)
(* Chapter05/timer/ktimer.c: module init arms a kernel timer delay_ms     *)
(* ahead; the handler prints and increments ktinfo.data and re-arms the   *)
(* timer with mod_timer, so it is periodic.  Module exit stops it with    *)
(* del_timer_sync.  data is only printed and is left out.                 *)
(***************************************************************************)
EXTENDS Naturals

CONSTANTS
    MaxFires    \* bound on the handler runs explored

ASSUME MaxFires \in Nat

VARIABLES
    armed,     \* ktinfo.timer is pending
    tpc,       \* where ktimer_handler is: "idle", "rearm"
    ipc,       \* where module init / exit is
    fires      \* handler runs (bounded by MaxFires)

vars == <<armed, tpc, ipc, fires>>

TypeOK ==
    /\ armed \in BOOLEAN /\ tpc \in {"idle", "rearm"}
    /\ ipc \in {"load", "loaded", "unloaded"} /\ fires \in 0 .. MaxFires

Init == armed = FALSE /\ tpc = "idle" /\ ipc = "load" /\ fires = 0

-----------------------------------------------------------------------------
(* ktimer_init: timer_setup, mod_timer(jiffies + delay).                  *)
ktimer_init ==
    /\ ipc = "load"
    /\ armed' = TRUE /\ ipc' = "loaded"
    /\ UNCHANGED <<tpc, fires>>


(* ktimer_exit: del_timer_sync waits until the handler is not running,   *)
(* then deactivates the timer it re-armed.                                *)
ktimer_exit ==
    /\ ipc = "loaded" /\ tpc = "idle"
    /\ armed' = FALSE /\ ipc' = "unloaded"
    /\ UNCHANGED <<tpc, fires>>

-----------------------------------------------------------------------------
(* The timer expires: ktimer_handler prints and does info->data++.        *)
ktimer_handler ==
    /\ armed /\ tpc = "idle" /\ fires < MaxFires
    /\ armed' = FALSE /\ tpc' = "rearm" /\ fires' = fires + 1
    /\ UNCHANGED ipc

(* mod_timer(&info->timer, jiffies + delay) and the handler returns.      *)
ktimer_handler_rearm ==
    /\ tpc = "rearm"
    /\ armed' = TRUE /\ tpc' = "idle"
    /\ UNCHANGED <<ipc, fires>>

Next == ktimer_init \/ ktimer_exit \/ ktimer_handler \/ ktimer_handler_rearm

Spec == Init /\ [][Next]_vars

(* insmod runs to its end and the periodic timer keeps expiring; rmmod    *)
(* carries no fairness.                                                    *)
Fairness ==
    /\ WF_vars(ktimer_init) /\ WF_vars(ktimer_handler)
    /\ WF_vars(ktimer_handler_rearm)

FairSpec == Spec /\ Fairness
====
