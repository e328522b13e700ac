----------------------------- MODULE AtomicDemo -----------------------------
(***************************************************************************)
(* Chapter05/atomic/atomic.c: module init sets the atomic ainfo.data to   *)
(* 10 and arms a periodic kernel timer; each handler run does             *)
(* atomic_dec_if_positive(&data), atomic_xor(0xff, &bitmap) on the        *)
(* static bitmap (ATOMIC_INIT(0xff)) and re-arms.  Module exit stops the  *)
(* timer with del_timer_sync.  A timer_list handler never runs            *)
(* concurrently with itself, and each atomic operation is one step.       *)
(***************************************************************************)
EXTENDS Integers, Bitwise

CONSTANTS
    MaxFires    \* bound on the handler runs explored

ASSUME MaxFires \in Nat

VARIABLES
    data,      \* ainfo.data (atomic_t, signed)
    bitmap,    \* the static atomic_t bitmap
    armed,     \* ainfo.timer is pending
    running,   \* ktimer_handler is running (between its body and return)
    ipc,       \* where module init / exit is
    fires      \* handler runs (history, bounded by MaxFires)

vars == <<data, bitmap, armed, running, ipc, fires>>

TypeOK ==
    /\ data \in Int /\ bitmap \in 0 .. 255 /\ armed \in BOOLEAN
    /\ running \in BOOLEAN /\ ipc \in {"load", "loaded", "unloaded"}
    /\ fires \in 0 .. MaxFires

\* atomic_t is zero until atomic_set; bitmap is ATOMIC_INIT(0xff).
Init ==
    /\ data = 0 /\ bitmap = 255 /\ armed = FALSE /\ running = FALSE
    /\ ipc = "load" /\ fires = 0

-----------------------------------------------------------------------------
(* ktimer_init: atomic_set(&ainfo.data, 10), timer_setup, mod_timer.      *)
ktimer_init ==
    /\ ipc = "load"
    /\ data' = 10 /\ armed' = TRUE /\ ipc' = "loaded"
    /\ UNCHANGED <<bitmap, running, fires>>

(* ktimer_exit: del_timer_sync waits for a running handler, which may     *)
(* have re-armed, and leaves the timer inactive.                          *)
ktimer_exit ==
    /\ ipc = "loaded" /\ ~running
    /\ armed' = FALSE /\ ipc' = "unloaded"
    /\ UNCHANGED <<data, bitmap, running, fires>>

-----------------------------------------------------------------------------

(* atomic_dec_if_positive: the new value is stored only when it is not    *)
(* negative.                                                               *)
atomic_dec_if_positive(v) == IF v - 1 >= 0 THEN v - 1 ELSE v

(* The timer expires: ktimer_handler's atomic_dec_if_positive and         *)
(* atomic_xor(0xff, &bitmap).                                             *)
ktimer_handler ==
    /\ armed /\ ~running /\ fires < MaxFires
    /\ data' = atomic_dec_if_positive(data)
    /\ bitmap' = bitmap ^^ 255
    /\ armed' = FALSE /\ running' = TRUE /\ fires' = fires + 1
    /\ UNCHANGED ipc

(* mod_timer re-arms the timer and the handler returns.                    *)
ktimer_handler_rearm ==
    /\ running
    /\ armed' = TRUE /\ running' = FALSE
    /\ UNCHANGED <<data, bitmap, ipc, fires>>

Next ==
    \/ ktimer_init \/ ktimer_exit \/ ktimer_handler \/ ktimer_handler_rearm

Spec == Init /\ [][Next]_vars

(* insmod runs to its end, and the periodic timer keeps expiring; rmmod   *)
(* carries no fairness.                                                    *)
Fairness ==
    /\ WF_vars(ktimer_init) /\ WF_vars(ktimer_handler)
    /\ WF_vars(ktimer_handler_rearm)

FairSpec == Spec /\ Fairness

====
