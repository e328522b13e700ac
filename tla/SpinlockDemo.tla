----------------------------- MODULE SpinlockDemo -----------------------------
(***************************************************************************)
(* Chapter05/atomic/spinlock.c: module init arms a kernel timer that      *)
(* expires at once (mod_timer(jiffies)), then increments sinfo.data under *)
(* sinfo.lock; the timer handler, run from the timer softirq, increments  *)
(* the same counter under the same lock and re-arms the timer; module     *)
(* exit stops it with del_timer_sync.                                     *)
(*                                                                         *)
(* The init task runs on InitCPU.  The handler runs on any CPU; on        *)
(* InitCPU it interrupts the init task, which spin_lock (unlike           *)
(* spin_lock_bh) does not prevent, and the task cannot run until the      *)
(* handler returns.  data++ is a load and a store.                        *)
(***************************************************************************)
EXTENDS Naturals

CONSTANTS
    CPUs,       \* the CPUs the timer softirq may run on
    InitCPU,    \* the CPU insmod runs ktimer_init on
    MaxFires,   \* bound on the handler runs explored
    None

ASSUME InitCPU \in CPUs /\ MaxFires \in Nat

VARIABLES
    lock,     \* holder of sinfo.lock: "init", "timer" or None
    data,     \* sinfo.data
    armed,    \* sinfo.timer is pending
    ipc,      \* module code in process context: init, then exit
    ireg,     \* the init task's register for data++
    tpc,      \* where the handler is
    tcpu,     \* the CPU it runs on
    treg,     \* its register for data++
    fires,    \* handler runs started (bounded by MaxFires)
    incs      \* increments completed (history)

vars == <<lock, data, armed, ipc, ireg, tpc, tcpu, treg, fires, incs>>

IPcs == {"load", "lock", "inc_load", "inc_store", "unlock", "loaded", "unloaded"}
TPcs == {"idle", "lock", "inc_load", "inc_store", "unlock"}

TypeOK ==
    /\ lock \in {"init", "timer", None} /\ data \in Nat /\ armed \in BOOLEAN
    /\ ipc \in IPcs /\ ireg \in Nat /\ tpc \in TPcs
    /\ tcpu \in CPUs \cup {None} /\ treg \in Nat
    /\ fires \in 0 .. MaxFires /\ incs \in Nat

Init ==
    /\ lock = None /\ data = 0 /\ armed = FALSE
    /\ ipc = "load" /\ ireg = 0
    /\ tpc = "idle" /\ tcpu = None /\ treg = 0
    /\ fires = 0 /\ incs = 0

\* The init task runs unless the handler occupies its CPU.
TaskRuns == ~(tpc # "idle" /\ tcpu = InitCPU)

-----------------------------------------------------------------------------
(* ktimer_init: spin_lock_init, timer_setup, mod_timer(jiffies).          *)
ktimer_init_setup ==
    /\ ipc = "load"
    /\ lock' = None /\ armed' = TRUE /\ ipc' = "lock"
    /\ UNCHANGED <<data, ireg, tpc, tcpu, treg, fires, incs>>

(* spin_lock(&sinfo.lock) in process context.                             *)
ktimer_init_lock ==
    /\ ipc = "lock" /\ TaskRuns /\ lock = None
    /\ lock' = "init" /\ ipc' = "inc_load"
    /\ UNCHANGED <<data, armed, ireg, tpc, tcpu, treg, fires, incs>>

(* sinfo.data++ ...                                                        *)
ktimer_init_load ==
    /\ ipc = "inc_load" /\ TaskRuns
    /\ ireg' = data /\ ipc' = "inc_store"
    /\ UNCHANGED <<lock, data, armed, tpc, tcpu, treg, fires, incs>>

ktimer_init_store ==
    /\ ipc = "inc_store" /\ TaskRuns
    /\ data' = ireg + 1 /\ incs' = incs + 1 /\ ipc' = "unlock"
    /\ UNCHANGED <<lock, armed, ireg, tpc, tcpu, treg, fires>>

(* spin_unlock, and the module is loaded.                                 *)
ktimer_init_unlock ==
    /\ ipc = "unlock" /\ TaskRuns
    /\ lock' = None /\ ipc' = "loaded"
    /\ UNCHANGED <<data, armed, ireg, tpc, tcpu, treg, fires, incs>>

(* ktimer_exit: del_timer_sync waits for a running handler (which may re- *)
(* arm) and leaves the timer inactive.                                     *)
ktimer_exit ==
    /\ ipc = "loaded" /\ tpc = "idle"
    /\ armed' = FALSE /\ ipc' = "unloaded"
    /\ UNCHANGED <<lock, data, ireg, tpc, tcpu, treg, fires, incs>>

-----------------------------------------------------------------------------
(* The timer expires: the softirq of CPU c runs ktimer_handler.           *)
TimerExpire(c) ==
    /\ armed /\ tpc = "idle" /\ fires < MaxFires
    /\ armed' = FALSE /\ tpc' = "lock" /\ tcpu' = c /\ fires' = fires + 1
    /\ UNCHANGED <<lock, data, ipc, ireg, treg, incs>>

(* spin_lock(&sinfo.lock): spins while the lock is held.                   *)
ktimer_handler_lock ==
    /\ tpc = "lock" /\ lock = None
    /\ lock' = "timer" /\ tpc' = "inc_load"
    /\ UNCHANGED <<data, armed, ipc, ireg, tcpu, treg, fires, incs>>

(* info->data++ ...                                                        *)
ktimer_handler_load ==
    /\ tpc = "inc_load"
    /\ treg' = data /\ tpc' = "inc_store"
    /\ UNCHANGED <<lock, data, armed, ipc, ireg, tcpu, fires, incs>>

ktimer_handler_store ==
    /\ tpc = "inc_store"
    /\ data' = treg + 1 /\ incs' = incs + 1 /\ tpc' = "unlock"
    /\ UNCHANGED <<lock, armed, ipc, ireg, tcpu, treg, fires>>

(* spin_unlock, then mod_timer re-arms the timer and the handler returns. *)
ktimer_handler_unlock ==
    /\ tpc = "unlock"
    /\ lock' = IF lock = "timer" THEN None ELSE lock
    /\ armed' = TRUE /\ tpc' = "idle" /\ tcpu' = None
    /\ UNCHANGED <<data, ipc, ireg, treg, fires, incs>>

Next ==
    \/ ktimer_init_setup \/ ktimer_init_lock \/ ktimer_init_load
    \/ ktimer_init_store \/ ktimer_init_unlock \/ ktimer_exit
    \/ \E c \in CPUs : TimerExpire(c)
    \/ ktimer_handler_lock \/ ktimer_handler_load \/ ktimer_handler_store
    \/ ktimer_handler_unlock

Spec == Init /\ [][Next]_vars

(* The scheduler runs the init task whenever its CPU is free, and a       *)
(* softirq runs to completion; the timer, periodic, keeps expiring.       *)
(* rmmod is a user's choice and carries no fairness.                      *)
FairSpec ==
    /\ Spec
    /\ WF_vars(ktimer_init_setup) /\ WF_vars(ktimer_init_lock)
    /\ WF_vars(ktimer_init_load) /\ WF_vars(ktimer_init_store)
    /\ WF_vars(ktimer_init_unlock)
    /\ \A c \in CPUs : WF_vars(TimerExpire(c))
    /\ WF_vars(ktimer_handler_lock) /\ WF_vars(ktimer_handler_load)
    /\ WF_vars(ktimer_handler_store) /\ WF_vars(ktimer_handler_unlock)

-----------------------------------------------------------------------------
(* Loading the module completes: ktimer_init returns.                      *)
InitReturns == <>(ipc \in {"loaded", "unloaded"})
====
