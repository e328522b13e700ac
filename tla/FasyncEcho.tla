----------------------------- MODULE FasyncEcho -----------------------------
(***************************************************************************)
(* Chapter07/chrdev_fasync.c against one device of chrdev_irq.c.  The     *)
(* program opens the device, installs sigio_handler for SIGIO, makes      *)
(* itself the file's owner and sets FASYNC; its handler reads one byte    *)
(* and writes it to stdout.  The driver's hrtimer stores a byte unless    *)
(* the ring is full and then, outside the spinlock, calls kill_fasync.    *)
(* SIGIO is a standard signal: one pending bit, so signals sent while one *)
(* is pending coalesce, and signal() blocks SIGIO while its handler runs. *)
(* The program is the device's only reader (its main loop reads fd 1,     *)
(* not the device), so the ring is kept as its length n: by               *)
(* RingRefinesFifo it is a FIFO, and only the position of one byte,       *)
(* followed by the ghost tag, matters to the property.                    *)
(***************************************************************************)
EXTENDS Naturals

CONSTANTS
    Cap         \* bytes the ring holds (BUF_LEN - 1)

ASSUME Cap \in Nat \ {0}

VARIABLES
    registered, \* the device is registered and its hrtimer runs
    n,          \* unread bytes in the ring
    tpc,        \* the hrtimer handler: "idle", or "wake" after spin_unlock
    pending,    \* SIGIO is pending on the program
    hpc,        \* sigio_handler: "idle", "read", "write"
    mpc,        \* main: "open", "setown", "setfl", "loop", "exit"
    subscribed, \* the file is on chrdev->fasync_queue
    tag         \* ghost: position in the ring of the byte followed (0: none)

vars == <<registered, n, tpc, pending, hpc, mpc, subscribed, tag>>

TypeOK ==
    /\ registered \in BOOLEAN /\ n \in 0 .. Cap /\ tpc \in {"idle", "wake"}
    /\ pending \in BOOLEAN /\ hpc \in {"idle", "read", "write"}
    /\ mpc \in {"open", "setown", "setfl", "loop", "exit"}
    /\ subscribed \in BOOLEAN /\ tag \in 0 .. Cap

\* The timer has been storing bytes since register: any backlog may be there.
Init ==
    /\ registered = TRUE /\ n \in 0 .. Cap /\ tpc = "idle" /\ pending = FALSE
    /\ hpc = "idle" /\ mpc = "open" /\ subscribed = FALSE /\ tag = 0

-----------------------------------------------------------------------------
(* main: open(argv[1], O_RDWR); a failure is perror and exit.             *)
main_open ==
    /\ mpc = "open"
    /\ mpc' \in {"setown", "exit"}
    /\ UNCHANGED <<registered, n, tpc, pending, hpc, subscribed, tag>>

(* signal(SIGIO, sigio_handler), fcntl(F_SETOWN, getpid()) and            *)
(* fcntl(F_GETFL); each failure is perror and exit.                       *)
main_setown ==
    /\ mpc = "setown"
    /\ mpc' \in {"setfl", "exit"}
    /\ UNCHANGED <<registered, n, tpc, pending, hpc, subscribed, tag>>

(* fcntl(F_SETFL, flags | FASYNC) calls chrdev_fasync -> fasync_helper,   *)
(* which may fail (-ENOMEM); the code then tests flags, not ret, and      *)
(* enters the loop without being subscribed.                              *)
main_setfl ==
    /\ mpc = "setfl"
    /\ subscribed' \in BOOLEAN
    /\ mpc' = "loop"
    /\ UNCHANGED <<registered, n, tpc, pending, hpc, tag>>

-----------------------------------------------------------------------------
(* chrdev_timer_handler under chrdev->lock: store get_new_char() at head  *)
(* unless the ring is full.  The ghost may start following the new byte.  *)
chrdev_timer_handler ==
    /\ registered /\ tpc = "idle"
    /\ n' = IF n < Cap THEN n + 1 ELSE n
    /\ tag' \in IF n < Cap /\ tag = 0 THEN {0, n + 1} ELSE {tag}
    /\ tpc' = "wake"
    /\ UNCHANGED <<registered, pending, hpc, mpc, subscribed>>

\* Faulty variant: SIGIO sent only when the ring holds a single byte, as if
\* subscribers had to be told only when it stops being empty.
kill_fasync_edge == pending' = (pending \/ (subscribed /\ n = 1))

(* kill_fasync(&fasync_queue, SIGIO, POLL_IN): SIGIO is made pending for  *)
(* the owner of every subscribed file, whatever was stored.               *)
kill_fasync == pending' = (pending \/ subscribed)

(* wake_up_interruptible, kill_fasync, hrtimer_forward_now and            *)
(* HRTIMER_RESTART.                                                        *)
chrdev_timer_wake ==
    /\ tpc = "wake"
    /\ kill_fasync
    /\ tpc' = "idle"
    /\ UNCHANGED <<registered, n, hpc, mpc, subscribed, tag>>

-----------------------------------------------------------------------------
(* A pending SIGIO is delivered when the handler is not running (SIGIO    *)
(* is blocked inside it): the bit is cleared and sigio_handler entered.   *)
SigioDeliver ==
    /\ pending /\ hpc = "idle"
    /\ pending' = FALSE /\ hpc' = "read"
    /\ UNCHANGED <<registered, n, tpc, mpc, subscribed, tag>>

(* read(fd, &c, 1): chrdev_read sleeps in wait_event_interruptible until  *)
(* the ring is not empty (SIGIO, blocked, cannot interrupt it), then      *)
(* copies the oldest byte and moves the tail.                              *)
sigio_handler_read ==
    /\ hpc = "read" /\ n > 0
    /\ n' = n - 1
    /\ tag' = IF tag > 0 THEN tag - 1 ELSE 0
    /\ hpc' = "write"
    /\ UNCHANGED <<registered, tpc, pending, mpc, subscribed>>

(* write(STDOUT_FILENO, &c, 1) and the handler returns.                   *)
sigio_handler_write ==
    /\ hpc = "write"
    /\ hpc' = "idle"
    /\ UNCHANGED <<registered, n, tpc, pending, mpc, subscribed, tag>>

Next ==
    \/ main_open \/ main_setown \/ main_setfl
    \/ chrdev_timer_handler \/ chrdev_timer_wake
    \/ SigioDeliver \/ sigio_handler_read \/ sigio_handler_write

Spec == Init /\ [][Next]_vars

(* The hrtimer is periodic; the kernel delivers a pending, unblocked      *)
(* signal when the task runs, and runs a task that is woken.              *)
Fairness ==
    /\ WF_vars(main_open) /\ WF_vars(main_setown) /\ WF_vars(main_setfl)
    /\ WF_vars(chrdev_timer_handler) /\ WF_vars(chrdev_timer_wake)
    /\ WF_vars(SigioDeliver) /\ WF_vars(sigio_handler_read)
    /\ WF_vars(sigio_handler_write)

FairSpec == Spec /\ Fairness

-----------------------------------------------------------------------------
(* Once the program is subscribed, every byte in the ring is eventually   *)
(* echoed, though SIGIOs coalesce and each handler run reads one byte:    *)
(* every timer period sends a SIGIO again, so the backlog a coalesced     *)
(* signal leaves behind is read one period later.                         *)
EveryByteEchoed == (tag > 0 /\ subscribed) ~> (tag = 0)
====
