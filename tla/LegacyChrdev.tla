---------------------------- MODULE LegacyChrdev ----------------------------
(***************************************************************************)
(* Chapter03/chrdev_legacy/chrdev_legacy.c: a module whose init registers *)
(* the file operations under a dynamic major with register_chrdev and    *)
(* whose exit unregisters them.  read returns 0, write advances *ppos by  *)
(* count and returns count; open and release only log.  No method sleeps  *)
(* or takes a lock, so each system call is one step.  chrdev_fops.owner   *)
(* is THIS_MODULE: the VFS takes a module reference at open (fops_get,    *)
(* which fails once rmmod has begun) and drops it at release, and         *)
(* delete_module refuses a module whose count is not zero.                *)
(***************************************************************************)
EXTENDS Naturals

CONSTANTS
    Users,      \* processes that open the device node
    Counts,     \* write() count arguments
    MaxPos      \* bound on f_pos explored

ASSUME Counts \subseteq Nat \ {0} /\ MaxPos \in Nat

VARIABLES
    registered, \* register_chrdev has succeeded and unregister_chrdev not run
    mstate,     \* the module: "load", "live", "failed", "going", "unloaded"
    refs,       \* module references held by open files
    opened,     \* the users with the node open
    fpos,       \* f_pos of each user's file
    rv          \* what each user's last read or write returned

vars == <<registered, mstate, refs, opened, fpos, rv>>

TypeOK ==
    /\ registered \in BOOLEAN
    /\ mstate \in {"load", "live", "failed", "going", "unloaded"}
    /\ refs \in Nat /\ opened \subseteq Users
    /\ fpos \in [Users -> 0 .. MaxPos] /\ rv \in [Users -> {0} \cup Counts]

Init ==
    /\ registered = FALSE /\ mstate = "load" /\ refs = 0
    /\ opened = {} /\ fpos = [u \in Users |-> 0] /\ rv = [u \in Users |-> 0]

-----------------------------------------------------------------------------
(* chrdev_init: register_chrdev(0, "chrdev", &chrdev_fops) returns a     *)
(* major, or an error that init returns (the module is then freed).       *)
chrdev_init ==
    /\ mstate = "load"
    /\ \/ registered' = TRUE /\ mstate' = "live"
       \/ mstate' = "failed" /\ UNCHANGED registered
    /\ UNCHANGED <<refs, opened, fpos, rv>>

\* Faulty variant: chrdev_fops without .owner; no reference is taken.
LegacyOwner_none == FALSE

(* .owner = THIS_MODULE.                                                   *)
LegacyOwner == TRUE

(* open() of the node: chrdev_open in fs/char_dev.c finds the fops by the *)
(* major while they are registered and pins their owner (try_module_get  *)
(* fails once rmmod has begun), then chrdev_open logs and returns 0.      *)
chrdev_open(u) ==
    /\ u \notin opened /\ registered /\ mstate = "live"
    /\ opened' = opened \cup {u}
    /\ refs' = IF LegacyOwner THEN refs + 1 ELSE refs
    /\ fpos' = [fpos EXCEPT ![u] = 0]
    /\ UNCHANGED <<registered, mstate, rv>>

(* chrdev_read logs "return EOF" and returns 0; f_pos is left alone.      *)
chrdev_read(u) ==
    /\ u \in opened
    /\ rv' = [rv EXCEPT ![u] = 0]
    /\ UNCHANGED <<registered, mstate, refs, opened, fpos>>

(* chrdev_write: *ppos += count, return count.                             *)
chrdev_write(u) ==
    /\ u \in opened
    /\ \E c \in Counts :
         /\ fpos[u] + c <= MaxPos
         /\ fpos' = [fpos EXCEPT ![u] = fpos[u] + c]
         /\ rv' = [rv EXCEPT ![u] = c]
    /\ UNCHANGED <<registered, mstate, refs, opened>>

(* close(): chrdev_release logs; __fput then drops the module reference.  *)
chrdev_release(u) ==
    /\ u \in opened
    /\ opened' = opened \ {u}
    /\ refs' = IF LegacyOwner THEN refs - 1 ELSE refs
    /\ UNCHANGED <<registered, mstate, fpos, rv>>

(* rmmod: delete_module refuses a module with references (-EWOULDBLOCK); *)
(* otherwise the module is going and no new reference can be taken.      *)
RmmodStart ==
    /\ mstate = "live" /\ refs = 0
    /\ mstate' = "going"
    /\ UNCHANGED <<registered, refs, opened, fpos, rv>>

(* chrdev_exit: unregister_chrdev(major, "chrdev"); the module is freed.  *)
chrdev_exit ==
    /\ mstate = "going"
    /\ registered' = FALSE /\ mstate' = "unloaded"
    /\ UNCHANGED <<refs, opened, fpos, rv>>

Next ==
    \/ chrdev_init \/ RmmodStart \/ chrdev_exit
    \/ \E u \in Users :
         chrdev_open(u) \/ chrdev_read(u) \/ chrdev_write(u) \/ chrdev_release(u)

Spec == Init /\ [][Next]_vars

-----------------------------------------------------------------------------
(* Every open file reaches methods that are still registered, in a module *)
(* that has not begun to unload: rmmod, however it interleaves with open  *)
(* and close calls, is refused until the last close, because each open  *)
(* file holds a reference through chrdev_fops.owner.                      *)
NoMethodAfterUnload == opened # {} => registered /\ mstate = "live"
====
