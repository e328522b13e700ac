----------------------------- MODULE GetNewChar -----------------------------
(***************************************************************************)
(* get_new_char of Chapter07/chrdev/chrdev_irq.c keeps one static char d   *)
(* for all devices, and the hrtimer handlers of different devices may run *)
(* on different CPUs at once.  `++d`, the comparison and `return d` are   *)
(* then unsynchronised loads and stores (a data race): each CPU loads d,  *)
(* stores d + 1, compares its own value and returns either that value or  *)
(* a fresh load of d (what the compiler emits is not fixed).  A char is 8 *)
(* bits, so arithmetic is modulo 256; values are the character codes.     *)
(***************************************************************************)
EXTENDS Naturals

CONSTANTS
    CPUs         \* one hrtimer handler (of one device) per element

CharA == 65      \* 'A'
CharZ == 90      \* 'Z'

VARIABLES d, pc, r, ret

vars == <<d, pc, r, ret>>

TypeOK ==
    /\ d \in 0 .. 255
    /\ pc \in [CPUs -> {"load", "store", "check"}]
    /\ r \in [CPUs -> 0 .. 255] /\ ret \in [CPUs -> 0 .. 255]

Init ==
    /\ d = CharA - 1
    /\ pc = [c \in CPUs |-> "load"]
    /\ r = [c \in CPUs |-> 0] /\ ret = [c \in CPUs |-> CharA]

(* ++d: load ...                                                           *)
Load(c) ==
    /\ pc[c] = "load"
    /\ r' = [r EXCEPT ![c] = d]
    /\ pc' = [pc EXCEPT ![c] = "store"]
    /\ UNCHANGED <<d, ret>>

(* ... add one and store.                                                  *)
Store(c) ==
    /\ pc[c] = "store"
    /\ r' = [r EXCEPT ![c] = (@ + 1) % 256]
    /\ d' = (r[c] + 1) % 256
    /\ pc' = [pc EXCEPT ![c] = "check"]
    /\ UNCHANGED ret

(* if (++d == 'Z' + 1) d = 'A'; return d;                                   *)
Check(c) ==
    /\ pc[c] = "check"
    /\ IF r[c] = CharZ + 1
         THEN d' = CharA /\ ret' = [ret EXCEPT ![c] = CharA]
         ELSE /\ UNCHANGED d
              /\ \E v \in {r[c], d} : ret' = [ret EXCEPT ![c] = v]
    /\ pc' = [pc EXCEPT ![c] = "load"]
    /\ UNCHANGED r

Next == \E c \in CPUs : Load(c) \/ Store(c) \/ Check(c)

Spec == Init /\ [][Next]_vars

(* Every character get_new_char hands to chrdev_timer_handler is a capital *)
(* letter, 'A' .. 'Z', however the handlers of the devices interleave.    *)
CharsAreLetters == \A c \in CPUs : ret[c] \in CharA .. CharZ
=============================================================================
