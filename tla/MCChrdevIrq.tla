---------------------------- MODULE MCChrdevIrq ----------------------------
(***************************************************************************)
(* Model-checking harness for ChrdevIrq: the refinement of slot 0 to the  *)
(* abstract bounded FIFO of FifoDevice, and the user set as a symmetry    *)
(* set for the safety-only runs.                                           *)
(***************************************************************************)
EXTENDS ChrdevIrq, TLC

(* Slot 0's ring, read between tail and head, is a FifoDevice queue of     *)
(* capacity BUF_LEN - 1; a freed slot maps to an unregistered device.      *)
Slot0 == INSTANCE FifoDevice
           WITH Cap <- BUF_LEN - 1,
                registered <- busy[0],
                queue <- IF busy[0] THEN Window(0) ELSE <<>>

(* The ring of slot 0 implements the bounded FIFO: the handler appends    *)
(* only when there is room, reads remove a prefix, and (un)registering    *)
(* empties it.                                                             *)
RingRefinesFifo == Slot0!Spec

UserSymmetry == Permutations(Users)

(* States that differ only in ring bytes outside the unread window, or in  *)
(* the ghosts tmp, rv and ulen, behave alike: no step reads a stale byte  *)
(* (reads past the window return arbitrary bytes anyway) and no step reads *)
(* the ghosts.  Runs whose properties do not mention them use this view.  *)
BehaviourView ==
    <<busy, alloc, label, [s \in Slots |-> Window(s)], head, tail, mux, waitq,
      fasync, timer, running, cdev, d, pending, busRet, pc, fd, cnt, nonblock,
      sig>>
=============================================================================
