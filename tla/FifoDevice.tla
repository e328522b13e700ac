----------------------------- MODULE FifoDevice -----------------------------
(***************************************************************************)
(* What one device slot promises its users (spec.md sections 3, 4.1, 4.2): *)
(* while registered it is a bounded FIFO of bytes of capacity Cap; the    *)
(* producer appends a byte only when there is room (a unit that arrives   *)
(* on a full queue is dropped, which leaves the queue unchanged); a read  *)
(* removes a non-empty prefix; registering starts from an empty queue.    *)
(***************************************************************************)
EXTENDS Naturals, Sequences

CONSTANTS Cap, Bytes

VARIABLES registered, queue

vars == <<registered, queue>>

TypeOK == registered \in BOOLEAN /\ queue \in Seq(Bytes) /\ Len(queue) <= Cap

Init == ~registered /\ queue = <<>>

Register == ~registered /\ registered' /\ queue' = <<>>

Unregister == registered /\ ~registered' /\ queue' = <<>>

Put == /\ registered /\ Len(queue) < Cap
       /\ \E x \in Bytes : queue' = Append(queue, x)
       /\ UNCHANGED registered

Take == /\ registered
        /\ \E k \in 1 .. Len(queue) : queue' = SubSeq(queue, k + 1, Len(queue))
        /\ UNCHANGED registered

Next == Register \/ Unregister \/ Put \/ Take

Spec == Init /\ [][Next]_vars
=============================================================================
