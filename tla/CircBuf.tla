------------------------------ MODULE CircBuf ------------------------------
(***************************************************************************)
(* The circular-buffer helpers of Chapter07/chrdev/chrdev_irq.c.  Cursors *)
(* are indices 0..len-1; one slot is sacrificed so that head = tail means *)
(* empty.  Each operator translates one static inline function.           *)
(***************************************************************************)
EXTENDS Naturals, Sequences

cbuf_is_empty(head, tail, len) == head = tail

cbuf_is_full(head, tail, len) == (head + 1) % len = tail

\* Faulty variant (off by one when the data does not wrap).
cbuf_count_to_end_plus1(head, tail, len) ==
    IF head >= tail THEN head - tail + 1 ELSE len - tail + head

\* Despite its name the code returns the total number of unread bytes
\* when the data wraps (len - tail + head), not the bytes up to the end.
cbuf_count_to_end(head, tail, len) ==
    IF head >= tail THEN head - tail ELSE len - tail + head

\* Faulty variant (the modulo forgotten).
cbuf_pointer_move_nowrap(ptr, n, len) == ptr + n

cbuf_pointer_move(ptr, n, len) == (ptr + n) % len

(***************************************************************************)
(* Reference definition, not code: the unread bytes of a ring as a        *)
(* sequence, oldest first.                                                 *)
(***************************************************************************)
Unread(buf, head, tail, len) ==
    [i \in 1 .. ((head + len - tail) % len) |-> buf[(tail + i - 1) % len]]

=============================================================================
