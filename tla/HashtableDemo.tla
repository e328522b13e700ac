---------------------------- MODULE HashtableDemo ----------------------------
(***************************************************************************)
(* Chapter06/hashtable/hashtable.c: data_hash, a kernel hash table of     *)
(* 2^1 hlist buckets of h_struct entries.  add_node hashes the datum with *)
(* hash_func and hash_add links the entry at the head of its bucket;      *)
(* del_node walks the bucket of the datum's key and unlinks the first     *)
(* entry holding it.  hashtable_init is one sequence of these calls (add  *)
(* 5, 2, 7, delete 5); the model lets a caller make any sequence of them. *)
(*                                                                         *)
(* hash_add and hash_for_each_possible do not index the table with the    *)
(* key itself: they take the bucket hash_min(key, HASH_BITS), which for a *)
(* 32-bit key is hash_32 (include/linux/hash.h), the top bits of          *)
(* key * GOLDEN_RATIO_32 modulo 2^32.                                      *)
(***************************************************************************)
EXTENDS Integers, Sequences, SequencesExt, FiniteSets

CONSTANTS
    Values,      \* data the caller puts in entries
    MaxEntries   \* bound on the h_struct objects created

ASSUME Values \subseteq Int /\ MaxEntries \in Nat

HASH_BITS == 1
Buckets == 0 .. 2^HASH_BITS - 1
Entries == [data : Values, id : 1 .. MaxEntries]

VARIABLES
    data_hash,   \* bucket -> its hlist, from the head
    created,     \* entries created so far (the id of the last one)
    live         \* the entries linked in, as a set (the reference state)

vars == <<data_hash, created, live>>

TypeOK ==
    /\ data_hash \in [Buckets -> Seq(Entries)]
    /\ created \in 0 .. MaxEntries /\ live \subseteq Entries

Init == data_hash = [b \in Buckets |-> <<>>] /\ created = 0 /\ live = {}

-----------------------------------------------------------------------------
(* hash_func: data % 2, where C's % truncates toward zero.                *)
hash_func(data) == IF data < 0 THEN -((-data) % 2) ELSE data % 2

(* hash_32(val, 1): bit 31 of val * 0x61C88647 taken modulo 2^32, as the   *)
(* floor of the product over 2^31 (in two steps, within TLC's integers;   *)
(* keys are hash_func results, so the product fits).                      *)
GOLDEN_RATIO_32 == 1640531527
hash_min(key) == (((key * GOLDEN_RATIO_32) \div 2^16) \div 2^15) % 2

(* add_node: hash_add(data_hash, &new->node, key), i.e. hlist_add_head.   *)
add_node(x) ==
    LET new == [data |-> x, id |-> created + 1]
        b   == hash_min(hash_func(x))
    IN
    /\ created < MaxEntries
    /\ data_hash' = [data_hash EXCEPT ![b] = <<new>> \o @]
    /\ created' = created + 1
    /\ live' = live \cup {new}

\* Faulty variant: hash_for_each_possible_safe without the return, which
\* unlinks every match (with the plain iterator the walk would go on
\* through the poisoned next pointer of the entry just deleted).
del_node_all(x) ==
    LET b == hash_min(hash_func(x)) IN
    /\ data_hash' = [data_hash EXCEPT ![b] = SelectSeq(@, LAMBDA e : e.data # x)]
    /\ live' = live \ {e \in live : e.data = x /\
                                    \A f \in live : f.data = x => e.id >= f.id}
    /\ UNCHANGED created

(* del_node: hash_for_each_possible over the key's bucket, hash_del of     *)
(* the first entry with the datum, then return.                           *)
del_node(x) ==
    LET b == hash_min(hash_func(x)) IN
    /\ data_hash' = [data_hash EXCEPT ![b] = RemoveFirstMatch(@, LAMBDA e : e.data = x)]
    /\ live' = live \ {e \in live : e.data = x /\
                                    \A f \in live : f.data = x => e.id >= f.id}
    /\ UNCHANGED created

Next == \E x \in Values : add_node(x) \/ del_node(x)

Spec == Init /\ [][Next]_vars

-----------------------------------------------------------------------------
(* Reference order of a bucket: newest entry first.                       *)
Newer(a, b) == a.id > b.id

(* Every bucket holds exactly the live entries whose key hashes to it,    *)
(* newest first, and del_node removes the newest entry of a datum: add    *)
(* and delete agree on the bucket, and deleting one entry leaves its      *)
(* equal-valued siblings linked.                                           *)
BucketsMatchReference ==
    \A b \in Buckets :
        data_hash[b] = SetToSortSeq({e \in live : hash_min(hash_func(e.data)) = b}, Newer)
=============================================================================
