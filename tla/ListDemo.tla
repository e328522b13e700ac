------------------------------ MODULE ListDemo ------------------------------
(***************************************************************************)
(* Chapter06/list/list.c: the ordered kernel list data_list of l_struct   *)
(* entries.  add_ordered_entry walks the list and links the new entry in  *)
(* front of the first entry with a smaller datum, or at the tail;         *)
(* del_entry unlinks the first entry holding the datum.  list_init is one *)
(* sequence of these calls (add 5, 1, 7, delete 5); the model lets a      *)
(* caller make any sequence of them, so that equal data occur.            *)
(*                                                                         *)
(* An entry is a record of its datum and an id giving its creation order: *)
(* the list links struct objects, and two of them may hold equal data.    *)
(***************************************************************************)
EXTENDS Integers, Sequences, SequencesExt, FiniteSets

CONSTANTS
    Values,      \* data the caller puts in entries
    MaxEntries   \* bound on the l_struct objects created

ASSUME Values \subseteq Int /\ MaxEntries \in Nat

Entries == [data : Values, id : 1 .. MaxEntries]

VARIABLES
    data_list,   \* the list, from data_list.next to data_list.prev
    created,     \* entries created so far (the id of the last one)
    live         \* the entries linked in, as a set (the reference state)

vars == <<data_list, created, live>>

TypeOK ==
    /\ data_list \in Seq(Entries) /\ Len(data_list) <= MaxEntries
    /\ created \in 0 .. MaxEntries /\ live \subseteq Entries

Init == data_list = <<>> /\ created = 0 /\ live = {}

-----------------------------------------------------------------------------
\* Faulty variant: the walk stops at an entry with an equal datum too.
InsertBefore_le(entry, new) == entry.data <= new.data

(* The test of the walk: new is linked in front of entry.                *)
InsertBefore(entry, new) == entry.data < new.data

(* add_ordered_entry: list_add_tail(&new->list, ptr) at the first ptr     *)
(* passing the test, else list_add_tail(&new->list, &data_list).          *)
add_ordered_entry(x) ==
    LET new == [data |-> x, id |-> created + 1]
        i   == SelectInSeq(data_list, LAMBDA e : InsertBefore(e, new))
    IN
    /\ created < MaxEntries
    /\ data_list' = IF i = 0 THEN Append(data_list, new)
                             ELSE InsertAt(data_list, i, new)
    /\ created' = created + 1
    /\ live' = live \cup {new}

(* del_entry: list_del of the first entry with the datum; nothing when    *)
(* none has it.                                                           *)
del_entry(x) ==
    /\ data_list' = RemoveFirstMatch(data_list, LAMBDA e : e.data = x)
    /\ live' = live \ {e \in live : e.data = x /\
                                    \A f \in live : f.data = x => e.id <= f.id}
    /\ UNCHANGED created

Next == \E x \in Values : add_ordered_entry(x) \/ del_entry(x)

Spec == Init /\ [][Next]_vars

-----------------------------------------------------------------------------
(* Reference order: larger data first, and among equal data the older     *)
(* entry first.                                                            *)
Precedes(a, b) == a.data > b.data \/ (a.data = b.data /\ a.id < b.id)

(* data_list is the live entries sorted in the reference order: the walk   *)
(* keeps the list in descending order, links a new entry behind the equal *)
(* ones already there, and del_entry removes the oldest entry of a datum. *)
ListIsStableSort == data_list = SetToSortSeq(live, Precedes)
=============================================================================
