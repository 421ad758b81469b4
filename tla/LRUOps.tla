------------------------------- MODULE LRUOps -------------------------------
(***************************************************************************)
(* The operations of the LRU lists of src/src/LRU/LRU_List.c on the value  *)
(* of one list.  A list is a record: the entries from plru->LRU to         *)
(* plru->MRU, each with its data and its valid_state, and the three        *)
(* counters of LRU_list_t.  Every worker keeps two such lists: its queue   *)
(* of pending requests and the expiry queue of its duplicate requests.     *)
(***************************************************************************)
EXTENDS Integers, Sequences

CONSTANT NbCallGcInvalid    \* parameter.nb_call_gc_invalid

ASSUME NbCallGcInvalidAssumption == NbCallGcInvalid \in Nat

LRU_Init == [entries |-> <<>>, nb_entry |-> 0, nb_invalid |-> 0, nb_call_gc |-> 0]

(***************************************************************************)
(* nb_call_gc is never reset and only compared with its threshold, so that *)
(* counting up to the threshold is enough.                                 *)
(***************************************************************************)
CountCallGc(n) == IF n < NbCallGcInvalid THEN n + 1 ELSE n

(***************************************************************************)
(* A new entry, valid, at the MRU end; its data is set by the caller       *)
(* before anybody else looks at the list.                                  *)
(***************************************************************************)
LRU_new_entry(l, data) ==
    [entries    |-> Append(l.entries, [data |-> data, valid |-> TRUE]),
     nb_entry   |-> l.nb_entry + 1,
     nb_invalid |-> l.nb_invalid,
     nb_call_gc |-> CountCallGc(l.nb_call_gc)]

(***************************************************************************)
(* Tags the i-th entry; tagging it twice counts once.                      *)
(***************************************************************************)
LRU_invalidate(l, i) ==
    IF l.entries[i].valid
    THEN [l EXCEPT !.entries[i].valid = FALSE, !.nb_invalid = @ + 1]
    ELSE l

(***************************************************************************)
(* LRU_gc_invalid does something only if there are invalid entries, there  *)
(* is more than one entry, and the list has grown often enough.            *)
(***************************************************************************)
LRU_gc_runs(l) ==
    /\ l.nb_invalid # 0
    /\ Len(l.entries) > 1
    /\ l.nb_call_gc >= NbCallGcInvalid

(***************************************************************************)
(* The entries from the LRU to the one before the MRU, and the MRU.        *)
(***************************************************************************)
BeforeMRU(l) == SubSeq(l.entries, 1, Len(l.entries) - 1)
MRU(l) == l.entries[Len(l.entries)]

IsValid(e) == e.valid
IsInvalid(e) == ~e.valid

(***************************************************************************)
(* The entries that LRU_gc_invalid hands to clean_entry and puts back to   *)
(* the pool, in the order in which it does.  An error of clean_entry is    *)
(* only reported.                                                          *)
(***************************************************************************)
LRU_gc_removed(l) ==
    IF LRU_gc_runs(l) THEN SelectSeq(BeforeMRU(l), IsInvalid) ELSE <<>>

\* Mutant of LRU_gc_invalid: nb_invalid is reset in place of decremented.
LRU_gc_invalid_Reset(l) ==
    IF LRU_gc_runs(l)
    THEN [l EXCEPT !.entries = Append(SelectSeq(BeforeMRU(l), IsValid), MRU(l)),
                   !.nb_entry = @ - Len(LRU_gc_removed(l)),
                   !.nb_invalid = 0]
    ELSE l

LRU_gc_invalid(l) ==
    IF LRU_gc_runs(l)
    THEN [l EXCEPT !.entries = Append(SelectSeq(BeforeMRU(l), IsValid), MRU(l)),
                   !.nb_entry = @ - Len(LRU_gc_removed(l)),
                   !.nb_invalid = @ - Len(LRU_gc_removed(l))]
    ELSE l

(***************************************************************************)
(* Tags every entry before the MRU whose data is in the set that testfunc  *)
(* accepts.                                                                *)
(***************************************************************************)
LRU_invalidate_by_function(l, testfunc) ==
    LET Tagged(i) == i < Len(l.entries) /\ l.entries[i].valid /\ l.entries[i].data \in testfunc
        tag(i) == IF Tagged(i) THEN [l.entries[i] EXCEPT !.valid = FALSE] ELSE l.entries[i]
        IsTagged(e) == e.valid /\ e.data \in testfunc
    IN  IF Len(l.entries) <= 1
        THEN l
        ELSE [l EXCEPT !.entries = [i \in 1 .. Len(l.entries) |-> tag(i)],
                       !.nb_invalid = @ + Len(SelectSeq(BeforeMRU(l), IsTagged))]
=============================================================================
