------------------------------ MODULE TwoSlots ------------------------------
(***************************************************************************)
(* The store of the undo archive (nagi-history/src/guest.rs) and of the    *)
(* activity ledger (nagi-history/src/activity_ledger.rs): two files, of    *)
(* which a write replaces the one that is not in use.  A file is Missing,  *)
(* Torn (its checksums do not match) or what was written.  Generations     *)
(* only tell which of two valid files is the newer one: `newest'.          *)
(***************************************************************************)
CONSTANTS Missing, Torn

ASSUME SlotConstants == Missing # Torn

Slot == {"A", "B"}

other(s) == IF s = "A" THEN "B" ELSE "A"

NoStore == [slot |-> [s \in Slot |-> Missing], newest |-> "A"]

(* The slots decode_slot accepts. *)
Valid(st) == {s \in Slot : st.slot[s] \notin {Missing, Torn}}

IsNew(st) == \A s \in Slot : st.slot[s] = Missing

CorruptArchive(st) == Valid(st) = {} /\ ~IsNew(st)

active_slot(st) ==
  IF Valid(st) = Slot THEN st.newest ELSE IF "A" \in Valid(st) THEN "A" ELSE "B"

(* load_archive, of a store that holds an archive. *)
load_archive(st) == st.slot[active_slot(st)]

(* Mutant: the archive in use is overwritten. *)
TargetInPlace(st) == active_slot(st)

target(st) == other(active_slot(st))

(* write_archive, to a store that is not corrupt. *)
Written(st, v) == [slot |-> [st.slot EXCEPT ![target(st)] = v], newest |-> target(st)]

(* What is left by a write that fails or is cut short. *)
TornWrite(st) == [slot |-> [st.slot EXCEPT ![target(st)] = Torn], newest |-> st.newest]
Interrupted(st, v) == {st, TornWrite(st), Written(st, v)}
=============================================================================
