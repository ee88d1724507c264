----------------------------- MODULE BootJournal -----------------------------
(***************************************************************************)
(* The two-record boot-control journal (loader/src/ab.rs) as operators on  *)
(* the pair of stored copies.  A copy is a decoded record, Absent, or Torn *)
(* (present, and its checksum does not match).                             *)
(***************************************************************************)
EXTENDS Integers

CONSTANTS
  MAX_BOOT_ATTEMPTS,    \* 3 in the code
  GENERATION_MAX,       \* u64::MAX in the code
  None,                 \* no pending slot, no record, no image
  Absent, Torn

SystemSlot == {"A", "B"}

ASSUME JournalConstants ==
  /\ MAX_BOOT_ATTEMPTS \in Nat \ {0}
  /\ GENERATION_MAX \in Nat
  /\ None \notin SystemSlot

other(slot) == IF slot = "A" THEN "B" ELSE "A"

BootControlState ==
  [confirmed : SystemSlot, pending : SystemSlot \cup {None},
   attempts : 0 .. MAX_BOOT_ATTEMPTS, generation : 0 .. GENERATION_MAX]

ASSUME CopyConstants == Absent # Torn /\ {Absent, Torn} \cap BootControlState = {}

BootControl(confirmed, pending, attempts, generation) ==
  [confirmed |-> confirmed, pending |-> pending, attempts |-> attempts,
   generation |-> generation]

initial == BootControl("A", None, 0, 0)

validate_state(s) ==
  /\ s.attempts <= MAX_BOOT_ATTEMPTS
  /\ s.pending # s.confirmed
  /\ s.pending = None => s.attempts = 0

Copy == {1, 2}

(* The copies decode_record accepts. *)
Decoded(c) == {i \in Copy : c[i] \notin {Absent, Torn}}

(* Records are present and none can be trusted: `current' fails closed. *)
CorruptRecords(c) ==
  \/ Decoded(c) = {} /\ \E i \in Copy : c[i] # Absent
  \/ Decoded(c) = Copy /\ c[1].generation = c[2].generation /\ c[1] # c[2]

(* The copy of the newest generation. *)
newest(c) ==
  IF 1 \in Decoded(c) /\ (2 \in Decoded(c) => c[1].generation >= c[2].generation)
  THEN 1 ELSE 2

load(c) == IF Decoded(c) = {} THEN initial ELSE c[newest(c)]

(* Mutant: the copy that holds the current state is overwritten. *)
DestinationInPlace(c) == IF Decoded(c) = {} THEN 1 ELSE newest(c)

(* persist writes the copy that does not hold the current state. *)
destination(c) == IF Decoded(c) = {} THEN 1 ELSE 3 - newest(c)

(* A record that was written and flushed, and one whose write was cut. *)
written(c, next) == [c EXCEPT ![destination(c)] = next]

torn(c) == [c EXCEPT ![destination(c)] = Torn]
=============================================================================
