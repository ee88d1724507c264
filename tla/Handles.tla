------------------------------ MODULE Handles -------------------------------
(***************************************************************************)
(* Kernel objects and process handle tables (kernel/src/handles.rs) as     *)
(* operators on tables.  An object slot and a handle slot each carry a     *)
(* generation that advances when the slot is vacated, so that an old name  *)
(* of the slot never names its next occupant; a slot whose generation is   *)
(* used up is never given out again.                                       *)
(***************************************************************************)
EXTENDS Integers, Sequences, FiniteSets, SequencesExt

CONSTANTS
  None,             \* the absent kind, capability, channel or process
  OBJECT_GEN_MAX,   \* the last generation of an object slot, u32::MAX in the code
  HANDLE_GEN_MAX    \* the last generation of a handle slot, u32::MAX in the code

ASSUME GenMaxAssumption == {OBJECT_GEN_MAX, HANDLE_GEN_MAX} \subseteq Nat \ {0}

(* An unused object slot and an unused handle slot. *)
EmptyObject == [generation |-> 1, kind |-> None, references |-> 0, retired |-> FALSE]
EmptyHandle == [generation |-> 1, capability |-> None]

Kinds == {"AddressSpace", "Channel", "ChannelEndpoint"}

-----------------------------------------------------------------------------
(* The object registry reg: a function from slots to object slots. *)
FreeObjects(reg) == {i \in DOMAIN reg : reg[i].kind = None /\ ~reg[i].retired}

(* create takes the first free slot; its creator owns one reference. *)
NewObject(reg, kind) ==
  LET i == Min(FreeObjects(reg))
  IN  [slot |-> i, generation |-> reg[i].generation, kind |-> kind]

create(reg, kind) ==
  [reg EXCEPT ![Min(FreeObjects(reg))] = [@ EXCEPT !.kind = kind, !.references = 1]]

validate(reg, o) == reg[o.slot].generation = o.generation /\ reg[o.slot].kind = o.kind

(* Mutant: a handle does not count as a reference. *)
RetainNothing(reg, o) == reg

(* A handle on an object owns one of its references. *)
retain(reg, o) == [reg EXCEPT ![o.slot].references = @ + 1]

(* The slot of an object whose last reference was released. *)
Vacated(slot) ==
  [generation |-> IF slot.generation = OBJECT_GEN_MAX THEN OBJECT_GEN_MAX ELSE slot.generation + 1,
   kind |-> None, references |-> 0, retired |-> slot.generation = OBJECT_GEN_MAX]

(* release of a stale object is refused and changes nothing. *)
release(reg, o) ==
  IF ~validate(reg, o) THEN reg
  ELSE [reg EXCEPT ![o.slot] = IF @.references > 1 THEN [@ EXCEPT !.references = @ - 1]
                                                   ELSE Vacated(@)]

(* Several releases, all tried; ok when none was refused. *)
Released(acc, o) ==
  [registry |-> release(acc.registry, o), ok |-> acc.ok /\ validate(acc.registry, o)]

ReleaseAll(acc, objects) == FoldLeft(Released, acc, objects)

-----------------------------------------------------------------------------
(* The handle table t: a function from slots to handle slots. *)
FreeHandles(t) == {s \in DOMAIN t : t[s].capability = None /\ t[s].generation # HANDLE_GEN_MAX}

has_capacity(t, additional) == Cardinality(FreeHandles(t)) >= additional

(* install_capability takes the first slot that has generations left. *)
install_capability(t, cap) == [t EXCEPT ![Min(FreeHandles(t))].capability = cap]

Used(t) == {s \in DOMAIN t : t[s].capability # None}

(* The objects the handles of t name. *)
Objects(t) == {t[s].capability.object : s \in Used(t)}

(* Mutant: the next handle of a slot repeats the last one's value. *)
EmptiedInPlace(t, s) == [t EXCEPT ![s].capability = None]

(* close and begin_move vacate the slot of a handle. *)
Emptied(t, s) == [t EXCEPT ![s] = [generation |-> @.generation + 1, capability |-> None]]

(* check_move: the handle may be given away with the rights `requested'. *)
check_move(t, s, requested) ==
  /\ "TRANSFER" \in t[s].capability.rights
  /\ requested \subseteq t[s].capability.rights
  /\ t[s].generation # HANDLE_GEN_MAX
=============================================================================
