----------------------------- MODULE BootControl -----------------------------
(***************************************************************************)
(* A/B system updates across resets: the loader's boot decision            *)
(* (loader/src/main.rs, m27_boot_control_decision) over the journal, the   *)
(* two one-shot gates of the kernel (kernel/src/boot_control.rs) and the   *)
(* installer in init (user/nagi-init/src/system_update.rs).                *)
(*                                                                         *)
(* `ready' and `stage' are the UEFI variables the kernel leaves for the    *)
(* next boot, `slots' what a reset would find in the two system            *)
(* partitions.  `context' is the BootControlInfo given to the kernel; it   *)
(* opens at most one of the two gates, whose state is `gate'.  A reset may *)
(* come at any time, also in the middle of a write.  `tried' is a history  *)
(* variable: the slots staged since an update was last written to them.    *)
(***************************************************************************)
EXTENDS BootJournal

CONSTANTS
  Images,               \* signed system images
  Factory,              \* the image the machine is delivered with
  Healthy,              \* the images that reach a signed-in desktop
  RollbackIndex         \* image -> rollback index of its manifest

ASSUME ImageConstants ==
  /\ None \notin Images
  /\ Healthy \subseteq Images /\ Factory \in Healthy
  /\ RollbackIndex \in [Images -> Nat]

VARIABLES copies, ready, stage, slots, phase, context, gate, install, tried

vars == <<copies, ready, stage, slots, phase, context, gate, install, tried>>

(* The content of a slot: which manifest it shows, and whether the payload *)
(* is the one the manifest pins.                                           *)
Content(manifest, intact) == [manifest |-> manifest, intact |-> intact]

Blank == Content(None, FALSE)

Installing(step, bundle) == [step |-> step, bundle |-> bundle]

Context(kind, slot, attempt, generation) ==
  [kind |-> kind, slot |-> slot, attempt |-> attempt, generation |-> generation]

NoContext == Context("none", "A", 0, 0)

Phases == {"off", "readiness", "stage", "staging", "menu", "loading", "running"}

Init ==
  /\ copies = [i \in Copy |-> Absent]
  /\ ready = None
  /\ stage = None
  /\ \E b \in Images \cup {None} :
       slots = [s \in SystemSlot |->
                  IF s = "A" THEN Content(Factory, TRUE) ELSE Content(b, b # None)]
  /\ phase = "off"
  /\ context = NoContext
  /\ gate = "open"
  /\ install = Installing("idle", None)
  /\ tried = {}

state == load(copies)

-----------------------------------------------------------------------------
(* The loader. *)

GoTo(p) == phase' = p /\ UNCHANGED <<context, gate, install>>

Off == /\ phase' = "off"
       /\ context' = NoContext
       /\ gate' = "open"
       /\ install' = Installing("idle", None)

(* The next state of the journal, with its own generation. *)
Persist(confirmed, pending, attempts) ==
  LET next == BootControl(confirmed, pending, attempts, state.generation + 1)
  IN  /\ state.generation < GENERATION_MAX
      /\ validate_state(next)
      /\ copies' = written(copies, next)

PowerOn ==
  /\ phase = "off"
  /\ ~CorruptRecords(copies)
  /\ GoTo("readiness")
  /\ UNCHANGED <<copies, ready, stage, slots, tried>>

(* The readiness record is the one of the trial the journal records. *)
matching_pending ==
  /\ ready # None
  /\ state.pending = ready.slot
  /\ state.attempts = ready.attempt
  /\ state.generation = ready.generation

mark_boot_success ==
  /\ phase = "readiness"
  /\ matching_pending
  /\ Persist(state.pending, None, 0)
  /\ UNCHANGED <<ready, stage, slots, phase, context, gate, install, tried>>

(* The record is deleted; that the deletion may fail is ignored. *)
ConsumeReady ==
  /\ phase = "readiness"
  /\ ~matching_pending
  /\ ready' \in {ready, None}
  /\ GoTo("stage")
  /\ UNCHANGED <<copies, stage, slots, tried>>

(* Mutant: the rollback indices are not compared. *)
PermitsAny(candidate, confirmed) ==
  {slots[candidate].manifest, slots[confirmed].manifest} \subseteq Images

(* Both manifests verify, and the trial does not lower the rollback index. *)
permits_trial(candidate, confirmed) ==
  /\ {slots[candidate].manifest, slots[confirmed].manifest} \subseteq Images
  /\ RollbackIndex[slots[candidate].manifest] >= RollbackIndex[slots[confirmed].manifest]

(* Mutant: the generation of the request is not compared. *)
AcceptAnyGeneration ==
  /\ stage # None
  /\ state.pending = None
  /\ stage.slot # state.confirmed
  /\ permits_trial(stage.slot, state.confirmed)

accept_stage_request ==
  /\ stage # None
  /\ state.pending = None
  /\ stage.generation = state.generation
  /\ stage.slot # state.confirmed
  /\ permits_trial(stage.slot, state.confirmed)

ConsumeRequest ==
  /\ phase = "stage"
  /\ stage' \in {stage, None}
  /\ GoTo(IF accept_stage_request THEN "staging" ELSE "menu")
  /\ UNCHANGED <<copies, ready, slots, tried>>

(* stage_update, which first writes a baseline into an empty journal. *)
StageBaseline ==
  /\ phase = "staging"
  /\ Decoded(copies) = {}
  /\ Persist(state.confirmed, None, 0)
  /\ UNCHANGED <<ready, stage, slots, phase, context, gate, install, tried>>

StagePending ==
  /\ phase = "staging"
  /\ Decoded(copies) # {}
  /\ Persist(state.confirmed, other(state.confirmed), 0)
  /\ tried' = tried \cup {other(state.confirmed)}
  /\ GoTo("menu")
  /\ UNCHANGED <<ready, stage, slots>>

(* The operator selects Recovery or the confirmed slot: the kernel gets no *)
(* boot-control context.                                                   *)
BootManually ==
  /\ phase = "menu"
  /\ phase' = "running"
  /\ context' = NoContext
  /\ UNCHANGED <<copies, ready, stage, slots, gate, install, tried>>

Selected(kind, slot, attempt, generation) ==
  /\ phase = "menu" /\ phase' = "loading"
  /\ context' = Context(kind, slot, attempt, generation)
  /\ UNCHANGED <<ready, stage, slots, gate, install, tried>>

(* begin_boot: nothing is pending, the attempts are used up, or the next   *)
(* attempt is recorded before the slot is tried.                           *)
BootConfirmed ==
  /\ state.pending = None
  /\ Selected("stageable", state.confirmed, 0, state.generation)
  /\ UNCHANGED copies

RollBack ==
  /\ state.pending # None /\ state.attempts >= MAX_BOOT_ATTEMPTS
  /\ Persist(state.confirmed, None, 0)
  /\ Selected("stageable", state.confirmed, 0, state.generation + 1)

(* Mutant: the context names the generation before the attempt was recorded. *)
BeginTrialStale ==
  /\ state.pending # None /\ state.attempts < MAX_BOOT_ATTEMPTS
  /\ Persist(state.confirmed, state.pending, state.attempts + 1)
  /\ Selected("trial", state.pending, state.attempts + 1, state.generation)

(* Mutant: the attempt is not recorded. *)
BeginTrialUnrecorded ==
  /\ state.pending # None /\ state.attempts < MAX_BOOT_ATTEMPTS
  /\ Selected("trial", state.pending, state.attempts + 1, state.generation)
  /\ UNCHANGED copies

BeginTrial ==
  /\ state.pending # None /\ state.attempts < MAX_BOOT_ATTEMPTS
  /\ Persist(state.confirmed, state.pending, state.attempts + 1)
  /\ Selected("trial", state.pending, state.attempts + 1, state.generation + 1)

(* Mutant: the payloads are not checked against the manifest. *)
VerifiedManifestOnly ==
  /\ slots[context.slot].manifest # None
  /\ context.kind = "trial" => permits_trial(context.slot, other(context.slot))

(* verify_slot_manifest and check_slot_payload *)
Verified ==
  /\ slots[context.slot].manifest # None
  /\ slots[context.slot].intact
  /\ context.kind = "trial" => permits_trial(context.slot, other(context.slot))

Load ==
  /\ phase = "loading"
  /\ IF Verified THEN GoTo("running") ELSE Off
  /\ UNCHANGED <<copies, ready, stage, slots, tried>>

Writing ==
  \/ phase = "readiness" /\ matching_pending
  \/ phase = "staging"
  \/ phase = "menu" /\ state.pending # None

(* A write to the journal is cut by a reset or an error of the store. *)
TornWrite ==
  /\ Writing
  /\ copies' = torn(copies)
  /\ Off
  /\ UNCHANGED <<ready, stage, slots, tried>>

(* The machine is reset, the kernel halts, or the loader gives up. *)
Reset ==
  /\ phase # "off"
  /\ Off
  /\ UNCHANGED <<copies, ready, stage, slots, tried>>

-----------------------------------------------------------------------------
(* The running system. *)

Running(kind) == phase = "running" /\ context.kind = kind

(* SYS_BOOT_READY of a trial that reached its desktop.  The write may fail *)
(* or be lost; the gate does not open twice.                               *)
report ==
  /\ Running("trial") /\ gate = "open"
  /\ slots[context.slot].manifest \in Healthy
  /\ \/ /\ ready' = [slot |-> context.slot, attempt |-> context.attempt,
                     generation |-> context.generation]
        /\ gate' = "done"
     \/ ready' \in {ready, None} /\ gate' = "failed"
  /\ UNCHANGED <<copies, stage, slots, phase, context, install, tried>>

target_slot == other(context.slot)

(* The installer has verified a bundle.  A slot that shows its manifest    *)
(* already is left alone.                                                  *)
Claim(bundle) ==
  /\ Running("stageable") /\ install.step = "idle"
  /\ IF slots[target_slot].manifest = bundle
     THEN /\ install' = Installing("done", bundle)
          /\ UNCHANGED <<slots, tried>>
     ELSE /\ install' = Installing("writing", bundle)
          /\ slots' = [slots EXCEPT ![target_slot].intact = FALSE]
          /\ tried' = tried \ {target_slot}
  /\ UNCHANGED <<copies, ready, stage, phase, context, gate>>

(* What a reset before the flush may find. *)
Format ==
  /\ Running("stageable") /\ install.step = "writing"
  /\ \E c \in {Blank, Content(install.bundle, FALSE), Content(install.bundle, TRUE)} :
       slots' = [slots EXCEPT ![target_slot] = c]
  /\ UNCHANGED <<copies, ready, stage, phase, context, gate, install, tried>>

(* The volume is flushed and its files are read back. *)
ReadBack ==
  /\ Running("stageable") /\ install.step = "writing"
  /\ slots' = [slots EXCEPT ![target_slot] = Content(install.bundle, TRUE)]
  /\ install' = Installing("verified", install.bundle)
  /\ UNCHANGED <<copies, ready, stage, phase, context, gate, tried>>

(* SYS_UPDATE_SLOT_STAGE; the write may fail or be lost. *)
stage_update ==
  /\ Running("stageable") /\ gate = "open" /\ install.step = "verified"
  /\ \/ /\ stage' = [slot |-> target_slot, generation |-> context.generation]
        /\ gate' = "done"
     \/ stage' \in {stage, None} /\ gate' = "failed"
  /\ install' = Installing("done", install.bundle)
  /\ UNCHANGED <<copies, ready, slots, phase, context, tried>>

Loader ==
  \/ PowerOn
  \/ mark_boot_success
  \/ ConsumeReady
  \/ ConsumeRequest
  \/ StageBaseline
  \/ StagePending
  \/ BootManually
  \/ BootConfirmed
  \/ RollBack
  \/ BeginTrial
  \/ Load
  \/ TornWrite

Installer ==
  \/ \E bundle \in Images : Claim(bundle)
  \/ Format
  \/ ReadBack
  \/ stage_update

Next == Loader \/ Reset \/ report \/ Installer

Spec == Init /\ [][Next]_vars

(* The machine is switched on again, and not every boot is cut short, sent *)
(* elsewhere by the operator or left with a torn journal.                  *)
FairSpec ==
  /\ Spec
  /\ SF_vars(PowerOn) /\ WF_vars(Reset)
  /\ SF_vars(mark_boot_success) /\ SF_vars(ConsumeReady) /\ SF_vars(ConsumeRequest)
  /\ SF_vars(RollBack \/ BeginTrial)

-----------------------------------------------------------------------------
Record == [slot : SystemSlot, attempt : 1 .. MAX_BOOT_ATTEMPTS, generation : 1 .. GENERATION_MAX]
Request == [slot : SystemSlot, generation : 0 .. GENERATION_MAX]

(* The types of the stored records and of the loader's state. *)
TypeOK ==
  /\ copies \in [Copy -> BootControlState \cup {Absent, Torn}]
  /\ ready \in Record \cup {None}
  /\ stage \in Request \cup {None}
  /\ slots \in [SystemSlot -> [manifest : Images \cup {None}, intact : BOOLEAN]]
  /\ phase \in Phases
  /\ context \in [kind : {"none", "stageable", "trial"}, slot : SystemSlot,
                  attempt : 0 .. MAX_BOOT_ATTEMPTS, generation : 0 .. GENERATION_MAX]
  /\ gate \in {"open", "done", "failed"}
  /\ install \in [step : {"idle", "writing", "verified", "done"},
                  bundle : Images \cup {None}]
  /\ tried \subseteq SystemSlot

(* Once a record has been written, a write that is cut leaves a journal    *)
(* that can be read and that holds the state from before the write.        *)
StaysReadable ==
  [][Decoded(copies) # {} =>
       /\ Decoded(copies') # {} /\ ~CorruptRecords(copies')
       /\ (\E i \in Copy : copies'[i] = Torn /\ copies[i] # Torn) => state' = state]_vars

(* What the kernel was told at its start stays true while it runs: the     *)
(* coordinates it writes into its records are those of the journal.        *)
ContextCurrent ==
  phase \in {"loading", "running"} =>
    /\ context.kind = "trial" =>
         /\ state.pending = context.slot
         /\ state.attempts = context.attempt
         /\ state.generation = context.generation
    /\ context.kind = "stageable" =>
         /\ state.pending = None
         /\ state.confirmed = context.slot
         /\ state.generation = context.generation

(* The confirmed slot, which is what a rollback returns to, always holds   *)
(* an intact image that has proved itself: no interleaving of an           *)
(* installation, a trial, stale records and resets confirms or overwrites  *)
(* the wrong slot.                                                         *)
ConfirmedIsGood ==
  slots[state.confirmed].intact /\ slots[state.confirmed].manifest \in Healthy

(* No update lowers the rollback index of the confirmed system. *)
RollbackIndexNeverDrops ==
  [][RollbackIndex[slots[state.confirmed].manifest]
       <= RollbackIndex[slots'[state'.confirmed].manifest]]_vars

(* "An update that rolled back cannot loop": what a slot holds is put on   *)
(* trial once.                                                             *)
UpdateCannotLoop ==
  [][state.pending = None /\ state'.pending # None => state'.pending \notin tried]_vars

(* Resets and torn writes are invisible in the policy. *)
Policy == INSTANCE BootPolicy WITH confirmed <- state.confirmed,
                                   pending <- state.pending, attempts <- state.attempts
ImplementsPolicy == Policy!Spec

(* A trial ends: the slot is confirmed, or the attempts are used up and    *)
(* the next boot rolls back.  (Generations left: the code has 2^64.)       *)
TrialsEnd ==
  (state.pending # None /\ GENERATION_MAX - state.generation > MAX_BOOT_ATTEMPTS)
    ~> state.pending = None

(* "A torn first update can never erase the known-good slot": the loader   *)
(* can always read its journal.                                            *)
AlwaysBootable == ~CorruptRecords(copies)
=============================================================================
