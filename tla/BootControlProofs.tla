------------------------- MODULE BootControlProofs -------------------------
(***************************************************************************)
(* Proofs about BootControl, for any images, any number of attempts and    *)
(* any last generation.  The journal is handled by three lemmas: what a    *)
(* complete write, a torn write and no write do to the state it stands     *)
(* for.  Everything else reasons about that state only.                    *)
(***************************************************************************)
EXTENDS BootControl, TLAPS

(* The copies are records of different generations, and none breaks the    *)
(* rules validate_state enforces.                                          *)
Journal ==
  /\ copies \in [Copy -> BootControlState \cup {Absent, Torn}]
  /\ \A i \in Decoded(copies) : validate_state(copies[i])
  /\ Decoded(copies) = Copy => copies[1].generation # copies[2].generation

(* The state of the journal is a valid one. *)
LEMMA StateValid ==
  ASSUME Journal
  PROVE  state \in BootControlState /\ validate_state(state)
<1>1. initial \in BootControlState /\ validate_state(initial)
  BY JournalConstants
  DEF initial, BootControl, BootControlState, SystemSlot, validate_state
<1>2. \A i \in Decoded(copies) : copies[i] \in BootControlState
  BY DEF Journal, Decoded
<1>3. Decoded(copies) # {} => newest(copies) \in Decoded(copies)
  BY DEF newest, Decoded, Copy
<1>. QED  BY <1>1, <1>2, <1>3 DEF state, load, Journal

(* A complete write makes the next state the current one. *)
LEMMA PersistEffect ==
  ASSUME Journal, NEW c \in SystemSlot, NEW p \in SystemSlot \cup {None},
         NEW a \in 0 .. MAX_BOOT_ATTEMPTS, Persist(c, p, a)
  PROVE  /\ state' = BootControl(c, p, a, state.generation + 1)
         /\ Journal'
         /\ Decoded(copies') # {}
         /\ ~CorruptRecords(copies')
         /\ \A i \in Copy : copies'[i] = Torn => copies[i] = Torn
<1>. DEFINE next == BootControl(c, p, a, state.generation + 1)
            d == destination(copies)
<1>1. state \in BootControlState /\ validate_state(state)
  BY StateValid
<1>2. next \in BootControlState /\ validate_state(next)
  BY <1>1, JournalConstants DEF Persist, BootControl, BootControlState
<1>3. next \notin {Absent, Torn}
  BY <1>2, CopyConstants
<1>4. d \in Copy /\ (Decoded(copies) # {} => newest(copies) \in Decoded(copies) /\ d = 3 - newest(copies))
  BY DEF destination, newest, Decoded, Copy
<1>5. copies' = [copies EXCEPT ![d] = next]
  BY DEF Persist, written
<1>6. copies'[d] = next /\ \A i \in Copy : i # d => copies'[i] = copies[i]
  BY <1>4, <1>5 DEF Journal
<1>7. copies' \in [Copy -> BootControlState \cup {Absent, Torn}]
  BY <1>2, <1>4, <1>5 DEF Journal
<1>8. d \in Decoded(copies') /\ \A i \in Copy : i # d => (i \in Decoded(copies') <=> i \in Decoded(copies))
  BY <1>3, <1>4, <1>6 DEF Decoded
<1>9. \A i \in Decoded(copies') : i # d => copies[i] = state
  <2>. SUFFICES ASSUME NEW i \in Decoded(copies'), i # d PROVE copies[i] = state
    OBVIOUS
  <2>1. i \in Decoded(copies) /\ i \in Copy
    BY <1>8 DEF Decoded
  <2>2. newest(copies) = i
    <3>1. newest(copies) \in Copy /\ d = 3 - newest(copies)
      BY <2>1, <1>4 DEF Decoded
    <3>. HIDE DEF d
    <3>. QED  BY <2>1, <3>1 DEF Copy
  <2>. QED  BY <2>1, <2>2 DEF state, load
<1>10. state.generation \in Nat /\ next.generation = state.generation + 1
  BY <1>1, JournalConstants DEF BootControlState, BootControl
<1>11. newest(copies') = d
  <2>1. \A i \in Decoded(copies') : i # d => copies'[i].generation = state.generation
    BY <1>6, <1>9 DEF Decoded
  <2>. QED  BY <1>4, <1>6, <1>8, <1>10, <2>1 DEF newest, Copy, Decoded
<1>12. state' = next
  BY <1>6, <1>8, <1>11 DEF state, load
<1>13. Journal'
  <2>1. \A i \in Decoded(copies') : validate_state(copies'[i])
    BY <1>1, <1>2, <1>6, <1>9 DEF Decoded
  <2>2. Decoded(copies') = Copy => copies'[1].generation # copies'[2].generation
    BY <1>4, <1>6, <1>9, <1>10 DEF Copy
  <2>. QED  BY <1>7, <2>1, <2>2 DEF Journal
<1>14. ~CorruptRecords(copies')
  BY <1>8, <1>13 DEF CorruptRecords, Journal
<1>15. \A i \in Copy : copies'[i] = Torn => copies[i] = Torn
  BY <1>3, <1>6
<1>. QED  BY <1>8, <1>12, <1>13, <1>14, <1>15

(* A torn write leaves the state from before it, in a readable journal if  *)
(* the journal held a record.                                              *)
LEMMA TornEffect ==
  ASSUME Journal, copies' = torn(copies)
  PROVE  /\ state' = state
         /\ Journal'
         /\ Decoded(copies) # {} => Decoded(copies') # {} /\ ~CorruptRecords(copies')
<1>. DEFINE d == destination(copies)
<1>1. d \in Copy /\ (Decoded(copies) # {} => newest(copies) \in Decoded(copies) /\ d = 3 - newest(copies))
  BY DEF destination, newest, Decoded, Copy
<1>2. copies'[d] = Torn /\ \A i \in Copy : i # d => copies'[i] = copies[i]
  BY <1>1 DEF torn, Journal
<1>3. copies' \in [Copy -> BootControlState \cup {Absent, Torn}]
  BY <1>1 DEF torn, Journal
<1>4. Decoded(copies') = Decoded(copies) \ {d}
  BY <1>2 DEF Decoded
<1>5. CASE Decoded(copies) = {}
  BY <1>3, <1>4, <1>5, 1 # 2 DEF state, load, Journal, Copy
<1>6. CASE Decoded(copies) # {}
  <2>1. newest(copies) # d
    BY <1>1, <1>6 DEF Copy
  <2>2. Decoded(copies') = {newest(copies)}
    BY <1>1, <1>4, <1>6, <2>1 DEF Decoded, Copy
  <2>3. newest(copies') = newest(copies)
    BY <2>2, <1>1 DEF newest, Copy, Decoded
  <2>4. state' = state
    BY <1>2, <1>6, <2>1, <2>2, <2>3, <1>1 DEF state, load, Copy, Decoded
  <2>5. Decoded(copies') # Copy
    BY <2>2 DEF Copy
  <2>6. \A i \in Decoded(copies') : validate_state(copies'[i])
    BY <1>2, <1>4 DEF Journal, Decoded
  <2>. QED  BY <1>3, <2>2, <2>4, <2>5, <2>6 DEF Journal, CorruptRecords
<1>. QED  BY <1>5, <1>6

(* Without a write nothing changes. *)
LEMMA KeepEffect ==
  ASSUME Journal, copies' = copies
  PROVE  state' = state /\ Journal'
BY DEF state, load, Decoded, newest, Journal

-----------------------------------------------------------------------------
(* The slot on trial holds a healthy image that may replace the other. *)
Proved(s) ==
  /\ slots[s].intact /\ slots[s].manifest \in Healthy
  /\ RollbackIndex[slots[other(s)].manifest] <= RollbackIndex[slots[s].manifest]

(* A readiness record is not from the future, and one that matches the     *)
(* trial in the journal vouches for what the slot holds.                   *)
RecordsProve ==
  /\ ready # None => ready.generation <= state.generation
  /\ matching_pending => Proved(state.pending)

(* A staging request is not from the future, and one of the current        *)
(* generation is for a slot that was not tried yet.                        *)
RequestsFresh ==
  /\ stage # None => stage.generation <= state.generation
  /\ stage # None /\ stage.generation = state.generation
       /\ state.pending = None /\ stage.slot # state.confirmed => stage.slot \notin tried
  /\ phase = "staging" => state.pending = None /\ other(state.confirmed) \notin tried

(* The installer works on an untried slot of a stageable boot, and a trial *)
(* that runs was verified.                                                 *)
RunsVerified ==
  /\ install.step \in {"writing", "verified"} =>
       /\ phase = "running" /\ context.kind = "stageable"
       /\ target_slot \notin tried
       /\ install.bundle \in Images
  /\ phase = "running" /\ context.kind = "trial" => Verified
  /\ phase \in {"loading", "running"} /\ context.kind = "trial" =>
       context.attempt > 0 /\ context.generation > 0

IInv ==
  /\ TypeOK /\ Journal /\ ContextCurrent /\ ConfirmedIsGood
  /\ RecordsProve /\ RequestsFresh /\ RunsVerified

(* The first state of the machine satisfies the invariant. *)
LEMMA InitHolds == Init => IInv
<1>. SUFFICES ASSUME Init PROVE IInv
  OBVIOUS
<1>1. copies = [i \in Copy |-> Absent] /\ Decoded(copies) = {}
  BY DEF Init, Decoded, Copy
<1>2. Journal /\ state = initial
  BY <1>1 DEF Journal, state, load, Copy
<1>3. TypeOK
  BY <1>2, ImageConstants, JournalConstants
  DEF Init, TypeOK, Journal, Content, Context, NoContext, Installing, Phases, SystemSlot
<1>4. ContextCurrent
  BY DEF Init, ContextCurrent
<1>5. ConfirmedIsGood
  BY <1>2, ImageConstants DEF Init, ConfirmedIsGood, initial, BootControl, Content, SystemSlot
<1>6. RecordsProve /\ RequestsFresh /\ RunsVerified
  BY DEF Init, RecordsProve, matching_pending, RequestsFresh, RunsVerified, Installing
<1>. QED  BY <1>2, <1>3, <1>4, <1>5, <1>6 DEF IInv

(* Steps of the loader that write nothing to the journal, and resets. *)
LEMMA LoaderReads ==
  ASSUME IInv,
         PowerOn \/ ConsumeReady \/ ConsumeRequest \/ BootManually \/ BootConfirmed
           \/ Load \/ Reset
  PROVE  IInv'
<1>. USE DEF IInv
<1>1. copies' = copies
  BY DEF PowerOn, ConsumeReady, ConsumeRequest, BootManually, BootConfirmed, Load, Reset
<1>2. state' = state /\ Journal'
  BY <1>1, KeepEffect
<1>3. state \in BootControlState /\ validate_state(state)
  BY StateValid
<1>4. slots' = slots /\ tried' = tried
  BY DEF PowerOn, ConsumeReady, ConsumeRequest, BootManually, BootConfirmed, Selected, Load, Reset
<1>5. ConfirmedIsGood'
  BY <1>2, <1>4 DEF ConfirmedIsGood
<1>6. ready' \in {ready, None} /\ stage' \in {stage, None}
  BY DEF PowerOn, ConsumeReady, ConsumeRequest, BootManually, BootConfirmed, Selected, Load, Reset
<1>7. RecordsProve'
  BY <1>2, <1>4, <1>6 DEF RecordsProve, matching_pending, Proved
<1>8. TypeOK'
  BY <1>2, <1>3, <1>4, <1>6, JournalConstants
  DEF TypeOK, Journal, PowerOn, ConsumeReady, ConsumeRequest, BootManually, BootConfirmed,
      Selected, Load, Reset, GoTo, Off, Context, NoContext, Installing, Phases,
      BootControlState, SystemSlot
<1>9. ContextCurrent'
  BY <1>2
  DEF ContextCurrent, PowerOn, ConsumeReady, ConsumeRequest, BootManually, BootConfirmed,
      Selected, Load, Reset, GoTo, Off, Context, NoContext
<1>10. RequestsFresh'
  BY <1>2, <1>3, <1>4, <1>6
  DEF RequestsFresh, accept_stage_request, PowerOn, ConsumeReady, ConsumeRequest, BootManually,
      BootConfirmed, Selected, Load, Reset, GoTo, Off, other, BootControlState, SystemSlot,
      TypeOK, Request
<1>11. RunsVerified'
  BY <1>2, <1>4
  DEF RunsVerified, Verified, permits_trial, target_slot, PowerOn, ConsumeReady, ConsumeRequest,
      BootManually, BootConfirmed, Selected, Load, Reset, GoTo, Off, Context, NoContext, Installing
<1>. QED  BY <1>2, <1>5, <1>7, <1>8, <1>9, <1>10, <1>11

(* A write that completes: the generation moves on, so no record of an     *)
(* earlier boot matches any more.                                          *)
LEMMA RecordsGoStale ==
  ASSUME IInv, NEW g \in Nat, g = state.generation + 1,
         state'.generation = g, ready' = ready, stage' = stage
  PROVE  /\ RecordsProve'
         /\ stage # None => stage.generation < g
<1>1. state \in BootControlState
  BY StateValid DEF IInv
<1>2. ready # None => ready.generation \in Nat /\ ready.generation <= state.generation
  BY JournalConstants DEF IInv, RecordsProve, TypeOK, Record
<1>3. stage # None => stage.generation \in Nat /\ stage.generation <= state.generation
  BY JournalConstants DEF IInv, RequestsFresh, TypeOK, Request
<1>4. state.generation \in Nat
  BY <1>1, JournalConstants DEF BootControlState
<1>5. ~matching_pending'
  BY <1>2, <1>4 DEF matching_pending
<1>. QED  BY <1>2, <1>3, <1>4, <1>5 DEF RecordsProve

(* Steps of the loader that write to the journal. *)
LEMMA LoaderWrites ==
  ASSUME IInv, mark_boot_success \/ StageBaseline \/ StagePending \/ RollBack \/ BeginTrial
  PROVE  IInv'
<1>. USE DEF IInv
<1>1. state \in BootControlState /\ validate_state(state)
  BY StateValid
<1>2. /\ state.confirmed \in SystemSlot /\ state.pending \in SystemSlot \cup {None}
      /\ state.attempts \in 0 .. MAX_BOOT_ATTEMPTS /\ state.generation \in 0 .. GENERATION_MAX
      /\ state.pending # state.confirmed
  BY <1>1 DEF BootControlState, validate_state
<1>3. 0 \in 0 .. MAX_BOOT_ATTEMPTS /\ state.generation + 1 \in Nat
  BY <1>2, JournalConstants
<1>4. ready' = ready /\ stage' = stage /\ slots' = slots
  BY DEF mark_boot_success, StageBaseline, StagePending, RollBack, BeginTrial, Selected
<1>5. CASE mark_boot_success
  <2>1. state.pending \in SystemSlot /\ Proved(state.pending)
    BY <1>2, <1>5 DEF mark_boot_success, matching_pending, TypeOK, Record, RecordsProve
  <2>2. state' = BootControl(state.pending, None, 0, state.generation + 1) /\ Journal'
    BY <1>3, <1>5, <2>1, PersistEffect, Zenon DEF mark_boot_success
  <2>3. state'.confirmed = state.pending /\ state'.generation = state.generation + 1
    BY <2>2 DEF BootControl
  <2>4. RecordsProve' /\ (stage # None => stage.generation < state.generation + 1)
    BY <1>3, <1>4, <2>3, RecordsGoStale
  <2>5. ConfirmedIsGood'
    BY <1>4, <2>1, <2>3 DEF ConfirmedIsGood, Proved
  <2>6. phase = "readiness" /\ UNCHANGED <<phase, context, gate, install, tried>>
    BY <1>5 DEF mark_boot_success
  <2>7. TypeOK'
    BY <1>4, <2>2, <2>6 DEF TypeOK, Journal
  <2>8. ContextCurrent' /\ RunsVerified'
    BY <2>6 DEF ContextCurrent, RunsVerified
  <2>9. RequestsFresh'
    BY <1>2, <1>4, <2>3, <2>4, <2>6, JournalConstants DEF RequestsFresh, TypeOK, Request
  <2>. QED  BY <2>2, <2>4, <2>5, <2>7, <2>8, <2>9
<1>6. CASE StageBaseline
  <2>1. state' = BootControl(state.confirmed, None, 0, state.generation + 1) /\ Journal'
    BY <1>2, <1>3, <1>6, PersistEffect DEF StageBaseline
  <2>2. /\ state'.confirmed = state.confirmed /\ state'.generation = state.generation + 1
        /\ state'.pending = None
    BY <2>1 DEF BootControl
  <2>3. RecordsProve' /\ (stage # None => stage.generation < state.generation + 1)
    BY <1>3, <1>4, <2>2, RecordsGoStale
  <2>4. ConfirmedIsGood'
    BY <1>4, <2>2 DEF ConfirmedIsGood
  <2>5. phase = "staging" /\ UNCHANGED <<phase, context, gate, install, tried>>
    BY <1>6 DEF StageBaseline
  <2>6. TypeOK'
    BY <1>4, <2>1, <2>5 DEF TypeOK, Journal
  <2>7. ContextCurrent' /\ RunsVerified'
    BY <2>5 DEF ContextCurrent, RunsVerified
  <2>8. RequestsFresh'
    BY <1>2, <1>4, <2>2, <2>3, <2>5, JournalConstants DEF RequestsFresh, TypeOK, Request
  <2>. QED  BY <2>1, <2>3, <2>4, <2>6, <2>7, <2>8
<1>7. CASE StagePending
  <2>1. other(state.confirmed) \in SystemSlot
    BY DEF other, SystemSlot
  <2>2. /\ state' = BootControl(state.confirmed, other(state.confirmed), 0, state.generation + 1)
        /\ Journal'
    BY <1>2, <1>3, <1>7, <2>1, PersistEffect DEF StagePending
  <2>3. state'.confirmed = state.confirmed /\ state'.generation = state.generation + 1
    BY <2>2 DEF BootControl
  <2>4. RecordsProve' /\ (stage # None => stage.generation < state.generation + 1)
    BY <1>3, <1>4, <2>3, RecordsGoStale
  <2>5. ConfirmedIsGood'
    BY <1>4, <2>3 DEF ConfirmedIsGood
  <2>6. /\ phase = "staging" /\ phase' = "menu" /\ UNCHANGED <<context, gate, install>>
        /\ tried' = tried \cup {other(state.confirmed)}
    BY <1>7 DEF StagePending, GoTo
  <2>7. TypeOK'
    BY <1>4, <2>1, <2>2, <2>6 DEF TypeOK, Journal, Phases
  <2>8. ContextCurrent' /\ RunsVerified'
    BY <2>6 DEF ContextCurrent, RunsVerified
  <2>9. RequestsFresh'
    BY <1>2, <1>4, <2>3, <2>4, <2>6, JournalConstants DEF RequestsFresh, TypeOK, Request
  <2>. QED  BY <2>2, <2>4, <2>5, <2>7, <2>8, <2>9
<1>8. CASE RollBack
  <2>1. state' = BootControl(state.confirmed, None, 0, state.generation + 1) /\ Journal'
    BY <1>2, <1>3, <1>8, PersistEffect DEF RollBack
  <2>2. /\ state'.confirmed = state.confirmed /\ state'.generation = state.generation + 1
        /\ state'.pending = None
    BY <2>1 DEF BootControl
  <2>3. RecordsProve' /\ (stage # None => stage.generation < state.generation + 1)
    BY <1>3, <1>4, <2>2, RecordsGoStale
  <2>4. ConfirmedIsGood'
    BY <1>4, <2>2 DEF ConfirmedIsGood
  <2>5. /\ phase = "menu" /\ phase' = "loading" /\ UNCHANGED <<gate, install, tried>>
        /\ context' = Context("stageable", state.confirmed, 0, state.generation + 1)
        /\ state.generation < GENERATION_MAX
    BY <1>8 DEF RollBack, Selected, Persist
  <2>6. TypeOK'
    BY <1>2, <1>3, <1>4, <2>1, <2>5, JournalConstants DEF TypeOK, Journal, Phases, Context
  <2>7. ContextCurrent' /\ RunsVerified'
    BY <2>2, <2>5 DEF ContextCurrent, RunsVerified, Context
  <2>8. RequestsFresh'
    BY <1>2, <1>4, <2>2, <2>3, <2>5, JournalConstants DEF RequestsFresh, TypeOK, Request
  <2>. QED  BY <2>1, <2>3, <2>4, <2>6, <2>7, <2>8
<1>9. CASE BeginTrial
  <2>1. state.pending \in SystemSlot /\ state.attempts + 1 \in 0 .. MAX_BOOT_ATTEMPTS
    BY <1>2, <1>9, JournalConstants DEF BeginTrial
  <2>2. /\ state' = BootControl(state.confirmed, state.pending, state.attempts + 1,
                                state.generation + 1)
        /\ Journal'
    BY <1>2, <1>9, <2>1, PersistEffect DEF BeginTrial
  <2>3. /\ state'.confirmed = state.confirmed /\ state'.generation = state.generation + 1
        /\ state'.pending = state.pending /\ state'.attempts = state.attempts + 1
    BY <2>2 DEF BootControl
  <2>4. RecordsProve' /\ (stage # None => stage.generation < state.generation + 1)
    BY <1>3, <1>4, <2>3, RecordsGoStale
  <2>5. ConfirmedIsGood'
    BY <1>4, <2>3 DEF ConfirmedIsGood
  <2>6. /\ phase = "menu" /\ phase' = "loading" /\ UNCHANGED <<gate, install, tried>>
        /\ context' = Context("trial", state.pending, state.attempts + 1, state.generation + 1)
        /\ state.generation < GENERATION_MAX
    BY <1>9 DEF BeginTrial, Selected, Persist
  <2>7. TypeOK'
    BY <1>2, <1>4, <2>1, <2>2, <2>6, JournalConstants DEF TypeOK, Journal, Phases, Context
  <2>8. ContextCurrent' /\ RunsVerified'
    <3>1. /\ context'.kind = "trial" /\ context'.slot = state.pending
          /\ context'.attempt = state.attempts + 1
          /\ context'.generation = state.generation + 1
      BY <2>6 DEF Context
    <3>2. context'.attempt > 0 /\ context'.generation > 0
      BY <1>2, <3>1, JournalConstants
    <3>3. ContextCurrent'
      BY <2>3, <2>6, <3>1 DEF ContextCurrent
    <3>4. RunsVerified'
      BY <2>6, <3>2 DEF RunsVerified
    <3>. QED  BY <3>3, <3>4
  <2>9. RequestsFresh'
    BY <1>2, <1>4, <2>3, <2>4, <2>6, JournalConstants DEF RequestsFresh, TypeOK, Request
  <2>. QED  BY <2>2, <2>4, <2>5, <2>7, <2>8, <2>9
<1>. QED  BY <1>5, <1>6, <1>7, <1>8, <1>9

(* A write that is cut: the loader is off and the state is the old one. *)
LEMMA LoaderTorn == ASSUME IInv, TornWrite PROVE IInv'
<1>. USE DEF IInv
<1>1. state' = state /\ Journal'
  BY TornEffect DEF TornWrite
<1>2. UNCHANGED <<ready, stage, slots, tried>> /\ Off
  BY DEF TornWrite
<1>3. ConfirmedIsGood' /\ RecordsProve'
  BY <1>1, <1>2 DEF ConfirmedIsGood, RecordsProve, matching_pending, Proved
<1>4. TypeOK'
  BY <1>1, <1>2, JournalConstants
  DEF TypeOK, Journal, Off, NoContext, Context, Installing, Phases, SystemSlot
<1>5. ContextCurrent' /\ RequestsFresh' /\ RunsVerified'
  BY <1>1, <1>2 DEF ContextCurrent, RequestsFresh, RunsVerified, Off, Installing
<1>. QED  BY <1>1, <1>3, <1>4, <1>5

(* What a stageable boot knows: nothing is pending, and the slot it may    *)
(* write to is not the confirmed one.                                      *)
LEMMA TargetIsInactive ==
  ASSUME IInv, Running("stageable")
  PROVE  /\ state.pending = None /\ state.generation = context.generation
         /\ state.confirmed = context.slot
         /\ target_slot \in SystemSlot /\ target_slot # state.confirmed
         /\ ~matching_pending
<1>1. /\ state.pending = None /\ state.confirmed = context.slot
      /\ state.generation = context.generation
  BY DEF IInv, ContextCurrent, Running
<1>2. target_slot \in SystemSlot /\ target_slot # context.slot
  BY DEF target_slot, other, SystemSlot
<1>3. ~matching_pending
  BY <1>1, JournalConstants DEF IInv, matching_pending, TypeOK, Record
<1>. QED  BY <1>1, <1>2, <1>3

(* Steps of the running system. *)
LEMMA SystemSteps == ASSUME IInv, report \/ Installer PROVE IInv'
<1>. USE DEF IInv
<1>1. copies' = copies /\ phase' = phase /\ context' = context /\ phase = "running"
  BY Zenon DEF report, Installer, Claim, Format, ReadBack, stage_update, Running
<1>2. state' = state /\ Journal'
  BY <1>1, KeepEffect
<1>3. state \in BootControlState
  BY StateValid
<1>4. ContextCurrent'
  BY <1>1, <1>2 DEF ContextCurrent
<1>5. CASE report
  <2>1. UNCHANGED <<slots, tried, stage, install>> /\ context.kind = "trial"
    BY <1>5 DEF report, Running
  <2>2. /\ state.pending = context.slot /\ state.attempts = context.attempt
        /\ state.generation = context.generation
    BY <1>1, <2>1 DEF ContextCurrent
  <2>3. context.slot \in SystemSlot /\ other(context.slot) \in SystemSlot
    BY DEF TypeOK, other, SystemSlot
  <2>4. Proved(context.slot)
    <3>1. Verified /\ slots[context.slot].manifest \in Healthy
      BY <1>1, <1>5, <2>1 DEF RunsVerified, report
    <3>2. /\ slots[context.slot].manifest \in Images
          /\ slots[other(context.slot)].manifest \in Images
          /\ RollbackIndex[slots[context.slot].manifest]
               >= RollbackIndex[slots[other(context.slot)].manifest]
      BY <2>1, <3>1 DEF Verified, permits_trial
    <3>3. /\ RollbackIndex[slots[context.slot].manifest] \in Nat
          /\ RollbackIndex[slots[other(context.slot)].manifest] \in Nat
      BY <3>2, ImageConstants
    <3>. QED  BY <3>1, <3>2, <3>3 DEF Proved, Verified
  <2>5. ConfirmedIsGood'
    BY <1>2, <2>1 DEF ConfirmedIsGood
  <2>6. \/ ready' = [slot |-> context.slot, attempt |-> context.attempt,
                     generation |-> context.generation]
        \/ ready' \in {ready, None}
    BY <1>5 DEF report
  <2>7. context.attempt \in 1 .. MAX_BOOT_ATTEMPTS /\ context.generation \in 1 .. GENERATION_MAX
    BY <1>1, <2>1, JournalConstants DEF RunsVerified, TypeOK
  <2>8. RecordsProve'
    <3>1. state.generation \in Nat
      BY <1>3, JournalConstants DEF BootControlState
    <3>2. CASE ready' = [slot |-> context.slot, attempt |-> context.attempt,
                         generation |-> context.generation]
      <4>1. ready'.generation <= state'.generation
        BY <1>2, <2>2, <3>1, <3>2
      <4>2. Proved(context.slot)'
        BY <1>1, <2>1, <2>4 DEF Proved
      <4>. QED  BY <1>1, <1>2, <2>2, <4>1, <4>2 DEF RecordsProve
    <3>3. CASE ready' = ready
      BY <1>2, <2>1, <3>3 DEF RecordsProve, matching_pending, Proved
    <3>4. CASE ready' = None
      BY <3>4 DEF RecordsProve, matching_pending
    <3>. QED  BY <2>6, <3>2, <3>3, <3>4
  <2>9. TypeOK'
    <3>1. ready' \in Record \cup {None}
      BY <2>3, <2>6, <2>7 DEF TypeOK, Record
    <3>2. gate' \in {"open", "done", "failed"}
      BY <1>5 DEF report
    <3>. QED  BY <1>1, <2>1, <3>1, <3>2 DEF TypeOK
  <2>10. RequestsFresh'
    BY <1>1, <1>2, <2>1 DEF RequestsFresh
  <2>11. RunsVerified'
    BY <1>1, <2>1 DEF RunsVerified, Verified, permits_trial, target_slot
  <2>. QED  BY <1>2, <1>4, <2>5, <2>8, <2>9, <2>10, <2>11
<1>6. CASE Installer
  <2>1. Running("stageable") /\ context.kind = "stageable" /\ ready' = ready
    BY <1>6, Zenon DEF Installer, Claim, Format, ReadBack, stage_update, Running
  <2>2. /\ state.pending = None /\ state.generation = context.generation
        /\ state.confirmed = context.slot
        /\ target_slot \in SystemSlot /\ target_slot # state.confirmed
        /\ ~matching_pending
    BY <2>1, TargetIsInactive
  <2>3. state.confirmed \in SystemSlot
    BY <1>3 DEF BootControlState
  <2>4. /\ slots' \in [SystemSlot -> [manifest : Images \cup {None}, intact : BOOLEAN]]
        /\ slots'[state.confirmed] = slots[state.confirmed]
    <3>1. slots \in [SystemSlot -> [manifest : Images \cup {None}, intact : BOOLEAN]]
      BY DEF TypeOK
    <3>2. install.step = "writing" => install.bundle \in Images
      BY DEF RunsVerified
    <3>3. CASE \E bundle \in Images : Claim(bundle)
      <4>1. PICK bundle \in Images : Claim(bundle)
        BY <3>3
      <4>2. \/ slots' = slots
            \/ slots' = [slots EXCEPT ![target_slot] = [@ EXCEPT !.intact = FALSE]]
        BY <4>1 DEF Claim
      <4>. QED  BY <3>1, <4>2, <2>2, <2>3, Zenon
    <3>4. CASE Format
      <4>1. PICK c \in {Blank, Content(install.bundle, FALSE), Content(install.bundle, TRUE)} :
              slots' = [slots EXCEPT ![target_slot] = c]
        BY <3>4, Zenon DEF Format
      <4>2. c \in [manifest : Images \cup {None}, intact : BOOLEAN]
        <5>1. install.bundle \in Images
          BY <3>2, <3>4 DEF Format
        <5>2. CASE c = Blank
          BY <5>2 DEF Blank, Content
        <5>3. CASE c = Content(install.bundle, FALSE)
          BY <5>1, <5>3 DEF Content
        <5>4. CASE c = Content(install.bundle, TRUE)
          BY <5>1, <5>4 DEF Content
        <5>. QED  BY <4>1, <5>2, <5>3, <5>4, Zenon
      <4>. QED  BY <3>1, <4>1, <4>2, <2>2, <2>3
    <3>5. CASE ReadBack
      BY <3>1, <3>2, <3>5, <2>2, <2>3 DEF ReadBack, Content
    <3>6. CASE stage_update
      BY <3>1, <3>6 DEF stage_update
    <3>. QED  BY <1>6, <3>3, <3>4, <3>5, <3>6 DEF Installer
  <2>5. ConfirmedIsGood'
    BY <1>2, <2>4 DEF ConfirmedIsGood
  <2>6. RecordsProve'
    BY <1>2, <2>1, <2>2 DEF RecordsProve, matching_pending
  <2>7. tried' \subseteq tried
    BY <1>6, Zenon DEF Installer, Claim, Format, ReadBack, stage_update
  <2>8. target_slot' = target_slot
    BY <1>1 DEF target_slot
  <2>9. /\ install' \in [step : {"idle", "writing", "verified", "done"},
                        bundle : Images \cup {None}]
        /\ install'.step \in {"writing", "verified"} =>
             target_slot \notin tried' /\ install'.bundle \in Images
    <3>1. /\ install \in [step : {"idle", "writing", "verified", "done"},
                          bundle : Images \cup {None}]
          /\ tried \subseteq SystemSlot
      BY DEF TypeOK
    <3>2. install.step \in {"writing", "verified"} =>
            target_slot \notin tried /\ install.bundle \in Images
      BY DEF RunsVerified
    <3>3. CASE \E bundle \in Images : Claim(bundle)
      <4>1. PICK bundle \in Images : Claim(bundle)
        BY <3>3
      <4>2. \/ install' = [step |-> "done", bundle |-> bundle]
            \/ install' = [step |-> "writing", bundle |-> bundle] /\ target_slot \notin tried'
        BY <4>1 DEF Claim, Installing
      <4>. QED  BY <4>2
    <3>4. CASE Format
      BY <3>1, <3>2, <3>4 DEF Format
    <3>5. CASE ReadBack
      BY <3>1, <3>2, <3>5 DEF ReadBack, Installing
    <3>6. CASE stage_update
      BY <3>1, <3>6 DEF stage_update, Installing
    <3>. QED  BY <1>6, <3>3, <3>4, <3>5, <3>6 DEF Installer
  <2>10. \/ stage' \in {stage, None}
         \/ /\ stage' = [slot |-> target_slot, generation |-> context.generation]
            /\ target_slot \notin tried
    BY <1>6, Zenon DEF Installer, Claim, Format, ReadBack, stage_update, RunsVerified
  <2>11. context.generation \in 0 .. GENERATION_MAX
    BY DEF TypeOK
  <2>12. RequestsFresh'
    BY <1>1, <1>2, <2>2, <2>7, <2>10, <2>11, JournalConstants DEF RequestsFresh
  <2>13. RunsVerified'
    BY <1>1, <2>1, <2>8, <2>9 DEF RunsVerified
  <2>14. gate' \in {"open", "done", "failed"}
    BY <1>6, Zenon DEF Installer, Claim, Format, ReadBack, stage_update, TypeOK
  <2>15. TypeOK'
    <3>1. stage' \in Request \cup {None}
      BY <2>2, <2>10, <2>11 DEF TypeOK, Request
    <3>2. tried' \subseteq SystemSlot
      BY <2>7 DEF TypeOK
    <3>. QED  BY <1>1, <2>1, <2>4, <2>9, <2>14, <3>1, <3>2 DEF TypeOK
  <2>. QED  BY <1>2, <1>4, <2>5, <2>6, <2>12, <2>13, <2>15
<1>. QED  BY <1>5, <1>6

LEMMA NextHolds == IInv /\ [Next]_vars => IInv'
<1>. SUFFICES ASSUME IInv, [Next]_vars PROVE IInv'
  OBVIOUS
<1>1. CASE Loader \/ Reset
  BY <1>1, LoaderReads, LoaderWrites, LoaderTorn DEF Loader
<1>2. CASE report \/ Installer
  BY <1>2, SystemSteps
<1>3. CASE UNCHANGED vars
  <2>. USE <1>3 DEF vars
  <2>1. state' = state /\ Journal'
    BY KeepEffect DEF IInv
  <2>2. TypeOK' /\ ContextCurrent' /\ ConfirmedIsGood'
    BY <2>1 DEF IInv, TypeOK, ContextCurrent, ConfirmedIsGood
  <2>3. RecordsProve'
    BY <2>1 DEF IInv, RecordsProve, matching_pending, Proved
  <2>4. RequestsFresh'
    BY <2>1 DEF IInv, RequestsFresh
  <2>5. RunsVerified'
    BY DEF IInv, RunsVerified, Verified, permits_trial, target_slot
  <2>. QED  BY <2>1, <2>2, <2>3, <2>4, <2>5 DEF IInv
<1>. QED  BY <1>1, <1>2, <1>3 DEF Next

LEMMA Invariance == Spec => []IInv
<1>. QED  BY InitHolds, NextHolds, PTL DEF Spec

-----------------------------------------------------------------------------
(* The changes of the state in the journal, each by one loader step. *)
Confirms ==
  /\ matching_pending
  /\ state' = BootControl(state.pending, None, 0, state.generation + 1) /\ slots' = slots

Writes ==
  /\ slots' = slots
  /\ \/ /\ state.pending = None
        /\ state' = BootControl(state.confirmed, None, 0, state.generation + 1)
     \/ /\ state.pending = None /\ other(state.confirmed) \notin tried
        /\ state' = BootControl(state.confirmed, other(state.confirmed), 0, state.generation + 1)
     \/ /\ state.pending # None /\ state.attempts < MAX_BOOT_ATTEMPTS
        /\ state' = BootControl(state.confirmed, state.pending, state.attempts + 1,
                                state.generation + 1)
     \/ /\ state.pending # None /\ state.attempts >= MAX_BOOT_ATTEMPTS
        /\ state' = BootControl(state.confirmed, None, 0, state.generation + 1)

(* Every step is one of these or keeps the state, and only a write or a    *)
(* torn write touches the copies.                                          *)
LEMMA StepEffect ==
  ASSUME IInv, [Next]_vars
  PROVE  /\ \/ Confirms
            \/ Writes
            \/ state' = state /\ slots'[state.confirmed] = slots[state.confirmed]
         /\ \/ copies' = copies
            \/ copies' = torn(copies)
            \/ /\ Decoded(copies') # {} /\ ~CorruptRecords(copies')
               /\ \A i \in Copy : copies'[i] = Torn => copies[i] = Torn
<1>1. state \in BootControlState /\ Journal
  BY StateValid DEF IInv
<1>2. /\ state.confirmed \in SystemSlot /\ state.pending \in SystemSlot \cup {None}
      /\ state.attempts \in 0 .. MAX_BOOT_ATTEMPTS /\ other(state.confirmed) \in SystemSlot
      /\ 0 \in 0 .. MAX_BOOT_ATTEMPTS
  BY <1>1, JournalConstants DEF BootControlState, other, SystemSlot
<1>3. CASE mark_boot_success
  <2>1. state.pending \in SystemSlot
    BY <1>3 DEF IInv, mark_boot_success, matching_pending, TypeOK, Record
  <2>. QED  BY <1>1, <1>2, <1>3, <2>1, PersistEffect DEF mark_boot_success, Confirms
<1>4. CASE StageBaseline
  <2>1. state.pending = None
    BY <1>4 DEF IInv, RequestsFresh, StageBaseline
  <2>. QED  BY <1>1, <1>2, <1>4, <2>1, PersistEffect, Zenon DEF StageBaseline, Writes
<1>5. CASE StagePending
  <2>1. state.pending = None /\ other(state.confirmed) \notin tried
    BY <1>5 DEF IInv, RequestsFresh, StagePending
  <2>. QED  BY <1>1, <1>2, <1>5, <2>1, PersistEffect DEF StagePending, Writes
<1>6. CASE RollBack
  BY <1>1, <1>2, <1>6, PersistEffect DEF RollBack, Selected, Writes
<1>7. CASE BeginTrial
  <2>1. state.attempts + 1 \in 0 .. MAX_BOOT_ATTEMPTS
    <3>1. state.attempts < MAX_BOOT_ATTEMPTS
      BY <1>7 DEF BeginTrial
    <3>. QED  BY <1>2, <3>1, JournalConstants
  <2>. QED  BY <1>1, <1>2, <1>7, <2>1, PersistEffect DEF BeginTrial, Selected, Writes
<1>8. CASE TornWrite
  BY <1>1, <1>8, TornEffect DEF TornWrite
<1>9. CASE PowerOn \/ ConsumeReady \/ ConsumeRequest \/ BootManually \/ BootConfirmed \/ Load
             \/ Reset \/ report \/ UNCHANGED vars
  <2>1. copies' = copies /\ slots' = slots
    BY <1>9
    DEF PowerOn, ConsumeReady, ConsumeRequest, BootManually, BootConfirmed, Selected, Load,
        Reset, report, vars
  <2>. QED  BY <1>1, <2>1, KeepEffect
<1>10. CASE Installer
  <2>1. Running("stageable") /\ copies' = copies
    BY <1>10, Zenon DEF Installer, Claim, Format, ReadBack, stage_update
  <2>2. target_slot \in SystemSlot /\ target_slot # state.confirmed
    BY <2>1, TargetIsInactive
  <2>3. slots \in [SystemSlot -> [manifest : Images \cup {None}, intact : BOOLEAN]]
    BY DEF IInv, TypeOK
  <2>4. \/ slots' = slots
        \/ \E c : slots' = [slots EXCEPT ![target_slot] = c]
    <3>1. CASE \E bundle \in Images : Claim(bundle)
      <4>1. \/ slots' = slots
            \/ slots' = [slots EXCEPT ![target_slot] = [@ EXCEPT !.intact = FALSE]]
        BY <3>1 DEF Claim
      <4>. QED  BY <4>1
    <3>2. CASE Format \/ ReadBack \/ stage_update
      BY <3>2, Zenon DEF Format, ReadBack, stage_update
    <3>. QED  BY <1>10, <3>1, <3>2 DEF Installer
  <2>5. slots'[state.confirmed] = slots[state.confirmed]
    BY <1>2, <2>2, <2>3, <2>4
  <2>. QED  BY <1>1, <2>1, <2>5, KeepEffect
<1>. QED
  BY <1>3, <1>4, <1>5, <1>6, <1>7, <1>8, <1>9, <1>10 DEF Next, Loader

-----------------------------------------------------------------------------
(* The stored records, the gates and the loader's state keep their types. *)
THEOREM TypeCorrect == Spec => []TypeOK
<1>1. IInv => TypeOK
  BY DEF IInv
<1>. QED  BY <1>1, Invariance, PTL

(* Whatever is installed, tried, reset or torn, the slot the journal calls *)
(* confirmed holds an intact image that has proved itself.                 *)
THEOREM ConfirmedStaysGood == Spec => []ConfirmedIsGood
<1>1. IInv => ConfirmedIsGood
  BY DEF IInv
<1>. QED  BY <1>1, Invariance, PTL

(* The coordinates the loader hands the kernel stay those of the journal   *)
(* for as long as the kernel runs.                                         *)
THEOREM ContextStaysCurrent == Spec => []ContextCurrent
<1>1. IInv => ContextCurrent
  BY DEF IInv
<1>. QED  BY <1>1, Invariance, PTL

(* After its first record the journal can always be read, and a torn write *)
(* leaves the state from before it.                                        *)
THEOREM JournalStaysReadable == Spec => StaysReadable
<1> DEFINE Step ==
      Decoded(copies) # {} =>
        /\ Decoded(copies') # {} /\ ~CorruptRecords(copies')
        /\ (\E i \in Copy : copies'[i] = Torn /\ copies[i] # Torn) => state' = state
<1>1. ASSUME IInv, [Next]_vars PROVE Step
  <2>1. Journal
    BY <1>1 DEF IInv
  <2>2. CASE copies' = copies
    <3>1. Decoded(copies') = Decoded(copies)
      BY <2>2
    <3>2. Decoded(copies) # {} => ~CorruptRecords(copies)
      BY <2>1 DEF Journal, CorruptRecords
    <3>. QED  BY <2>2, <3>1, <3>2
  <2>3. CASE copies' = torn(copies)
    BY <2>1, <2>3, TornEffect
  <2>4. CASE /\ Decoded(copies') # {} /\ ~CorruptRecords(copies')
             /\ \A i \in Copy : copies'[i] = Torn => copies[i] = Torn
    BY <2>4
  <2>. QED  BY <1>1, <2>2, <2>3, <2>4, StepEffect
<1>2. IInv /\ [Next]_vars => [Step]_vars
  BY <1>1
<1>. QED  BY <1>2, Invariance, PTL DEF Spec, StaysReadable

(* No sequence of updates, trials and rollbacks lowers the rollback index  *)
(* of the confirmed system.                                                *)
THEOREM NoDowngrade == Spec => RollbackIndexNeverDrops
<1> DEFINE Step == RollbackIndex[slots[state.confirmed].manifest]
                     <= RollbackIndex[slots'[state'.confirmed].manifest]
<1>1. ASSUME IInv, [Next]_vars PROVE Step
  <2>1. RollbackIndex[slots[state.confirmed].manifest] \in Nat
    BY <1>1, ImageConstants DEF IInv, ConfirmedIsGood
  <2>2. CASE Confirms
    <3>1. Proved(state.pending) /\ state'.confirmed = state.pending /\ slots' = slots
      BY <1>1, <2>2 DEF IInv, RecordsProve, Confirms, BootControl
    <3>2. state \in BootControlState /\ validate_state(state)
      BY <1>1, StateValid DEF IInv
    <3>3. state.pending \in SystemSlot
      BY <1>1, <2>2 DEF Confirms, IInv, matching_pending, TypeOK, Record
    <3>4. other(state.pending) = state.confirmed
      BY <3>2, <3>3 DEF BootControlState, validate_state, other, SystemSlot
    <3>. QED  BY <3>1, <3>4 DEF Proved
  <2>3. CASE Writes
    <3>1. PICK p, a : state' = BootControl(state.confirmed, p, a, state.generation + 1)
      BY <2>3 DEF Writes
    <3>2. state'.confirmed = state.confirmed /\ slots' = slots
      BY <2>3, <3>1 DEF Writes, BootControl
    <3>. QED  BY <2>1, <3>2
  <2>4. CASE state' = state /\ slots'[state.confirmed] = slots[state.confirmed]
    BY <2>1, <2>4
  <2>. QED  BY <1>1, <2>2, <2>3, <2>4, StepEffect
<1>2. IInv /\ [Next]_vars => [Step]_vars
  BY <1>1
<1>. QED  BY <1>2, Invariance, PTL DEF Spec, RollbackIndexNeverDrops

(* What a slot holds goes on trial once: an update that was rolled back is *)
(* not staged again, even by a request that was never deleted.             *)
THEOREM NoUpdateLoop == Spec => UpdateCannotLoop
<1> DEFINE Step == state.pending = None /\ state'.pending # None => state'.pending \notin tried
<1>1. ASSUME IInv, [Next]_vars PROVE Step
  <2>1. CASE Confirms
    BY <2>1 DEF Confirms, BootControl
  <2>2. CASE Writes
    BY <2>2 DEF Writes, BootControl
  <2>3. CASE state' = state
    BY <2>3
  <2>. QED  BY <1>1, <2>1, <2>2, <2>3, StepEffect
<1>2. IInv /\ [Next]_vars => [Step]_vars
  BY <1>1
<1>. QED  BY <1>2, Invariance, PTL DEF Spec, UpdateCannotLoop

(* The loader, its journal and the gates implement the policy: seen        *)
(* through the journal, resets and torn writes are stuttering steps.       *)
THEOREM Refinement == Spec => ImplementsPolicy
<1>1. Init => Policy!Init
  <2>. SUFFICES ASSUME Init PROVE Policy!Init
    OBVIOUS
  <2>1. Decoded(copies) = {}
    BY DEF Init, Decoded, Copy
  <2>. QED  BY <2>1 DEF state, load, initial, BootControl, Policy!Init
<1>2. ASSUME IInv, [Next]_vars PROVE [Policy!Next]_(Policy!vars)
  <2>1. state \in BootControlState
    BY <1>2, StateValid DEF IInv
  <2>2. /\ state.attempts \in 0 .. MAX_BOOT_ATTEMPTS /\ state.confirmed \in SystemSlot
        /\ state.pending = None => state.attempts = 0
    BY <1>2, <2>1, StateValid DEF IInv, BootControlState, validate_state
  <2>3. CASE Confirms
    <3>1. ready \in Record /\ state.pending = ready.slot /\ state.attempts = ready.attempt
      BY <1>2, <2>3 DEF Confirms, IInv, matching_pending, TypeOK
    <3>2. state.pending # None /\ state.attempts > 0
      BY <3>1, JournalConstants DEF Record
    <3>. QED  BY <2>3, <3>2 DEF Confirms, BootControl, Policy!Next, Policy!Confirm
  <2>4. CASE Writes
    <3>1. CASE /\ state.pending = None
               /\ state' = BootControl(state.confirmed, None, 0, state.generation + 1)
      BY <2>2, <3>1 DEF BootControl, Policy!vars
    <3>2. CASE /\ state.pending = None
               /\ state' = BootControl(state.confirmed, other(state.confirmed), 0,
                                       state.generation + 1)
      BY <2>2, <3>2 DEF BootControl, other, Policy!Next, Policy!Stage, Policy!other
    <3>3. CASE /\ state.pending # None /\ state.attempts < MAX_BOOT_ATTEMPTS
               /\ state' = BootControl(state.confirmed, state.pending, state.attempts + 1,
                                       state.generation + 1)
      BY <3>3 DEF BootControl, Policy!Next, Policy!Attempt
    <3>4. CASE /\ state.pending # None /\ state.attempts >= MAX_BOOT_ATTEMPTS
               /\ state' = BootControl(state.confirmed, None, 0, state.generation + 1)
      <4>1. state.attempts = MAX_BOOT_ATTEMPTS
        BY <2>2, <3>4, JournalConstants
      <4>. QED  BY <3>4, <4>1 DEF BootControl, Policy!Next, Policy!RollBack
    <3>. QED  BY <2>4, <3>1, <3>2, <3>3, <3>4 DEF Writes
  <2>5. CASE state' = state
    BY <2>5 DEF Policy!vars
  <2>. QED  BY <1>2, <2>3, <2>4, <2>5, StepEffect
<1>3. IInv /\ [Next]_vars => [Policy!Next]_(Policy!vars)
  BY <1>2
<1>. QED  BY <1>1, <1>3, Invariance, PTL DEF Spec, ImplementsPolicy, Policy!Spec
=============================================================================
