----------------------------- MODULE BootPolicy -----------------------------
(***************************************************************************)
(* What A/B boot control promises (the state machine of loader/src/ab.rs   *)
(* without its store): a confirmed slot, at most one slot on trial, and a  *)
(* fixed number of attempts for the trial.  Resets and interrupted writes  *)
(* do not exist at this level: a change of state happens or it does not.   *)
(***************************************************************************)
EXTENDS Integers

CONSTANTS
  MAX_BOOT_ATTEMPTS,    \* 3 in the code
  None                  \* no slot is on trial

SystemSlot == {"A", "B"}

other(slot) == IF slot = "A" THEN "B" ELSE "A"

VARIABLES confirmed, pending, attempts

vars == <<confirmed, pending, attempts>>

Init == confirmed = "A" /\ pending = None /\ attempts = 0

(* The inactive slot goes on trial. *)
Stage ==
  /\ pending = None
  /\ pending' = other(confirmed)
  /\ attempts' = 0
  /\ UNCHANGED confirmed

(* An attempt to boot the slot on trial. *)
Attempt ==
  /\ pending # None /\ attempts < MAX_BOOT_ATTEMPTS
  /\ attempts' = attempts + 1
  /\ UNCHANGED <<confirmed, pending>>

(* The attempts are used up. *)
RollBack ==
  /\ pending # None /\ attempts = MAX_BOOT_ATTEMPTS
  /\ pending' = None
  /\ attempts' = 0
  /\ UNCHANGED confirmed

(* A trial that was attempted succeeded. *)
Confirm ==
  /\ pending # None /\ attempts > 0
  /\ confirmed' = pending
  /\ pending' = None
  /\ attempts' = 0

Next == Stage \/ Attempt \/ RollBack \/ Confirm

Spec == Init /\ [][Next]_vars
=============================================================================
