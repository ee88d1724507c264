------------------------- MODULE ProcessExitProofs --------------------------
(***************************************************************************)
(* Proofs about the exit table, for every number of live processes and     *)
(* record slots.  EveryIdAccountedFor is not inductive: RecordExit keeps   *)
(* the status only when a record slot is free.  RecordsReserved, the       *)
(* reservation made at spawn time, is the missing fact.                    *)
(***************************************************************************)
EXTENDS ProcessExit, FiniteSetTheorems, TLAPS

IInv == TypeOK /\ EveryIdAccountedFor /\ RecordsReserved

(* The tables of the model are finite. *)
LEMMA FiniteIds == \A S \in SUBSET ProcessIds : IsFiniteSet(S)
<1>1. IsFiniteSet(ProcessIds)
  BY FS_Interval, ExitConstants DEF ProcessIds, FIRST_ISOLATED_PROCESS_ID
<1>. QED BY <1>1, FS_Subset

(* What adding an ID to, and taking one out of, a table does to its size.  *)
LEMMA WithSize ==
  ASSUME NEW f, NEW x \in ProcessIds, NEW v,
         DOMAIN f \subseteq ProcessIds, x \notin DOMAIN f
  PROVE  /\ DOMAIN With(f, x, v) = DOMAIN f \cup {x}
         /\ Cardinality(DOMAIN With(f, x, v)) = Cardinality(DOMAIN f) + 1
<1>1. DOMAIN With(f, x, v) = DOMAIN f \cup {x}
  BY DEF With
<1>2. IsFiniteSet(DOMAIN f)
  BY FiniteIds
<1>. QED BY <1>1, <1>2, FS_AddElement

(* Removing an entry frees exactly one slot. *)
LEMMA WithoutSize ==
  ASSUME NEW f, NEW x \in DOMAIN f, DOMAIN f \subseteq ProcessIds
  PROVE  /\ DOMAIN Without(f, x) = DOMAIN f \ {x}
         /\ Cardinality(DOMAIN Without(f, x)) = Cardinality(DOMAIN f) - 1
<1>1. DOMAIN Without(f, x) = DOMAIN f \ {x}
  BY DEF Without
<1>2. IsFiniteSet(DOMAIN f)
  BY FiniteIds
<1>. QED BY <1>1, <1>2, FS_RemoveElement

(* The two table sizes are naturals. *)
LEMMA Sizes ==
  ASSUME TypeOK
  PROVE  Cardinality(DOMAIN live) \in Nat /\ Cardinality(DOMAIN records) \in Nat
BY FiniteIds, FS_CardinalityType DEF TypeOK

(* The inductive invariant holds of the empty table. *)
LEMMA IInvInit == Init => IInv
<1>. SUFFICES ASSUME Init PROVE IInv
  OBVIOUS
<1>1. DOMAIN live = {} /\ DOMAIN records = {}
  BY DEF Init
<1>2. TypeOK
  BY <1>1, ExitConstants DEF Init, TypeOK, ProcessIds, FIRST_ISOLATED_PROCESS_ID
<1>3. EveryIdAccountedFor
  BY <1>1 DEF Init, EveryIdAccountedFor, FIRST_ISOLATED_PROCESS_ID
<1>4. RecordsReserved
  BY <1>1, FS_EmptySet, ExitConstants DEF RecordsReserved, free_records, live_count
<1>. QED BY <1>2, <1>3, <1>4 DEF IInv

(* Every operation of the exit table preserves the inductive invariant. *)
LEMMA IInvNext == IInv /\ [Next]_vars => IInv'
<1>. SUFFICES ASSUME IInv, [Next]_vars PROVE IInv'
  OBVIOUS
<1>. USE ExitConstants DEF IInv, ProcessIds, FIRST_ISOLATED_PROCESS_ID
<1>0. Cardinality(DOMAIN live) \in Nat /\ Cardinality(DOMAIN records) \in Nat
  BY Sizes
<1>1. CASE CommitSpawn
  <2>1. next_process_id \in ProcessIds /\ next_process_id \notin DOMAIN live
    BY DEF TypeOK, EveryIdAccountedFor
  <2>2. /\ DOMAIN live' = DOMAIN live \cup {next_process_id}
        /\ Cardinality(DOMAIN live') = Cardinality(DOMAIN live) + 1
    BY <1>1, <2>1, WithSize DEF CommitSpawn, TypeOK
  <2>3. TypeOK'
    BY <1>1, <2>1, <2>2 DEF CommitSpawn, CanReserve, TypeOK, With
  <2>4. EveryIdAccountedFor'
    BY <1>1, <2>1, <2>2 DEF CommitSpawn, EveryIdAccountedFor, TypeOK
  <2>5. RecordsReserved'
    BY <1>1, <1>0, <2>2 DEF CommitSpawn, CanReserve, RecordsReserved, free_records, live_count
  <2>. QED BY <2>3, <2>4, <2>5
<1>2. ASSUME NEW p \in ProcessIds, NEW s \in Status, RecordExit(p, s)
      PROVE  IInv'
  <2>1. p \in DOMAIN live /\ p \notin DOMAIN records
    BY <1>2 DEF RecordExit, EveryIdAccountedFor
  <2>2. /\ DOMAIN live' = DOMAIN live \ {p}
        /\ Cardinality(DOMAIN live') = Cardinality(DOMAIN live) - 1
    BY <1>2, <2>1, WithoutSize DEF RecordExit, TypeOK
  <2>3. Cardinality(DOMAIN live) > 0
    <3>1. Cardinality(DOMAIN live') \in Nat
      BY <2>2, FiniteIds, FS_CardinalityType DEF TypeOK
    <3>. QED BY <3>1, <2>2, <1>0
  <2>4. free_records > 0
    BY <2>3, <1>0 DEF RecordsReserved, free_records, live_count
  <2>5. records' = With(records, p, s)
    BY <1>2, <2>4 DEF RecordExit
  <2>6. /\ DOMAIN records' = DOMAIN records \cup {p}
        /\ Cardinality(DOMAIN records') = Cardinality(DOMAIN records) + 1
    BY <2>1, <2>5, WithSize DEF TypeOK
  <2>7. TypeOK'
    BY <1>2, <2>1, <2>2, <2>5, <2>6 DEF RecordExit, TypeOK, With, Without
  <2>8. EveryIdAccountedFor'
    BY <1>2, <2>1, <2>2, <2>6 DEF RecordExit, EveryIdAccountedFor
  <2>9. RecordsReserved'
    BY <1>0, <2>2, <2>6 DEF RecordsReserved, free_records, live_count
  <2>. QED BY <2>7, <2>8, <2>9
<1>3. ASSUME NEW p \in ProcessIds, WaitReady(p)
      PROVE  IInv'
  <2>1. /\ DOMAIN records' = DOMAIN records \ {p}
        /\ Cardinality(DOMAIN records') = Cardinality(DOMAIN records) - 1
    BY <1>3, WithoutSize DEF WaitReady, TypeOK
  <2>2. TypeOK'
    BY <1>3, <2>1 DEF WaitReady, TypeOK, Without
  <2>3. EveryIdAccountedFor'
    BY <1>3, <2>1 DEF WaitReady, EveryIdAccountedFor
  <2>4. RecordsReserved'
    BY <1>3, <1>0, <2>1 DEF WaitReady, RecordsReserved, free_records, live_count
  <2>. QED BY <2>2, <2>3, <2>4
<1>4. ASSUME NEW p \in ProcessIds, NEW t \in Threads, WaitBlocked(p, t)
      PROVE  IInv'
  <2>1. DOMAIN live' = DOMAIN live
    BY <1>4 DEF WaitBlocked
  <2>2. TypeOK'
    BY <1>4, <2>1 DEF WaitBlocked, TypeOK
  <2>. QED BY <1>4, <2>1, <2>2
         DEF WaitBlocked, EveryIdAccountedFor, RecordsReserved, free_records, live_count
<1>5. ASSUME NEW t \in Threads, CancelWait(t)
      PROVE  IInv'
  <2>1. DOMAIN live' = DOMAIN live
    BY <1>5 DEF CancelWait
  <2>2. TypeOK'
    BY <1>5, <2>1 DEF CancelWait, TypeOK
  <2>. QED BY <1>5, <2>1, <2>2
         DEF CancelWait, EveryIdAccountedFor, RecordsReserved, free_records, live_count
<1>6. CASE UNCHANGED vars
  BY <1>6 DEF vars, TypeOK, EveryIdAccountedFor, RecordsReserved, free_records, live_count
<1>. QED BY <1>1, <1>2, <1>3, <1>4, <1>5, <1>6 DEF Next

(* Every Process ID that was handed out stays accounted for: live, with a  *)
(* kept exit status, or consumed once, for any table sizes.                *)
THEOREM IdsAccountedFor == Spec => []EveryIdAccountedFor
<1>1. IInv => EveryIdAccountedFor
  BY DEF IInv
<1>. QED BY IInvInit, IInvNext, <1>1, PTL DEF Spec

(* The exit table keeps its types. *)
THEOREM TypeCorrect == Spec => []TypeOK
<1>1. IInv => TypeOK
  BY DEF IInv
<1>. QED BY IInvInit, IInvNext, <1>1, PTL DEF Spec

(* No step takes a process out of `live' without keeping its exit status:  *)
(* the promise made by the comment on `reserve'.                           *)
THEOREM StatusNeverDropped == Spec => NoStatusDropped
<1>. DEFINE A == \A p \in DOMAIN live : p \notin DOMAIN live' => p \in DOMAIN records'
<1>1. IInv /\ IInv' /\ [Next]_vars => [A]_vars
  <2>. SUFFICES ASSUME IInv, IInv', Next, NEW p \in DOMAIN live, p \notin DOMAIN live'
                PROVE  p \in DOMAIN records'
    OBVIOUS
  <2>. USE DEF IInv
  <2>1. next_process_id' \in Int /\ next_process_id \in Int /\ next_process_id' >= next_process_id
    BY ExitConstants DEF Next, TypeOK, CommitSpawn, RecordExit, WaitReady, WaitBlocked, CancelWait,
           ProcessIds, FIRST_ISOLATED_PROCESS_ID
  <2>2. p \in DOMAIN records' \cup consumed'
    BY <2>1, ExitConstants DEF EveryIdAccountedFor, TypeOK, ProcessIds, FIRST_ISOLATED_PROCESS_ID
  <2>3. p \notin consumed'
    BY DEF Next, EveryIdAccountedFor, CommitSpawn, RecordExit, WaitReady, WaitBlocked, CancelWait
  <2>. QED BY <2>2, <2>3
<1>. QED BY IInvInit, IInvNext, <1>1, PTL DEF Spec, NoStatusDropped

(* No thread ever waits on two processes: `wait' refuses a thread that     *)
(* already waits, and an ID that becomes live has no waiter.               *)
THEOREM WaitsAreSingle == Spec => []OneWaitPerThread
<1>1. Init => OneWaitPerThread
  BY DEF Init, OneWaitPerThread
<1>2. IInv /\ OneWaitPerThread /\ [Next]_vars => OneWaitPerThread'
  <2>. SUFFICES ASSUME IInv, OneWaitPerThread, [Next]_vars PROVE OneWaitPerThread'
    OBVIOUS
  <2>1. CASE CommitSpawn
    BY <2>1 DEF CommitSpawn, With, OneWaitPerThread
  <2>2. ASSUME NEW p \in ProcessIds, NEW s \in Status, RecordExit(p, s)
        PROVE  OneWaitPerThread'
    BY <2>2 DEF RecordExit, Without, OneWaitPerThread
  <2>3. ASSUME NEW p \in ProcessIds, NEW t \in Threads, WaitBlocked(p, t)
        PROVE  OneWaitPerThread'
    BY <2>3 DEF WaitBlocked, Waits, OneWaitPerThread
  <2>4. ASSUME NEW t \in Threads, CancelWait(t)
        PROVE  OneWaitPerThread'
    BY <2>4 DEF CancelWait, OneWaitPerThread
  <2>5. ASSUME NEW p \in ProcessIds, WaitReady(p)
        PROVE  OneWaitPerThread'
    BY <2>5 DEF WaitReady, OneWaitPerThread
  <2>6. CASE UNCHANGED vars
    BY <2>6 DEF vars, OneWaitPerThread
  <2>. QED BY <2>1, <2>2, <2>3, <2>4, <2>5, <2>6 DEF Next
<1>. QED BY IInvInit, IInvNext, <1>1, <1>2, PTL DEF Spec
=============================================================================
