----------------------------- MODULE ProcessExit -----------------------------
(***************************************************************************)
(* The exit table of the NagiOS kernel (kernel/src/process_exit.rs): which *)
(* isolated processes are live, which Supervisor thread waits for each of  *)
(* them, and the exit status of every process that ended and was not yet   *)
(* waited for.                                                             *)
(*                                                                         *)
(* The two fixed arrays of the code are partial functions here: `live'     *)
(* maps a live Process ID to the thread waiting on it (or NoThread),       *)
(* `records' maps a Process ID to its unconsumed status.  The position of  *)
(* an entry in its array is never observed, only whether a slot is left.   *)
(* `consumed' is a history variable: the IDs whose status was handed out.  *)
(***************************************************************************)
EXTENDS Integers, FiniteSets

CONSTANTS
  Threads,              \* ids of the threads of init, the Supervisor
  NoThread,             \* no thread waits on this process
  Status,               \* exit codes together with the kind of the exit
  MAX_LIVE_PROCESSES,   \* 2 in the code
  MAX_EXIT_RECORDS,     \* 4 in the code
  LAST_PROCESS_ID       \* u32::MAX in the code: this ID is never handed out

ASSUME ExitConstants ==
  /\ NoThread \notin Threads
  /\ MAX_LIVE_PROCESSES \in Nat
  /\ MAX_EXIT_RECORDS \in Nat
  /\ LAST_PROCESS_ID \in Nat /\ LAST_PROCESS_ID >= 2

FIRST_ISOLATED_PROCESS_ID == 2

ProcessIds == FIRST_ISOLATED_PROCESS_ID .. LAST_PROCESS_ID

VARIABLES next_process_id, live, records, consumed

vars == <<next_process_id, live, records, consumed>>

Init ==
  /\ next_process_id = FIRST_ISOLATED_PROCESS_ID
  /\ live = [p \in {} |-> NoThread]
  /\ records = [p \in {} |-> NoThread]
  /\ consumed = {}

-----------------------------------------------------------------------------
With(f, x, v) == [y \in DOMAIN f \cup {x} |-> IF y = x THEN v ELSE f[y]]

Without(f, x) == [y \in DOMAIN f \ {x} |-> f[y]]

live_count == Cardinality(DOMAIN live)

free_records == MAX_EXIT_RECORDS - Cardinality(DOMAIN records)

(* Mutant: a record slot for the new process only, none for the live ones. *)
CanReserveIgnoringLive ==
  /\ live_count # MAX_LIVE_PROCESSES
  /\ free_records >= 1
  /\ next_process_id # LAST_PROCESS_ID

(* A spawn may go ahead: the code's three early returns, in their order.   *)
CanReserve ==
  /\ live_count # MAX_LIVE_PROCESSES
  /\ free_records >= live_count + 1
  /\ next_process_id # LAST_PROCESS_ID

(* The spawn succeeded: the reserved ID becomes live, nobody waits on it.  *)
CommitSpawn ==
  /\ CanReserve
  /\ live' = With(live, next_process_id, NoThread)
  /\ next_process_id' = next_process_id + 1
  /\ UNCHANGED <<records, consumed>>

(* Process p ended.  Its live entry goes; its status is kept if a record   *)
(* slot is free.  The caller wakes live[p].                                *)
RecordExit(p, status) ==
  /\ p \in DOMAIN live
  /\ live' = Without(live, p)
  /\ records' = IF free_records > 0 THEN With(records, p, status) ELSE records
  /\ UNCHANGED <<next_process_id, consumed>>

(* wait() finds a record and consumes it. *)
WaitReady(p) ==
  /\ p \in DOMAIN records
  /\ records' = Without(records, p)
  /\ consumed' = consumed \cup {p}
  /\ UNCHANGED <<next_process_id, live>>

Waits(t) == \E q \in DOMAIN live : live[q] = t

(* wait() registers thread t on the live process p.  In every other case   *)
(* without a record it answers Invalid and changes nothing.                *)
WaitBlocked(p, t) ==
  /\ p \notin DOMAIN records
  /\ ~Waits(t)
  /\ p \in DOMAIN live
  /\ live[p] = NoThread
  /\ live' = [live EXCEPT ![p] = t]
  /\ UNCHANGED <<next_process_id, records, consumed>>

(* Thread t withdraws its wait. *)
CancelWait(t) ==
  /\ Waits(t)
  /\ live' = [p \in DOMAIN live |-> IF live[p] = t THEN NoThread ELSE live[p]]
  /\ UNCHANGED <<next_process_id, records, consumed>>

Next ==
  \/ CommitSpawn
  \/ \E p \in ProcessIds, s \in Status : RecordExit(p, s)
  \/ \E p \in ProcessIds : WaitReady(p)
  \/ \E p \in ProcessIds, t \in Threads : WaitBlocked(p, t)
  \/ \E t \in Threads : CancelWait(t)

Spec == Init /\ [][Next]_vars

-----------------------------------------------------------------------------
(* The exit table has the shape of its arrays: IDs in range, a waiter that *)
(* is a thread, a status for each record.                                  *)
TypeOK ==
  /\ next_process_id \in ProcessIds
  /\ DOMAIN live \subseteq ProcessIds
  /\ live \in [DOMAIN live -> Threads \cup {NoThread}]
  /\ DOMAIN records \subseteq ProcessIds
  /\ records \in [DOMAIN records -> Status]
  /\ consumed \subseteq ProcessIds

(* Every Process ID ever handed out is in exactly one place: live, ended   *)
(* with its status still kept, or ended with its status consumed by one    *)
(* SYS_PROCESS_WAIT.  An ID in none of them would be a status that was     *)
(* dropped; an ID in two would be a status delivered for a process that    *)
(* still runs, or delivered twice.                                         *)
EveryIdAccountedFor ==
  /\ FIRST_ISOLATED_PROCESS_ID .. (next_process_id - 1)
       = DOMAIN live \cup DOMAIN records \cup consumed
  /\ DOMAIN live \cap DOMAIN records = {}
  /\ consumed \cap (DOMAIN live \cup DOMAIN records) = {}

(* The reservation `reserve' makes: a free record slot for every process   *)
(* that is still live.                                                     *)
RecordsReserved == free_records >= live_count

(* The exit of a process never loses its status: whenever an ID leaves     *)
(* `live' its status is kept in `records' by the same step.                *)
NoStatusDropped ==
  [][\A p \in DOMAIN live : p \notin DOMAIN live' => p \in DOMAIN records']_vars

(* No thread waits on two processes, so an exit has one thread to wake and *)
(* a thread has one exit to be woken by.                                   *)
OneWaitPerThread ==
  \A p, q \in DOMAIN live : live[p] = live[q] /\ live[p] # NoThread => p = q
=============================================================================
