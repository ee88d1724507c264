------------------------------- MODULE History -------------------------------
(***************************************************************************)
(* Undoable file transactions: the archive of HistoryService               *)
(* (nagi-history/src/lib.rs), the activity ledger beside it, the two       *)
(* transactions init runs and takes back                                   *)
(* (nagi-init/src/m22_history.rs), and the undo command of Recovery        *)
(* (nagi-init/src/recovery.rs).                                            *)
(*                                                                         *)
(* The transaction "move" renames Count files, "copy" creates one.  A file *)
(* is absent, empty (created and not yet written), as recorded, or foreign *)
(* (written by somebody else while this code was not running).  Everything *)
(* but the files and the two stores is lost with power.                    *)
(***************************************************************************)
EXTENDS Integers, FiniteSets, TwoSlots

CONSTANTS
  Count,        \* files moved by the first transaction (3 in the code)
  MAX_FAULTS,   \* bound: losses of power and failures of storage
  MAX_EDITS     \* bound: changes by others

(* TransactionState; 0: there is no such transaction. *)
Prepared == 1
Committed == 2
UndoPending == 3
Undone == 4

Transactions == {"move", "copy"}
States == [Transactions -> 0..4]
NoHistory == [t \in Transactions |-> 0]

ASSUME HistoryConstants ==
  /\ Count \in Nat \ {0}
  /\ {MAX_FAULTS, MAX_EDITS} \subseteq Nat
  /\ {Missing, Torn} \cap States = {}

VARIABLES
  source, moved,      \* the files to move, under their old and their new names
  copied,             \* the file to create
  archive, ledger,    \* the stores
  task, step,         \* what is running, and what it does next
  tx, done,           \* for which transaction; the files it is done with
  history, activity,  \* HistoryService and ActivityLedger in memory
  faults, touched     \* faults so far; files changed by others (0: copied)

files == <<source, moved, copied>>
stores == <<archive, ledger>>
memory == <<task, step, tx, done, history, activity>>
vars == <<files, stores, memory, faults, touched>>

Files == 1..Count

Contents == {"absent", "empty", "recorded", "foreign"}

Load(st) == IF Valid(st) = {} THEN NoHistory ELSE load_archive(st)

Init ==
  /\ source = [i \in Files |-> "absent"] /\ moved = source /\ copied = "absent"
  /\ archive = NoStore /\ ledger = NoStore
  /\ task = "off" /\ step = "none" /\ tx = "move" /\ done = 0
  /\ history = NoHistory /\ activity = NoHistory
  /\ faults = 0 /\ touched = {}

(* The task is over: init goes on without it, or Recovery prompts again. *)
Over(t) ==
  /\ task' = t /\ step' = "none" /\ tx' = "move" /\ done' = 0
  /\ history' = NoHistory /\ activity' = NoHistory

Back == IF task = "undo" THEN "console" ELSE "idle"

Goto(s, t) == step' = s /\ tx' = t /\ done' = 0 /\ UNCHANGED task

-----------------------------------------------------------------------------
(* What files should look like. *)

(* verify_names. *)
IsMoved(i) == source[i] = "absent" /\ moved[i] = "recorded"
IsRestored(i) == source[i] = "recorded" /\ moved[i] = "absent"
MovedAll == \A i \in Files : IsMoved(i)
RestoredAll == \A i \in Files : IsRestored(i)

(* verify_transaction_files. *)
Forward(t) == IF t = "move" THEN MovedAll ELSE copied = "recorded"
Restored(t) == IF t = "move" THEN RestoredAll ELSE copied = "absent"

-----------------------------------------------------------------------------
(* A start of the system. *)

(* verify_full_history. *)
FullHistory(h) == \A t \in Transactions : h[t] # 0

(* The checks of ensure_original_fixture. *)
Original ==
  /\ copied = "absent"
  /\ \A i \in Files : source[i] \in {"absent", "recorded"} /\ moved[i] = "absent"

run ==
  /\ task = "off"
  /\ IF CorruptArchive(archive) \/ CorruptArchive(ledger) THEN Over("idle")
     ELSE IF IsNew(archive) THEN
       IF IsNew(ledger) /\ Original
         THEN task' = "execute" /\ step' = "fixture" /\ UNCHANGED <<tx, done, history, activity>>
         ELSE Over("idle")
     ELSE IF FullHistory(Load(archive)) THEN
       /\ task' = "resume" /\ step' = "search"
       /\ history' = Load(archive) /\ activity' = Load(ledger)
       /\ UNCHANGED <<tx, done>>
     ELSE Over("idle")
  /\ UNCHANGED <<files, stores, faults, touched>>

(* write_named_file, for the files that are missing. *)
WriteFixture ==
  /\ step = "fixture"
  /\ \E i \in Files :
       /\ source[i] # "recorded" /\ \A j \in 1..i-1 : source[j] = "recorded"
       /\ source' = [source EXCEPT ![i] = IF @ = "absent" THEN "empty" ELSE "recorded"]
  /\ UNCHANGED <<moved, copied, stores, memory, faults, touched>>

(* M22MoveAction::execute, up to record_move_group. *)
RecordMove ==
  /\ step = "fixture"
  /\ RestoredAll
  /\ history' = [history EXCEPT !["move"] = Prepared]
  /\ Goto("save", "move")
  /\ UNCHANGED <<files, stores, activity, faults, touched>>

(* run_file_copy_action and M22CopyAction::execute, which start from the   *)
(* stores, up to record_create_transaction.                                *)
RecordCopy ==
  /\ step = "create"
  /\ Load(archive)["move"] = Committed /\ Load(ledger)["move"] = Committed
  /\ MovedAll /\ copied = "absent"
  /\ history' = [Load(archive) EXCEPT !["copy"] = Prepared]
  /\ activity' = Load(ledger)
  /\ Goto("save", "copy")
  /\ UNCHANGED <<files, stores, faults, touched>>

-----------------------------------------------------------------------------
(* The two stores. *)

(* record_action, or set_activity_outcome, which never goes back. *)
Logged == [activity EXCEPT ![tx] = history[tx]]
CanLog == activity[tx] <= history[tx]

(* What save_activity_ledger has to write. *)
Entry == IF step = "search" THEN activity ELSE Logged

(* The transaction after tx, or the end. *)
NextTransaction ==
  IF tx = "copy" THEN Over("idle")
  ELSE /\ Goto(IF task = "execute" THEN "create" ELSE "ensure", "copy")
       /\ activity' = Logged
       /\ UNCHANGED history

(* save_history.  init then checks the files of a transaction that is      *)
(* committed or undone, if it was resumed.                                 *)
SaveHistory ==
  /\ step = "save"
  /\ archive' = Written(archive, history)
  /\ IF task = "undo" THEN
       IF history[tx] = Undone THEN Over("console")
                               ELSE Goto("apply", tx) /\ UNCHANGED <<history, activity>>
     ELSE IF task = "resume" => /\ history[tx] = Committed => Forward(tx)
                                /\ history[tx] = Undone => Restored(tx)
       THEN Goto("log", tx) /\ UNCHANGED <<history, activity>>
     ELSE Over("idle")
  /\ UNCHANGED <<files, ledger, faults, touched>>

SaveSearch ==
  /\ step = "search"
  /\ ledger' = Written(ledger, Entry)
  /\ Goto("ensure", "move")
  /\ UNCHANGED <<files, archive, history, activity, faults, touched>>

Log ==
  /\ step = "log"
  /\ CanLog
  /\ ledger' = Written(ledger, Entry)
  /\ IF history[tx] \in {Prepared, UndoPending}
       THEN Goto("apply", tx) /\ activity' = Logged /\ UNCHANGED history
       ELSE NextTransaction
  /\ UNCHANGED <<files, archive, faults, touched>>

(* prepare_undo_transaction. *)
Prepare == Goto("save", tx) /\ history' = [history EXCEPT ![tx] = UndoPending]

(* resume_m22_history: ensure_activity_record, and what the state of the   *)
(* transaction calls for.                                                  *)
Resume ==
  /\ step = "ensure"
  /\ CanLog
  /\ ledger' = Written(ledger, Entry)
  /\ CASE history[tx] = Prepared -> Goto("apply", tx) /\ activity' = Logged /\ UNCHANGED history
       [] history[tx] = Committed /\ ~Forward(tx) -> Over("idle")
       [] history[tx] = Committed /\ Forward(tx) -> Prepare /\ activity' = Logged
       [] history[tx] = UndoPending -> Prepare /\ activity' = Logged
       [] history[tx] = Undone /\ ~Restored(tx) -> Over("idle")
       [] OTHER -> NextTransaction
  /\ UNCHANGED <<files, archive, faults, touched>>

-----------------------------------------------------------------------------
(* The files, one at a time. *)

Undoing == history[tx] = UndoPending

Proceed == done' = done + 1 /\ UNCHANGED <<task, step, tx, history, activity>>

(* The contents init looks for.  Recovery has looked beforehand. *)
Accepts(f) == IF task = "undo" THEN f # "absent" ELSE f = "recorded"

(* Mutant: a file that has been moved already is not accepted. *)
AlreadyNever(from, to) == FALSE

Already(from, to) == from = "absent" /\ Accepts(to)

(* apply_idempotent_move, and MoveBack of apply_undo_action.  A batch of   *)
(* undo actions is in reverse order.                                       *)
Move ==
  LET i == IF Undoing THEN Count - done ELSE done + 1
      from == IF Undoing THEN moved[i] ELSE source[i]
      to == IF Undoing THEN source[i] ELSE moved[i]
      renames == Accepts(from) /\ to = "absent"
  IN
  /\ step = "apply" /\ tx = "move" /\ done < Count
  /\ IF renames
       THEN /\ source' = [source EXCEPT ![i] = moved[i]]
            /\ moved' = [moved EXCEPT ![i] = source[i]]
       ELSE UNCHANGED <<source, moved>>
  /\ IF renames \/ Already(from, to) THEN Proceed ELSE Over(Back)
  /\ UNCHANGED <<copied, stores, faults, touched>>

(* apply_idempotent_create: a file that is there in part is removed first. *)
Create ==
  /\ step = "apply" /\ tx = "copy" /\ ~Undoing /\ done = 0
  /\ \/ copied = "recorded" /\ Proceed /\ UNCHANGED copied
     \/ copied = "empty" /\ copied' = "absent" /\ UNCHANGED memory
     \/ /\ copied = "absent"
        /\ copied' = "empty" /\ step' = "write"
        /\ UNCHANGED <<task, tx, done, history, activity>>
     \/ copied = "foreign" /\ Over(Back) /\ UNCHANGED copied
  /\ UNCHANGED <<source, moved, stores, faults, touched>>

Write ==
  /\ step = "write"
  /\ copied' = "recorded"
  /\ step' = "apply" /\ done' = 1
  /\ UNCHANGED <<source, moved, stores, task, tx, history, activity, faults, touched>>

(* apply_idempotent_delete, and Delete of apply_undo_action. *)
Delete ==
  /\ step = "apply" /\ tx = "copy" /\ Undoing /\ done = 0
  /\ IF copied = "absent" \/ Accepts(copied)
       THEN copied' = "absent" /\ Proceed
       ELSE Over(Back) /\ UNCHANGED copied
  /\ UNCHANGED <<source, moved, stores, faults, touched>>

(* Mutant: the last file is left out. *)
ItemsButOne(t) == IF t = "move" THEN Count - 1 ELSE 1

Items(t) == IF t = "move" THEN Count ELSE 1

(* commit_transaction or complete_undo_transaction. *)
Complete ==
  /\ step = "apply" /\ done = Items(tx)
  /\ history' = [history EXCEPT ![tx] = @ + 1]
  /\ Goto("save", tx)
  /\ UNCHANGED <<files, stores, activity, faults, touched>>

-----------------------------------------------------------------------------
(* Recovery. *)

BootRecovery ==
  /\ task = "off"
  /\ Over("console")
  /\ UNCHANGED <<files, stores, faults, touched>>

(* latest_undo_record. *)
Latest(h) ==
  LET pending == {t \in Transactions : h[t] = UndoPending}
      undoable == IF pending # {} THEN pending ELSE {t \in Transactions : h[t] = Committed}
  IN IF "copy" \in undoable THEN {"copy"} ELSE undoable

(* Mutant: a file is taken for the one recorded by its name. *)
PreflightNames(t) ==
  IF t = "copy" THEN TRUE
  ELSE \A i \in Files : (source[i] = "absent") # (moved[i] = "absent")

(* preflight_undo_batch: no action is in conflict. *)
preflight_undo_batch(t) ==
  IF t = "copy" THEN copied \in {"absent", "recorded"}
  ELSE \A i \in Files : IsMoved(i) \/ IsRestored(i)

(* undo_latest, until the archive is saved. *)
undo_latest ==
  /\ task = "console"
  /\ \E t \in Latest(Load(archive)) :
       /\ preflight_undo_batch(t)
       /\ history' = [Load(archive) EXCEPT ![t] = UndoPending]
       /\ task' = "undo" /\ step' = "save" /\ tx' = t /\ done' = 0
  /\ UNCHANGED <<files, stores, activity, faults, touched>>

-----------------------------------------------------------------------------
(* What may happen around it. *)

Running == step # "none"

(* Power is lost, or storage fails, before a step or in a write to a       *)
(* store.  A step on the files is a single write of the volume (Volume).   *)
Fault ==
  /\ Running
  /\ faults < MAX_FAULTS
  /\ archive' \in IF step = "save" THEN Interrupted(archive, history) ELSE {archive}
  /\ ledger' \in IF step \in {"search", "ensure", "log"} THEN Interrupted(ledger, Entry) ELSE {ledger}
  /\ Over("off") \/ Over(Back)
  /\ faults' = faults + 1
  /\ UNCHANGED <<files, touched>>

Shutdown ==
  /\ task \in {"idle", "console"}
  /\ Over("off")
  /\ UNCHANGED <<files, stores, faults, touched>>

(* Somebody else removes or replaces a file. *)
Edit(i, f) ==
  /\ task = "off"
  /\ Cardinality(touched \cup {i}) <= MAX_EDITS
  /\ touched' = touched \cup {i}
  /\ IF i = 0 THEN copied' = f /\ UNCHANGED <<source, moved>>
     ELSE \/ source' = [source EXCEPT ![i] = f] /\ UNCHANGED <<moved, copied>>
          \/ moved' = [moved EXCEPT ![i] = f] /\ UNCHANGED <<source, copied>>
  /\ UNCHANGED <<stores, memory, faults>>

Step ==
  \/ WriteFixture \/ RecordMove \/ RecordCopy
  \/ SaveHistory \/ SaveSearch \/ Log \/ Resume
  \/ Move \/ Create \/ Write \/ Delete \/ Complete

Next ==
  \/ run \/ BootRecovery \/ undo_latest \/ Step
  \/ Fault \/ Shutdown
  \/ \E i \in 0..Count, f \in {"absent", "foreign"} : Edit(i, f)

(* A task runs to its end, and the machine is not left at a prompt: it is  *)
(* started again, and not always into Recovery.                            *)
Fairness == WF_vars(Step) /\ WF_vars(Shutdown) /\ SF_vars(run)

Spec == Init /\ [][Next]_vars /\ Fairness

-----------------------------------------------------------------------------
(* The types of the variables; a step is one of its task. *)
TypeOK ==
  /\ source \in [Files -> Contents] /\ moved \in [Files -> Contents] /\ copied \in Contents
  /\ {archive, ledger} \subseteq [slot : [Slot -> States \cup {Missing, Torn}], newest : Slot]
  /\ task \in {"off", "idle", "console", "execute", "resume", "undo"}
  /\ step \in {"none", "fixture", "create", "search", "ensure", "save", "log", "apply", "write"}
  /\ tx \in Transactions /\ done \in 0..Count
  /\ history \in States /\ activity \in States
  /\ faults \in 0..MAX_FAULTS /\ touched \subseteq 0..Count

(* What the files of a transaction in state s look like. *)
MoveMatches(i, s) ==
  /\ s = 0 => moved[i] = "absent"
  /\ s = Committed => IsMoved(i)
  /\ s = Undone => IsRestored(i)
  /\ s \in {Prepared, UndoPending} => IsMoved(i) \/ IsRestored(i)

CopyMatches(s) ==
  /\ s \in {0, Undone} => copied = "absent"
  /\ s = Prepared => copied # "foreign"
  /\ s = Committed => copied = "recorded"
  /\ s = UndoPending => copied \in {"absent", "recorded"}

FilesMatch(h) ==
  /\ \A i \in Files \ touched : MoveMatches(i, h["move"])
  /\ 0 \notin touched => CopyMatches(h["copy"])

(* At whatever step power is lost or storage fails, the archive that is    *)
(* found afterwards tells the truth about the files nobody else touched: a *)
(* transaction that is committed is there as a whole, one that is undone   *)
(* is gone as a whole, and in between every file has exactly one of its    *)
(* names and its contents.                                                 *)
FilesMatchHistory == FilesMatch(Load(archive))

(* The activity ledger, which is written after the archive, never claims   *)
(* more than the archive does, whichever of the two writes is lost: so     *)
(* set_activity_outcome always finds a path to the state of the archive.   *)
LedgerNeverAhead == \A t \in Transactions : Load(ledger)[t] <= Load(archive)[t]

(* An archive that could be loaded can be loaded ever after, and every     *)
(* transaction in it stays where it is or goes to its next state, whatever *)
(* becomes of a write.                                                     *)
HistoryOnlyAdvances ==
  [][ Valid(archive) # {} =>
        /\ Valid(archive') # {}
        /\ \A t \in Transactions : Load(archive')[t] - Load(archive)[t] \in {0, 1} ]_vars

(* "conflict; no changes applied": neither the forward nor the undo        *)
(* direction, of init or Recovery, first time or resumed, ever renames,    *)
(* overwrites or removes a file that is not the one recorded.              *)
ForeignFilesKept ==
  [][ task # "off" =>
        /\ \A i \in Files : /\ source[i] = "foreign" => source'[i] = "foreign"
                            /\ moved[i] = "foreign" => moved'[i] = "foreign"
        /\ copied = "foreign" => copied' = "foreign" ]_vars

AllUndone(st) == \A t \in Transactions : Load(st)[t] = Undone

(* "Recovery is idempotent": once both transactions are in the archive,    *)
(* both are undone in the end, in the files, the archive and the ledger,   *)
(* however often they are interrupted on the way, unless somebody else     *)
(* changes the files.                                                      *)
TransactionsEnd ==
  FullHistory(Load(archive)) ~>
    touched # {} \/ (RestoredAll /\ copied = "absent" /\ AllUndone(archive) /\ AllUndone(ledger))
=============================================================================
