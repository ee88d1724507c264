---------------------------- MODULE HistoryProofs ----------------------------
(***************************************************************************)
(* Proofs of History, for any number of files, faults and edits.           *)
(***************************************************************************)
EXTENDS History, TLAPS

Stores == [slot : [Slot -> States \cup {Missing, Torn}], newest : Slot]

(* A write replaces the slot that is not in use: what is loaded afterwards *)
(* is what was written.                                                    *)
LEMMA WriteIsLoaded ==
  ASSUME NEW st \in Stores, NEW v \in States
  PROVE  /\ Written(st, v) \in Stores
         /\ Valid(Written(st, v)) # {}
         /\ Load(Written(st, v)) = v
<1> DEFINE w == Written(st, v)
<1>1. target(st) \in Slot
  BY DEF target, other, Slot
<1>2. w.slot = [st.slot EXCEPT ![target(st)] = v] /\ w.newest = target(st)
  BY DEF Written
<1>3. w \in Stores
  BY <1>1 DEF Written, Stores
<1>4. v \notin {Missing, Torn}
  BY HistoryConstants
<1>5. w.slot[target(st)] = v
  BY <1>1, <1>2 DEF Stores
<1>6. target(st) \in Valid(w)
  BY <1>1, <1>4, <1>5 DEF Valid
<1>7. active_slot(w) = target(st)
  BY <1>1, <1>2, <1>6 DEF active_slot, Slot, Valid
<1> QED
  BY <1>3, <1>5, <1>6, <1>7 DEF Load, load_archive

(* A write that is cut short loses nothing that could be loaded. *)
LEMMA TornWriteKeeps ==
  ASSUME NEW st \in Stores
  PROVE  /\ TornWrite(st) \in Stores
         /\ Valid(st) # {} => Valid(TornWrite(st)) # {}
         /\ Load(TornWrite(st)) = Load(st)
<1> DEFINE w == TornWrite(st)
<1>1. target(st) \in Slot /\ active_slot(st) \in Slot /\ target(st) # active_slot(st)
  BY DEF target, other, active_slot, Slot, Stores
<1>2. w.slot = [st.slot EXCEPT ![target(st)] = Torn]
  BY DEF TornWrite, Stores
<1>3. w \in Stores
  BY <1>1 DEF TornWrite, Stores
<1>4. target(st) \notin Valid(w)
  BY <1>1, <1>2 DEF Valid, Stores
<1>5. w.slot[active_slot(st)] = st.slot[active_slot(st)]
  BY <1>1, <1>2 DEF Stores
<1>6. CASE Valid(st) = {}
  <2>1. Valid(w) = {}
    BY <1>1, <1>2, <1>4, <1>6 DEF Valid, Stores
  <2> QED
    BY <1>3, <1>6, <2>1 DEF Load
<1>7. CASE Valid(st) # {}
  <2>1. active_slot(st) \in Valid(st)
    BY <1>7 DEF active_slot, Valid, Slot, Stores
  <2>2. active_slot(st) \in Valid(w)
    BY <1>1, <1>5, <2>1 DEF Valid
  <2>3. active_slot(w) = active_slot(st)
    BY <1>1, <1>4, <2>2 DEF active_slot, Slot, Valid
  <2> QED
    BY <1>3, <1>5, <1>7, <2>2, <2>3 DEF Load, load_archive
<1> QED
  BY <1>6, <1>7

(* What is loaded after an interrupted write is the old or the new. *)
LEMMA InterruptedWrite ==
  ASSUME NEW st \in Stores, NEW v \in States, NEW w \in Interrupted(st, v)
  PROVE  /\ w \in Stores
         /\ Valid(st) # {} => Valid(w) # {}
         /\ Load(w) \in {Load(st), v}
BY WriteIsLoaded, TornWriteKeeps DEF Interrupted

(* What is loaded is a history. *)
LEMMA LoadType ==
  ASSUME NEW st \in Stores
  PROVE  Load(st) \in States
<1>1. NoHistory \in States
  BY DEF NoHistory, States
<1>2. ASSUME Valid(st) # {} PROVE active_slot(st) \in Valid(st)
  BY <1>2 DEF active_slot, Valid, Slot, Stores
<1> QED
  BY <1>1, <1>2 DEF Load, load_archive, Valid, Stores

-----------------------------------------------------------------------------
(* Where the program is tells what it knows. *)

(* What memory holds, against the archive. *)
MemoryInv ==
  /\ step = "none" <=> task \in {"off", "idle", "console"}
  /\ step = "none" => history = NoHistory /\ activity = NoHistory
  /\ step = "fixture" => task = "execute" /\ history = NoHistory /\ Load(archive) = NoHistory
  /\ step \in {"search", "ensure"} => task = "resume"
  /\ step \in {"search", "ensure", "log", "apply", "write"} => history = Load(archive)
  /\ task = "execute" /\ tx = "move" => Load(archive)["copy"] = 0
  /\ step = "create" => Load(archive)["copy"] = 0
  /\ \A t \in Transactions : activity[t] <= Load(archive)[t]

(* The archive about to be saved is one step ahead, and true already. *)
SaveInv ==
  step = "save" =>
    /\ history[tx] - Load(archive)[tx] \in {0, 1}
    /\ \A t \in Transactions \ {tx} : history[t] = Load(archive)[t]
    /\ FilesMatch(history)

(* The files that are done with. *)
Progress ==
  IF tx = "move"
    THEN \A i \in Files \ touched :
           IF Undoing THEN i > Count - done => IsRestored(i) ELSE i <= done => IsMoved(i)
    ELSE done > 0 /\ 0 \notin touched => copied = IF Undoing THEN "absent" ELSE "recorded"

ApplyInv ==
  /\ step = "fixture" => \A i \in Files : source[i] # "foreign"
  /\ step = "apply" => history[tx] \in {Prepared, UndoPending} /\ Progress
  /\ step = "write" => tx = "copy" /\ history[tx] = Prepared /\ copied = "empty"
  /\ task = "undo" => /\ step \in {"save", "apply"}
                     /\ history[tx] \in {UndoPending, Undone}
                     /\ preflight_undo_batch(tx)

HistoryInv ==
  /\ TypeOK /\ MemoryInv /\ SaveInv /\ ApplyInv
  /\ FilesMatchHistory /\ LedgerNeverAhead

USE HistoryConstants DEF Prepared, Committed, UndoPending, Undone, Files

(* The initial state. *)
LEMMA InitInv == Init => HistoryInv
<1> SUFFICES ASSUME Init PROVE HistoryInv
  OBVIOUS
<1>1. NoStore \in Stores /\ Load(NoStore) = NoHistory /\ NoHistory \in States
  BY DEF NoStore, Stores, Load, Valid, NoHistory, States, Slot
<1>2. TypeOK
  BY <1>1 DEF Init, TypeOK, Stores, Contents, Transactions
<1>3. MemoryInv /\ SaveInv /\ ApplyInv
  BY <1>1 DEF Init, MemoryInv, SaveInv, ApplyInv, NoHistory, Transactions
<1>4. FilesMatchHistory /\ LedgerNeverAhead
  BY <1>1 DEF Init, FilesMatchHistory, FilesMatch, MoveMatches, CopyMatches, LedgerNeverAhead, NoHistory, Transactions
<1> QED
  BY <1>2, <1>3, <1>4 DEF HistoryInv

(* The end of a task keeps the invariant if the files and the stores do.   *)
LEMMA OverKeeps ==
  ASSUME HistoryInv, NEW t \in {"off", "idle", "console"}, Over(t),
         source' \in [Files -> Contents], moved' \in [Files -> Contents], copied' \in Contents,
         archive' \in Stores, ledger' \in Stores, faults' \in 0..MAX_FAULTS, touched' \subseteq 0..Count,
         FilesMatchHistory', LedgerNeverAhead'
  PROVE  HistoryInv'
<1>1. NoHistory \in States /\ Load(archive') \in States
  BY LoadType DEF NoHistory, States
<1>2. TypeOK'
  BY <1>1 DEF TypeOK, Over, Stores, Transactions
<1>3. MemoryInv'
  BY <1>1 DEF MemoryInv, Over, NoHistory, States
<1>4. SaveInv' /\ ApplyInv'
  BY DEF SaveInv, ApplyInv, Over
<1> QED
  BY <1>2, <1>3, <1>4 DEF HistoryInv


(* What the types say, in the terms of the lemmas about stores. *)
LEMMA TypeFacts ==
  ASSUME HistoryInv
  PROVE  /\ archive \in Stores /\ ledger \in Stores
         /\ Load(archive) \in States /\ Load(ledger) \in States
         /\ history \in States /\ activity \in States
         /\ Logged \in States /\ Entry \in States
<1>1. archive \in Stores /\ ledger \in Stores /\ history \in States /\ activity \in States /\ tx \in Transactions
  BY DEF HistoryInv, TypeOK, Stores
<1>2. Logged \in States
  BY <1>1 DEF Logged, States
<1> QED
  BY <1>1, <1>2, LoadType DEF Entry

(* A step that leaves files and archive alone keeps their agreement. *)
LEMMA FilesKept ==
  ASSUME HistoryInv, UNCHANGED <<files, archive, touched>>
  PROVE  FilesMatchHistory'
BY DEF HistoryInv, FilesMatchHistory, FilesMatch, MoveMatches, CopyMatches, IsMoved, IsRestored, files

(* A step that leaves the files alone keeps their types. *)
LEMMA TypeKept ==
  ASSUME HistoryInv, UNCHANGED <<files, faults, touched>>
  PROVE  /\ source' \in [Files -> Contents] /\ moved' \in [Files -> Contents] /\ copied' \in Contents
         /\ faults' \in 0..MAX_FAULTS /\ touched' \subseteq 0..Count
BY DEF HistoryInv, TypeOK, files

(* A shutdown, or a start into Recovery. *)
LEMMA ShutdownInv ==
  ASSUME HistoryInv, Shutdown \/ BootRecovery
  PROVE  HistoryInv'
<1>1. UNCHANGED <<files, stores, faults, touched>> /\ \E t \in {"off", "console"} : Over(t)
  BY DEF Shutdown, BootRecovery
<1>2. LedgerNeverAhead'
  BY <1>1, Zenon DEF HistoryInv, LedgerNeverAhead, stores
<1> QED
  BY <1>1, <1>2, OverKeeps, FilesKept, TypeKept, TypeFacts DEF stores

(* A start of the installed system. *)
LEMMA RunInv ==
  ASSUME HistoryInv, run
  PROVE  HistoryInv'
<1>1. UNCHANGED <<files, stores, faults, touched>> /\ task = "off" /\ step = "none"
  BY DEF run, HistoryInv, MemoryInv
<1>2. LedgerNeverAhead' /\ FilesMatchHistory'
  BY <1>1, FilesKept DEF HistoryInv, LedgerNeverAhead, stores
<1>3. CASE Over("idle")
  BY <1>1, <1>2, <1>3, OverKeeps, TypeKept, TypeFacts DEF stores
<1>4. CASE /\ IsNew(archive) /\ IsNew(ledger) /\ Original
           /\ task' = "execute" /\ step' = "fixture" /\ UNCHANGED <<tx, done, history, activity>>
  <2>1. TypeOK'
    BY <1>1, <1>4 DEF HistoryInv, TypeOK, files, stores
  <2>2. Load(archive') = NoHistory
    BY <1>1, <1>4 DEF Load, IsNew, Valid, stores
  <2>3. MemoryInv'
    BY <1>1, <1>4, <2>2 DEF HistoryInv, MemoryInv, NoHistory, Transactions
  <2>4. SaveInv' /\ ApplyInv'
    BY <1>1, <1>4 DEF SaveInv, ApplyInv, Original, files
  <2> QED
    BY <1>2, <2>1, <2>3, <2>4 DEF HistoryInv
<1>5. CASE /\ task' = "resume" /\ step' = "search"
           /\ history' = Load(archive) /\ activity' = Load(ledger)
           /\ UNCHANGED <<tx, done>>
  <2>1. TypeOK'
    BY <1>1, <1>5, TypeFacts DEF HistoryInv, TypeOK, files, stores
  <2>2. MemoryInv'
    BY <1>1, <1>5 DEF HistoryInv, MemoryInv, LedgerNeverAhead, stores
  <2>3. SaveInv' /\ ApplyInv'
    BY <1>1, <1>5 DEF SaveInv, ApplyInv
  <2> QED
    BY <1>2, <2>1, <2>2, <2>3 DEF HistoryInv
<1> QED
  BY <1>3, <1>4, <1>5 DEF run

(* Recording the first transaction: its files are all in place. *)
LEMMA RecordMoveInv ==
  ASSUME HistoryInv, RecordMove
  PROVE  HistoryInv'
<1>1. UNCHANGED <<files, stores, faults, touched>> /\ LedgerNeverAhead' /\ FilesMatchHistory'
  BY FilesKept DEF RecordMove, HistoryInv, LedgerNeverAhead, stores
<1>2. /\ history' \in States
      /\ history'["move"] = Prepared /\ history'["copy"] = 0
  <2>1. history = NoHistory /\ history' = [history EXCEPT !["move"] = Prepared]
    BY DEF RecordMove, HistoryInv, MemoryInv
  <2>2. NoHistory \in States /\ NoHistory["copy"] = 0
    BY DEF NoHistory, States, Transactions
  <2> QED
    BY <2>1, <2>2 DEF States, Transactions
<1>3. TypeOK'
  BY <1>1, <1>2 DEF RecordMove, Goto, HistoryInv, TypeOK, files, stores, Transactions
<1>4. MemoryInv'
  BY <1>1, <1>2 DEF RecordMove, Goto, HistoryInv, MemoryInv, stores, NoHistory, Transactions
<1>5. FilesMatch(history)'
  BY <1>1, <1>2 DEF RecordMove, HistoryInv, MemoryInv, FilesMatchHistory, FilesMatch, MoveMatches, CopyMatches,
       RestoredAll, IsRestored, IsMoved, files, NoHistory, Transactions
<1>6. SaveInv' /\ ApplyInv'
  BY <1>1, <1>2, <1>5 DEF RecordMove, Goto, HistoryInv, MemoryInv, SaveInv, ApplyInv, stores, NoHistory, Transactions
<1> QED
  BY <1>1, <1>3, <1>4, <1>6 DEF HistoryInv

(* Recording the second one: its file is not there yet. *)
LEMMA RecordCopyInv ==
  ASSUME HistoryInv, RecordCopy
  PROVE  HistoryInv'
<1>1. UNCHANGED <<files, stores, faults, touched>> /\ LedgerNeverAhead' /\ FilesMatchHistory'
  BY FilesKept DEF RecordCopy, HistoryInv, LedgerNeverAhead, stores
<1>2. /\ history' \in States
      /\ history'["copy"] = Prepared /\ history'["move"] = Load(archive)["move"]
      /\ Load(archive)["copy"] = 0
  BY TypeFacts DEF RecordCopy, HistoryInv, MemoryInv, States, Transactions
<1>3. TypeOK'
  BY <1>1, <1>2, TypeFacts DEF RecordCopy, Goto, HistoryInv, TypeOK, files, stores, Transactions
<1>4. MemoryInv'
  BY <1>1, <1>2 DEF RecordCopy, Goto, HistoryInv, MemoryInv, LedgerNeverAhead, stores
<1>5. FilesMatch(history)'
  BY <1>1, <1>2 DEF RecordCopy, HistoryInv, FilesMatchHistory, FilesMatch, MoveMatches, CopyMatches,
       IsRestored, IsMoved, files
<1>6. SaveInv' /\ ApplyInv'
  BY <1>1, <1>2, <1>5 DEF RecordCopy, Goto, HistoryInv, MemoryInv, SaveInv, ApplyInv, stores, Transactions
<1> QED
  BY <1>1, <1>3, <1>4, <1>6 DEF HistoryInv


(* Saving the archive: SaveInv says it is true of the files already. *)
LEMMA SaveHistoryInv ==
  ASSUME HistoryInv, SaveHistory
  PROVE  HistoryInv'
<1>1. UNCHANGED <<files, ledger, faults, touched>> /\ tx \in Transactions
  BY DEF SaveHistory, HistoryInv, TypeOK
<1>2. archive' \in Stores /\ Load(archive') = history /\ history \in States
  BY WriteIsLoaded, TypeFacts DEF SaveHistory
<1>3. FilesMatchHistory'
  BY <1>1, <1>2 DEF SaveHistory, HistoryInv, SaveInv, FilesMatchHistory, FilesMatch, MoveMatches, CopyMatches,
       IsMoved, IsRestored, files
<1>4. \A t \in Transactions : Load(archive)[t] <= Load(archive')[t]
  <2>1. Load(archive) \in States
    BY TypeFacts
  <2> QED
    BY <1>1, <1>2, <2>1 DEF SaveHistory, HistoryInv, SaveInv, States
<1>5. LedgerNeverAhead' /\ \A t \in Transactions : activity[t] <= Load(archive')[t]
  <2>1. Load(archive) \in States /\ Load(ledger) \in States /\ activity \in States
    BY TypeFacts
  <2> QED
    BY <1>1, <1>2, <1>4, <2>1 DEF HistoryInv, LedgerNeverAhead, MemoryInv, States
<1>6. CASE Over("console") \/ Over("idle")
  BY <1>1, <1>2, <1>3, <1>5, <1>6, OverKeeps, TypeKept, TypeFacts
<1>7. ASSUME NEW s \in {"log", "apply"}, Goto(s, tx), UNCHANGED <<history, activity>>,
             s = "log" => task # "undo", s = "apply" => task = "undo" /\ history[tx] # Undone
      PROVE  HistoryInv'
  <2>1. TypeOK'
    BY <1>1, <1>2, <1>7 DEF Goto, HistoryInv, TypeOK, files, Stores
  <2>2. MemoryInv'
    BY <1>2, <1>5, <1>7 DEF SaveHistory, Goto, HistoryInv, MemoryInv, SaveInv, TypeOK, Transactions
  <2>3. SaveInv' /\ (s = "log" => ApplyInv')
    BY <1>7 DEF SaveInv, ApplyInv, Goto
  <2>4. ASSUME s = "apply" PROVE ApplyInv'
    <3>1. history[tx] = UndoPending /\ preflight_undo_batch(tx) /\ done' = 0 /\ step' = "apply"
      BY <1>7, <2>4 DEF SaveHistory, Goto, HistoryInv, SaveInv, ApplyInv
    <3>2. Progress'
      BY <1>1, <1>7, <3>1 DEF Progress, Goto, Undoing
    <3> QED
      BY <1>1, <1>7, <2>4, <3>1, <3>2 DEF ApplyInv, Goto, preflight_undo_batch, IsMoved, IsRestored, files
  <2> QED
    BY <1>3, <1>5, <1>7, <2>1, <2>2, <2>3, <2>4 DEF HistoryInv
<1> QED
  BY <1>6, <1>7 DEF SaveHistory

(* Saving the ledger as it was found. *)
LEMMA SaveSearchInv ==
  ASSUME HistoryInv, SaveSearch
  PROVE  HistoryInv'
<1>1. UNCHANGED <<files, archive, faults, touched, history, activity>> /\ FilesMatchHistory'
  BY FilesKept DEF SaveSearch
<1>2. ledger' \in Stores /\ Load(ledger') = activity
  BY WriteIsLoaded, TypeFacts DEF SaveSearch, Entry
<1>3. LedgerNeverAhead'
  BY <1>1, <1>2 DEF HistoryInv, MemoryInv, LedgerNeverAhead
<1>4. TypeOK'
  BY <1>1, <1>2 DEF SaveSearch, Goto, HistoryInv, TypeOK, files, Stores, Transactions
<1>5. MemoryInv' /\ SaveInv' /\ ApplyInv'
  BY <1>1 DEF SaveSearch, Goto, HistoryInv, MemoryInv, SaveInv, ApplyInv
<1> QED
  BY <1>1, <1>3, <1>4, <1>5 DEF HistoryInv


(* What is about to be written to the ledger is in the archive. *)
LEMMA EntryBehind ==
  ASSUME HistoryInv, step \in {"search", "ensure", "log"}
  PROVE  \A t \in Transactions : Entry[t] <= Load(archive)[t] /\ Logged[t] <= Load(archive)[t]
<1>1. history = Load(archive) /\ history \in States /\ activity \in States /\ tx \in Transactions
  BY TypeFacts DEF HistoryInv, MemoryInv, TypeOK
<1>2. \A t \in Transactions : Logged[t] <= Load(archive)[t]
  BY <1>1 DEF Logged, HistoryInv, MemoryInv, States
<1> QED
  BY <1>2 DEF Entry, HistoryInv, MemoryInv

(* Steps that save the ledger and leave the archive and the files alone. *)
LEMMA LedgerSaved ==
  ASSUME HistoryInv, step \in {"ensure", "log"}, ledger' = Written(ledger, Entry),
         UNCHANGED <<files, archive, faults, touched>>
  PROVE  /\ FilesMatchHistory' /\ LedgerNeverAhead'
         /\ Over("idle") => HistoryInv'
         /\ activity' = Logged => \A t \in Transactions : activity'[t] <= Load(archive')[t]
<1>1. ledger' \in Stores /\ Load(ledger') = Entry /\ Load(archive') = Load(archive)
  BY WriteIsLoaded, TypeFacts
<1>2. FilesMatchHistory' /\ LedgerNeverAhead'
  BY <1>1, FilesKept, EntryBehind DEF LedgerNeverAhead
<1>3. Over("idle") => HistoryInv'
  BY <1>1, <1>2, OverKeeps, TypeKept, TypeFacts
<1> QED
  BY <1>1, <1>2, <1>3, EntryBehind

(* The way from a store to the files or to the other store. *)
LEMMA GoesOn ==
  ASSUME HistoryInv, step \in {"ensure", "log"}, ledger' = Written(ledger, Entry),
         UNCHANGED <<files, archive, faults, touched>>,
         UNCHANGED history, activity' = Logged,
         NEW s \in {"apply", "create", "ensure"}, NEW t \in Transactions, Goto(s, t),
         s = "apply" => t = tx /\ history[tx] \in {Prepared, UndoPending},
         s = "create" => task = "execute" /\ tx = "move" /\ t = "copy",
         s = "ensure" => task = "resume"
  PROVE  HistoryInv'
<1>1. FilesMatchHistory' /\ LedgerNeverAhead' /\ \A u \in Transactions : activity'[u] <= Load(archive')[u]
  BY LedgerSaved DEF Goto, HistoryInv, MemoryInv, TypeOK
<1>2. TypeOK'
  BY WriteIsLoaded, TypeFacts DEF Goto, HistoryInv, TypeOK, files, Stores
<1>3. MemoryInv'
  BY <1>1 DEF Goto, HistoryInv, MemoryInv
<1>4. SaveInv'
  BY DEF Goto, SaveInv
<1>5. ASSUME s = "apply" PROVE Progress'
  BY <1>5 DEF Progress, Goto, Undoing, HistoryInv, TypeOK
<1>6. ApplyInv'
  BY <1>5 DEF Goto, HistoryInv, ApplyInv, MemoryInv
<1> QED
  BY <1>1, <1>2, <1>3, <1>4, <1>6 DEF HistoryInv

(* Going on to the second transaction, or to the end. *)
LEMMA NextTransactionInv ==
  ASSUME HistoryInv, step \in {"ensure", "log"}, ledger' = Written(ledger, Entry),
         UNCHANGED <<files, archive, faults, touched>>, NextTransaction
  PROVE  HistoryInv'
<1>1. CASE tx = "copy"
  BY <1>1, LedgerSaved DEF NextTransaction
<1>2. CASE tx # "copy"
  <2>1. tx = "move" /\ task \in {"execute", "resume"}
    BY <1>2 DEF HistoryInv, TypeOK, MemoryInv, ApplyInv, Transactions
  <2> QED
    BY <1>2, <2>1, GoesOn DEF NextTransaction, Transactions
<1> QED
  BY <1>1, <1>2

(* Saving the ledger after the archive. *)
LEMMA LogInv ==
  ASSUME HistoryInv, Log
  PROVE  HistoryInv'
<1>1. /\ step = "log" /\ ledger' = Written(ledger, Entry) /\ tx \in Transactions
      /\ UNCHANGED <<files, archive, faults, touched>>
  BY DEF Log, HistoryInv, TypeOK
<1>2. CASE history[tx] \in {Prepared, UndoPending}
  BY <1>1, <1>2, GoesOn DEF Log
<1>3. CASE history[tx] \notin {Prepared, UndoPending}
  BY <1>1, <1>3, NextTransactionInv DEF Log
<1> QED
  BY <1>2, <1>3

(* An undo that is prepared, or prepared again, is true of the files. *)
LEMMA UndoIsTrue ==
  ASSUME HistoryInv, NEW t \in Transactions, Load(archive)[t] \in {Committed, UndoPending},
         UNCHANGED <<files, touched>>, history' = [Load(archive) EXCEPT ![t] = UndoPending]
  PROVE  /\ history' \in States /\ history'[t] = UndoPending
         /\ history'[t] - Load(archive)[t] \in {0, 1}
         /\ \A u \in Transactions \ {t} : history'[u] = Load(archive)[u]
         /\ FilesMatch(history)'
<1>1. /\ history' \in States /\ history'[t] = UndoPending
      /\ \A u \in Transactions \ {t} : history'[u] = Load(archive)[u]
  BY TypeFacts DEF States
<1>2. history'[t] - Load(archive)[t] \in {0, 1}
  BY <1>1
<1>3. \A u \in Transactions :
        \/ history'[u] = Load(archive)[u]
        \/ history'[u] = UndoPending /\ Load(archive)[u] = Committed
  BY <1>1
<1>4. {"move", "copy"} \subseteq Transactions
  BY DEF Transactions
<1>5. FilesMatch(history)'
  BY <1>3, <1>4 DEF HistoryInv, FilesMatchHistory, FilesMatch, MoveMatches, CopyMatches, IsMoved, IsRestored, files
<1> QED
  BY <1>1, <1>2, <1>5


(* Resuming a transaction. *)
LEMMA ResumeInv ==
  ASSUME HistoryInv, Resume
  PROVE  HistoryInv'
<1>1. /\ step = "ensure" /\ ledger' = Written(ledger, Entry) /\ tx \in Transactions
      /\ UNCHANGED <<files, archive, faults, touched>>
      /\ history = Load(archive) /\ history \in States /\ task = "resume"
  BY TypeFacts DEF Resume, HistoryInv, TypeOK, MemoryInv
<1>2. CASE Goto("apply", tx) /\ activity' = Logged /\ UNCHANGED history /\ history[tx] = Prepared
  BY <1>1, <1>2, GoesOn
<1>3. CASE Over("idle")
  BY <1>1, <1>3, LedgerSaved
<1>4. CASE NextTransaction
  BY <1>1, <1>4, NextTransactionInv
<1>5. CASE Prepare /\ activity' = Logged /\ history[tx] \in {Committed, UndoPending}
  <2>1. /\ history' \in States /\ history'[tx] = UndoPending
        /\ history'[tx] - Load(archive)[tx] \in {0, 1}
        /\ \A u \in Transactions \ {tx} : history'[u] = Load(archive)[u]
        /\ FilesMatch(history)'
    BY <1>1, <1>5, UndoIsTrue, Zenon DEF Prepare
  <2>2. /\ FilesMatchHistory' /\ LedgerNeverAhead'
        /\ \A t \in Transactions : activity'[t] <= Load(archive')[t]
    BY <1>1, <1>5, LedgerSaved DEF Prepare, Goto
  <2>3. TypeOK'
    <3>1. ledger' \in Stores /\ activity' \in States
      BY <1>1, <1>5, WriteIsLoaded, TypeFacts
    <3> QED
      BY <1>1, <1>5, <2>1, <3>1 DEF Prepare, Goto, HistoryInv, TypeOK, files, Stores
  <2>4. MemoryInv'
    BY <1>1, <1>5, <2>2 DEF Prepare, Goto, MemoryInv
  <2>5. SaveInv' /\ ApplyInv'
    BY <1>1, <1>5, <2>1 DEF Prepare, Goto, SaveInv, ApplyInv
  <2> QED
    BY <2>2, <2>3, <2>4, <2>5 DEF HistoryInv
<1>6. history[tx] \in 0..4
  BY <1>1 DEF States
<1> QED
  BY <1>2, <1>3, <1>4, <1>5, <1>6 DEF Resume

(* The undo command of Recovery. *)
LEMMA UndoLatestInv ==
  ASSUME HistoryInv, undo_latest
  PROVE  HistoryInv'
<1>1. /\ UNCHANGED <<files, stores, activity, faults, touched>> /\ task = "console" /\ step = "none"
      /\ LedgerNeverAhead' /\ FilesMatchHistory'
  BY FilesKept DEF undo_latest, HistoryInv, MemoryInv, LedgerNeverAhead, stores
<1>2. PICK t \in Latest(Load(archive)) :
        /\ preflight_undo_batch(t)
        /\ history' = [Load(archive) EXCEPT ![t] = UndoPending]
        /\ task' = "undo" /\ step' = "save" /\ tx' = t /\ done' = 0
  BY Zenon DEF undo_latest
<1>3. t \in Transactions /\ Load(archive)[t] \in {Committed, UndoPending}
  BY <1>2 DEF Latest
<1>4. /\ history' \in States /\ history'[t] = UndoPending
      /\ history'[t] - Load(archive)[t] \in {0, 1}
      /\ \A u \in Transactions \ {t} : history'[u] = Load(archive)[u]
      /\ FilesMatch(history)'
  BY <1>1, <1>2, <1>3, UndoIsTrue, Zenon
<1>5. TypeOK'
  BY <1>1, <1>2, <1>3, <1>4 DEF HistoryInv, TypeOK, files, stores
<1>6. MemoryInv'
  BY <1>1, <1>2 DEF HistoryInv, MemoryInv, stores
<1>7. SaveInv'
  BY <1>1, <1>2, <1>4 DEF SaveInv, stores
<1>8. ApplyInv'
  BY <1>1, <1>2, <1>4 DEF ApplyInv, preflight_undo_batch, IsMoved, IsRestored, files
<1> QED
  BY <1>1, <1>5, <1>6, <1>7, <1>8 DEF HistoryInv

(* A fault, in a write to a store or before any other step. *)
LEMMA FaultInv ==
  ASSUME HistoryInv, Fault
  PROVE  HistoryInv'
<1>1. UNCHANGED <<files, touched>> /\ (Over("off") \/ Over(Back)) /\ Back \in {"idle", "console"}
  BY DEF Fault, Back
<1>2. /\ archive' \in Stores
      /\ Load(archive') = Load(archive) \/ (step = "save" /\ Load(archive') = history)
  BY InterruptedWrite, TypeFacts DEF Fault
<1>3. /\ ledger' \in Stores
      /\ \/ Load(ledger') = Load(ledger)
         \/ step \in {"search", "ensure", "log"} /\ Load(ledger') = Entry
  BY InterruptedWrite, TypeFacts DEF Fault
<1>4. FilesMatchHistory'
  <2>1. FilesMatch(Load(archive')) /\ Load(archive') \in States
    BY <1>2, TypeFacts DEF HistoryInv, FilesMatchHistory, SaveInv
  <2> QED
    BY <1>1, <2>1 DEF FilesMatchHistory, FilesMatch, MoveMatches, CopyMatches, IsMoved, IsRestored, files
<1>5. \A t \in Transactions : Load(archive)[t] <= Load(archive')[t]
  <2>1. Load(archive) \in States /\ history \in States
    BY TypeFacts
  <2> QED
    BY <1>2, <2>1 DEF HistoryInv, SaveInv, States
<1>6. LedgerNeverAhead'
  <2>1. Load(archive) \in States /\ Load(archive') \in States /\ Load(ledger') \in States
    BY <1>2, <1>3, LoadType, TypeFacts
  <2>2. \A t \in Transactions : Load(ledger')[t] <= Load(archive)[t]
    BY <1>3, EntryBehind DEF HistoryInv, LedgerNeverAhead
  <2> QED
    BY <1>5, <2>1, <2>2 DEF LedgerNeverAhead, States
<1>7. /\ source' \in [Files -> Contents] /\ moved' \in [Files -> Contents] /\ copied' \in Contents
      /\ faults' \in 0..MAX_FAULTS /\ touched' \subseteq 0..Count
  BY <1>1 DEF Fault, HistoryInv, TypeOK, files
<1> QED
  BY <1>1, <1>2, <1>3, <1>4, <1>6, <1>7, OverKeeps, Zenon


(* All files are done with: the next state is true of them. *)
LEMMA CompleteInv ==
  ASSUME HistoryInv, Complete
  PROVE  HistoryInv'
<1>1. /\ UNCHANGED <<files, stores, activity, faults, touched>>
      /\ LedgerNeverAhead' /\ FilesMatchHistory'
  BY FilesKept DEF Complete, HistoryInv, LedgerNeverAhead, stores
<1>2. /\ step = "apply" /\ done = Items(tx) /\ tx \in Transactions
      /\ history = Load(archive) /\ history \in States /\ history[tx] \in {Prepared, UndoPending} /\ Progress
  BY TypeFacts DEF Complete, HistoryInv, MemoryInv, ApplyInv, TypeOK
<1>3. /\ history' \in States /\ history'[tx] = history[tx] + 1
      /\ \A t \in Transactions \ {tx} : history'[t] = history[t]
  BY <1>2 DEF Complete, States
<1>4. FilesMatch(history)'
  <2>1. CASE tx = "move"
    <3>1. history'["copy"] = history["copy"]
      BY <1>3, <2>1 DEF Transactions
    <3>2. ASSUME NEW i \in Files \ touched PROVE MoveMatches(i, history'["move"])
      BY <1>2, <1>3, <2>1 DEF Progress, Undoing, Items, MoveMatches
    <3> QED
      BY <1>1, <1>2, <3>1, <3>2 DEF HistoryInv, FilesMatchHistory, FilesMatch, MoveMatches, CopyMatches,
           IsMoved, IsRestored, files
  <2>2. CASE tx = "copy"
    <3>1. history'["move"] = history["move"]
      BY <1>3, <2>2 DEF Transactions
    <3>2. 0 \notin touched => CopyMatches(history'["copy"])
      BY <1>2, <1>3, <2>2 DEF Progress, Undoing, Items, CopyMatches
    <3> QED
      BY <1>1, <1>2, <3>1, <3>2 DEF HistoryInv, FilesMatchHistory, FilesMatch, MoveMatches, CopyMatches,
           IsMoved, IsRestored, files
  <2> QED
    BY <1>2, <2>1, <2>2 DEF Transactions
<1>5. TypeOK'
  BY <1>1, <1>2, <1>3 DEF Complete, Goto, HistoryInv, TypeOK, files, stores
<1>6. MemoryInv'
  BY <1>1, <1>2 DEF Complete, Goto, HistoryInv, MemoryInv, stores
<1>7. task = "undo" => history[tx] = UndoPending
  BY <1>2 DEF HistoryInv, ApplyInv
<1>8. SaveInv'
  BY <1>1, <1>2, <1>3, <1>4, <1>7 DEF Complete, Goto, SaveInv, stores
<1>9. ApplyInv'
  BY <1>1, <1>2, <1>3, <1>7 DEF Complete, Goto, HistoryInv, ApplyInv, preflight_undo_batch, IsMoved, IsRestored, files
<1> QED
  BY <1>1, <1>5, <1>6, <1>8, <1>9 DEF HistoryInv

(* Writing the files that are to be moved. *)
LEMMA WriteFixtureInv ==
  ASSUME HistoryInv, WriteFixture
  PROVE  HistoryInv'
<1>1. PICK i \in Files : /\ source[i] # "recorded"
                         /\ source' = [source EXCEPT ![i] = IF @ = "absent" THEN "empty" ELSE "recorded"]
  BY Zenon DEF WriteFixture
<1>2. /\ step = "fixture" /\ task = "execute" /\ Load(archive) = NoHistory
      /\ UNCHANGED <<moved, copied, stores, memory, faults, touched>>
  BY DEF WriteFixture, HistoryInv, MemoryInv
<1>3. TypeOK'
  BY <1>1, <1>2 DEF HistoryInv, TypeOK, stores, memory, Contents
<1>4. MemoryInv' /\ SaveInv' /\ LedgerNeverAhead'
  BY <1>2 DEF HistoryInv, MemoryInv, SaveInv, LedgerNeverAhead, stores, memory
<1>5. ApplyInv'
  BY <1>1, <1>2 DEF HistoryInv, ApplyInv, TypeOK, memory
<1>6. FilesMatchHistory'
  <2>1. NoHistory["move"] = 0 /\ NoHistory["copy"] = 0
    BY DEF NoHistory, Transactions
  <2> QED
    BY <1>2, <2>1 DEF HistoryInv, FilesMatchHistory, FilesMatch, MoveMatches, CopyMatches, stores
<1> QED
  BY <1>3, <1>4, <1>5, <1>6 DEF HistoryInv


(* A file is renamed only if it is the one recorded; so the two names of   *)
(* an untouched file keep what the state of the transaction says of them.  *)
LEMMA MoveInv ==
  ASSUME HistoryInv, Move
  PROVE  HistoryInv'
<1>0. PICK i \in Files : i = IF Undoing THEN Count - done ELSE done + 1
  <2>1. done < Count /\ done \in 0..Count
    BY DEF Move, HistoryInv, TypeOK
  <2>2. (Count - done \in Files) /\ (done + 1 \in Files)
    BY <2>1
  <2> QED
    BY <2>2
<1> DEFINE from == IF Undoing THEN moved[i] ELSE source[i]
           to == IF Undoing THEN source[i] ELSE moved[i]
           renames == Accepts(from) /\ to = "absent"
<1>1. /\ step = "apply" /\ tx = "move" /\ done < Count /\ done \in 0..Count
      /\ history = Load(archive) /\ history["move"] \in {Prepared, UndoPending} /\ Progress
      /\ UNCHANGED <<copied, stores, faults, touched>>
  BY DEF Move, HistoryInv, MemoryInv, ApplyInv, TypeOK
<1>2. source \in [Files -> Contents] /\ moved \in [Files -> Contents]
  BY DEF HistoryInv, TypeOK
<1>3. IF renames
        THEN /\ source' = [source EXCEPT ![i] = moved[i]]
             /\ moved' = [moved EXCEPT ![i] = source[i]]
        ELSE UNCHANGED <<source, moved>>
  BY <1>0 DEF Move
<1>4. /\ source' \in [Files -> Contents] /\ moved' \in [Files -> Contents]
      /\ \A j \in Files \ {i} : source'[j] = source[j] /\ moved'[j] = moved[j]
      /\ IF renames THEN source'[i] = moved[i] /\ moved'[i] = source[i]
                    ELSE source'[i] = source[i] /\ moved'[i] = moved[i]
  <2>1. CASE renames
    BY <1>2, <1>3, <2>1
  <2>2. CASE ~renames
    BY <1>2, <1>3, <2>2
  <2> QED
    BY <2>1, <2>2
<1> HIDE DEF renames, from, to
<1>5. \A j \in Files \ touched : IsMoved(j) \/ IsRestored(j)
  BY <1>1 DEF HistoryInv, FilesMatchHistory, FilesMatch, MoveMatches
<1>6. \A j \in Files \ touched : IsMoved(j)' \/ IsRestored(j)'
  BY <1>4, <1>5 DEF IsMoved, IsRestored
<1>7. FilesMatchHistory' /\ LedgerNeverAhead'
  <2>1. \A j \in Files \ touched : MoveMatches(j, Load(archive)["move"])'
    BY <1>1, <1>6 DEF MoveMatches, stores
  <2> QED
    BY <1>1, <2>1 DEF HistoryInv, FilesMatchHistory, FilesMatch, CopyMatches, LedgerNeverAhead, stores
<1>8. CASE Over(Back) /\ ~(renames \/ Already(from, to))
  BY <1>1, <1>4, <1>7, <1>8, OverKeeps, TypeFacts, Zenon DEF Back, HistoryInv, TypeOK, stores
<1>9. CASE Proceed /\ (renames \/ Already(from, to))
  <2>1. TypeOK'
    BY <1>1, <1>4, <1>9 DEF Proceed, HistoryInv, TypeOK, stores
  <2>2. MemoryInv' /\ SaveInv'
    BY <1>1, <1>9 DEF Proceed, HistoryInv, MemoryInv, SaveInv, stores
  <2>3. i \notin touched => IF Undoing THEN IsRestored(i)' ELSE IsMoved(i)'
    BY <1>2, <1>4, <1>5, <1>9 DEF renames, from, to, Already, Accepts, IsMoved, IsRestored
  <2>4. Progress'
    <3>1. Undoing' <=> Undoing
      BY <1>9 DEF Proceed, Undoing
    <3>2. ASSUME NEW j \in Files \ touched, j # i
          PROVE  (IsMoved(j)' <=> IsMoved(j)) /\ (IsRestored(j)' <=> IsRestored(j))
      BY <1>4, <3>2 DEF IsMoved, IsRestored
    <3>3. CASE Undoing
      BY <1>0, <1>1, <1>9, <2>3, <3>1, <3>2, <3>3 DEF Progress, Proceed
    <3>4. CASE ~Undoing
      BY <1>0, <1>1, <1>9, <2>3, <3>1, <3>2, <3>4 DEF Progress, Proceed
    <3> QED
      BY <3>3, <3>4
  <2>5. task = "undo" => preflight_undo_batch(tx)'
    BY <1>1, <1>4, <1>9 DEF HistoryInv, ApplyInv, Proceed, preflight_undo_batch, IsMoved, IsRestored
  <2>6. ApplyInv'
    BY <1>1, <1>9, <2>4, <2>5 DEF HistoryInv, ApplyInv, Proceed
  <2> QED
    BY <1>7, <2>1, <2>2, <2>6 DEF HistoryInv
<1> QED
  BY <1>0, <1>8, <1>9 DEF Move, renames, from, to


(* The created file, with which only the transaction "copy" is concerned. *)
LEMMA CopyStep ==
  ASSUME HistoryInv, tx = "copy", step \in {"apply", "write"},
         UNCHANGED <<source, moved, stores, faults, touched>>,
         copied' \in Contents,
         0 \notin touched => CopyMatches(Load(archive)["copy"])'
  PROVE  /\ FilesMatchHistory' /\ LedgerNeverAhead'
         /\ Over(Back) => HistoryInv'
<1>1. FilesMatchHistory' /\ LedgerNeverAhead'
  BY DEF HistoryInv, FilesMatchHistory, FilesMatch, MoveMatches, IsMoved, IsRestored, LedgerNeverAhead, stores
<1>2. Back \in {"off", "idle", "console"}
  BY DEF Back
<1>3. source' \in [Files -> Contents] /\ moved' \in [Files -> Contents] /\ faults' \in 0..MAX_FAULTS /\ touched' \subseteq 0..Count
  BY DEF HistoryInv, TypeOK
<1> QED
  BY <1>1, <1>2, <1>3, OverKeeps, TypeFacts, Zenon DEF stores

(* Creating the file, or finding it there. *)
LEMMA CreateInv ==
  ASSUME HistoryInv, Create
  PROVE  HistoryInv'
<1>1. /\ step = "apply" /\ tx = "copy" /\ done = 0 /\ history = Load(archive) /\ history["copy"] = Prepared
      /\ UNCHANGED <<source, moved, stores, faults, touched>> /\ copied \in Contents /\ task # "undo"
  BY DEF Create, Undoing, HistoryInv, MemoryInv, ApplyInv, TypeOK
<1>2. copied' \in Contents /\ (copied' = "foreign" => copied = "foreign")
  BY <1>1 DEF Create, Contents
<1>3. 0 \notin touched => CopyMatches(Load(archive)["copy"])'
  BY <1>1, <1>2 DEF HistoryInv, FilesMatchHistory, FilesMatch, CopyMatches, stores
<1>4. FilesMatchHistory' /\ LedgerNeverAhead' /\ (Over(Back) => HistoryInv')
  BY <1>1, <1>2, <1>3, CopyStep
<1>5. CASE copied = "recorded" /\ Proceed /\ UNCHANGED copied
  <2>1. TypeOK'
    BY <1>1, <1>5 DEF Proceed, HistoryInv, TypeOK, stores
  <2>2. MemoryInv' /\ SaveInv'
    BY <1>1, <1>5 DEF Proceed, HistoryInv, MemoryInv, SaveInv, stores
  <2>3. ApplyInv'
    BY <1>1, <1>5 DEF Proceed, HistoryInv, ApplyInv, Progress, Undoing
  <2> QED
    BY <1>4, <2>1, <2>2, <2>3 DEF HistoryInv
<1>6. CASE UNCHANGED memory
  <2>1. TypeOK' /\ MemoryInv' /\ SaveInv'
    BY <1>1, <1>2, <1>6 DEF HistoryInv, TypeOK, MemoryInv, SaveInv, stores, memory
  <2>2. ApplyInv'
    BY <1>1, <1>6 DEF HistoryInv, ApplyInv, Progress, Undoing, memory
  <2> QED
    BY <1>4, <2>1, <2>2 DEF HistoryInv
<1>7. CASE copied' = "empty" /\ step' = "write" /\ UNCHANGED <<task, tx, done, history, activity>>
  <2>1. TypeOK' /\ SaveInv' /\ ApplyInv'
    BY <1>1, <1>2, <1>7 DEF HistoryInv, TypeOK, SaveInv, ApplyInv, stores
  <2>2. MemoryInv'
    BY <1>1, <1>7 DEF HistoryInv, MemoryInv, stores
  <2> QED
    BY <1>4, <2>1, <2>2 DEF HistoryInv
<1> QED
  BY <1>4, <1>5, <1>6, <1>7 DEF Create

(* Writing the file that was created. *)
LEMMA WriteInv ==
  ASSUME HistoryInv, Write
  PROVE  HistoryInv'
<1>1. /\ step = "write" /\ tx = "copy" /\ history = Load(archive) /\ history["copy"] = Prepared
      /\ UNCHANGED <<source, moved, stores, task, tx, history, activity, faults, touched>>
      /\ copied' = "recorded" /\ step' = "apply" /\ done' = 1 /\ task # "undo"
  BY DEF Write, HistoryInv, MemoryInv, ApplyInv
<1>2. 0 \notin touched => CopyMatches(Load(archive)["copy"])'
  BY <1>1 DEF CopyMatches, stores
<1>3. FilesMatchHistory' /\ LedgerNeverAhead'
  BY <1>1, <1>2, CopyStep DEF Contents
<1>4. TypeOK'
  BY <1>1 DEF HistoryInv, TypeOK, stores, Contents
<1>5. MemoryInv' /\ SaveInv'
  BY <1>1 DEF HistoryInv, MemoryInv, SaveInv, stores
<1>6. ApplyInv'
  BY <1>1 DEF HistoryInv, ApplyInv, Progress, Undoing
<1> QED
  BY <1>3, <1>4, <1>5, <1>6 DEF HistoryInv

(* Removing the file that was created. *)
LEMMA DeleteInv ==
  ASSUME HistoryInv, Delete
  PROVE  HistoryInv'
<1>1. /\ step = "apply" /\ tx = "copy" /\ done = 0 /\ history = Load(archive) /\ history["copy"] = UndoPending
      /\ UNCHANGED <<source, moved, stores, faults, touched>> /\ copied \in Contents
  BY DEF Delete, Undoing, HistoryInv, MemoryInv, TypeOK
<1>2. copied' \in {copied, "absent"}
  BY DEF Delete
<1>3. 0 \notin touched => CopyMatches(Load(archive)["copy"])'
  BY <1>1, <1>2 DEF HistoryInv, FilesMatchHistory, FilesMatch, CopyMatches, stores
<1>4. FilesMatchHistory' /\ LedgerNeverAhead' /\ (Over(Back) => HistoryInv')
  BY <1>1, <1>2, <1>3, CopyStep DEF Contents
<1>5. CASE copied' = "absent" /\ Proceed
  <2>1. TypeOK'
    BY <1>1, <1>5 DEF Proceed, HistoryInv, TypeOK, stores, Contents
  <2>2. MemoryInv' /\ SaveInv'
    BY <1>1, <1>5 DEF Proceed, HistoryInv, MemoryInv, SaveInv, stores
  <2>3. ApplyInv'
    BY <1>1, <1>5 DEF Proceed, HistoryInv, ApplyInv, Progress, Undoing, preflight_undo_batch
  <2> QED
    BY <1>4, <2>1, <2>2, <2>3 DEF HistoryInv
<1> QED
  BY <1>4, <1>5 DEF Delete

(* A change by others is one to a file that counts as touched. *)
LEMMA EditInv ==
  ASSUME HistoryInv, NEW i \in 0..Count, NEW f \in {"absent", "foreign"}, Edit(i, f)
  PROVE  HistoryInv'
<1>1. /\ task = "off" /\ step = "none" /\ touched' = touched \cup {i}
      /\ UNCHANGED <<stores, memory, faults>>
      /\ source \in [Files -> Contents] /\ moved \in [Files -> Contents] /\ copied \in Contents
  BY DEF Edit, HistoryInv, MemoryInv, TypeOK
<1>2. /\ source' \in [Files -> Contents] /\ moved' \in [Files -> Contents] /\ copied' \in Contents
      /\ \A j \in Files \ {i} : source'[j] = source[j] /\ moved'[j] = moved[j]
      /\ i # 0 => copied' = copied
  <2>1. CASE i = 0
    BY <1>1, <2>1 DEF Edit, Contents
  <2>2. CASE i # 0
    BY <1>1, <2>2 DEF Edit, Contents
  <2> QED
    BY <2>1, <2>2
<1>3. TypeOK'
  BY <1>1, <1>2 DEF HistoryInv, TypeOK, stores, memory
<1>4. MemoryInv' /\ SaveInv' /\ ApplyInv' /\ LedgerNeverAhead'
  BY <1>1 DEF HistoryInv, MemoryInv, SaveInv, ApplyInv, LedgerNeverAhead, stores, memory
<1>5. FilesMatchHistory'
  BY <1>1, <1>2 DEF HistoryInv, FilesMatchHistory, FilesMatch, MoveMatches, CopyMatches, IsMoved, IsRestored, stores
<1> QED
  BY <1>3, <1>4, <1>5 DEF HistoryInv


(* The invariant is inductive. *)
LEMMA StepInv == HistoryInv /\ [Next]_vars => HistoryInv'
<1> SUFFICES ASSUME HistoryInv, [Next]_vars PROVE HistoryInv'
  OBVIOUS
<1>1. CASE Next
  <2>1. CASE Step
    BY <2>1, WriteFixtureInv, RecordMoveInv, RecordCopyInv, SaveHistoryInv, SaveSearchInv, LogInv, ResumeInv,
       MoveInv, CreateInv, WriteInv, DeleteInv, CompleteInv DEF Step
  <2> QED
    BY <1>1, <2>1, RunInv, ShutdownInv, UndoLatestInv, FaultInv, EditInv DEF Next
<1>2. CASE UNCHANGED vars
  <2>1. TypeOK' /\ MemoryInv' /\ LedgerNeverAhead' /\ FilesMatchHistory'
    BY <1>2, FilesKept DEF vars, files, stores, memory, HistoryInv, TypeOK, MemoryInv, LedgerNeverAhead
  <2>2. SaveInv' /\ ApplyInv'
    BY <1>2 DEF vars, files, stores, memory, HistoryInv, SaveInv, ApplyInv, FilesMatch, MoveMatches, CopyMatches,
         IsMoved, IsRestored, Progress, Undoing, preflight_undo_batch
  <2> QED
    BY <2>1, <2>2 DEF HistoryInv
<1> QED
  BY <1>1, <1>2

-----------------------------------------------------------------------------
(* Wherever power is lost or storage fails, and however often, what the    *)
(* archive says of a transaction is true of the files nobody else touched. *)
THEOREM ArchiveTellsTheTruth == Spec => []FilesMatchHistory
<1>1. HistoryInv => FilesMatchHistory
  BY DEF HistoryInv
<1> QED
  BY <1>1, InitInv, StepInv, PTL DEF Spec

(* The activity ledger is never ahead of the archive. *)
THEOREM LedgerFollows == Spec => []LedgerNeverAhead
<1>1. HistoryInv => LedgerNeverAhead
  BY DEF HistoryInv
<1> QED
  BY <1>1, InitInv, StepInv, PTL DEF Spec

(* The archive only ever changes into the one that was being saved. *)
LEMMA ArchiveStep ==
  ASSUME HistoryInv, [Next]_vars
  PROVE  \/ archive' = archive
         \/ step = "save" /\ archive' \in Interrupted(archive, history)
<1>1. CASE Step
  BY <1>1 DEF Step, WriteFixture, RecordMove, RecordCopy, SaveHistory, SaveSearch, Log, Resume, Move, Create, Write,
       Delete, Complete, stores, Interrupted
<1>2. CASE run \/ BootRecovery \/ undo_latest \/ Shutdown
  BY <1>2 DEF run, BootRecovery, undo_latest, Shutdown, stores
<1>3. CASE Fault
  BY <1>3 DEF Fault
<1>4. CASE \E i \in 0..Count, f \in {"absent", "foreign"} : Edit(i, f)
  BY <1>4 DEF Edit, stores
<1>5. CASE UNCHANGED vars
  BY <1>5 DEF vars, stores
<1> QED
  BY <1>1, <1>2, <1>3, <1>4, <1>5 DEF Next

(* An archive that could be loaded can be loaded ever after, and no        *)
(* transaction in it goes back or skips a state.                           *)
THEOREM NoStateIsLost == Spec => HistoryOnlyAdvances
<1> DEFINE Advances ==
      Valid(archive) # {} =>
        /\ Valid(archive') # {}
        /\ \A t \in Transactions : Load(archive')[t] - Load(archive)[t] \in {0, 1}
<1>1. ASSUME HistoryInv, [Next]_vars PROVE Advances
  <2>1. Load(archive) \in States /\ history \in States /\ archive \in Stores
    BY <1>1, TypeFacts
  <2>2. CASE archive' = archive
    BY <2>1, <2>2 DEF States
  <2>3. CASE step = "save" /\ archive' \in Interrupted(archive, history)
    <3>1. \A t \in Transactions : history[t] - Load(archive)[t] \in {0, 1}
      BY <1>1, <2>1, <2>3 DEF HistoryInv, SaveInv, States
    <3>2. Load(archive') \in {Load(archive), history} /\ (Valid(archive) # {} => Valid(archive') # {})
      BY <2>1, <2>3, InterruptedWrite
    <3> QED
      BY <2>1, <3>1, <3>2 DEF States
  <2> QED
    BY <1>1, <2>2, <2>3, ArchiveStep
<1>2. HistoryInv /\ [Next]_vars => [Advances]_vars
  BY <1>1
<1> QED
  BY <1>2, InitInv, StepInv, PTL DEF Spec, HistoryOnlyAdvances

(* No step of init or Recovery changes a file that is not the one          *)
(* recorded.                                                               *)
THEOREM OthersFilesKept == Spec => ForeignFilesKept
<1> DEFINE Kept ==
      task # "off" =>
        /\ \A i \in Files : /\ source[i] = "foreign" => source'[i] = "foreign"
                            /\ moved[i] = "foreign" => moved'[i] = "foreign"
        /\ copied = "foreign" => copied' = "foreign"
<1>1. ASSUME HistoryInv, [Next]_vars PROVE Kept
  <2>1. source \in [Files -> Contents] /\ moved \in [Files -> Contents] /\ done \in 0..Count
    BY <1>1 DEF HistoryInv, TypeOK
  <2>2. CASE WriteFixture
    BY <1>1, <2>1, <2>2 DEF WriteFixture, HistoryInv, ApplyInv
  <2>3. CASE Move
    <3>1. ASSUME task = "undo" PROVE \A i \in Files : source[i] # "foreign" /\ moved[i] # "foreign"
      BY <1>1, <2>3, <3>1 DEF Move, HistoryInv, ApplyInv, preflight_undo_batch, IsMoved, IsRestored
    <3>2. UNCHANGED copied
      BY <2>3 DEF Move
    <3>3. PICK i \in Files : i = IF Undoing THEN Count - done ELSE done + 1
      <4>1. (Count - done \in Files) /\ (done + 1 \in Files)
        BY <2>1, <2>3 DEF Move
      <4> QED
        BY <4>1
    <3>4. \/ UNCHANGED <<source, moved>>
          \/ /\ source' = [source EXCEPT ![i] = moved[i]] /\ moved' = [moved EXCEPT ![i] = source[i]]
             /\ \/ source[i] = "absent" /\ Accepts(moved[i])
                \/ moved[i] = "absent" /\ Accepts(source[i])
      BY <2>3, <3>3 DEF Move
    <3> QED
      BY <2>1, <3>1, <3>2, <3>4 DEF Accepts
  <2>4. CASE Create \/ Write \/ Delete
    <3>1. UNCHANGED <<source, moved>>
      BY <2>4 DEF Create, Write, Delete
    <3>2. CASE Create
      BY <3>1, <3>2 DEF Create
    <3>3. CASE Write
      BY <1>1, <3>1, <3>3 DEF Write, HistoryInv, ApplyInv
    <3>4. CASE Delete
      BY <1>1, <3>1, <3>4 DEF Delete, Accepts, HistoryInv, ApplyInv, preflight_undo_batch
    <3> QED
      BY <2>4, <3>2, <3>3, <3>4
  <2>5. CASE RecordMove \/ RecordCopy \/ SaveHistory \/ SaveSearch \/ Log \/ Resume \/ Complete
    BY <2>5 DEF RecordMove, RecordCopy, SaveHistory, SaveSearch, Log, Resume, Complete, files
  <2>6. CASE run \/ BootRecovery \/ undo_latest \/ Shutdown \/ Fault
    BY <2>6 DEF run, BootRecovery, undo_latest, Shutdown, Fault, files
  <2>7. CASE \E i \in 0..Count, f \in {"absent", "foreign"} : Edit(i, f)
    BY <2>7 DEF Edit
  <2>8. CASE UNCHANGED vars
    BY <2>8 DEF vars, files
  <2> QED
    BY <1>1, <2>2, <2>3, <2>4, <2>5, <2>6, <2>7, <2>8 DEF Next, Step
<1>2. HistoryInv /\ [Next]_vars => [Kept]_vars
  BY <1>1
<1> QED
  BY <1>2, InitInv, StepInv, PTL DEF Spec, ForeignFilesKept

=============================================================================
