# NagiOS: TLA+ specifications

These modules model the parts of NagiOS in which several actors share state, or in which a
loss of power can come at the wrong moment: user threads, isolated processes, channels and the
syscalls that tie them together; the A/B system update that spans loader, kernel, init and any
number of resets; the volume that holds the user's files; the owner account, what launched
applications are allowed to do, and file transactions that can be taken back. Every action is
translated from the Rust source; `PROJECT.json` maps each definition to its lines.

    tlc -config MCScheduler.cfg MCScheduler       # one run (all are listed in PROJECT.json)
    tlapm SchedulerProofs.tla                     # one proof module

## 1. The system and its parts

NagiOS is a small operating system in Rust. A UEFI **loader** decides which of two system
slots to boot, verifies it and starts the **kernel** (`kernel/src`). The kernel runs one
supervisor process, **init** (PID 1), and up to two isolated processes at a time, on the
boot processor, with cooperative threads. Everything above that (file system, sign-in,
desktop, history, search, AI services, applications) is user code in init or in host-tested
crates.

| Part | State | Operations | Interacts with |
|---|---|---|---|
| Thread table (`scheduler.rs`) | 32 or 64 slots: state, wake time, joiner, target, owner; current, cursor | yield, sleep, create, join, detach, exit, block, wake, select | syscalls, timer |
| Exit table (`process_exit.rs`) | live processes with their waiter, kept exit statuses, next ID | reserve, commit_spawn, record_exit, wait, cancel_wait | process syscalls |
| Objects and handles (`handles.rs`) | reference-counted object slots and handle slots, both with generations | create, retain, release, install, close, move | user IPC |
| User IPC (`user_ipc.rs`, `ipc.rs`) | handle table per process, channel slots, queues with escrowed handles, wait registrations | create_pair, send, try_receive, wait_readable, cancel, close, spawn, exit, collect | channel and process syscalls |
| Address-space slots (`user_child.rs`) | which process owns which slot | prepare, release | process syscalls |
| Syscall layer (`syscall.rs`) | the lock order and the resume loop | one handler per syscall; faults; halt | all of the above |
| Boot journal (`loader/src/ab.rs`) | two records: confirmed, pending, attempts, generation | load, stage_update, begin_boot, mark_boot_success | boot decision |
| Boot decision (`loader/src/main.rs`) | context given to the kernel | consume readiness, consume request, menu, begin, verify | journal, UEFI variables, slots |
| Boot gates (`kernel/src/boot_control.rs`) | two one-shot states | report, target_slot, stage | UEFI variables |
| Update installer (`nagi-init/src/system_update.rs`, `nagi-fat32`) | content of the inactive slot | claim, format, flush, read back, stage | gates, slots |
| Volume (`libnagi/src/storage.rs`) | superblock, bitmaps, inodes with generations, data, table and directory blocks | format, create, mkdir, remove, rename, replace, write, write_at, truncate, check | account, decisions, applications |
| Sign-in (`libnagi/src/login.rs`, `nagi-init/src/login_screen.rs`) | owner record, failure count, both in files; throttle | create, unlock, change password | desktop |
| Launch registry (`libnagi/src/launch.rs`, `nagi-init/src/supervisor.rs`) | manifests, live launches, decisions, prompts | launch, check_grant, request, resolve, exit, save, restore | desktop, process syscalls |
| Desktop (`nagi-init/src/desktop.rs` and the modules it opens) | consent dialog, last answer, permissions view, a search under way | input events, frames, search, withdraw | sign-in, registry, volume |
| Undo archive and activity ledger (`nagi-history/src/lib.rs`, `guest.rs`, `activity_ledger.rs`) | two files each, checksummed, with generations; the state of each transaction | record, prepare, commit, complete, load, write | file transactions, Recovery |
| File transactions (`nagi-init/src/m22_history.rs`), undo in Recovery (`nagi-init/src/recovery.rs`) | files under their old and new names | move a group, copy, resume, undo | archive, ledger, volume |
| User memory, SMP demonstration, drivers, Wayback, capabilities, clipboard, model manager, search, network, POSIX, applications, host tools | see `PROJECT.json` | | |

What is hard to test here, and what the models are aimed at:

* a blocking syscall that finds nothing to run has to undo what it recorded in two tables;
* two waits (for a message, for an exit) share one thread state but are woken by two tables;
* a spawn or an exit changes four tables and may fail after the second;
* handles travel inside messages of channels whose own ends travel in messages, so
  reachability is a graph problem and reference counts have many small error paths;
* slots are reused, so everything that names a slot carries a generation, which runs out;
* a reset can come between any two steps of an update, in the middle of a journal write,
  and leave UEFI variables of an earlier boot behind;
* a call on the volume is up to a dozen sector writes, there is no journal and no repair, so
  only the order of the writes protects names, contents and handles;
* a file transaction is spread over an archive, a ledger and several files, and after a loss of
  power another boot, or Recovery, has to finish it from what it finds;
* the consent dialog is answered by the loop of a search, one event and one frame at a time,
  while prompts, sessions, decisions and the file of decisions each have a life of their own.

`PROJECT.json` lists these as hazards, each at its line, with the properties that cover it.

## 2. Modules

| Module | Models | Role |
|---|---|---|
| `ProcessExit` | `kernel/src/process_exit.rs` | component |
| `Scheduler` | `kernel/src/scheduler.rs` and the thread syscalls | component |
| `Channels` | what user IPC promises | abstract specification |
| `Handles` | `kernel/src/handles.rs` | operators |
| `UserIpc` | `kernel/src/user_ipc.rs` on `ipc.rs` | component; implements `Channels` |
| `Kernel` | `kernel/src/syscall.rs` over thread, exit, channel and address-space tables | composition |
| `BootPolicy` | what A/B boot control promises | abstract specification |
| `BootJournal` | `loader/src/ab.rs` | operators |
| `BootControl` | loader decision, journal, kernel gates, installer | composition; implements `BootPolicy` |
| `VolumeDisk` | `libnagi/src/storage.rs`: what sectors hold, the writes of each call | operators |
| `Volume` | `Vfs` with losses of power | component |
| `Login` | owner account, throttle, password change | component |
| `Supervisor` | `LaunchRegistry` behind the supervisor's lock | component |
| `Desktop` | desktop, Files search, dialog, permissions view over `Login` and `Supervisor` | composition |
| `TwoSlots` | `nagi-history/src/guest.rs` and the same store in `activity_ledger.rs` | operators |
| `History` | file transactions of init, undo in Recovery, archive and ledger | composition |
| `*Proofs` | | theorems and proofs |
| `MC*` | | finite instances for TLC |

**Scheduler.** `slots`, `current` and `cursor` are the fields of `BootstrapUserThreads`;
`join_out` is `NAGI_THREAD_JOIN_OUT` and `halted` says that `halt_forever` was reached. A
syscall runs to its end before another thread runs, so it is one action, the idle spin of
`wait_until_runnable` included. Absolute wake times become remaining ticks. A blocking
syscall has two actions: it blocks and another thread is dispatched, or nothing can ever run
and it is undone (`JoinAborts`, `WaitAborts`). Exit codes and register contexts are left out.

**ProcessExit.** The arrays become partial functions, because the position of an entry is
never observed. `consumed` is a history variable.

**Channels and UserIpc.** `Channels` has endpoints with a peer, a holder (a process, a
message, or nobody), rights and a queue. `UserIpc` has what the code has: handle tables and
object slots with generations and retirement, reference counts, channel slots, tokens in
queues, the mark-and-sweep of `collect_unreachable_channels` and its early exit, and the
error paths of `create_pair` and of a refused spawn, which change generations. Calls refused
without effect are stuttering. Payload bytes are left out; a ring buffer is a sequence.

**Kernel.** Every syscall is a conjunction of one action of each table it touches. It uses
`Channels`, not `UserIpc`, for IPC: the refinement makes that sound. `claims` is
`CHILD_SLOT_PROCESS`.

**BootControl.** `phase` is the place in `m27_boot_control_decision`; each write to the
journal is a step of its own, because a reset can come between two of them. `TornWrite` is a
write that a reset cuts; `Reset` is every other end of a boot, including each `fail` of the
loader. `slots[s]` is what a boot would find in a slot: which manifest it shows and whether
the payloads match it. While the installer formats the slot, a reset may find nothing, the
new manifest over incomplete payloads, or everything (`Format`); after the flush and read
back it finds the image. `ready` and `stage` are the two UEFI variables; their writes and
deletions may fail. An image of `Healthy` is one that reaches the signed-in desktop that
calls `SYS_BOOT_READY`. `tried` is a history variable.

**VolumeDisk and Volume.** `disk` is what the sectors hold. For each call `VolumeDisk` works
out the list of disks after each of its sector writes, in the order of the code, error paths
included; `Volume` either takes the last one (the volume has one owner, so nobody sees the
others) or loses power and takes one in between. Each write carries what it costs to be cut
just before it: `leak` (space that is never given back), or damage, for the three things the
code does not protect: a directory block whose two sectors both change, a file that gets
shorter, and the formatting. Bytes are cells that are zero or not, directory records have one
length, paths have one or two names. `call` remembers what the last call was about, for the
action properties only.

**Login.** `account`, `next` and `stored` are the files `owner-account`, `owner-account-next`
and `login-throttle`; each is one sector long, so a write that fails or is cut leaves the old
file, the new one, or an empty one if there was none. `Replaced` uses what `Volume` shows of
`replace`. `throttle.wait` is what is left of a wait, and `Tick` lets time pass.

**Supervisor.** The four tables as sets and functions; only prompts have slots, because
`next_consent_request` takes the first occupied one (its comment says the oldest). A call that
fails changes nothing and has no action.

**Desktop.** Init is one thread: `search.stage` is the place in `search`, `ensure_grant` and
`wait_for_answer`, which run the event handling of the desktop themselves. `early` are the keys
that were down before the dialog opened. A frame that cannot be presented ends the search and
leaves the dialog behind, as in the code. `process_wait` for a child of init does not fail.
`allowed` is a history variable: what the user has said, apart from what the tables and the
file say. Every step is a step of `Login` and of `Supervisor` or leaves them alone, which is
proved (`DesktopImplementsParts`).

**TwoSlots and History.** A store is two files that are missing, torn or hold what was written;
a write goes to the one not in use. Generations only decide which of two valid files is newer,
so they become `newest`. `task` is who is running (init executing or resuming, Recovery
undoing, or nobody), `step` the place in it, `tx` and `done` the transaction and how many of its
files are dealt with; `history` and `activity` are the two services in memory. Each write to a
store and each change of a file is a step of its own, before which power may be lost or storage
may fail (`Fault`); a write to a store may also be torn. Renaming, creating and removing a file
is atomic here, which `Volume` shows except for directory records that span two sectors. A file
is absent, empty (created and not written yet), as recorded, or foreign; a strict prefix of the
recorded content, which `apply_idempotent_create` takes for a copy of its own, counts as empty.
Somebody else may remove or replace a file while this code is not running (`Edit`); `touched`
remembers which. The entry of the search in the ledger has no transaction and is only a write.
The calls by way of the action registry or of IPC are the same handlers.

## 3. Runs

| Run | Shows |
|---|---|
| `exit_table` | Every process ID is in one place from spawn until its status is consumed: no status is lost or delivered twice. |
| `scheduler` | Joins recorded on both sides or neither, no runnable thread overtaken except by the hand-off to a joiner; every sleeper wakes, and every runnable thread is served unless exiting threads hand over to joiners for ever. |
| `channels` | No endpoint is duplicated or leaked; rights only shrink; connectivity comes from connectivity; no wakeup is lost. |
| `user_ipc` | `UserIpc` implements `Channels`; reference counts are exact, collections never stop half way, and a closed or moved handle value stays dead although its slot is reused until it retires. |
| `kernel` | Four tables agree on the processes; every blocked thread is known to exactly one waker; each component stays within its specification. |
| `kernel_halt` | *Violation*: the exit of an isolated process can halt the system (finding 1). |
| `boot_control` | The confirmed slot stays good, contexts stay current, the journal stays readable after its first record, no downgrade, no update loop, every trial ends in a confirmation or a rollback, and the whole implements `BootPolicy`. |
| `boot_control_first` | *Violation*: a torn first record makes the machine unbootable (finding 2). |
| `volume` | Calls leave a volume whose bitmaps, counts, inodes and directories agree, also when they run out of space; a cut outside the three unprotected places only leaks space, for good, and drives no count below zero; names and contents survive; old handles stay invalid; data calls change what they say and nothing else. |
| `volume_check` | *Violation*: a short `write_at` to a new file makes the integrity check refuse the volume (finding 3). |
| `history` | Wherever a transaction is cut, the archive found afterwards is true of the files; no state of it is lost to a torn write; no file that is not the recorded one is renamed, overwritten or removed; once both transactions are in the archive, files, archive and ledger end with both undone. |
| `desktop` | The owner never loses the account; guesses are paced across forms and restarts; decisions for a session end with it; a search is served only with what the user allowed; the key that opened the dialog does not answer it; while frames are presented the dialog belongs to the search that waits. |

Each property of a passing run has a mutant of the code in `PROJECT.json` that breaks it; the
mutants are the definitions marked "Mutant" in the modules. The type invariants,
`NoStatusDropped`, `OneWaitPerThread`, `OneRunning`, `PeerClosedIsFinal`, `PromptsAreLive` and
`LedgerNeverAhead` are proved (section 4) and not checked again by the runs.

**Deadlock** is checked in `desktop` and `history`. Elsewhere the system really may stop: a halted
kernel, an exhausted ID or generation space, a machine whose journal is refused; `volume` stops
at its bound on created files.

**Bounds.** `exit_table` has the sizes of the code (2 live, 4 records) and enough IDs to fill
the records twice. `scheduler` has 4 threads: a joiner, its target, a bystander and one to
dispatch; the properties relate at most three slots. `channels` has two channels, the least
that can carry each other in a cycle, one isolated process and a queue of one message with
two endpoints. `user_ipc` has tables that run out of handles and objects and generations that
run out after one or two uses, and sends one endpoint per message. `kernel` has three threads,
one channel and two process IDs, one live at a time. Endpoint names are interchangeable in `channels` and
`kernel` (safety only), so both use symmetry. `boot_control` has a factory image, an update that works,
one that does not and one with a lower index, the code's three attempts, and 14 generations:
enough for a full trial with rollback, a second trial, and stale records from the first; the
bound is the code's own `GenerationExhausted` check at a smaller number, and `TrialsEnd`
speaks only of trials with generations to spare. `MaxSleep` bounds sleeps at 1 or 2 ticks.

`volume` has two file inodes, three data blocks, files of one direct and one indirect block of
two cells, and directories of two records, one in each sector: a file can take the whole
volume, every table can run out, every record can lie in either sector. Three files or
directories are ever created and one call is cut, after which any calls follow. States with
damage are not explored further. The names are interchangeable. `desktop` has one application
with two capabilities asked in turn, two sessions, one process, one prompt slot, one key and the
pointer, two frames that are missed, throttle constants scaled to 2 free attempts and waits of 1
to 3, and a count that saturates at 5. Its constraint `Bounded` does not combine rejected
passwords with searches: the two share no state but the screen, and the proofs need no such bound.

`history` moves two files (three in the code; a first and a last one are what the order can tell
apart), loses power or fails three times, so that a recovery is itself interrupted and the
recovery after it too, and lets others touch one file, any number of times. The proofs have no
such bounds.

**Fairness.** `scheduler` assumes that a running thread reaches a syscall that gives up the
processor and that the timer interrupt fires; the scheduler is cooperative, so the first is
what the design asks of threads. A thread that keeps creating and joining short threads can
starve a third one, because the hand-off to the joiner moves the cursor (`scheduler.rs:372`);
`EventuallyServed` says that this is the only way.
`boot_control` (for `TrialsEnd`) assumes that the machine is switched on again and again, that a running
or stuck boot is ended some time, and that the loader's steps are not always cut by a reset,
a torn write or the operator's choice (strong fairness: each boot may fail, not all of them).
`history` (for `TransactionsEnd`) assumes that a task that is running goes on, that the machine
is not left at a prompt for ever, and that it is not always started into Recovery.

## 4. Theorems

For every value of the constants allowed by the named assumptions, checked by TLAPS:

| Module | Theorems | Inductive invariant |
|---|---|---|
| `ProcessExitProofs` | `TypeCorrect`, `IdsAccountedFor`, `StatusNeverDropped`, `WaitsAreSingle` | types, every ID in one place, and `RecordsReserved`: a free record for every live process. Without it an exit could find no record. |
| `SchedulerProofs` | `TypeCorrect`, `ExactlyOneRunning`, `JoinsPaired`, `RoundRobinOvertakesNobody`, `OneThreadPerProcess` | types, one running thread, join symmetry, and "only threads of init join": the end of an isolated process empties slots, which must not be a join's target. `Lodging` on top of it: slot 0 is init's, an isolated process has one thread. |
| `ChannelsProofs` | `TypeCorrect`, `EveryEndpointInOnePlace`, `EndsStayPaired`, `NoWakeupIsLost`, `PeerClosedStays`, `RightsNeverGrow`, `OnlyConnectivityBegetsConnectivity` | the four invariants of the run together. The collection is handled by lemmas about the least closed set of endpoints. |
| `KernelProofs` | `ProcessTablesAgree`, `OneWaker`, `KernelImplements`, `NoSleeperMissed` | `KInv`, see below |
| `BootControlProofs` | `TypeCorrect`, `ConfirmedStaysGood`, `ContextStaysCurrent`, `JournalStaysReadable`, `NoDowngrade`, `NoUpdateLoop`, `Refinement` | see below |
| `DesktopPartsProofs` | `RegistryKeepsPromises`, `OwnerKeepsAccountAlways`, `GuessesArePacedAlways` | of `Supervisor`, `RegistryInv`: types, sessions of decisions and prompts live, one process per session, one manifest per application. Of `Login`: what each screen holds is the stored record (`ScreensKnowOwner`); the count in memory and in the file is at least what was rejected and saved, and the wait left is at least what that count calls for less the time since (`Counted`) |
| `DesktopProofs` | `DesktopImplementsParts`, `DesktopKeepsPromises`, `ServedAsAllowedAlways`, `DialogIsWaitedForAlways`, `AnswersAreFreshAlways` | `DesktopInv`: a search has a live session of its own (`SearchInv`), the dialog belongs to the one application (`DialogInv`), and every recorded or saved permission was given by the user and not taken back (`HistoryInv`), so each capability checked so far was allowed (`GrantInv`); `PromptInv` and `PressInv` on top of it, see below |
| `HistoryProofs` | `ArchiveTellsTheTruth`, `NoStateIsLost`, `OthersFilesKept`, `LedgerFollows` | `HistoryInv` of that module: types, the two properties, and what memory knows: it is the archive, or one state ahead of it while it is being saved (`MemoryInv`, `SaveInv`), and the files dealt with so far are on the new side and the others on either (`ApplyInv`) |

The kernel argument. Neither property is inductive alone: which threads a syscall blocks or
wakes depends on the registrations, and which process an exit removes depends on the owners of
the slots. `KInv` is both properties together with the invariant of the thread table (`ThreadsInv`,
the one of `SchedulerProofs` with `Lodging`) and what they use of the other two tables
(`ExitsAndWaits`: an ID is live or recorded and below the next one, one exit wait per thread, no
wait on an endpoint with a message). `Lodging` is what makes an exit simple: the caller's is the
only slot that is emptied, so no thread leaves the table while it is registered somewhere.
`TableEffects` in `SchedulerProofs` says what each step of the thread table does to the set of
blocked threads and to the owners; the proof of a syscall compares that with what the same call
does to the other tables. Every step is shown to be a step of each component or to leave it alone
(`StepOfThreads`, `StepOfExits`, `StepOfIpc`), which gives `KernelImplements`, and with it every
safety theorem about `Scheduler`, `ProcessExit` and `Channels` holds of the kernel. The
assumption is `KernelConstants`: the tables have a size, and the marks for "queued", "gone" and
"no endpoint" are no processes and no endpoints.

The boot-control argument. Three lemmas (`PersistEffect`, `TornEffect`, `KeepEffect`) reduce
the two copies to the state they stand for: a complete write replaces it, a torn one leaves
it. They rest on `Journal` (decoded copies are valid and differ in generation). The rest
follows from generations: every write increases it, no record is from the future, so a
readiness record that matches was written by the boot that recorded this very attempt
(`RecordsProve`), after that boot verified the slot (`RunsVerified`), and the slot has not
been written since, because only boots with nothing pending write slots (`ContextCurrent`). A
staging request of the current generation was written after its slot was last written and
before it was tried (`RequestsFresh`). `StepEffect` then lists the ways the state can change,
and the action properties and the refinement are read off it.

The desktop argument. `DesktopImplementsParts` lets the theorems about `Supervisor` and `Login`
be used for `Desktop`. What remains is that three copies of a permission (registry, file, the
answer of the dialog) never say more than the user did: a decision is recorded only through an
answer, the file is written only from the registry, and after a restart the registry is filled
only from the file. A search that is served has passed each check while its session was live,
and nothing can be withdrawn before it ends, because the permissions view opens on a free desktop
only. `DialogIsWaitedFor` needs to know what is left when a dialog has closed: no prompt, or a
refusal that ends the search before it prompts again (`PromptInv`). `AnswersAreFresh` needs that
what is pressed in the dialog is never something that was down when it opened (`PressInv`). The
assumption `DistinctInputs` says that keys, choices and the mouse button are different things.

The history argument. `WriteIsLoaded`, `TornWriteKeeps` and `InterruptedWrite` reduce a store to
the one value it loads: a write replaces it, a torn or lost one leaves it. The states in which
files change, `Prepared` and `UndoPending`, are in the archive before the first file changes, and
they allow a file to be on either side, so a cut among the files needs no argument. What does is
the next state: it is written only when every file is on its new side, which `ApplyInv` counts up
to. Init looks at a file just before it changes it. Recovery has looked at all of them beforehand,
and `ApplyInv` says that what it found stays true while it works, because nobody else runs.

Only model-checked: `UserIpc` (`RefsExact`, `CollectionSucceeds`, `StaleHandlesStayStale` and its
refinement of `Channels`), whose reference counts are sums over tables and queues, and `Volume`,
whose operators fold sequences of writes: what a sum or a fold computes needs induction over data,
which is out of the prover's reach. So is all liveness (fairness and ENABLED).

## 5. Findings

1. `kernel_halt`: `kernel/src/syscall.rs:721` says of the exit path of an isolated process
   "Never halts the system." If init waits for a message from that process and nothing else
   can run, its exit wakes nobody (the end of a peer notifies no waiter) and line 762 halts.
2. `boot_control_first`: `loader/src/ab.rs:179` writes a baseline "so a torn first update can
   never erase the known-good slot". The write of the baseline itself has no other copy behind
   it. Torn, it leaves `CorruptRecords`, which the loader answers on every later boot before
   its menu. After that first record the claim holds (`StaysReadable`). Whether a variable
   write can be torn is up to the firmware; the contract of the store says it may.
3. `volume_check`: `create` sets the sector count of an inode to 0 and `write_at` corrects it
   only when the file needs another block (`libnagi/src/storage.rs:749`). A file that is created
   and written with one short `write_at`, as `nagi-posix` does, has a size and a count of 0,
   which the check calls `Corrupt` (`storage.rs:1787`); Recovery then refuses the whole volume.
   The tests expect what calls leave to be a "valid volume check"; they write with `write`.

Also worth knowing, from properties that hold: `TablesAgree` makes the halt of
`sync_address_space` (`syscall.rs:562`) unreachable; `ConfirmedIsGood` makes a confirmed slot
that fails verification unreachable short of bit rot; a reset between installing and staging an
update leaves a slot the installer considers done, so that update is never tried.
`CutsOnlyLeak` holds with `remove`, `create`, `rename` and `replace` cut anywhere but between
the two sectors of a directory block; shrinking a file is not protected at all. A search whose
frame cannot be presented leaves its dialog open; the answer given later ends the next search
at its first prompt, but grants nothing. A withdrawal that cannot be saved is undone by a
restart. An owner name of 17 to 32 bytes is saved by the first run and refused by the account
store on every later boot.

`WritesTakeEffect` excludes bytes that a block held before a file got it. `write_at` says that "A
gap between the old end and `offset` reads as zeros." (`storage.rs:732`), but `create` does not
clear the first block of a file, so a first write at an offset above 0 shows what an earlier file
left there.

`TransactionsEnd` starts when both transactions are in the archive.
`docs/workstreams/NagiOS_M22_AI_Safety_Undo_Integration_Workstream.md:249` says: "Recovery is
idempotent. If NH16 Move is prepared but the NAL1 write did not finish, a later boot can restore
the Search record from the M19 action that just succeeded and recover the Move transaction." The
code resumes only an archive with all four records (`verify_full_history`,
`m22_history.rs:2037`), and the copy is recorded after the move is committed. A machine that
loses power before that refuses its archive on every later boot; Recovery can take the move back
once it is committed, not while it is prepared. The same holds for a first write to a store that
is torn, and for a fixture file that was created and not written.

## 6. Not modelled

Firmware and devices (external; their failures are nondeterministic outcomes), page tables and
ELF loading, signatures, digests and codecs (a record or manifest is intact or it is not), bit
rot of a stored record, the acceptance-only seeding of slot B, the commands of the recovery
image that only read and its acceptance fixture, single edits, deletions and restorations of the
history service and the validation of plans, Wayback, device errors and reordered sector writes of the volume, owners and times of inodes,
editing of forms, the language picker, key repeat, rendering, the protocol between a search and
its application, `wait_many`, `Event` and `Timer` (only unit tests and the boot-time acceptance routine `m4.rs` use them), payload bytes. The components
not modelled at all are listed in `PROJECT.json` with the reason.

## 7. Plan

Done: exit table, scheduler, user IPC with its abstract specification, kernel composition, boot
control with its abstract specification, the volume under losses of power, sign-in, launch
registry and the desktop that composes them, undo transactions across a crash, the proofs above. Next, in this order:

1. The Wayback ledger (`crates/nagi-wayback`) across a crash; the other operations of the history
   service; the capability evaluator against a reference definition.
2. `WaitRegistry` with `wait_many`, `Event` and `Timer`; the ring buffer of a channel queue
   against the sequence it implements (refinement, proof).
3. User memory of init: `mmap`, `munmap` and `mprotect` over the page bitmap
   (`kernel/src/user_process.rs`), with failure half way.
4. `Supervisor` over `Kernel`: launch and reap as syscalls of init.
5. The input ring and the request locks of the drivers; the task words of `smp.rs`.
6. Proofs: `TablesAgree` and `BlockedHasOneWaker` of `Kernel`; `RefsExact` of `UserIpc`.
