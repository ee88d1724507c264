------------------------------- MODULE Kernel -------------------------------
(***************************************************************************)
(* The syscall layer (kernel/src/syscall.rs) over its tables: the thread   *)
(* table (Scheduler), the exit table (ProcessExit), the user IPC manager   *)
(* (Channels) and the address spaces of isolated processes                 *)
(* (kernel/src/user_child.rs).  A syscall or a fault is one action: it     *)
(* runs on the boot processor until a thread is resumed.  A syscall that   *)
(* is refused and changes nothing has no action.                           *)
(***************************************************************************)
EXTENDS Integers, FiniteSets

CONSTANTS
  BOOTSTRAP_USER_THREAD_COUNT, MaxSleep,
  Endpoint, NoEndpoint, Masks, Queued, Gone, MAX_QUEUE, MAX_TRANSFER, MAX_WAITS,
  Status, MAX_LIVE_PROCESSES, MAX_EXIT_RECORDS, LAST_PROCESS_ID

VARIABLES
  slots, current, cursor, join_out, halted,
  next_process_id, live, records, consumed,
  procs, peer, holder, rights, queue, waits,
  claims      \* processes that own an address-space slot (CHILD_SLOT_PROCESS)

INIT == 1
NO_WAITER == 255
ProcessIds == 2 .. LAST_PROCESS_ID
ThreadIds == 0 .. BOOTSTRAP_USER_THREAD_COUNT - 1

S == INSTANCE Scheduler WITH Isolated <- ProcessIds
E == INSTANCE ProcessExit WITH Threads <- ThreadIds, NoThread <- NO_WAITER
C == INSTANCE Channels WITH Isolated <- ProcessIds, Threads <- ThreadIds,
                            MAX_PROCESSES <- 1 + MAX_LIVE_PROCESSES

ASSUME KernelConstants ==
  /\ BOOTSTRAP_USER_THREAD_COUNT \in 1 .. NO_WAITER
  /\ MaxSleep \in Nat
  /\ MAX_LIVE_PROCESSES \in Nat /\ MAX_EXIT_RECORDS \in Nat
  /\ LAST_PROCESS_ID \in Nat /\ LAST_PROCESS_ID >= 2
  /\ NoEndpoint \notin Endpoint
  /\ Masks \subseteq SUBSET C!Rights
  /\ Queued # Gone /\ {Queued, Gone} \cap C!Processes = {}

threadTable == <<slots, current, cursor, join_out, halted>>
exitTable == <<next_process_id, live, records, consumed>>
ipc == <<procs, peer, holder, rights, queue, waits>>
vars == <<threadTable, exitTable, ipc, claims>>

Init == S!Init /\ E!Init /\ C!Init /\ claims = {}

Caller == slots[current].owner

Supervisor == ~halted /\ Caller = INIT

-----------------------------------------------------------------------------
(* Thread syscalls touch the thread table only. *)
ThreadCall ==
  \/ S!thread_yield
  \/ \E k \in 1 .. MaxSleep : S!thread_sleep(k)
  \/ \E d \in BOOLEAN : S!thread_create(d)
  \/ \E t \in ThreadIds : \/ S!JoinCompleted(t) \/ S!JoinBlocks(t) \/ S!JoinAborts(t)
                        \/ S!thread_detach(t)
  \/ S!thread_exit
  \/ S!HaltInit
  \/ S!Tick

ThreadSyscall == ThreadCall /\ UNCHANGED <<exitTable, ipc, claims>>

(* The Channel syscalls that let the caller run on. *)
ChannelCall ==
  \/ \E a, b \in Endpoint : C!CreatePair(Caller, a, b)
  \/ \E e \in Endpoint : C!Receive(Caller, e) \/ C!Close(Caller, e)

ChannelSyscall ==
  /\ ~halted
  /\ ChannelCall
  /\ UNCHANGED <<threadTable, exitTable, claims>>

(* channel_send wakes the threads that waited for the message. *)
channel_send(e) ==
  /\ C!SendSome(Caller, e)
  /\ S!WakeWaiters(C!Wakes(e))
  /\ UNCHANGED <<exitTable, claims>>

(* Mutant: the thread is registered without a look at the queue. *)
ChannelWaitUnchecked(e) ==
  /\ C!Holds(Caller, e) /\ "WAIT" \in rights[e]
  /\ waits' = waits \cup {<<current, e>>}
  /\ S!WaitBlocks
  /\ UNCHANGED <<exitTable, claims, procs, peer, holder, rights, queue>>

(* channel_wait_readable on an endpoint with nothing to read. *)
ChannelWaitBlocks(e) ==
  /\ C!WaitReadable(Caller, e, current)
  /\ S!WaitBlocks
  /\ UNCHANGED <<exitTable, claims>>

(* No thread can ever run: the registration is cancelled, the wait fails. *)
ChannelWaitAborts(e) ==
  /\ C!Holds(Caller, e) /\ "WAIT" \in rights[e] /\ queue[e] = <<>>
  /\ Cardinality({w \in waits : w[1] # current}) < MAX_WAITS
  /\ S!WaitAborts
  /\ waits' = {w \in waits : w[1] # current}
  /\ UNCHANGED <<exitTable, claims, procs, peer, holder, rights, queue>>

(* process_wait of init for process p. *)
ProcessWaitReady(p) ==
  /\ Supervisor
  /\ E!WaitReady(p)
  /\ UNCHANGED <<threadTable, ipc, claims>>

ProcessWaitBlocks(p) ==
  /\ Supervisor
  /\ E!WaitBlocked(p, current)
  /\ S!WaitBlocks
  /\ UNCHANGED <<ipc, claims>>

(* Mutant: the exit table keeps the waiter whose wait failed. *)
ProcessWaitKept(p) ==
  /\ Supervisor
  /\ E!WaitBlocked(p, current)
  /\ S!WaitAborts
  /\ UNCHANGED <<ipc, claims>>

(* Nothing else can run, so p can never exit: the wait is withdrawn. *)
ProcessWaitAborts(p) ==
  /\ Supervisor
  /\ p \in DOMAIN live \ DOMAIN records /\ live[p] = NO_WAITER
  /\ S!WaitAborts
  /\ UNCHANGED <<exitTable, ipc, claims>>

-----------------------------------------------------------------------------
(* process_spawn: an ID, an address-space slot, the endpoint and a thread, *)
(* in this order; the ID is committed last.                                *)
SpawnPrepared ==
  /\ Supervisor
  /\ E!CanReserve
  /\ Cardinality(claims) < MAX_LIVE_PROCESSES

process_spawn(e, asked) ==
  /\ SpawnPrepared
  /\ C!RegisterSpawned(next_process_id, e, asked)
  /\ S!SpawnThread(next_process_id)
  /\ E!CommitSpawn
  /\ claims' = claims \cup {next_process_id}

(* Mutant: the address-space slot is kept. *)
SpawnKeepingSlot(e, asked) ==
  /\ SpawnPrepared
  /\ C!MayMove(INIT, {e}, [m \in {e} |-> asked])
  /\ \A t \in ThreadIds : ~S!FreeSlot(t)
  /\ C!Close(INIT, e)
  /\ claims' = claims \cup {next_process_id}
  /\ UNCHANGED <<threadTable, exitTable>>

(* The thread pool is full: the process is unregistered again, and the     *)
(* endpoint it was given is closed with it.                                *)
SpawnWithoutThread(e, asked) ==
  /\ SpawnPrepared
  /\ C!MayMove(INIT, {e}, [m \in {e} |-> asked])
  /\ \A t \in ThreadIds : ~S!FreeSlot(t)
  /\ C!Close(INIT, e)
  /\ UNCHANGED <<threadTable, exitTable, claims>>

(* terminate_isolated_process, after SYS_PROCESS_EXIT or a fault: the      *)
(* channels, the exit status, the waiting Supervisor thread, the thread of *)
(* the process and its address space.                                      *)
terminate_isolated_process(status) ==
  /\ C!ExitProcess(Caller)
  /\ E!RecordExit(Caller, status)
  /\ S!TerminateProcess({live[Caller]} \ {NO_WAITER})
  /\ claims' = claims \ {Caller}

Next ==
  \/ ThreadSyscall
  \/ ChannelSyscall
  \/ \E e \in Endpoint : channel_send(e) \/ ChannelWaitBlocks(e) \/ ChannelWaitAborts(e)
  \/ \E p \in ProcessIds : ProcessWaitReady(p) \/ ProcessWaitBlocks(p) \/ ProcessWaitAborts(p)
  \/ \E e \in Endpoint, asked \in Masks : process_spawn(e, asked) \/ SpawnWithoutThread(e, asked)
  \/ \E s \in Status : ~halted /\ Caller # INIT /\ terminate_isolated_process(s)

Spec == Init /\ [][Next]_vars

-----------------------------------------------------------------------------
(* The composition stays within what each component is specified to do, so *)
(* what is shown of the components holds of the kernel.                    *)
ImplementsComponents == S!Spec /\ E!Spec /\ C!Spec

OwnersOfThreads == {slots[t].owner : t \in ThreadIds \ S!In(slots, "Empty")}

(* Four tables agree, after every syscall, on which isolated processes     *)
(* exist: one that is live in one table and gone from another would run    *)
(* without an address space, keep its handles, or never be reported.       *)
TablesAgree ==
  ~halted => /\ DOMAIN live = claims
             /\ procs = claims \cup {INIT}
             /\ OwnersOfThreads = claims \cup {INIT}

ChannelWaiters == {w[1] : w \in waits}
ExitWaiters == {live[p] : p \in DOMAIN live} \ {NO_WAITER}

(* A blocked thread waits for one thing, and the table that has to wake it *)
(* knows: a ChannelBlocked thread is registered with the IPC manager or    *)
(* with the exit table, not with both, and no other thread is registered.  *)
(* A stale registration would resume a thread out of another wait.         *)
BlockedHasOneWaker ==
  ~halted => /\ S!In(slots, "ChannelBlocked") = ChannelWaiters \cup ExitWaiters
             /\ ChannelWaiters \cap ExitWaiters = {}
             /\ \A v, w \in waits : v[1] = w[1] => v = w

(* "Never halts the system": the exit or fault of an isolated process      *)
(* leaves the rest of the system running.                                  *)
IsolatedExitNeverHalts == [][~halted /\ Caller # INIT => ~halted']_vars
=============================================================================
