---------------------------- MODULE KernelProofs ----------------------------
(***************************************************************************)
(* The tables of the kernel agree.  Two invariants relate the thread       *)
(* table, the exit table, the IPC manager and the address-space slots;     *)
(* every syscall is shown to keep them, and to be a step of each table.    *)
(*                                                                         *)
(* The argument comes first.  It takes what it needs to know of the        *)
(* scheduler (CallerRuns, Effects) as an assumption; SchedulerProofs is    *)
(* instantiated after it and discharges both.                              *)
(***************************************************************************)
EXTENDS Kernel, TLAPS

(* The names of the parts are those of the kernel. *)
LEMMA SameNames ==
  /\ S!Threads = ThreadIds
  /\ S!INIT_PROCESS_ID = INIT /\ C!BOOTSTRAP_PROCESS_ID = INIT
  /\ E!ProcessIds = ProcessIds
  /\ S!Owner = Caller
  /\ NO_WAITER \notin ThreadIds /\ INIT \notin ProcessIds
BY KernelConstants
DEF S!Threads, ThreadIds, S!INIT_PROCESS_ID, INIT, C!BOOTSTRAP_PROCESS_ID, ProcessIds,
    E!ProcessIds, E!FIRST_ISOLATED_PROCESS_ID, S!Owner, Caller, NO_WAITER

BlockedThreads == S!In(slots, "ChannelBlocked")

(* While the system runs, its current thread is a running thread of init   *)
(* or of an isolated process.                                              *)
CallerRuns ==
  ~halted => /\ current \in ThreadIds /\ slots[current].state = "Running"
             /\ Caller \in ProcessIds \cup {INIT}

(* What is used of the exit table and the IPC manager: an ID that is live  *)
(* or has a record was handed out before and is not both, a thread waits   *)
(* for one exit, and it is threads that wait, on endpoints with nothing to *)
(* read.                                                                   *)
ExitsAndWaits ==
  /\ next_process_id \in ProcessIds
  /\ DOMAIN live \cup DOMAIN records \subseteq 2 .. next_process_id - 1
  /\ DOMAIN live \cap DOMAIN records = {}
  /\ live \in [DOMAIN live -> ThreadIds \cup {NO_WAITER}]
  /\ E!OneWaitPerThread
  /\ waits \subseteq ThreadIds \X Endpoint
  /\ DOMAIN queue = Endpoint /\ C!NoLostWakeup

Ground == CallerRuns /\ ExitsAndWaits

(* What the steps of the thread table do to the blocked threads and to the *)
(* owners of threads.                                                      *)
Effects ==
  /\ ThreadCall \/ S!WaitAborts =>
       \/ halted'
       \/ /\ ~halted /\ BlockedThreads' = BlockedThreads
          /\ OwnersOfThreads' = OwnersOfThreads
  /\ S!WaitBlocks =>
       /\ BlockedThreads' = BlockedThreads \cup {current}
       /\ OwnersOfThreads' = OwnersOfThreads
  /\ \A W : S!WakeWaiters(W) =>
       BlockedThreads' = BlockedThreads \ W /\ OwnersOfThreads' = OwnersOfThreads
  /\ \A p \in ProcessIds : S!SpawnThread(p) =>
       BlockedThreads' = BlockedThreads /\ OwnersOfThreads' = OwnersOfThreads \cup {p}
  /\ \A W : S!TerminateProcess(W) =>
       /\ BlockedThreads' = BlockedThreads \ W
       /\ OwnersOfThreads' = OwnersOfThreads \ {Caller}

(* The two relations between the tables. *)
Agreement == TablesAgree /\ BlockedHasOneWaker

(* They speak of a running system only, and then say this. *)
LEMMA AgreementMeans ==
  ASSUME Agreement, ~halted
  PROVE  /\ DOMAIN live = claims
         /\ procs = claims \cup {INIT} /\ OwnersOfThreads = claims \cup {INIT}
         /\ BlockedThreads = ChannelWaiters \cup ExitWaiters
         /\ ChannelWaiters \cap ExitWaiters = {}
         /\ \A v, w \in waits : v[1] = w[1] => v = w
BY DEF Agreement, TablesAgree, BlockedHasOneWaker, BlockedThreads

(* The same in the next state. *)
LEMMA AgreementNext ==
  ASSUME DOMAIN live' = claims',
         procs' = claims' \cup {INIT}, OwnersOfThreads' = claims' \cup {INIT},
         BlockedThreads' = ChannelWaiters' \cup ExitWaiters',
         ChannelWaiters' \cap ExitWaiters' = {},
         \A v, w \in waits' : v[1] = w[1] => v = w
  PROVE  Agreement'
BY DEF Agreement, TablesAgree, BlockedHasOneWaker, BlockedThreads

(* The running thread waits for nothing. *)
LEMMA CallerIsFree ==
  ASSUME Ground, Agreement, ~halted
  PROVE  current \notin ChannelWaiters /\ current \notin ExitWaiters
<1>1. current \notin BlockedThreads
  BY DEF Ground, CallerRuns, S!In, BlockedThreads
<1> QED
  BY <1>1, AgreementMeans

-----------------------------------------------------------------------------
(* One step of the kernel as each table sees it. *)
StepOfThreads == [S!Next]_(S!vars)
StepOfExits == [E!Next]_(E!vars)
StepOfIpc == [C!Next]_(C!vars)

(* A table that is left alone takes no step. *)
LEMMA Untouched ==
  /\ UNCHANGED threadTable => StepOfThreads
  /\ UNCHANGED exitTable => StepOfExits
  /\ UNCHANGED ipc => StepOfIpc
BY DEF StepOfThreads, StepOfExits, StepOfIpc, threadTable, exitTable, ipc,
       S!vars, E!vars, C!vars

(* A thread syscall is one of the thread table. *)
LEMMA ThreadParts ==
  ASSUME ThreadSyscall PROVE StepOfThreads /\ StepOfExits /\ StepOfIpc
<1>1. ThreadCall => S!Next
  BY SameNames DEF ThreadCall, S!Next, S!NextNoJoin, S!NextJoin, S!Switch
<1> QED
  BY <1>1, Untouched DEF ThreadSyscall, StepOfThreads

(* A call of a process on one of its endpoints is a step of the manager. *)
LEMMA CallParts ==
  ASSUME NEW e \in Endpoint, C!Call(Caller, e) PROVE StepOfIpc
<1>1. Caller \in procs
  BY Zenon DEF C!Call, C!SendSome, C!Receive, C!Close, C!WaitReadable, C!Holds
<1> QED
  BY <1>1 DEF C!Next, StepOfIpc

(* Creating a channel, receiving and closing touch the manager only. *)
LEMMA ChannelParts ==
  ASSUME ChannelSyscall PROVE StepOfThreads /\ StepOfExits /\ StepOfIpc
<1>1. ASSUME NEW a \in Endpoint, NEW b \in Endpoint, C!CreatePair(Caller, a, b)
      PROVE  StepOfIpc
  <2>1. Caller \in procs
    BY <1>1 DEF C!CreatePair
  <2> QED
    BY <1>1, <2>1 DEF C!Next, StepOfIpc
<1>2. ASSUME NEW e \in Endpoint, C!Receive(Caller, e) \/ C!Close(Caller, e)
      PROVE  StepOfIpc
  BY <1>2, CallParts DEF C!Call
<1> QED
  BY <1>1, <1>2, Untouched DEF ChannelSyscall, ChannelCall

(* A message is sent and its waiters are woken in one step. *)
LEMMA SendParts ==
  ASSUME NEW e \in Endpoint, channel_send(e)
  PROVE  StepOfThreads /\ StepOfExits /\ StepOfIpc
<1>1. StepOfIpc
  BY CallParts DEF channel_send, C!Call
<1>2. C!Wakes(e) \in SUBSET S!Threads
  BY SameNames DEF C!Wakes
<1>3. StepOfThreads
  BY <1>2 DEF channel_send, StepOfThreads, S!Next, S!NextNoJoin, S!Wakes
<1> QED
  BY <1>1, <1>3, Untouched DEF channel_send

(* Waiting for a message: the registration and the block, or neither. *)
LEMMA ChannelWaitParts ==
  ASSUME Ground, Agreement, NEW e \in Endpoint, ChannelWaitBlocks(e) \/ ChannelWaitAborts(e)
  PROVE  StepOfThreads /\ StepOfExits /\ StepOfIpc
<1>1. ~halted
  BY DEF ChannelWaitBlocks, ChannelWaitAborts, S!WaitBlocks, S!WaitAborts
<1>2. current \in ThreadIds
  BY <1>1 DEF Ground, CallerRuns
<1>3. CASE ChannelWaitBlocks(e)
  <2>1. StepOfIpc
    BY <1>2, <1>3, CallParts DEF ChannelWaitBlocks, C!Call
  <2>2. StepOfThreads
    BY <1>3 DEF ChannelWaitBlocks, StepOfThreads, S!Next, S!NextNoJoin, S!Switch
  <2> QED
    BY <1>3, <2>1, <2>2, Untouched DEF ChannelWaitBlocks
<1>4. CASE ChannelWaitAborts(e)
  <2>1. current \notin ChannelWaiters
    BY <1>1, CallerIsFree
  <2>2. waits' = waits
    BY <1>4, <2>1 DEF ChannelWaitAborts, ChannelWaiters
  <2>3. StepOfThreads
    BY <1>4 DEF ChannelWaitAborts, StepOfThreads, S!Next
  <2>4. UNCHANGED ipc
    BY <1>4, <2>2 DEF ChannelWaitAborts, ipc
  <2> QED
    BY <1>4, <2>3, <2>4, Untouched DEF ChannelWaitAborts
<1> QED
  BY <1>3, <1>4

(* Waiting for an exit. *)
LEMMA ProcessWaitParts ==
  ASSUME Ground, Agreement, NEW p \in ProcessIds,
         ProcessWaitReady(p) \/ ProcessWaitBlocks(p) \/ ProcessWaitAborts(p)
  PROVE  StepOfThreads /\ StepOfExits /\ StepOfIpc
<1>1. current \in ThreadIds
  BY DEF Ground, CallerRuns, ProcessWaitReady, ProcessWaitBlocks, ProcessWaitAborts, Supervisor
<1>2. CASE ProcessWaitReady(p)
  <2>1. StepOfExits
    BY <1>2, SameNames DEF ProcessWaitReady, StepOfExits, E!Next
  <2> QED
    BY <1>2, <2>1, Untouched DEF ProcessWaitReady
<1>3. CASE ProcessWaitBlocks(p)
  <2>1. StepOfExits
    BY <1>1, <1>3, SameNames DEF ProcessWaitBlocks, StepOfExits, E!Next
  <2>2. StepOfThreads
    BY <1>3 DEF ProcessWaitBlocks, StepOfThreads, S!Next, S!NextNoJoin, S!Switch
  <2> QED
    BY <1>3, <2>1, <2>2, Untouched DEF ProcessWaitBlocks
<1>4. CASE ProcessWaitAborts(p)
  <2>1. StepOfThreads
    BY <1>4 DEF ProcessWaitAborts, StepOfThreads, S!Next
  <2> QED
    BY <1>4, <2>1, Untouched DEF ProcessWaitAborts
<1> QED
  BY <1>2, <1>3, <1>4

(* A spawn is a step of all three tables, or, when it fails for want of a  *)
(* thread, the closing of the endpoint the process would have had.         *)
LEMMA SpawnParts ==
  ASSUME Ground, Agreement, NEW e \in Endpoint, NEW asked \in Masks,
         process_spawn(e, asked) \/ SpawnWithoutThread(e, asked)
  PROVE  StepOfThreads /\ StepOfExits /\ StepOfIpc
<1>1. CASE process_spawn(e, asked)
  <2>1. next_process_id \in ProcessIds
    BY DEF Ground, ExitsAndWaits
  <2>2. StepOfIpc
    BY <1>1, <2>1 DEF process_spawn, StepOfIpc, C!Next
  <2>3. StepOfThreads
    BY <1>1, <2>1 DEF process_spawn, StepOfThreads, S!Next
  <2>4. StepOfExits
    BY <1>1 DEF process_spawn, StepOfExits, E!Next
  <2> QED
    BY <2>2, <2>3, <2>4
<1>2. CASE SpawnWithoutThread(e, asked)
  <2>1. Caller = INIT /\ C!Close(Caller, e)
    BY <1>2 DEF SpawnWithoutThread, SpawnPrepared, Supervisor
  <2>2. StepOfIpc
    BY <2>1, CallParts DEF C!Call
  <2> QED
    BY <1>2, <2>2, Untouched DEF SpawnWithoutThread
<1> QED
  BY <1>1, <1>2

(* The threads that the exit of the running process wakes. *)
ExitWakes == {live[Caller]} \ {NO_WAITER}

(* The end of a process is a step of all three tables. *)
LEMMA TerminateParts ==
  ASSUME Ground, Agreement, ~halted, Caller # INIT,
         NEW s \in Status, terminate_isolated_process(s)
  PROVE  /\ StepOfThreads /\ StepOfExits /\ StepOfIpc
         /\ Caller \in ProcessIds /\ Caller \in DOMAIN live /\ ExitWakes \subseteq ThreadIds
<1>1. Caller \in ProcessIds
  BY DEF Ground, CallerRuns
<1>2. Caller \in DOMAIN live
  BY DEF terminate_isolated_process, E!RecordExit
<1>3. live[Caller] \in ThreadIds \cup {NO_WAITER}
  BY <1>2 DEF Ground, ExitsAndWaits
<1>4. ExitWakes \in SUBSET S!Threads
  BY <1>3, SameNames DEF ExitWakes
<1>5. StepOfThreads
  BY <1>4 DEF terminate_isolated_process, ExitWakes, StepOfThreads, S!Next
<1>6. StepOfExits
  BY <1>1, SameNames DEF terminate_isolated_process, StepOfExits, E!Next
<1>7. StepOfIpc
  BY <1>1 DEF terminate_isolated_process, StepOfIpc, C!Next
<1> QED
  BY <1>1, <1>2, <1>4, <1>5, <1>6, <1>7, SameNames

(* Every step of the kernel is a step, or none, of each table. *)
LEMMA StepOfParts ==
  ASSUME Ground, Agreement, [Next]_vars PROVE StepOfThreads /\ StepOfExits /\ StepOfIpc
<1>1. CASE ThreadSyscall \/ ChannelSyscall
  BY <1>1, ThreadParts, ChannelParts
<1>2. ASSUME NEW e \in Endpoint,
             channel_send(e) \/ ChannelWaitBlocks(e) \/ ChannelWaitAborts(e)
      PROVE  StepOfThreads /\ StepOfExits /\ StepOfIpc
  BY <1>2, SendParts, ChannelWaitParts
<1>3. CASE UNCHANGED vars
  BY <1>3, Untouched DEF vars
<1> QED
  BY <1>1, <1>2, <1>3, ProcessWaitParts, SpawnParts, TerminateParts DEF Next

-----------------------------------------------------------------------------
(* A halted system resumes nobody. *)
LEMMA HaltedAgrees == ASSUME halted' PROVE Agreement'
BY DEF Agreement, TablesAgree, BlockedHasOneWaker

(* A step that moves no process in any table, and in which nobody starts   *)
(* or stops waiting.                                                       *)
LEMMA QuietAgrees ==
  ASSUME Agreement, ~halted,
         BlockedThreads' = BlockedThreads, OwnersOfThreads' = OwnersOfThreads,
         live' = live, procs' = procs, waits' = waits, claims' = claims
  PROVE  Agreement'
<1>1. ChannelWaiters' = ChannelWaiters /\ ExitWaiters' = ExitWaiters
  BY DEF ChannelWaiters, ExitWaiters
<1> QED
  BY <1>1, AgreementMeans, AgreementNext

(* A step that leaves the thread table alone moves no thread. *)
LEMMA SameThreads ==
  ASSUME UNCHANGED threadTable
  PROVE  BlockedThreads' = BlockedThreads /\ OwnersOfThreads' = OwnersOfThreads
BY DEF threadTable, BlockedThreads, OwnersOfThreads, S!In

(* The thread syscalls. *)
LEMMA ThreadAgrees == ASSUME Agreement, Effects, ThreadSyscall PROVE Agreement'
<1>1. live' = live /\ procs' = procs /\ waits' = waits /\ claims' = claims
  BY DEF ThreadSyscall, exitTable, ipc
<1>2. \/ halted'
      \/ ~halted /\ BlockedThreads' = BlockedThreads /\ OwnersOfThreads' = OwnersOfThreads
  BY DEF ThreadSyscall, Effects
<1> QED
  BY <1>1, <1>2, QuietAgrees, HaltedAgrees

(* Creating a channel, receiving and closing. *)
LEMMA ChannelAgrees == ASSUME Agreement, ChannelSyscall PROVE Agreement'
<1>1. procs' = procs /\ waits' = waits
  BY Zenon DEF ChannelSyscall, ChannelCall, C!CreatePair, C!Receive, C!Close
<1> QED
  BY <1>1, SameThreads, QuietAgrees DEF ChannelSyscall, exitTable

(* A message takes the registrations of the threads it wakes, and no       *)
(* others.                                                                 *)
LEMMA SendAgrees ==
  ASSUME Ground, Agreement, Effects, NEW e \in Endpoint, channel_send(e)
  PROVE  Agreement'
<1> DEFINE W == C!Wakes(e)
<1>1. /\ ~halted /\ UNCHANGED <<exitTable, claims>>
      /\ procs' = procs /\ waits' = {w \in waits : w[2] # peer[e]}
  BY DEF channel_send, C!SendSome, C!Send, C!Notified, S!WakeWaiters
<1>2. BlockedThreads' = BlockedThreads \ W /\ OwnersOfThreads' = OwnersOfThreads
  BY DEF channel_send, Effects
<1>3. live' = live /\ ExitWaiters' = ExitWaiters
  BY <1>1 DEF exitTable, ExitWaiters
<1>4. waits \subseteq ThreadIds \X Endpoint
  BY DEF Ground, ExitsAndWaits
<1>5. \A v, w \in waits : v[1] = w[1] => v = w
  BY <1>1, AgreementMeans
<1>6. W \subseteq ChannelWaiters
  BY <1>4 DEF C!Wakes, ChannelWaiters
<1>7. ChannelWaiters' = ChannelWaiters \ W
  <2>1. ASSUME NEW w \in waits, w[2] # peer[e] PROVE w[1] \notin W
    <3>1. SUFFICES ASSUME <<w[1], peer[e]>> \in waits PROVE FALSE
      BY DEF C!Wakes
    <3>2. w = <<w[1], peer[e]>>
      BY <1>5, <3>1
    <3> QED
      BY <2>1, <3>2
  <2>2. ASSUME NEW w \in waits, w[1] \notin W PROVE w[2] # peer[e]
    BY <1>4, <2>2 DEF C!Wakes
  <2> QED
    BY <1>1, <2>1, <2>2 DEF ChannelWaiters
<1>8. BlockedThreads' = ChannelWaiters' \cup ExitWaiters'
  BY <1>1, <1>2, <1>3, <1>6, <1>7, AgreementMeans
<1>9. ChannelWaiters' \cap ExitWaiters' = {} /\ \A v, w \in waits' : v[1] = w[1] => v = w
  BY <1>1, <1>3, <1>5, <1>7, AgreementMeans
<1> QED
  BY <1>1, <1>2, <1>3, <1>8, <1>9, AgreementMeans, AgreementNext

(* A thread that waits for a message is registered as it blocks. *)
LEMMA ChannelWaitAgrees ==
  ASSUME Ground, Agreement, Effects, NEW e \in Endpoint, ChannelWaitBlocks(e)
  PROVE  Agreement'
<1>1. /\ ~halted /\ UNCHANGED <<exitTable, claims>>
      /\ procs' = procs /\ waits' = {w \in waits : w[1] # current} \cup {<<current, e>>}
  BY DEF ChannelWaitBlocks, C!WaitReadable, S!WaitBlocks
<1>2. BlockedThreads' = BlockedThreads \cup {current} /\ OwnersOfThreads' = OwnersOfThreads
  BY DEF ChannelWaitBlocks, Effects
<1>3. live' = live /\ ExitWaiters' = ExitWaiters
  BY <1>1 DEF exitTable, ExitWaiters
<1>4. current \notin ChannelWaiters /\ current \notin ExitWaiters
  BY <1>1, CallerIsFree
<1>5. \A v, w \in waits : v[1] = w[1] => v = w
  BY <1>1, AgreementMeans
<1>6. ChannelWaiters' = ChannelWaiters \cup {current}
  <2>1. \A w \in waits : w[1] # current
    BY <1>4 DEF ChannelWaiters
  <2>2. waits' = waits \cup {<<current, e>>}
    BY <1>1, <2>1
  <2>3. <<current, e>>[1] = current
    OBVIOUS
  <2>4. {w[1] : w \in waits'} = {w[1] : w \in waits} \cup {<<current, e>>[1]}
    BY <2>2, Zenon
  <2> QED
    BY <2>3, <2>4 DEF ChannelWaiters
<1>7. \A v, w \in waits' : v[1] = w[1] => v = w
  <2>1. \A w \in waits' : (w \in waits /\ w[1] # current) \/ w = <<current, e>>
    BY <1>1
  <2>2. \A w \in waits' : w[1] = current => w = <<current, e>>
    BY <2>1
  <2>3. \A w \in waits' : w[1] # current => w \in waits
    BY <2>1
  <2> QED
    BY <1>5, <2>2, <2>3
<1>8. /\ BlockedThreads' = ChannelWaiters' \cup ExitWaiters'
      /\ ChannelWaiters' \cap ExitWaiters' = {}
  BY <1>1, <1>2, <1>3, <1>4, <1>6, AgreementMeans
<1> QED
  BY <1>1, <1>2, <1>3, <1>7, <1>8, AgreementMeans, AgreementNext

(* A wait that fails leaves no registration behind. *)
LEMMA WaitAbortAgrees ==
  ASSUME Ground, Agreement, Effects,
         \/ \E e \in Endpoint : ChannelWaitAborts(e)
         \/ \E p \in ProcessIds : ProcessWaitAborts(p)
  PROVE  Agreement'
<1>1. ~halted /\ S!WaitAborts /\ UNCHANGED <<exitTable, claims>>
  BY Zenon DEF ChannelWaitAborts, ProcessWaitAborts, S!WaitAborts
<1>2. procs' = procs /\ waits' = waits
  <2>1. ASSUME NEW e \in Endpoint, ChannelWaitAborts(e)
        PROVE  procs' = procs /\ waits' = waits
    BY <1>1, <2>1, CallerIsFree DEF ChannelWaitAborts, ChannelWaiters
  <2> QED
    BY <2>1 DEF ProcessWaitAborts, ipc
<1>3. \/ halted'
      \/ BlockedThreads' = BlockedThreads /\ OwnersOfThreads' = OwnersOfThreads
  BY <1>1 DEF Effects
<1> QED
  BY <1>1, <1>2, <1>3, QuietAgrees, HaltedAgrees DEF exitTable

(* Taking a status touches neither the processes nor the waiters. *)
LEMMA WaitReadyAgrees ==
  ASSUME Agreement, NEW p \in ProcessIds, ProcessWaitReady(p) PROVE Agreement'
<1>1. ~halted /\ live' = live /\ procs' = procs /\ waits' = waits /\ claims' = claims
  BY DEF ProcessWaitReady, Supervisor, E!WaitReady, ipc
<1> QED
  BY <1>1, SameThreads, QuietAgrees DEF ProcessWaitReady

(* A thread that waits for an exit is registered as it blocks. *)
LEMMA ProcessWaitAgrees ==
  ASSUME Ground, Agreement, Effects, NEW p \in ProcessIds, ProcessWaitBlocks(p)
  PROVE  Agreement'
<1>1. /\ ~halted /\ procs' = procs /\ waits' = waits /\ claims' = claims
      /\ p \in DOMAIN live /\ live[p] = NO_WAITER
      /\ live' = [live EXCEPT ![p] = current]
  BY DEF ProcessWaitBlocks, Supervisor, E!WaitBlocked, ipc
<1>2. BlockedThreads' = BlockedThreads \cup {current} /\ OwnersOfThreads' = OwnersOfThreads
  BY DEF ProcessWaitBlocks, Effects
<1>3. current # NO_WAITER /\ current \notin ChannelWaiters /\ current \notin ExitWaiters
  BY <1>1, CallerIsFree, SameNames DEF Ground, CallerRuns
<1>4. /\ DOMAIN live' = DOMAIN live
      /\ \A q \in DOMAIN live : live'[q] = IF q = p THEN current ELSE live[q]
  BY <1>1 DEF Ground, ExitsAndWaits
<1>5. ExitWaiters' = ExitWaiters \cup {current}
  BY <1>1, <1>3, <1>4 DEF ExitWaiters
<1>6. ChannelWaiters' = ChannelWaiters
  BY <1>1 DEF ChannelWaiters
<1>7. /\ BlockedThreads' = ChannelWaiters' \cup ExitWaiters'
      /\ ChannelWaiters' \cap ExitWaiters' = {}
  BY <1>1, <1>2, <1>3, <1>5, <1>6, AgreementMeans
<1> QED
  BY <1>1, <1>2, <1>4, <1>7, AgreementMeans, AgreementNext

(* A spawn enters the process into all four tables. *)
LEMMA SpawnAgrees ==
  ASSUME Ground, Agreement, Effects,
         NEW e \in Endpoint, NEW asked \in Masks, process_spawn(e, asked)
  PROVE  Agreement'
<1> DEFINE n == next_process_id
<1>1. /\ ~halted /\ procs' = procs \cup {n} /\ waits' = waits /\ claims' = claims \cup {n}
      /\ live' = E!With(live, n, NO_WAITER)
  BY DEF process_spawn, SpawnPrepared, Supervisor, C!RegisterSpawned, E!CommitSpawn
<1>2. n \in ProcessIds
  BY DEF Ground, ExitsAndWaits
<1>3. n \notin DOMAIN live
  BY <1>2 DEF Ground, ExitsAndWaits, ProcessIds
<1>4. BlockedThreads' = BlockedThreads /\ OwnersOfThreads' = OwnersOfThreads \cup {n}
  BY <1>2 DEF process_spawn, Effects
<1>5. /\ DOMAIN live' = DOMAIN live \cup {n} /\ live'[n] = NO_WAITER
      /\ \A q \in DOMAIN live : live'[q] = live[q]
  BY <1>1, <1>3 DEF E!With
<1>6. ExitWaiters' = ExitWaiters /\ ChannelWaiters' = ChannelWaiters
  BY <1>1, <1>5 DEF ExitWaiters, ChannelWaiters
<1> QED
  BY <1>1, <1>4, <1>5, <1>6, AgreementMeans, AgreementNext

(* A spawn that finds no thread leaves no table with the process. *)
LEMMA FailedSpawnAgrees ==
  ASSUME Agreement, NEW e \in Endpoint, NEW asked \in Masks, SpawnWithoutThread(e, asked)
  PROVE  Agreement'
<1>1. ~halted /\ live' = live /\ procs' = procs /\ waits' = waits /\ claims' = claims
  BY DEF SpawnWithoutThread, SpawnPrepared, Supervisor, C!Close, exitTable
<1> QED
  BY <1>1, SameThreads, QuietAgrees DEF SpawnWithoutThread

(* The end of a process takes it out of all four tables, and its waiter,   *)
(* if it has one, out of the wait.                                         *)
LEMMA TerminateAgrees ==
  ASSUME Ground, Agreement, Effects, ~halted, Caller # INIT,
         NEW s \in Status, terminate_isolated_process(s)
  PROVE  Agreement'
<1> DEFINE c == Caller
<1>1. /\ procs' = procs \ {c} /\ waits' = waits /\ claims' = claims \ {c}
      /\ c \in DOMAIN live /\ live' = E!Without(live, c)
  BY DEF terminate_isolated_process, C!ExitProcess, E!RecordExit
<1>2. /\ BlockedThreads' = BlockedThreads \ ExitWakes
      /\ OwnersOfThreads' = OwnersOfThreads \ {c}
  BY DEF terminate_isolated_process, Effects, ExitWakes
<1>3. DOMAIN live' = DOMAIN live \ {c} /\ \A q \in DOMAIN live' : live'[q] = live[q]
  BY <1>1 DEF E!Without
<1>4. \A p, q \in DOMAIN live : live[p] = live[q] /\ live[p] # NO_WAITER => p = q
  BY DEF Ground, ExitsAndWaits, E!OneWaitPerThread
<1>5. ExitWaiters' = ExitWaiters \ ExitWakes /\ ExitWakes \subseteq ExitWaiters
  BY <1>1, <1>3, <1>4 DEF ExitWaiters, ExitWakes
<1>6. ChannelWaiters' = ChannelWaiters
  BY <1>1 DEF ChannelWaiters
<1>7. /\ BlockedThreads' = ChannelWaiters' \cup ExitWaiters'
      /\ ChannelWaiters' \cap ExitWaiters' = {}
  BY <1>2, <1>5, <1>6, AgreementMeans
<1> QED
  BY <1>1, <1>2, <1>3, <1>7, AgreementMeans, AgreementNext

(* Every syscall and fault keeps the tables in agreement. *)
LEMMA StepAgrees ==
  ASSUME Ground, Agreement, Effects, [Next]_vars PROVE Agreement'
<1>1. CASE ThreadSyscall \/ ChannelSyscall
  BY <1>1, ThreadAgrees, ChannelAgrees
<1>2. ASSUME NEW e \in Endpoint,
             channel_send(e) \/ ChannelWaitBlocks(e) \/ ChannelWaitAborts(e)
      PROVE  Agreement'
  BY <1>2, SendAgrees, ChannelWaitAgrees, WaitAbortAgrees
<1>3. ASSUME NEW p \in ProcessIds,
             ProcessWaitReady(p) \/ ProcessWaitBlocks(p) \/ ProcessWaitAborts(p)
      PROVE  Agreement'
  BY <1>3, WaitReadyAgrees, ProcessWaitAgrees, WaitAbortAgrees
<1>4. CASE UNCHANGED vars
  <2>1. CASE halted
    BY <1>4, <2>1, HaltedAgrees DEF vars, threadTable
  <2>2. CASE ~halted
    BY <1>4, <2>2, SameThreads, QuietAgrees DEF vars, exitTable, ipc
  <2> QED
    BY <2>1, <2>2
<1> QED
  BY <1>1, <1>2, <1>3, <1>4, SpawnAgrees, FailedSpawnAgrees, TerminateAgrees DEF Next

(* So they do in the state the system starts in. *)
LEMMA AgreementInit == Init => Agreement
<1> SUFFICES ASSUME Init PROVE Agreement
  OBVIOUS
<1>1. DOMAIN live = {} /\ claims = {} /\ procs = {INIT} /\ waits = {}
  BY SameNames DEF Init, E!Init, C!Init
<1>2. ThreadIds \ S!In(slots, "Empty") = {0} /\ slots[0].owner = INIT
  BY SameNames, KernelConstants DEF Init, S!Init, S!In, S!EMPTY, S!NewSlot, ThreadIds
<1>3. S!In(slots, "ChannelBlocked") = {}
  BY DEF Init, S!Init, S!In, S!EMPTY, S!NewSlot
<1>4. TablesAgree
  BY <1>1, <1>2 DEF TablesAgree, OwnersOfThreads
<1>5. BlockedHasOneWaker
  BY <1>1, <1>3 DEF BlockedHasOneWaker, ChannelWaiters, ExitWaiters
<1> QED
  BY <1>4, <1>5 DEF Agreement

(* A thread is registered on an endpoint only while it is empty: what      *)
(* fills a queue takes the registrations on it.                            *)
LEMMA WaitsNext ==
  ASSUME waits \subseteq ThreadIds \X Endpoint, DOMAIN queue = Endpoint, C!NoLostWakeup,
         StepOfIpc
  PROVE  /\ waits' \subseteq ThreadIds \X Endpoint
         /\ DOMAIN queue' = Endpoint /\ C!NoLostWakeup'
<1> DEFINE Good == /\ waits' \subseteq ThreadIds \X Endpoint
                   /\ DOMAIN queue' = Endpoint /\ C!NoLostWakeup'
<1>1. ASSUME NEW p, NEW e \in Endpoint, NEW t \in ThreadIds, C!WaitReadable(p, e, t)
      PROVE  Good
  BY <1>1 DEF C!WaitReadable, C!NoLostWakeup
<1>2. ASSUME NEW p, NEW e, C!SendSome(p, e) PROVE Good
  <2>1. PICK m : /\ waits' = {w \in waits : w[2] # peer[e]}
                 /\ queue' = [queue EXCEPT ![peer[e]] = m]
    BY <1>2, Zenon DEF C!SendSome, C!Send, C!Notified
  <2> QED
    BY <2>1 DEF C!NoLostWakeup
<1>3. ASSUME NEW p, NEW e, C!Receive(p, e) PROVE Good
  <2>1. PICK q : queue[e] # <<>> /\ queue' = [queue EXCEPT ![e] = q] /\ waits' = waits
    BY <1>3, Zenon DEF C!Receive
  <2> QED
    BY <2>1 DEF C!NoLostWakeup
<1>4. ASSUME NEW h, NEW r, C!Collect(h, r), waits' = waits PROVE Good
  <2>1. PICK R : queue' = [e \in Endpoint |-> IF e \in R THEN queue[e] ELSE <<>>]
    BY <1>4 DEF C!Collect, C!DropAllBut
  <2> QED
    BY <1>4, <2>1 DEF C!NoLostWakeup
<1>5. ASSUME NEW p, NEW e, C!Close(p, e) PROVE Good
  BY <1>4, <1>5 DEF C!Close
<1>6. ASSUME NEW c, C!ExitProcess(c) PROVE Good
  BY <1>4, <1>6 DEF C!ExitProcess
<1>7. ASSUME queue' = queue, waits' \subseteq waits PROVE Good
  BY <1>7 DEF C!NoLostWakeup
<1>8. \A p, a, b : C!CreatePair(p, a, b) => queue' = queue /\ waits' = waits
  BY DEF C!CreatePair
<1>9. \A c, e, asked : C!RegisterSpawned(c, e, asked) => queue' = queue /\ waits' = waits
  BY DEF C!RegisterSpawned
<1>10. \A t : C!CancelWaiter(t) => queue' = queue /\ waits' \subseteq waits
  BY DEF C!CancelWaiter
<1>11. UNCHANGED C!vars => queue' = queue /\ waits' = waits
  BY DEF C!vars
<1> QED
  BY <1>1, <1>2, <1>3, <1>5, <1>6, <1>7, <1>8, <1>9, <1>10, <1>11
  DEF StepOfIpc, C!Next, C!Call

(* What is used of the exit table and the manager is kept by their steps. *)
LEMMA ExitsAndWaitsNext ==
  ASSUME ExitsAndWaits, StepOfExits, StepOfIpc PROVE ExitsAndWaits'
<1>1. /\ waits' \subseteq ThreadIds \X Endpoint
      /\ DOMAIN queue' = Endpoint /\ C!NoLostWakeup'
  BY WaitsNext DEF ExitsAndWaits
<1>2. CASE E!CommitSpawn
  BY <1>1, <1>2, KernelConstants
  DEF E!CommitSpawn, E!CanReserve, E!With, ExitsAndWaits, E!OneWaitPerThread, ProcessIds
<1>3. ASSUME NEW p \in ProcessIds, NEW s \in Status, E!RecordExit(p, s)
      PROVE  ExitsAndWaits'
  BY <1>1, <1>3
  DEF E!RecordExit, E!With, E!Without, ExitsAndWaits, E!OneWaitPerThread
<1>4. ASSUME NEW p \in ProcessIds, E!WaitReady(p) PROVE ExitsAndWaits'
  BY <1>1, <1>4 DEF E!WaitReady, E!Without, ExitsAndWaits, E!OneWaitPerThread
<1>5. ASSUME NEW p \in ProcessIds, NEW t \in ThreadIds, E!WaitBlocked(p, t)
      PROVE  ExitsAndWaits'
  BY <1>1, <1>5 DEF E!WaitBlocked, E!Waits, ExitsAndWaits, E!OneWaitPerThread
<1>6. ASSUME NEW t \in ThreadIds, E!CancelWait(t) PROVE ExitsAndWaits'
  <2>1. DOMAIN live' = DOMAIN live /\ UNCHANGED <<next_process_id, records>>
        /\ \A p \in DOMAIN live : live'[p] = IF live[p] = t THEN NO_WAITER ELSE live[p]
    BY <1>6 DEF E!CancelWait
  <2>2. live' \in [DOMAIN live' -> ThreadIds \cup {NO_WAITER}]
    BY <1>6 DEF E!CancelWait, ExitsAndWaits
  <2>3. E!OneWaitPerThread'
    BY <2>1 DEF ExitsAndWaits, E!OneWaitPerThread
  <2> QED
    BY <1>1, <2>1, <2>2, <2>3 DEF ExitsAndWaits
<1>7. CASE UNCHANGED E!vars
  BY <1>1, <1>7 DEF E!vars, ExitsAndWaits, E!OneWaitPerThread
<1> QED
  BY <1>2, <1>3, <1>4, <1>5, <1>6, <1>7, SameNames DEF StepOfExits, E!Next

(* It holds at the start. *)
LEMMA ExitsAndWaitsInit == Init => ExitsAndWaits
BY KernelConstants
DEF Init, E!Init, C!Init, ExitsAndWaits, E!OneWaitPerThread, C!NoLostWakeup, ProcessIds,
    E!FIRST_ISOLATED_PROCESS_ID

-----------------------------------------------------------------------------
(* The thread table with its proofs. *)
SP == INSTANCE SchedulerProofs WITH Isolated <- ProcessIds

(* It chooses the same thread to run. *)
LEMMA SameChoice ==
  /\ \A T, d : S!Elapse(T, d) = SP!Elapse(T, d)
  /\ \A T, t, s : S!Move(T, t, s) = SP!Move(T, t, s)
  /\ \A T, s : S!In(T, s) = SP!In(T, s)
  /\ \A T, p : S!Reschedule(T, p) <=> SP!Reschedule(T, p)
  /\ \A T : S!Stuck(T) <=> SP!Stuck(T)
<1>1. \A T : S!wake_expired(T) = SP!wake_expired(T)
  BY DEF S!wake_expired, SP!wake_expired, S!Threads, SP!Threads, S!InState,
     SP!InState, S!NO_THREAD, SP!NO_THREAD
<1>2. \A T, d : S!Elapse(T, d) = SP!Elapse(T, d)
  BY DEF S!Elapse, SP!Elapse, S!Threads, SP!Threads
<1>3. \A T, t, s : S!Move(T, t, s) = SP!Move(T, t, s)
  BY DEF S!Move, SP!Move, S!InState, SP!InState, S!NO_THREAD, SP!NO_THREAD
<1>4. \A T, s : S!In(T, s) = SP!In(T, s)
  BY DEF S!In, SP!In, S!Threads, SP!Threads
<1>5. \A R, n : S!FirstAfterCursor(R, n) <=> SP!FirstAfterCursor(R, n)
  BY DEF S!FirstAfterCursor, SP!FirstAfterCursor, S!offset, SP!offset
<1>6. \A T, p : S!select_runnable_prefer(T, p) <=> SP!select_runnable_prefer(T, p)
  BY <1>1, <1>3, <1>4, <1>5 DEF S!select_runnable_prefer, SP!select_runnable_prefer
<1>7. \A T, p : S!Reschedule(T, p) <=> SP!Reschedule(T, p)
  BY <1>1, <1>2, <1>6, <1>4 DEF S!Reschedule, SP!Reschedule, S!wait_until_runnable,
     SP!wait_until_runnable, S!NO_THREAD, SP!NO_THREAD
<1>8. \A T : S!Stuck(T) <=> SP!Stuck(T)
  BY <1>1, <1>4 DEF S!Stuck, SP!Stuck
<1> QED
  BY <1>2, <1>3, <1>4, <1>7, <1>8

(* Its thread syscalls are the same. *)
LEMMA SameThreadCalls ==
  /\ S!thread_yield <=> SP!thread_yield
  /\ \A k : S!thread_sleep(k) <=> SP!thread_sleep(k)
  /\ \A d : S!thread_create(d) <=> SP!thread_create(d)
  /\ \A t : S!JoinCompleted(t) <=> SP!JoinCompleted(t)
  /\ \A t : S!JoinBlocks(t) <=> SP!JoinBlocks(t)
  /\ \A t : S!JoinAborts(t) <=> SP!JoinAborts(t)
  /\ \A t : S!thread_detach(t) <=> SP!thread_detach(t)
  /\ S!thread_exit <=> SP!thread_exit
  /\ S!HaltInit <=> SP!HaltInit
  /\ S!Tick <=> SP!Tick
<1>1. S!InitCalls <=> SP!InitCalls
  BY DEF S!InitCalls, SP!InitCalls, S!Owner, SP!Owner, S!INIT_PROCESS_ID,
     SP!INIT_PROCESS_ID
<1>2. S!thread_yield <=> SP!thread_yield
  BY SameChoice DEF S!thread_yield, SP!thread_yield, S!NO_THREAD, SP!NO_THREAD
<1>3. \A k : S!thread_sleep(k) <=> SP!thread_sleep(k)
  BY SameChoice DEF S!thread_sleep, SP!thread_sleep, S!InState, SP!InState,
     S!NO_THREAD, SP!NO_THREAD
<1>4. \A o, d : S!allocate_for_process(o, d) <=> SP!allocate_for_process(o, d)
  BY DEF S!allocate_for_process, SP!allocate_for_process, S!FreeSlot, SP!FreeSlot,
     S!Threads, SP!Threads, S!NewSlot, SP!NewSlot, S!NO_THREAD, SP!NO_THREAD
<1>5. \A d : S!thread_create(d) <=> SP!thread_create(d)
  BY <1>1, <1>4 DEF S!thread_create, SP!thread_create, S!Owner, SP!Owner
<1>6. \A t : S!Joinable(t) <=> SP!Joinable(t)
  BY DEF S!Joinable, SP!Joinable, S!Threads, SP!Threads, S!Owner, SP!Owner,
     S!NO_THREAD, SP!NO_THREAD
<1>7. \A t : S!Joined(t) = SP!Joined(t)
  BY DEF S!Joined, SP!Joined, S!InState, SP!InState, S!NO_THREAD, SP!NO_THREAD
<1>8. \A t : S!JoinCompleted(t) <=> SP!JoinCompleted(t)
  BY <1>1, <1>6 DEF S!JoinCompleted, SP!JoinCompleted, S!EMPTY, SP!EMPTY, S!NewSlot,
     SP!NewSlot, S!INIT_PROCESS_ID, SP!INIT_PROCESS_ID, S!NO_THREAD, SP!NO_THREAD
<1>9. \A t : S!JoinBlocks(t) <=> SP!JoinBlocks(t)
  BY <1>1, <1>6, <1>7, SameChoice DEF S!JoinBlocks, SP!JoinBlocks, S!NO_THREAD,
     SP!NO_THREAD
<1>10. \A t : S!JoinAborts(t) <=> SP!JoinAborts(t)
  BY <1>1, <1>6, <1>7, SameChoice DEF S!JoinAborts, SP!JoinAborts, S!Aborted,
     SP!Aborted, S!NO_THREAD, SP!NO_THREAD
<1>11. \A t : S!thread_detach(t) <=> SP!thread_detach(t)
  BY <1>1 DEF S!thread_detach, SP!thread_detach, S!Detachable, SP!Detachable,
     S!Threads, SP!Threads, S!Owner, SP!Owner, S!EMPTY, SP!EMPTY, S!NewSlot,
     SP!NewSlot, S!INIT_PROCESS_ID, SP!INIT_PROCESS_ID, S!NO_THREAD, SP!NO_THREAD
<1>12. S!Exited = SP!Exited
  <2>1. S!NO_THREAD = SP!NO_THREAD /\ S!EMPTY = SP!EMPTY
    BY DEF S!EMPTY, SP!EMPTY, S!NewSlot, SP!NewSlot, S!INIT_PROCESS_ID, SP!INIT_PROCESS_ID,
       S!NO_THREAD, SP!NO_THREAD
  <2>2. \A s, state : S!InState(s, state) = SP!InState(s, state)
    BY <2>1 DEF S!InState, SP!InState
  <2>3. \A T, t, state : S!Move(T, t, state) = SP!Move(T, t, state)
    BY SameChoice
  <2> QED
    BY <2>1, <2>2, <2>3, Zenon DEF S!Exited, SP!Exited
<1>13. S!thread_exit <=> SP!thread_exit
  BY <1>1, <1>12, SameChoice DEF S!thread_exit, SP!thread_exit
<1>14. S!HaltInit <=> SP!HaltInit
  BY <1>1 DEF S!HaltInit, SP!HaltInit
<1>15. S!Tick <=> SP!Tick
  BY SameChoice DEF S!Tick, SP!Tick
<1> QED
  BY <1>2, <1>3, <1>5, <1>8, <1>9, <1>10, <1>11, <1>13, <1>14, <1>15

(* So are the steps the other tables make it take. *)
LEMMA SameWaits ==
  /\ S!WaitBlocks <=> SP!WaitBlocks
  /\ S!WaitAborts <=> SP!WaitAborts
  /\ \A W : S!WakeWaiters(W) <=> SP!WakeWaiters(W)
  /\ \A p : S!SpawnThread(p) <=> SP!SpawnThread(p)
  /\ \A W : S!TerminateProcess(W) <=> SP!TerminateProcess(W)
<1>1. S!InitCalls <=> SP!InitCalls
  BY DEF S!InitCalls, SP!InitCalls, S!Owner, SP!Owner, S!INIT_PROCESS_ID,
     SP!INIT_PROCESS_ID
<1>2. \A o, d : S!allocate_for_process(o, d) <=> SP!allocate_for_process(o, d)
  BY DEF S!allocate_for_process, SP!allocate_for_process, S!FreeSlot, SP!FreeSlot,
     S!Threads, SP!Threads, S!NewSlot, SP!NewSlot, S!NO_THREAD, SP!NO_THREAD
<1>3. S!Blocked = SP!Blocked
  BY SameChoice DEF S!Blocked, SP!Blocked
<1>4. S!WaitBlocks <=> SP!WaitBlocks
  BY <1>3, SameChoice DEF S!WaitBlocks, SP!WaitBlocks, S!NO_THREAD, SP!NO_THREAD
<1>5. S!WaitAborts <=> SP!WaitAborts
  BY <1>3, SameChoice DEF S!WaitAborts, SP!WaitAborts
<1>6. \A T, W : S!Woken(T, W) = SP!Woken(T, W)
  BY DEF S!Woken, SP!Woken, S!Threads, SP!Threads, S!InState, SP!InState,
     S!NO_THREAD, SP!NO_THREAD
<1>7. \A W : S!WakeWaiters(W) <=> SP!WakeWaiters(W)
  BY <1>6 DEF S!WakeWaiters, SP!WakeWaiters
<1>8. \A p : S!SpawnThread(p) <=> SP!SpawnThread(p)
  BY <1>1, <1>2, Zenon DEF S!SpawnThread, SP!SpawnThread, S!Threads, SP!Threads
<1>9. \A T : S!Removed(T) = SP!Removed(T)
  BY DEF S!Removed, SP!Removed, S!Threads, SP!Threads, S!Owner, SP!Owner, S!EMPTY,
     SP!EMPTY, S!NewSlot, SP!NewSlot, S!INIT_PROCESS_ID, SP!INIT_PROCESS_ID,
     S!NO_THREAD, SP!NO_THREAD
<1>10. \A W : S!TerminateProcess(W) <=> SP!TerminateProcess(W)
  BY <1>6, <1>9, SameChoice DEF S!TerminateProcess, SP!TerminateProcess, S!Owner,
     SP!Owner, S!INIT_PROCESS_ID, SP!INIT_PROCESS_ID, S!NO_THREAD, SP!NO_THREAD
<1> QED
  BY <1>4, <1>5, <1>7, <1>8, <1>10

ThreadsInv == SP!IInv /\ SP!Lodging(slots)

(* The constants are fit for the thread table, and the names are the same. *)
LEMMA ThreadNames ==
  /\ SP!SchedulerConstants
  /\ SP!Threads = ThreadIds /\ SP!INIT_PROCESS_ID = INIT /\ SP!Owner = Caller
BY KernelConstants
DEF SP!SchedulerConstants, ProcessIds, NO_WAITER, SP!NO_THREAD, SP!INIT_PROCESS_ID,
    SP!Threads, ThreadIds, INIT, SP!Owner, Caller

(* The invariant of the thread table, for the table in the kernel. *)
LEMMA ThreadTableInv ==
  /\ S!Init => ThreadsInv
  /\ ThreadsInv /\ [S!Next]_(S!vars) => ThreadsInv'
  /\ ThreadsInv => CallerRuns
<1>1. S!Init => SP!Init
  BY DEF S!Init, SP!Init, S!Threads, SP!Threads, S!EMPTY, SP!EMPTY, S!NewSlot, SP!NewSlot,
         S!INIT_PROCESS_ID, SP!INIT_PROCESS_ID, S!NO_THREAD, SP!NO_THREAD
<1>2. S!Init => ThreadsInv
  BY <1>1, ThreadNames, SP!InvInit, SP!LodgingInit DEF ThreadsInv
<1>3. [S!Next]_(S!vars) => [SP!Next]_(SP!vars)
  BY SameThreadCalls, SameWaits, SameNames, ThreadNames
  DEF S!Next, SP!Next, S!NextNoJoin, SP!NextNoJoin, S!NextJoin, SP!NextJoin, S!Switch,
      SP!Switch, S!Wakes, SP!Wakes, S!vars, SP!vars
<1>4. ASSUME ThreadsInv, [S!Next]_(S!vars) PROVE ThreadsInv'
  <2>1. SP!IInv' /\ SP!Lodging(slots')
    BY <1>3, <1>4, ThreadNames, SP!InvNext, SP!LodgingNext DEF ThreadsInv
  <2> QED
    BY <2>1 DEF ThreadsInv, SP!Lodging, SP!IsolatedIn
<1>5. ASSUME ThreadsInv, ~halted PROVE CallerRuns
  <2>1. current \in SP!Threads /\ slots[current].state = "Running" /\ slots \in SP!Table
    BY <1>5, ThreadNames, SP!RunningState DEF ThreadsInv
  <2>2. slots[current].owner \in ProcessIds \cup {SP!INIT_PROCESS_ID}
    BY <2>1 DEF SP!Table, SP!ThreadSlot
  <2> QED
    BY <2>1, <2>2, ThreadNames DEF Caller, CallerRuns
<1> QED
  BY <1>2, <1>4, <1>5 DEF CallerRuns

(* What its steps do to the blocked threads and the owners of threads. *)
LEMMA ThreadEffects == ThreadsInv => Effects
<1> SUFFICES ASSUME ThreadsInv PROVE Effects
  OBVIOUS
<1>1. /\ BlockedThreads = SP!In(slots, "ChannelBlocked")
      /\ BlockedThreads' = SP!In(slots', "ChannelBlocked")
      /\ OwnersOfThreads = SP!Owners(slots) /\ OwnersOfThreads' = SP!Owners(slots')
  BY ThreadNames, SameNames DEF BlockedThreads, S!In, SP!In, OwnersOfThreads, SP!Owners
<1>2. ASSUME ThreadCall
      PROVE  halted' \/ (~halted /\ SP!ThreadCalls)
  <2>1. CASE S!HaltInit
    BY <2>1 DEF S!HaltInit
  <2>2. CASE ~S!HaltInit
    <3>1. ~halted
      BY <1>2, <2>2, Zenon
      DEF ThreadCall, S!thread_yield, S!thread_sleep, S!thread_create, S!JoinCompleted,
          S!JoinBlocks, S!JoinAborts, S!thread_detach, S!thread_exit, S!Tick, S!InitCalls
    <3> QED
      BY <1>2, <2>2, <3>1, ThreadNames, SameThreadCalls DEF ThreadCall, SP!ThreadCalls
  <2> QED
    BY <2>1, <2>2
<1>3. S!WaitAborts => ~halted /\ SP!WaitAborts
  BY SameWaits DEF S!WaitAborts
<1> DEFINE B == BlockedThreads
           O == OwnersOfThreads
<1>4. /\ SP!ThreadCalls \/ SP!WaitAborts => B' = B /\ O' = O
      /\ SP!WaitBlocks => B' = B \cup {current} /\ O' = O
      /\ \A W : SP!WakeWaiters(W) => B' = B \ W /\ O' = O
      /\ \A p \in ProcessIds : SP!SpawnThread(p) => B' = B /\ O' = O \cup {p}
      /\ \A W : SP!TerminateProcess(W) => B' = B \ W /\ O' = O \ {Caller}
  <2>1. SP!IInv /\ SP!Lodging(slots)
    BY DEF ThreadsInv
  <2> DEFINE B1 == SP!In(slots, "ChannelBlocked")
             B2 == SP!In(slots', "ChannelBlocked")
             O1 == SP!Owners(slots)
             O2 == SP!Owners(slots')
  <2>2. /\ SP!ThreadCalls \/ SP!WaitAborts => B2 = B1 /\ O2 = O1
        /\ SP!WaitBlocks => B2 = B1 \cup {current} /\ O2 = O1
        /\ \A W : SP!WakeWaiters(W) => B2 = B1 \ W /\ O2 = O1
        /\ \A p \in ProcessIds : SP!SpawnThread(p) => B2 = B1 /\ O2 = O1 \cup {p}
        /\ \A W : SP!TerminateProcess(W) => B2 = B1 \ W /\ O2 = O1 \ {SP!Owner}
    BY <2>1, ThreadNames, SP!TableEffects
  <2>3. B = B1 /\ O = O1 /\ B' = B2 /\ O' = O2 /\ SP!Owner = Caller
    BY <1>1, ThreadNames
  <2> HIDE DEF B, O, B1, O1, B2, O2
  <2> QED
    BY <2>2, <2>3
<1> HIDE DEF B, O
<1>5. ThreadCall \/ S!WaitAborts => halted' \/ (~halted /\ B' = B /\ O' = O)
  BY <1>2, <1>3, <1>4
<1> QED
  BY <1>4, <1>5, SameWaits DEF Effects, B, O

-----------------------------------------------------------------------------
(* The inductive invariant: that of the thread table, what is used of the  *)
(* other two, and the relations between the tables.                        *)
KInv == ThreadsInv /\ ExitsAndWaits /\ Agreement

(* It holds at the start and is kept by every step; every step is one, or  *)
(* none, of each table.                                                    *)
LEMMA KernelNext ==
  KInv /\ [Next]_vars => KInv' /\ StepOfThreads /\ StepOfExits /\ StepOfIpc
<1> SUFFICES ASSUME KInv, [Next]_vars
             PROVE  KInv' /\ StepOfThreads /\ StepOfExits /\ StepOfIpc
  OBVIOUS
<1>1. Ground
  BY ThreadTableInv DEF KInv, Ground
<1>2. StepOfThreads /\ StepOfExits /\ StepOfIpc
  BY <1>1, StepOfParts DEF KInv
<1>3. ThreadsInv' /\ ExitsAndWaits'
  BY <1>2, ThreadTableInv, ExitsAndWaitsNext DEF KInv, StepOfThreads
<1>4. Agreement'
  BY <1>1, ThreadEffects, StepAgrees DEF KInv
<1> QED
  BY <1>2, <1>3, <1>4 DEF KInv

(* So it always holds. *)
LEMMA KernelAlways == Spec => []KInv
<1>1. Init => KInv
  BY ThreadTableInv, ExitsAndWaitsInit, AgreementInit DEF Init, KInv
<1>2. KInv /\ [Next]_vars => KInv'
  BY KernelNext
<1> QED
  BY <1>1, <1>2, PTL DEF Spec

(* The thread table, the exit table, the IPC manager and the address-space *)
(* slots agree on which isolated processes exist after every syscall and   *)
(* every fault, whatever the sizes of the tables.                          *)
THEOREM ProcessTablesAgree == Spec => []TablesAgree
<1>1. KInv => TablesAgree
  BY DEF KInv, Agreement
<1> QED
  BY <1>1, KernelAlways, PTL

(* Every ChannelBlocked thread is registered with exactly one table that   *)
(* will wake it, and no thread that runs is still registered.              *)
THEOREM OneWaker == Spec => []BlockedHasOneWaker
<1>1. KInv => BlockedHasOneWaker
  BY DEF KInv, Agreement
<1> QED
  BY <1>1, KernelAlways, PTL

(* The kernel implements its tables: seen through the variables of one of  *)
(* them, every behaviour of the syscall layer is one of that table.        *)
THEOREM KernelImplements == Spec => ImplementsComponents
<1>1. Init => S!Init /\ E!Init /\ C!Init
  BY DEF Init
<1>2. KInv /\ [Next]_vars => [S!Next]_(S!vars) /\ [E!Next]_(E!vars) /\ [C!Next]_(C!vars)
  BY KernelNext DEF StepOfThreads, StepOfExits, StepOfIpc
<1> QED
  BY <1>1, <1>2, KernelAlways, PTL
  DEF Spec, ImplementsComponents, S!Spec, E!Spec, C!Spec

(* What a blocked thread waits for has not happened: its endpoint has no   *)
(* message, or its process has not ended.                                  *)
BlockedForAReason ==
  ~halted => \A t \in BlockedThreads :
               \/ \E w \in waits : w[1] = t /\ queue[w[2]] = <<>>
               \/ \E p \in claims : live[p] = t /\ p \notin DOMAIN records

(* No wakeup is lost between the tables: a thread that waits for a message *)
(* or an exit waits only while there is none.                              *)
THEOREM NoSleeperMissed == Spec => []BlockedForAReason
<1>1. KInv => BlockedForAReason
  <2> SUFFICES ASSUME KInv, ~halted, NEW t \in BlockedThreads
               PROVE  \/ \E w \in waits : w[1] = t /\ queue[w[2]] = <<>>
                      \/ \E p \in claims : live[p] = t /\ p \notin DOMAIN records
    BY DEF BlockedForAReason
  <2>1. Agreement /\ t \in ChannelWaiters \cup ExitWaiters
    BY AgreementMeans DEF KInv
  <2>2. CASE t \in ChannelWaiters
    BY <2>2 DEF ChannelWaiters, KInv, ExitsAndWaits, C!NoLostWakeup
  <2>3. CASE t \in ExitWaiters
    <3>1. PICK p \in DOMAIN live : live[p] = t
      BY <2>3 DEF ExitWaiters
    <3>2. p \in claims /\ p \notin DOMAIN records
      BY <2>1, AgreementMeans DEF KInv, ExitsAndWaits
    <3> QED
      BY <3>1, <3>2
  <2> QED
    BY <2>1, <2>2, <2>3
<1> QED
  BY <1>1, KernelAlways, PTL
=============================================================================
