--------------------------- MODULE SchedulerProofs ---------------------------
(***************************************************************************)
(* Proofs about the scheduler, for any number of thread slots, isolated    *)
(* processes and sleep lengths.                                            *)
(*                                                                         *)
(* Every switching syscall first takes the processor from the caller (a    *)
(* table with no Running thread whose joins are paired: IdleTable), then   *)
(* wakes sleepers, picks a thread and runs it.  The lemmas follow the      *)
(* table through those operators; the inductive step then only has to show *)
(* what each syscall does before it reschedules.                           *)
(***************************************************************************)
EXTENDS Scheduler, TLAPS

(* Only threads of init join (dispatch_isolated has no SYS_THREAD_JOIN). *)
JoinersOfInit(T) ==
  \A t \in Threads : T[t].state = "JoinBlocked" => T[t].owner = INIT_PROCESS_ID

IInv == TypeOK /\ OneRunning /\ JoinSymmetry /\ JoinersOfInit(slots)

Table == [Threads -> ThreadSlot]

IdleTable(T) ==
  T \in Table /\ In(T, "Running") = {} /\ JoinPaired(T) /\ JoinersOfInit(T)

(* What a dispatch from table T leaves. *)
Dispatched(T) ==
  /\ slots' \in Table
  /\ JoinPaired(slots') /\ JoinersOfInit(slots')
  /\ current' \in Threads
  /\ cursor' = current'
  /\ In(slots', "Running") = {current'}
  /\ In(slots', "JoinBlocked") = In(T, "JoinBlocked")

(* The marker for "no thread" is no thread ID. *)
LEMMA NoThreadIsNone == NO_THREAD \notin Threads /\ Threads \subseteq Nat
BY SchedulerConstants DEF NO_THREAD, Threads

(* A state change keeps who joins, who owns and whether it is detached. *)
LEMMA InStateSlot ==
  ASSUME NEW slot \in ThreadSlot, NEW state \in States
  PROVE  LET s == InState(slot, state)
         IN  /\ s \in ThreadSlot /\ s.state = state
             /\ s.joiner = slot.joiner /\ s.detached = slot.detached
             /\ s.owner = slot.owner
<1>1. InState(slot, state) \in ThreadSlot
  BY SchedulerConstants DEF InState, ThreadSlot
<1>2. InState(slot, state).state = state
  BY DEF InState, ThreadSlot
<1>3. InState(slot, state).joiner = slot.joiner
  BY DEF InState, ThreadSlot
<1>4. InState(slot, state).detached = slot.detached
  BY DEF InState, ThreadSlot
<1>5. InState(slot, state).owner = slot.owner
  BY DEF InState, ThreadSlot
<1> QED
  BY <1>1, <1>2, <1>3, <1>4, <1>5

(* A slot that is handed out is a slot. *)
LEMMA NewSlotType ==
  ASSUME NEW state \in States, NEW owner \in Isolated \cup {INIT_PROCESS_ID},
         NEW detached \in BOOLEAN
  PROVE  NewSlot(state, owner, detached) \in ThreadSlot
BY SchedulerConstants DEF NewSlot, ThreadSlot

(* Waking expired sleepers blocks, unblocks and runs nobody else. *)
LEMMA WakeKeepsIdle ==
  ASSUME NEW T, IdleTable(T)
  PROVE  /\ IdleTable(wake_expired(T))
         /\ In(wake_expired(T), "JoinBlocked") = In(T, "JoinBlocked")
         /\ In(T, "Runnable") \subseteq In(wake_expired(T), "Runnable")
<1> DEFINE W == wake_expired(T)
<1>1. W \in Table
  BY NoThreadIsNone, SchedulerConstants
  DEF IdleTable, Table, wake_expired, InState, ThreadSlot, States
<1>2. \A t \in Threads :
        \/ W[t] = T[t]
        \/ /\ T[t].state = "Sleeping" /\ W[t].state = "Runnable"
           /\ W[t].joiner = T[t].joiner /\ W[t].detached = T[t].detached
           /\ W[t].owner = T[t].owner
  BY DEF IdleTable, Table, wake_expired, InState, ThreadSlot
<1>3. In(W, "Running") = {} /\ In(W, "JoinBlocked") = In(T, "JoinBlocked")
      /\ In(T, "Runnable") \subseteq In(W, "Runnable")
  BY <1>2 DEF IdleTable, In
<1>4. JoinPaired(W)
  <2>1. \A t \in Threads : W[t].joiner = T[t].joiner /\ W[t].detached = T[t].detached
                            /\ W[t].owner = T[t].owner
    BY <1>2
  <2>2. \A t \in Threads : T[t].state = "JoinBlocked" => W[t] = T[t]
    BY <1>2
  <2>3. \A t \in Threads : T[t].joiner \in Threads \cup {NO_THREAD}
    BY DEF IdleTable, Table, ThreadSlot
  <2>4. \A t \in Threads : W[t].state \in {"Empty", "Zombie", "JoinBlocked"} => W[t] = T[t]
    BY <1>2
  <2> QED
    BY <2>1, <2>2, <2>3, <2>4 DEF IdleTable, JoinPaired
<1>5. JoinersOfInit(W)
  BY <1>2 DEF IdleTable, JoinersOfInit
<1> QED
  BY <1>1, <1>3, <1>4, <1>5 DEF IdleTable

(* Time changes nothing but the deadlines. *)
LEMMA ElapseKeepsIdle ==
  ASSUME NEW T, IdleTable(T), NEW d \in Nat
  PROVE  /\ IdleTable(Elapse(T, d))
         /\ \A s \in States : In(Elapse(T, d), s) = In(T, s)
<1> DEFINE E == Elapse(T, d)
<1>1. E \in Table
  BY SchedulerConstants DEF IdleTable, Table, Elapse, ThreadSlot
<1>2. \A t \in Threads :
        /\ E[t].state = T[t].state /\ E[t].target = T[t].target
        /\ E[t].joiner = T[t].joiner /\ E[t].detached = T[t].detached
        /\ E[t].owner = T[t].owner
  BY DEF IdleTable, Table, Elapse, ThreadSlot
<1>3. \A s \in States : In(E, s) = In(T, s)
  BY <1>2 DEF In
<1>4. JoinPaired(E)
  <2>1. \A t \in Threads : T[t].joiner \in Threads \cup {NO_THREAD}
    BY DEF IdleTable, Table, ThreadSlot
  <2> QED
    BY <1>2, <2>1 DEF IdleTable, JoinPaired
<1>5. JoinersOfInit(E)
  BY <1>2 DEF IdleTable, JoinersOfInit
<1> QED
  BY <1>1, <1>3, <1>4, <1>5 DEF IdleTable, States

(* Running a runnable thread of an idle table. *)
LEMMA RunOne ==
  ASSUME NEW W, IdleTable(W), NEW n \in In(W, "Runnable")
  PROVE  LET M == Move(W, n, "Running")
         IN  /\ M \in Table /\ JoinPaired(M) /\ JoinersOfInit(M)
             /\ In(M, "Running") = {n}
             /\ In(M, "JoinBlocked") = In(W, "JoinBlocked")
<1> DEFINE M == Move(W, n, "Running")
<1>1. n \in Threads /\ W[n].state = "Runnable"
  BY DEF In
<1>2. M \in Table
  BY <1>1, InStateSlot DEF IdleTable, Table, Move, States
<1>3. \A t \in Threads : t # n => M[t] = W[t]
  BY <1>1 DEF IdleTable, Table, Move
<1>4. /\ M[n].state = "Running" /\ M[n].joiner = W[n].joiner
      /\ M[n].detached = W[n].detached /\ M[n].owner = W[n].owner
  BY <1>1, InStateSlot DEF IdleTable, Table, Move, States
<1>5. In(M, "Running") = {n} /\ In(M, "JoinBlocked") = In(W, "JoinBlocked")
  BY <1>1, <1>3, <1>4 DEF IdleTable, In
<1>6. JoinPaired(M)
  <2>1. \A t \in Threads : W[t].joiner \in Threads \cup {NO_THREAD}
    BY DEF IdleTable, Table, ThreadSlot
  <2>2. \A t \in Threads : M[t].joiner = W[t].joiner
    BY <1>3, <1>4
  <2> QED
    BY <1>1, <1>3, <1>4, <2>1, <2>2 DEF IdleTable, JoinPaired
<1>7. JoinersOfInit(M)
  BY <1>3, <1>4 DEF IdleTable, JoinersOfInit
<1> QED
  BY <1>2, <1>5, <1>6, <1>7

(* A selection runs one thread and keeps every join paired. *)
LEMMA SelectRunsOne ==
  ASSUME NEW T, NEW p, IdleTable(T), select_runnable_prefer(T, p)
  PROVE  Dispatched(T)
<1> DEFINE W == wake_expired(T)
<1>1. IdleTable(W) /\ In(W, "JoinBlocked") = In(T, "JoinBlocked")
  BY WakeKeepsIdle
<1>2. PICK n \in In(W, "Runnable") :
        slots' = Move(W, n, "Running") /\ current' = n /\ cursor' = n
  BY DEF select_runnable_prefer
<1> HIDE DEF W
<1> QED
  BY <1>1, <1>2, RunOne DEF Dispatched, In

(* So does a selection that had to wait for a sleeper. *)
LEMMA RescheduleRunsOne ==
  ASSUME NEW T, NEW p, IdleTable(T), Reschedule(T, p)
  PROVE  Dispatched(T)
<1>1. CASE select_runnable_prefer(T, p)
  BY <1>1, SelectRunsOne
<1>2. CASE wait_until_runnable(T)
  <2>1. PICK d \in 1 .. MaxSleep :
          select_runnable_prefer(Elapse(T, d), NO_THREAD)
    BY <1>2 DEF wait_until_runnable
  <2>2. IdleTable(Elapse(T, d)) /\ In(Elapse(T, d), "JoinBlocked") = In(T, "JoinBlocked")
    BY ElapseKeepsIdle, SchedulerConstants DEF States
  <2>3. Dispatched(Elapse(T, d))
    BY <2>1, <2>2, SelectRunsOne
  <2> QED
    BY <2>2, <2>3 DEF Dispatched
<1> QED
  BY <1>1, <1>2 DEF Reschedule

(* The caller of a switching syscall leaves the processor: the table it    *)
(* leaves is idle when its new slot is not Running or JoinBlocked and      *)
(* keeps the joiner that waits for it.                                     *)
LEMMA LeaveProcessor ==
  ASSUME IInv, ~halted, NEW s \in ThreadSlot,
         s.state \in {"Runnable", "Sleeping", "ChannelBlocked"},
         s.joiner = slots[current].joiner,
         s.detached = slots[current].detached,
         s.owner = slots[current].owner
  PROVE  LET T == [slots EXCEPT ![current] = s]
         IN  IdleTable(T) /\ In(T, "JoinBlocked") = join_out
<1> DEFINE T == [slots EXCEPT ![current] = s]
<1>0. slots \in Table /\ current \in Threads /\ In(slots, "Running") = {current}
      /\ JoinPaired(slots) /\ join_out = In(slots, "JoinBlocked")
      /\ JoinersOfInit(slots)
  BY DEF IInv, TypeOK, OneRunning, JoinSymmetry, Table
<1>1. T \in Table
  BY <1>0 DEF Table
<1>2. \A t \in Threads : t # current => T[t] = slots[t]
  BY <1>0 DEF Table
<1>3. T[current] = s /\ slots[current].state = "Running"
  BY <1>0 DEF Table, In
<1>4. In(T, "Running") = {} /\ In(T, "JoinBlocked") = In(slots, "JoinBlocked")
  BY <1>0, <1>2, <1>3 DEF In
<1>5. JoinPaired(T)
  <2>1. \A t \in Threads : slots[t].joiner \in Threads \cup {NO_THREAD}
    BY <1>0 DEF Table, ThreadSlot
  <2>2. \A t \in Threads : T[t].joiner = slots[t].joiner
    BY <1>2, <1>3
  <2> QED
    BY <1>0, <1>2, <1>3, <2>1, <2>2 DEF JoinPaired
<1>6. JoinersOfInit(T)
  BY <1>0, <1>2, <1>3 DEF JoinersOfInit
<1> QED
  BY <1>0, <1>1, <1>4, <1>5, <1>6, Zenon DEF IdleTable

(* What the inductive invariant says of a state in which a thread runs. *)
LEMMA RunningState ==
  ASSUME IInv, ~halted
  PROVE  /\ slots \in Table /\ current \in Threads
         /\ In(slots, "Running") = {current} /\ slots[current].state = "Running"
         /\ JoinPaired(slots) /\ JoinersOfInit(slots)
         /\ join_out = In(slots, "JoinBlocked") /\ join_out \subseteq Threads
         /\ cursor = current
         /\ \A t \in Threads : slots[t] \in ThreadSlot
         /\ \A t \in Threads : slots[t].joiner \in Threads \cup {NO_THREAD}
BY DEF IInv, TypeOK, OneRunning, JoinSymmetry, Table, ThreadSlot, In

(* A dispatch re-establishes the invariant when join_out tracks the joins. *)
LEMMA DispatchInv ==
  ASSUME IInv, NEW T, Dispatched(T), join_out' = In(T, "JoinBlocked"),
         halted' = halted
  PROVE  IInv'
<1>1. TypeOK'
  BY DEF IInv, Dispatched, TypeOK, Table, In
<1>2. OneRunning' /\ JoinSymmetry' /\ JoinersOfInit(slots)'
  BY DEF Dispatched, OneRunning, JoinSymmetry, In, JoinPaired, JoinersOfInit
<1> QED
  BY <1>1, <1>2 DEF IInv

(* The boot state: only thread 0 exists, and it runs. *)
LEMMA InvInit == Init => IInv
<1> SUFFICES ASSUME Init PROVE IInv
  OBVIOUS
<1>0. 0 \in Threads /\ NO_THREAD \notin Threads
  BY SchedulerConstants DEF Threads, NO_THREAD
<1>1. EMPTY \in ThreadSlot /\ NewSlot("Running", INIT_PROCESS_ID, FALSE) \in ThreadSlot
  BY NewSlotType, Zenon DEF EMPTY, States
<1>2. \A t \in Threads : /\ slots[t].joiner = NO_THREAD
                         /\ slots[t].state = IF t = 0 THEN "Running" ELSE "Empty"
  BY DEF Init, EMPTY, NewSlot
<1>3. TypeOK
  BY <1>0, <1>1, Zenon DEF Init, TypeOK
<1>4. OneRunning
  BY <1>0, <1>2, Zenon DEF Init, OneRunning, In
<1>5. JoinSymmetry /\ JoinersOfInit(slots)
  BY <1>2, Zenon DEF Init, JoinSymmetry, JoinPaired, JoinersOfInit, In
<1> QED
  BY <1>3, <1>4, <1>5 DEF IInv

(* thread_yield preserves the invariant. *)
LEMMA YieldInv == ASSUME IInv, thread_yield PROVE IInv'
<1> DEFINE s == InState(slots[current], "Runnable")
           T == [slots EXCEPT ![current] = s]
<1>1. ~halted /\ Reschedule(T, NO_THREAD) /\ join_out' = join_out /\ halted' = halted
  BY DEF thread_yield, Move
<1>2. s \in ThreadSlot /\ s.state = "Runnable" /\ s.joiner = slots[current].joiner
      /\ s.detached = slots[current].detached /\ s.owner = slots[current].owner
  BY <1>1, RunningState, InStateSlot DEF States
<1> HIDE DEF s
<1>3. IdleTable(T) /\ In(T, "JoinBlocked") = join_out
  BY <1>1, <1>2, LeaveProcessor
<1> HIDE DEF T
<1>4. Dispatched(T)
  BY <1>1, <1>3, RescheduleRunsOne
<1> QED
  BY <1>1, <1>3, <1>4, DispatchInv

(* So does thread_sleep. *)
LEMMA SleepInv ==
  ASSUME IInv, NEW k \in 1 .. MaxSleep, thread_sleep(k) PROVE IInv'
<1> DEFINE u == InState(slots[current], "Sleeping")
           s == [u EXCEPT !.ticks = k]
           T == [slots EXCEPT ![current] = s]
<1>1. ~halted /\ Reschedule(T, NO_THREAD) /\ join_out' = join_out /\ halted' = halted
  BY DEF thread_sleep
<1>2. u \in ThreadSlot /\ u.state = "Sleeping" /\ u.joiner = slots[current].joiner
      /\ u.detached = slots[current].detached /\ u.owner = slots[current].owner
  BY <1>1, RunningState, InStateSlot DEF States
<1> HIDE DEF u
<1>3. s \in ThreadSlot /\ s.state = u.state /\ s.joiner = u.joiner
      /\ s.detached = u.detached /\ s.owner = u.owner
  BY <1>2, SchedulerConstants DEF ThreadSlot
<1> HIDE DEF s
<1>4. IdleTable(T) /\ In(T, "JoinBlocked") = join_out
  BY <1>1, <1>2, <1>3, LeaveProcessor
<1> HIDE DEF T
<1> QED
  BY <1>1, <1>4, RescheduleRunsOne, DispatchInv

(* So does a wait that blocks. *)
LEMMA WaitBlocksInv == ASSUME IInv, WaitBlocks PROVE IInv'
<1> DEFINE s == InState(slots[current], "ChannelBlocked")
           T == [slots EXCEPT ![current] = s]
<1>1. ~halted /\ Reschedule(T, NO_THREAD) /\ join_out' = join_out /\ halted' = halted
  BY DEF WaitBlocks, Blocked, Move
<1>2. s \in ThreadSlot /\ s.state = "ChannelBlocked" /\ s.joiner = slots[current].joiner
      /\ s.detached = slots[current].detached /\ s.owner = slots[current].owner
  BY <1>1, RunningState, InStateSlot DEF States
<1> HIDE DEF s
<1>3. IdleTable(T) /\ In(T, "JoinBlocked") = join_out
  BY <1>1, <1>2, LeaveProcessor
<1> HIDE DEF T
<1> QED
  BY <1>1, <1>3, RescheduleRunsOne, DispatchInv

(* A step that changes one slot, no thread's joiner and no join. *)
LEMMA QuietUpdate ==
  ASSUME IInv, ~halted, NEW t \in Threads, NEW s \in ThreadSlot,
         slots[t].joiner = NO_THREAD, s.joiner = NO_THREAD,
         \/ /\ s.state = slots[t].state /\ s.target = slots[t].target
            /\ s.owner = slots[t].owner
         \/ {s.state, slots[t].state} \cap {"Running", "JoinBlocked"} = {},
         slots' = [slots EXCEPT ![t] = s],
         UNCHANGED <<current, cursor, join_out, halted>>
  PROVE  IInv'
<1>1. slots' \in Table /\ slots'[t] = s /\ \A u \in Threads : u # t => slots'[u] = slots[u]
  BY RunningState DEF Table
<1>2. TypeOK'
  BY <1>1 DEF IInv, TypeOK, Table
<1>3. In(slots', "Running") = In(slots, "Running")
      /\ In(slots', "JoinBlocked") = In(slots, "JoinBlocked")
  BY <1>1, Zenon DEF In
<1>4. JoinPaired(slots')
  <2>1. \A u \in Threads : slots[u].state = "JoinBlocked" =>
          /\ slots'[u].state = "JoinBlocked" /\ slots'[u].target = slots[u].target
          /\ slots'[u].owner = slots[u].owner
    BY <1>1, Zenon
  <2>2. \A u \in Threads : slots'[u].state = "JoinBlocked" =>
          slots[u].state = "JoinBlocked" /\ slots'[u].target = slots[u].target
    BY <1>1, Zenon
  <2>3. \A u \in Threads : slots'[u].joiner = slots[u].joiner
    BY <1>1
  <2>4. \A u \in Threads : slots[u].joiner # NO_THREAD => slots'[u] = slots[u]
    BY <1>1
  <2> QED
    BY <2>1, <2>2, <2>3, <2>4, RunningState DEF JoinPaired
<1>5. JoinersOfInit(slots')
  BY <1>1, RunningState, Zenon DEF JoinersOfInit
<1>6. OneRunning' /\ JoinSymmetry' /\ JoinersOfInit(slots)'
  BY <1>3, <1>4, <1>5, RunningState
  DEF OneRunning, JoinSymmetry, In, JoinPaired, JoinersOfInit
<1> QED
  BY <1>2, <1>6 DEF IInv

(* So does handing out a slot (thread_create, process_spawn). *)
LEMMA AllocateInv ==
  ASSUME IInv, ~halted, NEW owner \in Isolated \cup {INIT_PROCESS_ID},
         NEW d \in BOOLEAN, allocate_for_process(owner, d)
  PROVE  IInv'
<1>1. PICK id \in Threads :
        /\ slots[id].state = "Empty"
        /\ slots' = [slots EXCEPT ![id] = NewSlot("Runnable", owner, d)]
        /\ UNCHANGED <<current, cursor, join_out, halted>>
  BY Zenon DEF allocate_for_process, FreeSlot
<1>2. slots[id].joiner = NO_THREAD
  BY <1>1, RunningState DEF JoinPaired
<1>3. /\ NewSlot("Runnable", owner, d) \in ThreadSlot
      /\ NewSlot("Runnable", owner, d).joiner = NO_THREAD
      /\ NewSlot("Runnable", owner, d).state = "Runnable"
  BY NewSlotType DEF States, NewSlot
<1> QED
  BY <1>1, <1>2, <1>3, QuietUpdate, Zenon

(* The empty slot is a slot. *)
LEMMA EmptySlot ==
  EMPTY \in ThreadSlot /\ EMPTY.joiner = NO_THREAD /\ EMPTY.state = "Empty"
  /\ EMPTY.owner = INIT_PROCESS_ID
BY NewSlotType, Zenon DEF EMPTY, NewSlot, States

(* Joining a thread that has ended frees its slot. *)
LEMMA JoinCompletedInv ==
  ASSUME IInv, NEW t \in Threads, JoinCompleted(t) PROVE IInv'
BY EmptySlot, QuietUpdate, Zenon DEF JoinCompleted, InitCalls, Joinable

(* thread_detach preserves the invariant. *)
LEMMA DetachInv ==
  ASSUME IInv, NEW t \in Threads, thread_detach(t) PROVE IInv'
<1>1. /\ ~halted /\ slots[t].joiner = NO_THREAD /\ slots[t] \in ThreadSlot
      /\ UNCHANGED <<current, cursor, join_out, halted>>
  BY RunningState DEF thread_detach, InitCalls, Detachable
<1>2. CASE slots[t].state = "Zombie"
  BY <1>1, <1>2, EmptySlot, QuietUpdate, Zenon DEF thread_detach
<1>3. CASE slots[t].state # "Zombie"
  <2> DEFINE s == [slots[t] EXCEPT !.detached = TRUE]
  <2>1. s \in ThreadSlot /\ s.state = slots[t].state /\ s.target = slots[t].target
        /\ s.joiner = slots[t].joiner /\ s.owner = slots[t].owner
    BY <1>1, Zenon DEF ThreadSlot
  <2>2. slots' = [slots EXCEPT ![t] = s]
    BY <1>3 DEF thread_detach
  <2> HIDE DEF s
  <2> QED
    BY <1>1, <2>1, <2>2, QuietUpdate, Zenon
<1> QED
  BY <1>2, <1>3

(* A step that moves threads only between Runnable, Sleeping and           *)
(* ChannelBlocked and touches no join keeps the invariant.                 *)
LEMMA KeepsJoins ==
  ASSUME IInv, ~halted, slots' \in Table,
         \A t \in Threads :
           /\ slots'[t].joiner = slots[t].joiner
           /\ slots'[t].detached = slots[t].detached
           /\ slots'[t].owner = slots[t].owner
           /\ \/ /\ slots'[t].state = slots[t].state
                 /\ slots[t].state = "JoinBlocked" => slots'[t].target = slots[t].target
              \/ {slots[t].state, slots'[t].state}
                   \subseteq {"Runnable", "Sleeping", "ChannelBlocked"},
         UNCHANGED <<current, cursor, join_out, halted>>
  PROVE  IInv'
<1>1. TypeOK'
  BY DEF IInv, TypeOK, Table
<1>2. In(slots', "Running") = In(slots, "Running")
      /\ In(slots', "JoinBlocked") = In(slots, "JoinBlocked")
  BY DEF In
<1>3. JoinPaired(slots')
  <2>1. \A u \in Threads : slots[u].state = "JoinBlocked" =>
          slots'[u].state = "JoinBlocked" /\ slots'[u].target = slots[u].target
    OBVIOUS
  <2>2. \A u \in Threads : slots'[u].state = "JoinBlocked" =>
          slots[u].state = "JoinBlocked" /\ slots'[u].target = slots[u].target
    OBVIOUS
  <2>3. \A u \in Threads : slots'[u].joiner = slots[u].joiner
           /\ slots'[u].detached = slots[u].detached /\ slots'[u].owner = slots[u].owner
    OBVIOUS
  <2>4. \A u \in Threads : slots'[u].state \in {"Empty", "Zombie"}
           => slots'[u].state = slots[u].state
    OBVIOUS
  <2> QED
    BY <2>1, <2>2, <2>3, <2>4, RunningState DEF JoinPaired
<1>4. JoinersOfInit(slots')
  BY RunningState DEF JoinersOfInit
<1>5. OneRunning' /\ JoinSymmetry' /\ JoinersOfInit(slots)'
  BY <1>2, <1>3, <1>4, RunningState
  DEF OneRunning, JoinSymmetry, In, JoinPaired, JoinersOfInit
<1> QED
  BY <1>1, <1>5 DEF IInv

(* Running the current thread on keeps its slot's joiner and owner. *)
LEMMA WaitAbortsInv == ASSUME IInv, WaitAborts PROVE IInv'
<1>1. ~halted /\ UNCHANGED <<current, cursor, join_out, halted>>
      /\ slots' = Move(Move(slots, current, "ChannelBlocked"), current, "Running")
  BY DEF WaitAborts, Blocked
<1> DEFINE b == InState(slots[current], "ChannelBlocked")
           r == InState(b, "Running")
<1>2. b \in ThreadSlot /\ b.joiner = slots[current].joiner
      /\ b.detached = slots[current].detached /\ b.owner = slots[current].owner
  BY <1>1, RunningState, InStateSlot DEF States
<1>3. r \in ThreadSlot /\ r.joiner = b.joiner /\ r.state = "Running"
      /\ r.detached = b.detached /\ r.owner = b.owner
  BY <1>2, InStateSlot DEF States
<1>4. slots' = [slots EXCEPT ![current] = r]
  BY <1>1, RunningState, Zenon DEF Move, Table
<1> HIDE DEF b, r
<1>5. slots' \in Table /\ slots'[current] = r
      /\ \A t \in Threads : t # current => slots'[t] = slots[t]
  BY <1>1, <1>3, <1>4, RunningState DEF Table
<1> QED
  BY <1>1, <1>2, <1>3, <1>5, RunningState, KeepsJoins

(* Waking waiters moves ChannelBlocked threads to Runnable. *)
LEMMA WokenSlots ==
  ASSUME NEW T \in Table, NEW W
  PROVE  /\ Woken(T, W) \in Table
         /\ \A t \in Threads :
              \/ Woken(T, W)[t] = T[t]
              \/ /\ T[t].state = "ChannelBlocked" /\ Woken(T, W)[t].state = "Runnable"
                 /\ Woken(T, W)[t].joiner = T[t].joiner
                 /\ Woken(T, W)[t].detached = T[t].detached
                 /\ Woken(T, W)[t].owner = T[t].owner
BY InStateSlot DEF Table, Woken, States

(* The waiters that are woken are no longer blocked. *)
LEMMA WokenStates ==
  ASSUME NEW T \in Table, NEW W, NEW t \in Threads
  PROVE  Woken(T, W)[t].state = "ChannelBlocked"
         <=> T[t].state = "ChannelBlocked" /\ t \notin W
<1>1. T[t] \in ThreadSlot
  BY DEF Table
<1>2. InState(T[t], "Runnable").state = "Runnable"
  BY <1>1, InStateSlot DEF States
<1> QED
  BY <1>2 DEF Woken

(* So does a send that wakes threads. *)
LEMMA WakeWaitersInv ==
  ASSUME IInv, NEW W \in SUBSET Threads, WakeWaiters(W) PROVE IInv'
BY WokenSlots, KeepsJoins, RunningState DEF WakeWaiters

(* So does the timer interrupt. *)
LEMMA TickInv == ASSUME IInv, Tick PROVE IInv'
<1>1. ~halted /\ UNCHANGED <<current, cursor, join_out, halted>> /\ slots' = Elapse(slots, 1)
  BY DEF Tick
<1>2. slots \in Table /\ \A t \in Threads : slots[t] \in ThreadSlot
  BY <1>1, RunningState
<1>3. slots' \in Table
  BY <1>1, <1>2, SchedulerConstants DEF Table, Elapse, ThreadSlot
<1>4. \A t \in Threads :
        /\ slots'[t].state = slots[t].state /\ slots'[t].target = slots[t].target
        /\ slots'[t].joiner = slots[t].joiner /\ slots'[t].detached = slots[t].detached
        /\ slots'[t].owner = slots[t].owner
  BY <1>1, <1>2 DEF Elapse, ThreadSlot
<1> QED
  BY <1>1, <1>3, <1>4, KeepsJoins

(* The two slots a join writes. *)
LEMMA JoinedSlots ==
  ASSUME IInv, ~halted, NEW target \in Threads, Joinable(target)
  PROVE  LET T == Joined(target)
         IN  /\ T \in Table
             /\ \A t \in Threads \ {target, current} : T[t] = slots[t]
             /\ T[target].joiner = current /\ T[target].state = slots[target].state
             /\ T[target].target = slots[target].target
             /\ T[target].detached = slots[target].detached
             /\ T[target].owner = slots[target].owner
             /\ T[current].state = "JoinBlocked" /\ T[current].target = target
             /\ T[current].joiner = slots[current].joiner
             /\ T[current].detached = slots[current].detached
             /\ T[current].owner = slots[current].owner
<1> DEFINE a == [slots[target] EXCEPT !.joiner = current]
           u == InState(slots[current], "JoinBlocked")
           b == [u EXCEPT !.target = target]
<1>0. target # current /\ current \in Threads /\ slots \in Table
      /\ slots[target] \in ThreadSlot /\ slots[current] \in ThreadSlot
  BY RunningState DEF Joinable
<1>1. a \in ThreadSlot /\ a.joiner = current /\ a.state = slots[target].state
      /\ a.target = slots[target].target /\ a.detached = slots[target].detached
      /\ a.owner = slots[target].owner
  BY <1>0 DEF ThreadSlot
<1>2. u \in ThreadSlot /\ u.state = "JoinBlocked" /\ u.joiner = slots[current].joiner
      /\ u.detached = slots[current].detached /\ u.owner = slots[current].owner
  BY <1>0, InStateSlot DEF States
<1>3. Joined(target) = [slots EXCEPT ![target] = a, ![current] = b]
  BY DEF Joined
<1> HIDE DEF a, u
<1>4. b \in ThreadSlot /\ b.state = "JoinBlocked" /\ b.target = target
      /\ b.joiner = u.joiner /\ b.detached = u.detached /\ b.owner = u.owner
  BY <1>2 DEF ThreadSlot
<1> HIDE DEF b
<1>5. Joined(target) \in Table
  BY <1>0, <1>1, <1>3, <1>4 DEF Table
<1>6. /\ Joined(target)[target] = a /\ Joined(target)[current] = b
      /\ \A t \in Threads \ {target, current} : Joined(target)[t] = slots[t]
  BY <1>0, <1>3 DEF Table
<1> QED
  BY <1>1, <1>2, <1>4, <1>5, <1>6

(* A join that blocks pairs its two threads. *)
LEMMA JoinBlocksInv ==
  ASSUME IInv, NEW target \in Threads, JoinBlocks(target) PROVE IInv'
<1> DEFINE T == Joined(target)
<1>1. ~halted /\ Joinable(target) /\ slots[target].state # "Zombie"
      /\ Reschedule(T, NO_THREAD) /\ Owner = INIT_PROCESS_ID
      /\ join_out' = join_out \cup {current} /\ halted' = halted
  BY DEF JoinBlocks, InitCalls
<1>2. /\ target # current /\ slots[target].owner = slots[current].owner
      /\ slots[target].state \notin {"Empty", "Zombie"} /\ ~slots[target].detached
      /\ slots[target].joiner = NO_THREAD
  BY <1>1 DEF Joinable, Owner
<1>3. T \in Table
  BY <1>1, JoinedSlots
<1>4. In(T, "Running") = {} /\ In(T, "JoinBlocked") = join_out \cup {current}
  BY <1>1, <1>2, JoinedSlots, RunningState DEF In
<1>5. JoinPaired(T)
  <2>1. ASSUME NEW t \in Threads, T[t].joiner # NO_THREAD
        PROVE  /\ T[T[t].joiner].state = "JoinBlocked" /\ T[T[t].joiner].target = t
               /\ T[t].state \notin {"Empty", "Zombie"} /\ ~T[t].detached
               /\ T[t].owner = T[T[t].joiner].owner
    <3>1. CASE t = target
      BY <1>1, <1>2, <3>1, JoinedSlots
    <3>2. CASE t # target
      <4> DEFINE j == slots[t].joiner
      <4>1. T[t].joiner = j /\ j \in Threads /\ slots[j].state = "JoinBlocked"
            /\ slots[j].target = t /\ slots[t].state \notin {"Empty", "Zombie"}
            /\ ~slots[t].detached /\ slots[t].owner = slots[j].owner
        BY <1>1, <2>1, <3>2, JoinedSlots, RunningState DEF JoinPaired
      <4>2. j # current
        BY <1>1, <4>1, RunningState
      <4> QED
        BY <1>1, <3>2, <4>1, <4>2, JoinedSlots, RunningState
    <3> QED
      BY <3>1, <3>2
  <2>2. ASSUME NEW t \in Threads, T[t].state = "JoinBlocked"
        PROVE  T[t].target \in Threads /\ T[T[t].target].joiner = t
    <3>1. CASE t = current
      BY <1>1, <3>1, JoinedSlots
    <3>2. CASE t # current
      <4>1. slots[t].state = "JoinBlocked" /\ T[t].target = slots[t].target
            /\ slots[t].target \in Threads /\ slots[slots[t].target].joiner = t
        BY <1>1, <2>2, <3>2, JoinedSlots, RunningState DEF JoinPaired
      <4>2. slots[t].target # target
        BY <1>2, <4>1, NoThreadIsNone
      <4> QED
        BY <1>1, <4>1, <4>2, JoinedSlots
    <3> QED
      BY <3>1, <3>2
  <2> QED
    BY <2>1, <2>2 DEF JoinPaired
<1>6. JoinersOfInit(T)
  BY <1>1, JoinedSlots, RunningState DEF JoinersOfInit, Owner
<1>7. IdleTable(T)
  BY <1>3, <1>4, <1>5, <1>6 DEF IdleTable
<1> HIDE DEF T
<1> QED
  BY <1>1, <1>4, <1>7, RescheduleRunsOne, DispatchInv

(* A join that is aborted leaves every thread as it was. *)
LEMMA AbortRestores ==
  ASSUME IInv, NEW target \in Threads, JoinAborts(target)
  PROVE  /\ slots' \in Table /\ join_out' = join_out
         /\ \A t \in Threads :
              /\ slots'[t].joiner = slots[t].joiner
              /\ slots'[t].detached = slots[t].detached
              /\ slots'[t].owner = slots[t].owner
              /\ slots'[t].state = slots[t].state
              /\ slots[t].state = "JoinBlocked" => slots'[t].target = slots[t].target
<1> DEFINE T == Joined(target)
           a == [T[target] EXCEPT !.joiner = NO_THREAD]
           U == [T EXCEPT ![target] = a]
           b == InState(U[current], "Running")
<1>1. ~halted /\ Joinable(target) /\ slots' = Move(U, current, "Running")
      /\ join_out' = join_out \ {current} /\ UNCHANGED <<current, cursor, halted>>
  BY DEF JoinAborts, InitCalls, Aborted
<1>2. target # current /\ slots[target].joiner = NO_THREAD /\ current \in Threads
  BY <1>1, RunningState DEF Joinable
<1>3. T \in Table /\ T[target] \in ThreadSlot
  BY <1>1, JoinedSlots DEF Table
<1> HIDE DEF T
<1>4. a \in ThreadSlot /\ a.joiner = NO_THREAD /\ a.state = T[target].state
      /\ a.target = T[target].target /\ a.detached = T[target].detached
      /\ a.owner = T[target].owner
  BY <1>3 DEF ThreadSlot
<1> HIDE DEF a
<1>5. U \in Table /\ U[target] = a /\ \A t \in Threads \ {target} : U[t] = T[t]
  BY <1>3, <1>4 DEF Table
<1> HIDE DEF U
<1>6. b \in ThreadSlot /\ b.state = "Running" /\ b.joiner = U[current].joiner
      /\ b.detached = U[current].detached /\ b.owner = U[current].owner
  BY <1>2, <1>5, InStateSlot DEF Table, States
<1>7. slots' = [U EXCEPT ![current] = b]
  BY <1>1 DEF Move
<1> HIDE DEF b
<1>8. slots' \in Table /\ slots'[current] = b
      /\ \A t \in Threads \ {current} : slots'[t] = U[t]
  BY <1>2, <1>5, <1>6, <1>7 DEF Table
<1>9. join_out' = join_out
  BY <1>1, RunningState DEF In
<1>10. \A t \in Threads :
         /\ slots'[t].joiner = slots[t].joiner
         /\ slots'[t].detached = slots[t].detached
         /\ slots'[t].owner = slots[t].owner
         /\ slots'[t].state = slots[t].state
         /\ slots[t].state = "JoinBlocked" => slots'[t].target = slots[t].target
  BY <1>1, <1>2, <1>4, <1>5, <1>6, <1>8, JoinedSlots, RunningState DEF T
<1> QED
  BY <1>8, <1>9, <1>10

(* So its joins stay paired. *)
LEMMA JoinAbortsInv ==
  ASSUME IInv, NEW target \in Threads, JoinAborts(target) PROVE IInv'
BY AbortRestores, KeepsJoins DEF JoinAborts, InitCalls

(* The table an exiting thread leaves: its join, if any, is over. *)
LEMMA ExitedIdle ==
  ASSUME IInv, ~halted
  PROVE  /\ IdleTable(Exited)
         /\ In(Exited, "JoinBlocked") = join_out \ {slots[current].joiner}
<1> DEFINE j == slots[current].joiner
           X == Exited
<1>1. CASE j # NO_THREAD
  <2>1. j \in Threads /\ slots[j].state = "JoinBlocked" /\ slots[j].target = current
        /\ j # current /\ current \in Threads /\ slots \in Table
    BY <1>1, RunningState DEF JoinPaired
  <2> DEFINE r == InState(slots[j], "Runnable")
  <2>2. r \in ThreadSlot /\ r.state = "Runnable" /\ r.joiner = slots[j].joiner
        /\ r.detached = slots[j].detached /\ r.owner = slots[j].owner
    BY <2>1, RunningState, InStateSlot DEF States
  <2>3. X = [slots EXCEPT ![current] = EMPTY, ![j] = r]
    BY <1>1, <2>1, RunningState DEF Exited, Move, Table
  <2> HIDE DEF r
  <2>4. X \in Table /\ X[current] = EMPTY /\ X[j] = r
        /\ \A t \in Threads \ {current, j} : X[t] = slots[t]
    BY <2>1, <2>2, <2>3, EmptySlot DEF Table
  <2> HIDE DEF X
  <2>5. In(X, "Running") = {} /\ In(X, "JoinBlocked") = join_out \ {j}
    BY <2>1, <2>2, <2>4, EmptySlot, RunningState DEF In
  <2>6. JoinPaired(X)
    <3>1. ASSUME NEW t \in Threads, X[t].joiner # NO_THREAD
          PROVE  /\ X[X[t].joiner].state = "JoinBlocked" /\ X[X[t].joiner].target = t
                 /\ X[t].state \notin {"Empty", "Zombie"} /\ ~X[t].detached
                 /\ X[t].owner = X[X[t].joiner].owner
      <4> DEFINE i == slots[t].joiner
      <4>1. t # current /\ X[t].joiner = i
        BY <2>2, <2>4, <3>1, EmptySlot
      <4>2. i \in Threads /\ slots[i].state = "JoinBlocked" /\ slots[i].target = t
            /\ slots[t].state \notin {"Empty", "Zombie"} /\ ~slots[t].detached
            /\ slots[t].owner = slots[i].owner
        BY <3>1, <4>1, RunningState DEF JoinPaired
      <4>3. i \notin {current, j}
        BY <2>1, <4>1, <4>2, RunningState
      <4> QED
        BY <2>2, <2>4, <4>1, <4>2, <4>3
    <3>2. ASSUME NEW t \in Threads, X[t].state = "JoinBlocked"
          PROVE  X[t].target \in Threads /\ X[X[t].target].joiner = t
      <4>1. t \notin {current, j} /\ X[t] = slots[t]
        BY <2>2, <2>4, <3>2, EmptySlot
      <4>2. slots[t].target \in Threads /\ slots[slots[t].target].joiner = t
        BY <3>2, <4>1, RunningState DEF JoinPaired
      <4> QED
        BY <2>2, <2>4, <4>1, <4>2
    <3> QED
      BY <3>1, <3>2 DEF JoinPaired
  <2>7. JoinersOfInit(X)
    BY <2>2, <2>4, EmptySlot, RunningState DEF JoinersOfInit
  <2> QED
    BY <2>4, <2>5, <2>6, <2>7 DEF IdleTable, X
<1>2. CASE j = NO_THREAD
  <2> DEFINE s == IF slots[current].detached THEN EMPTY
                  ELSE InState(slots[current], "Zombie")
  <2>1. s \in ThreadSlot /\ s.state \in {"Empty", "Zombie"} /\ s.joiner = NO_THREAD
    BY <1>2, RunningState, EmptySlot, InStateSlot DEF States
  <2>2. X = [slots EXCEPT ![current] = s]
    <3>1. X = [slots EXCEPT ![current] =
                 IF j # NO_THREAD \/ slots[current].detached
                 THEN EMPTY ELSE InState(slots[current], "Zombie")]
      BY <1>2 DEF Exited
    <3> QED
      BY <1>2, <3>1
  <2> HIDE DEF s
  <2>3. X \in Table /\ X[current] = s
        /\ \A t \in Threads \ {current} : X[t] = slots[t]
    BY <2>1, <2>2, RunningState DEF Table
  <2> HIDE DEF X
  <2>4. In(X, "Running") = {} /\ In(X, "JoinBlocked") = join_out \ {j}
    <3>1. \A t \in Threads : X[t].state # "Running"
      BY <2>1, <2>3, RunningState DEF In
    <3>2. \A t \in Threads : X[t].state = "JoinBlocked" <=> slots[t].state = "JoinBlocked"
      BY <2>1, <2>3, RunningState
    <3>3. join_out \ {j} = join_out
      BY <1>2, NoThreadIsNone, RunningState
    <3> QED
      BY <3>1, <3>2, <3>3, RunningState DEF In
  <2>5. JoinPaired(X)
    <3>1. ASSUME NEW t \in Threads, X[t].joiner # NO_THREAD
          PROVE  /\ X[X[t].joiner].state = "JoinBlocked" /\ X[X[t].joiner].target = t
                 /\ X[t].state \notin {"Empty", "Zombie"} /\ ~X[t].detached
                 /\ X[t].owner = X[X[t].joiner].owner
      <4> DEFINE i == slots[t].joiner
      <4>1. t # current /\ X[t] = slots[t]
        BY <2>1, <2>3, <3>1
      <4>2. i \in Threads /\ slots[i].state = "JoinBlocked" /\ slots[i].target = t
            /\ slots[t].state \notin {"Empty", "Zombie"} /\ ~slots[t].detached
            /\ slots[t].owner = slots[i].owner
        BY <3>1, <4>1, RunningState DEF JoinPaired
      <4>3. i # current /\ X[i] = slots[i]
        BY <2>3, <4>2, RunningState
      <4> QED
        BY <4>1, <4>2, <4>3
    <3>2. ASSUME NEW t \in Threads, X[t].state = "JoinBlocked"
          PROVE  X[t].target \in Threads /\ X[X[t].target].joiner = t
      <4>1. t # current /\ X[t] = slots[t]
        BY <2>1, <2>3, <3>2
      <4>2. slots[t].target \in Threads /\ slots[slots[t].target].joiner = t
        BY <3>2, <4>1, RunningState DEF JoinPaired
      <4>3. slots[t].target # current
        BY <1>2, <4>2, NoThreadIsNone
      <4> QED
        BY <2>3, <4>1, <4>2, <4>3
    <3> QED
      BY <3>1, <3>2 DEF JoinPaired
  <2>6. JoinersOfInit(X)
    BY <2>1, <2>3, RunningState DEF JoinersOfInit
  <2> QED
    BY <2>3, <2>4, <2>5, <2>6 DEF IdleTable, X
<1> QED
  BY <1>1, <1>2

(* A halt with no thread running keeps the table's joins paired. *)
LEMMA HaltIdle ==
  ASSUME IInv, NEW T, IdleTable(T), slots' = T, halted' = TRUE,
         UNCHANGED <<current, cursor>>, join_out' = In(T, "JoinBlocked")
  PROVE  IInv'
<1>1. TypeOK'
  BY DEF IInv, TypeOK, IdleTable, Table, In
<1>2. OneRunning' /\ JoinSymmetry' /\ JoinersOfInit(slots)'
  BY DEF IdleTable, OneRunning, JoinSymmetry, In, JoinPaired, JoinersOfInit
<1> QED
  BY <1>1, <1>2 DEF IInv

(* thread_exit preserves the invariant. *)
LEMMA ExitInv == ASSUME IInv, thread_exit PROVE IInv'
<1>1. ~halted /\ join_out' = join_out \ {slots[current].joiner}
  BY DEF thread_exit, InitCalls
<1>2. IdleTable(Exited) /\ In(Exited, "JoinBlocked") = join_out'
  BY <1>1, ExitedIdle
<1>3. CASE Reschedule(Exited, slots[current].joiner) /\ UNCHANGED halted
  BY <1>2, <1>3, RescheduleRunsOne, DispatchInv
<1>4. CASE slots' = Exited /\ halted' = TRUE /\ UNCHANGED <<current, cursor>>
  BY <1>2, <1>4, HaltIdle
<1> QED
  BY <1>3, <1>4, Zenon DEF thread_exit

(* Removing the threads of an isolated process breaks no join: only        *)
(* threads of init join, and only threads of their own process.            *)
LEMMA RemovedIdle ==
  ASSUME IInv, ~halted, Owner # INIT_PROCESS_ID, NEW W
  PROVE  LET X == Removed(Woken(slots, W))
         IN  IdleTable(X) /\ In(X, "JoinBlocked") = join_out
<1> DEFINE V == Woken(slots, W)
           X == Removed(V)
<1>1. V \in Table /\ \A t \in Threads :
        \/ V[t] = slots[t]
        \/ /\ slots[t].state = "ChannelBlocked" /\ V[t].state = "Runnable"
           /\ V[t].joiner = slots[t].joiner /\ V[t].detached = slots[t].detached
           /\ V[t].owner = slots[t].owner
  BY WokenSlots, RunningState
<1> HIDE DEF V
<1>2. X \in Table
  BY <1>1, EmptySlot DEF Removed, Table
<1>3. \A t \in Threads :
        \/ X[t] = V[t]
        \/ X[t] = EMPTY /\ slots[t].owner = Owner
  BY <1>1 DEF Removed
<1>4. X[current] = EMPTY
  BY <1>1, RunningState DEF Removed, Owner
<1> HIDE DEF X
<1>5. \A t \in Threads : slots[t].owner = Owner =>
        slots[t].state # "JoinBlocked" /\ slots[t].joiner = NO_THREAD
  BY RunningState DEF JoinPaired, JoinersOfInit
<1>6. \A t \in Threads : X[t].joiner = slots[t].joiner
  BY <1>1, <1>3, <1>5, EmptySlot
<1>7. \A t \in Threads : X[t].state = "JoinBlocked" \/ slots[t].state = "JoinBlocked"
        => X[t] = slots[t]
  BY <1>1, <1>3, <1>5, EmptySlot
<1>8. \A t \in Threads : X[t].joiner # NO_THREAD =>
        /\ X[t].detached = slots[t].detached /\ X[t].owner = slots[t].owner
        /\ X[t].state \in {"Empty", "Zombie"} => X[t].state = slots[t].state
  BY <1>1, <1>3, <1>5, <1>6, EmptySlot
<1>9. In(X, "Running") = {}
  BY <1>1, <1>3, <1>4, EmptySlot, RunningState DEF In
<1>10. In(X, "JoinBlocked") = join_out
  BY <1>7, RunningState DEF In
<1>11. JoinPaired(X)
  BY <1>6, <1>7, <1>8, RunningState DEF JoinPaired
<1>12. JoinersOfInit(X)
  BY <1>7, RunningState DEF JoinersOfInit
<1> QED
  BY <1>2, <1>9, <1>10, <1>11, <1>12 DEF IdleTable, X, V

(* So does the end of an isolated process. *)
LEMMA TerminateInv ==
  ASSUME IInv, NEW W, TerminateProcess(W) PROVE IInv'
<1> DEFINE X == Removed(Woken(slots, W))
<1>1. ~halted /\ Owner # INIT_PROCESS_ID /\ join_out' = join_out
  BY DEF TerminateProcess
<1>2. IdleTable(X) /\ In(X, "JoinBlocked") = join_out'
  BY <1>1, RemovedIdle
<1>3. \/ Reschedule(X, NO_THREAD) /\ UNCHANGED halted
      \/ slots' = X /\ halted' = TRUE /\ UNCHANGED <<current, cursor>>
  BY DEF TerminateProcess
<1> HIDE DEF X
<1>4. CASE Reschedule(X, NO_THREAD) /\ UNCHANGED halted
  BY <1>2, <1>4, RescheduleRunsOne, DispatchInv
<1>5. CASE slots' = X /\ halted' = TRUE /\ UNCHANGED <<current, cursor>>
  BY <1>2, <1>5, HaltIdle
<1> QED
  BY <1>3, <1>4, <1>5, Zenon

(* So does the halt that follows the exit of init. *)
LEMMA HaltInitInv == ASSUME IInv, HaltInit PROVE IInv'
BY DEF HaltInit, IInv, TypeOK, OneRunning, JoinSymmetry, JoinPaired,
       JoinersOfInit, In

(* A step that leaves the thread table alone preserves the invariant. *)
LEMMA StutterInv == ASSUME IInv, UNCHANGED vars PROVE IInv'
BY DEF vars, IInv, TypeOK, OneRunning, JoinSymmetry, JoinPaired,
       JoinersOfInit, In

(* The inductive step, one case per syscall. *)
LEMMA InvNext == IInv /\ [Next]_vars => IInv'
<1> SUFFICES ASSUME IInv, [Next]_vars PROVE IInv'
  OBVIOUS
<1>1. CASE Switch
  BY <1>1, YieldInv, SleepInv, WaitBlocksInv DEF Switch
<1>2. CASE Wakes
  BY <1>2, WakeWaitersInv DEF Wakes
<1>3. ASSUME NEW d \in BOOLEAN, thread_create(d) PROVE IInv'
  <2>1. ~halted /\ allocate_for_process(INIT_PROCESS_ID, d)
    BY <1>3 DEF thread_create, InitCalls
  <2> QED
    BY <2>1, AllocateInv
<1>4. CASE Tick
  BY <1>4, TickInv
<1>5. CASE NextJoin
  BY <1>5, JoinCompletedInv, JoinBlocksInv, JoinAbortsInv, DetachInv, ExitInv
  DEF NextJoin
<1>6. CASE WaitAborts
  BY <1>6, WaitAbortsInv
<1>7. ASSUME NEW p \in Isolated, SpawnThread(p) PROVE IInv'
  <2>1. ~halted /\ allocate_for_process(p, FALSE)
    BY <1>7, Zenon DEF SpawnThread, InitCalls
  <2> QED
    BY <2>1, AllocateInv, Zenon
<1>8. ASSUME NEW W \in SUBSET Threads, TerminateProcess(W) PROVE IInv'
  BY <1>8, TerminateInv
<1>9. CASE HaltInit
  BY <1>9, HaltInitInv
<1>10. CASE UNCHANGED vars
  BY <1>10, StutterInv
<1> QED
  BY <1>1, <1>2, <1>3, <1>4, <1>5, <1>6, <1>7, <1>8, <1>9, <1>10
  DEF Next, NextNoJoin

(* The inductive invariant holds in every reachable state. *)
LEMMA InvAlways == Spec => []IInv
BY InvInit, InvNext, PTL DEF Spec

(* The thread table keeps its types (BootstrapUserThreads). *)
THEOREM TypeCorrect == Spec => []TypeOK
<1>1. IInv => TypeOK
  BY DEF IInv
<1> QED
  BY <1>1, InvAlways, PTL

(* One thread runs while the kernel does, for any number of slots:         *)
(* select_runnable_prefer and the aborts of the blocking syscalls.         *)
THEOREM ExactlyOneRunning == Spec => []OneRunning
<1>1. IInv => OneRunning
  BY DEF IInv
<1> QED
  BY <1>1, InvAlways, PTL

(* Joins stay recorded on both sides: join_current, abort_blocked_join,    *)
(* detach, exit_current and exit_process together.                         *)
THEOREM JoinsPaired == Spec => []JoinSymmetry
<1>1. IInv => JoinSymmetry
  BY DEF IInv
<1> QED
  BY <1>1, InvAlways, PTL

(* If the scan from c meets n before t, then t is nearer after n than it   *)
(* was after c.                                                            *)
LEMMA Nearer ==
  ASSUME NEW c \in Threads, NEW n \in Threads, NEW t \in Threads,
         n # c, n # t, offset(c, n) <= offset(c, t)
  PROVE  offset(n, t) < offset(c, t)
BY SchedulerConstants DEF offset, Threads, NO_THREAD

(* A selection overtakes no thread that was runnable in its table. *)
LEMMA SelectIsFair ==
  ASSUME NEW T \in Table, NEW p, select_runnable_prefer(T, p), cursor \in Threads,
         NEW t \in Threads, T[t].state = "Runnable", slots'[t].state = "Runnable",
         cursor' # cursor, cursor' # p
  PROVE  offset(cursor', t) < offset(cursor, t)
<1> DEFINE W == wake_expired(T)
<1>1. PICK n \in In(W, "Runnable") :
        /\ IF p \in In(W, "Runnable") THEN n = p ELSE FirstAfterCursor(In(W, "Runnable"), n)
        /\ slots' = Move(W, n, "Running") /\ cursor' = n
  BY DEF select_runnable_prefer
<1>2. W[t] = T[t] /\ t \in In(W, "Runnable")
  BY DEF wake_expired, In
<1>3. W = [u \in Threads |-> W[u]]
  BY DEF wake_expired
<1> HIDE DEF W
<1>4. n \in Threads /\ slots'[n].state = "Running"
  BY <1>1, <1>3 DEF In, Move, InState
<1>5. offset(cursor, n) <= offset(cursor, t)
  BY <1>1, <1>2 DEF FirstAfterCursor
<1> QED
  BY <1>1, <1>4, <1>5, Nearer

(* Nor does a selection that had to wait for a sleeper. *)
LEMMA RescheduleIsFair ==
  ASSUME NEW T \in Table, NEW p, Reschedule(T, p), cursor \in Threads,
         NEW t \in Threads, T[t].state = "Runnable", slots'[t].state = "Runnable",
         cursor' # cursor, cursor' # p
  PROVE  offset(cursor', t) < offset(cursor, t)
<1>1. CASE select_runnable_prefer(T, p)
  BY <1>1, SelectIsFair
<1>2. CASE wait_until_runnable(T)
  <2>1. In(wake_expired(T), "Runnable") = {}
    BY <1>2 DEF wait_until_runnable
  <2>2. t \in In(wake_expired(T), "Runnable")
    BY DEF wake_expired, In
  <2> QED
    BY <2>1, <2>2
<1> QED
  BY <1>1, <1>2 DEF Reschedule

(* A dispatch fills no empty slot. *)
LEMMA EmptyStays ==
  ASSUME NEW T \in Table, NEW p, Reschedule(T, p),
         NEW t \in Threads, T[t].state = "Empty"
  PROVE  slots'[t].state = "Empty"
<1>1. ASSUME NEW U \in Table, NEW q, select_runnable_prefer(U, q), U[t].state = "Empty"
      PROVE  slots'[t].state = "Empty"
  <2> DEFINE W == wake_expired(U)
  <2>1. PICK n \in In(W, "Runnable") : slots' = Move(W, n, "Running")
    BY <1>1 DEF select_runnable_prefer
  <2>2. W[t] = U[t] /\ W = [u \in Threads |-> W[u]]
    BY <1>1 DEF wake_expired
  <2> HIDE DEF W
  <2> QED
    BY <1>1, <2>1, <2>2 DEF In, Move
<1>2. CASE select_runnable_prefer(T, p)
  BY <1>1, <1>2
<1>3. CASE wait_until_runnable(T)
  <2>1. PICK d \in 1 .. MaxSleep : select_runnable_prefer(Elapse(T, d), NO_THREAD)
    BY <1>3 DEF wait_until_runnable
  <2>2. Elapse(T, d) \in Table /\ Elapse(T, d)[t] = T[t]
    BY SchedulerConstants DEF Elapse, Table, ThreadSlot
  <2> QED
    BY <1>1, <2>1, <2>2
<1> QED
  BY <1>2, <1>3 DEF Reschedule

(* A step of the scheduler overtakes no runnable thread, the hand-off to a *)
(* joiner apart (select_runnable_prefer).                                  *)
LEMMA StepIsFair ==
  ASSUME IInv, [Next]_vars, NEW t \in Threads, slots[t].state = "Runnable",
         slots'[t].state = "Runnable", cursor' # cursor,
         cursor' # slots[current].joiner
  PROVE  offset(cursor', t) < offset(cursor, t)
<1>1. ~halted
  BY Zenon DEF Next, NextNoJoin, NextJoin, Switch, Wakes, thread_yield, thread_sleep,
         WaitBlocks, WakeWaiters, thread_create, InitCalls, Tick, JoinCompleted,
         JoinBlocks, JoinAborts, thread_detach, thread_exit, WaitAborts,
         SpawnThread, TerminateProcess, HaltInit, vars
<1>2. cursor \in Threads /\ cursor' \in Threads /\ t # current /\ slots \in Table
      /\ current \in Threads
  BY <1>1, RunningState, InvNext DEF IInv, TypeOK
<1>3. cursor' # NO_THREAD
  BY <1>2, NoThreadIsNone
<1>4. PICK T, p : /\ T \in Table /\ Reschedule(T, p)
                  /\ T[t].state = "Runnable" /\ cursor' # p
  <2>1. CASE thread_yield
    <3> DEFINE T == Move(slots, current, "Runnable")
    <3>1. T \in Table /\ T[t] = slots[t]
      BY <1>2, InStateSlot DEF Move, Table, States
    <3> QED
      BY <1>3, <2>1, <3>1 DEF thread_yield
  <2>2. ASSUME NEW k \in 1 .. MaxSleep, thread_sleep(k)
        PROVE  \E T, p : /\ T \in Table /\ Reschedule(T, p)
                         /\ T[t].state = "Runnable" /\ cursor' # p
    <3> DEFINE u == InState(slots[current], "Sleeping")
               s == [u EXCEPT !.ticks = k]
               T == [slots EXCEPT ![current] = s]
    <3>1. u \in ThreadSlot
      BY <1>2, InStateSlot DEF Table, States
    <3>2. Reschedule(T, NO_THREAD)
      BY <2>2 DEF thread_sleep
    <3> HIDE DEF u
    <3>3. s \in ThreadSlot
      BY <3>1, SchedulerConstants DEF ThreadSlot
    <3> HIDE DEF s
    <3>4. T \in Table /\ T[t] = slots[t]
      BY <1>2, <3>3 DEF Table
    <3> QED
      BY <1>3, <3>2, <3>4, Zenon
  <2>3. CASE WaitBlocks
    <3>1. Blocked \in Table /\ Blocked[t] = slots[t]
      BY <1>2, InStateSlot DEF Blocked, Move, Table, States
    <3> QED
      BY <1>3, <2>3, <3>1 DEF WaitBlocks
  <2>4. ASSUME NEW target \in Threads, JoinBlocks(target)
        PROVE  \E T, p : /\ T \in Table /\ Reschedule(T, p)
                         /\ T[t].state = "Runnable" /\ cursor' # p
    <3>1. Joinable(target) /\ Reschedule(Joined(target), NO_THREAD)
      BY <2>4 DEF JoinBlocks
    <3>2. Joined(target) \in Table /\ Joined(target)[t].state = "Runnable"
      BY <1>1, <1>2, <3>1, JoinedSlots
    <3> QED
      BY <1>3, <3>1, <3>2
  <2>5. CASE thread_exit
    <3>1. Reschedule(Exited, slots[current].joiner)
      BY <2>5 DEF thread_exit
    <3>2. Exited \in Table
      BY <1>1, ExitedIdle DEF IdleTable
    <3>3. Exited[t].state = "Runnable"
      BY <1>2 DEF Exited, Move, InState, Table
    <3> QED
      BY <3>1, <3>2, <3>3
  <2>6. ASSUME NEW W \in SUBSET Threads, TerminateProcess(W)
        PROVE  \E T, p : /\ T \in Table /\ Reschedule(T, p)
                         /\ T[t].state = "Runnable" /\ cursor' # p
    <3> DEFINE X == Removed(Woken(slots, W))
    <3>1. Reschedule(X, NO_THREAD)
      BY <2>6 DEF TerminateProcess
    <3>2. X \in Table
      BY <1>1, <2>6, RemovedIdle DEF IdleTable, TerminateProcess
    <3>3. X[t].state = "Runnable"
      <4>1. X[t] \in {slots[t], EMPTY}
        BY <1>2 DEF Removed, Woken
      <4>2. CASE X[t] = EMPTY
        BY <3>1, <3>2, <4>2, EmptySlot, EmptyStays
      <4> QED
        BY <4>1, <4>2
    <3> QED
      BY <1>3, <3>1, <3>2, <3>3
  <2> QED
    BY <2>1, <2>2, <2>3, <2>4, <2>5, <2>6, Zenon
    DEF Next, NextNoJoin, NextJoin, Switch, Wakes, WakeWaiters, thread_create,
        allocate_for_process, Tick, JoinCompleted, JoinAborts, thread_detach,
        WaitAborts, SpawnThread, HaltInit, vars
<1> QED
  BY <1>2, <1>4, RescheduleIsFair

(* Round robin overtakes nobody in any behaviour, whatever mix of yields,  *)
(* sleeps, waits, joins and process exits the threads make                 *)
(* (select_runnable_prefer).                                               *)
THEOREM RoundRobinOvertakesNobody == Spec => NoOvertaking
<1>1. IInv /\ [Next]_vars =>
        [\A t \in Threads :
           /\ slots[t].state = "Runnable" /\ slots'[t].state = "Runnable"
           /\ cursor' # cursor
           /\ cursor' # slots[current].joiner
           => offset(cursor', t) < offset(cursor, t)]_vars
  BY StepIsFair
<1> QED
  BY <1>1, InvAlways, PTL DEF Spec, NoOvertaking

-----------------------------------------------------------------------------
(* Who is blocked and whose threads the slots hold: what the kernel's      *)
(* other tables have to agree with.                                        *)

IsolatedIn(T, t) == T[t].state # "Empty" /\ T[t].owner # INIT_PROCESS_ID

(* Slot 0 is init's first thread, and an isolated process has one thread.  *)
Lodging(T) ==
  /\ T[0].state # "Empty" /\ T[0].owner = INIT_PROCESS_ID
  /\ \A t, u \in Threads :
       IsolatedIn(T, t) /\ IsolatedIn(T, u) /\ T[t].owner = T[u].owner => t = u

(* From T to U nobody starts or stops waiting for a message or an exit,    *)
(* and no isolated process gains or loses a thread.                        *)
Steady(T, U) ==
  /\ \A t \in Threads :
       /\ U[t].state = "ChannelBlocked" <=> T[t].state = "ChannelBlocked"
       /\ IsolatedIn(U, t) <=> IsolatedIn(T, t)
       /\ IsolatedIn(T, t) => U[t].owner = T[t].owner
  /\ T[0].state # "Empty" /\ T[0].owner = INIT_PROCESS_ID
       => U[0].state # "Empty" /\ U[0].owner = INIT_PROCESS_ID

(* Slot 0 exists. *)
LEMMA ZeroIsThread == 0 \in Threads
BY SchedulerConstants DEF Threads, NO_THREAD

(* Steadiness passes from step to step. *)
LEMMA SteadyTrans ==
  ASSUME NEW T, NEW U, NEW V, Steady(T, U), Steady(U, V) PROVE Steady(T, V)
BY DEF Steady

(* A steady step keeps the lodging. *)
LEMMA SteadyLodging ==
  ASSUME NEW T, NEW U, Lodging(T), Steady(T, U) PROVE Lodging(U)
BY DEF Steady, Lodging

(* A slot whose thread stays what it is to the other tables. *)
LEMMA SteadySlots ==
  ASSUME NEW T, NEW U,
         \A t \in Threads :
           \/ U[t] = T[t]
           \/ /\ U[t].owner = T[t].owner
              /\ T[t].state \notin {"Empty", "ChannelBlocked"}
              /\ U[t].state \notin {"Empty", "ChannelBlocked"}
  PROVE  Steady(T, U)
BY ZeroIsThread DEF Steady, IsolatedIn

(* Who waits and who has a thread, as the other tables see it. *)
Lodgers(T) == {<<t, T[t].owner>> : t \in {u \in Threads : IsolatedIn(T, u)}}

(* A steady step changes neither. *)
LEMMA SteadyMeans ==
  ASSUME NEW T, NEW U, Steady(T, U)
  PROVE  In(U, "ChannelBlocked") = In(T, "ChannelBlocked") /\ Lodgers(U) = Lodgers(T)
BY DEF Steady, In, Lodgers

(* Waking the expired sleepers is steady. *)
LEMMA WakeSteady ==
  ASSUME NEW T \in Table
  PROVE  wake_expired(T) \in Table /\ Steady(T, wake_expired(T))
<1>1. \A t \in Threads : T[t] \in ThreadSlot
  BY DEF Table
<1>2. \A t \in Threads : \/ wake_expired(T)[t] = T[t]
                         \/ /\ T[t].state = "Sleeping"
                            /\ wake_expired(T)[t].state = "Runnable"
                            /\ wake_expired(T)[t].owner = T[t].owner
  BY <1>1, InStateSlot DEF wake_expired, States
<1>3. wake_expired(T) \in Table
  BY <1>1, InStateSlot DEF wake_expired, Table, States
<1> QED
  BY <1>2, <1>3, SteadySlots

(* So is the passing of time. *)
LEMMA ElapseSteady ==
  ASSUME NEW T \in Table, NEW d \in Nat
  PROVE  Elapse(T, d) \in Table /\ Steady(T, Elapse(T, d))
<1>1. \A t \in Threads : \/ Elapse(T, d)[t] = T[t]
                         \/ /\ T[t].state = "Sleeping"
                            /\ Elapse(T, d)[t].state = "Sleeping"
                            /\ Elapse(T, d)[t].owner = T[t].owner
  BY DEF Elapse, Table, ThreadSlot
<1>2. Elapse(T, d) \in Table
  BY SchedulerConstants DEF Table, Elapse, ThreadSlot
<1> QED
  BY <1>1, <1>2, SteadySlots

(* So is handing the processor to a runnable thread. *)
LEMMA RunSteady ==
  ASSUME NEW W \in Table, NEW n \in In(W, "Runnable") PROVE Steady(W, Move(W, n, "Running"))
<1>1. n \in Threads /\ W[n].state = "Runnable" /\ W[n] \in ThreadSlot
  BY DEF In, Table
<1>2. \A t \in Threads : IF t = n THEN /\ Move(W, n, "Running")[t].state = "Running"
                                       /\ Move(W, n, "Running")[t].owner = W[t].owner
                                  ELSE Move(W, n, "Running")[t] = W[t]
  BY <1>1, InStateSlot DEF Move, Table, States
<1> QED
  BY <1>1, <1>2, SteadySlots

(* So is a selection. *)
LEMMA SelectSteady ==
  ASSUME NEW T \in Table, NEW p, select_runnable_prefer(T, p) PROVE Steady(T, slots')
<1> DEFINE W == wake_expired(T)
<1>1. PICK n \in In(W, "Runnable") : slots' = Move(W, n, "Running")
  BY DEF select_runnable_prefer
<1> QED
  BY <1>1, WakeSteady, RunSteady, SteadyTrans

(* So is all of a reschedule, the idle wait included. *)
LEMMA RescheduleSteady ==
  ASSUME NEW T \in Table, NEW p, Reschedule(T, p) PROVE Steady(T, slots')
<1>1. CASE select_runnable_prefer(T, p)
  BY <1>1, SelectSteady
<1>2. CASE wait_until_runnable(T)
  <2>1. PICK d \in 1 .. MaxSleep : select_runnable_prefer(Elapse(T, d), NO_THREAD)
    BY <1>2 DEF wait_until_runnable
  <2> QED
    BY <2>1, ElapseSteady, SelectSteady, SteadyTrans, SchedulerConstants
<1> QED
  BY <1>1, <1>2 DEF Reschedule

(* A running thread that becomes runnable, sleeps or waits in a join. *)
LEMMA LeaveSteady ==
  ASSUME IInv, ~halted, NEW s \in ThreadSlot, s.owner = slots[current].owner,
         s.state \notin {"Empty", "ChannelBlocked"}
  PROVE  LET T == [slots EXCEPT ![current] = s] IN T \in Table /\ Steady(slots, T)
<1> DEFINE T == [slots EXCEPT ![current] = s]
<1>1. slots \in Table /\ current \in Threads /\ slots[current].state = "Running"
  BY RunningState
<1>2. T \in Table /\ T[current] = s /\ \A t \in Threads : t # current => T[t] = slots[t]
  BY <1>1 DEF Table
<1> HIDE DEF T
<1>3. Steady(slots, T)
  BY <1>1, <1>2, SteadySlots
<1> QED
  BY <1>2, <1>3 DEF T

(* A yield, a sleep and a timer interrupt are steady. *)
LEMMA SwitchSteady ==
  ASSUME IInv,
         thread_yield \/ (\E k \in 1 .. MaxSleep : thread_sleep(k)) \/ Tick
  PROVE  Steady(slots, slots')
<1>0. ~halted
  BY Zenon DEF thread_yield, thread_sleep, Tick
<1>1. CASE thread_yield
  <2> DEFINE s == InState(slots[current], "Runnable")
             T == [slots EXCEPT ![current] = s]
  <2>1. s \in ThreadSlot /\ s.state = "Runnable" /\ s.owner = slots[current].owner
    BY <1>0, RunningState, InStateSlot DEF States
  <2>2. Reschedule(T, NO_THREAD)
    BY <1>1 DEF thread_yield, Move
  <2> HIDE DEF s
  <2>3. T \in Table /\ Steady(slots, T)
    BY <1>0, <2>1, LeaveSteady
  <2> HIDE DEF T
  <2> QED
    BY <2>2, <2>3, RescheduleSteady, SteadyTrans
<1>2. ASSUME NEW k \in 1 .. MaxSleep, thread_sleep(k) PROVE Steady(slots, slots')
  <2> DEFINE u == InState(slots[current], "Sleeping")
             s == [u EXCEPT !.ticks = k]
             T == [slots EXCEPT ![current] = s]
  <2>1. u \in ThreadSlot /\ u.state = "Sleeping" /\ u.owner = slots[current].owner
    BY <1>0, RunningState, InStateSlot DEF States
  <2>2. Reschedule(T, NO_THREAD)
    BY <1>2 DEF thread_sleep
  <2> HIDE DEF u
  <2>3. s \in ThreadSlot /\ s.state = u.state /\ s.owner = u.owner
    BY <2>1, SchedulerConstants DEF ThreadSlot
  <2> HIDE DEF s
  <2>4. T \in Table /\ Steady(slots, T)
    BY <1>0, <2>1, <2>3, LeaveSteady
  <2> HIDE DEF T
  <2> QED
    BY <2>2, <2>4, RescheduleSteady, SteadyTrans
<1>3. CASE Tick
  BY <1>0, <1>3, ElapseSteady, RunningState DEF Tick
<1> QED
  BY <1>1, <1>2, <1>3

(* A new thread of init, and the end of one that is joined or detached. *)
LEMMA InitSlotSteady ==
  ASSUME slots \in Table, NEW t \in Threads \ {0}, NEW s \in ThreadSlot,
         slots[t].state = "Empty" \/ slots[t].owner = INIT_PROCESS_ID,
         s.owner = INIT_PROCESS_ID,
         s.state = slots[t].state \/ "ChannelBlocked" \notin {s.state, slots[t].state},
         slots' = [slots EXCEPT ![t] = s]
  PROVE  Steady(slots, slots')
<1>1. slots'[t] = s /\ \A u \in Threads : u # t => slots'[u] = slots[u]
  BY DEF Table
<1> QED
  BY <1>1, ZeroIsThread DEF Steady, IsolatedIn

(* Creating a thread is steady. *)
LEMMA CreateSteady ==
  ASSUME IInv, NEW d \in BOOLEAN, thread_create(d) PROVE Steady(slots, slots')
<1> DEFINE s == NewSlot("Runnable", INIT_PROCESS_ID, d)
<1>1. ~halted /\ allocate_for_process(INIT_PROCESS_ID, d)
  BY DEF thread_create, InitCalls
<1>2. PICK id \in Threads :
        id # 0 /\ slots[id].state = "Empty" /\ slots' = [slots EXCEPT ![id] = s]
  BY <1>1, Zenon DEF allocate_for_process, FreeSlot
<1>3. s.owner = INIT_PROCESS_ID /\ s.state = "Runnable" /\ s \in ThreadSlot
  BY NewSlotType DEF NewSlot, States
<1>4. slots \in Table
  BY <1>1, RunningState
<1> HIDE DEF s
<1> QED
  BY <1>2, <1>3, <1>4, InitSlotSteady, Zenon

(* Reaping a thread that has ended is steady. *)
LEMMA ReapSteady ==
  ASSUME IInv, NEW t \in Threads, JoinCompleted(t) PROVE Steady(slots, slots')
<1>1. /\ t # 0 /\ slots[t].owner = INIT_PROCESS_ID
      /\ slots[t].state = "Zombie" /\ slots' = [slots EXCEPT ![t] = EMPTY]
  BY DEF JoinCompleted, Joinable, InitCalls
<1>2. slots \in Table
  BY RunningState DEF JoinCompleted, InitCalls
<1> QED
  BY <1>1, <1>2, EmptySlot, InitSlotSteady, Zenon

(* Detaching a thread is steady. *)
LEMMA DetachSteady ==
  ASSUME IInv, NEW t \in Threads, thread_detach(t) PROVE Steady(slots, slots')
<1>1. t # 0 /\ slots[t].owner = INIT_PROCESS_ID
  BY DEF thread_detach, Detachable, InitCalls
<1>2. slots \in Table /\ slots[t] \in ThreadSlot
  BY RunningState DEF thread_detach, InitCalls
<1>3. CASE slots[t].state = "Zombie"
  <2>1. slots' = [slots EXCEPT ![t] = EMPTY]
    BY <1>3 DEF thread_detach
  <2> QED
    BY <1>1, <1>2, <1>3, <2>1, EmptySlot, InitSlotSteady, Zenon
<1>4. CASE slots[t].state # "Zombie"
  <2> DEFINE s == [slots[t] EXCEPT !.detached = TRUE]
  <2>1. s \in ThreadSlot /\ s.owner = slots[t].owner /\ s.state = slots[t].state
    BY <1>2, Zenon DEF ThreadSlot
  <2>2. slots' = [slots EXCEPT ![t] = s]
    BY <1>4 DEF thread_detach
  <2> HIDE DEF s
  <2> QED
    BY <1>1, <1>2, <2>1, <2>2, InitSlotSteady, Zenon
<1> QED
  BY <1>3, <1>4

(* A join, whether it blocks or is undone, is steady. *)
LEMMA JoinSteady ==
  ASSUME IInv, NEW t \in Threads, JoinBlocks(t) \/ JoinAborts(t)
  PROVE  Steady(slots, slots')
<1> DEFINE T == Joined(t)
<1>1. ~halted /\ Joinable(t) /\ t # current
  BY DEF JoinBlocks, JoinAborts, InitCalls, Joinable
<1>2. T \in Table /\ Steady(slots, T)
  <2>1. \A u \in Threads : /\ T[u].owner = slots[u].owner
                           /\ u # current => T[u].state = slots[u].state
    BY <1>1, JoinedSlots
  <2>2. T[current].state = "JoinBlocked" /\ T \in Table
    BY <1>1, JoinedSlots
  <2>3. current \in Threads /\ slots[current].state = "Running"
    BY <1>1, RunningState
  <2> HIDE DEF T
  <2> QED
    BY <2>1, <2>2, <2>3, ZeroIsThread DEF Steady, IsolatedIn
<1>3. CASE JoinBlocks(t)
  <2>1. Reschedule(T, NO_THREAD)
    BY <1>3 DEF JoinBlocks
  <2> HIDE DEF T
  <2> QED
    BY <1>2, <2>1, RescheduleSteady, SteadyTrans
<1>4. CASE JoinAborts(t)
  <2>1. \A u \in Threads : slots'[u].owner = slots[u].owner /\ slots'[u].state = slots[u].state
    BY <1>4, AbortRestores
  <2> QED
    BY <2>1, ZeroIsThread DEF Steady, IsolatedIn
<1> QED
  BY <1>3, <1>4

(* The exit of a thread of init is steady: its slot and its joiner's are   *)
(* init's, and neither waits for a message.                                *)
LEMMA ExitSteady == ASSUME IInv, thread_exit PROVE Steady(slots, slots')
<1> DEFINE j == slots[current].joiner
           X == Exited
<1>1. ~halted /\ current # 0 /\ slots[current].owner = INIT_PROCESS_ID
      /\ (Reschedule(X, j) \/ slots' = X)
  BY DEF thread_exit, InitCalls, Owner
<1>2. slots \in Table /\ current \in Threads /\ slots[current].state = "Running"
      /\ slots[current] \in ThreadSlot /\ \A t \in Threads : slots[t] \in ThreadSlot
  BY <1>1, RunningState
<1>3. X \in Table
  BY <1>1, ExitedIdle DEF IdleTable
<1>4. X[current].owner = INIT_PROCESS_ID /\ X[current].state \in {"Empty", "Zombie"}
      /\ \A t \in Threads \ {current} :
           \/ X[t] = slots[t]
           \/ /\ slots[t].state = "JoinBlocked" /\ X[t].state = "Runnable"
              /\ X[t].owner = slots[t].owner
  <2> DEFINE s == IF j # NO_THREAD \/ slots[current].detached
                  THEN EMPTY ELSE InState(slots[current], "Zombie")
             T == [slots EXCEPT ![current] = s]
  <2>1. s.owner = INIT_PROCESS_ID /\ s.state \in {"Empty", "Zombie"}
    BY <1>1, <1>2, EmptySlot, InStateSlot DEF States
  <2>2. X = IF j # NO_THREAD /\ slots[j].state = "JoinBlocked" /\ slots[j].target = current
            THEN Move(T, j, "Runnable") ELSE T
    BY DEF Exited
  <2> HIDE DEF s, X
  <2>3. T[current] = s /\ \A t \in Threads \ {current} : T[t] = slots[t]
    BY <1>2 DEF Table
  <2>4. CASE X = T
    BY <2>1, <2>3, <2>4
  <2>5. CASE /\ j # NO_THREAD /\ slots[j].state = "JoinBlocked"
             /\ X = Move(T, j, "Runnable")
    <3>1. j \in Threads \ {current}
      BY <1>1, <1>2, <2>5, RunningState
    <3>2. X = [T EXCEPT ![j] = InState(slots[j], "Runnable")]
      BY <2>3, <2>5, <3>1, Zenon DEF Move
    <3>3. InState(slots[j], "Runnable").state = "Runnable"
          /\ InState(slots[j], "Runnable").owner = slots[j].owner
      BY <1>2, <3>1, InStateSlot DEF States
    <3> DEFINE r == InState(slots[j], "Runnable")
    <3>4. X[j] = r /\ \A t \in Threads \ {j} : X[t] = T[t]
      BY <1>2, <3>1, <3>2 DEF Table
    <3> HIDE DEF T, j, r
    <3>5. X[current] = s /\ \A t \in Threads \ {current, j} : X[t] = slots[t]
      BY <1>2, <2>3, <3>1, <3>4
    <3> QED
      BY <2>1, <2>5, <3>3, <3>4, <3>5 DEF r
  <2> QED
    BY <2>2, <2>4, <2>5, Zenon
<1> HIDE DEF X
<1>5. Steady(slots, X)
  BY <1>1, <1>2, <1>4, ZeroIsThread DEF Steady, IsolatedIn
<1> QED
  BY <1>1, <1>3, <1>5, RescheduleSteady, SteadyTrans

(* What the thread syscalls and the timer do: no thread starts or stops    *)
(* waiting for another table.                                              *)
ThreadCalls ==
  \/ thread_yield
  \/ \E k \in 1 .. MaxSleep : thread_sleep(k)
  \/ \E d \in BOOLEAN : thread_create(d)
  \/ \E t \in Threads : \/ JoinCompleted(t) \/ JoinBlocks(t) \/ JoinAborts(t)
                        \/ thread_detach(t)
  \/ thread_exit
  \/ Tick

(* All of them are steady. *)
LEMMA ThreadCallsSteady == ASSUME IInv, ThreadCalls PROVE Steady(slots, slots')
BY SwitchSteady, CreateSteady, ReapSteady, DetachSteady, JoinSteady, ExitSteady
DEF ThreadCalls

(* Waiting blocks the caller and changes nobody else. *)
LEMMA WaitBlocksEffect ==
  ASSUME IInv, WaitBlocks
  PROVE  /\ In(slots', "ChannelBlocked") = In(slots, "ChannelBlocked") \cup {current}
         /\ Lodgers(slots') = Lodgers(slots)
         /\ Lodging(slots) => Lodging(slots')
<1> DEFINE s == InState(slots[current], "ChannelBlocked")
           T == [slots EXCEPT ![current] = s]
<1>1. ~halted /\ Reschedule(T, NO_THREAD)
  BY DEF WaitBlocks, Blocked, Move
<1>2. slots \in Table /\ current \in Threads /\ slots[current].state = "Running"
      /\ slots[current] \in ThreadSlot
  BY <1>1, RunningState
<1>3. s \in ThreadSlot /\ s.state = "ChannelBlocked" /\ s.owner = slots[current].owner
  BY <1>2, InStateSlot DEF States
<1> HIDE DEF s
<1>4. T \in Table /\ T[current] = s /\ \A t \in Threads : t # current => T[t] = slots[t]
  BY <1>2, <1>3 DEF Table
<1> HIDE DEF T
<1>5. \A t \in Threads : T[t].owner = slots[t].owner /\ IsolatedIn(T, t) = IsolatedIn(slots, t)
  BY <1>2, <1>3, <1>4 DEF IsolatedIn
<1>6. In(T, "ChannelBlocked") = In(slots, "ChannelBlocked") \cup {current}
  BY <1>2, <1>3, <1>4 DEF In
<1>7. Lodgers(T) = Lodgers(slots)
  BY <1>5 DEF Lodgers
<1>8. Lodging(slots) => Lodging(T)
  BY <1>2, <1>3, <1>4, <1>5, ZeroIsThread DEF Lodging
<1>9. Steady(T, slots')
  BY <1>1, <1>4, RescheduleSteady
<1> QED
  BY <1>6, <1>7, <1>8, <1>9, SteadyMeans, SteadyLodging

(* A wait that is aborted is steady. *)
LEMMA WaitAbortsSteady == ASSUME IInv, WaitAborts PROVE Steady(slots, slots')
<1> DEFINE b == InState(slots[current], "ChannelBlocked")
           r == InState(b, "Running")
<1>1. ~halted /\ slots' = Move(Move(slots, current, "ChannelBlocked"), current, "Running")
  BY DEF WaitAborts, Blocked
<1>2. slots \in Table /\ current \in Threads /\ slots[current].state = "Running"
      /\ slots[current] \in ThreadSlot
  BY <1>1, RunningState
<1>3. b \in ThreadSlot /\ b.owner = slots[current].owner
  BY <1>2, InStateSlot DEF States
<1>4. r \in ThreadSlot /\ r.owner = b.owner /\ r.state = "Running"
  BY <1>3, InStateSlot DEF States
<1>5. slots' = [slots EXCEPT ![current] = r]
  BY <1>1, <1>2, Zenon DEF Move, Table
<1> HIDE DEF b, r
<1> QED
  BY <1>1, <1>3, <1>4, <1>5, LeaveSteady

(* wake_channel_waiter unblocks the threads it is given. *)
LEMMA WakeEffect ==
  ASSUME IInv, NEW W, WakeWaiters(W)
  PROVE  /\ In(slots', "ChannelBlocked") = In(slots, "ChannelBlocked") \ W
         /\ Lodgers(slots') = Lodgers(slots)
         /\ Lodging(slots) => Lodging(slots')
<1>1. ~halted /\ slots' = Woken(slots, W)
  BY DEF WakeWaiters
<1>2. slots \in Table
  BY <1>1, RunningState
<1>3. \A t \in Threads : slots'[t].owner = slots[t].owner
                         /\ IsolatedIn(slots', t) = IsolatedIn(slots, t)
                         /\ (slots'[t].state = "Empty") = (slots[t].state = "Empty")
  BY <1>1, <1>2, WokenSlots DEF IsolatedIn
<1>4. \A t \in Threads : slots'[t].state = "ChannelBlocked"
                         <=> slots[t].state = "ChannelBlocked" /\ t \notin W
  BY <1>1, <1>2, WokenStates
<1> QED
  BY <1>3, <1>4, ZeroIsThread DEF In, Lodgers, Lodging

(* A new process is the one tenant of the slot its thread is given. *)
LEMMA SpawnEffect ==
  ASSUME IInv, NEW p \in Isolated, SpawnThread(p)
  PROVE  /\ In(slots', "ChannelBlocked") = In(slots, "ChannelBlocked")
         /\ \E id \in Threads : Lodgers(slots') = Lodgers(slots) \cup {<<id, p>>}
         /\ Lodging(slots) => Lodging(slots')
<1> DEFINE s == NewSlot("Runnable", p, FALSE)
<1>1. ~halted /\ allocate_for_process(p, FALSE) /\ \A t \in Threads : slots[t].owner # p
  BY Zenon DEF SpawnThread, InitCalls
<1>2. PICK id \in Threads :
        id # 0 /\ slots[id].state = "Empty" /\ slots' = [slots EXCEPT ![id] = s]
  BY <1>1, Zenon DEF allocate_for_process, FreeSlot
<1>3. s.owner = p /\ s.state = "Runnable" /\ p # INIT_PROCESS_ID
  BY SchedulerConstants DEF NewSlot
<1>4. slots \in Table
  BY <1>1, RunningState
<1> HIDE DEF s
<1>5. slots'[id] = s /\ \A t \in Threads \ {id} : slots'[t] = slots[t]
  BY <1>2, <1>4 DEF Table
<1>6. In(slots', "ChannelBlocked") = In(slots, "ChannelBlocked")
  BY <1>2, <1>3, <1>5 DEF In
<1>7. Lodgers(slots') = Lodgers(slots) \cup {<<id, p>>}
  <2>1. \A t \in Threads \ {id} : IsolatedIn(slots', t) = IsolatedIn(slots, t)
    BY <1>5 DEF IsolatedIn
  <2>2. IsolatedIn(slots', id) /\ slots'[id].owner = p /\ ~IsolatedIn(slots, id)
    BY <1>2, <1>3, <1>5 DEF IsolatedIn
  <2>3. {u \in Threads : IsolatedIn(slots', u)} = {u \in Threads : IsolatedIn(slots, u)} \cup {id}
    BY <2>1, <2>2
  <2> QED
    BY <1>5, <2>2, <2>3 DEF Lodgers
<1>8. Lodging(slots) => Lodging(slots')
  BY <1>1, <1>2, <1>3, <1>5, ZeroIsThread DEF Lodging, IsolatedIn
<1> QED
  BY <1>6, <1>7, <1>8

(* The end of the running process wakes the threads of W and takes its own *)
(* thread, the only one it has, out of the table.                          *)
LEMMA TerminateEffect ==
  ASSUME IInv, Lodging(slots), NEW W, TerminateProcess(W)
  PROVE  /\ In(slots', "ChannelBlocked") = In(slots, "ChannelBlocked") \ W
         /\ Lodgers(slots') = Lodgers(slots) \ {<<current, Owner>>}
         /\ Lodging(slots')
<1> DEFINE V == Woken(slots, W)
           X == Removed(V)
<1>1. ~halted /\ Owner # INIT_PROCESS_ID /\ (Reschedule(X, NO_THREAD) \/ slots' = X)
  BY DEF TerminateProcess
<1>2. slots \in Table /\ current \in Threads /\ slots[current].state = "Running"
  BY <1>1, RunningState
<1>3. X \in Table
  BY <1>1, RemovedIdle DEF IdleTable
<1>4. \A t \in Threads : /\ V[t].owner = slots[t].owner
                         /\ (V[t].state = "Empty") = (slots[t].state = "Empty")
                         /\ V[t].state = "ChannelBlocked"
                            <=> slots[t].state = "ChannelBlocked" /\ t \notin W
  BY <1>2, WokenSlots, WokenStates
<1> HIDE DEF V
<1>5. \A t \in Threads : slots[t].state # "Empty" /\ slots[t].owner = Owner => t = current
  BY <1>1, <1>2 DEF Lodging, IsolatedIn, Owner
<1>6. \A t \in Threads : X[t] = IF t = current THEN EMPTY ELSE V[t]
  BY <1>2, <1>4, <1>5 DEF Removed, Owner
<1> HIDE DEF X
<1>7. In(X, "ChannelBlocked") = In(slots, "ChannelBlocked") \ W
  BY <1>2, <1>4, <1>6, EmptySlot DEF In
<1>8. Lodgers(X) = Lodgers(slots) \ {<<current, Owner>>}
  <2>1. \A t \in Threads \ {current} : /\ IsolatedIn(X, t) = IsolatedIn(slots, t)
                                       /\ X[t].owner = slots[t].owner
    BY <1>4, <1>6 DEF IsolatedIn
  <2>2. ~IsolatedIn(X, current) /\ IsolatedIn(slots, current) /\ Owner = slots[current].owner
    BY <1>1, <1>2, <1>6, EmptySlot DEF IsolatedIn, Owner
  <2>3. {u \in Threads : IsolatedIn(X, u)} = {u \in Threads : IsolatedIn(slots, u)} \ {current}
    BY <1>2, <2>1, <2>2
  <2> QED
    BY <1>2, <2>1, <2>2, <2>3 DEF Lodgers
<1>9. Lodging(X)
  BY <1>1, <1>4, <1>6, ZeroIsThread, EmptySlot DEF Lodging, IsolatedIn, Owner
<1>10. CASE slots' = X
  BY <1>7, <1>8, <1>9, <1>10
<1>11. CASE Reschedule(X, NO_THREAD)
  BY <1>3, <1>7, <1>8, <1>9, <1>11, RescheduleSteady, SteadyMeans, SteadyLodging
<1> QED
  BY <1>1, <1>10, <1>11

(* Every step keeps the lodging. *)
LEMMA LodgingNext == IInv /\ Lodging(slots) /\ [Next]_vars => Lodging(slots')
<1> SUFFICES ASSUME IInv, Lodging(slots), [Next]_vars PROVE Lodging(slots')
  OBVIOUS
<1>1. CASE ThreadCalls
  BY <1>1, ThreadCallsSteady, SteadyLodging
<1>2. CASE WaitBlocks
  BY <1>2, WaitBlocksEffect
<1>3. CASE WaitAborts
  BY <1>3, WaitAbortsSteady, SteadyLodging
<1>4. CASE Wakes
  BY <1>4, WakeEffect DEF Wakes
<1>5. CASE \E p \in Isolated : SpawnThread(p)
  BY <1>5, SpawnEffect
<1>6. CASE \E W \in SUBSET Threads : TerminateProcess(W)
  BY <1>6, TerminateEffect
<1>7. CASE HaltInit \/ UNCHANGED vars
  BY <1>7 DEF HaltInit, vars
<1> QED
  BY <1>1, <1>2, <1>3, <1>4, <1>5, <1>6, <1>7
  DEF Next, NextNoJoin, NextJoin, Switch, ThreadCalls

(* The empty table lodges init alone. *)
LEMMA LodgingInit == Init => Lodging(slots)
BY ZeroIsThread DEF Init, Lodging, IsolatedIn, EMPTY, NewSlot

(* The processes that own a thread. *)
Owners(T) == {T[t].owner : t \in Threads \ In(T, "Empty")}

(* They are init and the lodgers. *)
LEMMA OwnersAreLodgers ==
  ASSUME NEW T, Lodging(T)
  PROVE  Owners(T) = {INIT_PROCESS_ID} \cup {l[2] : l \in Lodgers(T)}
<1> DEFINE L == {l[2] : l \in Lodgers(T)}
<1>1. INIT_PROCESS_ID \in Owners(T)
  BY ZeroIsThread DEF Lodging, In, Owners
<1>2. ASSUME NEW t \in Threads \ In(T, "Empty")
      PROVE  T[t].owner \in {INIT_PROCESS_ID} \cup L
  <2>1. CASE T[t].owner # INIT_PROCESS_ID
    <3>1. <<t, T[t].owner>> \in Lodgers(T)
      BY <1>2, <2>1 DEF Lodgers, IsolatedIn, In
    <3> QED
      BY <3>1
  <2> QED
    BY <2>1
<1>3. ASSUME NEW l \in Lodgers(T) PROVE l[2] \in Owners(T)
  <2>1. PICK t \in Threads : IsolatedIn(T, t) /\ l = <<t, T[t].owner>>
    BY <1>3 DEF Lodgers
  <2>2. t \in Threads \ In(T, "Empty") /\ l[2] = T[t].owner
    BY <2>1 DEF IsolatedIn, In
  <2> QED
    BY <2>2 DEF Owners
<1> QED
  BY <1>1, <1>2, <1>3 DEF Owners

(* What the steps of the thread table mean to the other tables: which      *)
(* threads are ChannelBlocked, and which processes have a thread.          *)
LEMMA TableEffects ==
  ASSUME IInv, Lodging(slots)
  PROVE  /\ ThreadCalls \/ WaitAborts =>
              /\ In(slots', "ChannelBlocked") = In(slots, "ChannelBlocked")
              /\ Owners(slots') = Owners(slots)
         /\ WaitBlocks =>
              /\ In(slots', "ChannelBlocked") = In(slots, "ChannelBlocked") \cup {current}
              /\ Owners(slots') = Owners(slots)
         /\ \A W : WakeWaiters(W) =>
              /\ In(slots', "ChannelBlocked") = In(slots, "ChannelBlocked") \ W
              /\ Owners(slots') = Owners(slots)
         /\ \A p \in Isolated : SpawnThread(p) =>
              /\ In(slots', "ChannelBlocked") = In(slots, "ChannelBlocked")
              /\ Owners(slots') = Owners(slots) \cup {p}
         /\ \A W : TerminateProcess(W) =>
              /\ In(slots', "ChannelBlocked") = In(slots, "ChannelBlocked") \ W
              /\ Owners(slots') = Owners(slots) \ {Owner}
<1> DEFINE B == In(slots, "ChannelBlocked")
           O == Owners(slots)
           L == Lodgers(slots)
<1>1. ASSUME Lodging(slots'), Lodgers(slots') = Lodgers(slots) PROVE Owners(slots') = O
  BY <1>1, OwnersAreLodgers
<1>2. ASSUME ThreadCalls \/ WaitAborts
      PROVE  In(slots', "ChannelBlocked") = B /\ Owners(slots') = O
  <2>1. Steady(slots, slots')
    BY <1>2, ThreadCallsSteady, WaitAbortsSteady
  <2> QED
    BY <1>1, <2>1, SteadyMeans, SteadyLodging
<1>3. ASSUME WaitBlocks
      PROVE  In(slots', "ChannelBlocked") = B \cup {current} /\ Owners(slots') = O
  BY <1>1, <1>3, WaitBlocksEffect
<1>4. ASSUME NEW W, WakeWaiters(W)
      PROVE  In(slots', "ChannelBlocked") = B \ W /\ Owners(slots') = O
  BY <1>1, <1>4, WakeEffect
<1>5. ASSUME NEW p \in Isolated, SpawnThread(p)
      PROVE  In(slots', "ChannelBlocked") = B /\ Owners(slots') = O \cup {p}
  <2>1. PICK id : Lodgers(slots') = L \cup {<<id, p>>}
    BY <1>5, SpawnEffect
  <2>2. Lodging(slots') /\ In(slots', "ChannelBlocked") = B
    BY <1>5, SpawnEffect
  <2>3. <<id, p>>[2] = p
    OBVIOUS
  <2>4. {l[2] : l \in Lodgers(slots')} = {l[2] : l \in L} \cup {p}
    BY <2>1, <2>3, Zenon
  <2> QED
    BY <2>2, <2>4, OwnersAreLodgers
<1>6. ASSUME NEW W, TerminateProcess(W)
      PROVE  In(slots', "ChannelBlocked") = B \ W /\ Owners(slots') = O \ {Owner}
  <2>1. Lodging(slots') /\ Lodgers(slots') = L \ {<<current, Owner>>}
        /\ In(slots', "ChannelBlocked") = B \ W
    BY <1>6, TerminateEffect
  <2>2. /\ current \in Threads /\ IsolatedIn(slots, current) /\ Owner # INIT_PROCESS_ID
        /\ slots[current].owner = Owner
    BY <1>6, RunningState DEF TerminateProcess, IsolatedIn, Owner
  <2>3. \A l \in L : l[2] = Owner => l = <<current, Owner>>
    <3> SUFFICES ASSUME NEW t \in Threads, IsolatedIn(slots, t), slots[t].owner = Owner
                 PROVE  t = current
      BY DEF Lodgers
    <3> QED
      BY <2>2 DEF Lodging
  <2>4. <<current, Owner>>[2] = Owner
    OBVIOUS
  <2>5. {l[2] : l \in Lodgers(slots')} = {l[2] : l \in L} \ {Owner}
    BY <2>1, <2>3, <2>4
  <2> QED
    BY <2>1, <2>2, <2>5, OwnersAreLodgers
<1> QED
  BY <1>2, <1>3, <1>4, <1>5, <1>6

(* Slot 0 stays init's first thread, and no isolated process ever has two  *)
(* threads: exit_process, which empties every slot of the caller's         *)
(* process, never takes a thread that waits elsewhere with it.             *)
THEOREM OneThreadPerProcess == Spec => []Lodging(slots)
<1>1. IInv /\ Lodging(slots) /\ [Next]_vars => Lodging(slots)'
  BY LodgingNext DEF Lodging, IsolatedIn
<1> QED
  BY <1>1, LodgingInit, InvAlways, PTL DEF Spec
=============================================================================
