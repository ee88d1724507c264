------------------------------ MODULE Scheduler ------------------------------
(***************************************************************************)
(* The cooperative scheduler of user threads (kernel/src/scheduler.rs,     *)
(* BootstrapUserThreads) together with the thread syscalls that drive it   *)
(* (kernel/src/syscall.rs).  A syscall runs to its end on the boot         *)
(* processor before another thread runs, so each syscall is one action.    *)
(*                                                                         *)
(* `slots' is the thread table; `ticks' is how far in the future the       *)
(* wake_at of a sleeping thread lies (0: its deadline passed) and `target' *)
(* the thread a JoinBlocked one waits for.  `join_out' is the set of       *)
(* threads with a result address pending in NAGI_THREAD_JOIN_OUT, and      *)
(* `halted' says that the kernel entered halt_forever.  Exit codes are     *)
(* left out: nothing in the table depends on them.                         *)
(***************************************************************************)
EXTENDS Integers

CONSTANTS
  BOOTSTRAP_USER_THREAD_COUNT,  \* 32 (64 with m18-browser-threads)
  Isolated,                     \* Process IDs of isolated processes
  MaxSleep                      \* bound: the longest sleep, in timer ticks

INIT_PROCESS_ID == 1

NO_THREAD == 255

ASSUME SchedulerConstants ==
  /\ BOOTSTRAP_USER_THREAD_COUNT \in 1 .. NO_THREAD
  /\ Isolated \subseteq Nat /\ INIT_PROCESS_ID \notin Isolated
  /\ MaxSleep \in Nat

Threads == 0 .. BOOTSTRAP_USER_THREAD_COUNT - 1

VARIABLES slots, current, cursor, join_out, halted

vars == <<slots, current, cursor, join_out, halted>>

States == {"Empty", "Runnable", "Running", "Sleeping", "ChannelBlocked",
           "JoinBlocked", "Zombie"}

ThreadSlot ==
  [state : States, ticks : 0 .. MaxSleep, target : Threads \cup {NO_THREAD},
   joiner : Threads \cup {NO_THREAD}, detached : BOOLEAN,
   owner : Isolated \cup {INIT_PROCESS_ID}]

NewSlot(state, owner, detached) ==
  [state |-> state, ticks |-> 0, target |-> NO_THREAD, joiner |-> NO_THREAD,
   detached |-> detached, owner |-> owner]

EMPTY == NewSlot("Empty", INIT_PROCESS_ID, FALSE)

Init ==
  /\ slots = [t \in Threads |->
                IF t = 0 THEN NewSlot("Running", INIT_PROCESS_ID, FALSE) ELSE EMPTY]
  /\ current = 0
  /\ cursor = 0
  /\ join_out = {}
  /\ halted = FALSE

-----------------------------------------------------------------------------
(* Operators on a thread table T. *)

InState(slot, state) ==
  [state |-> state, ticks |-> 0, target |-> NO_THREAD, joiner |-> slot.joiner,
   detached |-> slot.detached, owner |-> slot.owner]

Move(T, t, state) == [T EXCEPT ![t] = InState(T[t], state)]

In(T, state) == {t \in Threads : T[t].state = state}

(* d timer ticks go by. *)
Elapse(T, d) ==
  [t \in Threads |->
     IF T[t].state = "Sleeping"
     THEN [T[t] EXCEPT !.ticks = IF T[t].ticks > d THEN T[t].ticks - d ELSE 0]
     ELSE T[t]]

(* Mutant: the scan forgets the sleepers. *)
WakeNobody(T) == T

(* The sleepers whose deadline has passed become runnable. *)
wake_expired(T) ==
  [t \in Threads |->
     IF T[t].state = "Sleeping" /\ T[t].ticks = 0
     THEN InState(T[t], "Runnable") ELSE T[t]]

(* How many steps after slot c the round-robin scan meets slot t.          *)
offset(c, t) == IF t > c THEN t - c ELSE t - c + BOOTSTRAP_USER_THREAD_COUNT

(* Mutant: the scan starts at slot 0 instead of after the cursor. *)
FirstFromZero(R, n) == \A u \in R : n <= u

(* n is the first thread of R the scan from the cursor meets. *)
FirstAfterCursor(R, n) == \A u \in R : offset(cursor, n) <= offset(cursor, u)

(* Wake the expired sleepers of T, then run the preferred thread if it is  *)
(* runnable, else the first runnable one after the cursor.                 *)
select_runnable_prefer(T, preferred) ==
  LET W == wake_expired(T)
      R == In(W, "Runnable")
  IN  \E n \in R :
        /\ IF preferred \in R THEN n = preferred ELSE FirstAfterCursor(R, n)
        /\ slots' = Move(W, n, "Running")
        /\ current' = n
        /\ cursor' = n

(* No thread of T can run, now or after any of them slept long enough. *)
Stuck(T) == In(wake_expired(T), "Runnable") = {} /\ In(T, "Sleeping") = {}

(* Nothing is runnable: spin until the first sleeper's deadline passed.    *)
(* The spin may overshoot it.                                              *)
wait_until_runnable(T) ==
  /\ In(wake_expired(T), "Runnable") = {}
  /\ \E d \in 1 .. MaxSleep :
       /\ \E t \in In(T, "Sleeping") : T[t].ticks <= d
       /\ select_runnable_prefer(Elapse(T, d), NO_THREAD)

Reschedule(T, preferred) ==
  select_runnable_prefer(T, preferred) \/ wait_until_runnable(T)

Owner == slots[current].owner

-----------------------------------------------------------------------------
(* The syscalls of the running thread.  Those an isolated process may not  *)
(* make (dispatch_isolated) require the caller to belong to init.          *)

InitCalls == ~halted /\ Owner = INIT_PROCESS_ID

thread_yield ==
  /\ ~halted
  /\ Reschedule(Move(slots, current, "Runnable"), NO_THREAD)
  /\ UNCHANGED <<join_out, halted>>

thread_sleep(k) ==
  LET asleep == [InState(slots[current], "Sleeping") EXCEPT !.ticks = k]
  IN  /\ ~halted
      /\ Reschedule([slots EXCEPT ![current] = asleep], NO_THREAD)
      /\ UNCHANGED <<join_out, halted>>

(* The lowest empty slot; slot 0 stays init's first thread. *)
FreeSlot(id) ==
  /\ id \in Threads \ {0} /\ slots[id].state = "Empty"
  /\ \A lower \in 1 .. id - 1 : slots[lower].state # "Empty"

allocate_for_process(owner, detached) ==
  \E id \in Threads :
    /\ FreeSlot(id)
    /\ slots' = [slots EXCEPT ![id] = NewSlot("Runnable", owner, detached)]
    /\ UNCHANGED <<current, cursor, join_out, halted>>

thread_create(detached) ==
  /\ InitCalls
  /\ allocate_for_process(Owner, detached)

Joinable(target) ==
  /\ target \in Threads \ {0, current}
  /\ slots[target].owner = Owner
  /\ slots[target].state # "Empty"
  /\ ~slots[target].detached
  /\ slots[target].joiner = NO_THREAD

(* The target already exited: its slot is reaped. *)
JoinCompleted(target) ==
  /\ InitCalls
  /\ Joinable(target)
  /\ slots[target].state = "Zombie"
  /\ slots' = [slots EXCEPT ![target] = EMPTY]
  /\ UNCHANGED <<current, cursor, join_out, halted>>

Joined(target) ==
  [slots EXCEPT
     ![target] = [slots[target] EXCEPT !.joiner = current],
     ![current] = [InState(slots[current], "JoinBlocked") EXCEPT !.target = target]]

JoinBlocks(target) ==
  /\ InitCalls
  /\ Joinable(target)
  /\ slots[target].state # "Zombie"
  /\ Reschedule(Joined(target), NO_THREAD)
  /\ join_out' = join_out \cup {current}
  /\ UNCHANGED halted

(* Mutant: the abort leaves the target's joiner field behind. *)
AbortedForgettingJoiner(target) ==
  Move(Joined(target), current, "Running")

(* abort_blocked_join, on the table the join left. *)
Aborted(target) ==
  LET T == Joined(target)
  IN  Move([T EXCEPT ![target] = [T[target] EXCEPT !.joiner = NO_THREAD]],
           current, "Running")

(* No thread can run while this one waits: the join is undone and fails. *)
JoinAborts(target) ==
  /\ InitCalls
  /\ Joinable(target)
  /\ slots[target].state # "Zombie"
  /\ Stuck(Joined(target))
  /\ slots' = Aborted(target)
  /\ join_out' = join_out \ {current}
  /\ UNCHANGED <<current, cursor, halted>>

(* The table after the running thread exited: its joiner, if any, becomes  *)
(* runnable.                                                               *)
Exited ==
  LET j == slots[current].joiner
      T == [slots EXCEPT ![current] =
              IF j # NO_THREAD \/ slots[current].detached
              THEN EMPTY ELSE InState(slots[current], "Zombie")]
  IN  IF /\ j # NO_THREAD
         /\ slots[j].state = "JoinBlocked" /\ slots[j].target = current
      THEN Move(T, j, "Runnable") ELSE T

(* The joiner runs first; if no thread can ever run, the kernel halts.     *)
thread_exit ==
  /\ InitCalls
  /\ current # 0
  /\ join_out' = join_out \ {slots[current].joiner}
  /\ \/ Reschedule(Exited, slots[current].joiner) /\ UNCHANGED halted
     \/ /\ Stuck(Exited)
        /\ slots' = Exited
        /\ halted' = TRUE
        /\ UNCHANGED <<current, cursor>>

(* A thread nobody joins can be detached. *)
Detachable(target) ==
  /\ target \in Threads \ {0}
  /\ slots[target].state # "Empty"
  /\ slots[target].joiner = NO_THREAD
  /\ slots[target].owner = Owner

thread_detach(target) ==
  /\ InitCalls
  /\ Detachable(target)
  /\ slots' = [slots EXCEPT ![target] =
                 IF slots[target].state = "Zombie" THEN EMPTY
                 ELSE [slots[target] EXCEPT !.detached = TRUE]]
  /\ UNCHANGED <<current, cursor, join_out, halted>>

-----------------------------------------------------------------------------
(* What the Channel, process and timer code does to the thread table. *)

Blocked == Move(slots, current, "ChannelBlocked")

(* The running thread waits for a message or for the exit of a process. *)
WaitBlocks ==
  /\ ~halted
  /\ Reschedule(Blocked, NO_THREAD)
  /\ UNCHANGED <<join_out, halted>>

(* No thread can run while this one waits: abort_current_channel_wait. *)
WaitAborts ==
  /\ ~halted
  /\ Stuck(Blocked)
  /\ slots' = Move(Blocked, current, "Running")
  /\ UNCHANGED <<current, cursor, join_out, halted>>

(* wake_channel_waiter for the threads of W. *)
Woken(T, W) ==
  [t \in Threads |-> IF t \in W /\ T[t].state = "ChannelBlocked"
                     THEN InState(T[t], "Runnable") ELSE T[t]]

(* A message for the threads of W arrived. *)
WakeWaiters(W) ==
  /\ ~halted
  /\ slots' = Woken(slots, W)
  /\ UNCHANGED <<current, cursor, join_out, halted>>

(* The first thread of a new isolated process. *)
SpawnThread(owner) ==
  /\ InitCalls
  /\ \A t \in Threads : slots[t].owner # owner
  /\ allocate_for_process(owner, FALSE)

(* The table without the threads of the running one's process. *)
Removed(T) ==
  [t \in Threads |-> IF T[t].state # "Empty" /\ T[t].owner = Owner
                     THEN EMPTY ELSE T[t]]

(* The running isolated process exits or faults; its end wakes the threads *)
(* of W.  If no thread can ever run, the kernel halts.                     *)
TerminateProcess(W) ==
  LET T == Removed(Woken(slots, W))
  IN  /\ ~halted
      /\ Owner # INIT_PROCESS_ID
      /\ \/ Reschedule(T, NO_THREAD) /\ UNCHANGED halted
         \/ /\ Stuck(T)
            /\ slots' = T
            /\ halted' = TRUE
            /\ UNCHANGED <<current, cursor>>
      /\ UNCHANGED join_out

(* init exits, or init faults: the kernel halts. *)
HaltInit ==
  /\ InitCalls
  /\ halted' = TRUE
  /\ UNCHANGED <<slots, current, cursor, join_out>>

(* A timer interrupt while a thread runs. *)
Tick ==
  /\ ~halted
  /\ slots' = Elapse(slots, 1)
  /\ UNCHANGED <<current, cursor, join_out, halted>>

(* An exiting thread runs its joiner ahead of the round-robin order. *)
HandOff == thread_exit /\ cursor' = slots[current].joiner

(* Where the running thread gives up the processor, joins left aside. *)
Switch ==
  \/ thread_yield
  \/ \E k \in 1 .. MaxSleep : thread_sleep(k)
  \/ WaitBlocks

Wakes == \E W \in SUBSET Threads : WakeWaiters(W)

NextNoJoin ==
  \/ Switch
  \/ Wakes
  \/ \E d \in BOOLEAN : thread_create(d)
  \/ Tick

NextJoin ==
  \/ \E t \in Threads : JoinCompleted(t)
  \/ \E t \in Threads : JoinBlocks(t)
  \/ \E t \in Threads : JoinAborts(t)
  \/ \E t \in Threads : thread_detach(t)
  \/ thread_exit

Next ==
  \/ NextNoJoin
  \/ NextJoin
  \/ WaitAborts
  \/ \E p \in Isolated : SpawnThread(p)
  \/ \E W \in SUBSET Threads : TerminateProcess(W)
  \/ HaltInit

Spec == Init /\ [][Next]_vars

(* A thread that runs reaches a syscall that gives up the processor, and   *)
(* the timer interrupt keeps firing.                                       *)
FairSpec ==
  /\ Spec
  /\ WF_vars(Switch \/ thread_exit \/ \E t \in Threads : JoinBlocks(t))
  /\ WF_vars(Tick)

-----------------------------------------------------------------------------
(* The types of the thread table and its two indices. *)
TypeOK ==
  /\ slots \in [Threads -> ThreadSlot]
  /\ current \in Threads
  /\ cursor \in Threads
  /\ join_out \subseteq Threads
  /\ halted \in BOOLEAN

(* While the kernel runs, exactly one thread is Running, and it is the one *)
(* `current' and the round-robin cursor name: every path through a         *)
(* blocking syscall, its abort and the idle wait included, ends with the   *)
(* processor handed to one thread.                                         *)
OneRunning == ~halted => In(slots, "Running") = {current} /\ cursor = current

(* In table T, the joiner of a thread is blocked in a join of exactly that *)
(* thread, a thread blocked in a join is the joiner of its target, and the *)
(* target is alive, not detached and of the joiner's process.              *)
JoinPaired(T) ==
  /\ \A t \in Threads : T[t].joiner # NO_THREAD =>
       /\ T[T[t].joiner].state = "JoinBlocked" /\ T[T[t].joiner].target = t
       /\ T[t].state \notin {"Empty", "Zombie"}
       /\ ~T[t].detached
       /\ T[t].owner = T[T[t].joiner].owner
  /\ \A t \in Threads : T[t].state = "JoinBlocked" =>
       T[t].target \in Threads /\ T[T[t].target].joiner = t

(* A join is recorded on both sides or on neither (JoinPaired), so no      *)
(* thread waits on a slot that was reaped or given to another process, and *)
(* the result address of a join is pending exactly while the join blocks.  *)
JoinSymmetry == JoinPaired(slots) /\ join_out = In(slots, "JoinBlocked")

(* Round robin passes over nobody: a dispatch that is not the hand-off of  *)
(* an exiting thread to its joiner brings every thread that stays runnable *)
(* strictly closer to its turn.                                            *)
NoOvertaking ==
  [][\A t \in Threads :
       /\ slots[t].state = "Runnable" /\ slots'[t].state = "Runnable"
       /\ cursor' # cursor
       /\ cursor' # slots[current].joiner
       => offset(cursor', t) < offset(cursor, t)]_vars

(* Every runnable thread is dispatched, unless the kernel halts or exiting *)
(* threads keep handing the processor to their joiners for ever.           *)
EventuallyServed ==
  \/ []<><<HandOff>>_vars
  \/ \A t \in Threads : []<>(slots[t].state # "Runnable" \/ halted)

(* A sleeping thread does not sleep for ever while the kernel runs. *)
SleepersWake ==
  \A t \in Threads : []<>(slots[t].state # "Sleeping" \/ halted)
=============================================================================
