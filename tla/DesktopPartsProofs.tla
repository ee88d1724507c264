------------------------- MODULE DesktopPartsProofs -------------------------
(***************************************************************************)
(* The two parts the desktop is made of.  What the registry of launches    *)
(* promises, for any applications, sessions, processes and capabilities    *)
(* and for tables of any size; then that the owner keeps the account and   *)
(* guesses are paced, for any names and passwords, any waits and any width *)
(* of the counters.                                                        *)
(***************************************************************************)
EXTENDS Supervisor, Login, TLAPS

(* The tables hold entries of their types; how many they hold is checked   *)
(* by TLC.                                                                 *)
Entries ==
  /\ manifests \subseteq Manifests
  /\ launches \subseteq {Launch(p, a, s) : p \in Processes, a \in Apps, s \in AppSessions}
  /\ consents \in [Uses -> Decisions]
  /\ pending \in [Prompts -> Requests \cup {NoRequest}]

(* Together the promises are inductive. *)
RegistryInv == Entries /\ OnceEndsWithSession /\ PromptsAreLive /\ OneProcessPerSession

(* A table of which one slot is written keeps its type. *)
LEMMA UpdateKeepsType ==
  ASSUME NEW S, NEW T, NEW f \in [S -> T], NEW i, NEW v \in T
  PROVE  [f EXCEPT ![i] = v] \in [S -> T]
  BY Zenon

(* A new registry is empty. *)
LEMMA NewRegistryHolds ==
  ASSUME manifests = {}, launches = {}, consents = [u \in Uses |-> Ask],
         pending = [i \in Prompts |-> NoRequest]
  PROVE  RegistryInv
  BY DEF RegistryInv, Entries, OnceEndsWithSession, PromptsAreLive, OneProcessPerSession, Queued,
     Decisions, Ask, Decision

(* Launching a session adds it, and at most its manifest. *)
LEMMA LaunchPreserves ==
  ASSUME NEW m \in Manifests, NEW s \in AppSessions, NEW p \in Processes, RegistryInv, launch(m, s, p)
  PROVE  RegistryInv'
<1> USE DEF launch, CanRegister
<1>1. m.app \in Apps
  BY DEF Apps
<1>2. Entries'
  BY <1>1 DEF RegistryInv, Entries
<1>3. launches \subseteq launches' /\ manifests \subseteq manifests'
  OBVIOUS
<1>4. OnceEndsWithSession'
  BY <1>3 DEF RegistryInv, OnceEndsWithSession, is_live
<1>5. PromptsAreLive'
  BY <1>3 DEF RegistryInv, PromptsAreLive, Queued, is_live, Declares
<1>6. OneProcessPerSession'
  BY DEF RegistryInv, OneProcessPerSession, check_launch, is_live, Launch
<1> QED
  BY <1>2, <1>4, <1>5, <1>6 DEF RegistryInv

(* A launch that is refused may leave its manifest registered. *)
LEMMA RefusalPreserves ==
  ASSUME NEW m \in Manifests, RegistryInv, LaunchRefused(m)
  PROVE  RegistryInv'
<1> USE DEF LaunchRefused, CanRegister, RegistryInv
<1>1. manifests \subseteq manifests'
  OBVIOUS
<1>2. Entries' /\ OnceEndsWithSession'
  BY DEF Entries, OnceEndsWithSession, is_live
<1>3. PromptsAreLive'
  BY <1>1 DEF PromptsAreLive, Queued, is_live, Declares
<1>4. OneProcessPerSession'
  BY DEF OneProcessPerSession
<1> QED
  BY <1>2, <1>3, <1>4

(* A decision for a session is recorded only while the session is live. *)
LEMMA DecisionPreserves ==
  ASSUME NEW u \in Uses, NEW d \in Decisions, RegistryInv, record_decision(u, d)
  PROVE  RegistryInv'
<1> USE DEF record_decision, RegistryInv
<1>1. Entries'
  BY DEF Entries
<1>2. OnceEndsWithSession'
  BY DEF Entries, OnceEndsWithSession, CanRecord, is_live
<1>3. PromptsAreLive' /\ OneProcessPerSession'
  BY DEF PromptsAreLive, Queued, is_live, Declares, OneProcessPerSession
<1> QED
  BY <1>1, <1>2, <1>3

(* A prompt is queued only for a live session that declares the use. *)
LEMMA RequestPreserves ==
  ASSUME NEW r \in Requests, RegistryInv, request_consent(r)
  PROVE  RegistryInv'
<1> USE DEF request_consent, RegistryInv
<1>1. Entries'
  BY DEF Entries
<1>2. OnceEndsWithSession' /\ OneProcessPerSession'
  BY DEF OnceEndsWithSession, OneProcessPerSession, is_live
<1>3. is_live(r.app, r.session) /\ Declares(r.app, r.capability)
  BY DEF check_grant, Declares
<1>4. PromptsAreLive'
  BY <1>3 DEF Entries, PromptsAreLive, Queued, is_live, Declares
<1> QED
  BY <1>1, <1>2, <1>4

(* An answer records what may be recorded and removes one prompt. *)
LEMMA AnswerPreserves ==
  ASSUME NEW r \in Requests, NEW d \in Decisions \cup {None}, RegistryInv, resolve_consent(r, d)
  PROVE  RegistryInv'
<1> USE DEF resolve_consent, RegistryInv
<1>1. <<r.app, r.capability>> \in Uses
  BY DEF Requests, Request, Uses
<1>2. Entries'
  <2>1. consents' \in [Uses -> Decisions]
    BY <1>1 DEF Entries
  <2>2. pending' \in [Prompts -> Requests \cup {NoRequest}]
    BY UpdateKeepsType DEF Entries
  <2> QED
    BY <2>1, <2>2 DEF Entries
<1>3. OnceEndsWithSession'
  BY <1>1 DEF Entries, OnceEndsWithSession, CanRecord, is_live
<1>4. OneProcessPerSession'
  BY DEF OneProcessPerSession
<1>5. PromptsAreLive'
  BY DEF Entries, PromptsAreLive, Queued, is_live, Declares
<1> QED
  BY <1>2, <1>3, <1>4, <1>5

(* A session that ends takes its decisions and its prompts with it; the    *)
(* others stay live.                                                       *)
LEMMA ExitPreserves ==
  ASSUME NEW p \in Processes, RegistryInv, record_exit(p)
  PROVE  RegistryInv'
<1> USE DEF RegistryInv
<1>1. PICK l \in launches :
        /\ launches' = launches \ {l}
        /\ consents' = [u \in Uses |-> IF u[1] = l.app /\ consents[u] = AllowOnce(l.session)
                                         THEN Ask ELSE consents[u]]
        /\ pending' = [i \in Prompts |-> IF pending[i].app = l.app /\ pending[i].session = l.session
                                           THEN NoRequest ELSE pending[i]]
        /\ UNCHANGED manifests
  BY DEF record_exit
<1>2. \A a, s : is_live(a, s) /\ ~(a = l.app /\ s = l.session) => is_live(a, s)'
  BY <1>1 DEF is_live
<1>3. Entries'
  BY <1>1 DEF Entries, Decisions
<1>4. OnceEndsWithSession'
  <2> SUFFICES ASSUME NEW u \in Uses, consents'[u].kind = "AllowOnce"
               PROVE  \E k \in launches' : k.app = u[1] /\ k.session = consents'[u].session
    BY DEF OnceEndsWithSession, is_live
  <2>1. Ask.kind # "AllowOnce"
    BY DEF Ask, Decision
  <2>2. consents'[u] = consents[u] /\ ~(u[1] = l.app /\ consents[u] = AllowOnce(l.session))
    BY <1>1, <2>1
  <2>3. consents[u] \in Decisions
    BY DEF Entries
  <2>4. consents[u] = AllowOnce(consents[u].session)
    BY <2>2, <2>3 DEF Decisions, Lasting, Ask, Allow, Deny, AllowOnce, Decision
  <2>5. is_live(u[1], consents[u].session)
    BY <2>2 DEF OnceEndsWithSession
  <2> QED
    BY <1>2, <2>2, <2>4, <2>5 DEF is_live
<1>5. PromptsAreLive'
  <2>1. \A i \in Prompts : pending'[i] # NoRequest =>
          pending'[i] = pending[i] /\ ~(pending[i].app = l.app /\ pending[i].session = l.session)
    BY <1>1
  <2>2. \A r \in Queued' : r \in Queued /\ ~(r.app = l.app /\ r.session = l.session)
    BY <2>1 DEF Queued
  <2>3. \A r \in Queued' : is_live(r.app, r.session)' /\ Declares(r.app, r.capability)'
    BY <1>1, <1>2, <2>2 DEF PromptsAreLive, Declares
  <2>4. \A i, j \in Prompts : pending'[i] = pending'[j] /\ pending'[i] # NoRequest => i = j
    BY <2>1 DEF PromptsAreLive
  <2> QED
    BY <2>3, <2>4 DEF PromptsAreLive
<1>6. OneProcessPerSession'
  BY <1>1 DEF OneProcessPerSession
<1> QED
  BY <1>3, <1>4, <1>5, <1>6

(* Only lasting decisions are restored. *)
LEMMA RestorePreserves ==
  ASSUME NEW saved \in [Uses -> {Ask} \cup Lasting], RegistryInv, restore_decisions(saved)
  PROVE  RegistryInv'
<1> USE DEF restore_decisions, RegistryInv
<1>1. Entries'
  BY DEF Entries, Decisions
<1>2. OnceEndsWithSession'
  BY DEF OnceEndsWithSession, is_live, Lasting, Allow, Deny, Ask, Decision
<1>3. PromptsAreLive' /\ OneProcessPerSession'
  BY DEF PromptsAreLive, Queued, is_live, Declares, OneProcessPerSession
<1> QED
  BY <1>1, <1>2, <1>3

(* Every step of the registry keeps the promises. *)
LEMMA RegistryStep == RegistryInv /\ [SupervisorNext]_registry => RegistryInv'
<1> SUFFICES ASSUME RegistryInv, [SupervisorNext]_registry PROVE RegistryInv'
  OBVIOUS
<1>1. CASE \E m \in Manifests : \/ LaunchRefused(m)
                                \/ \E s \in AppSessions, p \in Processes : launch(m, s, p)
  BY <1>1, LaunchPreserves, RefusalPreserves
<1>2. CASE \E u \in Uses, d \in Decisions : record_decision(u, d)
  BY <1>2, DecisionPreserves
<1>3. CASE \E r \in Requests : \/ request_consent(r)
                               \/ \E d \in Decisions \cup {None} : resolve_consent(r, d)
  BY <1>3, RequestPreserves, AnswerPreserves
<1>4. CASE \E p \in Processes : record_exit(p)
  BY <1>4, ExitPreserves
<1>5. CASE \E saved \in [Uses -> {Ask} \cup Lasting] : restore_decisions(saved)
  BY <1>5, RestorePreserves
<1>6. CASE NewRegistry
  BY <1>6 DEF NewRegistry, RegistryInv, Entries, OnceEndsWithSession, PromptsAreLive,
     OneProcessPerSession, Queued, Decisions, Ask, Decision
<1>7. CASE UNCHANGED registry
  BY <1>7 DEF registry, RegistryInv, Entries, OnceEndsWithSession, PromptsAreLive,
     OneProcessPerSession, Queued, is_live, Declares
<1> QED
  BY <1>1, <1>2, <1>3, <1>4, <1>5, <1>6, <1>7 DEF SupervisorNext

(* "AllowOnce lasts only for that application session", prompts are of     *)
(* live sessions, and processes, sessions and manifests match one to one:  *)
(* in every order of launches, answers, exits and restarts.                *)
THEOREM RegistryKeepsPromises ==
  SupervisorSpec => [](OnceEndsWithSession /\ PromptsAreLive /\ OneProcessPerSession)
<1>1. SupervisorInit => RegistryInv
  BY NewRegistryHolds DEF SupervisorInit
<1>2. RegistryInv => OnceEndsWithSession /\ PromptsAreLive /\ OneProcessPerSession
  BY DEF RegistryInv
<1> QED
  BY <1>1, <1>2, RegistryStep, PTL DEF SupervisorSpec

-----------------------------------------------------------------------------
USE DEF Throttle, AccountRecord

(* The constants are natural numbers. *)
LEMMA ConstantNumbers ==
  /\ FREE_ATTEMPTS \in Nat /\ FREE_ATTEMPTS >= 1 /\ FREE_ATTEMPTS <= MAX_COUNT
  /\ FIRST_WAIT \in Nat /\ MAX_WAIT \in Nat /\ MAX_COUNT \in Nat
  BY LoginConstants

(* A missing or an empty file is not a record and not a count. *)
LEMMA FileKinds ==
  /\ Absent # Empty
  /\ Absent \notin Records /\ Empty \notin Records
  /\ Absent \notin Nat /\ Empty \notin Nat
  BY LoginConstants DEF Records

(* The waits, one by one. *)
LEMMA Waits ==
  ASSUME NEW f \in Int
  PROVE  /\ f < FREE_ATTEMPTS => throttle_wait(f) = 0
         /\ f = FREE_ATTEMPTS => throttle_wait(f) = Least(FIRST_WAIT, MAX_WAIT)
         /\ f = FREE_ATTEMPTS + 1 => throttle_wait(f) = Least(2 * FIRST_WAIT, MAX_WAIT)
         /\ f = FREE_ATTEMPTS + 2 => throttle_wait(f) = Least(4 * FIRST_WAIT, MAX_WAIT)
         /\ f = FREE_ATTEMPTS + 3 => throttle_wait(f) = Least(8 * FIRST_WAIT, MAX_WAIT)
         /\ f >= FREE_ATTEMPTS + 4 => throttle_wait(f) = MAX_WAIT
<1>1. CASE f < FREE_ATTEMPTS
  BY <1>1, ConstantNumbers DEF throttle_wait
<1>2. CASE f = FREE_ATTEMPTS
  BY <1>2, ConstantNumbers DEF throttle_wait, Least
<1>3. CASE f = FREE_ATTEMPTS + 1
  BY <1>3, ConstantNumbers DEF throttle_wait, Least
<1>4. CASE f = FREE_ATTEMPTS + 2
  BY <1>4, ConstantNumbers DEF throttle_wait, Least
<1>5. CASE f = FREE_ATTEMPTS + 3
  BY <1>5, ConstantNumbers DEF throttle_wait, Least
<1>6. CASE f >= FREE_ATTEMPTS + 4
  BY <1>6, ConstantNumbers DEF throttle_wait
<1> QED
  BY <1>1, <1>2, <1>3, <1>4, <1>5, <1>6, ConstantNumbers

(* A wait is never longer than MAX_WAIT. *)
LEMMA WaitRange ==
  ASSUME NEW f \in Int
  PROVE  throttle_wait(f) \in 0..MAX_WAIT
<1>1. \/ f < FREE_ATTEMPTS \/ f = FREE_ATTEMPTS \/ f = FREE_ATTEMPTS + 1 \/ f = FREE_ATTEMPTS + 2
      \/ f = FREE_ATTEMPTS + 3 \/ f >= FREE_ATTEMPTS + 4
  BY ConstantNumbers
<1> QED
  BY <1>1, Waits, ConstantNumbers DEF Least

(* More failures never mean a shorter wait. *)
LEMMA WaitGrows ==
  ASSUME NEW f \in Int, NEW g \in Int, f <= g
  PROVE  throttle_wait(f) <= throttle_wait(g)
<1>1. \A h \in Int : \/ h < FREE_ATTEMPTS \/ h = FREE_ATTEMPTS \/ h = FREE_ATTEMPTS + 1
                     \/ h = FREE_ATTEMPTS + 2 \/ h = FREE_ATTEMPTS + 3 \/ h >= FREE_ATTEMPTS + 4
  BY ConstantNumbers
<1>2. throttle_wait(f) \in 0..MAX_WAIT /\ throttle_wait(g) \in 0..MAX_WAIT
  BY WaitRange
<1>3. CASE f < FREE_ATTEMPTS \/ g >= FREE_ATTEMPTS + 4
  BY <1>2, <1>3, Waits, ConstantNumbers
<1>4. CASE f >= FREE_ATTEMPTS /\ g < FREE_ATTEMPTS + 4
  BY <1>1, <1>4, Waits, ConstantNumbers DEF Least
<1> QED
  BY <1>3, <1>4, ConstantNumbers

-----------------------------------------------------------------------------
(* What the screens know of the owner: the record of the sign-in screen is *)
(* the one on disk, and who is signed in has an account the store takes.   *)
(* With a broken directory all that is left is the record of the change.   *)
ScreensKnowOwner ==
  /\ screen = "change" => record \in Records
  /\ directory # "broken" =>
       /\ screen = "create" => expected = {}
       /\ screen = "unlock" => account \in Records /\ record = account
       /\ screen = "desktop" => expected # {}
       /\ screen = "change" => expected # {} /\ record.name \in Accepted

OwnerInv == LoginTypeOK /\ ScreensKnowOwner /\ OwnerKeepsAccount

Counted == rejected - unsaved

(* The count on disk, and that of a form, is no less than the rejections   *)
(* that were saved; a form's wait and the time since the last rejection    *)
(* make up what its count calls for.                                       *)
PaceInv ==
  /\ load_failures >= Counted
  /\ screen \in {"unlock", "change"} =>
       /\ throttle.failures >= Counted
       /\ idle + throttle.wait >= throttle_wait(throttle.failures)

-----------------------------------------------------------------------------
(* Types. *)

(* A throttle that is resumed has the type of a throttle. *)
LEMMA ResumeType ==
  ASSUME NEW n \in 0..MAX_COUNT
  PROVE  resume(n).failures = n /\ resume(n).wait = throttle_wait(n) /\ resume(n).wait \in 0..MAX_WAIT
  BY WaitRange, ConstantNumbers DEF resume

(* What is loaded is a count. *)
LEMMA LoadType ==
  ASSUME LoginTypeOK
  PROVE  /\ load_failures \in 0..MAX_COUNT
         /\ stored = Absent => load_failures = 0
         /\ stored = Empty => load_failures = FREE_ATTEMPTS
         /\ stored \in 0..MAX_COUNT => load_failures = stored
  BY ConstantNumbers, FileKinds DEF LoginTypeOK, load_failures

(* Counters saturate. *)
LEMMA IncrementType ==
  ASSUME NEW n \in 0..MAX_COUNT
  PROVE  Increment(n) \in 0..MAX_COUNT /\ (n < MAX_COUNT => Increment(n) = n + 1)
         /\ (n = MAX_COUNT => Increment(n) = n)
  BY ConstantNumbers DEF Increment, Least

(* A rejection keeps the types. *)
LEMMA RejectType ==
  ASSUME LoginTypeOK, NEW back \in {"unlock", "change"}, Reject(back)
  PROVE  LoginTypeOK'
<1> DEFINE n == Increment(throttle.failures)
<1>1. n \in 0..MAX_COUNT /\ Increment(rejected) \in 0..MAX_COUNT /\ Increment(unsaved) \in 0..MAX_COUNT
  BY IncrementType DEF LoginTypeOK
<1>2. stored' \in (0..MAX_COUNT) \cup {Absent, Empty} /\ unsaved' \in 0..MAX_COUNT
  BY <1>1 DEF Reject, StoreFailures, Interrupted, LoginTypeOK
<1>3. /\ throttle'.failures \in 0..MAX_COUNT /\ throttle'.wait \in 0..MAX_WAIT
      /\ record' \in Records \cup {NoRecord}
      /\ screen' \in {"off", "unlock", "change"}
  BY <1>1, ResumeType, ConstantNumbers DEF Reject, Show, Off, Fresh, LoginTypeOK
<1> QED
  BY <1>1, <1>2, <1>3, ConstantNumbers DEF Reject, LoginTypeOK

(* A password that is accepted leaves a file of one of its kinds. *)
LEMMA AcceptType ==
  ASSUME LoginTypeOK, Accept
  PROVE  /\ stored' \in (0..MAX_COUNT) \cup {Absent, Empty}
         /\ rejected' = 0 /\ unsaved' = 0 /\ idle' \in 0..MAX_WAIT
  BY ConstantNumbers DEF LoginTypeOK, Accept, Interrupted

-----------------------------------------------------------------------------
(* The owner keeps the account, action by action. *)
LEMMA OwnerStep == OwnerInv /\ [LoginNext]_login => OwnerInv'
<1> SUFFICES ASSUME OwnerInv, [LoginNext]_login PROVE OwnerInv'
  OBVIOUS
<1> USE ConstantNumbers, FileKinds DEF OwnerInv
<1>0. Fresh.failures = 0 /\ Fresh.wait = 0
  BY DEF Fresh
<1>1. CASE Boot
  <2>1. account \in Records => resume(load_failures).failures \in 0..MAX_COUNT
                               /\ resume(load_failures).wait \in 0..MAX_WAIT
    BY LoadType, ResumeType
  <2>2. LoginTypeOK'
    BY <1>0, <1>1, <2>1 DEF Boot, Show, LoginTypeOK, files, history
  <2>3. ScreensKnowOwner' /\ OwnerKeepsAccount'
    BY <1>1 DEF Boot, Show, ScreensKnowOwner, OwnerKeepsAccount, files, history
  <2> QED
    BY <2>2, <2>3
<1>2. CASE Reset
  BY <1>0, <1>2 DEF Reset, Off, LoginTypeOK, ScreensKnowOwner, OwnerKeepsAccount, files, history
<1>10. CASE DirectoryTorn
  <2>1. LoginTypeOK'
    BY <1>0, <1>10 DEF DirectoryTorn, Off, LoginTypeOK
  <2>2. ScreensKnowOwner' /\ OwnerKeepsAccount'
    BY <1>10 DEF DirectoryTorn, Off, ScreensKnowOwner, OwnerKeepsAccount
  <2> QED
    BY <2>1, <2>2
<1>3. CASE Tick
  <2>1. throttle'.failures = throttle.failures /\ throttle'.wait \in 0..MAX_WAIT
    BY <1>3 DEF Tick, LoginTypeOK
  <2>2. idle' \in 0..MAX_WAIT
    BY <1>3 DEF Tick, LoginTypeOK, Least
  <2> QED
    BY <1>3, <2>1, <2>2 DEF Tick, LoginTypeOK, ScreensKnowOwner, OwnerKeepsAccount, files
<1>4. CASE \E n \in Names, p \in Passwords : create(n, p)
  <2> PICK n \in Names, p \in Passwords : create(n, p)
    BY <1>4
  <2> DEFINE new == AccountRecord(n, p)
  <2>1. new \in Records /\ new.name = n /\ new.password = p
    BY DEF Records
  <2>2. account' \in Records \cup {Absent, Empty}
    BY <2>1 DEF create, Interrupted, LoginTypeOK
  <2>3. LoginTypeOK'
    BY <1>0, <2>2 DEF create, Show, Off, LoginTypeOK
  <2>4. ScreensKnowOwner' /\ OwnerKeepsAccount'
    BY <2>1 DEF create, Show, Off, ScreensKnowOwner, OwnerKeepsAccount
  <2> QED
    BY <2>3, <2>4
<1>5. CASE \E p \in Passwords : unlock(p)
  <2> PICK p \in Passwords : unlock(p)
    BY <1>5
  <2>1. CASE ~Opens(p) /\ Reject("unlock")
    <3>1. LoginTypeOK'
      BY <2>1, RejectType
    <3>2. ScreensKnowOwner' /\ OwnerKeepsAccount'
      BY <2>1 DEF unlock, Reject, Show, Off, ScreensKnowOwner, OwnerKeepsAccount
    <3> QED
      BY <3>1, <3>2
  <2>2. CASE Opens(p) /\ Accept
    <3>1. LoginTypeOK'
      BY <1>0, <2>2, AcceptType DEF unlock, Show, Off, LoginTypeOK, Reject
    <3>2. ScreensKnowOwner' /\ OwnerKeepsAccount'
      BY <2>2 DEF unlock, Opens, Accept, Show, Off, ScreensKnowOwner, OwnerKeepsAccount
    <3> QED
      BY <3>1, <3>2
  <2> QED
    BY <2>1, <2>2 DEF unlock
<1>6. CASE OpenChange
  <2>1. resume(load_failures).failures \in 0..MAX_COUNT /\ resume(load_failures).wait \in 0..MAX_WAIT
    BY LoadType, ResumeType
  <2>2. LoginTypeOK'
    BY <1>6, <2>1 DEF OpenChange, Show, LoginTypeOK, files, history
  <2>3. ScreensKnowOwner' /\ OwnerKeepsAccount'
    BY <1>6 DEF OpenChange, Show, ScreensKnowOwner, OwnerKeepsAccount, files, history
  <2> QED
    BY <2>2, <2>3
<1>7. CASE CancelChange
  BY <1>0, <1>7 DEF CancelChange, Show, LoginTypeOK, ScreensKnowOwner, OwnerKeepsAccount, files, history
<1>8. CASE \E current, p \in Passwords : submit(current, p)
  <2> PICK current \in Passwords, p \in Passwords : submit(current, p)
    BY <1>8
  <2>1. CASE current # record.password /\ Reject("change")
    <3>1. LoginTypeOK'
      BY <2>1, RejectType
    <3>2. ScreensKnowOwner' /\ OwnerKeepsAccount'
      BY <2>1 DEF submit, Reject, Show, Off, ScreensKnowOwner, OwnerKeepsAccount
    <3> QED
      BY <3>1, <3>2
  <2>2. CASE current = record.password /\ Accept
    <3> DEFINE new == AccountRecord(record.name, p)
    <3>1. new \in Records /\ new.name = record.name /\ new.password = p
      BY DEF submit, ScreensKnowOwner, Records
    <3>2. CASE Replaced(new, TRUE) /\ Show("desktop", NoRecord, Fresh) /\ expected' = {p}
      <4>1. /\ account' \in {account, new, Empty} /\ next' \in {next, new, Absent, Empty}
            /\ directory' = directory /\ (directory # "broken" => account' = new)
        BY <3>2 DEF Replaced
      <4>2. LoginTypeOK'
        BY <1>0, <2>2, <3>1, <3>2, <4>1, AcceptType DEF Show, LoginTypeOK
      <4>3. ScreensKnowOwner' /\ OwnerKeepsAccount'
        BY <3>1, <3>2, <4>1 DEF submit, Show, ScreensKnowOwner, OwnerKeepsAccount
      <4> QED
        BY <4>2, <4>3
    <3>3. CASE /\ Replaced(new, FALSE)
               /\ Show("change", record, Fresh) \/ Off
               /\ expected' = expected \cup {p}
      <4>1. /\ account' \in {account, new, Empty} /\ next' \in {account, next, new, Absent, Empty}
            /\ directory' \in {directory, "shared", "broken"}
            /\ directory' # "broken" => directory # "broken" /\ account' \in {account, new}
        BY <3>3 DEF Replaced, ReplacedShared, Swapping, Interrupted
      <4>2. LoginTypeOK'
        BY <1>0, <2>2, <3>1, <3>3, <4>1, AcceptType DEF Show, Off, LoginTypeOK
      <4>3. ScreensKnowOwner' /\ OwnerKeepsAccount'
        BY <3>1, <3>3, <4>1 DEF submit, Show, Off, ScreensKnowOwner, OwnerKeepsAccount
      <4> QED
        BY <4>2, <4>3
    <3> QED
      BY <2>2, <3>2, <3>3, Zenon DEF submit
  <2> QED
    BY <2>1, <2>2, Zenon DEF submit
<1>9. CASE UNCHANGED login
  BY <1>9 DEF login, LoginTypeOK, ScreensKnowOwner, OwnerKeepsAccount
<1> QED
  BY <1>1, <1>2, <1>3, <1>4, <1>5, <1>6, <1>7, <1>8, <1>9, <1>10 DEF LoginNext

(* Nobody has an account at first. *)
LEMMA OwnerInit == LoginInit => OwnerInv
  BY ConstantNumbers DEF LoginInit, OwnerInv, LoginTypeOK, ScreensKnowOwner, OwnerKeepsAccount, Fresh

(* Once an owner was created, the file owner-account always holds a record *)
(* that one of the owner's passwords opens, also when power is lost or a   *)
(* write fails between the two sectors of a replacement; this ends with a  *)
(* directory torn by the adding or renaming of a name, and with a further  *)
(* change of the password while both names lead to one inode.              *)
THEOREM OwnerKeepsAccountAlways == LoginSpec => [](LoginTypeOK /\ OwnerKeepsAccount)
<1>1. OwnerInv => LoginTypeOK /\ OwnerKeepsAccount
  BY DEF OwnerInv
<1> QED
  BY <1>1, OwnerInit, OwnerStep, PTL DEF LoginSpec

-----------------------------------------------------------------------------
(* Guesses are paced. *)

(* A rejection is counted on disk, or counted as not saved. *)
LEMMA RejectPaces ==
  ASSUME LoginTypeOK, LoginTypeOK', PaceInv, screen \in {"unlock", "change"},
         NEW back \in {"unlock", "change"}, Reject(back)
  PROVE  PaceInv'
<1> DEFINE n == Increment(throttle.failures)
<1> USE ConstantNumbers, FileKinds
<1>1. /\ n \in 0..MAX_COUNT
      /\ throttle.failures < MAX_COUNT => n = throttle.failures + 1
      /\ throttle.failures = MAX_COUNT => n = MAX_COUNT
  BY IncrementType DEF LoginTypeOK
<1>2. rejected \in 0..MAX_COUNT /\ rejected' \in 0..MAX_COUNT /\ rejected' <= rejected + 1
  BY IncrementType DEF Reject, LoginTypeOK
<1>3. unsaved \in 0..MAX_COUNT /\ throttle.failures \in 0..MAX_COUNT
      /\ throttle.failures >= rejected - unsaved
  BY DEF LoginTypeOK, PaceInv, Counted
<1>4. n >= rejected' - unsaved
  BY <1>1, <1>2, <1>3
<1>5. unsaved' \in 0..MAX_COUNT /\ unsaved' >= unsaved
  BY <1>3, IncrementType DEF Reject, StoreFailures, LoginTypeOK
<1>6. load_failures' \in 0..MAX_COUNT /\ load_failures' >= Counted'
  <2>1. load_failures \in 0..MAX_COUNT /\ load_failures >= rejected - unsaved
    BY LoadType DEF PaceInv, Counted
  <2>2. CASE stored' = n
    <3>1. load_failures' = n /\ unsaved' = unsaved
      BY <1>1, <2>2 DEF Reject, StoreFailures, load_failures
    <3> QED
      BY <1>1, <1>4, <3>1 DEF Counted
  <2>3. CASE stored' # n
    <3>1. unsaved' = Increment(unsaved)
      BY <2>3 DEF Reject, StoreFailures
    <3>2. rejected' - unsaved' <= rejected - unsaved \/ rejected' - unsaved' <= 0
      BY <1>2, <1>3, <3>1, IncrementType
    <3>3. Counted \in Int /\ Counted' \in Int
      BY <1>2, <1>3, <1>5 DEF Counted
    <3>4. Counted' <= Counted \/ Counted' <= 0
      BY <3>2 DEF Counted
    <3>5. load_failures \in Int /\ load_failures >= 0 /\ load_failures >= Counted
      BY <2>1 DEF Counted
    <3>6. stored' = stored \/ (stored = Absent /\ stored' = Empty)
      BY <2>3 DEF Reject, StoreFailures, Interrupted
    <3>7. CASE stored' = stored
      <4>1. load_failures' = load_failures
        BY <3>7 DEF load_failures
      <4> QED
        BY <2>1, <3>3, <3>4, <3>5, <4>1
    <3>8. CASE stored = Absent /\ stored' = Empty
      <4>1. load_failures = 0 /\ load_failures' = FREE_ATTEMPTS
        BY <3>8 DEF load_failures
      <4> QED
        BY <3>3, <3>4, <3>5, <4>1
    <3> QED
      BY <3>6, <3>7, <3>8
  <2> QED
    BY <2>2, <2>3
<1>7. screen' \in {"unlock", "change"} =>
        /\ throttle'.failures = n /\ throttle'.wait = throttle_wait(n)
  BY <1>1, ResumeType DEF Reject, Show, Off
<1>8. throttle_wait(n) \in 0..MAX_WAIT /\ idle' = 0
  BY <1>1, WaitRange DEF Reject
<1>9. n >= rejected' - unsaved'
  BY <1>1, <1>2, <1>3, <1>4, <1>5
<1>10. screen' \in {"unlock", "change"} => throttle'.failures >= Counted'
  BY <1>7, <1>9 DEF Counted
<1>11. screen' \in {"unlock", "change"} => idle' + throttle'.wait >= throttle_wait(throttle'.failures)
  BY <1>7, <1>8
<1> QED
  BY <1>6, <1>10, <1>11 DEF PaceInv, throttle_wait

(* An accepted password clears the count. *)
LEMMA AcceptPaces ==
  ASSUME LoginTypeOK, LoginTypeOK', Accept,
         screen' \in {"unlock", "change"} => throttle' = Fresh
  PROVE  PaceInv'
<1> USE ConstantNumbers, FileKinds
<1>1. Counted' = 0
  BY DEF Accept, Counted
<1>2. load_failures' >= 0
  BY DEF LoginTypeOK, load_failures
<1>3. throttle_wait(0) = 0
  BY Waits
<1>4. idle' >= 0
  BY DEF LoginTypeOK
<1> QED
  BY <1>1, <1>2, <1>3, <1>4 DEF PaceInv, Fresh, LoginTypeOK

(* A form that is opened takes the count from the disk. *)
LEMMA OpeningPaces ==
  ASSUME LoginTypeOK, PaceInv, UNCHANGED <<files, history>>,
         screen' \in {"unlock", "change"} => throttle' = resume(load_failures)
  PROVE  PaceInv'
<1>1. load_failures' = load_failures /\ Counted' = Counted /\ idle' = idle
  BY DEF files, history, load_failures, Counted
<1>2. load_failures \in 0..MAX_COUNT
  BY LoadType
<1>3. resume(load_failures).failures = load_failures
      /\ resume(load_failures).wait = throttle_wait(load_failures)
      /\ resume(load_failures).wait \in 0..MAX_WAIT
  BY <1>2, ResumeType
<1> QED
  BY <1>1, <1>2, <1>3, ConstantNumbers DEF PaceInv, LoginTypeOK

(* Every step keeps the counts and the waits in step. *)
LEMMA PaceStep == OwnerInv /\ PaceInv /\ OwnerInv' /\ [LoginNext]_login => PaceInv'
<1> SUFFICES ASSUME OwnerInv, PaceInv, OwnerInv', [LoginNext]_login PROVE PaceInv'
  OBVIOUS
<1> USE DEF OwnerInv
<1>1. CASE Boot \/ Reset \/ OpenChange \/ CancelChange
  <2>1. UNCHANGED <<files, history>> /\ (screen' \in {"unlock", "change"} => throttle' = resume(load_failures))
    BY <1>1 DEF Boot, Reset, Off, OpenChange, CancelChange, Show
  <2> QED
    BY <2>1, OpeningPaces
<1>7. CASE DirectoryTorn
  <2>1. screen' = "off" /\ Counted' \in {Counted, 0} /\ (stored' = stored => Counted' = Counted)
    BY <1>7, ConstantNumbers DEF DirectoryTorn, Off, Counted, LoginTypeOK
  <2>2. CASE stored' = stored
    BY <2>1, <2>2, Zenon DEF PaceInv, load_failures
  <2>3. CASE stored' # stored
    <3>1. Counted' = 0
      BY <1>7, <2>3, ConstantNumbers DEF DirectoryTorn, Counted, LoginTypeOK
    <3>2. load_failures' \in {0, FREE_ATTEMPTS}
      BY <1>7, <2>3, FileKinds DEF DirectoryTorn, load_failures
    <3> QED
      BY <2>1, <3>1, <3>2, ConstantNumbers DEF PaceInv
  <2> QED
    BY <2>2, <2>3
<1>2. CASE Tick
  <2>1. load_failures' = load_failures /\ Counted' = Counted /\ screen' = screen
    BY <1>2 DEF Tick, files, load_failures, Counted
  <2>2. throttle'.failures = throttle.failures
        /\ throttle'.wait = IF throttle.wait = 0 THEN 0 ELSE throttle.wait - 1
    BY <1>2 DEF Tick, LoginTypeOK
  <2>3. idle' = IF idle + 1 <= MAX_WAIT THEN idle + 1 ELSE MAX_WAIT
    BY <1>2 DEF Tick, Least
  <2>4. throttle_wait(throttle.failures) \in 0..MAX_WAIT
    BY WaitRange, ConstantNumbers DEF LoginTypeOK
  <2>5. throttle.wait \in 0..MAX_WAIT /\ idle \in 0..MAX_WAIT
    BY DEF LoginTypeOK
  <2> QED
    BY <2>1, <2>2, <2>3, <2>4, <2>5, ConstantNumbers DEF PaceInv
<1>3. CASE \E n \in Names, p \in Passwords : create(n, p)
  BY <1>3 DEF create, Show, Off, PaceInv, load_failures, Counted
<1>4. CASE \E p \in Passwords : unlock(p)
  BY <1>4, RejectPaces, AcceptPaces DEF unlock, Show, Off
<1>5. CASE \E current, p \in Passwords : submit(current, p)
  BY <1>5, RejectPaces, AcceptPaces, Zenon DEF submit, Show, Off
<1>6. CASE UNCHANGED login
  BY <1>6 DEF login, PaceInv, load_failures, Counted
<1> QED
  BY <1>1, <1>2, <1>3, <1>4, <1>5, <1>6, <1>7 DEF LoginNext

(* A guess needs a wait that has run out, and so the time since the last   *)
(* rejection is long enough.                                               *)
LEMMA GuessIsPaced ==
  ASSUME LoginTypeOK, PaceInv, Guess
  PROVE  idle >= throttle_wait(rejected - unsaved)
<1>1. screen \in {"unlock", "change"} /\ throttle.wait = 0
  BY Zenon DEF Guess, unlock, submit
<1>2. rejected - unsaved \in Int /\ throttle.failures \in Int /\ idle \in Int
  BY ConstantNumbers DEF LoginTypeOK
<1>3. throttle_wait(rejected - unsaved) <= throttle_wait(throttle.failures)
  BY <1>1, <1>2, WaitGrows DEF PaceInv, Counted
<1>4. throttle_wait(rejected - unsaved) \in Int /\ throttle_wait(throttle.failures) \in Int
  BY <1>2, WaitRange, ConstantNumbers
<1> QED
  BY <1>1, <1>2, <1>3, <1>4 DEF PaceInv

(* "Restarting does not skip the wait": no password is checked before the  *)
(* wait that the rejected and saved ones call for has passed.              *)
THEOREM GuessesArePacedAlways == LoginSpec => GuessesArePaced
<1>1. LoginInit => PaceInv
  <2>1. throttle_wait(0) = 0
    BY Waits, ConstantNumbers
  <2> QED
    BY <2>1, FileKinds, ConstantNumbers DEF LoginInit, PaceInv, Counted, load_failures, Fresh
<1>2. OwnerInv /\ PaceInv => [Guess => idle >= throttle_wait(rejected - unsaved)]_login
  BY GuessIsPaced DEF OwnerInv
<1> QED
  BY <1>1, <1>2, OwnerInit, OwnerStep, PaceStep, PTL DEF LoginSpec, GuessesArePaced
=============================================================================
