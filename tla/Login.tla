-------------------------------- MODULE Login --------------------------------
(***************************************************************************)
(* The owner account: the sign-in screen and the password change           *)
(* (user/nagi-init/src/login_screen.rs), the throttle on wrong passwords   *)
(* (libnagi/src/login.rs) and the three files they keep in User Data.      *)
(*                                                                         *)
(* A form is submitted with a name and passwords that it has validated;    *)
(* what a credential is derived from is the password itself.  Time is      *)
(* counted in steps of the first wait, and the throttle keeps what is left *)
(* of a wait.  Each file is one sector long: a write that is cut short or  *)
(* fails leaves the old file, the new one, or an empty one if there was    *)
(* none.  The directory that names the files lies in two sectors, written  *)
(* one after the other (Volume): it is "sound", or the names owner-account *)
(* and owner-account-next are "shared", that is lead to one inode, or it   *)
(* is "broken", that is a name may be lost, be found Corrupt or lead to an *)
(* inode that was given back.  A file that cannot be read is Empty.        *)
(*                                                                         *)
(* History variables: `rejected' counts passwords rejected since one was   *)
(* accepted, `unsaved' how many of them the file login-throttle has lost,  *)
(* `idle' the time since the last rejection, `expected' the passwords of   *)
(* which the owner has been told, or may suppose, that one opens the       *)
(* account.                                                                *)
(***************************************************************************)
EXTENDS Integers

CONSTANTS
  Names, Passwords,
  Accepted,           \* the names AccountStore takes (MAX_ACCOUNT_NAME)
  FREE_ATTEMPTS, FIRST_WAIT, MAX_WAIT,
  MAX_COUNT,          \* u32::MAX
  Absent, Empty

ASSUME LoginConstants ==
  /\ Accepted \subseteq Names
  /\ {FREE_ATTEMPTS, FIRST_WAIT, MAX_WAIT, MAX_COUNT} \subseteq Nat
  /\ FREE_ATTEMPTS \in 1..MAX_COUNT
  /\ Absent # Empty
  /\ \A f \in {Absent, Empty} : /\ f \notin Nat
                                /\ \A n \in Names, p \in Passwords : f # [name |-> n, password |-> p]

VARIABLES
  account, next,      \* owner-account and owner-account-next
  stored,             \* login-throttle
  directory,          \* how the names of the files stand
  screen, record, throttle,
  rejected, unsaved, idle, expected

files == <<account, next, stored, directory>>
history == <<rejected, unsaved, idle, expected>>
login == <<account, next, stored, directory, screen, record, throttle, rejected, unsaved, idle, expected>>

AccountRecord(n, p) == [name |-> n, password |-> p]
Records == {AccountRecord(n, p) : n \in Names, p \in Passwords}
NoRecord == AccountRecord(Absent, Absent)

Throttle(failures, wait) == [failures |-> failures, wait |-> wait]

Least(a, b) == IF a <= b THEN a ELSE b

throttle_wait(failures) ==
  LET doublings == failures - FREE_ATTEMPTS IN
  IF doublings < 0 THEN 0
  ELSE IF doublings >= 4 THEN MAX_WAIT
  ELSE Least(FIRST_WAIT * <<1, 2, 4, 8>>[doublings + 1], MAX_WAIT)

(* Mutant: the wait is not started again. *)
ResumeFree(failures) == Throttle(failures, 0)

resume(failures) == Throttle(failures, throttle_wait(failures))

Fresh == Throttle(0, 0)

LoginInit ==
  /\ account = Absent /\ next = Absent /\ stored = Absent /\ directory = "sound"
  /\ screen = "off" /\ record = NoRecord /\ throttle = Fresh
  /\ rejected = 0 /\ unsaved = 0 /\ idle = 0 /\ expected = {}

(* A file after a write of new that failed or was cut short. *)
Interrupted(old, new) == {old, new} \cup (IF old = Absent THEN {Empty} ELSE {})

load_failures ==
  IF stored = Absent THEN 0 ELSE IF stored = Empty THEN FREE_ATTEMPTS ELSE stored

(* Power is lost: nothing but the files is left. *)
Off == screen' = "off" /\ record' = NoRecord /\ throttle' = Fresh

Show(s, r, t) == screen' = s /\ record' = r /\ throttle' = t

-----------------------------------------------------------------------------
(* load, LoginScreen::new and resume_throttle. *)
Boot ==
  /\ screen = "off"
  /\ \/ account = Absent /\ Show("create", NoRecord, Fresh)
     \/ account = Empty /\ Show("unavailable", NoRecord, Fresh)
     \/ account \in Records /\ Show("unlock", account, resume(load_failures))
  /\ UNCHANGED <<files, history>>

Reset ==
  /\ screen # "off"
  /\ Off
  /\ UNCHANGED <<files, history>>

(* Power is lost between the two sectors of the directory while somebody   *)
(* adds a name to it or renames one in it (VolumeDisk!Rewritten): any name *)
(* may be lost with its file, or be found Corrupt.                         *)
DirectoryTorn ==
  /\ screen # "off"
  /\ account' \in {account, Absent, Empty}
  /\ next' \in {next, Absent, Empty}
  /\ stored' \in {stored, Absent, Empty}
  /\ directory' = "broken"
  /\ Off
  /\ unsaved' = IF stored' = stored THEN unsaved ELSE rejected
  /\ UNCHANGED <<rejected, idle, expected>>

(* The clock, also of a machine that is off. *)
Tick ==
  /\ throttle' = [throttle EXCEPT !.wait = IF throttle.wait = 0 THEN 0 ELSE throttle.wait - 1]
  /\ idle' = Least(idle + 1, MAX_WAIT)
  /\ UNCHANGED <<files, screen, record, rejected, unsaved, expected>>

-----------------------------------------------------------------------------
(* First run.  The account is written in place; if the account store       *)
(* refuses the name, the form stays.                                       *)
create(n, p) ==
  LET new == AccountRecord(n, p) IN
  /\ screen = "create"
  /\ \/ /\ account' = new
        /\ IF n \in Accepted
             THEN Show("desktop", NoRecord, Fresh) /\ expected' = {p}
             ELSE Show("create", NoRecord, Fresh) /\ UNCHANGED expected
     \/ /\ account' \in Interrupted(account, new)
        /\ Show("create", NoRecord, Fresh) \/ Off
        /\ UNCHANGED expected
  /\ UNCHANGED <<next, stored, directory, rejected, unsaved, idle>>

-----------------------------------------------------------------------------
(* saturating_add. *)
Increment(n) == Least(n + 1, MAX_COUNT)

(* store_failures.  That the count could not be saved is only reported. *)
StoreFailures(n) ==
  /\ stored' \in Interrupted(stored, n)
  /\ unsaved' = IF stored' = n THEN unsaved ELSE Increment(unsaved)

(* record_failure, and the count is saved; power may be lost meanwhile. *)
Reject(back) ==
  LET failures == Increment(throttle.failures) IN
  /\ rejected' = Increment(rejected)
  /\ idle' = 0
  /\ StoreFailures(failures)
  /\ Show(back, record, resume(failures)) \/ Off
  /\ UNCHANGED <<account, next, directory, expected>>

(* record_success. *)
Accept ==
  /\ rejected' = 0 /\ unsaved' = 0
  /\ stored' \in Interrupted(stored, 0)
  /\ UNCHANGED idle

(* sign_in: the account goes through an AccountStore. *)
Opens(p) == record.name \in Accepted /\ record.password = p

(* While throttled the password is not even checked. *)
unlock(p) ==
  /\ screen = "unlock"
  /\ throttle.wait = 0
  /\ \/ ~Opens(p) /\ Reject("unlock")
     \/ /\ Opens(p)
        /\ Accept
        /\ Show("desktop", NoRecord, Fresh) \/ Off
        /\ expected' = {p}
        /\ UNCHANGED <<account, next, directory>>

-----------------------------------------------------------------------------
(* Changing the password. *)

(* PasswordChangeScreen::open. *)
OpenChange ==
  /\ screen = "desktop"
  /\ account \in Records
  /\ Show("change", account, resume(load_failures))
  /\ UNCHANGED <<files, history>>

CancelChange ==
  /\ screen = "change"
  /\ Show("desktop", NoRecord, Fresh)
  /\ UNCHANGED <<files, history>>

(* Mutant: the record is written in place, over a new file. *)
ReplacedInPlace(new, done) ==
  /\ IF done THEN account' = new ELSE account' \in Interrupted(Absent, new)
  /\ UNCHANGED <<next, directory>>

(* replace between the two sectors of the directory: owner-account has the *)
(* new inode, which owner-account-next keeps, or only the latter is gone.  *)
Swapping(new) ==
  \/ account' = new /\ next' = new /\ directory' = "shared"
  \/ account' = account /\ next' = Absent /\ UNCHANGED directory

(* Both names lead to one inode: the new record is written over the old    *)
(* one, then replace gives back the inode that owner-account leads to and  *)
(* fails.                                                                  *)
ReplacedShared(new) ==
  \/ account' \in {account, new} /\ next' = account' /\ UNCHANGED directory
  \/ account' = Empty /\ next' = Absent /\ directory' = "broken"

(* persist_replacing.  If it is not done, the new record may be in place   *)
(* all the same.  Once the directory is broken anything may come of it.    *)
Replaced(new, done) ==
  \/ /\ directory = "sound"
     /\ \/ account' = new /\ next' = Absent /\ UNCHANGED directory
        \/ ~done /\ next' \in Interrupted(next, new) /\ UNCHANGED <<account, directory>>
        \/ ~done /\ Swapping(new)
  \/ directory = "shared" /\ ~done /\ ReplacedShared(new)
  \/ /\ directory = "broken"
     /\ account' \in {account, new, Empty} /\ next' \in {next, new, Absent, Empty}
     /\ UNCHANGED directory

submit(current, p) ==
  LET new == AccountRecord(record.name, p) IN
  /\ screen = "change"
  /\ current # p
  /\ throttle.wait = 0
  /\ \/ current # record.password /\ Reject("change")
     \/ /\ current = record.password
        /\ Accept
        /\ \/ Replaced(new, TRUE) /\ Show("desktop", NoRecord, Fresh) /\ expected' = {p}
           \/ /\ Replaced(new, FALSE)
              /\ Show("change", record, Fresh) \/ Off
              /\ expected' = expected \cup {p}

LoginNext ==
  \/ Boot \/ Reset \/ DirectoryTorn \/ Tick
  \/ \E n \in Names, p \in Passwords : create(n, p)
  \/ \E p \in Passwords : unlock(p)
  \/ OpenChange \/ CancelChange
  \/ \E current, p \in Passwords : submit(current, p)

LoginSpec == LoginInit /\ [][LoginNext]_login

-----------------------------------------------------------------------------
(* A file is missing, empty or what was written; the counts are u32.       *)
LoginTypeOK ==
  /\ {account, next} \subseteq Records \cup {Absent, Empty}
  /\ stored \in (0..MAX_COUNT) \cup {Absent, Empty}
  /\ directory \in {"sound", "shared", "broken"}
  /\ screen \in {"off", "create", "unlock", "unavailable", "desktop", "change"}
  /\ record \in Records \cup {NoRecord}
  /\ throttle.failures \in 0..MAX_COUNT /\ throttle.wait \in 0..MAX_WAIT
  /\ {rejected, unsaved} \subseteq 0..MAX_COUNT
  /\ idle \in 0..MAX_WAIT
  /\ expected \subseteq Passwords

(* Once an owner has been created the account is never "missing or         *)
(* half-written", whatever fails and wherever power is lost, also between  *)
(* the two sectors that replace writes: later boots find a record the      *)
(* account store takes, and one of the passwords the owner was told of, or *)
(* was trying to set, opens it.  This ends with a directory that is        *)
(* broken: torn while a name was added or renamed, or left with both names *)
(* on one inode and then given to another change of the password.          *)
OwnerKeepsAccount ==
  expected # {} /\ directory # "broken" =>
    /\ account \in Records
    /\ account.name \in Accepted
    /\ account.password \in expected

Guess ==
  \/ \E p \in Passwords : unlock(p)
  \/ \E current, p \in Passwords : submit(current, p)

(* No password is checked before the wait has passed that the passwords    *)
(* rejected so far call for, on either screen, by closing and opening the  *)
(* form or by restarting: "restarting does not skip the wait".  A          *)
(* rejection is forgiven only if saving it failed, or if the count was     *)
(* lost with a torn directory.                                             *)
GuessesArePaced == [][Guess => idle >= throttle_wait(rejected - unsaved)]_login
=============================================================================
