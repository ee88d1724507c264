----------------------------- MODULE Supervisor -----------------------------
(***************************************************************************)
(* Launched applications and what they may do: the registry of             *)
(* libnagi/src/launch.rs, which init keeps behind one lock                 *)
(* (user/nagi-init/src/supervisor.rs).  An application session may use a   *)
(* capability while it is live, if its signed manifest asks for it and the *)
(* user has allowed it.                                                    *)
(*                                                                         *)
(* The tables are sets and functions: nothing but the table of prompts is  *)
(* read in the order of its slots.  A decision that is not recorded is     *)
(* Ask.  A call that fails changes nothing and has no action.              *)
(***************************************************************************)
EXTENDS Integers, FiniteSets

CONSTANTS
  Manifests,                \* what signed packages declare: [app, grants]
  AppSessions, Processes,
  Capabilities,
  None,
  MAX_APP_MANIFESTS, MAX_LIVE_LAUNCHES, MAX_CONSENT_DECISIONS, MAX_PENDING_CONSENTS

Apps == {m.app : m \in Manifests}

Launch(p, a, s) == [process |-> p, app |-> a, session |-> s]
Decision(kind, s) == [kind |-> kind, session |-> s]
Request(a, s, c) == [app |-> a, session |-> s, capability |-> c]

Ask == Decision("Ask", None)
Allow == Decision("Allow", None)
Deny == Decision("Deny", None)
AllowOnce(s) == Decision("AllowOnce", s)
NoRequest == Request(None, None, None)

Uses == Apps \X Capabilities
Lasting == {Allow, Deny}
Decisions == {Ask} \cup Lasting \cup {AllowOnce(s) : s \in AppSessions}
Requests == {Request(a, s, c) : a \in Apps, s \in AppSessions, c \in Capabilities}
Prompts == 1..MAX_PENDING_CONSENTS

ASSUME SupervisorConstants ==
  /\ \A m \in Manifests : m = [app |-> m.app, grants |-> m.grants] /\ m.grants \subseteq Capabilities
  /\ None \notin AppSessions \cup Decisions
  /\ MAX_PENDING_CONSENTS \in Nat

VARIABLES
  manifests,    \* the declarations registered so far
  launches,     \* live launches: [process, app, session]
  consents,     \* the user's decision for each use <<app, capability>>
  pending       \* slots of prompts that wait for the dialog

registry == <<manifests, launches, consents, pending>>

(* LaunchRegistry::new. *)
NewRegistry ==
  /\ manifests' = {} /\ launches' = {}
  /\ consents' = [u \in Uses |-> Ask]
  /\ pending' = [i \in Prompts |-> NoRequest]

SupervisorInit ==
  /\ manifests = {} /\ launches = {}
  /\ consents = [u \in Uses |-> Ask]
  /\ pending = [i \in Prompts |-> NoRequest]

-----------------------------------------------------------------------------
(* Launching. *)

is_live(a, s) == \E l \in launches : l.app = a /\ l.session = s

(* register_or_match: packages of one application must agree. *)
CanRegister(m) ==
  \/ m \in manifests
  \/ /\ \A n \in manifests : n.app # m.app
     /\ Cardinality(manifests) < MAX_APP_MANIFESTS

check_launch(a, s) == ~is_live(a, s) /\ Cardinality(launches) < MAX_LIVE_LAUNCHES

(* supervisor::launch and record_launch; the kernel has just given the     *)
(* process ID p to the new process.                                        *)
launch(m, s, p) ==
  /\ CanRegister(m)
  /\ check_launch(m.app, s)
  /\ \A l \in launches : l.process # p
  /\ manifests' = manifests \cup {m}
  /\ launches' = launches \cup {Launch(p, m.app, s)}
  /\ UNCHANGED <<consents, pending>>

(* The launch is refused, or the process cannot be spawned, after the      *)
(* manifest was registered.                                                *)
LaunchRefused(m) ==
  /\ CanRegister(m)
  /\ manifests' = manifests \cup {m}
  /\ UNCHANGED <<launches, consents, pending>>

-----------------------------------------------------------------------------
(* Decisions and prompts. *)

check_grant(a, s, c) ==
  LET d == consents[<<a, c>>] IN
  IF ~is_live(a, s) THEN "NotLive"
  ELSE IF \A m \in manifests : m.app = a => c \notin m.grants THEN "NotDeclared"
  ELSE IF d \in {Allow, AllowOnce(s)} THEN "Granted"
  ELSE IF d = Deny THEN "Denied"
  ELSE "ConsentRequired"

Recorded == {u \in Uses : consents[u] # Ask}

CanRecord(u, d) ==
  /\ d.kind = "AllowOnce" => is_live(u[1], d.session)
  /\ d = Ask \/ u \in Recorded \/ Cardinality(Recorded) < MAX_CONSENT_DECISIONS

(* The user is the owner who is signed in; Ask withdraws a decision. *)
record_decision(u, d) ==
  /\ CanRecord(u, d)
  /\ consents' = [consents EXCEPT ![u] = d]
  /\ UNCHANGED <<manifests, launches, pending>>

Queued == {pending[i] : i \in Prompts} \ {NoRequest}
FreePrompts == {i \in Prompts : pending[i] = NoRequest}
First(I) == CHOOSE i \in I : \A j \in I : i <= j

(* Repeated requests share one prompt. *)
request_consent(r) ==
  /\ check_grant(r.app, r.session, r.capability) = "ConsentRequired"
  /\ \/ r \in Queued /\ UNCHANGED pending
     \/ /\ r \notin Queued
        /\ FreePrompts # {}
        /\ pending' = [pending EXCEPT ![First(FreePrompts)] = r]
  /\ UNCHANGED <<manifests, launches, consents>>

next_consent_request ==
  IF Queued = {} THEN NoRequest ELSE pending[First(Prompts \ FreePrompts)]

(* The prompt stays if the decision cannot be recorded.  A dismissed       *)
(* dialog decides nothing.                                                 *)
resolve_consent(r, d) ==
  LET u == <<r.app, r.capability>> IN
  /\ r \in Queued
  /\ d # None => CanRecord(u, d)
  /\ consents' = IF d = None THEN consents ELSE [consents EXCEPT ![u] = d]
  /\ pending' = [pending EXCEPT ![First({i \in Prompts : pending[i] = r})] = NoRequest]
  /\ UNCHANGED <<manifests, launches>>

-----------------------------------------------------------------------------
(* The end of a process, and a restart. *)

(* Mutant: decisions that were given to the session stay. *)
ExitKeepingOnce(p) ==
  \E l \in launches :
    /\ l.process = p
    /\ launches' = launches \ {l}
    /\ pending' = [i \in Prompts |-> IF pending[i].app = l.app /\ pending[i].session = l.session
                                       THEN NoRequest ELSE pending[i]]
    /\ UNCHANGED <<manifests, consents>>

(* supervisor::reap and record_exit: the session ends, with what it was    *)
(* allowed for its lifetime and with its prompts.                          *)
record_exit(p) ==
  \E l \in launches :
    /\ l.process = p
    /\ launches' = launches \ {l}
    /\ consents' = [u \in Uses |-> IF u[1] = l.app /\ consents[u] = AllowOnce(l.session)
                                     THEN Ask ELSE consents[u]]
    /\ pending' = [i \in Prompts |-> IF pending[i].app = l.app /\ pending[i].session = l.session
                                       THEN NoRequest ELSE pending[i]]
    /\ UNCHANGED manifests

(* encode_decisions: what outlives a restart. *)
encode_decisions == [u \in Uses |-> IF consents[u] \in Lasting THEN consents[u] ELSE Ask]

(* All or nothing. *)
restore_decisions(saved) ==
  LET restored == [u \in Uses |-> IF saved[u] = Ask THEN consents[u] ELSE saved[u]] IN
  /\ Cardinality({u \in Uses : restored[u] # Ask}) <= MAX_CONSENT_DECISIONS
  /\ consents' = restored
  /\ UNCHANGED <<manifests, launches, pending>>

SupervisorNext ==
  \/ \E m \in Manifests : \/ LaunchRefused(m)
                          \/ \E s \in AppSessions, p \in Processes : launch(m, s, p)
  \/ \E u \in Uses, d \in Decisions : record_decision(u, d)
  \/ \E r \in Requests : \/ request_consent(r)
                         \/ \E d \in Decisions \cup {None} : resolve_consent(r, d)
  \/ \E p \in Processes : record_exit(p)
  \/ \E saved \in [Uses -> {Ask} \cup Lasting] : restore_decisions(saved)
  \/ NewRegistry

SupervisorSpec == SupervisorInit /\ [][SupervisorNext]_registry

-----------------------------------------------------------------------------
Declares(a, c) == \E m \in manifests : m.app = a /\ c \in m.grants

(* "AllowOnce lasts only for that application session": whatever the order *)
(* of answers, exits and launches, a decision for one session is recorded  *)
(* only while that session is live, so that a later session with the same  *)
(* ID starts without it.                                                   *)
OnceEndsWithSession ==
  \A u \in Uses : consents[u].kind = "AllowOnce" => is_live(u[1], consents[u].session)

(* A prompt waits for a live session, for a capability the registered      *)
(* manifest declares, and no two prompts ask the same.                     *)
PromptsAreLive ==
  /\ \A r \in Queued : is_live(r.app, r.session) /\ Declares(r.app, r.capability)
  /\ \A i, j \in Prompts : pending[i] = pending[j] /\ pending[i] # NoRequest => i = j

(* Senders are told apart by their process IDs and grants by sessions: a   *)
(* process runs one session, "one application session is live in at most   *)
(* one process", and an application that runs has one set of grants.       *)
OneProcessPerSession ==
  /\ \A l, m \in launches :
       l.process = m.process \/ (l.app = m.app /\ l.session = m.session) => l = m
  /\ \A m, n \in manifests : m.app = n.app => m = n
  /\ \A l \in launches : \E m \in manifests : m.app = l.app
=============================================================================
