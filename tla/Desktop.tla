------------------------------- MODULE Desktop -------------------------------
(***************************************************************************)
(* The signed-in desktop of init: the sign-in screen gives way to it       *)
(* (Login), the Files window runs searches in a launched application whose *)
(* capabilities the user grants (Supervisor), the consent dialog and the   *)
(* permissions view record and save decisions.  Sources:                   *)
(* user/nagi-init/src/desktop.rs, m19_files_client.rs, consent_dialog.rs,  *)
(* consent_settings.rs and libnagi/src/consent.rs.                         *)
(*                                                                         *)
(* Init is one thread.  A search handles input events itself while it      *)
(* waits for an answer; each event is followed by a frame.  A key that is  *)
(* held down may repeat: the repetition is an event like its press.        *)
(*                                                                         *)
(* `allowed' is a history variable: whether the user has allowed a         *)
(* capability, for good or in this session, and has not taken it back.     *)
(* What was not saved counts as allowed and as not taken back.             *)
(***************************************************************************)
EXTENDS Login, Supervisor, Sequences

CONSTANTS
  Package,            \* what the signed Files Search package declares
  Needed,             \* the capabilities a search needs, in order
  Keys,               \* the keys that press a button: Enter, Space
  MAX_MISSES          \* bound: frames of a search that cannot be presented

ASSUME DesktopConstants == Package \in Manifests /\ Needed \in Seq(Capabilities) /\ Needed # <<>>

VARIABLES
  saved,              \* the file consent-decisions
  dialog, decision,   \* Desktop.consent and consent_decision
  panel,              \* Desktop.permissions: the uses it lists
  search,
  allowed, misses

desktop == <<saved, dialog, decision, panel, search, allowed, misses>>
vars == <<login, registry, desktop>>

Search(stage, s, i) == [stage |-> stage, session |-> s, index |-> i]
Idle == Search("idle", None, 0)

(* Of the history of a dialog, `early' are the keys and buttons that were  *)
(* down before it opened and have not been reported down since, and        *)
(* `chosen' is whether Tab or the mouse button has been pressed.           *)
Dialog(r, focus, pressed, early, chosen) ==
  [request |-> r, focus |-> focus, pressed |-> pressed, early |-> early, chosen |-> chosen]
NoDialog == Dialog(NoRequest, None, None, {}, FALSE)

Answer(r, granted) == [request |-> r, granted |-> granted]
NoAnswer == Answer(NoRequest, FALSE)

Closed == {}
Listed(uses) == {uses}

Choices == {"Deny", "AllowOnce", "Allow"}
Button == "Primary"

(* The keys, the mouse button, the buttons of the dialog and none of them  *)
(* are told apart.                                                         *)
ASSUME DistinctInputs ==
  /\ Keys \cap (Choices \cup {Button, None}) = {}
  /\ None \notin Choices \cup {Button}

Init ==
  /\ LoginInit /\ SupervisorInit
  /\ saved = Absent
  /\ dialog = NoDialog /\ decision = NoAnswer /\ panel = Closed /\ search = Idle
  /\ allowed = [u \in Uses |-> {}]
  /\ misses = 0

NotOnce(a) == [u \in Uses |-> a[u] \ {"Once"}]

(* Init starts anew: its memory is lost. *)
Restarts(a) ==
  /\ NewRegistry
  /\ dialog' = NoDialog /\ decision' = NoAnswer /\ panel' = Closed /\ search' = Idle
  /\ allowed' = NotOnce(a)
  /\ UNCHANGED misses

(* Nothing modal is open, and no search is under way. *)
Free == screen = "desktop" /\ dialog = NoDialog /\ panel = Closed /\ search = Idle

(* The decisions are the signed-in owner's: they are restored at sign-in,  *)
(* and every grant asks again if the file is damaged.                      *)
SignedIn ==
  /\ IF saved \in {Absent, Empty} THEN UNCHANGED registry ELSE restore_decisions(saved)
  /\ UNCHANGED desktop

(* A directory that is broken may have lost the decisions as well. *)
LoginStep ==
  /\ LoginNext
  /\ screen = "desktop" /\ screen' = "change" => Free
  /\ IF screen # "off" /\ screen' = "off"
       THEN /\ Restarts(allowed)
            /\ saved' \in {saved} \cup (IF directory' = "broken" THEN {Absent, Empty} ELSE {})
     ELSE IF screen \in {"create", "unlock"} /\ screen' = "desktop" THEN SignedIn
     ELSE UNCHANGED <<registry, desktop>>

-----------------------------------------------------------------------------
(* A search (m19_files_client). *)

StartSearch(s) ==
  /\ Free
  /\ \E p \in Processes : launch(Package, s, p)
  /\ search' = Search("asking", s, 1)
  /\ UNCHANGED <<login, saved, dialog, decision, panel, allowed, misses>>

SearchRefused ==
  /\ Free
  /\ LaunchRefused(Package)
  /\ UNCHANGED <<login, desktop>>

(* abort_and_reap, and reap when the search has succeeded. *)
Reaped ==
  /\ \E p \in Processes : record_exit(p)
  /\ search' = Idle
  /\ allowed' = NotOnce(allowed)

Granted(r) == check_grant(r.app, r.session, r.capability) = "Granted"

Wanted == Request(Package.app, search.session, Needed[search.index])
Check == check_grant(Wanted.app, Wanted.session, Wanted.capability)

Advanced ==
  IF search.index < Len(Needed)
    THEN Search("asking", search.session, search.index + 1)
    ELSE Search("serving", search.session, search.index)

AlreadyGranted ==
  /\ search.stage = "asking"
  /\ Check = "Granted"
  /\ search' = Advanced
  /\ UNCHANGED <<login, registry, saved, dialog, decision, panel, allowed, misses>>

NotGranted ==
  /\ search.stage = "asking"
  /\ Check \notin {"Granted", "ConsentRequired"}
  /\ Reaped
  /\ UNCHANGED <<login, saved, dialog, decision, panel, misses>>

(* The dialog starts with the focus on Deny, and takes input as soon as    *)
(* its frame is presented.                                                 *)
Opened(early) == Dialog(Wanted, "Deny", None, early, FALSE)

Prompt(early) ==
  /\ search.stage = "asking"
  /\ request_consent(Wanted)
  /\ next_consent_request' = Wanted
  /\ dialog' = Opened(early)
  /\ search' = [search EXCEPT !.stage = "waiting"]
  /\ UNCHANGED <<login, saved, decision, panel, allowed, misses>>

(* The frame cannot be presented: the search ends, and its prompt with it, *)
(* but the dialog is left open and the next frame arms it.                 *)
PromptUnseen(early) ==
  /\ search.stage = "asking"
  /\ Check = "ConsentRequired"
  /\ misses < MAX_MISSES
  /\ misses' = misses + 1
  /\ dialog' = Opened(early)
  /\ Reaped
  /\ UNCHANGED <<login, saved, decision, panel>>

-----------------------------------------------------------------------------
(* Events of the dialog (ConsentPrompt), which takes them also when it was *)
(* left open. *)
Handled == search' = IF search.stage = "waiting" THEN [search EXCEPT !.stage = "presenting"] ELSE search

TakesEvents == screen = "desktop" /\ dialog # NoDialog /\ search.stage \in {"idle", "waiting"}

Becomes(d) ==
  /\ TakesEvents
  /\ dialog' = d
  /\ Handled
  /\ UNCHANGED <<login, registry, saved, decision, panel, allowed, misses>>

(* persist_decisions writes the file in place: failed or cut short, it     *)
(* leaves the old file, the new one, or one whose checksum is wrong.       *)
Saved(new) == saved' = new
NotSaved(new) == saved' \in {saved, Empty, new}

Asked == <<dialog.request.app, dialog.request.capability>>

User(choice) ==
  CASE choice = "Deny" -> Deny
    [] choice = "AllowOnce" -> AllowOnce(dialog.request.session)
    [] choice = "Allow" -> Allow
    [] choice = "Dismissed" -> None

(* What the user has allowed after an answer that was saved, and after one *)
(* that was not.                                                           *)
AllowedBy(choice, certain) ==
  [allowed EXCEPT ![Asked] = CASE choice = "Allow" -> IF certain THEN {"Allow"} ELSE @ \cup {"Allow"}
                           [] choice = "Deny" -> IF certain THEN {} ELSE @
                           [] choice = "AllowOnce" -> @ \cup {"Once"}
                           [] choice = "Dismissed" -> @]

Recordable(choice) ==
  dialog.request \in Queued /\ (User(choice) # None => CanRecord(Asked, User(choice)))

NewFile(choice) == [encode_decisions EXCEPT ![Asked] = User(choice)]

(* The prompt is gone, or the decision cannot be recorded. *)
AnswerRefused(choice) ==
  /\ ~Recordable(choice)
  /\ decision' = Answer(dialog.request, FALSE)
  /\ dialog' = NoDialog /\ Handled
  /\ UNCHANGED <<login, registry, saved, panel, allowed, misses>>

AnswerTaken(choice) ==
  /\ Recordable(choice)
  /\ resolve_consent(dialog.request, User(choice))
  /\ IF User(choice) \in Lasting THEN Saved(NewFile(choice)) ELSE UNCHANGED saved
  /\ \E r \in {dialog.request} :
       decision' = Answer(r, choice \in {"AllowOnce", "Allow"} /\ Granted(r)')
  /\ allowed' = AllowedBy(choice, TRUE)
  /\ dialog' = NoDialog /\ Handled
  /\ UNCHANGED <<login, panel, misses>>

(* The file cannot be written: the decision stands until a restart, but    *)
(* this answer is taken as a refusal.                                      *)
AnswerUnsaved(choice) ==
  /\ Recordable(choice) /\ User(choice) \in Lasting
  /\ resolve_consent(dialog.request, User(choice))
  /\ NotSaved(NewFile(choice))
  /\ decision' = Answer(dialog.request, FALSE)
  /\ allowed' = AllowedBy(choice, FALSE)
  /\ dialog' = NoDialog /\ Handled
  /\ UNCHANGED <<login, panel, misses>>

(* Power is lost while the file is written. *)
AnswerCut(choice) ==
  /\ Recordable(choice) /\ User(choice) \in Lasting
  /\ NotSaved(NewFile(choice))
  /\ Reset
  /\ Restarts(AllowedBy(choice, FALSE))

(* resolve, and handle_consent_event after it. *)
Answers(choice) ==
  /\ TakesEvents
  /\ AnswerRefused(choice) \/ AnswerTaken(choice) \/ AnswerUnsaved(choice) \/ AnswerCut(choice)

NextFocus == [Deny |-> "AllowOnce", AllowOnce |-> "Allow", Allow |-> "Deny"]

Tab == Becomes([dialog EXCEPT !.focus = NextFocus[dialog.focus], !.pressed = None, !.chosen = TRUE])

(* Nothing is saved when the dialog is dismissed. *)
Escape == TakesEvents /\ (AnswerRefused("Dismissed") \/ AnswerTaken("Dismissed"))

(* The dialog does not tell a press from a repetition. *)
PressKey(k) == Becomes([dialog EXCEPT !.pressed = k, !.early = @ \ {k}])

Released(k) == [dialog EXCEPT !.early = @ \ {k}]

(* Mutant: the release alone presses the button. *)
ReleaseAnyKey(k) == Answers(dialog.focus)

(* A key answers with the focused button if its press was seen too. *)
ReleaseKey(k) == IF dialog.pressed = k THEN Answers(dialog.focus) ELSE Becomes(Released(k))

PressButton(target) ==
  Becomes([dialog EXCEPT !.pressed = target, !.focus = IF target = None THEN @ ELSE target,
                         !.early = @ \ {Button}, !.chosen = TRUE])

(* Press and release on the same button; any release ends a press. *)
ReleaseButton(target) ==
  IF target # None /\ dialog.pressed = target
    THEN Answers(target)
    ELSE Becomes([Released(Button) EXCEPT !.pressed = None])

Event ==
  \/ Tab \/ Escape
  \/ \E k \in Keys : PressKey(k) \/ ReleaseKey(k)
  \/ \E target \in Choices \cup {None} : PressButton(target) \/ ReleaseButton(target)

-----------------------------------------------------------------------------
(* The search presents a frame after each event and takes the answer.      *)

FrameMissed ==
  /\ search.stage = "presenting"
  /\ misses < MAX_MISSES
  /\ misses' = misses + 1
  /\ Reaped
  /\ UNCHANGED <<login, saved, dialog, decision, panel>>

StillWaiting ==
  /\ search.stage = "presenting"
  /\ decision = NoAnswer
  /\ search' = [search EXCEPT !.stage = "waiting"]
  /\ UNCHANGED <<login, registry, saved, dialog, decision, panel, allowed, misses>>

(* Mutant: an answer that allows is taken as it is. *)
AnyAllows == decision.granted

(* An answer counts if it was given to this prompt, and if the grant holds *)
(* when it is checked again.                                               *)
Counts == decision.request = Wanted /\ decision.granted /\ Check = "Granted"

(* Mutant: the answer is looked at and stays. *)
PeekAnswer ==
  /\ search.stage = "presenting"
  /\ decision # NoAnswer
  /\ IF Counts THEN search' = Advanced /\ UNCHANGED <<registry, allowed>> ELSE Reaped
  /\ UNCHANGED <<login, saved, dialog, decision, panel, misses>>

TakeAnswer ==
  /\ search.stage = "presenting"
  /\ decision # NoAnswer
  /\ decision' = NoAnswer
  /\ IF Counts THEN search' = Advanced /\ UNCHANGED <<registry, allowed>> ELSE Reaped
  /\ UNCHANGED <<login, saved, dialog, panel, misses>>

(* The application is served and exits. *)
Serve ==
  /\ search.stage = "serving"
  /\ Reaped
  /\ UNCHANGED <<login, saved, dialog, decision, panel, misses>>

-----------------------------------------------------------------------------
(* The permissions view (PermissionsPanel). *)

OpenPanel ==
  /\ Free
  /\ panel' = Listed(Recorded)
  /\ UNCHANGED <<login, registry, saved, dialog, decision, search, allowed, misses>>

ClosePanel ==
  /\ screen = "desktop" /\ panel # Closed
  /\ panel' = Closed
  /\ UNCHANGED <<login, registry, saved, dialog, decision, search, allowed, misses>>

Without(u) == [encode_decisions EXCEPT ![u] = Ask]

WithdrawSaved(u) ==
  /\ record_decision(u, Ask)
  /\ Saved(Without(u))
  /\ panel' = Listed(Recorded')
  /\ allowed' = [allowed EXCEPT ![u] = {}]
  /\ UNCHANGED <<login, dialog, decision, search, misses>>

(* If the file cannot be written the view is not refreshed. *)
WithdrawUnsaved(u) ==
  /\ record_decision(u, Ask)
  /\ NotSaved(Without(u))
  /\ UNCHANGED <<login, dialog, decision, panel, search, allowed, misses>>

WithdrawCut(u) ==
  /\ NotSaved(Without(u))
  /\ Reset
  /\ Restarts(allowed)

withdraw(u) ==
  /\ screen = "desktop" /\ panel # Closed
  /\ \E uses \in panel : u \in uses
  /\ WithdrawSaved(u) \/ WithdrawUnsaved(u) \/ WithdrawCut(u)

Next ==
  \/ LoginStep
  \/ SearchRefused
  \/ \E s \in AppSessions : StartSearch(s)
  \/ AlreadyGranted \/ NotGranted
  \/ \E early \in SUBSET (Keys \cup {Button}) : Prompt(early) \/ PromptUnseen(early)
  \/ Event
  \/ FrameMissed \/ StillWaiting \/ TakeAnswer \/ Serve
  \/ OpenPanel \/ ClosePanel
  \/ \E u \in Uses : withdraw(u)

Spec == Init /\ [][Next]_vars

-----------------------------------------------------------------------------
(* A search is served only if the user has allowed each capability it      *)
(* needs, for good or in this very session, and has not taken it back:     *)
(* whatever dialogs were left open, answers came late, saving went wrong   *)
(* and power was lost before.                                              *)
ServedAsAllowed ==
  search.stage = "serving" =>
    \A i \in 1..Len(Needed) :
      /\ allowed[<<Package.app, Needed[i]>>] # {}
      /\ check_grant(Package.app, search.session, Needed[i]) = "Granted"

(* "Fresh input only": the release of a key or button that was down before *)
(* the dialog opened, and has not been reported down since, answers        *)
(* nothing.  "Safe default": until the user presses Tab or the mouse       *)
(* button nothing more is allowed than before, so that the Enter that      *)
(* started the search, if it is held long enough to repeat and its release *)
(* does answer, only denies.                                               *)
AnswersAreFresh ==
  [][ dialog # NoDialog =>
        /\ \A k \in dialog.early :
             ReleaseKey(k) \/ (k = Button /\ \E t \in Choices \cup {None} : ReleaseButton(t))
               => dialog' # NoDialog
        /\ ~dialog.chosen => \A u \in Uses : allowed'[u] \subseteq allowed[u] ]_vars

(* As long as frames are presented, the dialog is that of the prompt a     *)
(* search waits for, the only one in the queue, and no answer is left over *)
(* for a later search to trip on.                                          *)
DialogIsWaitedFor ==
  misses = 0 =>
    /\ dialog # NoDialog => /\ search.stage \in {"waiting", "presenting"}
                            /\ dialog.request = Wanted
                            /\ Queued = {Wanted}
    /\ decision # NoAnswer => search.stage = "presenting" /\ decision.request = Wanted
=============================================================================
