---------------------------- MODULE DesktopProofs ----------------------------
(***************************************************************************)
(* The desktop keeps the promises of its two parts, and serves a search    *)
(* only as the user has allowed: for any packages, capabilities, sessions, *)
(* names and passwords, any limits and any number of failures.             *)
(***************************************************************************)
EXTENDS Desktop, DesktopPartsProofs

(* A search runs on the desktop, in the one application that is live, and  *)
(* with the permissions view closed.                                       *)
SearchInv ==
  /\ search = Search(search.stage, search.session, search.index)
  /\ search.stage \in {"idle", "asking", "waiting", "presenting", "serving"}
  /\ search.stage = "idle" => launches = {}
  /\ search.stage # "idle" =>
       /\ screen = "desktop" /\ panel = Closed
       /\ search.session \in AppSessions /\ search.index \in 1..Len(Needed)
       /\ \E p \in Processes : launches = {Launch(p, Package.app, search.session)}

(* A dialog that is open during a search is that of the prompt the search  *)
(* waits for, which is not yet decided.                                    *)
DialogInv ==
  /\ dialog = Dialog(dialog.request, dialog.focus, dialog.pressed, dialog.early, dialog.chosen)
  /\ dialog # NoDialog => dialog.focus \in Choices
  /\ dialog # NoDialog /\ search.stage # "idle" =>
       /\ search.stage \in {"waiting", "presenting"}
       /\ dialog.request = Wanted
       /\ Check = "ConsentRequired"

(* What is recorded or saved as allowed, the user has allowed. *)
HistoryInv ==
  /\ allowed \in [Uses -> SUBSET {"Allow", "Once"}]
  /\ saved \in [Uses -> {Ask} \cup Lasting] \cup {Absent, Empty}
  /\ \A u \in Uses : /\ consents[u] = Allow => "Allow" \in allowed[u]
                     /\ consents[u].kind = "AllowOnce" => "Once" \in allowed[u]
                     /\ saved \notin {Absent, Empty} /\ saved[u] = Allow => "Allow" \in allowed[u]

(* The capabilities a search has passed are granted. *)
GrantInv ==
  search.stage # "idle" =>
    \A i \in 1..Len(Needed) :
      i < search.index \/ search.stage = "serving" =>
        check_grant(Package.app, search.session, Needed[i]) = "Granted"

DesktopInv == RegistryInv /\ SearchInv /\ DialogInv /\ HistoryInv /\ GrantInv

-----------------------------------------------------------------------------
(* Each step is a step of the supervisor and of the login, or leaves them  *)
(* alone.                                                                  *)

(* What a search asks for, and what a dialog answers, can be asked. *)
LEMMA WantedIsRequest ==
  ASSUME SearchInv, search.stage # "idle"
  PROVE  Wanted \in Requests /\ Wanted.app = Package.app /\ Wanted.session = search.session
         /\ Wanted.capability = Needed[search.index] /\ Needed[search.index] \in Capabilities
<1>1. Package.app \in Apps
  BY DesktopConstants DEF Apps
<1>2. search.session \in AppSessions /\ search.index \in 1..Len(Needed)
  BY DEF SearchInv
<1>3. Needed[search.index] \in Capabilities
  BY <1>2, DesktopConstants
<1> QED
  BY <1>1, <1>2, <1>3 DEF Wanted, Requests, Request

(* A prompt that is queued is of a live session. *)
LEMMA QueuedIsRequest ==
  ASSUME RegistryInv, NEW r \in Queued
  PROVE  r \in Requests /\ r.session \in AppSessions /\ <<r.app, r.capability>> \in Uses
         /\ is_live(r.app, r.session)
<1>1. r \in Requests
  BY DEF RegistryInv, Entries, Queued
<1>2. r.session \in AppSessions /\ <<r.app, r.capability>> \in Uses
  BY <1>1 DEF Requests, Request, Uses
<1> QED
  BY <1>1, <1>2 DEF RegistryInv, PromptsAreLive

(* A choice is a decision, or none. *)
LEMMA UserDecides ==
  ASSUME NEW choice \in Choices \cup {"Dismissed"}, dialog.request.session \in AppSessions
  PROVE  User(choice) \in Decisions \cup {None}
  BY DEF User, Choices, Decisions, Lasting

(* The steps in which the registry or the login take part. *)
LEMMA PartsStep == DesktopInv /\ [Next]_vars => [SupervisorNext]_registry /\ [LoginNext]_login
<1> SUFFICES ASSUME DesktopInv, [Next]_vars
             PROVE  [SupervisorNext]_registry /\ [LoginNext]_login
  OBVIOUS
<1>0. Package \in Manifests
  BY DesktopConstants
<1>1. CASE LoginStep
  <2>1. CASE screen # "off" /\ screen' = "off"
    BY <1>1, <2>1 DEF LoginStep, Restarts, SupervisorNext
  <2>2. CASE ~(screen # "off" /\ screen' = "off") /\ screen \in {"create", "unlock"} /\ screen' = "desktop"
    <3>1. CASE saved \in {Absent, Empty}
      BY <1>1, <2>2, <3>1 DEF LoginStep, SignedIn
    <3>2. CASE saved \notin {Absent, Empty}
      <4>1. restore_decisions(saved) /\ saved \in [Uses -> {Ask} \cup Lasting]
        BY <1>1, <2>2, <3>2 DEF LoginStep, SignedIn, DesktopInv, HistoryInv
      <4> QED
        BY <1>1, <4>1 DEF LoginStep, SupervisorNext
    <3> QED
      BY <3>1, <3>2
  <2> QED
    BY <1>1, <2>1, <2>2 DEF LoginStep, registry
<1>2. CASE SearchRefused
  BY <1>0, <1>2 DEF SearchRefused, SupervisorNext
<1>3. CASE \E s \in AppSessions : StartSearch(s)
  BY <1>0, <1>3 DEF StartSearch, SupervisorNext
<1>4. CASE Reaped /\ UNCHANGED login
  BY <1>4 DEF Reaped, SupervisorNext
<1>5. CASE \E early \in SUBSET (Keys \cup {Button}) : Prompt(early)
  <2>1. search.stage # "idle"
    BY <1>5 DEF Prompt
  <2> QED
    BY <1>5, <2>1, WantedIsRequest DEF Prompt, SupervisorNext, DesktopInv
<1>6. ASSUME NEW choice \in Choices \cup {"Dismissed"},
             AnswerTaken(choice) \/ AnswerUnsaved(choice)
      PROVE  [SupervisorNext]_registry /\ [LoginNext]_login
  <2>1. dialog.request \in Queued /\ resolve_consent(dialog.request, User(choice)) /\ UNCHANGED login
    BY <1>6, Zenon DEF AnswerTaken, AnswerUnsaved, Recordable
  <2>2. dialog.request \in Requests /\ User(choice) \in Decisions \cup {None}
    BY <2>1, QueuedIsRequest, UserDecides, Zenon DEF DesktopInv
  <2> QED
    BY <2>1, <2>2 DEF SupervisorNext
<1>7. ASSUME NEW choice \in Choices \cup {"Dismissed"}, AnswerRefused(choice) \/ AnswerCut(choice)
      PROVE  [SupervisorNext]_registry /\ [LoginNext]_login
  BY <1>7, Zenon DEF AnswerRefused, AnswerCut, Restarts, SupervisorNext, LoginNext, registry
<1>8. ASSUME NEW d, Becomes(d) PROVE [SupervisorNext]_registry /\ [LoginNext]_login
  BY <1>8 DEF Becomes
<1>9. CASE Event
  <2>1. TakesEvents => dialog.focus \in Choices
    BY DEF TakesEvents, DesktopInv, DialogInv
  <2>2. \A choice \in Choices : Answers(choice) => [SupervisorNext]_registry /\ [LoginNext]_login
    BY <1>6, <1>7 DEF Answers
  <2>3. Answers(dialog.focus) => [SupervisorNext]_registry /\ [LoginNext]_login
    BY <2>1, <2>2 DEF Answers
  <2>4. Escape => [SupervisorNext]_registry /\ [LoginNext]_login
    BY <1>6, <1>7 DEF Escape
  <2>5. \A k : ReleaseKey(k) => [SupervisorNext]_registry /\ [LoginNext]_login
    BY <1>8, <2>3 DEF ReleaseKey
  <2>6. \A t \in Choices \cup {None} : ReleaseButton(t) => [SupervisorNext]_registry /\ [LoginNext]_login
    BY <1>8, <2>2 DEF ReleaseButton
  <2> QED
    BY <1>8, <1>9, <2>4, <2>5, <2>6, Zenon DEF Event, Tab, PressKey, PressButton
<1>10. CASE \E u \in Uses : withdraw(u)
  <2>1. Ask \in Decisions
    BY DEF Decisions
  <2> QED
    BY <1>10, <2>1 DEF withdraw, WithdrawSaved, WithdrawUnsaved, WithdrawCut, Restarts,
       SupervisorNext, LoginNext
<1>11. CASE UNCHANGED vars
  BY <1>11 DEF vars
<1> QED
  BY <1>1, <1>2, <1>3, <1>4, <1>5, <1>9, <1>10, <1>11
     DEF Next, AlreadyGranted, NotGranted, PromptUnseen, FrameMissed, StillWaiting, TakeAnswer, Serve,
         OpenPanel, ClosePanel, registry

-----------------------------------------------------------------------------
(* What the kinds of steps preserve. *)

(* A grant is a live session, a declaration and a decision. *)
LEMMA GrantMeans ==
  ASSUME NEW a, NEW s, NEW c
  PROVE  check_grant(a, s, c) = "Granted" <=>
           /\ is_live(a, s)
           /\ \E m \in manifests : m.app = a /\ c \in m.grants
           /\ consents[<<a, c>>] \in {Allow, AllowOnce(s)}
  BY DEF check_grant

(* Decisions for good and for a session differ. *)
LEMMA DecisionKinds ==
  /\ Ask # Allow /\ Ask # Deny /\ Allow # Deny /\ Lasting = {Allow, Deny}
  /\ Ask.kind # "AllowOnce" /\ Allow.kind # "AllowOnce" /\ Deny.kind # "AllowOnce"
  /\ \A s : AllowOnce(s).kind = "AllowOnce" /\ AllowOnce(s) # Allow /\ AllowOnce(s) # Ask
  BY DEF Ask, Allow, Deny, AllowOnce, Decision, Lasting

(* The end of the application takes with it what was allowed in its        *)
(* session.                                                                *)
LEMMA ReapedPreserves ==
  ASSUME DesktopInv, Reaped, search.stage # "idle", UNCHANGED saved,
         dialog' = Dialog(dialog.request, dialog.focus, dialog.pressed, dialog.early, dialog.chosen)'
           /\ (dialog' # NoDialog => dialog'.focus \in Choices)
  PROVE  SearchInv' /\ DialogInv' /\ HistoryInv' /\ GrantInv'
<1>1. search' = Idle
  BY DEF Reaped
<1>2. search'.stage = "idle" /\ search' = Search(search'.stage, search'.session, search'.index)
  BY <1>1 DEF Idle, Search
<1>3. PICK l \in launches :
        /\ launches' = launches \ {l}
        /\ consents' = [u \in Uses |-> IF u[1] = l.app /\ consents[u] = AllowOnce(l.session)
                                         THEN Ask ELSE consents[u]]
  BY DEF Reaped, record_exit
<1>4. launches = {l}
  BY <1>3 DEF DesktopInv, SearchInv
<1>5. SearchInv' /\ DialogInv' /\ GrantInv'
  BY <1>2, <1>3, <1>4 DEF SearchInv, DialogInv, GrantInv
<1>6. \A u \in Uses : consents[u].kind = "AllowOnce" =>
                       u[1] = l.app /\ consents[u] = AllowOnce(l.session)
  <2> SUFFICES ASSUME NEW u \in Uses, consents[u].kind = "AllowOnce"
               PROVE  u[1] = l.app /\ consents[u] = AllowOnce(l.session)
    OBVIOUS
  <2>1. consents[u] \in Decisions
    BY DEF DesktopInv, RegistryInv, Entries
  <2>2. consents[u] = AllowOnce(consents[u].session)
    BY <2>1, DecisionKinds DEF Decisions, AllowOnce, Decision
  <2>3. is_live(u[1], consents[u].session)
    BY DEF DesktopInv, RegistryInv, OnceEndsWithSession
  <2> QED
    BY <1>4, <2>2, <2>3 DEF is_live
<1>7. \A u \in Uses : consents'[u].kind # "AllowOnce" /\ (consents'[u] = Allow => consents[u] = Allow)
  BY <1>3, <1>6, DecisionKinds
<1>8. allowed' \in [Uses -> SUBSET {"Allow", "Once"}]
      /\ \A u \in Uses : "Allow" \in allowed[u] => "Allow" \in allowed'[u]
  BY DEF Reaped, NotOnce, DesktopInv, HistoryInv
<1>9. HistoryInv'
  BY <1>7, <1>8 DEF DesktopInv, HistoryInv
<1> QED
  BY <1>5, <1>9

(* A restart leaves the file, and what it holds the user has allowed. *)
LEMMA RestartPreserves ==
  ASSUME NEW STATE a, a \in [Uses -> SUBSET {"Allow", "Once"}], Restarts(a),
         saved' \in [Uses -> {Ask} \cup Lasting] \cup {Absent, Empty},
         \A u \in Uses : saved' \notin {Absent, Empty} /\ saved'[u] = Allow => "Allow" \in a[u]
  PROVE  SearchInv' /\ DialogInv' /\ HistoryInv' /\ GrantInv'
<1>1. /\ search' = Idle /\ dialog' = NoDialog /\ launches' = {}
      /\ consents' = [u \in Uses |-> Ask]
      /\ allowed' = [u \in Uses |-> a[u] \ {"Once"}]
  BY DEF Restarts, NewRegistry, NotOnce
<1>2. SearchInv' /\ GrantInv'
  BY <1>1 DEF SearchInv, GrantInv, Idle, Search
<1>3. DialogInv'
  BY <1>1 DEF DialogInv, NoDialog, Dialog
<1>4. HistoryInv'
  BY <1>1, DecisionKinds DEF HistoryInv
<1> QED
  BY <1>2, <1>3, <1>4

(* A step that changes no decision and ends no launch, on the same search. *)
LEMMA QuietPreserves ==
  ASSUME DesktopInv, UNCHANGED <<manifests, launches, consents, saved, allowed, screen, panel>>,
         search'.session = search.session /\ search'.index = search.index,
         search' = Search(search'.stage, search'.session, search'.index),
         search'.stage = search.stage
           \/ (search.stage \in {"asking", "waiting", "presenting"}
                /\ search'.stage \in {"waiting", "presenting"})
  PROVE  SearchInv' /\ HistoryInv' /\ GrantInv'
<1>1. SearchInv'
  BY DEF DesktopInv, SearchInv
<1>2. HistoryInv'
  BY DEF DesktopInv, HistoryInv
<1>3. GrantInv'
  BY DEF DesktopInv, GrantInv, check_grant, is_live
<1> QED
  BY <1>1, <1>2, <1>3

(* A search that advances has the capability it wanted. *)
LEMMA AdvancedPreserves ==
  ASSUME DesktopInv, search.stage # "idle", search.stage # "serving", Check = "Granted", search' = Advanced,
         UNCHANGED <<manifests, launches, consents, saved, allowed, screen, panel, dialog>>
  PROVE  SearchInv' /\ DialogInv' /\ HistoryInv' /\ GrantInv'
<1>1. dialog = NoDialog
  BY DEF DesktopInv, DialogInv
<1>2. /\ search'.session = search.session
      /\ search' = Search(search'.stage, search'.session, search'.index)
      /\ \/ search'.stage = "asking" /\ search'.index = search.index + 1 /\ search.index < Len(Needed)
         \/ search'.stage = "serving" /\ search'.index = search.index /\ ~(search.index < Len(Needed))
  BY DEF Advanced, Search
<1>3. search.index \in 1..Len(Needed) /\ Len(Needed) \in Nat
  BY DesktopConstants DEF DesktopInv, SearchInv
<1>4. SearchInv'
  BY <1>2, <1>3 DEF DesktopInv, SearchInv
<1>5. DialogInv' /\ HistoryInv'
  BY <1>1, Zenon DEF DesktopInv, DialogInv, HistoryInv, NoDialog
<1>6. check_grant(Package.app, search.session, Needed[search.index]) = "Granted"
  BY WantedIsRequest DEF Check, DesktopInv
<1>7. \A i \in 1..Len(Needed) : i <= search.index =>
        check_grant(Package.app, search.session, Needed[i]) = "Granted"
  BY <1>3, <1>6 DEF DesktopInv, GrantInv
<1>8. GrantInv'
  BY <1>2, <1>3, <1>7 DEF GrantInv, check_grant, is_live
<1> QED
  BY <1>4, <1>5, <1>8

-----------------------------------------------------------------------------
(* Answers. *)

(* An answer that can be recorded is given in a search, to the prompt it   *)
(* waits for.                                                              *)
LEMMA RecordableIsWanted ==
  ASSUME DesktopInv, TakesEvents, NEW choice, Recordable(choice)
  PROVE  /\ search.stage = "waiting" /\ dialog.request = Wanted /\ Check = "ConsentRequired"
         /\ dialog.request.session \in AppSessions /\ Asked \in Uses
         /\ Asked = <<Package.app, Needed[search.index]>>
<1>1. dialog.request \in Queued
  BY DEF Recordable
<1>2. launches # {}
  BY <1>1, QueuedIsRequest, Zenon DEF DesktopInv, is_live
<1>3. search.stage = "waiting"
  BY <1>2 DEF DesktopInv, SearchInv, TakesEvents
<1>4. dialog.request = Wanted /\ Check = "ConsentRequired"
  BY <1>3 DEF DesktopInv, DialogInv, TakesEvents
<1>5. dialog.request.session \in AppSessions /\ Asked \in Uses
  BY <1>1, QueuedIsRequest DEF DesktopInv, Asked
<1> QED
  BY <1>3, <1>4, <1>5, WantedIsRequest DEF Asked, DesktopInv

(* What counts as allowed after an answer. *)
LEMMA AllowedByMeans ==
  ASSUME NEW choice \in Choices \cup {"Dismissed"}, NEW certain \in BOOLEAN, Asked \in Uses,
         allowed \in [Uses -> SUBSET {"Allow", "Once"}]
  PROVE  /\ AllowedBy(choice, certain) \in [Uses -> SUBSET {"Allow", "Once"}]
         /\ \A u \in Uses : u # Asked => AllowedBy(choice, certain)[u] = allowed[u]
         /\ choice = "Allow" => "Allow" \in AllowedBy(choice, certain)[Asked]
         /\ choice = "AllowOnce" => AllowedBy(choice, certain)[Asked] = allowed[Asked] \cup {"Once"}
         /\ choice = "Dismissed" => AllowedBy(choice, certain)[Asked] = allowed[Asked]
         /\ ~certain => allowed[Asked] \subseteq AllowedBy(choice, certain)[Asked]
<1>1. CASE choice = "Allow"
  BY <1>1 DEF AllowedBy
<1>2. CASE choice = "Deny"
  BY <1>2 DEF AllowedBy
<1>3. CASE choice = "AllowOnce"
  BY <1>3 DEF AllowedBy
<1>4. CASE choice = "Dismissed"
  BY <1>4 DEF AllowedBy
<1> QED
  BY <1>1, <1>2, <1>3, <1>4 DEF Choices

(* What a choice records. *)
LEMMA UserMeans ==
  ASSUME NEW choice \in Choices \cup {"Dismissed"}
  PROVE  /\ choice = "Allow" => User(choice) = Allow
         /\ choice = "Deny" => User(choice) = Deny
         /\ choice = "AllowOnce" => User(choice) = AllowOnce(dialog.request.session)
         /\ choice = "Dismissed" => User(choice) = None
         /\ choice \in {"Allow", "Deny", "AllowOnce", "Dismissed"}
  BY DEF User, Choices

(* The file that is written holds lasting decisions, and as allowed only   *)
(* what is recorded so or has just been answered.                          *)
LEMMA NewFileMeans ==
  ASSUME NEW u \in Uses, NEW d \in {Ask} \cup Lasting
  PROVE  /\ [encode_decisions EXCEPT ![u] = d] \in [Uses -> {Ask} \cup Lasting]
         /\ [encode_decisions EXCEPT ![u] = d][u] = d
         /\ \A v \in Uses : v # u /\ [encode_decisions EXCEPT ![u] = d][v] = Allow => consents[v] = Allow
  BY DecisionKinds DEF encode_decisions

(* A choice that lasts. *)
LEMMA LastingChoice ==
  ASSUME NEW choice \in Choices \cup {"Dismissed"}, User(choice) \in Lasting
  PROVE  (choice = "Allow" /\ User(choice) = Allow) \/ (choice = "Deny" /\ User(choice) = Deny)
<1>1. None \notin Lasting
  BY SupervisorConstants DEF Decisions
<1> QED
  BY <1>1, UserMeans, DecisionKinds

(* The file after an answer that was not saved. *)
LEMMA UnsavedFile ==
  ASSUME DesktopInv, TakesEvents, NEW choice \in Choices \cup {"Dismissed"}, Recordable(choice),
         User(choice) \in Lasting, NotSaved(NewFile(choice))
  PROVE  /\ saved' \in [Uses -> {Ask} \cup Lasting] \cup {Absent, Empty}
         /\ \A u \in Uses : saved' \notin {Absent, Empty} /\ saved'[u] = Allow =>
                             "Allow" \in AllowedBy(choice, FALSE)[u]
<1>1. Asked \in Uses
  BY RecordableIsWanted
<1>2. allowed \in [Uses -> SUBSET {"Allow", "Once"}]
  BY DEF DesktopInv, HistoryInv
<1>3. /\ NewFile(choice) \in [Uses -> {Ask} \cup Lasting]
      /\ NewFile(choice)[Asked] = User(choice)
      /\ \A v \in Uses : v # Asked /\ NewFile(choice)[v] = Allow => consents[v] = Allow
  BY <1>1, NewFileMeans DEF NewFile
<1>4. \A u \in Uses : allowed[u] \subseteq AllowedBy(choice, FALSE)[u]
  BY <1>1, <1>2, AllowedByMeans, Zenon
<1>5. User(choice) = Allow => "Allow" \in AllowedBy(choice, FALSE)[Asked]
  BY <1>1, <1>2, LastingChoice, AllowedByMeans, DecisionKinds, Zenon
<1>6. \A u \in Uses : consents[u] = Allow => "Allow" \in allowed[u]
  BY DEF DesktopInv, HistoryInv
<1>7. CASE saved' = saved
  BY <1>4, <1>7, Zenon DEF DesktopInv, HistoryInv
<1>8. CASE saved' = Empty
  BY <1>8
<1>9. CASE saved' = NewFile(choice)
  BY <1>3, <1>4, <1>5, <1>6, <1>9, Zenon
<1> QED
  BY <1>7, <1>8, <1>9, Zenon DEF NotSaved

(* What is recorded after an answer, the user has allowed. *)
LEMMA AnswerHistory ==
  ASSUME DesktopInv, TakesEvents, NEW choice \in Choices \cup {"Dismissed"}, Recordable(choice),
         resolve_consent(dialog.request, User(choice)), NEW certain \in BOOLEAN
  PROVE  \A u \in Uses : /\ consents'[u] = Allow => "Allow" \in AllowedBy(choice, certain)[u]
                         /\ consents'[u].kind = "AllowOnce" => "Once" \in AllowedBy(choice, certain)[u]
                         /\ u # Asked => consents'[u] = consents[u]
<1>1. Asked \in Uses
  BY RecordableIsWanted
<1>2. allowed \in [Uses -> SUBSET {"Allow", "Once"}] /\ consents \in [Uses -> Decisions]
  BY DEF DesktopInv, HistoryInv, RegistryInv, Entries
<1>3. consents' = IF User(choice) = None THEN consents ELSE [consents EXCEPT ![Asked] = User(choice)]
  BY DEF resolve_consent, Asked
<1>4. \A u \in Uses : /\ consents[u] = Allow => "Allow" \in allowed[u]
                      /\ consents[u].kind = "AllowOnce" => "Once" \in allowed[u]
  BY DEF DesktopInv, HistoryInv
<1>5. choice # "Dismissed" => User(choice) # None
  <2>1. None \notin Decisions
    BY SupervisorConstants
  <2>2. dialog.request.session \in AppSessions
    BY RecordableIsWanted
  <2> QED
    BY <2>1, <2>2, UserMeans DEF Decisions, Lasting
<1>6. ASSUME NEW u \in Uses, u # Asked
      PROVE  consents'[u] = consents[u] /\ AllowedBy(choice, certain)[u] = allowed[u]
  BY <1>1, <1>2, <1>3, <1>6, AllowedByMeans
<1>7. CASE choice = "Dismissed"
  <2>1. consents' = consents /\ AllowedBy(choice, certain)[Asked] = allowed[Asked]
    BY <1>1, <1>2, <1>3, <1>7, UserMeans, AllowedByMeans
  <2> QED
    BY <1>4, <1>6, <2>1
<1>8. CASE choice # "Dismissed"
  <2>1. consents'[Asked] = User(choice)
    BY <1>1, <1>2, <1>3, <1>5, <1>8
  <2>2. /\ User(choice) = Allow => "Allow" \in AllowedBy(choice, certain)[Asked]
        /\ User(choice).kind = "AllowOnce" => "Once" \in AllowedBy(choice, certain)[Asked]
    BY <1>1, <1>2, <1>8, UserMeans, AllowedByMeans, DecisionKinds
  <2> QED
    BY <1>4, <1>6, <2>1, <2>2
<1> QED
  BY <1>7, <1>8

(* A step of the dialog during a search, or of one that was left open. *)
LEMMA HandledMeans ==
  ASSUME SearchInv, Handled, search.stage \in {"idle", "waiting"}
  PROVE  /\ search'.session = search.session /\ search'.index = search.index
         /\ search' = Search(search'.stage, search'.session, search'.index)
         /\ search.stage = "idle" => search'.stage = "idle"
         /\ search.stage = "waiting" => search'.stage = "presenting"
  BY DEF SearchInv, Handled, Search

(* Decisions on other uses do not touch the grants a search has passed. *)
LEMMA AnswerKeepsGrants ==
  ASSUME DesktopInv, TakesEvents, NEW choice \in Choices \cup {"Dismissed"}, Recordable(choice),
         resolve_consent(dialog.request, User(choice)), Handled, UNCHANGED <<screen, panel>>
  PROVE  SearchInv' /\ GrantInv'
<1>1. /\ search.stage = "waiting" /\ Check = "ConsentRequired"
      /\ Asked = <<Package.app, Needed[search.index]>>
  BY RecordableIsWanted, Zenon
<1>2. UNCHANGED <<manifests, launches>>
  BY DEF resolve_consent
<1>3. /\ search'.session = search.session /\ search'.index = search.index
      /\ search' = Search(search'.stage, search'.session, search'.index)
      /\ search'.stage = "presenting"
  BY <1>1, HandledMeans DEF DesktopInv
<1>4. SearchInv'
  BY <1>1, <1>2, <1>3 DEF DesktopInv, SearchInv
<1>5. search.index \in 1..Len(Needed) /\ Len(Needed) \in Nat
  BY <1>1, DesktopConstants DEF DesktopInv, SearchInv
<1>6. check_grant(Package.app, search.session, Needed[search.index]) = "ConsentRequired"
  BY <1>1, WantedIsRequest DEF Check, DesktopInv
<1>7. ASSUME NEW i \in 1..Len(Needed), i < search.index
      PROVE  /\ is_live(Package.app, search.session)
             /\ \E m \in manifests : m.app = Package.app /\ Needed[i] \in m.grants
             /\ consents'[<<Package.app, Needed[i]>>] \in {Allow, AllowOnce(search.session)}
  <2>1. check_grant(Package.app, search.session, Needed[i]) = "Granted"
    BY <1>1, <1>7 DEF DesktopInv, GrantInv
  <2>2. Needed[i] # Needed[search.index]
    BY <1>6, <2>1
  <2>3. <<Package.app, Needed[i]>> \in Uses /\ <<Package.app, Needed[i]>> # Asked
    BY <1>1, <2>2, DesktopConstants DEF Uses, Apps
  <2>4. consents'[<<Package.app, Needed[i]>>] = consents[<<Package.app, Needed[i]>>]
    BY <2>3, AnswerHistory, Zenon
  <2> QED
    BY <2>1, <2>4, GrantMeans
<1>8. GrantInv'
  BY <1>2, <1>3, <1>5, <1>7 DEF GrantInv, check_grant, is_live
<1> QED
  BY <1>4, <1>8

(* Every answer preserves the invariant. *)
LEMMA AnswerPreserved ==
  ASSUME DesktopInv, TakesEvents, NEW choice \in Choices \cup {"Dismissed"},
         AnswerRefused(choice) \/ AnswerTaken(choice) \/ AnswerUnsaved(choice) \/ AnswerCut(choice)
  PROVE  SearchInv' /\ DialogInv' /\ HistoryInv' /\ GrantInv'
<1>0. dialog' = NoDialog => DialogInv'
  BY DEF DialogInv, NoDialog, Dialog
<1>5. allowed \in [Uses -> SUBSET {"Allow", "Once"}]
  BY DEF DesktopInv, HistoryInv
<1>1. CASE AnswerRefused(choice)
  <2>1. /\ search'.session = search.session /\ search'.index = search.index
        /\ search' = Search(search'.stage, search'.session, search'.index)
        /\ search'.stage = search.stage \/ (search.stage = "waiting" /\ search'.stage = "presenting")
    BY <1>1, HandledMeans DEF AnswerRefused, TakesEvents, DesktopInv
  <2>2. UNCHANGED <<manifests, launches, consents, saved, allowed, screen, panel>>
    BY <1>1 DEF AnswerRefused, login, registry
  <2> QED
    BY <1>0, <1>1, <2>1, <2>2, QuietPreserves DEF AnswerRefused
<1>2. CASE AnswerTaken(choice)
  <2>1. SearchInv' /\ GrantInv'
    BY <1>2, AnswerKeepsGrants DEF AnswerTaken, login
  <2>2. Asked \in Uses
    BY <1>2, RecordableIsWanted DEF AnswerTaken
  <2>3. allowed' = AllowedBy(choice, TRUE) /\ allowed' \in [Uses -> SUBSET {"Allow", "Once"}]
    BY <1>2, <1>5, <2>2, AllowedByMeans, Zenon DEF AnswerTaken
  <2>4. \A u \in Uses : /\ consents'[u] = Allow => "Allow" \in allowed'[u]
                        /\ consents'[u].kind = "AllowOnce" => "Once" \in allowed'[u]
    BY <1>2, <2>3, AnswerHistory, Zenon DEF AnswerTaken
  <2>5. CASE User(choice) \in Lasting
    <3>1. saved' = NewFile(choice)
      BY <1>2, <2>5 DEF AnswerTaken, Saved
    <3>2. /\ saved' \in [Uses -> {Ask} \cup Lasting]
          /\ saved'[Asked] = User(choice)
          /\ \A v \in Uses : v # Asked /\ saved'[v] = Allow => consents[v] = Allow
      BY <2>2, <2>5, <3>1, NewFileMeans DEF NewFile
    <3>3. User(choice) = Allow => "Allow" \in allowed'[Asked]
      BY <1>5, <2>2, <2>3, <2>5, LastingChoice, AllowedByMeans, DecisionKinds, Zenon
    <3>4. \A v \in Uses : v # Asked /\ consents[v] = Allow => "Allow" \in allowed'[v]
      BY <1>5, <2>2, <2>3, AllowedByMeans, Zenon DEF DesktopInv, HistoryInv
    <3> QED
      BY <1>0, <1>2, <2>1, <2>3, <2>4, <3>2, <3>3, <3>4, Zenon DEF HistoryInv, AnswerTaken
  <2>6. CASE User(choice) \notin Lasting
    <3>1. saved' = saved
      BY <1>2, <2>6 DEF AnswerTaken
    <3>2. choice \in {"AllowOnce", "Dismissed"}
      BY <2>6, UserMeans DEF Lasting
    <3>3. \A u \in Uses : allowed[u] \subseteq allowed'[u]
      BY <1>5, <2>2, <2>3, <3>2, AllowedByMeans, Zenon
    <3>4. HistoryInv'
      BY <2>3, <2>4, <3>1, <3>3, Zenon DEF DesktopInv, HistoryInv
    <3> QED
      BY <1>0, <1>2, <2>1, <3>4 DEF AnswerTaken
  <2> QED
    BY <2>5, <2>6
<1>3. CASE AnswerUnsaved(choice)
  <2>1. SearchInv' /\ GrantInv'
    BY <1>3, AnswerKeepsGrants DEF AnswerUnsaved, login
  <2>2. Asked \in Uses
    BY <1>3, RecordableIsWanted DEF AnswerUnsaved
  <2>3. allowed' = AllowedBy(choice, FALSE) /\ allowed' \in [Uses -> SUBSET {"Allow", "Once"}]
    BY <1>3, <1>5, <2>2, AllowedByMeans, Zenon DEF AnswerUnsaved
  <2>4. \A u \in Uses : /\ consents'[u] = Allow => "Allow" \in allowed'[u]
                        /\ consents'[u].kind = "AllowOnce" => "Once" \in allowed'[u]
    BY <1>3, <2>3, AnswerHistory, Zenon DEF AnswerUnsaved
  <2>5. /\ saved' \in [Uses -> {Ask} \cup Lasting] \cup {Absent, Empty}
        /\ \A u \in Uses : saved' \notin {Absent, Empty} /\ saved'[u] = Allow => "Allow" \in allowed'[u]
    BY <1>3, <2>3, UnsavedFile, Zenon DEF AnswerUnsaved
  <2> QED
    BY <1>0, <1>3, <2>1, <2>3, <2>4, <2>5, Zenon DEF HistoryInv, AnswerUnsaved
<1>4. CASE AnswerCut(choice)
  <2>1. Asked \in Uses
    BY <1>4, RecordableIsWanted, Zenon DEF AnswerCut
  <2>2. AllowedBy(choice, FALSE) \in [Uses -> SUBSET {"Allow", "Once"}]
    BY <1>5, <2>1, AllowedByMeans, Zenon
  <2>3. /\ saved' \in [Uses -> {Ask} \cup Lasting] \cup {Absent, Empty}
        /\ \A u \in Uses : saved' \notin {Absent, Empty} /\ saved'[u] = Allow =>
                            "Allow" \in AllowedBy(choice, FALSE)[u]
    BY <1>4, UnsavedFile, Zenon DEF AnswerCut
  <2> QED
    BY <1>4, <2>2, <2>3, RestartPreserves, Zenon DEF AnswerCut
<1> QED
  BY <1>1, <1>2, <1>3, <1>4

(* Other events move the focus or the press, and nothing else. *)
LEMMA BecomesPreserved ==
  ASSUME DesktopInv, NEW f \in Choices, NEW p, NEW e, NEW c,
         Becomes(Dialog(dialog.request, f, p, e, c))
  PROVE  SearchInv' /\ DialogInv' /\ HistoryInv' /\ GrantInv'
<1>1. TakesEvents /\ Handled /\ dialog' = Dialog(dialog.request, f, p, e, c)
  BY DEF Becomes
<1>2. UNCHANGED <<manifests, launches, consents, saved, allowed, screen, panel>>
  BY DEF Becomes, login, registry
<1>3. /\ search'.session = search.session /\ search'.index = search.index
      /\ search' = Search(search'.stage, search'.session, search'.index)
      /\ search.stage = "idle" => search'.stage = "idle"
      /\ search.stage = "waiting" => search'.stage = "presenting"
      /\ search.stage \in {"idle", "waiting"}
  BY <1>1, HandledMeans DEF TakesEvents, DesktopInv
<1>4. SearchInv' /\ HistoryInv' /\ GrantInv'
  BY <1>2, <1>3, QuietPreserves
<1>5. DialogInv'
  <2>1. dialog'.request = dialog.request /\ dialog'.focus \in Choices
        /\ dialog' = Dialog(dialog'.request, dialog'.focus, dialog'.pressed, dialog'.early, dialog'.chosen)
    BY <1>1 DEF Dialog
  <2>2. search.stage = "waiting" => dialog.request = Wanted /\ Check = "ConsentRequired"
    BY <1>1 DEF TakesEvents, DesktopInv, DialogInv
  <2>3. search.stage = "waiting" => dialog'.request = Wanted' /\ Check' = "ConsentRequired"
    BY <1>2, <1>3, <2>1, <2>2, Zenon DEF Wanted, Check, check_grant, is_live
  <2> QED
    BY <1>3, <2>1, <2>3 DEF DialogInv
<1> QED
  BY <1>4, <1>5

(* Every event of the dialog preserves the invariant. *)
LEMMA EventPreserved ==
  ASSUME DesktopInv, Event
  PROVE  SearchInv' /\ DialogInv' /\ HistoryInv' /\ GrantInv'
<1> DEFINE Kept == SearchInv' /\ DialogInv' /\ HistoryInv' /\ GrantInv'
<1>1. /\ dialog = Dialog(dialog.request, dialog.focus, dialog.pressed, dialog.early, dialog.chosen)
      /\ TakesEvents => dialog.focus \in Choices
  BY DEF DesktopInv, DialogInv, TakesEvents
<1>2. \A choice \in Choices : Answers(choice) => Kept
  BY AnswerPreserved DEF Answers
<1>3. Answers(dialog.focus) => Kept
  BY <1>1, <1>2 DEF Answers
<1>4. Escape => Kept
  BY AnswerPreserved DEF Escape
<1>5. Tab => Kept
  <2> SUFFICES ASSUME Tab PROVE Kept
    OBVIOUS
  <2>1. NextFocus[dialog.focus] \in Choices
    BY <1>1 DEF Tab, Becomes, NextFocus, Choices
  <2>2. Becomes(Dialog(dialog.request, NextFocus[dialog.focus], None, dialog.early, TRUE))
    BY <1>1, Zenon DEF Tab, Becomes, Dialog
  <2> QED
    BY <2>1, <2>2, BecomesPreserved, Zenon
<1>6. \A k \in Keys : PressKey(k) => Kept
  <2> SUFFICES ASSUME NEW k \in Keys, PressKey(k) PROVE Kept
    OBVIOUS
  <2>1. Becomes(Dialog(dialog.request, dialog.focus, k, dialog.early \ {k}, dialog.chosen)) /\ dialog.focus \in Choices
    BY <1>1, Zenon DEF PressKey, Becomes, Dialog
  <2> QED
    BY <2>1, BecomesPreserved
<1>7. \A k \in Keys : ReleaseKey(k) => Kept
  <2> SUFFICES ASSUME NEW k \in Keys, ReleaseKey(k), dialog.pressed # k PROVE Kept
    BY <1>3 DEF ReleaseKey
  <2>1. /\ Becomes(Dialog(dialog.request, dialog.focus, dialog.pressed, dialog.early \ {k}, dialog.chosen))
        /\ dialog.focus \in Choices
    BY <1>1 DEF ReleaseKey, Becomes, Released, Dialog
  <2> QED
    BY <2>1, BecomesPreserved
<1>8. \A t \in Choices \cup {None} : PressButton(t) => Kept
  <2> SUFFICES ASSUME NEW t \in Choices \cup {None}, PressButton(t) PROVE Kept
    OBVIOUS
  <2> DEFINE f == IF t = None THEN dialog.focus ELSE t
  <2>1. Becomes(Dialog(dialog.request, f, t, dialog.early \ {Button}, TRUE)) /\ f \in Choices
    BY <1>1, Zenon DEF PressButton, Becomes, Dialog
  <2> HIDE DEF f
  <2> QED
    BY <2>1, BecomesPreserved, Zenon
<1>9. \A t \in Choices \cup {None} : ReleaseButton(t) => Kept
  <2> SUFFICES ASSUME NEW t \in Choices \cup {None}, ReleaseButton(t),
                      ~(t # None /\ dialog.pressed = t)
               PROVE  Kept
    BY <1>2 DEF ReleaseButton
  <2>1. /\ Becomes(Dialog(dialog.request, dialog.focus, None, dialog.early \ {Button}, dialog.chosen))
        /\ dialog.focus \in Choices
    BY <1>1, Zenon DEF ReleaseButton, Becomes, Released, Dialog
  <2> QED
    BY <2>1, BecomesPreserved
<1> QED
  BY <1>4, <1>5, <1>6, <1>7, <1>8, <1>9 DEF Event

-----------------------------------------------------------------------------
(* The permissions view and the login. *)

(* Withdrawing takes back what was allowed, once it is saved. *)
LEMMA WithdrawPreserved ==
  ASSUME DesktopInv, NEW u \in Uses, withdraw(u)
  PROVE  SearchInv' /\ DialogInv' /\ HistoryInv' /\ GrantInv'
<1>1. search.stage = "idle"
  BY DEF withdraw, DesktopInv, SearchInv
<1>2. /\ Without(u) \in [Uses -> {Ask} \cup Lasting] /\ Without(u)[u] = Ask
      /\ \A v \in Uses : v # u /\ Without(u)[v] = Allow => consents[v] = Allow
  BY NewFileMeans DEF Without
<1>3. /\ allowed \in [Uses -> SUBSET {"Allow", "Once"}]
      /\ consents \in [Uses -> Decisions]
  BY DEF DesktopInv, HistoryInv, RegistryInv, Entries
<1>4. NotSaved(Without(u)) =>
        /\ saved' \in [Uses -> {Ask} \cup Lasting] \cup {Absent, Empty}
        /\ \A v \in Uses : saved' \notin {Absent, Empty} /\ saved'[v] = Allow => "Allow" \in allowed[v]
  BY <1>2, DecisionKinds DEF NotSaved, DesktopInv, HistoryInv
<1>5. record_decision(u, Ask) /\ UNCHANGED <<login, dialog, search>> =>
        /\ SearchInv' /\ DialogInv' /\ GrantInv'
        /\ consents' = [consents EXCEPT ![u] = Ask]
  BY <1>1 DEF record_decision, DesktopInv, SearchInv, DialogInv, GrantInv, login
<1>6. CASE WithdrawSaved(u)
  <2>1. /\ SearchInv' /\ DialogInv' /\ GrantInv'
        /\ consents' = [consents EXCEPT ![u] = Ask]
        /\ saved' = Without(u) /\ allowed' = [allowed EXCEPT ![u] = {}]
    BY <1>5, <1>6 DEF WithdrawSaved, Saved
  <2> QED
    BY <1>2, <1>3, <2>1, DecisionKinds DEF DesktopInv, HistoryInv
<1>7. CASE WithdrawUnsaved(u)
  <2>1. /\ SearchInv' /\ DialogInv' /\ GrantInv'
        /\ consents' = [consents EXCEPT ![u] = Ask]
        /\ allowed' = allowed
    BY <1>5, <1>7 DEF WithdrawUnsaved
  <2> QED
    BY <1>3, <1>4, <1>7, <2>1, DecisionKinds DEF WithdrawUnsaved, DesktopInv, HistoryInv
<1>8. CASE WithdrawCut(u)
  BY <1>3, <1>4, <1>8, RestartPreserves DEF WithdrawCut
<1> QED
  BY <1>6, <1>7, <1>8 DEF withdraw

(* Signing in restores what the user has allowed; a restart forgets the    *)
(* session.                                                                *)
LEMMA LoginPreserved ==
  ASSUME DesktopInv, LoginStep
  PROVE  SearchInv' /\ DialogInv' /\ HistoryInv' /\ GrantInv'
<1>0. DialogInv /\ HistoryInv /\ SearchInv /\ GrantInv /\ RegistryInv
  BY DEF DesktopInv
<1>1. CASE screen # "off" /\ screen' = "off"
  <2>1. Restarts(allowed) /\ saved' \in {saved, Absent, Empty}
    BY <1>1 DEF LoginStep
  <2> QED
    BY <1>0, <2>1, RestartPreserves DEF HistoryInv
<1>2. CASE screen \in {"create", "unlock"} /\ screen' = "desktop"
  <2>1. SignedIn
    BY <1>2 DEF LoginStep
  <2>2. search.stage = "idle"
    BY <1>0, <1>2 DEF SearchInv
  <2>3. UNCHANGED <<saved, dialog, search, allowed, manifests, launches>>
    BY <2>1 DEF SignedIn, desktop, registry, restore_decisions
  <2>4. SearchInv' /\ DialogInv' /\ GrantInv'
    BY <1>0, <2>2, <2>3 DEF SearchInv, DialogInv, GrantInv
  <2>5. CASE saved \in {Absent, Empty}
    BY <1>0, <2>1, <2>3, <2>4, <2>5, Zenon DEF SignedIn, registry, HistoryInv
  <2>6. CASE saved \notin {Absent, Empty}
    <3>1. consents' = [u \in Uses |-> IF saved[u] = Ask THEN consents[u] ELSE saved[u]]
      BY <2>1, <2>6, Zenon DEF SignedIn, restore_decisions
    <3>2. \A u \in Uses : saved[u] \in {Ask, Allow, Deny}
      BY <1>0, <2>6 DEF HistoryInv, Lasting
    <3> QED
      BY <1>0, <2>3, <2>4, <2>6, <3>1, <3>2, DecisionKinds DEF HistoryInv
  <2> QED
    BY <2>5, <2>6
<1>3. CASE ~(screen # "off" /\ screen' = "off") /\ ~(screen \in {"create", "unlock"} /\ screen' = "desktop")
  <2>1. UNCHANGED <<registry, desktop>>
    BY <1>3 DEF LoginStep
  <2>2. search.stage # "idle" => screen' = "desktop"
    <3> SUFFICES ASSUME search.stage # "idle" PROVE screen' = "desktop"
      OBVIOUS
    <3>1. screen = "desktop" /\ search # Idle
      BY <1>0 DEF SearchInv, Idle, Search
    <3>2. screen' # "change" /\ screen' # "off"
      BY <1>3, <3>1 DEF LoginStep, Free
    <3>3. LoginNext
      BY DEF LoginStep
    <3>4. Boot \/ Reset \/ DirectoryTorn \/ Tick \/ OpenChange \/ CancelChange
      BY <3>1, <3>3, Zenon DEF LoginNext, create, unlock, submit
    <3> QED
      BY <3>1, <3>2, <3>4 DEF Boot, Reset, DirectoryTorn, Off, Tick, OpenChange, CancelChange, Show
  <2>3. SearchInv'
    BY <1>0, <2>1, <2>2 DEF SearchInv, registry, desktop
  <2>4. DialogInv' /\ GrantInv'
    BY <1>0, <2>1, Zenon DEF DialogInv, GrantInv, registry, desktop, Wanted, Check, check_grant, is_live
  <2>5. HistoryInv'
    BY <1>0, <2>1, Zenon DEF HistoryInv, registry, desktop
  <2> QED
    BY <2>3, <2>4, <2>5
<1> QED
  BY <1>1, <1>2, <1>3

-----------------------------------------------------------------------------
(* The steps of a search. *)

(* A search ends, waits, or goes on with the grant it wanted. *)
LEMMA SearchPreserved ==
  ASSUME DesktopInv, \/ SearchRefused \/ AlreadyGranted \/ NotGranted
                     \/ FrameMissed \/ StillWaiting \/ TakeAnswer \/ Serve
                     \/ OpenPanel \/ ClosePanel
  PROVE  SearchInv' /\ DialogInv' /\ HistoryInv' /\ GrantInv'
<1>0. SearchInv /\ DialogInv /\ HistoryInv /\ GrantInv
  BY DEF DesktopInv
<1>1. CASE SearchRefused
  <2>1. UNCHANGED <<login, desktop, launches, consents>> /\ search.stage = "idle"
    BY <1>1 DEF SearchRefused, LaunchRefused, Free, Idle, Search
  <2> QED
    BY <1>0, <2>1, Zenon DEF login, desktop, SearchInv, DialogInv, HistoryInv, GrantInv
<1>2. CASE AlreadyGranted
  BY <1>2, AdvancedPreserves DEF AlreadyGranted, login, registry
<1>3. CASE Reaped /\ search.stage # "idle" /\ UNCHANGED <<saved, dialog>>
  BY <1>0, <1>3, ReapedPreserves DEF DialogInv
<1>4. CASE StillWaiting
  <2>1. /\ search.stage = "presenting" /\ search'.stage = "waiting"
        /\ search'.session = search.session /\ search'.index = search.index
        /\ search' = Search(search'.stage, search'.session, search'.index)
    BY <1>0, <1>4 DEF StillWaiting, SearchInv, Search
  <2>2. UNCHANGED <<manifests, launches, consents, saved, allowed, screen, panel, dialog>>
    BY <1>4 DEF StillWaiting, login, registry
  <2>3. SearchInv' /\ HistoryInv' /\ GrantInv'
    BY <2>1, <2>2, QuietPreserves, Zenon
  <2>4. DialogInv'
    BY <1>0, <2>1, <2>2, Zenon DEF DialogInv, Wanted, Check, check_grant, is_live
  <2> QED
    BY <2>3, <2>4
<1>5. CASE TakeAnswer
  <2>1. CASE Counts
    BY <1>5, <2>1, AdvancedPreserves DEF TakeAnswer, Counts, login, registry
  <2>2. CASE ~Counts
    BY <1>3, <1>5, <2>2 DEF TakeAnswer
  <2> QED
    BY <2>1, <2>2
<1>6. CASE OpenPanel \/ ClosePanel
  <2>1. search.stage = "idle"
    <3>1. CASE OpenPanel
      <4>1. search = Idle
        BY <3>1, Zenon DEF OpenPanel, Free
      <4> QED
        BY <4>1 DEF Idle, Search
    <3>2. CASE ClosePanel
      <4>1. panel # Closed
        BY <3>2, Zenon DEF ClosePanel
      <4> QED
        BY <1>0, <4>1, Zenon DEF SearchInv
    <3> QED
      BY <1>6, <3>1, <3>2
  <2>2. UNCHANGED <<login, registry, saved, dialog, search, allowed>>
    BY <1>6 DEF OpenPanel, ClosePanel
  <2> QED
    BY <1>0, <2>1, <2>2, Zenon DEF login, registry, SearchInv, DialogInv, HistoryInv, GrantInv
<1> QED
  BY <1>1, <1>2, <1>3, <1>4, <1>5, <1>6 DEF NotGranted, FrameMissed, Serve

(* A search starts on a free desktop, with nothing granted yet. *)
LEMMA StartPreserved ==
  ASSUME DesktopInv, NEW s \in AppSessions, StartSearch(s)
  PROVE  SearchInv' /\ DialogInv' /\ HistoryInv' /\ GrantInv'
<1>0. SearchInv /\ DialogInv /\ HistoryInv
  BY DEF DesktopInv
<1>1. search.stage = "idle" /\ launches = {} /\ dialog = NoDialog /\ screen = "desktop" /\ panel = Closed
  BY <1>0 DEF StartSearch, Free, Idle, Search, SearchInv
<1>2. PICK p \in Processes : launch(Package, s, p)
  BY DEF StartSearch
<1>3. launches' = {Launch(p, Package.app, s)} /\ UNCHANGED <<screen, panel, dialog, saved, allowed, consents>>
  BY <1>1, <1>2 DEF launch, StartSearch, login
<1>4. search' = Search("asking", s, 1)
  BY DEF StartSearch
<1>5. search'.stage = "asking" /\ search'.session = s /\ search'.index = 1
      /\ search' = Search(search'.stage, search'.session, search'.index)
  BY <1>4 DEF Search
<1>6. 1 \in 1..Len(Needed) /\ Len(Needed) \in Nat
  BY DesktopConstants
<1>7. SearchInv'
  BY <1>1, <1>3, <1>5, <1>6 DEF SearchInv
<1>8. DialogInv' /\ HistoryInv'
  BY <1>0, <1>1, <1>3, Zenon DEF DialogInv, HistoryInv, NoDialog
<1>9. GrantInv'
  BY <1>5, <1>6 DEF GrantInv
<1> QED
  BY <1>7, <1>8, <1>9

(* A prompt is opened for a use that is not decided. *)
LEMMA PromptPreserved ==
  ASSUME DesktopInv, NEW early, Prompt(early) \/ PromptUnseen(early)
  PROVE  SearchInv' /\ DialogInv' /\ HistoryInv' /\ GrantInv'
<1>0. SearchInv /\ DialogInv /\ HistoryInv
  BY DEF DesktopInv
<1>1. /\ search.stage = "asking" /\ dialog' = Opened(early)
      /\ dialog' = Dialog(dialog.request, dialog.focus, dialog.pressed, dialog.early, dialog.chosen)'
      /\ dialog'.focus \in Choices /\ dialog'.request = Wanted
  BY DEF Prompt, PromptUnseen, Opened, Dialog, Choices
<1>2. CASE PromptUnseen(early)
  BY <1>1, <1>2, ReapedPreserves DEF PromptUnseen
<1>3. CASE Prompt(early)
  <2>1. /\ search'.stage = "waiting"
        /\ search'.session = search.session /\ search'.index = search.index
        /\ search' = Search(search'.stage, search'.session, search'.index)
    BY <1>0, <1>3 DEF Prompt, SearchInv, Search
  <2>2. UNCHANGED <<manifests, launches, consents, saved, allowed, screen, panel>>
    BY <1>3 DEF Prompt, request_consent, login
  <2>3. SearchInv' /\ HistoryInv' /\ GrantInv'
    BY <1>1, <2>1, <2>2, QuietPreserves
  <2>4. Check = "ConsentRequired"
    BY <1>3 DEF Prompt, request_consent, Check
  <2>5. Wanted' = Wanted /\ Check' = "ConsentRequired"
    BY <2>1, <2>2, <2>4, Zenon DEF Wanted, Check, check_grant, is_live
  <2> QED
    BY <1>1, <2>1, <2>3, <2>5 DEF DialogInv
<1> QED
  BY <1>2, <1>3

-----------------------------------------------------------------------------
(* At first nothing is recorded, saved or allowed. *)
LEMMA DesktopInit == Init => DesktopInv
<1> SUFFICES ASSUME Init PROVE DesktopInv
  OBVIOUS
<1>1. RegistryInv
  BY NewRegistryHolds DEF Init, SupervisorInit
<1>2. SearchInv /\ GrantInv
  BY DEF Init, SupervisorInit, SearchInv, GrantInv, Idle, Search
<1>3. DialogInv
  BY Zenon DEF Init, DialogInv, NoDialog, Dialog
<1>4. HistoryInv
  BY DecisionKinds DEF Init, SupervisorInit, HistoryInv
<1> QED
  BY <1>1, <1>2, <1>3, <1>4 DEF DesktopInv

(* Every step preserves the invariant. *)
LEMMA DesktopStep == DesktopInv /\ [Next]_vars => DesktopInv'
<1> SUFFICES ASSUME DesktopInv, [Next]_vars PROVE DesktopInv'
  OBVIOUS
<1>1. RegistryInv'
  BY PartsStep, RegistryStep DEF DesktopInv
<1>2. SearchInv' /\ DialogInv' /\ HistoryInv' /\ GrantInv'
  <2>1. CASE Next
    BY <2>1, LoginPreserved, SearchPreserved, StartPreserved, PromptPreserved, EventPreserved,
       WithdrawPreserved DEF Next
  <2>2. CASE UNCHANGED vars
    BY <2>2, Zenon DEF vars, login, registry, desktop, DesktopInv, SearchInv, DialogInv, HistoryInv, GrantInv,
       Wanted, Check, check_grant, is_live
  <2> QED
    BY <2>1, <2>2
<1> QED
  BY <1>1, <1>2 DEF DesktopInv

(* The desktop uses the registry and the login only as they allow. *)
THEOREM DesktopImplementsParts == Spec => SupervisorSpec /\ LoginSpec
<1>1. Init => SupervisorInit /\ LoginInit
  BY DEF Init
<1> QED
  BY <1>1, DesktopInit, DesktopStep, PartsStep, PTL DEF Spec, SupervisorSpec, LoginSpec

(* And so it keeps what they promise. *)
THEOREM DesktopKeepsPromises ==
  Spec => /\ [](OnceEndsWithSession /\ PromptsAreLive /\ OwnerKeepsAccount)
          /\ GuessesArePaced
  BY DesktopImplementsParts, RegistryKeepsPromises, OwnerKeepsAccountAlways, GuessesArePacedAlways, PTL

(* A search is served only with grants that are recorded, and only if the  *)
(* user has allowed each of them, for good or in this session, and has not *)
(* taken it back.                                                          *)
THEOREM ServedAsAllowedAlways == Spec => []ServedAsAllowed
<1>1. DesktopInv => ServedAsAllowed
  <2> SUFFICES ASSUME DesktopInv, search.stage = "serving", NEW i \in 1..Len(Needed)
               PROVE  /\ allowed[<<Package.app, Needed[i]>>] # {}
                      /\ check_grant(Package.app, search.session, Needed[i]) = "Granted"
    BY Zenon DEF ServedAsAllowed
  <2>1. check_grant(Package.app, search.session, Needed[i]) = "Granted"
    BY DEF DesktopInv, GrantInv
  <2>2. consents[<<Package.app, Needed[i]>>] \in {Allow, AllowOnce(search.session)}
    BY <2>1, GrantMeans
  <2>3. <<Package.app, Needed[i]>> \in Uses
    BY DesktopConstants DEF Uses, Apps
  <2>4. allowed[<<Package.app, Needed[i]>>] # {}
    BY <2>2, <2>3, DecisionKinds DEF DesktopInv, HistoryInv
  <2> QED
    BY <2>1, <2>4
<1> QED
  BY <1>1, DesktopInit, DesktopStep, PTL DEF Spec

-----------------------------------------------------------------------------
(* The dialog and its prompt. *)
WF == INSTANCE WellFoundedInduction

(* As long as frames are presented, the dialog that is open is that of the *)
(* only prompt; when it has closed, the prompt is gone, or a refusal waits *)
(* that ends the search and its prompts.                                   *)
PromptInv ==
  /\ misses \in Nat
  /\ misses = 0 =>
       /\ dialog # NoDialog => /\ search.stage \in {"waiting", "presenting"}
                               /\ dialog.request = Wanted
                               /\ Queued = {Wanted}
                               /\ decision = NoAnswer
       /\ decision # NoAnswer => search.stage = "presenting" /\ decision.request = Wanted
       /\ dialog = NoDialog => Queued = {} \/ (decision # NoAnswer /\ ~decision.granted)

(* The first of some slots is one of them. *)
LEMMA FirstIsOne ==
  ASSUME NEW I, I \subseteq Prompts, I # {}
  PROVE  First(I) \in I
<1> DEFINE Less == {pair \in Nat \X Nat : pair[1] < pair[2]}
<1>1. I \subseteq Nat
  BY SupervisorConstants DEF Prompts
<1>2. WF!IsWellFoundedOn(Less, Nat)
  BY WF!NatLessThanWellFounded DEF WF!OpToRel
<1>3. PICK i \in I : \A j \in I : <<j, i>> \notin Less
  <2> HIDE DEF Less
  <2> QED
    BY <1>1, <1>2, WF!WFMin, Zenon
<1>4. \A j \in I : ~(j < i)
  BY <1>1, <1>3, Zenon
<1>5. \A j \in I : i <= j
  BY <1>1, <1>4
<1> QED
  BY <1>5 DEF First

(* A request that can be made is not the absent one. *)
LEMMA RequestIsSome ==
  ASSUME NEW r \in Requests
  PROVE  r # NoRequest
  BY SupervisorConstants DEF Requests, Request, NoRequest

(* A request that finds no prompt in the queue becomes the only one. *)
LEMMA OnlyPrompt ==
  ASSUME RegistryInv, NEW r \in Requests, request_consent(r), Queued = {}
  PROVE  Queued' = {r}
<1>1. FreePrompts # {} /\ pending' = [pending EXCEPT ![First(FreePrompts)] = r]
  BY DEF request_consent
<1>2. First(FreePrompts) \in Prompts
  BY <1>1, FirstIsOne DEF FreePrompts
<1>3. pending \in [Prompts -> Requests \cup {NoRequest}] /\ \A i \in Prompts : pending[i] = NoRequest
  BY DEF RegistryInv, Entries, Queued
<1>4. r # NoRequest
  BY RequestIsSome
<1>5. /\ \A i \in Prompts : pending'[i] = NoRequest \/ pending'[i] = r
      /\ pending'[First(FreePrompts)] = r
  BY <1>1, <1>2, <1>3
<1> QED
  BY <1>2, <1>4, <1>5 DEF Queued

(* An answer takes the only prompt from the queue. *)
LEMMA AnsweredPrompt ==
  ASSUME RegistryInv, NEW r, NEW d, Queued = {r}, resolve_consent(r, d)
  PROVE  Queued' = {}
<1> DEFINE I == {i \in Prompts : pending[i] = r}
<1>1. I # {} /\ r # NoRequest
  BY DEF Queued
<1>2. First(I) \in I
  BY <1>1, FirstIsOne
<1>3. pending' = [pending EXCEPT ![First(I)] = NoRequest]
  BY DEF resolve_consent
<1>4. pending \in [Prompts -> Requests \cup {NoRequest}]
  BY DEF RegistryInv, Entries
<1>5. \A i \in Prompts : pending[i] = r \/ pending[i] = NoRequest
  BY Zenon DEF Queued
<1>6. \A i \in I : i = First(I)
  BY <1>1, <1>2 DEF RegistryInv, PromptsAreLive
<1>7. \A i \in Prompts : pending'[i] = NoRequest
  BY <1>2, <1>3, <1>4, <1>5, <1>6
<1> QED
  BY <1>7 DEF Queued

(* The end of the only application takes every prompt with it. *)
LEMMA ReapedPrompts ==
  ASSUME DesktopInv, Reaped, search.stage # "idle"
  PROVE  Queued' = {}
<1>1. PICK l \in launches :
        pending' = [i \in Prompts |-> IF pending[i].app = l.app /\ pending[i].session = l.session
                                        THEN NoRequest ELSE pending[i]]
  BY DEF Reaped, record_exit
<1>2. launches = {l}
  BY <1>1, Zenon DEF DesktopInv, SearchInv
<1>3. \A i \in Prompts : pending[i] # NoRequest => pending[i].app = l.app /\ pending[i].session = l.session
  BY <1>2 DEF DesktopInv, RegistryInv, PromptsAreLive, Queued, is_live
<1>4. \A i \in Prompts : pending'[i] = NoRequest
  BY <1>1, <1>3
<1> QED
  BY <1>4 DEF Queued

(* A step that leaves the prompts and the dialog as they are, and does not *)
(* take a search that waits for them elsewhere.                            *)
LEMMA SamePrompts ==
  ASSUME PromptInv, UNCHANGED <<pending, dialog, decision, misses>>,
         misses = 0 /\ dialog # NoDialog =>
           Wanted' = Wanted /\ search'.stage \in {"waiting", "presenting"},
         misses = 0 /\ decision # NoAnswer => Wanted' = Wanted /\ search'.stage = "presenting"
  PROVE  PromptInv'
<1>1. Queued' = Queued
  BY DEF Queued
<1> QED
  BY <1>1 DEF PromptInv

(* A step after which nothing is open, answered or queued. *)
LEMMA NoPrompts ==
  ASSUME misses' \in Nat, misses' = 0 => dialog' = NoDialog /\ decision' = NoAnswer /\ Queued' = {}
  PROVE  PromptInv'
  BY DEF PromptInv

(* A restart loses all of them. *)
LEMMA RestartPrompts ==
  ASSUME PromptInv, NEW STATE a, Restarts(a)
  PROVE  PromptInv'
<1>1. pending' = [i \in Prompts |-> NoRequest] /\ dialog' = NoDialog /\ decision' = NoAnswer
      /\ misses' = misses
  BY DEF Restarts, NewRegistry
<1>2. Queued' = {}
  BY <1>1 DEF Queued
<1> QED
  BY <1>1, <1>2, NoPrompts DEF PromptInv

(* An answer closes the dialog, and takes its prompt or is a refusal. *)
LEMMA AnswerPrompts ==
  ASSUME DesktopInv, PromptInv, TakesEvents, NEW choice,
         AnswerRefused(choice) \/ AnswerTaken(choice) \/ AnswerUnsaved(choice) \/ AnswerCut(choice)
  PROVE  PromptInv'
<1>1. CASE AnswerCut(choice)
  BY <1>1, RestartPrompts, Zenon DEF AnswerCut
<1>2. CASE ~AnswerCut(choice)
  <2>1. dialog' = NoDialog /\ Handled /\ misses' = misses
    BY <1>2, Zenon DEF AnswerRefused, AnswerTaken, AnswerUnsaved
  <2> SUFFICES ASSUME misses = 0
               PROVE  /\ decision' # NoAnswer => search'.stage = "presenting" /\ decision'.request = Wanted'
                      /\ Queued' = {} \/ (decision' # NoAnswer /\ ~decision'.granted)
    BY <2>1 DEF PromptInv
  <2>2. search.stage = "waiting" /\ dialog.request = Wanted /\ Queued = {Wanted}
    BY DEF PromptInv, TakesEvents
  <2>3. search'.stage = "presenting" /\ Wanted' = Wanted
    BY <2>1, <2>2, HandledMeans, Zenon DEF Wanted, DesktopInv
  <2>4. CASE AnswerRefused(choice)
    <3>1. decision' = Answer(Wanted, FALSE)
      BY <2>2, <2>4 DEF AnswerRefused
    <3>2. Wanted # NoRequest
      BY <2>2, WantedIsRequest, RequestIsSome DEF DesktopInv
    <3> QED
      BY <2>3, <3>1, <3>2 DEF Answer, NoAnswer
  <2>5. CASE AnswerTaken(choice) \/ AnswerUnsaved(choice)
    <3>1. resolve_consent(Wanted, User(choice))
      BY <2>2, <2>5, Zenon DEF AnswerTaken, AnswerUnsaved
    <3>2. Queued' = {}
      BY <2>2, <3>1, AnsweredPrompt DEF DesktopInv
    <3>3. PICK granted : decision' = Answer(dialog.request, granted)
      BY <2>5, Zenon DEF AnswerTaken, AnswerUnsaved
    <3>4. decision'.request = Wanted
      BY <2>2, <3>3 DEF Answer
    <3> QED
      BY <2>3, <3>2, <3>4
  <2> QED
    BY <1>2, <2>4, <2>5
<1> QED
  BY <1>1, <1>2

(* Other events leave the dialog open. *)
LEMMA BecomesPrompts ==
  ASSUME DesktopInv, PromptInv, NEW f, NEW p, NEW e, NEW c, Becomes(Dialog(dialog.request, f, p, e, c))
  PROVE  PromptInv'
<1>1. TakesEvents /\ Handled /\ dialog' = Dialog(dialog.request, f, p, e, c)
      /\ UNCHANGED <<pending, decision, misses>>
  BY DEF Becomes, registry
<1> SUFFICES ASSUME misses = 0
             PROVE  /\ search'.stage \in {"waiting", "presenting"} /\ dialog'.request = Wanted'
                    /\ Queued' = {Wanted'} /\ decision' = NoAnswer /\ dialog' # NoDialog
  BY <1>1, Zenon DEF PromptInv
<1>2. search.stage = "waiting" /\ dialog.request = Wanted /\ Queued = {Wanted} /\ decision = NoAnswer
  BY <1>1, Zenon DEF PromptInv, TakesEvents
<1>3. search'.stage = "presenting" /\ Wanted' = Wanted
  BY <1>1, <1>2, HandledMeans, Zenon DEF Wanted, DesktopInv
<1>4. Queued' = Queued
  BY <1>1 DEF Queued
<1>5. dialog'.request = Wanted
  BY <1>1, <1>2 DEF Dialog
<1>6. NoDialog.request = NoRequest /\ Wanted # NoRequest
  BY <1>2, WantedIsRequest, RequestIsSome, Zenon DEF DesktopInv, NoDialog, Dialog
<1> QED
  BY <1>1, <1>2, <1>3, <1>4, <1>5, <1>6

(* What the events do to the dialog. *)
LEMMA EventForms ==
  ASSUME DialogInv
  PROVE  /\ Tab => \E f : Becomes(Dialog(dialog.request, f, None, dialog.early, TRUE))
         /\ \A k : PressKey(k) =>
              Becomes(Dialog(dialog.request, dialog.focus, k, dialog.early \ {k}, dialog.chosen))
         /\ \A k : ReleaseKey(k) =>
              \/ dialog.pressed = k /\ Answers(dialog.focus)
              \/ Becomes(Dialog(dialog.request, dialog.focus, dialog.pressed, dialog.early \ {k},
                                dialog.chosen))
         /\ \A t : PressButton(t) =>
              \E f : Becomes(Dialog(dialog.request, f, t, dialog.early \ {Button}, TRUE))
         /\ \A t : ReleaseButton(t) =>
              \/ t # None /\ dialog.pressed = t /\ Answers(t)
              \/ Becomes(Dialog(dialog.request, dialog.focus, None, dialog.early \ {Button},
                                dialog.chosen))
<1>1. dialog = Dialog(dialog.request, dialog.focus, dialog.pressed, dialog.early, dialog.chosen)
  BY DEF DialogInv
<1>2. Tab => Becomes(Dialog(dialog.request, NextFocus[dialog.focus], None, dialog.early, TRUE))
  BY <1>1, Zenon DEF Tab, Becomes, Dialog
<1>3. \A k : PressKey(k) =>
        Becomes(Dialog(dialog.request, dialog.focus, k, dialog.early \ {k}, dialog.chosen))
  BY <1>1, Zenon DEF PressKey, Becomes, Dialog
<1>4. \A k : ReleaseKey(k) =>
        \/ dialog.pressed = k /\ Answers(dialog.focus)
        \/ Becomes(Dialog(dialog.request, dialog.focus, dialog.pressed, dialog.early \ {k}, dialog.chosen))
  BY <1>1 DEF ReleaseKey, Becomes, Released, Dialog
<1>5. \A t : PressButton(t) =>
        Becomes(Dialog(dialog.request, IF t = None THEN dialog.focus ELSE t, t,
                       dialog.early \ {Button}, TRUE))
  BY <1>1, Zenon DEF PressButton, Becomes, Dialog
<1>6. \A t : ReleaseButton(t) =>
        \/ t # None /\ dialog.pressed = t /\ Answers(t)
        \/ Becomes(Dialog(dialog.request, dialog.focus, None, dialog.early \ {Button}, dialog.chosen))
  BY <1>1, Zenon DEF ReleaseButton, Becomes, Released, Dialog
<1> QED
  BY <1>2, <1>3, <1>4, <1>5, <1>6, Zenon

(* Every event is an answer or leaves the dialog open. *)
LEMMA EventPrompts ==
  ASSUME DesktopInv, PromptInv, Event
  PROVE  PromptInv'
<1>1. \A choice : Answers(choice) \/ Escape => PromptInv'
  BY AnswerPrompts, Zenon DEF Answers, Escape
<1>2. \A f, p, e, c : Becomes(Dialog(dialog.request, f, p, e, c)) => PromptInv'
  BY BecomesPrompts
<1>3. DialogInv
  BY DEF DesktopInv
<1> QED
  BY <1>1, <1>2, <1>3, EventForms, Zenon DEF Event

(* The steps of a search keep the dialog with its prompt, or end both. *)
LEMMA SearchPrompts ==
  ASSUME DesktopInv, PromptInv, \/ AlreadyGranted \/ NotGranted \/ FrameMissed \/ StillWaiting
                                \/ TakeAnswer \/ Serve
                                \/ \E early : Prompt(early) \/ PromptUnseen(early)
  PROVE  PromptInv'
<1>0. misses \in Nat
  BY DEF PromptInv
<1>1. search.stage \in {"asking", "serving"} /\ misses = 0 =>
        dialog = NoDialog /\ decision = NoAnswer /\ Queued = {}
  BY DEF PromptInv
<1>2. CASE AlreadyGranted
  BY <1>1, <1>2, SamePrompts DEF AlreadyGranted, registry
<1>3. CASE NotGranted \/ Serve
  <2>1. /\ search.stage \in {"asking", "serving"} /\ search.stage # "idle" /\ Reaped
        /\ UNCHANGED <<dialog, decision, misses>>
    BY <1>3 DEF NotGranted, Serve
  <2> QED
    BY <1>0, <1>1, <2>1, ReapedPrompts, NoPrompts
<1>4. CASE FrameMissed \/ \E early : PromptUnseen(early)
  <2>1. misses' = misses + 1
    BY <1>4 DEF FrameMissed, PromptUnseen
  <2> QED
    BY <1>0, <2>1, NoPrompts
<1>5. CASE StillWaiting
  <2>1. /\ UNCHANGED <<pending, dialog, decision, misses>> /\ decision = NoAnswer
        /\ search' = [search EXCEPT !.stage = "waiting"]
    BY <1>5 DEF StillWaiting, registry
  <2>2. search'.stage = "waiting" /\ Wanted' = Wanted
    BY <2>1 DEF DesktopInv, SearchInv, Search, Wanted
  <2> QED
    BY <2>1, <2>2, SamePrompts
<1>6. CASE TakeAnswer
  <2>1. /\ search.stage = "presenting" /\ decision # NoAnswer /\ decision' = NoAnswer
        /\ UNCHANGED <<dialog, misses>>
    BY <1>6 DEF TakeAnswer
  <2>2. misses = 0 => dialog = NoDialog /\ (decision.granted => Queued = {})
    BY <2>1, Zenon DEF PromptInv
  <2>3. CASE Counts
    <3>1. pending' = pending /\ decision.granted
      BY <1>6, <2>3 DEF TakeAnswer, Counts, registry
    <3>2. Queued' = Queued
      BY <3>1 DEF Queued
    <3> QED
      BY <1>0, <2>1, <2>2, <3>1, <3>2, NoPrompts
  <2>4. CASE ~Counts
    <3>1. Queued' = {}
      BY <1>6, <2>1, <2>4, ReapedPrompts DEF TakeAnswer
    <3> QED
      BY <1>0, <2>1, <2>2, <3>1, NoPrompts
  <2> QED
    BY <2>3, <2>4
<1>7. ASSUME NEW early, Prompt(early) PROVE PromptInv'
  <2>1. /\ search.stage = "asking" /\ request_consent(Wanted) /\ dialog' = Opened(early)
        /\ search' = [search EXCEPT !.stage = "waiting"] /\ UNCHANGED <<decision, misses>>
    BY <1>7 DEF Prompt
  <2>2. search'.stage = "waiting" /\ Wanted' = Wanted
    BY <2>1 DEF DesktopInv, SearchInv, Search, Wanted
  <2>3. Wanted \in Requests /\ dialog'.request = Wanted /\ dialog'.request # NoRequest
    BY <2>1, WantedIsRequest, RequestIsSome DEF DesktopInv, Opened, Dialog
  <2>4. misses = 0 => Queued' = {Wanted} /\ decision = NoAnswer
    BY <1>1, <2>1, <2>3, OnlyPrompt DEF DesktopInv
  <2>5. dialog' # NoDialog
    BY <2>3 DEF NoDialog, Dialog
  <2> QED
    BY <1>0, <2>1, <2>2, <2>3, <2>4, <2>5 DEF PromptInv
<1> QED
  BY <1>2, <1>3, <1>4, <1>5, <1>6, <1>7

(* Every step keeps the dialog with its prompt. *)
LEMMA PromptStep == DesktopInv /\ PromptInv /\ [Next]_vars => PromptInv'
<1> SUFFICES ASSUME DesktopInv, PromptInv, [Next]_vars PROVE PromptInv'
  OBVIOUS
<1>1. ASSUME UNCHANGED <<pending, dialog, decision, misses>>, UNCHANGED search \/ search = Idle
      PROVE  PromptInv'
  <2>1. search = Idle => search.stage = "idle"
    BY DEF Idle, Search
  <2>2. UNCHANGED search => Wanted' = Wanted
    BY DEF Wanted
  <2>3. misses = 0 /\ dialog # NoDialog => search.stage \in {"waiting", "presenting"} /\ search # Idle
    BY <2>1 DEF PromptInv
  <2>4. misses = 0 /\ decision # NoAnswer => search.stage = "presenting" /\ search # Idle
    BY <2>1 DEF PromptInv
  <2> QED
    BY <1>1, <2>2, <2>3, <2>4, SamePrompts
<1>2. CASE LoginStep
  <2>1. CASE screen # "off" /\ screen' = "off"
    BY <1>2, <2>1, RestartPrompts DEF LoginStep
  <2>2. CASE ~(screen # "off" /\ screen' = "off")
    <3>1. UNCHANGED <<pending, dialog, decision, misses, search>>
      BY <1>2, <2>2 DEF LoginStep, SignedIn, restore_decisions, registry, desktop
    <3> QED
      BY <1>1, <3>1
  <2> QED
    BY <2>1, <2>2
<1>3. CASE SearchRefused \/ \E s \in AppSessions : StartSearch(s)
  <2>1. UNCHANGED <<pending, dialog, decision, misses>> /\ search = Idle
    BY <1>3 DEF SearchRefused, StartSearch, Free, LaunchRefused, launch, desktop
  <2> QED
    BY <1>1, <2>1
<1>4. CASE OpenPanel \/ ClosePanel
  BY <1>1, <1>4 DEF OpenPanel, ClosePanel, registry
<1>5. ASSUME NEW u \in Uses, withdraw(u) PROVE PromptInv'
  <2>1. CASE WithdrawCut(u)
    BY <2>1, RestartPrompts DEF WithdrawCut
  <2>2. CASE WithdrawSaved(u) \/ WithdrawUnsaved(u)
    BY <1>1, <2>2 DEF WithdrawSaved, WithdrawUnsaved, record_decision
  <2> QED
    BY <1>5, <2>1, <2>2 DEF withdraw
<1>6. CASE UNCHANGED vars
  BY <1>1, <1>6 DEF vars, registry, desktop
<1>7. Event => PromptInv'
  BY EventPrompts
<1>8. \/ AlreadyGranted \/ NotGranted \/ FrameMissed \/ StillWaiting \/ TakeAnswer \/ Serve
      \/ \E early : Prompt(early) \/ PromptUnseen(early)
      => PromptInv'
  BY SearchPrompts
<1> QED
  BY <1>2, <1>3, <1>4, <1>5, <1>6, <1>7, <1>8 DEF Next

(* As long as frames are presented, the dialog is that of the prompt a     *)
(* search waits for, the only one that is queued, and no answer is left    *)
(* for a later search.                                                     *)
THEOREM DialogIsWaitedForAlways == Spec => []DialogIsWaitedFor
<1>1. Init => PromptInv
  <2>1. Init => /\ misses = 0 /\ dialog = NoDialog /\ decision = NoAnswer
                /\ pending = [i \in Prompts |-> NoRequest]
    BY DEF Init, SupervisorInit
  <2> QED
    BY <2>1 DEF PromptInv, Queued
<1>2. PromptInv => DialogIsWaitedFor
  BY DEF PromptInv, DialogIsWaitedFor
<1> QED
  BY <1>1, <1>2, DesktopInit, DesktopStep, PromptStep, PTL DEF Spec

-----------------------------------------------------------------------------
(* Fresh answers. *)

(* What is pressed has been reported down since the dialog opened, no      *)
(* button of the dialog is pressed with a mouse button that has not, and   *)
(* the focus is on Deny until the user presses Tab or the mouse button.    *)
PressInv ==
  dialog # NoDialog =>
    /\ dialog.request \in Requests
    /\ dialog.early \subseteq Keys \cup {Button}
    /\ dialog.pressed \notin dialog.early
    /\ Button \in dialog.early => dialog.pressed \notin Choices
    /\ dialog.chosen \/ (dialog.focus = "Deny" /\ dialog.pressed \notin Choices)

(* Keys and buttons that are reported become fresh, and none stale. *)
LEMMA PressUpdate ==
  ASSUME PressInv, dialog # NoDialog, NEW f, NEW p, NEW e, NEW c,
         dialog' = Dialog(dialog.request, f, p, e, c),
         e \subseteq dialog.early, p \notin e, Button \in e => p \notin Choices,
         c \/ (f = "Deny" /\ p \notin Choices)
  PROVE  PressInv'
<1>1. /\ dialog'.request = dialog.request /\ dialog'.focus = f /\ dialog'.pressed = p
      /\ dialog'.early = e /\ dialog'.chosen = c
  BY Zenon DEF Dialog
<1> QED
  BY <1>1, Zenon DEF PressInv

(* A dialog that is opened has nothing pressed and the focus on Deny. *)
LEMMA PressOpened ==
  ASSUME DesktopInv, search.stage = "asking", NEW early \in SUBSET (Keys \cup {Button}),
         dialog' = Opened(early)
  PROVE  PressInv'
<1>1. dialog'.request = Wanted /\ dialog'.focus = "Deny" /\ dialog'.pressed = None /\ dialog'.early = early
  BY DEF Opened, Dialog
<1>2. Wanted \in Requests
  BY WantedIsRequest DEF DesktopInv
<1>3. None \notin early /\ None \notin Choices
  BY DistinctInputs
<1> QED
  BY <1>1, <1>2, <1>3, Zenon DEF PressInv

(* Every event keeps it, or closes the dialog. *)
LEMMA PressEvent ==
  ASSUME DesktopInv, PressInv, Event
  PROVE  PressInv'
<1>1. dialog' = NoDialog => PressInv'
  BY DEF PressInv
<1>2. \A choice : Answers(choice) \/ Escape => PressInv'
  BY <1>1, Zenon DEF Answers, Escape, AnswerRefused, AnswerTaken, AnswerUnsaved, AnswerCut, Restarts
<1>3. DialogInv
  BY DEF DesktopInv
<1>4. ASSUME NEW f, NEW p, NEW e, NEW c, Becomes(Dialog(dialog.request, f, p, e, c)),
             e \subseteq dialog.early, p \notin e, Button \in e => p \notin Choices,
             c \/ (f = "Deny" /\ p \notin Choices)
      PROVE  PressInv'
  BY <1>4, PressUpdate, Zenon DEF Becomes, TakesEvents
<1>5. \A d : Becomes(d) =>
        /\ dialog.early \subseteq Keys \cup {Button}
        /\ dialog.pressed \notin dialog.early
        /\ Button \in dialog.early => dialog.pressed \notin Choices
        /\ dialog.chosen \/ (dialog.focus = "Deny" /\ dialog.pressed \notin Choices)
  BY Zenon DEF PressInv, Becomes, TakesEvents
<1>6. None \notin Keys \cup {Button} /\ None \notin Choices
  BY DistinctInputs
<1>7. Tab => PressInv'
  <2> SUFFICES ASSUME Tab PROVE PressInv'
    OBVIOUS
  <2>1. PICK f : Becomes(Dialog(dialog.request, f, None, dialog.early, TRUE))
    BY <1>3, EventForms, Zenon
  <2>2. None \notin dialog.early /\ None \notin Choices
    BY <1>5, <1>6, <2>1, Zenon
  <2> QED
    BY <1>4, <2>1, <2>2, Zenon
<1>8. ASSUME NEW k \in Keys, PressKey(k) PROVE PressInv'
  <2>1. Becomes(Dialog(dialog.request, dialog.focus, k, dialog.early \ {k}, dialog.chosen))
    BY <1>3, <1>8, EventForms, Zenon
  <2>2. k \notin Choices
    BY DistinctInputs
  <2>3. dialog.chosen \/ (dialog.focus = "Deny" /\ k \notin Choices)
    BY <1>5, <2>1, <2>2, Zenon
  <2>4. dialog.early \ {k} \subseteq dialog.early /\ k \notin dialog.early \ {k}
    OBVIOUS
  <2> QED
    BY <1>4, <2>1, <2>2, <2>3, <2>4, Zenon
<1>9. ASSUME NEW k \in Keys, ReleaseKey(k) PROVE PressInv'
  <2>1. \/ Answers(dialog.focus)
        \/ Becomes(Dialog(dialog.request, dialog.focus, dialog.pressed, dialog.early \ {k}, dialog.chosen))
    BY <1>3, <1>9, EventForms, Zenon
  <2>2. CASE Answers(dialog.focus)
    BY <1>2, <2>2, Zenon
  <2>3. CASE Becomes(Dialog(dialog.request, dialog.focus, dialog.pressed, dialog.early \ {k}, dialog.chosen))
    <3>1. /\ dialog.pressed \notin dialog.early
          /\ Button \in dialog.early => dialog.pressed \notin Choices
          /\ dialog.chosen \/ (dialog.focus = "Deny" /\ dialog.pressed \notin Choices)
      BY <1>5, <2>3, Zenon
    <3>2. /\ dialog.early \ {k} \subseteq dialog.early
          /\ dialog.pressed \notin dialog.early \ {k}
          /\ Button \in dialog.early \ {k} => dialog.pressed \notin Choices
      BY <3>1, Zenon
    <3> QED
      BY <1>4, <2>3, <3>1, <3>2, Zenon
  <2> QED
    BY <2>1, <2>2, <2>3, Zenon
<1>10. ASSUME NEW t \in Choices \cup {None}, PressButton(t) PROVE PressInv'
  <2>1. PICK f : Becomes(Dialog(dialog.request, f, t, dialog.early \ {Button}, TRUE))
    BY <1>3, <1>10, EventForms, Zenon
  <2>2. dialog.early \subseteq Keys \cup {Button}
    BY <1>5, <2>1, Zenon
  <2>3. t \notin dialog.early \ {Button} /\ Button \notin dialog.early \ {Button}
    BY <1>6, <2>2, DistinctInputs
  <2>4. dialog.early \ {Button} \subseteq dialog.early
    OBVIOUS
  <2> QED
    BY <1>4, <2>1, <2>3, <2>4, Zenon
<1>11. ASSUME NEW t \in Choices \cup {None}, ReleaseButton(t) PROVE PressInv'
  <2>1. \/ Answers(t)
        \/ Becomes(Dialog(dialog.request, dialog.focus, None, dialog.early \ {Button}, dialog.chosen))
    BY <1>3, <1>11, EventForms, Zenon
  <2>2. CASE Answers(t)
    BY <1>2, <2>2, Zenon
  <2>3. CASE Becomes(Dialog(dialog.request, dialog.focus, None, dialog.early \ {Button}, dialog.chosen))
    <3>1. /\ dialog.early \subseteq Keys \cup {Button}
          /\ dialog.chosen \/ (dialog.focus = "Deny" /\ None \notin Choices)
      BY <1>5, <1>6, <2>3, Zenon
    <3>2. None \notin dialog.early \ {Button} /\ Button \notin dialog.early \ {Button}
      BY <1>6, <3>1, Zenon
    <3>3. dialog.early \ {Button} \subseteq dialog.early
      OBVIOUS
    <3> QED
      BY <1>4, <2>3, <3>1, <3>2, <3>3, Zenon
  <2> QED
    BY <2>1, <2>2, <2>3, Zenon
<1> QED
  BY <1>2, <1>7, <1>8, <1>9, <1>10, <1>11 DEF Event

(* No other step opens a dialog than that of a prompt. *)
LEMMA PressStep == DesktopInv /\ PressInv /\ [Next]_vars => PressInv'
<1> SUFFICES ASSUME DesktopInv, PressInv, [Next]_vars PROVE PressInv'
  OBVIOUS
<1>1. dialog' \in {dialog, NoDialog} => PressInv'
  BY Zenon DEF PressInv
<1>2. CASE LoginStep
  BY <1>1, <1>2 DEF LoginStep, Restarts, SignedIn, desktop
<1>3. CASE \E u \in Uses : withdraw(u)
  BY <1>1, <1>3 DEF withdraw, WithdrawSaved, WithdrawUnsaved, WithdrawCut, Restarts
<1>4. ASSUME NEW early \in SUBSET (Keys \cup {Button}), Prompt(early) \/ PromptUnseen(early)
      PROVE  PressInv'
  BY <1>4, PressOpened DEF Prompt, PromptUnseen
<1>5. CASE Event
  BY <1>5, PressEvent
<1>6. CASE \/ SearchRefused \/ \E s \in AppSessions : StartSearch(s)
           \/ AlreadyGranted \/ NotGranted \/ FrameMissed \/ StillWaiting \/ TakeAnswer \/ Serve
           \/ OpenPanel \/ ClosePanel
  <2>1. dialog' = dialog
    BY <1>6, Zenon DEF SearchRefused, StartSearch, AlreadyGranted, NotGranted, FrameMissed, StillWaiting,
       TakeAnswer, Serve, OpenPanel, ClosePanel, desktop
  <2> QED
    BY <1>1, <2>1
<1>7. CASE UNCHANGED vars
  BY <1>1, <1>7 DEF vars, desktop
<1> QED
  BY <1>2, <1>3, <1>4, <1>5, <1>6, <1>7 DEF Next

(* What was allowed for one session only goes when the session does. *)
LEMMA NotOnceTakes ==
  ASSUME NEW a \in [Uses -> SUBSET {"Allow", "Once"}], NEW u \in Uses, a[u] \subseteq allowed[u]
  PROVE  NotOnce(a)[u] \subseteq allowed[u]
  BY DEF NotOnce

(* To deny or to dismiss allows nothing more. *)
LEMMA RefusalAllowsNothing ==
  ASSUME DesktopInv, NEW choice \in {"Deny", "Dismissed"}, NEW u \in Uses,
         AnswerRefused(choice) \/ AnswerTaken(choice) \/ AnswerUnsaved(choice) \/ AnswerCut(choice)
  PROVE  allowed'[u] \subseteq allowed[u]
<1>0. allowed \in [Uses -> SUBSET {"Allow", "Once"}] /\ choice \in Choices \cup {"Dismissed"}
  BY DEF DesktopInv, HistoryInv, Choices
<1>1. CASE AnswerRefused(choice)
  BY <1>1, Zenon DEF AnswerRefused
<1>2. CASE AnswerTaken(choice) \/ AnswerUnsaved(choice) \/ AnswerCut(choice)
  <2>1. \E certain \in BOOLEAN : allowed' \in {AllowedBy(choice, certain), NotOnce(AllowedBy(choice, certain))}
    BY <1>2, Zenon DEF AnswerTaken, AnswerUnsaved, AnswerCut, Restarts
  <2>2. PICK certain \in BOOLEAN : allowed' \in {AllowedBy(choice, certain), NotOnce(AllowedBy(choice, certain))}
    BY <2>1, Zenon
  <2>3. dialog.request \in Queued
    BY <1>2, Zenon DEF AnswerTaken, AnswerUnsaved, AnswerCut, Recordable
  <2>4. Asked \in Uses
    BY <2>3, QueuedIsRequest, Zenon DEF DesktopInv, Asked
  <2>5. AllowedBy(choice, certain) \in [Uses -> SUBSET {"Allow", "Once"}]
        /\ \A v \in Uses : v # Asked => AllowedBy(choice, certain)[v] = allowed[v]
    BY <1>0, <2>4, AllowedByMeans
  <2>6. AllowedBy(choice, certain)[Asked] \subseteq allowed[Asked]
    <3>1. CASE choice = "Deny"
      BY <1>0, <2>4, <3>1 DEF AllowedBy
    <3>2. CASE choice = "Dismissed"
      BY <1>0, <2>4, <3>2 DEF AllowedBy
    <3> QED
      BY <3>1, <3>2
  <2>7. AllowedBy(choice, certain)[u] \subseteq allowed[u]
    BY <2>5, <2>6, Zenon
  <2>8. NotOnce(AllowedBy(choice, certain))[u] \subseteq allowed[u]
    BY <2>5, <2>7, NotOnceTakes
  <2> QED
    BY <2>2, <2>7, <2>8
<1> QED
  BY <1>1, <1>2

(* An event before Tab and the mouse button are pressed allows nothing     *)
(* more: all it can answer is Deny.                                        *)
LEMMA EventAllowsNothing ==
  ASSUME DesktopInv, PressInv, dialog # NoDialog, ~dialog.chosen, Event, NEW u \in Uses
  PROVE  allowed'[u] \subseteq allowed[u]
<1>1. DialogInv /\ dialog.focus = "Deny" /\ dialog.pressed \notin Choices
  BY Zenon DEF DesktopInv, PressInv
<1>2. Answers("Deny") \/ Escape => allowed'[u] \subseteq allowed[u]
  BY RefusalAllowsNothing, Zenon DEF Answers, Escape
<1>3. \A d : Becomes(d) => allowed'[u] \subseteq allowed[u]
  BY Zenon DEF Becomes
<1>4. \A k : ReleaseKey(k) => allowed'[u] \subseteq allowed[u]
  BY <1>1, <1>2, <1>3, Zenon DEF ReleaseKey
<1>5. \A t \in Choices \cup {None} : ReleaseButton(t) => allowed'[u] \subseteq allowed[u]
  BY <1>1, <1>3, Zenon DEF ReleaseButton
<1> QED
  BY <1>2, <1>3, <1>4, <1>5, Zenon DEF Event, Tab, PressKey, PressButton

(* Nor does any other step while the dialog is open. *)
LEMMA NothingMoreAllowed ==
  ASSUME DesktopInv, PressInv, dialog # NoDialog, ~dialog.chosen, Next, NEW u \in Uses
  PROVE  allowed'[u] \subseteq allowed[u]
<1>0. allowed \in [Uses -> SUBSET {"Allow", "Once"}]
  BY DEF DesktopInv, HistoryInv
<1>1. allowed' = allowed \/ allowed' = NotOnce(allowed) => allowed'[u] \subseteq allowed[u]
  BY <1>0, NotOnceTakes
<1>2. CASE LoginStep
  BY <1>1, <1>2, Zenon DEF LoginStep, Restarts, SignedIn, desktop
<1>3. CASE \E v \in Uses : withdraw(v)
  <2> PICK v \in Uses : withdraw(v)
    BY <1>3
  <2>1. allowed' = [allowed EXCEPT ![v] = {}] \/ allowed' = allowed \/ allowed' = NotOnce(allowed)
    BY Zenon DEF withdraw, WithdrawSaved, WithdrawUnsaved, WithdrawCut, Restarts
  <2> QED
    BY <1>0, <1>1, <2>1
<1>4. CASE Event
  BY <1>4, EventAllowsNothing
<1>5. CASE Reaped
  BY <1>1, <1>5 DEF Reaped
<1>6. CASE \/ SearchRefused \/ \E s \in AppSessions : StartSearch(s)
           \/ AlreadyGranted \/ NotGranted \/ FrameMissed \/ StillWaiting \/ TakeAnswer \/ Serve
           \/ OpenPanel \/ ClosePanel
           \/ \E early \in SUBSET (Keys \cup {Button}) : Prompt(early) \/ PromptUnseen(early)
  <2>1. allowed' = allowed \/ Reaped
    BY <1>6, Zenon DEF SearchRefused, StartSearch, AlreadyGranted, NotGranted, FrameMissed, StillWaiting,
       TakeAnswer, Serve, OpenPanel, ClosePanel, Prompt, PromptUnseen, desktop
  <2> QED
    BY <1>1, <1>5, <2>1, Zenon
<1> QED
  BY <1>2, <1>3, <1>4, <1>6 DEF Next

(* The release of what was down before the dialog opened, and has not been *)
(* reported down since, answers nothing.                                   *)
LEMMA EarlyReleases ==
  ASSUME DesktopInv, PressInv, dialog # NoDialog, NEW k \in dialog.early,
         ReleaseKey(k) \/ (k = Button /\ \E t \in Choices \cup {None} : ReleaseButton(t))
  PROVE  dialog' # NoDialog
<1>0. DialogInv /\ NoDialog.request = NoRequest
  BY DEF DesktopInv, NoDialog, Dialog
<1>1. /\ dialog.request \in Requests /\ dialog.pressed \notin dialog.early
      /\ Button \in dialog.early => dialog.pressed \notin Choices
  BY Zenon DEF PressInv
<1>2. PICK f, p, e, c : Becomes(Dialog(dialog.request, f, p, e, c))
  <2>1. CASE ReleaseKey(k)
    BY <1>0, <1>1, <2>1, EventForms, Zenon
  <2>2. CASE k = Button /\ \E t \in Choices \cup {None} : ReleaseButton(t)
    BY <1>0, <1>1, <2>2, EventForms, Zenon
  <2> QED
    BY <2>1, <2>2, Zenon
<1>3. dialog'.request = dialog.request
  BY <1>2, Zenon DEF Becomes, Dialog
<1> QED
  BY <1>0, <1>1, <1>3, RequestIsSome

(* Input from before the dialog opened answers nothing by its release, and *)
(* whatever is held down and repeats can only deny.                        *)
THEOREM AnswersAreFreshAlways == Spec => AnswersAreFresh
<1>1. Init => PressInv
  BY DEF Init, PressInv
<1> DEFINE IsFresh ==
      dialog # NoDialog =>
        /\ \A k \in dialog.early :
             ReleaseKey(k) \/ (k = Button /\ \E t \in Choices \cup {None} : ReleaseButton(t))
               => dialog' # NoDialog
        /\ ~dialog.chosen => \A u \in Uses : allowed'[u] \subseteq allowed[u]
<1>2. DesktopInv /\ PressInv /\ [Next]_vars => [IsFresh]_vars
  <2> SUFFICES ASSUME DesktopInv, PressInv, Next, dialog # NoDialog
               PROVE  /\ \A k \in dialog.early :
                           ReleaseKey(k) \/ (k = Button /\ \E t \in Choices \cup {None} : ReleaseButton(t))
                             => dialog' # NoDialog
                      /\ ~dialog.chosen => \A u \in Uses : allowed'[u] \subseteq allowed[u]
    BY Zenon
  <2> QED
    BY EarlyReleases, NothingMoreAllowed, Zenon
<1> QED
  BY <1>1, <1>2, DesktopInit, DesktopStep, PressStep, PTL DEF Spec, AnswersAreFresh
=============================================================================
