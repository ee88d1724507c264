------------------------------ MODULE MCDesktop ------------------------------
EXTENDS Desktop, TLC

FilesSearch == [app |-> "files-search", grants |-> {"search.query", "files.search"}]
MCManifests == {FilesSearch}
MCNeeded == <<"search.query", "files.search">>

Same == Permutations(Passwords) \cup Permutations(AppSessions)

(* Bounds: wrong passwords and password changes that went wrong are not    *)
(* combined with searches and decisions, nor a broken directory with an    *)
(* owner-account-next or with more than MAX_REJECTED wrong passwords.      *)
MAX_REJECTED == 2

LoginAtRest ==
  /\ rejected = 0 /\ unsaved = 0 /\ idle = MAX_WAIT
  /\ next = Absent /\ stored = Absent /\ directory = "sound"
  /\ \E p \in Passwords : expected = {p}

NoSearches ==
  /\ manifests = {} /\ panel = Closed /\ misses = 0
  /\ saved = Absent
  /\ directory = "broken" => next = Absent /\ rejected <= MAX_REJECTED

Bounded == LoginAtRest \/ NoSearches
=============================================================================
