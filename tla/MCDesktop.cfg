SPECIFICATION Spec
CONSTANTS
  Names = {short, long}
  Accepted = {short}
  Passwords = {p, q}
  FREE_ATTEMPTS = 2
  FIRST_WAIT = 1
  MAX_WAIT = 3
  MAX_COUNT = 5
  Absent = Absent
  Empty = Empty
  Manifests <- MCManifests
  Package <- FilesSearch
  Needed <- MCNeeded
  AppSessions = {s1, s2}
  Processes = {2}
  Capabilities = {"search.query", "files.search"}
  None = None
  MAX_APP_MANIFESTS = 1
  MAX_LIVE_LAUNCHES = 1
  MAX_CONSENT_DECISIONS = 2
  MAX_PENDING_CONSENTS = 1
  Keys = {"Enter"}
  MAX_MISSES = 2
SYMMETRY Same
CONSTRAINT Bounded
INVARIANTS
  OwnerKeepsAccount
  OnceEndsWithSession
  ServedAsAllowed
  DialogIsWaitedFor
PROPERTIES
  GuessesArePaced
  AnswersAreFresh
