------------------------------ MODULE Channels ------------------------------
(***************************************************************************)
(* What the user IPC manager promises (kernel/src/user_ipc.rs on top of    *)
(* kernel/src/ipc.rs and kernel/src/handles.rs): pairs of connected        *)
(* endpoints, each held by at most one process, that carry bounded queues  *)
(* of messages in which further endpoints may travel.                      *)
(*                                                                         *)
(* Handle tables, object slots, generations and reference counts are left  *)
(* to UserIpc, which implements this specification.  Here an endpoint is a *)
(* name; a dead one has no peer.  Every call of the manager runs under its *)
(* lock, so every call is one action; a call that fails changes nothing.   *)
(***************************************************************************)
EXTENDS Integers, Sequences, FiniteSets

CONSTANTS
  Endpoint,         \* names of endpoints
  NoEndpoint,
  Isolated,         \* Process IDs of isolated processes
  Threads,          \* ids of threads, which are also the waiter ids
  Masks,            \* the sets of rights a caller may ask a transfer to keep
  Queued,           \* holder of an endpoint that travels in a message
  Gone,             \* holder of an endpoint nobody has and nothing carries
  MAX_QUEUE,        \* 8 messages per direction in the code
  MAX_TRANSFER,     \* 4 endpoints per message in the code
  MAX_PROCESSES,    \* init and 2 isolated processes in the code
  MAX_WAITS         \* 8 registrations in the code

BOOTSTRAP_PROCESS_ID == 1

Rights == {"READ", "WRITE", "WAIT", "TRANSFER"}

Processes == Isolated \cup {BOOTSTRAP_PROCESS_ID}

ASSUME ChannelConstants ==
  /\ NoEndpoint \notin Endpoint
  /\ BOOTSTRAP_PROCESS_ID \notin Isolated
  /\ Masks \subseteq SUBSET Rights
  /\ Queued # Gone /\ {Queued, Gone} \cap Processes = {}

VARIABLES procs, peer, holder, rights, queue, waits

vars == <<procs, peer, holder, rights, queue, waits>>

Live == {e \in Endpoint : peer[e] # NoEndpoint}

Init ==
  /\ procs = {BOOTSTRAP_PROCESS_ID}
  /\ peer = [e \in Endpoint |-> NoEndpoint]
  /\ holder = [e \in Endpoint |-> Gone]
  /\ rights = [e \in Endpoint |-> {}]
  /\ queue = [e \in Endpoint |-> <<>>]
  /\ waits = {}

-----------------------------------------------------------------------------
(* The endpoints that travel in the messages waiting at q. *)
Escrow(q) == UNION {queue[q][i].moved : i \in 1 .. Len(queue[q])}

(* Mutant: the other end of a reachable endpoint is forgotten. *)
KeepsOneEnd(S) == \A e \in S : Escrow(e) \subseteq S

(* S keeps the other end and the messages of every endpoint in it. *)
KeepsReachable(S) == \A e \in S : peer[e] \in S /\ Escrow(e) \subseteq S

(* The endpoints of the channels that the handles of processes (in h)      *)
(* reach, also over the messages of channels that are themselves reached.  *)
Reachable(h) ==
  LET Rooted == {e \in Live : h[e] \notin {Queued, Gone}}
      Kept == {S \in SUBSET Live : Rooted \subseteq S /\ KeepsReachable(S)}
  IN  {e \in Live : \A S \in Kept : e \in S}

(* Mutant: what a dropped channel carried is not released. *)
DropUndrained(R, h, r) ==
  /\ peer' = [e \in Endpoint |-> IF e \in R THEN peer[e] ELSE NoEndpoint]
  /\ holder' = [e \in Endpoint |-> IF e \in R THEN h[e] ELSE Gone]
  /\ rights' = [e \in Endpoint |-> IF e \in R THEN r[e] ELSE {}]
  /\ queue' = [e \in Endpoint |-> IF e \in R THEN queue[e] ELSE <<>>]

(* collect_unreachable_channels: drop the channels outside R, and with     *)
(* their queues every endpoint that travelled in them.                     *)
DropAllBut(R, h, r) ==
  LET kept == {e \in R : h[e] = Queued => \E q \in R : e \in Escrow(q)}
  IN  /\ peer' = [e \in Endpoint |-> IF e \in R THEN peer[e] ELSE NoEndpoint]
      /\ holder' = [e \in Endpoint |-> IF e \in kept THEN h[e] ELSE Gone]
      /\ rights' = [e \in Endpoint |-> IF e \in kept THEN r[e] ELSE {}]
      /\ queue' = [e \in Endpoint |-> IF e \in R THEN queue[e] ELSE <<>>]

Collect(h, r) == \E R \in {Reachable(h)} : DropAllBut(R, h, r)

Holds(p, e) == p \in procs /\ holder[e] = p

(* A name that can be given out: neither live nor named by a stale wait    *)
(* (object generations differ).                                            *)
Unused(e) == peer[e] = NoEndpoint /\ \A w \in waits : w[2] # e

(* A new channel; both ends belong to its creator. *)
CreatePair(p, a, b) ==
  /\ p \in procs
  /\ a # b /\ Unused(a) /\ Unused(b)
  /\ peer' = [peer EXCEPT ![a] = b, ![b] = a]
  /\ holder' = [holder EXCEPT ![a] = p, ![b] = p]
  /\ rights' = [rights EXCEPT ![a] = Rights, ![b] = Rights]
  /\ UNCHANGED <<procs, queue, waits>>

(* Mutant: an endpoint that was moved away can be moved again. *)
MayMoveStale(p, M, asked) ==
  \A m \in M : "TRANSFER" \in rights[m] /\ asked[m] \subseteq rights[m]

(* Mutant: a transfer may ask for rights the sender lacks. *)
MayMoveAmplified(p, M, asked) == \A m \in M : Holds(p, m) /\ "TRANSFER" \in rights[m]

(* p may give away the endpoints of M with the rights `asked' for each. *)
MayMove(p, M, asked) ==
  \A m \in M : Holds(p, m) /\ "TRANSFER" \in rights[m] /\ asked[m] \subseteq rights[m]

(* The threads a message sent over e makes readable. *)
Wakes(e) == {t \in Threads : <<t, peer[e]>> \in waits}

(* Mutant: the waiters of the sender's end are woken. *)
NotifiedSender(e) == {w \in waits : w[2] # e}

(* The registrations that a message sent over e leaves. *)
Notified(e) == {w \in waits : w[2] # peer[e]}

(* A message carries the id of the process that sent it. *)
Stamped(p, M) == [sender |-> p, moved |-> M]

(* p sends a message that moves the endpoints of M over e. *)
Send(p, e, M, asked) ==
  /\ Holds(p, e) /\ "WRITE" \in rights[e]
  /\ holder[peer[e]] # Gone
  /\ Len(queue[peer[e]]) < MAX_QUEUE
  /\ MayMove(p, M, asked)
  /\ holder' = [x \in Endpoint |-> IF x \in M THEN Queued ELSE holder[x]]
  /\ rights' = [x \in Endpoint |-> IF x \in M THEN asked[x] ELSE rights[x]]
  /\ queue' = [queue EXCEPT ![peer[e]] = Append(queue[peer[e]], Stamped(p, M))]
  /\ waits' = Notified(e)
  /\ UNCHANGED <<procs, peer>>

(* p takes the first message waiting at e and the endpoints it carries. *)
Receive(p, e) ==
  /\ Holds(p, e) /\ "READ" \in rights[e]
  /\ queue[e] # <<>>
  /\ holder' = [x \in Endpoint |-> IF x \in Head(queue[e]).moved THEN p ELSE holder[x]]
  /\ queue' = [queue EXCEPT ![e] = Tail(queue[e])]
  /\ UNCHANGED <<procs, peer, rights, waits>>

(* p finds nothing at e and registers thread t for the next message. *)
WaitReadable(p, e, t) ==
  /\ Holds(p, e) /\ "WAIT" \in rights[e]
  /\ queue[e] = <<>>
  /\ Cardinality({w \in waits : w[1] # t}) < MAX_WAITS
  /\ waits' = {w \in waits : w[1] # t} \cup {<<t, e>>}
  /\ UNCHANGED <<procs, peer, holder, rights, queue>>

CancelWaiter(t) ==
  /\ \E w \in waits : w[1] = t
  /\ waits' = {w \in waits : w[1] # t}
  /\ UNCHANGED <<procs, peer, holder, rights, queue>>

Close(p, e) ==
  /\ Holds(p, e)
  /\ Collect([holder EXCEPT ![e] = Gone], [rights EXCEPT ![e] = {}])
  /\ UNCHANGED <<procs, waits>>

(* init starts process c with endpoint e, which keeps the rights `asked'. *)
RegisterSpawned(c, e, asked) ==
  /\ c \in Isolated \ procs
  /\ Cardinality(procs) < MAX_PROCESSES
  /\ MayMove(BOOTSTRAP_PROCESS_ID, {e}, [m \in {e} |-> asked])
  /\ procs' = procs \cup {c}
  /\ holder' = [holder EXCEPT ![e] = c]
  /\ rights' = [rights EXCEPT ![e] = asked]
  /\ UNCHANGED <<peer, queue, waits>>

ExitProcess(c) ==
  /\ c \in procs \ {BOOTSTRAP_PROCESS_ID}
  /\ procs' = procs \ {c}
  /\ Collect([e \in Endpoint |-> IF holder[e] = c THEN Gone ELSE holder[e]],
             [e \in Endpoint |-> IF holder[e] = c THEN {} ELSE rights[e]])
  /\ UNCHANGED waits

SendSome(p, e) ==
  /\ Holds(p, e)
  /\ \E M \in SUBSET {m \in Endpoint : rights[m] # {}} :
       /\ Cardinality(M) <= MAX_TRANSFER
       /\ \E asked \in [M -> Masks] : Send(p, e, M, asked)

Call(p, e) ==
  \/ SendSome(p, e)
  \/ Receive(p, e)
  \/ Close(p, e)
  \/ \E t \in Threads : WaitReadable(p, e, t)

Next ==
  \/ \E p \in procs, e \in Endpoint : Call(p, e)
  \/ \E c \in Isolated, e \in Endpoint, asked \in Masks :
       RegisterSpawned(c, e, asked)
  \/ \E c \in Isolated : ExitProcess(c)
  \/ \E t \in Threads : CancelWaiter(t)
  \/ \E p \in procs, a, b \in Endpoint : CreatePair(p, a, b)

Spec == Init /\ [][Next]_vars

-----------------------------------------------------------------------------
Message == [sender : Processes, moved : SUBSET Endpoint]

(* The types of the channel table. *)
TypeOK ==
  /\ procs \subseteq Processes
  /\ peer \in [Endpoint -> Endpoint \cup {NoEndpoint}]
  /\ holder \in [Endpoint -> Processes \cup {Queued, Gone}]
  /\ rights \in [Endpoint -> SUBSET Rights]
  /\ queue \in [Endpoint -> Seq(Message)]
  /\ waits \subseteq Threads \X Endpoint

(* An endpoint is in one place: with the process that holds it, in one     *)
(* message of one live queue, or nowhere.  A second place would be a       *)
(* duplicated capability, a queued endpoint in no queue a leaked one, and  *)
(* an escrowed endpoint that is not live a reference to a freed object.    *)
OnePlace ==
  /\ \A e \in Endpoint : holder[e] = Queued <=> \E q \in Live : e \in Escrow(q)
  /\ \A e, f \in Endpoint :
       \A i \in 1 .. Len(queue[e]), j \in 1 .. Len(queue[f]) :
         queue[e][i].moved \cap queue[f][j].moved # {} => e = f /\ i = j
  /\ \A e \in Endpoint : holder[e] \in Processes => holder[e] \in procs
  /\ \A e \in Endpoint : holder[e] # Gone => e \in Live

(* The two ends of a channel live and die together, and a dead one keeps   *)
(* no message.                                                             *)
PairedEnds ==
  \A e \in Endpoint :
    IF e \in Live THEN peer[e] \in Live /\ peer[e] # e /\ peer[peer[e]] = e
                  ELSE queue[e] = <<>>

(* No lost wakeup: a thread stays registered on an endpoint only while the *)
(* endpoint has nothing to read.                                           *)
NoLostWakeup == \A w \in waits : queue[w[2]] = <<>>

(* PeerClosed is final: an endpoint that is gone never comes back while    *)
(* its channel lives, so a rejected send can never succeed later.          *)
PeerClosedIsFinal ==
  [][\A e \in Live : holder[e] = Gone /\ peer'[e] = peer[e] => holder'[e] = Gone]_vars

(* No transfer, spawn or receive adds a right to an endpoint, over any     *)
(* number of hops.                                                         *)
RightsOnlyShrink ==
  [][\A e \in Live : peer'[e] = peer[e] => rights'[e] \subseteq rights[e]]_vars

(* A process comes to hold an endpoint only by creating its channel, by    *)
(* receiving it over an endpoint it already holds and may read, or at its  *)
(* birth from init.                                                        *)
ConnectivityFromConnectivity ==
  [][\A e \in Endpoint :
       holder'[e] \in Processes /\ holder'[e] # holder[e] =>
         \/ e \notin Live
         \/ \E q \in Live : /\ holder[q] = holder'[e] /\ "READ" \in rights[q]
                            /\ e \in Escrow(q)
         \/ holder[e] = BOOTSTRAP_PROCESS_ID /\ holder'[e] \notin procs]_vars
=============================================================================
