------------------------------ MODULE UserIpc -------------------------------
(***************************************************************************)
(* The user IPC manager (kernel/src/user_ipc.rs): one handle table per     *)
(* process, one registry of reference-counted objects, a table of channel  *)
(* slots and the registrations of waiting threads.  Every call runs under  *)
(* the manager's lock.  A call that is refused without changing anything   *)
(* is a stuttering step and has no action.                                 *)
(*                                                                         *)
(* A handle is its slot in the table of the calling process: a value whose *)
(* generation is not the slot's is refused before it is used.              *)
(***************************************************************************)
EXTENDS Handles

CONSTANTS
  Isolated, Threads, Masks,
  Queued, Gone,       \* where Channels puts an endpoint no process holds
  OBJECT_CAPACITY,    \* 128 in the code
  HANDLE_CAPACITY,    \* 64
  CHANNEL_CAPACITY,   \* 16
  MAX_QUEUE,          \* 8
  MAX_TRANSFER,       \* 4
  MAX_PROCESSES,      \* 3
  MAX_WAITS           \* 8

BOOTSTRAP_PROCESS_ID == 1

Processes == Isolated \cup {BOOTSTRAP_PROCESS_ID}
Slots == 1 .. HANDLE_CAPACITY
ChannelSlots == 1 .. CHANNEL_CAPACITY
Rights == {"READ", "WRITE", "WAIT", "TRANSFER"}

ASSUME UserIpcConstants ==
  /\ {OBJECT_CAPACITY, HANDLE_CAPACITY, CHANNEL_CAPACITY, MAX_QUEUE} \subseteq Nat \ {0}
  /\ {MAX_TRANSFER, MAX_PROCESSES, MAX_WAITS} \subseteq Nat
  /\ BOOTSTRAP_PROCESS_ID \notin Isolated
  /\ Masks \subseteq SUBSET Rights

VARIABLES
  registry,     \* object slots
  processes,    \* process id -> address space and handle table, or None
  channels,     \* channel slot -> its object, its two ends and their inboxes, or None
  waits,        \* pairs of a waiting thread and the endpoint it waits on
  collected     \* the last collection released every object it meant to

vars == <<registry, processes, channels, waits, collected>>

NewProcess(address_space) ==
  [address_space |-> address_space, handles |-> [s \in Slots |-> EmptyHandle]]

EmptyRegistry == [i \in 1 .. OBJECT_CAPACITY |-> EmptyObject]

(* The state initialize leaves: init and its address space. *)
Init ==
  /\ registry = create(EmptyRegistry, "AddressSpace")
  /\ processes = [p \in Processes |->
                    IF p = BOOTSTRAP_PROCESS_ID
                    THEN NewProcess(NewObject(EmptyRegistry, "AddressSpace")) ELSE None]
  /\ channels = [c \in ChannelSlots |-> None]
  /\ waits = {}
  /\ collected = TRUE

Registered == {p \in Processes : processes[p] # None}
Open == {c \in ChannelSlots : channels[c] # None}
Handles(p) == processes[p].handles
Capability(p, s) == Handles(p)[s].capability

-----------------------------------------------------------------------------
(* The objects of the tokens of a message, and of all messages of channel c. *)
TokenObjects(m) == [i \in DOMAIN m.tokens |-> m.tokens[i].object]

EscrowOf(c) == FlattenSeq([i \in DOMAIN (c.inbox[1] \o c.inbox[2]) |->
                             TokenObjects((c.inbox[1] \o c.inbox[2])[i])])

(* The objects in the messages of channel c, as a set. *)
Carried(c) == {cap.object : cap \in UNION {ToSet(m.tokens) : m \in ToSet(c.inbox[1]) \cup ToSet(c.inbox[2])}}

(* The open channel and the side of it that endpoint object o is. *)
Located(o) == {<<c, k>> \in Open \X {1, 2} : channels[c].ends[k] = o}

ChannelOf(o) == {l[1] : l \in Located(o)}

EndpointReachable(o) ==
  \/ \E p \in Registered : o \in Objects(Handles(p))
  \/ \E c \in Open : o \in Carried(channels[c])

(* The channels the handles in ps name. *)
HandleRoots(ps) ==
  UNION {UNION {ChannelOf(o) : o \in Objects(ps[p].handles)} :
           p \in {q \in Processes : ps[q] # None}}

(* Mutant: messages keep no channel alive. *)
MarkedByHandles(ps) == HandleRoots(ps)

(* The channels the handles in ps name, and those that the messages of     *)
(* marked channels name, until a pass marks no more.                       *)
Marked(ps) ==
  LET Pass[n \in 0 .. CHANNEL_CAPACITY] ==
        IF n = 0 THEN HandleRoots(ps)
        ELSE Pass[n - 1] \cup UNION {UNION {ChannelOf(o) : o \in Carried(channels[c])} :
                                       c \in Pass[n - 1]}
  IN  Pass[CHANNEL_CAPACITY]

(* A release whose failure ends the collection. *)
ReleasedOrStop(acc, o) == IF acc.ok THEN Released(acc, o) ELSE acc

(* Mutant: the messages of a dropped channel keep their references. *)
DroppedUndrained(acc, c) ==
  LET ch == channels[c]
      closed == FoldLeft(ReleasedOrStop, [registry |-> acc.registry, ok |-> TRUE],
                         <<ch.ends[1], ch.ends[2], ch.object>>)
  IN  [registry |-> closed.registry, ok |-> TRUE,
       channels |-> [acc.channels EXCEPT ![c] = None]]

(* Drain channel slot c, release its objects and clear it. *)
Dropped(acc, c) ==
  LET ch == channels[c]
      drained == ReleaseAll([registry |-> acc.registry, ok |-> TRUE], EscrowOf(ch))
      closed == FoldLeft(ReleasedOrStop, drained, <<ch.ends[1], ch.ends[2], ch.object>>)
  IN  [registry |-> closed.registry, ok |-> closed.ok,
       channels |-> [acc.channels EXCEPT ![c] =
                       IF closed.ok THEN None ELSE [@ EXCEPT !.inbox = <<<<>>, <<>>>>]]]

(* collect_unreachable_channels, after reg and ps have been updated. *)
Collect(reg, ps) ==
  LET marked == Marked(ps)
      Sweep[n \in 0 .. CHANNEL_CAPACITY] ==
        IF n = 0 THEN [registry |-> reg, ok |-> TRUE, channels |-> channels]
        ELSE IF ~Sweep[n - 1].ok \/ n \in marked \/ n \notin Open THEN Sweep[n - 1]
        ELSE Dropped(Sweep[n - 1], n)
  IN  \E result \in {Sweep[CHANNEL_CAPACITY]} :
        /\ registry' = result.registry
        /\ channels' = result.channels
        /\ collected' = result.ok
        /\ processes' = ps

-----------------------------------------------------------------------------
(* Objects created one after the other; refused when a slot runs out. *)
CreateObject(acc, kind) ==
  IF acc.ok /\ FreeObjects(acc.registry) # {}
  THEN [registry |-> create(acc.registry, kind), ok |-> TRUE,
        objects |-> Append(acc.objects, NewObject(acc.registry, kind))]
  ELSE [acc EXCEPT !.ok = FALSE]

CreateObjects(kinds) ==
  FoldLeft(CreateObject, [registry |-> registry, ok |-> TRUE, objects |-> <<>>], kinds)

FreshCapability(o) == [object |-> o, rights |-> Rights]

(* Both ends of a new channel go into the creator's table. *)
CreatePair(p) ==
  /\ p \in Registered
  /\ Open # ChannelSlots
  /\ \E new \in {CreateObjects(<<"Channel", "ChannelEndpoint", "ChannelEndpoint">>)} :
       /\ new.ok /\ has_capacity(Handles(p), 2)
       /\ registry' = retain(retain(new.registry, new.objects[2]), new.objects[3])
       /\ processes' = [processes EXCEPT ![p].handles =
                          install_capability(install_capability(@, FreshCapability(new.objects[2])),
                                             FreshCapability(new.objects[3]))]
       /\ channels' = [channels EXCEPT ![Min(ChannelSlots \ Open)] =
                         [object |-> new.objects[1], ends |-> Tail(new.objects),
                          inbox |-> <<<<>>, <<>>>>]]
  /\ UNCHANGED <<waits, collected>>

(* create_pair that runs out of objects or handles gives everything back;  *)
(* the slots it touched have moved to their next generation.               *)
CreatePairRefused(p) ==
  /\ p \in Registered
  /\ Open # ChannelSlots
  /\ \E new \in {CreateObjects(<<"Channel", "ChannelEndpoint", "ChannelEndpoint">>)} :
       /\ ~new.ok \/ ~has_capacity(Handles(p), 2)
       /\ registry' = ReleaseAll([registry |-> new.registry, ok |-> TRUE], new.objects).registry
       /\ processes' = IF new.ok /\ has_capacity(Handles(p), 1)
                       THEN [processes EXCEPT ![p].handles = Emptied(@, Min(FreeHandles(@)))]
                       ELSE processes
  /\ UNCHANGED <<channels, waits, collected>>

(* The process gives away the handles of a sequence of slots. *)
Moved(t, ss) == FoldLeft(Emptied, t, ss)

Tokens(t, ss, asked) ==
  [i \in DOMAIN ss |-> [object |-> t[ss[i]].capability.object, rights |-> asked[i]]]

(* p sends, over the endpoint at slot s, a message that moves the handles  *)
(* at the slots ss with the rights asked for them.  Everything is checked  *)
(* before the first handle moves.                                          *)
Send(p, s, ss, asked) ==
  \E l \in Located(Capability(p, s).object) :
    LET ch == channels[l[1]]
        there == 3 - l[2]
    IN  /\ EndpointReachable(ch.ends[there])
        /\ "WRITE" \in Capability(p, s).rights
        /\ Len(ch.inbox[there]) < MAX_QUEUE
        /\ IsInjective(ss)
        /\ \A i \in DOMAIN ss : check_move(Handles(p), ss[i], asked[i])
        /\ processes' = [processes EXCEPT ![p].handles = Moved(@, ss)]
        /\ channels' = [channels EXCEPT ![l[1]].inbox[there] =
                          Append(@, [sender |-> p, tokens |-> Tokens(Handles(p), ss, asked)])]
        /\ waits' = {w \in waits : w[2] # ch.ends[there]}
        /\ UNCHANGED <<registry, collected>>

(* p takes the first message at slot s and a handle for each of its tokens. *)
Receive(p, s) ==
  \E l \in Located(Capability(p, s).object) :
    LET inbox == channels[l[1]].inbox[l[2]]
    IN  /\ "READ" \in Capability(p, s).rights
        /\ inbox # <<>>
        /\ has_capacity(Handles(p), Len(Head(inbox).tokens))
        /\ \A i \in DOMAIN Head(inbox).tokens : validate(registry, Head(inbox).tokens[i].object)
        /\ processes' = [processes EXCEPT ![p].handles =
                           FoldLeft(install_capability, @, Head(inbox).tokens)]
        /\ channels' = [channels EXCEPT ![l[1]].inbox[l[2]] = Tail(@)]
        /\ UNCHANGED <<registry, waits, collected>>

(* wait_readable on an empty inbox registers the thread. *)
WaitReadable(p, s, t) ==
  \E l \in Located(Capability(p, s).object) :
    /\ "WAIT" \in Capability(p, s).rights
    /\ channels[l[1]].inbox[l[2]] = <<>>
    /\ Cardinality({w \in waits : w[1] # t}) < MAX_WAITS
    /\ waits' = {w \in waits : w[1] # t} \cup {<<t, Capability(p, s).object>>}
    /\ UNCHANGED <<registry, processes, channels, collected>>

CancelWaiter(t) ==
  /\ \E w \in waits : w[1] = t
  /\ waits' = {w \in waits : w[1] # t}
  /\ UNCHANGED <<registry, processes, channels, collected>>

Close(p, s) ==
  /\ Located(Capability(p, s).object) # {}
  /\ Collect(release(registry, Capability(p, s).object),
             [processes EXCEPT ![p].handles = Emptied(@, s)])
  /\ UNCHANGED waits

-----------------------------------------------------------------------------
(* The endpoint at slot s of init becomes the only handle of the child. *)
RegisterSpawned(c, s, asked) ==
  /\ c \in Isolated \ Registered
  /\ Cardinality(Registered) < MAX_PROCESSES
  /\ Located(Capability(BOOTSTRAP_PROCESS_ID, s).object) # {}
  /\ FreeObjects(registry) # {}
  /\ check_move(Handles(BOOTSTRAP_PROCESS_ID), s, asked)
  /\ LET cap == [object |-> Capability(BOOTSTRAP_PROCESS_ID, s).object, rights |-> asked]
         child == NewProcess(NewObject(registry, "AddressSpace"))
     IN  processes' = [processes EXCEPT
           ![BOOTSTRAP_PROCESS_ID].handles = Emptied(@, s),
           ![c] = [child EXCEPT !.handles = install_capability(@, cap)]]
  /\ registry' = create(registry, "AddressSpace")
  /\ UNCHANGED <<channels, waits, collected>>

(* A refused move gives the address space of the child back. *)
RegisterRefused(c, s, asked) ==
  /\ c \in Isolated \ Registered
  /\ Cardinality(Registered) < MAX_PROCESSES
  /\ Located(Capability(BOOTSTRAP_PROCESS_ID, s).object) # {}
  /\ FreeObjects(registry) # {}
  /\ ~check_move(Handles(BOOTSTRAP_PROCESS_ID), s, asked)
  /\ registry' = release(create(registry, "AddressSpace"), NewObject(registry, "AddressSpace"))
  /\ UNCHANGED <<processes, channels, waits, collected>>

(* close_all, the address space and the channels nobody else can reach. *)
ExitProcess(c) ==
  /\ c \in Registered \ {BOOTSTRAP_PROCESS_ID}
  /\ LET t == Handles(c)
         order == SetToSeq(Used(t))
         held == [i \in DOMAIN order |-> t[order[i]].capability.object]
     IN  Collect(ReleaseAll([registry |-> registry, ok |-> TRUE],
                            Append(held, processes[c].address_space)).registry,
                 [processes EXCEPT ![c] = None])
  /\ UNCHANGED waits

SendSome(p, s) ==
  \E n \in 0 .. MAX_TRANSFER :
    \E ss \in [1 .. n -> Used(Handles(p))], asked \in [1 .. n -> Masks] : Send(p, s, ss, asked)

Call(p, s) ==
  \/ SendSome(p, s)
  \/ Receive(p, s)
  \/ Close(p, s)
  \/ \E t \in Threads : WaitReadable(p, s, t)

Spawn(c, s, asked) == RegisterSpawned(c, s, asked) \/ RegisterRefused(c, s, asked)

Next ==
  \/ \E p \in Registered : CreatePair(p) \/ CreatePairRefused(p)
  \/ \E p \in Registered : \E s \in Used(Handles(p)) : Call(p, s)
  \/ \E c \in Isolated, s \in Used(Handles(BOOTSTRAP_PROCESS_ID)), asked \in Masks :
       Spawn(c, s, asked)
  \/ \E c \in Isolated : ExitProcess(c)
  \/ \E t \in Threads : CancelWaiter(t)

Spec == Init /\ [][Next]_vars

-----------------------------------------------------------------------------
(* The mapping to Channels: an endpoint's name is the number of its slot   *)
(* and generation, it is held by the process whose table names it, and its *)
(* peer is the other end of an open channel.                               *)
Names == 1 .. OBJECT_CAPACITY * OBJECT_GEN_MAX

Name(o) == (o.slot - 1) * OBJECT_GEN_MAX + o.generation

EndpointOf(n) == [slot |-> ((n - 1) \div OBJECT_GEN_MAX) + 1,
                  generation |-> ((n - 1) % OBJECT_GEN_MAX) + 1, kind |-> "ChannelEndpoint"]

CapabilitiesOf(o) ==
  UNION {{t[s].capability : s \in {s \in Used(t) : t[s].capability.object = o}} :
           t \in {Handles(p) : p \in Registered}}
  \cup UNION {UNION {{cap \in ToSet(m.tokens) : cap.object = o} :
                       m \in ToSet(channels[c].inbox[1] \o channels[c].inbox[2])} : c \in Open}

RightsOf(o) == UNION {cap.rights : cap \in CapabilitiesOf(o)}

HolderOf(o) ==
  IF \E p \in Registered : o \in Objects(Handles(p))
    THEN CHOOSE p \in Registered : o \in Objects(Handles(p))
  ELSE IF \E c \in Open : o \in Carried(channels[c]) THEN Queued ELSE Gone

Message(m) == [sender |-> m.sender, moved |-> {Name(e) : e \in ToSet(TokenObjects(m))}]

(* What callers see of end k of channel ch. *)
EndOf(ch, k) ==
  [peer |-> Name(ch.ends[3 - k]), holder |-> HolderOf(ch.ends[k]), rights |-> RightsOf(ch.ends[k]),
   queue |-> [i \in DOMAIN ch.inbox[k] |-> Message(ch.inbox[k][i])]]

(* A stale object is nothing to anyone: no handle resolves to it. *)
Nothing == [peer |-> None, holder |-> Gone, rights |-> {}, queue |-> <<>>]

Seen(o) ==
  IF ~validate(registry, o) \/ Located(o) = {} THEN Nothing
  ELSE CHOOSE e \in {EndOf(channels[l[1]], l[2]) : l \in Located(o)} : TRUE

View == [n \in Names |-> Seen(EndpointOf(n))]

-----------------------------------------------------------------------------
(* Who owns object o: its creator's record, its handles and its tokens. *)
Owners(o) ==
  Cardinality({p \in Registered : processes[p].address_space = o})
  + Cardinality({c \in Open : o \in {channels[c].object} \cup ToSet(channels[c].ends)})
  + Cardinality({<<p, s>> \in Registered \X Slots :
                   s \in Used(Handles(p)) /\ Capability(p, s).object = o})
  + MapThenSumSet(LAMBDA c : Len(SelectSeq(EscrowOf(channels[c]), LAMBDA e : e = o)), Open)

(* Reference counts are exact: a count too low frees an object that a      *)
(* handle or a queued token still names, a count too high leaks its slot,  *)
(* also over the error paths of create_pair and spawn and the draining of  *)
(* queues that carry endpoints of other channels.                          *)
RefsExact ==
  /\ \A i \in DOMAIN registry : registry[i].kind # None =>
       LET o == [slot |-> i, generation |-> registry[i].generation, kind |-> registry[i].kind]
       IN  registry[i].references = Owners(o) /\ Owners(o) > 0
  /\ \A p \in Registered : \A o \in Objects(Handles(p)) \cup {processes[p].address_space} :
       validate(registry, o)
  /\ \A c \in Open : \A o \in {channels[c].object} \cup ToSet(channels[c].ends)
                               \cup Carried(channels[c]) : validate(registry, o)

(* A collection never meets a stale object, so close and exit_process      *)
(* never stop halfway through it.                                          *)
CollectionSucceeds == collected

(* A handle value that was closed or moved away never names anything       *)
(* again, whoever takes the slot next: as long as its generation is the    *)
(* slot's, the slot keeps its capability, and generations only grow.  The  *)
(* same holds of the object a slot of the registry is: a released object   *)
(* is never the next occupant, and a slot at its last generation has none. *)
StaleHandlesStayStale ==
  [][/\ \A p \in Registered : processes'[p] # None =>
          \A s \in Slots :
            LET old == Handles(p)[s]  new == processes'[p].handles[s]
            IN  /\ new.generation >= old.generation
                /\ new.generation = old.generation /\ old.capability # None
                     => new.capability = old.capability
     /\ \A i \in DOMAIN registry :
          /\ registry'[i].generation >= registry[i].generation
          /\ registry'[i].generation = registry[i].generation /\ registry[i].kind # None
               => registry'[i].kind = registry[i].kind \/ registry'[i].retired
          /\ registry[i].retired => registry'[i] = registry[i]]_vars
=============================================================================
