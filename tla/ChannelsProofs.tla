--------------------------- MODULE ChannelsProofs ---------------------------
(***************************************************************************)
(* Proofs about Channels, for any number of endpoints, processes and       *)
(* threads and any queue bounds.  The four invariants are inductive        *)
(* together: an endpoint's one place needs the ends of channels to be      *)
(* paired, and what a collection keeps to be closed under both.            *)
(***************************************************************************)
EXTENDS Channels, TLAPS

IInv == TypeOK /\ OnePlace /\ PairedEnds /\ NoLostWakeup

-----------------------------------------------------------------------------
(* Membership in the escrow of a queue. *)
LEMMA EscrowMember ==
  ASSUME NEW q, NEW e
  PROVE  e \in Escrow(q) <=> \E i \in 1 .. Len(queue[q]) : e \in queue[q][i].moved
BY DEF Escrow

(* The same in the next state. *)
LEMMA EscrowMemberNext ==
  ASSUME NEW q, NEW e
  PROVE  e \in Escrow(q)' <=> \E i \in 1 .. Len(queue'[q]) : e \in queue'[q][i].moved
BY DEF Escrow

(* What travels is live: nothing in a queue names a freed endpoint. *)
LEMMA EscrowLive ==
  ASSUME IInv, NEW q \in Endpoint
  PROVE  Escrow(q) \subseteq Live
<1> SUFFICES ASSUME NEW e \in Escrow(q) PROVE e \in Live
  OBVIOUS
<1>1. PICK i \in 1 .. Len(queue[q]) : e \in queue[q][i].moved
  BY EscrowMember
<1>2. queue[q] \in Seq(Message)
  BY DEF IInv, TypeOK
<1>3. e \in Endpoint
  <2>1. queue[q][i] \in Message
    BY <1>1, <1>2
  <2> QED
    BY <1>1, <2>1 DEF Message
<1>4. q \in Live
  BY <1>1, <1>2 DEF IInv, PairedEnds
<1>5. holder[e] = Queued
  BY <1>3, <1>4 DEF IInv, OnePlace
<1> QED
  BY <1>3, <1>5, ChannelConstants DEF IInv, OnePlace

(* The endpoints a collection keeps: they include what processes hold and  *)
(* are closed under the other end and under the messages.                  *)
LEMMA ReachableClosed ==
  ASSUME IInv, NEW h, NEW R, R = Reachable(h)
  PROVE  /\ R \subseteq Live
         /\ \A e \in Live : h[e] \notin {Queued, Gone} => e \in R
         /\ \A e \in R : peer[e] \in R /\ Escrow(e) \subseteq R
<1>1. R \subseteq Live
  BY DEF Reachable
<1>2. \A e \in Live : h[e] \notin {Queued, Gone} => e \in R
  BY DEF Reachable
<1>3. ASSUME NEW e \in R PROVE peer[e] \in R
  <2>1. peer[e] \in Live
    BY <1>1, <1>3 DEF IInv, PairedEnds, Live
  <2> QED
    BY <1>3, <2>1 DEF Reachable, KeepsReachable
<1>4. ASSUME NEW e \in R PROVE Escrow(e) \subseteq R
  <2>1. Escrow(e) \subseteq Live
    BY <1>1, EscrowLive DEF Live
  <2> QED
    BY <1>4, <2>1 DEF Reachable, KeepsReachable
<1> QED
  BY <1>1, <1>2, <1>3, <1>4

(* A message in a queue moves endpoints. *)
LEMMA MovedType ==
  ASSUME IInv, NEW q \in Endpoint, NEW i \in 1 .. Len(queue[q])
  PROVE  queue[q][i] \in Message /\ queue[q][i].moved \subseteq Endpoint
<1>1. queue[q] \in Seq(Message)
  BY DEF IInv, TypeOK
<1>2. queue[q][i] \in Message
  BY <1>1
<1> QED
  BY <1>2 DEF Message

(* A collection keeps the invariants, when all that happened before it is  *)
(* that processes lost endpoints.                                          *)
LEMMA CollectKeepsInv ==
  ASSUME IInv,
         NEW h \in [Endpoint -> Processes \cup {Queued, Gone}],
         NEW r \in [Endpoint -> SUBSET Rights],
         \A e \in Endpoint : h[e] = holder[e] \/ (holder[e] \in Processes /\ h[e] = Gone),
         procs' \subseteq Processes,
         \A e \in Endpoint : h[e] \in Processes => h[e] \in procs',
         Collect(h, r),
         waits' = waits
  PROVE  IInv'
<1>1. PICK R : R = Reachable(h) /\ DropAllBut(R, h, r)
  BY DEF Collect
<1> DEFINE kept == {e \in R : h[e] = Queued => \E q \in R : e \in Escrow(q)}
<1>2. /\ R \subseteq Live
      /\ \A e \in Live : h[e] \notin {Queued, Gone} => e \in R
      /\ \A e \in R : peer[e] \in R /\ Escrow(e) \subseteq R
  BY <1>1, ReachableClosed
<1>3. R \subseteq Endpoint
  BY <1>2 DEF Live
<1>4. /\ peer' = [e \in Endpoint |-> IF e \in R THEN peer[e] ELSE NoEndpoint]
      /\ holder' = [e \in Endpoint |-> IF e \in kept THEN h[e] ELSE Gone]
      /\ rights' = [e \in Endpoint |-> IF e \in kept THEN r[e] ELSE {}]
      /\ queue' = [e \in Endpoint |-> IF e \in R THEN queue[e] ELSE <<>>]
  BY <1>1 DEF DropAllBut
<1>5. Live' = R
  BY <1>2, <1>3, <1>4 DEF Live
<1>6. TypeOK'
  <2>1. peer' \in [Endpoint -> Endpoint \cup {NoEndpoint}]
    BY <1>4 DEF IInv, TypeOK
  <2>2. holder' \in [Endpoint -> Processes \cup {Queued, Gone}]
    BY <1>4
  <2>3. rights' \in [Endpoint -> SUBSET Rights]
    BY <1>4
  <2>4. queue' \in [Endpoint -> Seq(Message)]
    <3>1. <<>> \in Seq(Message)
      OBVIOUS
    <3> QED
      BY <1>4, <3>1 DEF IInv, TypeOK
  <2>5. waits' \subseteq Threads \X Endpoint
    BY DEF IInv, TypeOK
  <2> QED
    BY <2>1, <2>2, <2>3, <2>4, <2>5, Zenon DEF TypeOK, Message
<1>7. \A q \in Endpoint : queue'[q] = IF q \in R THEN queue[q] ELSE <<>>
  BY <1>4
<1>8. \A q \in Endpoint : Escrow(q)' = IF q \in R THEN Escrow(q) ELSE {}
  BY <1>7 DEF Escrow
<1>9. \A e \in Endpoint : holder'[e] = IF e \in kept THEN h[e] ELSE Gone
  BY <1>4
<1> HIDE DEF kept
<1>10. OnePlace'
  <2>1. ASSUME NEW e \in Endpoint
        PROVE  holder'[e] = Queued <=> \E q \in Live' : e \in Escrow(q)'
    <3>1. CASE holder'[e] = Queued
      <4>1. e \in kept /\ h[e] = Queued
        BY <3>1, <1>9, ChannelConstants
      <4> QED
        BY <3>1, <4>1, <1>3, <1>5, <1>8 DEF kept
    <3>2. ASSUME NEW q \in Live', e \in Escrow(q)' PROVE holder'[e] = Queued
      <4>1. q \in R /\ q \in Endpoint /\ q \in Live /\ e \in Escrow(q)
        BY <3>2, <1>2, <1>3, <1>5, <1>8
      <4>2. e \in R
        BY <4>1, <1>2
      <4>3. holder[e] = Queued
        BY <4>1 DEF IInv, OnePlace
      <4>4. h[e] = Queued
        BY <4>3, ChannelConstants
      <4>5. e \in kept
        BY <4>1, <4>2 DEF kept
      <4> QED
        BY <4>4, <4>5, <1>9
    <3> QED
      BY <3>1, <3>2
  <2>2. ASSUME NEW e \in Endpoint, NEW f \in Endpoint,
               NEW i \in 1 .. Len(queue'[e]), NEW j \in 1 .. Len(queue'[f]),
               queue'[e][i].moved \cap queue'[f][j].moved # {}
        PROVE  e = f /\ i = j
    <3>1. queue'[e] = queue[e] /\ queue'[f] = queue[f]
      BY <2>2, <1>7
    <3> QED
      BY <2>2, <3>1 DEF IInv, OnePlace
  <2>3. ASSUME NEW e \in Endpoint, holder'[e] \in Processes PROVE holder'[e] \in procs'
    BY <2>3, <1>9, ChannelConstants
  <2>4. ASSUME NEW e \in Endpoint, holder'[e] # Gone PROVE e \in Live'
    BY <2>4, <1>5, <1>9 DEF kept
  <2> QED
    BY <2>1, <2>2, <2>3, <2>4 DEF OnePlace
<1>11. PairedEnds'
  <2>1. ASSUME NEW e \in R
        PROVE  peer'[e] \in R /\ peer'[e] # e /\ peer'[peer'[e]] = e
    BY <1>2, <1>3, <1>4 DEF IInv, PairedEnds
  <2> QED
    BY <2>1, <1>5, <1>7 DEF PairedEnds
<1>12. NoLostWakeup'
  BY <1>7 DEF IInv, TypeOK, NoLostWakeup
<1> QED
  BY <1>6, <1>10, <1>11, <1>12 DEF IInv

-----------------------------------------------------------------------------
(* The boot state: no channel exists. *)
LEMMA InitInv == Init => IInv
<1> SUFFICES ASSUME Init PROVE IInv
  OBVIOUS
<1>1. Live = {}
  BY DEF Init, Live
<1>2. \A e \in Endpoint : queue[e] = <<>> /\ holder[e] = Gone
  BY DEF Init
<1>3. TypeOK
  BY DEF Init, TypeOK, Processes, Message
<1>4. OnePlace
  BY <1>1, <1>2, ChannelConstants DEF OnePlace
<1> QED
  BY <1>1, <1>2, <1>3, <1>4 DEF IInv, PairedEnds, NoLostWakeup, Init

(* create_pair preserves the invariant. *)
LEMMA CreatePairInv ==
  ASSUME IInv, NEW p \in procs, NEW a \in Endpoint, NEW b \in Endpoint, CreatePair(p, a, b)
  PROVE  IInv'
<1>1. /\ a # b
      /\ peer[a] = NoEndpoint /\ peer[b] = NoEndpoint
      /\ peer' = [peer EXCEPT ![a] = b, ![b] = a]
      /\ holder' = [holder EXCEPT ![a] = p, ![b] = p]
      /\ rights' = [rights EXCEPT ![a] = Rights, ![b] = Rights]
      /\ procs' = procs /\ queue' = queue /\ waits' = waits
  BY DEF CreatePair, Unused
<1>2. p \in Processes
  BY DEF IInv, TypeOK
<1>3. TypeOK'
  BY <1>1, <1>2, Zenon DEF IInv, TypeOK
<1>4. /\ \A e \in Endpoint \ {a, b} : peer'[e] = peer[e] /\ holder'[e] = holder[e]
      /\ peer'[a] = b /\ peer'[b] = a /\ holder'[a] = p /\ holder'[b] = p
  BY <1>1 DEF IInv, TypeOK
<1>5. Live' = Live \cup {a, b}
  BY <1>4, ChannelConstants DEF Live
<1>6. a \notin Live /\ b \notin Live
  BY <1>1 DEF Live
<1>7. queue[a] = <<>> /\ queue[b] = <<>> /\ holder[a] = Gone /\ holder[b] = Gone
  BY <1>6 DEF IInv, PairedEnds, OnePlace
<1>8. \A q : Escrow(q)' = Escrow(q)
  BY <1>1 DEF Escrow
<1>9. Escrow(a) = {} /\ Escrow(b) = {}
  BY <1>7 DEF Escrow
<1>10. OnePlace'
  <2>1. ASSUME NEW e \in Endpoint
        PROVE  holder'[e] = Queued <=> \E q \in Live' : e \in Escrow(q)'
    <3>1. (\E q \in Live' : e \in Escrow(q)') <=> (\E q \in Live : e \in Escrow(q))
      BY <1>5, <1>8, <1>9
    <3>2. holder'[e] = Queued <=> holder[e] = Queued
      BY <1>2, <1>4, <1>7, ChannelConstants
    <3> QED
      BY <3>1, <3>2 DEF IInv, OnePlace
  <2>2. \A e, f \in Endpoint :
          \A i \in 1 .. Len(queue'[e]), j \in 1 .. Len(queue'[f]) :
            queue'[e][i].moved \cap queue'[f][j].moved # {} => e = f /\ i = j
    BY <1>1 DEF IInv, OnePlace
  <2>3. ASSUME NEW e \in Endpoint, holder'[e] \in Processes PROVE holder'[e] \in procs'
    <3>0. procs' = procs
      BY <1>1
    <3>1. CASE e \in {a, b}
      BY <3>0, <3>1, <1>4
    <3>2. CASE e \notin {a, b}
      <4>1. holder'[e] = holder[e]
        BY <3>2, <1>4
      <4> QED
        BY <2>3, <3>0, <4>1 DEF IInv, OnePlace
    <3> QED
      BY <3>1, <3>2
  <2>4. \A e \in Endpoint : holder'[e] # Gone => e \in Live'
    BY <1>4, <1>5 DEF IInv, OnePlace
  <2> QED
    BY <2>1, <2>2, <2>3, <2>4 DEF OnePlace
<1>11. PairedEnds'
  <2>1. ASSUME NEW e \in Live, e \notin {a, b}
        PROVE  peer'[e] \in Live' /\ peer'[e] # e /\ peer'[peer'[e]] = e
    <3>1. peer[e] \in Live /\ peer[e] # e /\ peer[peer[e]] = e /\ e \in Endpoint
      BY DEF IInv, PairedEnds, Live
    <3>2. peer[e] \notin {a, b} /\ peer[e] \in Endpoint
      BY <3>1, <1>6 DEF Live
    <3> QED
      BY <2>1, <3>1, <3>2, <1>4, <1>5
  <2>2. ASSUME NEW e \in Endpoint, e \notin Live' PROVE queue'[e] = <<>>
    BY <2>2, <1>1, <1>5 DEF IInv, PairedEnds
  <2>3. ASSUME NEW e \in {a, b}
        PROVE  peer'[e] \in Live' /\ peer'[e] # e /\ peer'[peer'[e]] = e
    BY <1>1, <1>4, <1>5
  <2> QED
    BY <2>1, <2>2, <2>3, <1>5 DEF PairedEnds
<1> QED
  BY <1>1, <1>3, <1>10, <1>11 DEF IInv, NoLostWakeup

(* A process holds only live endpoints. *)
LEMMA HeldLive ==
  ASSUME IInv, NEW p \in procs, NEW e \in Endpoint, holder[e] = p
  PROVE  /\ p \in Processes /\ p # Queued /\ p # Gone
         /\ e \in Live /\ peer[e] \in Live /\ peer[e] \in Endpoint
         /\ peer[e] # e /\ peer[peer[e]] = e
<1>1. p \in Processes
  BY DEF IInv, TypeOK
<1>2. p # Queued /\ p # Gone
  BY <1>1, ChannelConstants
<1>3. e \in Live
  BY <1>2 DEF IInv, OnePlace
<1> QED
  BY <1>1, <1>2, <1>3 DEF IInv, PairedEnds, Live

(* Nothing that a process holds travels in a message. *)
LEMMA HeldNotQueued ==
  ASSUME IInv, NEW m \in Endpoint, holder[m] # Queued,
         NEW q \in Endpoint, NEW i \in 1 .. Len(queue[q])
  PROVE  m \notin queue[q][i].moved
<1> SUFFICES ASSUME m \in queue[q][i].moved PROVE FALSE
  OBVIOUS
<1>1. m \in Escrow(q)
  BY EscrowMember
<1>2. q \in Live
  <2>1. queue[q] \in Seq(Message)
    BY DEF IInv, TypeOK
  <2>2. queue[q] # <<>>
    BY <2>1
  <2> QED
    BY <2>2 DEF IInv, PairedEnds
<1> QED
  BY <1>1, <1>2 DEF IInv, OnePlace

(* send preserves the invariant: what it moves leaves its holder. *)
LEMMA SendInv ==
  ASSUME IInv, NEW p \in procs, NEW e \in Endpoint, NEW M \in SUBSET Endpoint,
         NEW asked \in [M -> SUBSET Rights], Send(p, e, M, asked)
  PROVE  IInv'
<1>0. PICK d : d = peer[e]
  OBVIOUS
<1> DEFINE n == Len(queue[d]) + 1
           msg == [sender |-> p, moved |-> M]
<1>1. /\ p \in Processes /\ p # Queued /\ p # Gone
      /\ e \in Live /\ d \in Live /\ d \in Endpoint
  BY <1>0, HeldLive DEF Send, Holds
<1>2. /\ \A m \in M : holder[m] = p
      /\ holder' = [x \in Endpoint |-> IF x \in M THEN Queued ELSE holder[x]]
      /\ rights' = [x \in Endpoint |-> IF x \in M THEN asked[x] ELSE rights[x]]
      /\ queue' = [queue EXCEPT ![d] = Append(queue[d], msg)]
      /\ waits' = {w \in waits : w[2] # d}
      /\ procs' = procs /\ peer' = peer
  BY <1>0 DEF Send, MayMove, Holds, Stamped, Notified
<1>3. queue \in [Endpoint -> Seq(Message)] /\ msg \in Message
  BY <1>1, Zenon DEF IInv, TypeOK, Message
<1> HIDE DEF msg
<1>4. queue[d] \in Seq(Message) /\ n \in Nat /\ n > 0
  BY <1>1, <1>3
<1>5. Append(queue[d], msg) \in Seq(Message)
  BY <1>3, <1>4
<1>6. TypeOK'
  <2>1. queue' \in [Endpoint -> Seq(Message)]
    BY <1>2, <1>3, <1>5, Zenon
  <2>2. holder' \in [Endpoint -> Processes \cup {Queued, Gone}]
    BY <1>2 DEF IInv, TypeOK
  <2>3. rights' \in [Endpoint -> SUBSET Rights]
    BY <1>2 DEF IInv, TypeOK
  <2>4. waits' \subseteq Threads \X Endpoint
    BY <1>2 DEF IInv, TypeOK
  <2> QED
    BY <1>2, <2>1, <2>2, <2>3, <2>4, Zenon DEF IInv, TypeOK, Message
<1>7. /\ \A q \in Endpoint \ {d} : queue'[q] = queue[q]
      /\ queue'[d] = Append(queue[d], msg)
  BY <1>1, <1>2, <1>3
<1>8. /\ Len(queue'[d]) = n /\ queue'[d][n] = msg
      /\ \A i \in 1 .. Len(queue[d]) : queue'[d][i] = queue[d][i]
  BY <1>3, <1>4, <1>7
<1>9. ASSUME NEW q \in Endpoint, NEW i \in 1 .. Len(queue'[q])
      PROVE  \/ i \in 1 .. Len(queue[q]) /\ queue'[q][i] = queue[q][i]
             \/ q = d /\ i = n /\ queue'[q][i].moved = M
  <2>1. CASE q = d
    <3>1. i \in 1 .. Len(queue[d]) \/ i = n
      BY <2>1, <1>4, <1>8
    <3> QED
      BY <2>1, <3>1, <1>8 DEF msg
  <2>2. CASE q # d
    BY <2>2, <1>7
  <2> QED
    BY <2>1, <2>2
<1>10. ASSUME NEW q \in Endpoint, NEW i \in 1 .. Len(queue[q])
       PROVE  i \in 1 .. Len(queue'[q]) /\ queue'[q][i] = queue[q][i]
  <2>1. CASE q = d
    BY <2>1, <1>4, <1>8
  <2>2. CASE q # d
    BY <2>2, <1>7
  <2> QED
    BY <2>1, <2>2
<1>11. n \in 1 .. Len(queue'[d]) /\ queue'[d][n].moved = M
  BY <1>4, <1>8 DEF msg
<1>12. Live' = Live /\ Live \subseteq Endpoint
  BY <1>2 DEF Live
<1>13. \A x \in Endpoint : holder'[x] = IF x \in M THEN Queued ELSE holder[x]
  BY <1>2
<1> HIDE DEF n
<1>14. OnePlace'
  <2>1. ASSUME NEW x \in Endpoint
        PROVE  holder'[x] = Queued <=> \E q \in Live' : x \in Escrow(q)'
    <3>1. CASE x \in M
      <4>1. x \in Escrow(d)'
        BY <3>1, <1>11, EscrowMemberNext
      <4> QED
        BY <3>1, <4>1, <1>1, <1>12, <1>13
    <3>2. CASE x \notin M
      <4>1. ASSUME NEW q \in Live PROVE x \in Escrow(q)' <=> x \in Escrow(q)
        <5>1. x \in Escrow(q) <=> \E i \in 1 .. Len(queue[q]) : x \in queue[q][i].moved
          BY EscrowMember
        <5>2. x \in Escrow(q)' <=> \E i \in 1 .. Len(queue'[q]) : x \in queue'[q][i].moved
          BY EscrowMemberNext
        <5> QED
          BY <3>2, <5>1, <5>2, <1>9, <1>10, <1>12
      <4> QED
        BY <3>2, <4>1, <1>12, <1>13 DEF IInv, OnePlace
    <3> QED
      BY <3>1, <3>2
  <2>2. ASSUME NEW x \in Endpoint, NEW y \in Endpoint,
               NEW i \in 1 .. Len(queue'[x]), NEW j \in 1 .. Len(queue'[y]),
               queue'[x][i].moved \cap queue'[y][j].moved # {}
        PROVE  x = y /\ i = j
    <3>1. ASSUME NEW q \in Endpoint, NEW k \in 1 .. Len(queue[q])
          PROVE  queue[q][k].moved \cap M = {}
      BY <1>1, <1>2, HeldNotQueued
    <3>2. CASE i \in 1 .. Len(queue[x]) /\ j \in 1 .. Len(queue[y])
      <4>1. queue'[x][i] = queue[x][i] /\ queue'[y][j] = queue[y][j]
        BY <3>2, <1>10
      <4>2. queue[x][i].moved \cap queue[y][j].moved # {}
        BY <2>2, <4>1
      <4> QED
        BY <3>2, <4>2 DEF IInv, OnePlace
    <3>3. CASE ~(i \in 1 .. Len(queue[x]) /\ j \in 1 .. Len(queue[y]))
      BY <2>2, <3>1, <3>3, <1>9
    <3> QED
      BY <3>2, <3>3
  <2>3. ASSUME NEW x \in Endpoint, holder'[x] \in Processes PROVE holder'[x] \in procs'
    BY <2>3, <1>2, <1>13, ChannelConstants DEF IInv, OnePlace
  <2>4. ASSUME NEW x \in Endpoint, holder'[x] # Gone PROVE x \in Live'
    BY <2>4, <1>1, <1>2, <1>12, <1>13, ChannelConstants DEF IInv, OnePlace
  <2> QED
    BY <2>1, <2>2, <2>3, <2>4 DEF OnePlace
<1>15. PairedEnds'
  BY <1>1, <1>2, <1>7, <1>12 DEF IInv, PairedEnds
<1>16. NoLostWakeup'
  BY <1>2, <1>7 DEF IInv, TypeOK, NoLostWakeup
<1> QED
  BY <1>6, <1>14, <1>15, <1>16 DEF IInv

(* try_receive preserves the invariant: what it installs leaves the queue. *)
LEMMA ReceiveInv ==
  ASSUME IInv, NEW p \in procs, NEW e \in Endpoint, Receive(p, e)
  PROVE  IInv'
<1> DEFINE first == queue[e][1].moved
<1>1. /\ p \in Processes /\ p # Queued /\ p # Gone /\ e \in Live
  BY HeldLive DEF Receive, Holds
<1>2. /\ queue \in [Endpoint -> Seq(Message)]
      /\ queue[e] \in Seq(Message) /\ queue[e] # <<>>
      /\ Head(queue[e]) = queue[e][1] /\ 1 \in 1 .. Len(queue[e])
  BY DEF IInv, TypeOK, Receive
<1>3. /\ holder' = [x \in Endpoint |-> IF x \in first THEN p ELSE holder[x]]
      /\ queue' = [queue EXCEPT ![e] = Tail(queue[e])]
      /\ procs' = procs /\ peer' = peer /\ rights' = rights /\ waits' = waits
  BY <1>2 DEF Receive
<1>4. Tail(queue[e]) \in Seq(Message)
  BY <1>2
<1>5. TypeOK'
  <2>1. queue' \in [Endpoint -> Seq(Message)]
    BY <1>2, <1>3, <1>4
  <2>2. holder' \in [Endpoint -> Processes \cup {Queued, Gone}]
    BY <1>1, <1>3 DEF IInv, TypeOK
  <2> QED
    BY <1>3, <2>1, <2>2, Zenon DEF IInv, TypeOK, Message
<1>6. /\ \A q \in Endpoint \ {e} : queue'[q] = queue[q]
      /\ queue'[e] = Tail(queue[e])
  BY <1>2, <1>3
<1>7. /\ Len(queue'[e]) = Len(queue[e]) - 1
      /\ \A i \in 1 .. Len(queue'[e]) : queue'[e][i] = queue[e][i + 1]
  BY <1>2, <1>6
<1>8. Len(queue[e]) \in Nat
  BY <1>2
<1> DEFINE was(q, i) == IF q = e THEN i + 1 ELSE i
<1>9. ASSUME NEW q \in Endpoint, NEW i \in 1 .. Len(queue'[q])
      PROVE  /\ was(q, i) \in 1 .. Len(queue[q]) /\ queue'[q][i] = queue[q][was(q, i)]
             /\ ~(q = e /\ was(q, i) = 1)
  <2>1. CASE q = e
    BY <2>1, <1>7, <1>8
  <2>2. CASE q # e
    BY <2>2, <1>6
  <2> QED
    BY <2>1, <2>2
<1>10. ASSUME NEW q \in Endpoint, NEW k \in 1 .. Len(queue[q]), ~(q = e /\ k = 1)
       PROVE  \E i \in 1 .. Len(queue'[q]) : was(q, i) = k /\ queue'[q][i] = queue[q][k]
  <2>1. CASE q = e
    <3>1. k - 1 \in 1 .. Len(queue'[q]) /\ was(q, k - 1) = k
      BY <2>1, <1>7, <1>8, <1>10
    <3> QED
      BY <3>1, <2>1, <1>7
  <2>2. CASE q # e
    BY <2>2, <1>6
  <2> QED
    BY <2>1, <2>2
<1>11. Live' = Live /\ Live \subseteq Endpoint
  BY <1>3 DEF Live
<1>12. \A x \in Endpoint : holder'[x] = IF x \in first THEN p ELSE holder[x]
  BY <1>3
<1>13. OnePlace'
  <2>1. ASSUME NEW x \in Endpoint
        PROVE  holder'[x] = Queued <=> \E q \in Live' : x \in Escrow(q)'
    <3>1. ASSUME holder'[x] = Queued PROVE \E q \in Live' : x \in Escrow(q)'
      <4>1. x \notin first /\ holder[x] = Queued
        BY <3>1, <1>1, <1>12
      <4>2. PICK q \in Live : x \in Escrow(q)
        BY <4>1 DEF IInv, OnePlace
      <4>3. PICK k \in 1 .. Len(queue[q]) : x \in queue[q][k].moved
        BY <4>2, EscrowMember
      <4>4. PICK i \in 1 .. Len(queue'[q]) : queue'[q][i] = queue[q][k]
        BY <4>1, <4>3, <1>10, <1>11
      <4>5. x \in Escrow(q)'
        BY <4>3, <4>4, EscrowMemberNext
      <4> QED
        BY <4>5, <1>11
    <3>2. ASSUME NEW q \in Live', x \in Escrow(q)' PROVE holder'[x] = Queued
      <4>1. PICK i \in 1 .. Len(queue'[q]) : x \in queue'[q][i].moved
        BY <3>2, EscrowMemberNext
      <4>2. PICK k \in 1 .. Len(queue[q]) : x \in queue[q][k].moved /\ ~(q = e /\ k = 1)
        <5>1. q \in Endpoint
          BY <1>11
        <5>2. /\ was(q, i) \in 1 .. Len(queue[q]) /\ queue'[q][i] = queue[q][was(q, i)]
              /\ ~(q = e /\ was(q, i) = 1)
          BY <5>1, <1>9
        <5> HIDE DEF was
        <5> QED
          BY <4>1, <5>2
      <4>3. x \in Escrow(q)
        BY <4>2, EscrowMember
      <4>4. holder[x] = Queued
        BY <4>3, <1>11 DEF IInv, OnePlace
      <4>5. x \notin first
        BY <4>2, <1>2, <1>11 DEF IInv, OnePlace
      <4> QED
        BY <4>4, <4>5, <1>12
    <3> QED
      BY <3>1, <3>2
  <2>2. ASSUME NEW x \in Endpoint, NEW y \in Endpoint,
               NEW i \in 1 .. Len(queue'[x]), NEW j \in 1 .. Len(queue'[y]),
               queue'[x][i].moved \cap queue'[y][j].moved # {}
        PROVE  x = y /\ i = j
    <3>1. x = y /\ was(x, i) = was(y, j)
      <4>1. was(x, i) \in 1 .. Len(queue[x]) /\ queue'[x][i] = queue[x][was(x, i)]
        BY <1>9
      <4>2. was(y, j) \in 1 .. Len(queue[y]) /\ queue'[y][j] = queue[y][was(y, j)]
        BY <1>9
      <4> HIDE DEF was
      <4> QED
        BY <2>2, <4>1, <4>2 DEF IInv, OnePlace
    <3> QED
      BY <3>1
  <2>3. ASSUME NEW x \in Endpoint, holder'[x] \in Processes PROVE holder'[x] \in procs'
    BY <2>3, <1>3, <1>12 DEF IInv, OnePlace
  <2>4. ASSUME NEW x \in Endpoint, holder'[x] # Gone PROVE x \in Live'
    <3>1. CASE x \in first
      <4>1. x \in Escrow(e)
        BY <3>1, <1>2, EscrowMember
      <4> QED
        BY <4>1, <1>11, EscrowLive
    <3>2. CASE x \notin first
      BY <2>4, <3>2, <1>11, <1>12 DEF IInv, OnePlace
    <3> QED
      BY <3>1, <3>2
  <2> QED
    BY <2>1, <2>2, <2>3, <2>4 DEF OnePlace
<1>14. PairedEnds'
  BY <1>1, <1>3, <1>6, <1>11 DEF IInv, PairedEnds
<1>15. NoLostWakeup'
  BY <1>2, <1>3, <1>6 DEF IInv, TypeOK, NoLostWakeup
<1> QED
  BY <1>5, <1>13, <1>14, <1>15 DEF IInv

(* Spawning moves one endpoint from init to the new process. *)
LEMMA RegisterInv ==
  ASSUME IInv, NEW c \in Isolated, NEW e \in Endpoint, NEW asked \in SUBSET Rights,
         RegisterSpawned(c, e, asked)
  PROVE  IInv'
<1>1. /\ holder[e] = BOOTSTRAP_PROCESS_ID /\ BOOTSTRAP_PROCESS_ID \in procs
      /\ procs' = procs \cup {c}
      /\ holder' = [holder EXCEPT ![e] = c]
      /\ rights' = [rights EXCEPT ![e] = asked]
      /\ peer' = peer /\ queue' = queue /\ waits' = waits
  BY DEF RegisterSpawned, MayMove, Holds
<1>2. e \in Live
  BY <1>1, HeldLive
<1>3. c \in Processes /\ BOOTSTRAP_PROCESS_ID \in Processes
  BY DEF Processes
<1>4. TypeOK'
  BY <1>1, <1>3, Zenon DEF IInv, TypeOK, Message
<1>5. \A x \in Endpoint : holder'[x] = IF x = e THEN c ELSE holder[x]
  BY <1>1 DEF IInv, TypeOK
<1>6. Live' = Live
  BY <1>1 DEF Live
<1>7. \A q : Escrow(q)' = Escrow(q)
  BY <1>1 DEF Escrow
<1>8. OnePlace'
  <2>1. ASSUME NEW x \in Endpoint
        PROVE  holder'[x] = Queued <=> \E q \in Live' : x \in Escrow(q)'
    <3>1. holder'[x] = Queued <=> holder[x] = Queued
      BY <1>1, <1>3, <1>5, ChannelConstants
    <3> QED
      BY <3>1, <1>6, <1>7 DEF IInv, OnePlace
  <2>2. \A x, y \in Endpoint :
          \A i \in 1 .. Len(queue'[x]), j \in 1 .. Len(queue'[y]) :
            queue'[x][i].moved \cap queue'[y][j].moved # {} => x = y /\ i = j
    BY <1>1 DEF IInv, OnePlace
  <2>3. ASSUME NEW x \in Endpoint, holder'[x] \in Processes PROVE holder'[x] \in procs'
    BY <2>3, <1>1, <1>5 DEF IInv, OnePlace
  <2>4. ASSUME NEW x \in Endpoint, holder'[x] # Gone PROVE x \in Live'
    BY <2>4, <1>2, <1>5, <1>6 DEF IInv, OnePlace
  <2> QED
    BY <2>1, <2>2, <2>3, <2>4 DEF OnePlace
<1>9. PairedEnds' /\ NoLostWakeup'
  BY <1>1, <1>6 DEF IInv, PairedEnds, NoLostWakeup
<1> QED
  BY <1>4, <1>8, <1>9 DEF IInv

(* close preserves the invariant. *)
LEMMA CloseInv ==
  ASSUME IInv, NEW p \in procs, NEW e \in Endpoint, Close(p, e)
  PROVE  IInv'
<1> DEFINE h == [holder EXCEPT ![e] = Gone]
           r == [rights EXCEPT ![e] = {}]
<1>1. /\ holder[e] = p /\ Collect(h, r) /\ procs' = procs /\ waits' = waits
  BY DEF Close, Holds
<1>2. p \in Processes
  BY <1>1, HeldLive
<1>3. /\ h \in [Endpoint -> Processes \cup {Queued, Gone}]
      /\ r \in [Endpoint -> SUBSET Rights]
      /\ procs' \subseteq Processes
  BY <1>1 DEF IInv, TypeOK
<1>4. \A x \in Endpoint : h[x] = IF x = e THEN Gone ELSE holder[x]
  BY DEF IInv, TypeOK
<1> HIDE DEF h, r
<1>5. \A x \in Endpoint : h[x] = holder[x] \/ (holder[x] \in Processes /\ h[x] = Gone)
  BY <1>1, <1>2, <1>4
<1>6. \A x \in Endpoint : h[x] \in Processes => h[x] \in procs'
  BY <1>1, <1>4, ChannelConstants DEF IInv, OnePlace
<1> QED
  BY <1>1, <1>3, <1>5, <1>6, CollectKeepsInv

(* exit_process preserves the invariant. *)
LEMMA ExitInv ==
  ASSUME IInv, NEW c \in Isolated, ExitProcess(c)
  PROVE  IInv'
<1> DEFINE h == [e \in Endpoint |-> IF holder[e] = c THEN Gone ELSE holder[e]]
           r == [e \in Endpoint |-> IF holder[e] = c THEN {} ELSE rights[e]]
<1>1. /\ Collect(h, r) /\ procs' = procs \ {c} /\ waits' = waits
  BY DEF ExitProcess
<1>2. c \in Processes
  BY DEF Processes
<1>3. /\ h \in [Endpoint -> Processes \cup {Queued, Gone}]
      /\ r \in [Endpoint -> SUBSET Rights]
      /\ procs' \subseteq Processes
  BY <1>1 DEF IInv, TypeOK
<1>4. \A x \in Endpoint : h[x] = IF holder[x] = c THEN Gone ELSE holder[x]
  OBVIOUS
<1> HIDE DEF h, r
<1>5. \A x \in Endpoint : h[x] = holder[x] \/ (holder[x] \in Processes /\ h[x] = Gone)
  BY <1>2, <1>4
<1>6. \A x \in Endpoint : h[x] \in Processes => h[x] \in procs'
  BY <1>1, <1>4, ChannelConstants DEF IInv, OnePlace
<1> QED
  BY <1>1, <1>3, <1>5, <1>6, CollectKeepsInv

(* Registering and cancelling a wait leave all but the waits alone. *)
LEMMA WaitInv ==
  ASSUME IInv, NEW t \in Threads,
         CancelWaiter(t) \/ \E p \in procs, e \in Endpoint : WaitReadable(p, e, t)
  PROVE  IInv'
<1>1. UNCHANGED <<procs, peer, holder, rights, queue>>
  BY Zenon DEF CancelWaiter, WaitReadable
<1>2. \A w \in waits' : w \in waits \/ \E e \in Endpoint : w = <<t, e>> /\ queue[e] = <<>>
  BY Zenon DEF CancelWaiter, WaitReadable
<1>3. TypeOK'
  <2>1. waits' \subseteq Threads \X Endpoint
    BY <1>2 DEF IInv, TypeOK
  <2> QED
    BY <1>1, <2>1, Zenon DEF IInv, TypeOK, Message
<1>4. OnePlace' /\ PairedEnds'
  BY <1>1 DEF IInv, OnePlace, PairedEnds, Live, Escrow
<1>5. NoLostWakeup'
  BY <1>1, <1>2 DEF IInv, NoLostWakeup
<1> QED
  BY <1>3, <1>4, <1>5 DEF IInv

-----------------------------------------------------------------------------
(* One case per action of Next. *)
LEMMA NextInv ==
  ASSUME IInv, [Next]_vars
  PROVE  IInv'
<1>1. ASSUME NEW p \in procs, NEW e \in Endpoint, SendSome(p, e) PROVE IInv'
  <2>1. PICK M \in SUBSET Endpoint : \E asked \in [M -> Masks] : Send(p, e, M, asked)
    BY <1>1 DEF SendSome
  <2>2. PICK asked \in [M -> Masks] : Send(p, e, M, asked)
    BY <2>1
  <2>3. asked \in [M -> SUBSET Rights]
    BY ChannelConstants
  <2> QED
    BY <2>2, <2>3, SendInv
<1>2. ASSUME NEW p \in procs, NEW e \in Endpoint, Call(p, e) PROVE IInv'
  BY <1>1, <1>2, ReceiveInv, CloseInv, WaitInv DEF Call
<1>3. ASSUME NEW c \in Isolated, NEW e \in Endpoint, NEW asked \in Masks,
             RegisterSpawned(c, e, asked)
      PROVE  IInv'
  BY <1>3, RegisterInv, ChannelConstants
<1>4. CASE UNCHANGED vars
  <2>1. UNCHANGED <<procs, peer, holder, rights, queue, waits>>
    BY <1>4 DEF vars
  <2>2. TypeOK'
    BY <2>1, Zenon DEF IInv, TypeOK, Message
  <2>3. OnePlace' /\ PairedEnds'
    BY <2>1 DEF IInv, OnePlace, PairedEnds, Live, Escrow
  <2>4. NoLostWakeup'
    BY <2>1 DEF IInv, NoLostWakeup
  <2> QED
    BY <2>2, <2>3, <2>4 DEF IInv
<1> QED
  BY <1>2, <1>3, <1>4, ExitInv, WaitInv, CreatePairInv DEF Next

(* The inductive invariant holds in every reachable state. *)
LEMMA AlwaysInv == Spec => []IInv
<1>1. Init => IInv
  BY InitInv
<1>2. IInv /\ [Next]_vars => IInv'
  BY NextInv
<1> QED
  BY <1>1, <1>2, PTL DEF Spec

(* The channel table keeps its types. *)
THEOREM TypeCorrect == Spec => []TypeOK
<1>1. IInv => TypeOK
  BY DEF IInv
<1> QED
  BY <1>1, AlwaysInv, PTL

(* However endpoints are sent, received, spawned away, closed or lost with *)
(* a process, each is in exactly one place, and nothing in flight or in a  *)
(* handle table names a freed channel.                                     *)
THEOREM EveryEndpointInOnePlace == Spec => []OnePlace
<1>1. IInv => OnePlace
  BY DEF IInv
<1> QED
  BY <1>1, AlwaysInv, PTL

(* Channels are created and collected as a whole. *)
THEOREM EndsStayPaired == Spec => []PairedEnds
<1>1. IInv => PairedEnds
  BY DEF IInv
<1> QED
  BY <1>1, AlwaysInv, PTL

(* wait_readable and send cannot miss each other: no registration outlives *)
(* the arrival of a message.                                               *)
THEOREM NoWakeupIsLost == Spec => []NoLostWakeup
<1>1. IInv => NoLostWakeup
  BY DEF IInv
<1> QED
  BY <1>1, AlwaysInv, PTL

-----------------------------------------------------------------------------
(* What one step may do to the place and the rights of an endpoint.  The   *)
(* action properties follow from it.                                       *)
Lost(e) == holder'[e] \in {holder[e], Gone} /\ rights'[e] \subseteq rights[e]

GivenAway(e) == holder[e] \in procs /\ holder'[e] = Queued /\ rights'[e] \subseteq rights[e]

Taken(e) ==
  /\ holder[e] = Queued /\ rights'[e] = rights[e]
  /\ \E q \in Live : holder[q] = holder'[e] /\ "READ" \in rights[q] /\ e \in Escrow(q)

Inherited(e) ==
  /\ holder[e] = BOOTSTRAP_PROCESS_ID /\ holder'[e] \notin procs
  /\ rights'[e] \subseteq rights[e]

Moves == \A e \in Endpoint : e \notin Live \/ Lost(e) \/ GivenAway(e) \/ Taken(e) \/ Inherited(e)

(* A collection moves endpoints nowhere but out of existence. *)
LEMMA CollectMoves ==
  ASSUME IInv, NEW h, NEW r, Collect(h, r),
         \A e \in Endpoint : h[e] \in {holder[e], Gone} /\ r[e] \subseteq rights[e]
  PROVE  Moves
<1>1. PICK R : DropAllBut(R, h, r)
  BY DEF Collect
<1>2. ASSUME NEW e \in Endpoint PROVE Lost(e)
  <2>1. holder'[e] \in {h[e], Gone} /\ rights'[e] \in {r[e], {}}
    BY <1>1 DEF DropAllBut
  <2> QED
    BY <2>1 DEF Lost
<1> QED
  BY <1>2 DEF Moves

(* What a send takes from the sender goes into the queue of the peer. *)
LEMMA SendMoves ==
  ASSUME IInv, NEW p \in procs, NEW e \in Endpoint, NEW M \in SUBSET Endpoint, NEW asked,
         Send(p, e, M, asked)
  PROVE  Moves
<1> SUFFICES ASSUME NEW x \in Endpoint PROVE Lost(x) \/ GivenAway(x)
  BY DEF Moves
<1>1. /\ holder'[x] = IF x \in M THEN Queued ELSE holder[x]
      /\ rights'[x] = IF x \in M THEN asked[x] ELSE rights[x]
      /\ x \in M => holder[x] = p /\ asked[x] \subseteq rights[x]
  BY DEF Send, MayMove, Holds
<1> QED
  BY <1>1 DEF Lost, GivenAway

(* What a receive hands over was in the queue of the receiving end. *)
LEMMA ReceiveMoves ==
  ASSUME IInv, NEW p \in procs, NEW e \in Endpoint, Receive(p, e)
  PROVE  Moves
<1> SUFFICES ASSUME NEW x \in Endpoint PROVE Lost(x) \/ Taken(x)
  BY DEF Moves
<1>1. queue[e] \in Seq(Message) /\ queue[e] # <<>>
  BY DEF IInv, TypeOK, Receive
<1>2. Head(queue[e]) = queue[e][1] /\ 1 \in 1 .. Len(queue[e])
  BY <1>1
<1>3. /\ holder'[x] = IF x \in queue[e][1].moved THEN p ELSE holder[x]
      /\ rights'[x] = rights[x] /\ holder[e] = p /\ "READ" \in rights[e]
  BY <1>2 DEF Receive, Holds
<1>4. e \in Live
  BY <1>3, HeldLive
<1>5. CASE x \in queue[e][1].moved
  <2>1. x \in Escrow(e)
    BY <1>2, <1>5, EscrowMember
  <2>2. holder[x] = Queued
    BY <2>1, <1>4 DEF IInv, OnePlace
  <2> QED
    BY <2>1, <2>2, <1>3, <1>4, <1>5 DEF Taken
<1>6. CASE x \notin queue[e][1].moved
  BY <1>3, <1>6 DEF Lost
<1> QED
  BY <1>5, <1>6

(* How a step may move an endpoint, and what it does to its rights. *)
LEMMA StepMoves ==
  ASSUME IInv, [Next]_vars
  PROVE  Moves
<1>1. ASSUME NEW p \in procs, NEW e \in Endpoint, SendSome(p, e) PROVE Moves
  BY <1>1, SendMoves DEF SendSome
<1>2. ASSUME NEW p \in procs, NEW e \in Endpoint, Close(p, e) PROVE Moves
  <2> DEFINE h == [holder EXCEPT ![e] = Gone]
             r == [rights EXCEPT ![e] = {}]
  <2>1. Collect(h, r)
    BY <1>2 DEF Close
  <2>2. \A x \in Endpoint : h[x] \in {holder[x], Gone} /\ r[x] \subseteq rights[x]
    BY DEF IInv, TypeOK
  <2> QED
    BY <2>1, <2>2, CollectMoves, Zenon
<1>3. ASSUME NEW c \in Isolated, ExitProcess(c) PROVE Moves
  <2> DEFINE h == [e \in Endpoint |-> IF holder[e] = c THEN Gone ELSE holder[e]]
             r == [e \in Endpoint |-> IF holder[e] = c THEN {} ELSE rights[e]]
  <2>1. Collect(h, r)
    BY <1>3 DEF ExitProcess
  <2>2. \A x \in Endpoint : h[x] \in {holder[x], Gone} /\ r[x] \subseteq rights[x]
    OBVIOUS
  <2> QED
    BY <2>1, <2>2, CollectMoves
<1>4. ASSUME NEW p \in procs, NEW a \in Endpoint, NEW b \in Endpoint, CreatePair(p, a, b)
      PROVE  Moves
  <2>1. ASSUME NEW x \in Endpoint PROVE x \notin Live \/ Lost(x)
    BY <1>4 DEF CreatePair, Unused, IInv, TypeOK, Live, Lost
  <2> QED
    BY <2>1 DEF Moves
<1>5. ASSUME NEW c \in Isolated, NEW e \in Endpoint, NEW asked \in Masks,
             RegisterSpawned(c, e, asked)
      PROVE  Moves
  <2>1. ASSUME NEW x \in Endpoint PROVE Inherited(x) \/ Lost(x)
    BY <1>5 DEF RegisterSpawned, MayMove, Holds, IInv, TypeOK, Lost, Inherited
  <2> QED
    BY <2>1 DEF Moves
<1>6. ASSUME UNCHANGED <<holder, rights>> PROVE Moves
  BY <1>6 DEF Moves, Lost
<1>7. ASSUME NEW t \in Threads, CancelWaiter(t) PROVE Moves
  BY <1>6, <1>7 DEF CancelWaiter
<1>8. ASSUME NEW p \in procs, NEW e \in Endpoint, NEW t \in Threads, WaitReadable(p, e, t)
      PROVE  Moves
  BY <1>6, <1>8 DEF WaitReadable
<1>9. ASSUME UNCHANGED vars PROVE Moves
  BY <1>6, <1>9 DEF vars
<1> QED
  BY <1>1, <1>2, <1>3, <1>4, <1>5, <1>7, <1>8, <1>9, ReceiveMoves DEF Next, Call

(* A send that fails with PeerClosed can never succeed later. *)
THEOREM PeerClosedStays == Spec => PeerClosedIsFinal
<1>1. ASSUME IInv, [Next]_vars, NEW e \in Live, holder[e] = Gone, peer'[e] = peer[e]
      PROVE  holder'[e] = Gone
  <2>1. Moves /\ e \in Endpoint
    BY <1>1, StepMoves DEF Live
  <2>2. Gone \notin procs /\ Gone # Queued /\ Gone # BOOTSTRAP_PROCESS_ID
    BY <1>1, ChannelConstants DEF IInv, TypeOK, Processes
  <2> QED
    BY <1>1, <2>1, <2>2 DEF Moves, Lost, GivenAway, Taken, Inherited
<1>2. IInv /\ [Next]_vars =>
        [\A e \in Live : holder[e] = Gone /\ peer'[e] = peer[e] => holder'[e] = Gone]_vars
  BY <1>1
<1> QED
  BY <1>2, AlwaysInv, PTL DEF Spec, PeerClosedIsFinal

(* Over any number of transfers, spawns and receives, the rights on an     *)
(* endpoint are at most the ones it was created with and at most the ones  *)
(* each giver kept.                                                        *)
THEOREM RightsNeverGrow == Spec => RightsOnlyShrink
<1>1. ASSUME IInv, [Next]_vars, NEW e \in Live, peer'[e] = peer[e]
      PROVE  rights'[e] \subseteq rights[e]
  <2>1. Moves /\ e \in Endpoint
    BY <1>1, StepMoves DEF Live
  <2> QED
    BY <2>1 DEF Moves, Lost, GivenAway, Taken, Inherited
<1>2. IInv /\ [Next]_vars =>
        [\A e \in Live : peer'[e] = peer[e] => rights'[e] \subseteq rights[e]]_vars
  BY <1>1
<1> QED
  BY <1>2, AlwaysInv, PTL DEF Spec, RightsOnlyShrink

(* No process acquires an endpoint out of nothing. *)
THEOREM OnlyConnectivityBegetsConnectivity == Spec => ConnectivityFromConnectivity
<1>1. ASSUME IInv, [Next]_vars, NEW e \in Endpoint,
             holder'[e] \in Processes, holder'[e] # holder[e]
      PROVE  \/ e \notin Live
             \/ \E q \in Live : /\ holder[q] = holder'[e] /\ "READ" \in rights[q]
                                /\ e \in Escrow(q)
             \/ holder[e] = BOOTSTRAP_PROCESS_ID /\ holder'[e] \notin procs
  <2>1. Moves
    BY <1>1, StepMoves
  <2>2. Gone \notin Processes /\ Queued \notin Processes
    BY ChannelConstants
  <2> QED
    BY <1>1, <2>1, <2>2 DEF Moves, Lost, GivenAway, Taken, Inherited
<1>2. IInv /\ [Next]_vars =>
        [\A e \in Endpoint :
           holder'[e] \in Processes /\ holder'[e] # holder[e] =>
             \/ e \notin Live
             \/ \E q \in Live : /\ holder[q] = holder'[e] /\ "READ" \in rights[q]
                                /\ e \in Escrow(q)
             \/ holder[e] = BOOTSTRAP_PROCESS_ID /\ holder'[e] \notin procs]_vars
  BY <1>1
<1> QED
  BY <1>2, AlwaysInv, PTL DEF Spec, ConnectivityFromConnectivity
=============================================================================
