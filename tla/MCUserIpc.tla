----------------------------- MODULE MCUserIpc ------------------------------
(* Init and one isolated process over two channel slots, with the mapping  *)
(* to Channels.  Generations are short, so that slots retire, and handles  *)
(* and objects are few enough to run out.                                  *)
EXTENDS UserIpc

FullMask == {Rights}

(* Every handle that leaves its slot moves the slot one generation on: a   *)
(* state in which handles have left slots more than MAX_VACATED times is   *)
(* looked at no further (nor, next to a child, one with a thread waiting   *)
(* at that bound).  Slots, objects and waits are still met by the next     *)
(* occupant, slots reach their last generation, and messages carry the     *)
(* only handles of another channel, the sender having exited.              *)
MAX_VACATED == 2

HandlesVacated ==
  MapThenSumSet(LAMBDA x : Handles(x[1])[x[2]].generation - 1, Registered \X Slots)

FewVacated ==
  HandlesVacated + (IF Cardinality(Registered) = 1 THEN 0 ELSE Cardinality(waits)) <= MAX_VACATED

(* view is View by columns, computed once per state. *)
VARIABLE view

Columns(seen) ==
  [peer |-> [n \in Names |-> seen[n].peer], holder |-> [n \in Names |-> seen[n].holder],
   rights |-> [n \in Names |-> seen[n].rights], queue |-> [n \in Names |-> seen[n].queue]]

MCInit == Init /\ view = Columns(View)
MCNext ==
  /\ Next
  /\ IF UNCHANGED <<registry, processes, channels>> THEN UNCHANGED view
     ELSE \E seen \in {View'} : view' = Columns(seen)
MCSpec == MCInit /\ [][MCNext]_<<vars, view>>

Abstract == INSTANCE Channels WITH
  Endpoint <- Names, NoEndpoint <- None, procs <- Registered,
  peer <- view.peer, holder <- view.holder, rights <- view.rights, queue <- view.queue,
  waits <- {<<w[1], Name(w[2])>> : w \in waits}

(* The manager implements the channels its callers see (Abstract!Spec):    *)
(* every call changes nothing a caller can see or is one step of Channels. *)
ImplementsChannels ==
  Abstract!Init /\ [][UNCHANGED Abstract!vars \/ Abstract!Next]_(Abstract!vars)
=============================================================================
