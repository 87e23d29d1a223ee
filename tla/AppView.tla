------------------------------ MODULE AppView ------------------------------
(***************************************************************************)
(* The application thread (Layer/App/app.c) as one link sees it.  A task   *)
(* list is the number of ASDUs its data for the link still makes, which is *)
(* all the link can tell of it: an update fits in an ASDU that waits or    *)
(* makes one more, as a new task or in a task that has more than one ASDU  *)
(* holds; a request takes one.                                             *)
(***************************************************************************)
EXTENDS NetLink

CONSTANTS
  CallNodes,  \* NODE_UPDATE events iec_all_call_proc posts on a general call
  MaxUpdates  \* bound: node updates the device reports by itself

ASSUME AppViewAssumption == CallNodes \in Nat /\ MaxUpdates \in Nat

VARIABLE updates  \* updates reported so far

AppViewInit ==
  /\ appmb = <<>> /\ first_task = [l \in Levels |-> 0] /\ updates = 0

AppUnchanged == UNCHANGED <<link, apciVars, timer, monitor, close_sem, bufVars, wireVars,
                            acked, wire_ack, delivered>>

AppTakes(evt) == FirstIs(appmb, evt)

\* The task list after app_task_add_normal.
Added(lvl) == {[first_task EXCEPT ![lvl] = @ + 1]}
                \cup (IF first_task[lvl] > 0 THEN {first_task} ELSE {})

(* EVT_SUB_DAT_LEVEL_1, EVT_SUB_DAT_LEVEL_2: send an ASDU, or say that  *)
(* there is none.                                                       *)
AppRequest(lvl) ==
  /\ AppTakes(ReqEvt(lvl))
  /\ appmb' = Tail(appmb)
  /\ \/ /\ first_task[lvl] > 0
        /\ first_task' = [first_task EXCEPT ![lvl] = @ - 1]
        /\ netmb' = PostNet(netmb, SendAsduEvt)
     \/ /\ first_task[lvl] = 0
        /\ netmb' = PostNet(netmb, SendNoneEvt(lvl))
        /\ UNCHANGED first_task
  /\ UNCHANGED <<data_trans_active, updates>>
  /\ AppUnchanged

(* EVT_SUB_DAT_USER: app_evt_dispatch_recv_asdu, then the acknowledgement  *)
(* to the link whatever became of the ASDU.  A general call posts its      *)
(* answers to this thread's own mailbox and activates data transfer.       *)
Fitting(mb)     == {n \in 0 .. CallNodes : Len(mb) + n <= AppMb}
CallAnswers(mb) == [i \in Fitting(mb) \ {0} |-> NodeEvt("LEVEL_1")]

AppUserData ==
  /\ \/ /\ AppTakes(AsduEvt("rejected")) \/ AppTakes(NullAsduEvt)
        /\ appmb' = Tail(appmb)
        /\ UNCHANGED <<first_task, data_trans_active>>
     \/ /\ AppTakes(AsduEvt("command"))
        /\ appmb' = Tail(appmb)
        /\ first_task' \in Added("LEVEL_1")
        /\ UNCHANGED data_trans_active
     \/ /\ AppTakes(AsduEvt("call"))
        /\ appmb' = Tail(appmb) \o CallAnswers(Tail(appmb))
        /\ first_task' \in Added("LEVEL_1")
        /\ data_trans_active' = 1
  /\ netmb' = PostNet(netmb, UserAckEvt)
  /\ UNCHANGED updates
  /\ AppUnchanged

(* app_evt_update_node_handle: nothing for a link that is unbound, not *)
(* started or has not had its general call.                            *)
Wants == link # "deleted" /\ active = 1 /\ data_trans_active = 1

AppUpdate(lvl) ==
  /\ AppTakes(NodeEvt(lvl))
  /\ appmb' = Tail(appmb)
  /\ \/ Wants /\ first_task' \in Added(lvl) /\ netmb' = PostNet(netmb, UpdateEvt(lvl))
     \/ ~Wants /\ UNCHANGED <<first_task, netmb>>
  /\ UNCHANGED <<data_trans_active, updates>>
  /\ AppUnchanged

(* iec_api_update_node, called by the device's own threads. *)
DeviceUpdate(lvl) ==
  /\ updates < MaxUpdates
  /\ updates' = updates + 1
  /\ appmb' = PostApp(appmb, NodeEvt(lvl))
  /\ UNCHANGED <<netmb, first_task, data_trans_active>>
  /\ AppUnchanged

AppThread == AppUserData \/ \E lvl \in Levels : AppRequest(lvl) \/ AppUpdate(lvl)
Device    == \E lvl \in Levels : DeviceUpdate(lvl)
=============================================================================
