----------------------------- MODULE SerialApp -----------------------------
(***************************************************************************)
(* The application thread (Layer/App/app.c) as a serial link sees it.  A   *)
(* task list is the number of ASDUs its data for the link still makes.  A  *)
(* command event only names the link's receive buffer: what is carried out *)
(* is what the buffer holds when the application gets to it.               *)
(***************************************************************************)
EXTENDS SerialLink

CONSTANTS
  CallNodes,  \* NODE_UPDATE events iec_all_call_proc posts on a general call
  MaxUpdates  \* bound: node updates the device reports by itself

ASSUME SerialAppAssumption == CallNodes \in Nat /\ MaxUpdates \in Nat

VARIABLES
  updates,  \* updates reported so far
  executed  \* history: the commands taken, and those their events were of

appVars == <<updates, executed>>

SerialAppInit ==
  /\ appmb = <<>> /\ first_task = [l \in Levels |-> 0]
  /\ updates = 0 /\ executed = <<>>

AppTook(evt) == FirstIs(appmb, evt) /\ appmb' = Tail(appmb)
AppUnchanged == UNCHANGED <<double_dir, active, acd_tag, fcb, recv_asdu, prev_sent, rx_buff,
                            to_primary, accepted, handed, called>>

\* The task list after app_task_add_normal: a new ASDU, or room in one.
Added(lvl) == {[first_task EXCEPT ![lvl] = @ + 1]}
                \cup (IF first_task[lvl] > 0 THEN {first_task} ELSE {})

(* EVT_SUB_DAT_LEVEL_1, EVT_SUB_DAT_LEVEL_2 of app_evt_recv_data_handle. *)
AppRequest(lvl) ==
  /\ AppTook(ReqEvt(lvl))
  /\ \/ /\ first_task[lvl] > 0
        /\ first_task' = [first_task EXCEPT ![lvl] = @ - 1]
        /\ PostLink(SendAsduEvt)
     \/ /\ first_task[lvl] = 0
        /\ PostLink(SendNoneEvt(lvl))
        /\ UNCHANGED first_task
  /\ UNCHANGED <<data_trans_active, appVars>>
  /\ AppUnchanged

(* The events of a link on a balanced line, which no case handles. *)
AppIgnores ==
  /\ AppTook(BalancedEvt)
  /\ UNCHANGED <<serialmb, dropped, data_trans_active, first_task, appVars>>
  /\ AppUnchanged

(* EVT_SUB_DAT_USER: the command, its answer and the acknowledgement.  A   *)
(* general call posts its answers to this thread's own mailbox.            *)
Fitting(mb)     == {n \in 1 .. CallNodes : Len(mb) + n <= AppMb}
CallAnswers(mb) == [i \in Fitting(mb) |-> NodeEvt("LEVEL_1")]

AppCommand ==
  /\ \E n \in 1 .. accepted :
       /\ FirstIs(appmb, CommandEvt(n))
       /\ executed' = Append(executed, [posted |-> n, read |-> recv_asdu.num])
  /\ LET rest == Tail(appmb) IN
     \/ /\ recv_asdu.asdu = "rejected"
        /\ appmb' = rest
        /\ UNCHANGED <<data_trans_active, first_task>>
     \/ /\ recv_asdu.asdu = "command"
        /\ appmb' = rest
        /\ first_task' \in Added("LEVEL_1")
        /\ UNCHANGED data_trans_active
     \/ /\ recv_asdu.asdu = "call"
        /\ appmb' = rest \o CallAnswers(rest)
        /\ first_task' \in Added("LEVEL_1")
        /\ data_trans_active' = 1
  /\ PostLink(UserAckEvt)
  /\ UNCHANGED updates
  /\ AppUnchanged

(* app_evt_update_node_handle: nothing for a link that was reset or has    *)
(* not had its general call.                                               *)
Wants == active = 1 /\ data_trans_active = 1

AppUpdate(lvl) ==
  /\ AppTook(NodeEvt(lvl))
  /\ \/ Wants /\ first_task' \in Added(lvl) /\ PostLink(UpdateEvt(lvl))
     \/ ~Wants /\ UNCHANGED <<first_task, serialmb, dropped>>
  /\ UNCHANGED <<data_trans_active, appVars>>
  /\ AppUnchanged

(* iec_api_update_node, called by the device's own threads. *)
DeviceUpdate(lvl) ==
  /\ updates < MaxUpdates
  /\ updates' = updates + 1
  /\ PostApp(NodeEvt(lvl))
  /\ UNCHANGED <<serialmb, dropped, data_trans_active, first_task, executed>>
  /\ AppUnchanged

AppThread == AppCommand \/ AppIgnores \/ \E lvl \in Levels : AppRequest(lvl) \/ AppUpdate(lvl)
Device    == \E lvl \in Levels : DeviceUpdate(lvl)
=============================================================================
