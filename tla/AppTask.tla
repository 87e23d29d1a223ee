------------------------------ MODULE AppTask ------------------------------
(***************************************************************************)
(* Layer/App/app_task.c: the lists of tasks that wait to be sent.  A task  *)
(* is one ASDU to come for one link; a pointer to a task is its position.  *)
(***************************************************************************)
EXTENDS Asdu, FiniteSetsExt

\* task_name: no command and no node of this program sets the sequence bit.
Name(t) == <<t.link_id, t.asdu_ident, t.cause>>

Named(al, name) == {i \in DOMAIN al : Name(al[i]) = name}

Holds(t, addr) == \E j \in DOMAIN t.nodes : t.nodes[j].addr = addr

(* Where app_task_add_normal puts a node: into the first task of its name, *)
(* for data that is not buffered the first that holds its address, or into *)
(* a new task at the end.                                                  *)
Place(al, name, node) ==
  LET fit == {i \in Named(al, name) : node.buffered = 1 \/ Holds(al[i], node.addr)}
  IN  IF fit = {} THEN Len(al) + 1 ELSE Min(fit)

\* Mutant: data that waits is not refreshed.
KeepsTheOld(nodes, node) == nodes

\* Only the data is copied: single stays that of the node that waits.
Refreshed(nodes, node) ==
  LET j == Min({k \in DOMAIN nodes : nodes[k].addr = node.addr})
  IN  [nodes EXCEPT ![j].objects = node.objects]

app_task_add_normal(al, link_id, ident, cause, node) ==
  LET i == Place(al, <<link_id, ident, cause>>, node)
  IN  IF i > Len(al)
      THEN Append(al, [link_id |-> link_id, asdu_ident |-> ident, cause |-> cause,
                       nodes |-> <<node>>])
      ELSE [al EXCEPT ![i].nodes = IF node.buffered = 1 THEN Append(@, node)
                                   ELSE Refreshed(@, node)]

(* The first task of the link; without one the loop ends with the last     *)
(* task of the list, whose ever it is.  0 is the null pointer.             *)
app_task_get(al, link_id) ==
  LET own == {i \in DOMAIN al : al[i].link_id = link_id}
  IN  IF own = {} THEN Len(al) ELSE Min(own)

(* A task with nodes left stays.  Otherwise the first task of its name is  *)
(* removed from the list, whichever task was given back: that one has no   *)
(* node any more.                                                          *)
app_task_free(al, i) ==
  IF al[i].nodes # <<>> THEN al
  ELSE RemoveAt(al, Min(Named(al, Name(al[i]))))

app_task_covert_to_asdu_frame(t, garbage) ==
  LET packed == app_task_pack_node(t.nodes, garbage)
  IN  [link_id |-> t.link_id, ident |-> t.asdu_ident, cause |-> t.cause,
       count |-> packed.count, objects |-> packed.objects]

Emptied(al, i) == [al EXCEPT ![i].nodes = Left(@)]

\* Mutant: the answer waits its turn behind the data.
AckAtTheEnd(al, link_id, ident, cause, node) ==
  app_task_add_normal(al, link_id, ident, cause, node)

\* The answer's task is moved to the front of the list.
app_task_insert_ack_asdu(al, link_id, ident, cause, node) ==
  LET res == Place(al, <<link_id, ident, cause>>, node)
      added == app_task_add_normal(al, link_id, ident, cause, node)
  IN  <<added[res]>> \o RemoveAt(added, res)
-----------------------------------------------------------------------------
\* Mutant: whatever is no error is confirmed.
ConfirmsRefused(res) ==
  CASE res = "CMD_RES_ERR_NODE" -> "Unknowinfo"
    [] res = "CMD_RES_ERR_TYPE" -> "Unknowtype"
    [] OTHER                    -> "Actcon"

\* What the control callback's result makes of the cause of the answer.
CtrlCause(res) ==
  CASE res = "CMD_RES_OK"       -> "Actcon"
    [] res = "CMD_RES_ERR_NODE" -> "Unknowinfo"
    [] res = "CMD_RES_ERR_TYPE" -> "Unknowtype"
    [] OTHER                    -> "Actterm"

IsCtrl(a) == a.node_count <= 1 /\ a.asdu_ident \in 45 .. 51
IsSys(a)  == a.node_count <= 1 /\ a.asdu_ident \in 100 .. 106

\* The cause of the answer: a system command's does not depend on its own.
app_linkframe_convert_to_asdu(a, res) ==
  CASE IsSys(a)                        -> "Actcon"
    [] IsCtrl(a) /\ a.cause = "Act"    -> CtrlCause(res)
    [] IsCtrl(a) /\ a.cause = "Deact"  -> "Deactcon"
    [] IsCtrl(a) /\ a.cause \notin {"Act", "Deact"} -> "Unknowreason"
    [] OTHER                           -> "Defreason"
=============================================================================
