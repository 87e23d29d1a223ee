-------------------------------- MODULE Asdu --------------------------------
(***************************************************************************)
(* Iec/: type identifications, causes, and the information points an ASDU  *)
(* carries.  A byte buffer is the sequence of the objects in it: an object *)
(* is an address and what its elements say.                                *)
(***************************************************************************)
EXTENDS Integers, Sequences, SequencesExt

CONSTANT NodesPerAsdu  \* nodes packed before the length limit is reached

ASSUME NodesAssumption == NodesPerAsdu \in Nat \ {0}

M_SP_NA == 1
M_ME_NB == 11
C_DC_NA == 46
C_IC_NA == 100
C_CS_NA == 103

Causes == {"Defreason", "Spont", "Act", "Actcon", "Deact", "Deactcon", "Actterm", "Introgen",
           "Unknowtype", "Unknowreason", "Unknowasdu", "Unknowinfo"}

(* The types g_SysASDU_Table has an entry of.  The entries written for     *)
(* M_ME_TB (12) and M_ME_TC (14) name M_ME_NB and M_ME_NC once more, and   *)
(* no file type is configured.                                             *)
MonitorTypes == (1 .. 21 \ {12, 14}) \cup 30 .. 40
ControlTypes == 45 .. 51 \cup {70} \cup 100 .. 106 \cup 110 .. 113

iec_get_asdu_cfg(ident) == ident \in MonitorTypes \cup ControlTypes
-----------------------------------------------------------------------------
Object(addr, val) == [addr |-> addr, val |-> val]

(* iec_api_gen_node_info for the first of the points, then                 *)
(* iec_api_add_nodedata_to_node for each further one, with the elements of *)
(* each: single counts them.                                               *)
NodeOf(points, val, buffered) ==
  [addr |-> points[1], single |-> Len(points), buffered |-> buffered,
   objects |-> [i \in DOMAIN points |-> Object(points[i], val[points[i]])]]

\* single of a node whose memory was allocated and not written: what it
\* reads as is whatever the memory held.
Unset == 0

\* The number of objects app_task_pack_node says the nodes are.
CountOf(nodes, garbage) ==
  LET single(n) == IF n.single = Unset THEN garbage ELSE n.single
  IN  FoldLeft(LAMBDA c, n : IF single(n) > 1 THEN single(n) ELSE c + 1, 0, nodes)

(* Every node's address is packed at the start of the buffer: the first    *)
(* object has the address of the last node, and where the address of a     *)
(* later node belongs the buffer still holds 0.                            *)
Packed(nodes) ==
  FlattenSeq([i \in DOMAIN nodes |->
    <<Object(IF i = 1 THEN Last(nodes).addr ELSE 0, nodes[i].objects[1].val)>>
      \o Tail(nodes[i].objects)])

Fitting(nodes) == SubSeq(nodes, 1, IF Len(nodes) < NodesPerAsdu THEN Len(nodes) ELSE NodesPerAsdu)
Left(nodes)    == SubSeq(nodes, NodesPerAsdu + 1, Len(nodes))

app_task_pack_node(nodes, garbage) ==
  [count |-> CountOf(Fitting(nodes), garbage), objects |-> Packed(Fitting(nodes))]
=============================================================================
