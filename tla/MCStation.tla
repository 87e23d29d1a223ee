----------------------------- MODULE MCStation -----------------------------
EXTENDS Station

Cmd(ident, addr, se, known) ==
  [asdu_ident |-> ident, cause |-> "Act", addr |-> addr, node_count |-> 1,
   known_asdu |-> known, SE |-> se, act |-> 1]

MCCommands == {Cmd(C_IC_NA, 0, EXECUTE, TRUE), Cmd(C_DC_NA, SwitchAddr, EXECUTE, TRUE),
               Cmd(C_DC_NA, BatteryAddr, EXECUTE, TRUE), Cmd(C_DC_NA, SwitchAddr, EXECUTE, FALSE)}
MCWired    == {YX_CLOSE_ADDR, YX_HAND_ADDR, YX_REMOTE_LOCK_ADDR, YX_EACTIVE_ADDR}
MCMeasured == {16385, 16386}
MCSignals  == [p \in MCWired \ {YX_CLOSE_ADDR} |-> IF p = YX_HAND_ADDR THEN 1 ELSE 0]
-----------------------------------------------------------------------------
Value == [p \in 1 .. 4 |-> 10 * p]
Singly(points, buffered) == [i \in DOMAIN points |-> NodeOf(<<points[i]>>, Value, buffered)]

(* A node is packed to an ASDU that reads back as its points, and counts   *)
(* them, whatever the points are.                                          *)
ASSUME ReadsBack ==
  \A points \in UNION {[1 .. n -> 1 .. 4] : n \in 1 .. 4}, m \in {0, 19} :
    app_task_pack_node(<<NodeOf(points, Value, 0)>>, m)
      = [count |-> Len(points), objects |-> [i \in DOMAIN points |-> Object(points[i], Value[points[i]])]]

(* Buffered nodes of one task are counted, up to as many as fit, and the   *)
(* rest stays; but of their addresses only the last is sent, with the      *)
(* first value.                                                            *)
ASSUME OneAddressForAll ==
  \A points \in UNION {[1 .. n -> 1 .. 4] : n \in 1 .. 4} :
    LET sent == SubSeq(points, 1, IF Len(points) < NodesPerAsdu THEN Len(points) ELSE NodesPerAsdu)
        f    == app_task_pack_node(Singly(points, 1), 0)
    IN  /\ f.count = Len(sent) /\ Len(f.objects) = Len(sent)
        /\ Left(Singly(points, 1)) = Singly(SubSeq(points, Len(sent) + 1, Len(points)), 1)
        /\ f.objects[1] = Object(Last(sent), Value[sent[1]])
        /\ \A i \in 2 .. Len(sent) : f.objects[i] = Object(0, Value[sent[i]])

(* A node added to a list of tasks is in exactly one task of its name, and *)
(* the other tasks stay as they were and in their order.                   *)
ListOf(names) == [i \in DOMAIN names |->
  [link_id |-> 1, asdu_ident |-> names[i][1], cause |-> "Spont",
   nodes |-> <<NodeOf(<<names[i][2]>>, Value, 0)>>]]

ASSUME AddDisturbsNoOther ==
  \A names \in UNION {[1 .. n -> (1 .. 2) \X (1 .. 2)] : n \in 0 .. 3}, b \in 0 .. 1,
     ident, point \in 1 .. 2 :
    LET node == NodeOf(<<point>>, Value, b)
        al   == ListOf(names)
        new  == app_task_add_normal(al, 1, ident, "Spont", node)
        i    == Place(al, <<1, ident, "Spont">>, node)
    IN  /\ Len(new) \in {Len(al), Len(al) + 1} /\ i \in DOMAIN new
        /\ Holds(new[i], point) /\ Name(new[i]) = <<1, ident, "Spont">>
        /\ \A j \in DOMAIN al \ {i} : new[j] = al[j]
=============================================================================
