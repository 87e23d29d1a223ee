------------------------------- MODULE Master -------------------------------
(***************************************************************************)
(* The controlling station at the other end of the connection.  It is not  *)
(* part of the repository: this is the peer net_link.c is written for, one *)
(* that numbers its I frames, confirms what it received when it likes and  *)
(* closes the connection when a number is missing.  It may send I frames   *)
(* before its STARTDT is confirmed, which the code provides for.           *)
(***************************************************************************)
EXTENDS NetLink

CONSTANTS
  MaxI,  \* bound: I frames it sends
  MaxU,  \* bound: U frames it sends
  Sendable, \* bound: the ASDUs it sends
  MayLeave  \* whether it may end the connection without a reason

ASSUME MasterAssumption == /\ MaxI \in Nat /\ MaxU \in Nat
                           /\ Sendable \subseteq Asdus /\ MayLeave \in BOOLEAN

VARIABLES
  vs, vr,     \* I frames sent and received
  confirmed,  \* vr when it was last put in a frame
  controls    \* U frames sent

masterVars == <<vs, vr, confirmed, controls>>

MasterInit ==
  /\ vs = 0 /\ vr = 0 /\ confirmed = 0 /\ controls = 0
  /\ to_slave = <<>> /\ to_master = <<>>

MasterUnchanged == UNCHANGED <<linkVars, monitor, bufVars, appVars>>

Sends(f) == /\ sock = "open"
            /\ to_slave' = Append(to_slave, f)
            /\ UNCHANGED <<sock, to_master, vr>>
            /\ MasterUnchanged

MasterI == /\ vs < MaxI
           /\ \E a \in Sendable : Sends(net_link_pack_I_frame(vs, vr, a))
           /\ vs' = vs + 1
           /\ confirmed' = vr
           /\ UNCHANGED controls

MasterS == /\ confirmed < vr
           /\ Sends(net_link_pack_S_frame(vr))
           /\ confirmed' = vr
           /\ UNCHANGED <<vs, controls>>

MasterU == /\ controls < MaxU
           /\ \E act \in UActs : Sends(net_link_pack_U_frame(act))
           /\ controls' = controls + 1
           /\ UNCHANGED <<vs, confirmed>>

Missing == /\ to_master # <<>> /\ Head(to_master).fmt = "I"
           /\ Head(to_master).ns # vr % SeqMod

MasterGets ==
  /\ sock = "open" /\ to_master # <<>> /\ ~Missing
  /\ to_master' = Tail(to_master)
  /\ vr' = IF Head(to_master).fmt = "I" THEN vr + 1 ELSE vr
  /\ UNCHANGED <<sock, to_slave, vs, confirmed, controls>>
  /\ MasterUnchanged

MasterLeaves ==
  /\ sock = "open" /\ (Missing \/ MayLeave)
  /\ sock' = "fin"
  /\ to_master' = <<>>
  /\ UNCHANGED <<to_slave, masterVars>>
  /\ MasterUnchanged

MasterStation == MasterI \/ MasterS \/ MasterU \/ MasterGets \/ MasterLeaves
=============================================================================
