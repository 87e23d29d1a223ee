------------------------------ MODULE IecEvent ------------------------------
(***************************************************************************)
(* The events of Core/core_event.c and the mailboxes they travel in.       *)
(*                                                                         *)
(* An event is a type, a sub type and what its sub_msg says, abstracted to *)
(* a string.  Every thread of the stack owns one RT-Thread mailbox and     *)
(* waits on it for ever; every sender goes through iec_post_event, which   *)
(* calls the non-blocking rt_mb_send, ignores what it returns and reports  *)
(* success: an event posted to a full mailbox is lost.                     *)
(***************************************************************************)
EXTENDS Naturals, Sequences

Event(type, sub, msg) == [evt_type |-> type, evt_sub_type |-> sub, msg |-> msg]

\* Mutant: the sender ignores that the mailbox is full.
PostUnbounded(mb, size, evt) == Append(mb, evt)

\* The mailbox mb, holding at most size events, after an iec_post_event.
iec_post_event(mb, size, evt) == IF Len(mb) < size THEN Append(mb, evt) ELSE mb

\* iec_recv_event takes the oldest event: a mailbox is a FIFO.
FirstIs(mb, evt) == mb # <<>> /\ Head(mb) = evt
-----------------------------------------------------------------------------
Levels == {"LEVEL_1", "LEVEL_2"}
Timers == {"T0", "T1", "T2", "T3"}

\* What recv_len says of the bytes a recv() put in the receive buffer: one
\* APCI alone, one APCI with its ASDU, or several frames read together.
Lengths == {"apci", "asdu", "many"}

(* The events a network link handles (core_event.h, net_linkdef.h). *)
PhyEvt(len)     == Event("LINK_RECV_DATA", "LINK_PHY", len)
UpdateEvt(lvl)  == Event("LINK_RECV_DATA", lvl, "none")
UserAckEvt      == Event("LINK_RECV_DATA", "USER", "none")
SendAsduEvt     == Event("LINK_SEND_DATA", "USER", "none")
SendNoneEvt(lvl) == Event("LINK_SEND_DATA", lvl, "none")
TimeoutEvt(t)   == Event("IEC_TIMEOUT", t, "none")
CntFullEvt      == Event("IEC_CNT_FULL", "K_FULL", "none")
DisconnectEvt   == Event("LINK_PHY_DISCONNECT", "LINK_PHY", "none")

LinkEvents ==
  {PhyEvt(l) : l \in Lengths} \cup {UpdateEvt(l) : l \in Levels}
    \cup {SendNoneEvt(l) : l \in Levels} \cup {TimeoutEvt(t) : t \in Timers}
    \cup {UserAckEvt, SendAsduEvt, CntFullEvt, DisconnectEvt}

(* What an ASDU asks of the application: a general call (C_IC_NA), another *)
(* command it answers, or an ASDU it returns from without an answer.       *)
Asdus == {"call", "command", "rejected"}

(* The events the application handles.  NullAsduEvt is the user-data event *)
(* whose sub_msg is a null pointer.                                        *)
ReqEvt(lvl)    == Event("APP_RECV_DATA", lvl, "none")
AsduEvt(a)     == Event("APP_RECV_DATA", "USER", a)
NullAsduEvt    == Event("APP_RECV_DATA", "USER", "null")
NodeEvt(lvl)   == Event("APP_NODE_UPDATE", lvl, "none")

AppEvents ==
  {ReqEvt(l) : l \in Levels} \cup {NodeEvt(l) : l \in Levels}
    \cup {AsduEvt(a) : a \in Asdus} \cup {NullAsduEvt}
=============================================================================
