----------------------------- MODULE NetSession -----------------------------
(***************************************************************************)
(* One IEC 104 connection: the link thread and its time monitor, the       *)
(* socket's receive thread, the application thread and the master.         *)
(***************************************************************************)
EXTENDS SocketRecv, AppView, Master

vars == <<linkVars, monitor, bufVars, wireVars, appVars, rxVars, updates, masterVars>>

Init == NetLinkInit /\ SocketRecvInit /\ AppViewInit /\ MasterInit

LinkStep    == LinkThread /\ UNCHANGED <<rxVars, updates, masterVars>>
MonitorStep == MonitorThread /\ UNCHANGED <<rxVars, updates, masterVars>>
RecvStep    == RecvThread /\ UNCHANGED <<updates, masterVars>>
AppStep     == AppThread /\ UNCHANGED <<rxVars, masterVars>>
DeviceStep  == Device /\ UNCHANGED <<rxVars, masterVars>>
MasterStep  == MasterStation /\ UNCHANGED <<rxVars, updates>>

Next == LinkStep \/ MonitorStep \/ RecvStep \/ AppStep \/ DeviceStep \/ MasterStep

Spec == Init /\ [][Next]_vars

(* The four threads of the station wait only on their mailbox, a clock or a *)
(* time limit, and the scheduler runs every ready thread.  The master and   *)
(* the device owe nothing.                                                  *)
Fairness == WF_vars(LinkStep) /\ WF_vars(MonitorStep) /\ WF_vars(RecvStep) /\ WF_vars(AppStep)
FairSpec == Spec /\ Fairness
-----------------------------------------------------------------------------
(* The parts of the type invariant, by what owns the variables. *)
ThreadType ==
  /\ link \in {"ready", "copy", "deleted"} /\ monitor \in {"sleep", "compare"}
  /\ rx \in {"take", "recv", "post", "err", "close", "gone"} /\ recv_len \in Lengths
  /\ close_sem \in 0 .. 1 /\ sock \in {"open", "fin", "closed"}

MailboxType ==
  /\ netmb \in Seq(LinkEvents) /\ Len(netmb) <= NetMb
  /\ appmb \in Seq(AppEvents) /\ Len(appmb) <= AppMb

CounterType ==
  /\ active \in 0 .. 1 /\ data_trans_active \in 0 .. 1
  /\ current_k \in 0 .. K /\ current_w \in 0 .. W - 1
  /\ recv_counter \in Nat /\ sent_counter \in Nat
  /\ (link = "copy") => (recv_counter > 0)
  /\ acked \in Nat /\ wire_ack \in Nat

TimerType == timer \in [Timers -> [start : 0 .. 1, delay : 0 .. DelayMod - 1]]

StreamType ==
  /\ to_slave \in Seq(SlaveFrames) /\ to_master \in Seq(Frames)
  /\ temp_buff \in SlaveFrames /\ temp_asdu \in AsduAreas
  /\ delivered \in Seq([frame : Nat, got : 0 .. SeqMod, late : BOOLEAN])

OthersType ==
  /\ first_task \in [Levels -> Nat] /\ updates \in 0 .. MaxUpdates
  /\ vs \in 0 .. MaxI /\ vr \in Nat /\ confirmed \in Nat /\ controls \in 0 .. MaxU

(* Every variable keeps its type: the mailboxes of both threads never hold  *)
(* more than their slots, and k and w never leave their windows.            *)
TypeOK == /\ ThreadType /\ MailboxType /\ CounterType
          /\ TimerType /\ StreamType /\ OthersType

(* T2 runs exactly while I frames wait for their acknowledgement, whatever *)
(* the order of timeouts, frames and stale timeout events.                 *)
ReceiveBacklogTimed == (timer["T2"].start = 1) <=> (current_w > 0)

(* current_k counts the I-frame numbers used since the last S frame that   *)
(* the link accepted, and T1 never runs with nothing to confirm.           *)
SendWindow == /\ current_k = sent_counter - acked
              /\ (timer["T1"].start = 1) => (current_k > 0)

(* The link never takes for confirmed what the master has not received,    *)
(* although S frames cross I frames and the buffer they come in is shared. *)
ConfirmedWasReceived == acked <= vr

(* The ASDUs the application was given and no frame has confirmed yet are   *)
(* the current_w the link counts: none is forgotten.                       *)
BacklogCounted ==
  Cardinality({i \in DOMAIN delivered : delivered[i].frame >= wire_ack}) <= current_w

(* However often the receive thread overwrites the buffer under an event    *)
(* that waits, an ASDU handed over without a write in between belongs to    *)
(* the frame that was counted, and no frame is handed over twice.          *)
DeliveredAsCounted ==
  \A i \in DOMAIN delivered : /\ ~delivered[i].late => (delivered[i].got = delivered[i].frame)
                              /\ \A j \in 1 .. i - 1 : delivered[j].frame < delivered[i].frame
-----------------------------------------------------------------------------
\* The receive thread has left its loop and takes the connection down.
Ending == rx \in {"err", "close", "gone"}

(* I frames received are acknowledged in the end, by the window or by T2,  *)
(* even where T1 overdue hides T2 and a full mailbox swallows a timeout,   *)
(* or the connection is taken down.                                        *)
ReceivedIsAcknowledged == (current_w > 0) ~> (current_w = 0 \/ Ending)

(* A T1 that keeps running gets the connection closed. *)
ExpiryCloses ==
  (timer["T1"].start = 1) ~> (timer["T1"].start = 0 \/ close_sem = 1 \/ Ending)

(* A close that the link asked for is carried out by the receive thread. *)
CloseRequestCloses == (close_sem = 1) ~> (sock = "closed")
-----------------------------------------------------------------------------
(* The connection implements the numbering of Apci: the master is the peer. *)
Promise == INSTANCE Apci WITH
  sent <- sent_counter, confirmed <- acked, received <- recv_counter,
  acknowledged <- wire_ack, peer <- vr

ImplementsApci == Promise!Spec
-----------------------------------------------------------------------------
(***************************************************************************)
(* What comments of the source say of the same code.                       *)
(***************************************************************************)

(* net_link.c:83 calls recv_counter and sent_counter the counts of the data *)
(* frames received and sent: the I frames the master has got or has under   *)
(* way are as many as sent_counter says.                                    *)
DataFramesCounted ==
  (sock = "open") =>
    sent_counter = vr + Cardinality({i \in DOMAIN to_master : to_master[i].fmt = "I"})

(* core_cfg.h:94 calls T1 the time to wait, after sending, for the data     *)
(* sent to be confirmed: it runs while I frames are unconfirmed.            *)
UnconfirmedIsTimed == (current_k > 0) => (timer["T1"].start = 1)

(* layer.c:19-22: the event sends the application the buffer address of the *)
(* ASDU received: the one of the frame that was checked and counted.        *)
HandedOverIsReceived ==
  \A i \in DOMAIN delivered : delivered[i].got = delivered[i].frame

(* net_link.c:583: after the socket is closed the event follows that the    *)
(* connection is gone, and with it the link is deleted.                     *)
ClosedSocketDeletesLink == (sock = "closed") ~> (link = "deleted")
=============================================================================
