------------------------------- MODULE NetLink -------------------------------
(***************************************************************************)
(* The IEC 60870-5-104 link of Layer/Link/net_link.c: the link thread with *)
(* its APCI counters, and the time monitor thread that counts T0 .. T3.    *)
(*                                                                         *)
(* One action is one event handled by the link thread, or one of the two   *)
(* halves of a monitor round (count under time_mtx, then compare without   *)
(* it).  The link thread can lose the processor inside a handler where it  *)
(* calls obj.write; that matters in one place, between the write and the   *)
(* copy of the ASDU at net_link.c:418-428, and there the handler is two    *)
(* actions.                                                                *)
(***************************************************************************)
EXTENDS IecEvent, Integers, FiniteSets

CONSTANTS
  K,         \* CFG_IEC104_K: I frames that may stand unconfirmed
  W,         \* FRAME_COUNT_W: I frames received before an S frame is due
  Limit,     \* CFG_IEC104_T0 .. T3, by timer
  SeqMod,    \* 2^15: what the fields sent_num and recv_num hold
  DelayMod,  \* 2^8: t0_delay .. t3_delay are unsigned char
  NetMb,     \* slots of the link's mailbox
  AppMb      \* slots of the application's mailbox

ASSUME WindowAssumption == K \in Nat \ {0} /\ W \in Nat \ {0}
ASSUME WidthAssumption  == SeqMod \in Nat \ {0} /\ DelayMod \in Nat \ {0}
ASSUME LimitAssumption  == Limit \in [Timers -> Nat \ {0}]
ASSUME MailboxAssumption == NetMb \in Nat \ {0} /\ AppMb \in Nat \ {0}

VARIABLES
  link,              \* the thread: "ready", "copy" (inside a handler), "deleted"
  netmb,             \* obj.mb_event
  active,            \* obj.active
  data_trans_active, \* obj.data_trans_active, set by the application
  current_k, current_w,
  recv_counter, sent_counter,
  timer,             \* t0_start/t0_delay .. t3_start/t3_delay
  monitor,           \* the monitor thread: "sleep" or "compare"
  temp_buff,         \* the frame at the start of the shared receive buffer
  temp_asdu,         \* the bytes behind its APCI, by the I frame they came in
  close_sem,         \* socket_close_sem: 1 when released at least once
  sock,              \* the connection: "open", "fin" (peer left), "closed"
  to_slave, to_master, \* frames under way in the two directions of the stream
  appmb,             \* app_event, the application's mailbox
  first_task,        \* ASDUs that wait in first_task and second_task, by level
  acked,             \* history: sent_counter when an S frame was last accepted
  wire_ack,          \* history: recv_counter when it was last put on the wire
  delivered          \* history: the ASDUs handed over to the application

apciVars  == <<active, current_k, current_w, recv_counter, sent_counter>>
linkVars  == <<link, netmb, data_trans_active, apciVars, timer, close_sem,
               acked, wire_ack, delivered>>
bufVars   == <<temp_buff, temp_asdu>>
wireVars  == <<sock, to_slave, to_master>>
appVars   == <<appmb, first_task>>
-----------------------------------------------------------------------------
(* Frames (net_linkdef.h).  The counters on the wire are 15 bits wide. *)
UActs == {"STARTDT", "STOPDT", "TESTFR"}
Frame(fmt, ns, nr, body) == [fmt |-> fmt, ns |-> ns, nr |-> nr, body |-> body]

net_link_pack_I_frame(ns, nr, asdu) == Frame("I", ns % SeqMod, nr % SeqMod, asdu)
net_link_pack_S_frame(nr)           == Frame("S", 0, nr % SeqMod, "none")
\* A confirmation of each activation bit received.
net_link_pack_U_frame(act)          == Frame("U", 0, 0, act)

Numbers == 0 .. SeqMod - 1
Frames  == [fmt : {"I", "S", "U"}, ns : Numbers, nr : Numbers,
            body : Asdus \cup UActs \cup {"none", "data"}]
\* The frames of the master: its I frames carry one of its ASDUs.
SlaveFrames == {f \in Frames : (f.fmt = "I") => (f.body \in Asdus)}

LenOf(f) == IF f.fmt = "I" THEN "asdu" ELSE "apci"
\* The bytes behind the APCI once they hold a piece of some later frame.
Garbage == [ns |-> SeqMod, body |-> "rejected"]
AsduAreas == [ns : 0 .. SeqMod, body : Asdus]
-----------------------------------------------------------------------------
(* Timers.  net_link_time_enable(t, 0) is always followed by a call of the *)
(* timer's counter, which clears the delay of a timer that is not started. *)
Clock(s, d) == [start |-> s, delay |-> d]
Idle == Clock(0, 0)

\* Mutant: the delay is cleared and the timer left running.
StopDelayOnly(tm, t) == [tm EXCEPT ![t] = Clock(tm[t].start, 0)]
Stop(tm, t) == [tm EXCEPT ![t] = Idle]

\* Mutant: the timer is not started again.
StartForgotten(tm, t) == tm
Start(tm, t) == [tm EXCEPT ![t] = Clock(1, tm[t].delay)]

\* net_link_time0_counter .. net_link_time3_counter: an unsigned char wraps.
Counted(c) == Clock(c.start, IF c.start = 1 THEN (c.delay + 1) % DelayMod ELSE 0)

Overdue(t) == timer[t].delay >= Limit[t]
\* The else-if chain: the first timer that is overdue hides the others.
Due(t) == /\ Overdue(t)
          /\ (t = "T1") => ~Overdue("T0")
          /\ (t = "T2") => ~Overdue("T0") /\ ~Overdue("T1")
          /\ (t = "T3") => ~Overdue("T0") /\ ~Overdue("T1") /\ ~Overdue("T2")
-----------------------------------------------------------------------------
PostNet(mb, evt) == IF link = "deleted" THEN mb ELSE iec_post_event(mb, NetMb, evt)
PostApp(mb, evt) == iec_post_event(mb, AppMb, evt)

Handles(evt) == link = "ready" /\ FirstIs(netmb, evt)
Took         == netmb' = Tail(netmb)
\* obj.write on the socket: what is written after the connection ended is gone.
Write(fs)    == to_master' = IF sock = "open" THEN to_master \o fs ELSE to_master

(* net_link_base_check: the length octet of the frame now in the buffer     *)
(* against the length this event was posted with.                          *)
net_link_base_check(len) == LenOf(temp_buff) = len

\* Mutants: the check left out; an earlier number taken for this one.
CheckForgotten(counter, number) == TRUE
CheckNotLater(counter, number)  == number <= counter

\* net_link_counter_check compares all 32 bits of the counter.
net_link_counter_check(counter, number) == counter = number

\* Mutant: one frame too many.
HasRoomOffByOne == current_k <= K

\* The test of net_link_send_evt_handle.
HasRoom == current_k < K

\* Mutant: the count of the window stays.
WindowForgotten == current_w

\* current_w++
WithThisFrame == current_w + 1

InitTimers == [t \in Timers |-> Idle]

NetLinkInit ==
  /\ link = "ready" /\ netmb = <<>>
  /\ active = 0 /\ data_trans_active = 0
  /\ current_k = 0 /\ current_w = 0 /\ recv_counter = 0 /\ sent_counter = 0
  /\ timer = InitTimers /\ monitor = "sleep"
  /\ close_sem = 0
  /\ acked = 0 /\ wire_ack = 0 /\ delivered = <<>>
-----------------------------------------------------------------------------
(***************************************************************************)
(* A frame received: net_link_check_phy_data, net_link_phy_recv_dispatch.  *)
(* The event only names the shared buffer, so what is handled is whatever  *)
(* the buffer holds now.                                                   *)
(***************************************************************************)
GotFrame(fmt) == /\ \E len \in Lengths : /\ Handles(PhyEvt(len))
                                        /\ net_link_base_check(len)
                 /\ temp_buff.fmt = fmt

\* What the dispatch of any frame leaves alone.
RecvUnchanged == UNCHANGED <<data_trans_active, monitor, bufVars, sock, to_slave, first_task>>

(* A length that does not fit, or an I frame or an S frame out of step: the *)
(* handler returns before it has done anything.                            *)
BadLength == \E len \in Lengths : Handles(PhyEvt(len)) /\ ~net_link_base_check(len)
BadCount  == \/ GotFrame("I") /\ ~net_link_counter_check(recv_counter, temp_buff.ns)
             \/ GotFrame("S") /\ ~net_link_counter_check(sent_counter, temp_buff.nr)

DropFrame ==
  /\ BadLength \/ BadCount
  /\ Took
  /\ UNCHANGED <<link, apciVars, timer, close_sem, to_master, appmb, acked, wire_ack, delivered>>
  /\ RecvUnchanged

InStepIFrame == GotFrame("I") /\ net_link_counter_check(recv_counter, temp_buff.ns)

\* rt_memcpy of the ASDU and link_send_asdu_evt_to_app, for frame number n.
HandOver(n, late) ==
  /\ delivered' = Append(delivered, [frame |-> n, got |-> temp_asdu.ns, late |-> late])
  /\ appmb' = PostApp(appmb, AsduEvt(temp_asdu.body))

(* On a link that is not started an I frame is counted and nothing else. *)
IFrameInactive ==
  /\ InStepIFrame /\ active = 0
  /\ Took
  /\ recv_counter' = recv_counter + 1
  /\ UNCHANGED <<link, active, current_k, current_w, sent_counter, timer, close_sem,
                 to_master, appmb, acked, wire_ack, delivered>>
  /\ RecvUnchanged

IFrameActive ==
  /\ InStepIFrame /\ active = 1 /\ WithThisFrame # W
  /\ Took
  /\ recv_counter' = recv_counter + 1
  /\ current_w' = WithThisFrame
  /\ timer' = Start(Stop(timer, "T2"), "T2")
  /\ HandOver(recv_counter, FALSE)
  /\ UNCHANGED <<link, active, current_k, sent_counter, close_sem, to_master, acked, wire_ack>>
  /\ RecvUnchanged

(* The frame that fills the window is acknowledged first and copied after. *)
IFrameFillsWindow ==
  /\ InStepIFrame /\ active = 1 /\ WithThisFrame = W
  /\ Took
  /\ recv_counter' = recv_counter + 1
  /\ current_w' = 0
  /\ timer' = Stop(timer, "T2")
  /\ Write(<<net_link_pack_S_frame(recv_counter + 1)>>)
  /\ wire_ack' = recv_counter + 1
  /\ link' = "copy"
  /\ UNCHANGED <<active, current_k, sent_counter, close_sem, appmb, acked, delivered>>
  /\ RecvUnchanged

CopyAfterWrite ==
  /\ link = "copy"
  /\ HandOver(recv_counter - 1, TRUE)
  /\ link' = "ready"
  /\ UNCHANGED <<netmb, apciVars, timer, close_sem, to_master, acked, wire_ack>>
  /\ RecvUnchanged

UFrame ==
  /\ GotFrame("U")
  /\ Took
  /\ active' = CASE temp_buff.body = "STARTDT" -> 1
                 [] temp_buff.body = "STOPDT"  -> 0
                 [] OTHER -> active
  /\ timer' = Stop(timer, "T1")
  /\ Write(<<net_link_pack_U_frame(temp_buff.body)>>)
  /\ UNCHANGED <<link, current_k, current_w, recv_counter, sent_counter, close_sem, appmb,
                 acked, wire_ack, delivered>>
  /\ RecvUnchanged

SFrame ==
  /\ GotFrame("S") /\ net_link_counter_check(sent_counter, temp_buff.nr)
  /\ Took
  /\ current_k' = 0
  /\ acked' = sent_counter
  /\ timer' = Stop(timer, "T1")
  /\ UNCHANGED <<link, active, current_w, recv_counter, sent_counter, close_sem, to_master,
                 appmb, wire_ack, delivered>>
  /\ RecvUnchanged
-----------------------------------------------------------------------------
(* Events of the application: net_link_app_recv_dispatch. *)
AppNotifies(evt, may, request) ==
  /\ Handles(evt)
  /\ Took
  /\ appmb' = IF may THEN PostApp(appmb, request) ELSE appmb
  /\ UNCHANGED <<link, data_trans_active, apciVars, timer, monitor, close_sem, bufVars,
                 wireVars, first_task, acked, wire_ack, delivered>>

(* It answered user data: on a started link, ask for level 1 data. *)
UserAck == AppNotifies(UserAckEvt, active = 1, ReqEvt("LEVEL_1"))

(* It has data of a level: ask for it once a general call was received. *)
Update == \E lvl \in Levels : AppNotifies(UpdateEvt(lvl), data_trans_active = 1, ReqEvt(lvl))
-----------------------------------------------------------------------------
(* net_link_send_evt_handle, in its two cases: an ASDU (of which it first  *)
(* asks for a successor) and the event that says there is none, for which  *)
(* zero bytes are written and the same counters move.                      *)
AsksForMore == PostApp(appmb, NullAsduEvt)
SendBuff    == net_link_pack_I_frame(sent_counter, recv_counter, "data")

SendUnchanged == UNCHANGED <<link, active, data_trans_active, current_w, recv_counter, monitor,
                             close_sem, bufVars, sock, to_slave, first_task, acked, delivered>>

\* net_link_counter_add(net_link, 2), current_k++ and T1.
CountSent(tm) == /\ timer' = Start(tm, "T1")
                 /\ sent_counter' = sent_counter + 1
                 /\ current_k' = current_k + 1
                 /\ Took

\* net_link_send_cnt_full: an event of the link to itself.
SignalFull == /\ netmb' = iec_post_event(Tail(netmb), NetMb, CntFullEvt)
              /\ UNCHANGED <<sent_counter, current_k, to_master, wire_ack>>

SendAsdu ==
  /\ Handles(SendAsduEvt)
  /\ appmb' = IF first_task["LEVEL_1"] > 0 THEN AsksForMore ELSE appmb
  /\ \/ /\ HasRoom
        /\ CountSent(Stop(timer, "T1"))
        /\ Write(<<SendBuff>>)
        /\ wire_ack' = recv_counter
     \/ /\ ~HasRoom
        /\ SignalFull
        /\ timer' = Stop(timer, "T1")
  /\ SendUnchanged

SendNone ==
  /\ \E lvl \in Levels : Handles(SendNoneEvt(lvl))
  /\ \/ HasRoom  /\ CountSent(timer) /\ UNCHANGED <<to_master, wire_ack>>
     \/ ~HasRoom /\ SignalFull /\ UNCHANGED timer
  /\ UNCHANGED appmb
  /\ SendUnchanged
-----------------------------------------------------------------------------
(* Timeouts, the full window and the end of the connection.  T3 answers    *)
(* with the frame net_link_pack_U_frame makes of TESTFR act.               *)
HandledUnchanged == UNCHANGED <<active, data_trans_active, current_k, recv_counter, sent_counter,
                                monitor, bufVars, sock, to_slave, appmb, acked, delivered>>

\* Mutant: the semaphore is not released.
CloseForgotten == UNCHANGED close_sem

\* net_link_notify_close: rt_sem_release.
net_link_notify_close == close_sem' = 1

Timeout(t) ==
  /\ Handles(TimeoutEvt(t))
  /\ Took
  /\ IF t = "T1" THEN net_link_notify_close ELSE UNCHANGED close_sem
  /\ IF t = "T2" THEN /\ timer' = Stop(timer, "T2")
                      /\ current_w' = 0
                      /\ wire_ack' = recv_counter
                 ELSE UNCHANGED <<timer, current_w, wire_ack>>
  /\ Write(CASE t = "T2" -> <<net_link_pack_S_frame(recv_counter)>>
             [] t = "T3" -> <<net_link_pack_U_frame("TESTFR")>>
             [] OTHER -> <<>>)
  /\ UNCHANGED <<link, first_task>>
  /\ HandledUnchanged

CntFull ==
  /\ Handles(CntFullEvt)
  /\ Took
  /\ net_link_notify_close
  /\ UNCHANGED <<link, current_w, timer, to_master, wire_ack, first_task>>
  /\ HandledUnchanged

(* net_link_del: the application forgets the link, the monitor thread and  *)
(* the mailbox go, and the thread deletes itself.                          *)
Disconnect ==
  /\ Handles(DisconnectEvt)
  /\ link' = "deleted" /\ active' = 0 /\ netmb' = <<>>
  /\ UNCHANGED <<data_trans_active, current_k, current_w, recv_counter, sent_counter, timer,
                 monitor, close_sem, bufVars, wireVars, appVars, acked, wire_ack, delivered>>
-----------------------------------------------------------------------------
(* net_link_time_monitor, once a second while the link lives. *)
MonitorUnchanged == UNCHANGED <<link, data_trans_active, apciVars, close_sem, bufVars, wireVars,
                                appVars, acked, wire_ack, delivered>>

MonitorCount ==
  /\ link # "deleted" /\ monitor = "sleep"
  /\ timer' = [t \in Timers |-> Counted(timer[t])]
  /\ monitor' = "compare"
  /\ UNCHANGED netmb
  /\ MonitorUnchanged

MonitorCompare ==
  /\ link # "deleted" /\ monitor = "compare"
  /\ monitor' = "sleep"
  /\ netmb' = IF \E t \in Timers : Due(t)
                THEN PostNet(netmb, TimeoutEvt(CHOOSE t \in Timers : Due(t)))
                ELSE netmb
  /\ UNCHANGED timer
  /\ MonitorUnchanged

LinkThread ==
  \/ DropFrame \/ IFrameInactive \/ IFrameActive \/ IFrameFillsWindow \/ CopyAfterWrite
  \/ UFrame \/ SFrame \/ UserAck \/ Update \/ SendAsdu \/ SendNone
  \/ (\E t \in Timers : Timeout(t)) \/ CntFull \/ Disconnect

MonitorThread == MonitorCount \/ MonitorCompare
=============================================================================
