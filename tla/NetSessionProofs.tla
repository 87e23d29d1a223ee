-------------------------- MODULE NetSessionProofs --------------------------
(***************************************************************************)
(* Proofs about NetSession, for every window size, mailbox size, timer     *)
(* limit and number width the assumptions of the modules admit.            *)
(***************************************************************************)
EXTENDS NetSession, SequenceTheorems, TLAPS

USE WindowAssumption, WidthAssumption, LimitAssumption, MailboxAssumption,
    AppViewAssumption, MasterAssumption
-----------------------------------------------------------------------------
(* A post keeps a mailbox a mailbox: of events, and within its slots. *)
LEMMA PostKeeps ==
  ASSUME NEW S, NEW mb \in Seq(S), NEW size \in Nat, Len(mb) <= size, NEW evt \in S
  PROVE  /\ iec_post_event(mb, size, evt) \in Seq(S)
         /\ Len(iec_post_event(mb, size, evt)) <= size
BY DEF iec_post_event

(* So does taking the oldest event. *)
LEMMA TailKeeps ==
  ASSUME NEW S, NEW mb \in Seq(S), mb # <<>>
  PROVE  Tail(mb) \in Seq(S) /\ Len(Tail(mb)) = Len(mb) - 1
OBVIOUS

(* The events every sender posts are events of the link, or the application. *)
LEMMA EventTypes ==
  /\ \A len \in Lengths : PhyEvt(len) \in LinkEvents
  /\ \A lvl \in Levels : UpdateEvt(lvl) \in LinkEvents /\ SendNoneEvt(lvl) \in LinkEvents
  /\ \A t \in Timers : TimeoutEvt(t) \in LinkEvents
  /\ UserAckEvt \in LinkEvents /\ SendAsduEvt \in LinkEvents
  /\ CntFullEvt \in LinkEvents /\ DisconnectEvt \in LinkEvents
  /\ \A lvl \in Levels : ReqEvt(lvl) \in AppEvents /\ NodeEvt(lvl) \in AppEvents
  /\ \A a \in Asdus : AsduEvt(a) \in AppEvents
  /\ NullAsduEvt \in AppEvents
BY DEF LinkEvents, AppEvents

(* Stopping, starting and counting a timer keep the type of the timers. *)
TimerSet == [Timers -> [start : 0 .. 1, delay : 0 .. DelayMod - 1]]

LEMMA ClockType ==
  ASSUME NEW s \in 0 .. 1, NEW d \in 0 .. DelayMod - 1
  PROVE  Clock(s, d) \in [start : 0 .. 1, delay : 0 .. DelayMod - 1]
BY DEF Clock

LEMMA TimerKeeps ==
  ASSUME NEW tm \in TimerSet
  PROVE  /\ \A t \in Timers : Stop(tm, t) \in TimerSet /\ Start(tm, t) \in TimerSet
         /\ [t \in Timers |-> Counted(tm[t])] \in TimerSet
<1>1. \A t \in Timers : Stop(tm, t) \in TimerSet
  BY ClockType DEF TimerSet, Stop, Idle
<1>2. \A t \in Timers : Start(tm, t) \in TimerSet
  BY ClockType DEF TimerSet, Start
<1>3. ASSUME NEW t \in Timers PROVE Counted(tm[t]) \in [start : 0 .. 1, delay : 0 .. DelayMod - 1]
  <2>1. (tm[t].delay + 1) % DelayMod \in 0 .. DelayMod - 1
    BY DEF TimerSet
  <2> QED BY <2>1, ClockType DEF TimerSet, Counted
<1> QED BY <1>1, <1>2, <1>3 DEF TimerSet

LEMMA FrameTypes ==
  ASSUME NEW n \in Nat, NEW m \in Nat
  PROVE  /\ \A a \in Asdus : net_link_pack_I_frame(n, m, a) \in SlaveFrames
         /\ net_link_pack_I_frame(n, m, "data") \in Frames
         /\ net_link_pack_S_frame(n) \in SlaveFrames
         /\ \A u \in Asdus \cup UActs \cup {"none", "data"} :
              net_link_pack_U_frame(u) \in SlaveFrames
         /\ SlaveFrames \subseteq Frames
<1>1. n % SeqMod \in Numbers /\ m % SeqMod \in Numbers /\ 0 \in Numbers
  BY DEF Numbers
<1> QED
  BY <1>1 DEF net_link_pack_I_frame, net_link_pack_S_frame, net_link_pack_U_frame, Frame,
              Frames, SlaveFrames
-----------------------------------------------------------------------------
USE DEF vars, linkVars, apciVars, bufVars, wireVars, appVars, rxVars, masterVars,
        RecvUnchanged, SendUnchanged, HandledUnchanged, MonitorUnchanged, RxUnchanged,
        AppUnchanged, MasterUnchanged

(* Taking an event and posting one keep both mailboxes. *)
LEMMA MailboxKeeps ==
  ASSUME MailboxType
  PROVE  /\ \A evt : Handles(evt) => Tail(netmb) \in Seq(LinkEvents) /\ Len(Tail(netmb)) <= NetMb
         /\ \A evt : AppTakes(evt) => Tail(appmb) \in Seq(AppEvents) /\ Len(Tail(appmb)) <= AppMb
         /\ \A evt \in LinkEvents : /\ PostNet(netmb, evt) \in Seq(LinkEvents)
                                    /\ Len(PostNet(netmb, evt)) <= NetMb
         /\ \A evt \in AppEvents : /\ PostApp(appmb, evt) \in Seq(AppEvents)
                                   /\ Len(PostApp(appmb, evt)) <= AppMb
<1>1. ASSUME NEW evt, Handles(evt)
      PROVE  Tail(netmb) \in Seq(LinkEvents) /\ Len(Tail(netmb)) <= NetMb
  BY <1>1, TailKeeps DEF Handles, FirstIs, MailboxType
<1>2. ASSUME NEW evt, AppTakes(evt)
      PROVE  Tail(appmb) \in Seq(AppEvents) /\ Len(Tail(appmb)) <= AppMb
  BY <1>2, TailKeeps DEF AppTakes, FirstIs, MailboxType
<1>3. \A evt \in LinkEvents : PostNet(netmb, evt) \in Seq(LinkEvents) /\ Len(PostNet(netmb, evt)) <= NetMb
  BY PostKeeps DEF PostNet, MailboxType
<1>4. \A evt \in AppEvents : PostApp(appmb, evt) \in Seq(AppEvents) /\ Len(PostApp(appmb, evt)) <= AppMb
  BY PostKeeps DEF PostApp, MailboxType
<1> QED BY <1>1, <1>2, <1>3, <1>4

(* The event of a full window replaces the one that was handled. *)
LEMMA SignalKeeps ==
  ASSUME MailboxType, NEW evt, Handles(evt)
  PROVE  /\ iec_post_event(Tail(netmb), NetMb, CntFullEvt) \in Seq(LinkEvents)
         /\ Len(iec_post_event(Tail(netmb), NetMb, CntFullEvt)) <= NetMb
<1>1. Tail(netmb) \in Seq(LinkEvents) /\ Len(Tail(netmb)) <= NetMb
  BY MailboxKeeps
<1>2. CntFullEvt \in LinkEvents /\ NetMb \in Nat
  BY EventTypes
<1> QED BY ONLY <1>1, <1>2, PostKeeps

(* The outgoing stream stays one of frames, whether the frame was sent or lost. *)
LEMMA WriteKeeps ==
  ASSUME to_master \in Seq(Frames), NEW f \in Frames, Write(<<f>>)
  PROVE  to_master' \in Seq(Frames)
BY DEF Write

LEMMA WritesKeep ==
  ASSUME to_master \in Seq(Frames), NEW fs \in Seq(Frames), Write(fs)
  PROVE  to_master' \in Seq(Frames)
BY DEF Write

(* What is handed over is an ASDU of a frame, counted or found in the buffer. *)
LEMMA HandOverKeeps ==
  ASSUME StreamType, NEW n \in Nat, NEW late \in BOOLEAN, HandOver(n, late)
  PROVE  /\ delivered' \in Seq([frame : Nat, got : 0 .. SeqMod, late : BOOLEAN])
         /\ AsduEvt(temp_asdu.body) \in AppEvents
BY EventTypes DEF StreamType, HandOver, AsduAreas

LEMMA LinkKeepsType == TypeOK /\ LinkStep => TypeOK'
<1> SUFFICES ASSUME TypeOK, LinkStep PROVE TypeOK'
  OBVIOUS
<1> USE DEF TypeOK
<1>1. CASE DropFrame
  <2>1. ThreadType' BY <1>1 DEF DropFrame, GotFrame, BadLength, BadCount, Took, ThreadType, LinkStep
  <2>2. MailboxType'
    BY <1>1, MailboxKeeps, EventTypes, PostKeeps DEF DropFrame, GotFrame, BadLength, BadCount, Took, MailboxType
  <2>3. CounterType' BY <1>1 DEF DropFrame, GotFrame, BadLength, BadCount, Took, CounterType
  <2>4. TimerType' BY <1>1, TimerKeeps DEF DropFrame, GotFrame, BadLength, BadCount, Took, TimerType, TimerSet, Timers
  <2>5. StreamType' BY <1>1 DEF DropFrame, GotFrame, BadLength, BadCount, Took, StreamType
  <2>6. OthersType' BY <1>1 DEF DropFrame, GotFrame, BadLength, BadCount, Took, OthersType, LinkStep
  <2> QED BY <2>1, <2>2, <2>3, <2>4, <2>5, <2>6
<1>2. CASE IFrameInactive
  <2>1. ThreadType' BY <1>2 DEF IFrameInactive, InStepIFrame, GotFrame, Took, ThreadType, LinkStep
  <2>2. MailboxType'
    BY <1>2, MailboxKeeps, EventTypes, PostKeeps DEF IFrameInactive, InStepIFrame, GotFrame, Took, MailboxType
  <2>3. CounterType' BY <1>2 DEF IFrameInactive, InStepIFrame, GotFrame, Took, CounterType
  <2>4. TimerType' BY <1>2, TimerKeeps DEF IFrameInactive, InStepIFrame, GotFrame, Took, TimerType, TimerSet, Timers
  <2>5. StreamType' BY <1>2 DEF IFrameInactive, InStepIFrame, GotFrame, Took, StreamType
  <2>6. OthersType' BY <1>2 DEF IFrameInactive, InStepIFrame, GotFrame, Took, OthersType, LinkStep
  <2> QED BY <2>1, <2>2, <2>3, <2>4, <2>5, <2>6
<1>3. CASE IFrameActive
  <2>1. ThreadType' BY <1>3 DEF IFrameActive, InStepIFrame, GotFrame, Took, WithThisFrame, ThreadType, LinkStep
  <2>h. /\ delivered' \in Seq([frame : Nat, got : 0 .. SeqMod, late : BOOLEAN])
        /\ AsduEvt(temp_asdu.body) \in AppEvents
    BY <1>3, HandOverKeeps DEF IFrameActive, CounterType
  <2>2. MailboxType'
    BY <1>3, <2>h, MailboxKeeps DEF IFrameActive, InStepIFrame, GotFrame, Took, WithThisFrame, HandOver, MailboxType
  <2>3. CounterType' BY <1>3 DEF IFrameActive, InStepIFrame, GotFrame, Took, WithThisFrame, HandOver, CounterType
  <2>4. TimerType' BY <1>3, TimerKeeps DEF IFrameActive, InStepIFrame, GotFrame, Took, WithThisFrame, TimerType, TimerSet, Timers
  <2>5. StreamType' BY <1>3, <2>h DEF IFrameActive, InStepIFrame, GotFrame, Took, WithThisFrame, StreamType
  <2>6. OthersType' BY <1>3 DEF IFrameActive, InStepIFrame, GotFrame, Took, WithThisFrame, OthersType, LinkStep
  <2> QED BY <2>1, <2>2, <2>3, <2>4, <2>5, <2>6
<1>4. CASE IFrameFillsWindow
  <2>1. ThreadType' BY <1>4 DEF IFrameFillsWindow, InStepIFrame, GotFrame, Took, ThreadType, LinkStep
  <2>2. MailboxType'
    BY <1>4, MailboxKeeps, EventTypes, PostKeeps DEF IFrameFillsWindow, InStepIFrame, GotFrame, Took, MailboxType
  <2>3. CounterType' BY <1>4 DEF IFrameFillsWindow, InStepIFrame, GotFrame, Took, CounterType
  <2>4. TimerType' BY <1>4, TimerKeeps DEF IFrameFillsWindow, InStepIFrame, GotFrame, Took, TimerType, TimerSet, Timers
  <2>f. net_link_pack_S_frame(recv_counter + 1) \in Frames
    BY FrameTypes DEF CounterType, StreamType, SlaveFrames, Frames, SendBuff
  <2>w. to_master' \in Seq(Frames)
    BY <1>4, <2>f, WriteKeeps DEF IFrameFillsWindow, SignalFull, StreamType
  <2>5. StreamType' BY <1>4, <2>w DEF IFrameFillsWindow, InStepIFrame, GotFrame, Took, StreamType
  <2>6. OthersType' BY <1>4 DEF IFrameFillsWindow, InStepIFrame, GotFrame, Took, OthersType, LinkStep
  <2> QED BY <2>1, <2>2, <2>3, <2>4, <2>5, <2>6
<1>5. CASE CopyAfterWrite
  <2>1. ThreadType' BY <1>5 DEF CopyAfterWrite, ThreadType, LinkStep
  <2>n. recv_counter - 1 \in Nat BY <1>5 DEF CopyAfterWrite, CounterType
  <2>h. /\ delivered' \in Seq([frame : Nat, got : 0 .. SeqMod, late : BOOLEAN])
        /\ AsduEvt(temp_asdu.body) \in AppEvents
    BY <1>5, <2>n, HandOverKeeps DEF CopyAfterWrite
  <2>2. MailboxType'
    BY <1>5, <2>h, MailboxKeeps DEF CopyAfterWrite, HandOver, MailboxType
  <2>3. CounterType' BY <1>5 DEF CopyAfterWrite, HandOver, CounterType
  <2>4. TimerType' BY <1>5, TimerKeeps DEF CopyAfterWrite, TimerType, TimerSet, Timers
  <2>5. StreamType' BY <1>5, <2>h DEF CopyAfterWrite, StreamType
  <2>6. OthersType' BY <1>5 DEF CopyAfterWrite, OthersType, LinkStep
  <2> QED BY <2>1, <2>2, <2>3, <2>4, <2>5, <2>6
<1>6. CASE UFrame
  <2>1. ThreadType' BY <1>6 DEF UFrame, GotFrame, Took, ThreadType, LinkStep
  <2>2. MailboxType'
    BY <1>6, MailboxKeeps, EventTypes, PostKeeps DEF UFrame, GotFrame, Took, MailboxType
  <2>3. CounterType' BY <1>6 DEF UFrame, GotFrame, Took, CounterType
  <2>4. TimerType' BY <1>6, TimerKeeps DEF UFrame, GotFrame, Took, TimerType, TimerSet, Timers
  <2>f. net_link_pack_U_frame(temp_buff.body) \in Frames
    BY FrameTypes DEF CounterType, StreamType, SlaveFrames, Frames, SendBuff
  <2>w. to_master' \in Seq(Frames)
    BY <1>6, <2>f, WriteKeeps DEF UFrame, SignalFull, StreamType
  <2>5. StreamType' BY <1>6, <2>w DEF UFrame, GotFrame, Took, StreamType
  <2>6. OthersType' BY <1>6 DEF UFrame, GotFrame, Took, OthersType, LinkStep
  <2> QED BY <2>1, <2>2, <2>3, <2>4, <2>5, <2>6
<1>7. CASE SFrame
  <2>1. ThreadType' BY <1>7 DEF SFrame, GotFrame, Took, ThreadType, LinkStep
  <2>2. MailboxType'
    BY <1>7, MailboxKeeps, EventTypes, PostKeeps DEF SFrame, GotFrame, Took, MailboxType
  <2>3. CounterType' BY <1>7 DEF SFrame, GotFrame, Took, CounterType
  <2>4. TimerType' BY <1>7, TimerKeeps DEF SFrame, GotFrame, Took, TimerType, TimerSet, Timers
  <2>5. StreamType' BY <1>7 DEF SFrame, GotFrame, Took, StreamType
  <2>6. OthersType' BY <1>7 DEF SFrame, GotFrame, Took, OthersType, LinkStep
  <2> QED BY <2>1, <2>2, <2>3, <2>4, <2>5, <2>6
<1>8. CASE UserAck
  <2>1. ThreadType' BY <1>8 DEF UserAck, AppNotifies, Took, ThreadType, LinkStep
  <2>2. MailboxType'
    BY <1>8, MailboxKeeps, EventTypes, PostKeeps DEF UserAck, AppNotifies, Took, MailboxType, Levels
  <2>3. CounterType' BY <1>8 DEF UserAck, AppNotifies, Took, CounterType
  <2>4. TimerType' BY <1>8, TimerKeeps DEF UserAck, AppNotifies, Took, TimerType, TimerSet, Timers
  <2>5. StreamType' BY <1>8 DEF UserAck, AppNotifies, Took, StreamType
  <2>6. OthersType' BY <1>8 DEF UserAck, AppNotifies, Took, OthersType, LinkStep
  <2> QED BY <2>1, <2>2, <2>3, <2>4, <2>5, <2>6
<1>9. CASE Update
  <2>1. ThreadType' BY <1>9 DEF Update, AppNotifies, Took, ThreadType, LinkStep
  <2>2. MailboxType'
    BY <1>9, MailboxKeeps, EventTypes, PostKeeps DEF Update, AppNotifies, Took, MailboxType
  <2>3. CounterType' BY <1>9 DEF Update, AppNotifies, Took, CounterType
  <2>4. TimerType' BY <1>9, TimerKeeps DEF Update, AppNotifies, Took, TimerType, TimerSet, Timers
  <2>5. StreamType' BY <1>9 DEF Update, AppNotifies, Took, StreamType
  <2>6. OthersType' BY <1>9 DEF Update, AppNotifies, Took, OthersType, LinkStep
  <2> QED BY <2>1, <2>2, <2>3, <2>4, <2>5, <2>6
<1>10. CASE SendAsdu
  <2>1. ThreadType' BY <1>10 DEF SendAsdu, CountSent, SignalFull, Took, HasRoom, AsksForMore, ThreadType, LinkStep
  <2>a. appmb' \in Seq(AppEvents) /\ Len(appmb') <= AppMb
    <3>1. appmb \in Seq(AppEvents) /\ Len(appmb) <= AppMb BY DEF MailboxType
    <3>2. AsksForMore \in Seq(AppEvents) /\ Len(AsksForMore) <= AppMb
      BY MailboxKeeps, EventTypes DEF AsksForMore
    <3>3. appmb' = AsksForMore \/ appmb' = appmb BY <1>10 DEF SendAsdu
    <3> QED BY ONLY <3>1, <3>2, <3>3
  <2>n. netmb' \in Seq(LinkEvents) /\ Len(netmb') <= NetMb
    <3>1. Handles(SendAsduEvt) BY <1>10 DEF SendAsdu
    <3>2. netmb' = Tail(netmb) \/ netmb' = iec_post_event(Tail(netmb), NetMb, CntFullEvt)
      BY <1>10 DEF SendAsdu, CountSent, SignalFull, Took
    <3>3. Tail(netmb) \in Seq(LinkEvents) /\ Len(Tail(netmb)) <= NetMb BY <3>1, MailboxKeeps
    <3> QED BY <3>1, <3>2, <3>3, SignalKeeps
  <2>2. MailboxType' BY <2>a, <2>n DEF MailboxType
  <2>3. CounterType' BY <1>10 DEF SendAsdu, CountSent, SignalFull, Took, HasRoom, AsksForMore, CounterType
  <2>t. Start(Stop(timer, "T1"), "T1") \in TimerSet /\ Stop(timer, "T1") \in TimerSet
    BY TimerKeeps DEF TimerType, TimerSet, Timers
  <2>4. TimerType' BY <1>10, <2>t DEF SendAsdu, CountSent, SignalFull, Took, HasRoom, AsksForMore, TimerType, TimerSet
  <2>f. SendBuff \in Frames
    BY FrameTypes DEF CounterType, StreamType, SlaveFrames, Frames, SendBuff
  <2>w. to_master' \in Seq(Frames)
    BY <1>10, <2>f, WriteKeeps DEF SendAsdu, SignalFull, StreamType
  <2>5. StreamType' BY <1>10, <2>w DEF SendAsdu, CountSent, SignalFull, Took, HasRoom, AsksForMore, StreamType
  <2>6. OthersType' BY <1>10 DEF SendAsdu, CountSent, SignalFull, Took, HasRoom, AsksForMore, OthersType, LinkStep
  <2> QED BY <2>1, <2>2, <2>3, <2>4, <2>5, <2>6
<1>11. CASE SendNone
  <2>1. ThreadType' BY <1>11 DEF SendNone, CountSent, SignalFull, Took, HasRoom, ThreadType, LinkStep
  <2>n. netmb' \in Seq(LinkEvents) /\ Len(netmb') <= NetMb
    <3>1. PICK lvl \in Levels : Handles(SendNoneEvt(lvl)) BY <1>11 DEF SendNone
    <3>2. netmb' = Tail(netmb) \/ netmb' = iec_post_event(Tail(netmb), NetMb, CntFullEvt)
      BY <1>11 DEF SendNone, CountSent, SignalFull, Took
    <3>3. Tail(netmb) \in Seq(LinkEvents) /\ Len(Tail(netmb)) <= NetMb BY <3>1, MailboxKeeps
    <3> QED BY <3>1, <3>2, <3>3, SignalKeeps
  <2>2. MailboxType' BY <1>11, <2>n DEF SendNone, MailboxType
  <2>3. CounterType' BY <1>11 DEF SendNone, CountSent, SignalFull, Took, HasRoom, CounterType
  <2>t. Start(timer, "T1") \in TimerSet
    BY TimerKeeps DEF TimerType, TimerSet, Timers
  <2>4. TimerType' BY <1>11, <2>t DEF SendNone, CountSent, SignalFull, Took, HasRoom, TimerType, TimerSet
  <2>5. StreamType' BY <1>11 DEF SendNone, CountSent, SignalFull, Took, HasRoom, StreamType
  <2>6. OthersType' BY <1>11 DEF SendNone, CountSent, SignalFull, Took, HasRoom, OthersType, LinkStep
  <2> QED BY <2>1, <2>2, <2>3, <2>4, <2>5, <2>6
<1>12. CASE CntFull
  <2>1. ThreadType' BY <1>12 DEF CntFull, net_link_notify_close, Took, ThreadType, LinkStep
  <2>2. MailboxType'
    BY <1>12, MailboxKeeps, EventTypes, PostKeeps DEF CntFull, net_link_notify_close, Took, MailboxType
  <2>3. CounterType' BY <1>12 DEF CntFull, net_link_notify_close, Took, CounterType
  <2>4. TimerType' BY <1>12, TimerKeeps DEF CntFull, net_link_notify_close, Took, TimerType, TimerSet, Timers
  <2>5. StreamType' BY <1>12 DEF CntFull, net_link_notify_close, Took, StreamType
  <2>6. OthersType' BY <1>12 DEF CntFull, net_link_notify_close, Took, OthersType, LinkStep
  <2> QED BY <2>1, <2>2, <2>3, <2>4, <2>5, <2>6
<1>13. CASE Disconnect
  <2>1. ThreadType' BY <1>13 DEF Disconnect, ThreadType, LinkStep
  <2>2. MailboxType'
    BY <1>13, MailboxKeeps, EventTypes, PostKeeps DEF Disconnect, MailboxType
  <2>3. CounterType' BY <1>13 DEF Disconnect, CounterType
  <2>4. TimerType' BY <1>13, TimerKeeps DEF Disconnect, TimerType, TimerSet, Timers
  <2>5. StreamType' BY <1>13 DEF Disconnect, StreamType
  <2>6. OthersType' BY <1>13 DEF Disconnect, OthersType, LinkStep
  <2> QED BY <2>1, <2>2, <2>3, <2>4, <2>5, <2>6
<1>14. ASSUME NEW t \in Timers, Timeout(t) PROVE TypeOK'
  <2>1. ThreadType' BY <1>14 DEF Timeout, net_link_notify_close, ThreadType, LinkStep
  <2>2. MailboxType' BY <1>14, MailboxKeeps DEF Timeout, Took, MailboxType
  <2>c. UNCHANGED <<active, data_trans_active, current_k, recv_counter, sent_counter, acked, link>>
    BY <1>14 DEF Timeout, LinkStep
  <2>d. /\ current_w' \in {0, current_w} /\ wire_ack' \in {recv_counter, wire_ack}
        /\ timer' \in {timer, Stop(timer, "T2")}
    BY <1>14 DEF Timeout
  <2>3. CounterType' BY <2>c, <2>d DEF CounterType
  <2>e. timer \in TimerSet BY DEF TimerType, TimerSet
  <2>g. timer' \in TimerSet BY ONLY <2>d, <2>e, TimerKeeps DEF Timers
  <2>4. TimerType' BY ONLY <2>g DEF TimerType, TimerSet
  <2>f. net_link_pack_S_frame(recv_counter) \in Frames /\ net_link_pack_U_frame("TESTFR") \in Frames
    BY FrameTypes DEF CounterType, UActs
  <2>w. to_master' \in Seq(Frames)
    <3>1. to_master \in Seq(Frames) BY DEF StreamType
    <3>2. \E fs \in {<<net_link_pack_S_frame(recv_counter)>>, <<net_link_pack_U_frame("TESTFR")>>, <<>>} :
            Write(fs)
      BY <1>14 DEF Timeout
    <3>3. <<net_link_pack_S_frame(recv_counter)>> \in Seq(Frames)
      BY <2>f
    <3>4. <<net_link_pack_U_frame("TESTFR")>> \in Seq(Frames)
      BY <2>f
    <3>5. <<>> \in Seq(Frames)
      OBVIOUS
    <3> QED BY ONLY <3>1, <3>2, <3>3, <3>4, <3>5, WritesKeep
  <2>5. StreamType' BY <1>14, <2>w DEF Timeout, StreamType
  <2>6. OthersType' BY <1>14 DEF Timeout, OthersType, LinkStep
  <2> QED BY <2>1, <2>2, <2>3, <2>4, <2>5, <2>6
<1> QED
  BY <1>1, <1>2, <1>3, <1>4, <1>5, <1>6, <1>7, <1>8, <1>9, <1>10, <1>11, <1>12, <1>13, <1>14 DEF LinkStep, LinkThread
-----------------------------------------------------------------------------
(* Each monitor round counts the timers and posts at most one timeout. *)
LEMMA MonitorKeepsType == TypeOK /\ MonitorStep => TypeOK'
<1> SUFFICES ASSUME TypeOK, MonitorStep PROVE TypeOK'
  OBVIOUS
<1> USE DEF TypeOK
<1>1. CASE MonitorCount
  <2>1. TimerType' BY <1>1, TimerKeeps DEF MonitorCount, TimerType, TimerSet
  <2> QED
    BY <1>1, <2>1 DEF MonitorStep, MonitorCount, ThreadType, MailboxType, CounterType,
                      StreamType, OthersType
<1>2. CASE MonitorCompare
  <2>1. ASSUME \E t \in Timers : Due(t)
        PROVE  TimeoutEvt(CHOOSE t \in Timers : Due(t)) \in LinkEvents
    BY <2>1, EventTypes
  <2>2. MailboxType' BY <1>2, <2>1, MailboxKeeps DEF MonitorCompare, MailboxType
  <2> QED
    BY <1>2, <2>2 DEF MonitorStep, MonitorCompare, ThreadType, CounterType, TimerType,
                      StreamType, OthersType
<1> QED BY <1>1, <1>2 DEF MonitorStep, MonitorThread
-----------------------------------------------------------------------------
(* What is left of a stream when its first frames are read. *)
LEMMA SuffixKeeps ==
  ASSUME NEW S, NEW s \in Seq(S), NEW k \in Nat
  PROVE  SubSeq(s, k + 1, Len(s)) \in Seq(S)
<1>1. \A i \in k + 1 .. Len(s) : s[i] \in S
  OBVIOUS
<1>2. k + 1 \in Int /\ Len(s) \in Int
  OBVIOUS
<1> QED BY <1>1, <1>2, SubSeqProperties

(* The receive thread moves frames of the stream into the buffer. *)
LEMMA RecvKeepsType == TypeOK /\ RecvStep => TypeOK'
<1> SUFFICES ASSUME TypeOK, RecvStep PROVE TypeOK'
  OBVIOUS
<1> USE DEF TypeOK
<1>1. CASE RxTake
  BY <1>1 DEF RecvStep, RxTake, ThreadType, MailboxType, CounterType, TimerType, StreamType,
              OthersType
<1>2. CASE RxRead
  <2>1. PICK n \in 1 .. 2 :
          /\ n <= Len(to_slave)
          /\ to_slave' = SubSeq(to_slave, n + 1, Len(to_slave))
          /\ recv_len' = IF n = 1 THEN LenOf(Head(to_slave)) ELSE "many"
          /\ temp_asdu' = CASE Head(to_slave).fmt = "I" ->
                                 [ns |-> Head(to_slave).ns, body |-> Head(to_slave).body]
                            [] Head(to_slave).fmt # "I" /\ n = 1 -> temp_asdu
                            [] OTHER -> Garbage
    BY <1>2 DEF RxRead
  <2>2. Head(to_slave) \in SlaveFrames /\ to_slave' \in Seq(SlaveFrames)
    <3>1. to_slave \in Seq(SlaveFrames) BY DEF StreamType
    <3>0. n \in 1 .. 2 /\ n <= Len(to_slave) BY <2>1
    <3>2. n \in Nat /\ 1 <= Len(to_slave) BY ONLY <3>0, <3>1
    <3>3. Head(to_slave) \in SlaveFrames BY ONLY <3>1, <3>2
    <3>4. SubSeq(to_slave, n + 1, Len(to_slave)) \in Seq(SlaveFrames) BY ONLY <3>1, <3>2, SuffixKeeps
    <3> QED BY <2>1, <3>3, <3>4
  <2>3. temp_asdu' \in AsduAreas
    <3>1. Garbage \in AsduAreas BY DEF Garbage, AsduAreas, Asdus
    <3>2. ASSUME Head(to_slave).fmt = "I"
          PROVE  [ns |-> Head(to_slave).ns, body |-> Head(to_slave).body] \in AsduAreas
      BY <2>2, <3>2 DEF AsduAreas, SlaveFrames, Frames, Numbers
    <3>3. temp_asdu \in AsduAreas BY DEF StreamType
    <3>4. CASE Head(to_slave).fmt = "I" BY <2>1, <3>2, <3>4
    <3>5. CASE Head(to_slave).fmt # "I" BY <2>1, <3>1, <3>3, <3>5
    <3> QED BY <3>4, <3>5
  <2>4. recv_len' \in Lengths
    BY <2>1 DEF LenOf, Lengths
  <2>5. StreamType' BY <1>2, <2>2, <2>3 DEF RxRead, StreamType
  <2>6. ThreadType' BY <1>2, <2>4 DEF RecvStep, RxRead, ThreadType
  <2> QED
    BY <1>2, <2>5, <2>6 DEF RecvStep, RxRead, MailboxType, CounterType, TimerType, OthersType
<1>3. CASE RxEnd
  BY <1>3 DEF RecvStep, RxEnd, ThreadType, MailboxType, CounterType, TimerType, StreamType,
              OthersType
<1>4. CASE RxPost
  <2>1. PhyEvt(recv_len) \in LinkEvents BY EventTypes DEF ThreadType
  <2>2. MailboxType' BY <1>4, <2>1, MailboxKeeps DEF RxPost, MailboxType
  <2> QED
    BY <1>4, <2>2 DEF RecvStep, RxPost, ThreadType, CounterType, TimerType, StreamType,
                      OthersType, Lengths
<1>5. CASE RxDisconnect
  <2>1. MailboxType' BY <1>5, EventTypes, MailboxKeeps DEF RxDisconnect, MailboxType
  <2> QED
    BY <1>5, <2>1 DEF RecvStep, RxDisconnect, ThreadType, CounterType, TimerType, StreamType,
                      OthersType
<1>6. CASE RxClose
  BY <1>6 DEF RecvStep, RxClose, ThreadType, MailboxType, CounterType, TimerType, StreamType,
              OthersType
<1> QED BY <1>1, <1>2, <1>3, <1>4, <1>5, <1>6 DEF RecvStep, RecvThread
-----------------------------------------------------------------------------
(* The tasks of a level stay a number, made, merged or taken. *)
LEMMA AddedType ==
  ASSUME first_task \in [Levels -> Nat], NEW lvl \in Levels
  PROVE  /\ Added(lvl) \subseteq [Levels -> Nat]
         /\ first_task[lvl] > 0 => [first_task EXCEPT ![lvl] = @ - 1] \in [Levels -> Nat]
BY DEF Added

(* The answers of a general call are the ones the mailbox had room for. *)
LEMMA CallAnswersFit ==
  ASSUME NEW mb \in Seq(AppEvents), Len(mb) <= AppMb
  PROVE  mb \o CallAnswers(mb) \in Seq(AppEvents) /\ Len(mb \o CallAnswers(mb)) <= AppMb
<1> DEFINE free == AppMb - Len(mb)
           n == IF CallNodes <= free THEN CallNodes ELSE free
<1>1. n \in Nat /\ n <= free /\ Fitting(mb) \ {0} = 1 .. n
  BY DEF Fitting
<1>2. NodeEvt("LEVEL_1") \in AppEvents
  BY EventTypes DEF Levels
<1> HIDE DEF n
<1>3. CallAnswers(mb) = [i \in 1 .. n |-> NodeEvt("LEVEL_1")]
  BY <1>1 DEF CallAnswers
<1>4. CallAnswers(mb) \in Seq(AppEvents) /\ Len(CallAnswers(mb)) = n
  BY <1>1, <1>2, <1>3
<1> QED BY <1>1, <1>4

LEMMA AppKeepsType == TypeOK /\ AppStep => TypeOK'
<1> SUFFICES ASSUME TypeOK, AppStep PROVE TypeOK'
  OBVIOUS
<1> USE DEF TypeOK
<1>1. CASE AppUserData
  <2>1. MailboxType' BY <1>1, CallAnswersFit, EventTypes, MailboxKeeps DEF AppUserData, MailboxType
  <2>2. OthersType' BY <1>1, AddedType DEF AppStep, AppUserData, OthersType, Levels
  <2> QED
    BY <1>1, <2>1, <2>2 DEF AppStep, AppUserData, ThreadType, CounterType, TimerType, StreamType
<1>2. ASSUME NEW lvl \in Levels, AppRequest(lvl) PROVE TypeOK'
  <2>1. MailboxType' BY <1>2, EventTypes, MailboxKeeps DEF AppRequest, MailboxType
  <2>2. OthersType' BY <1>2, AddedType DEF AppStep, AppRequest, OthersType
  <2> QED
    BY <1>2, <2>1, <2>2 DEF AppStep, AppRequest, ThreadType, CounterType, TimerType, StreamType
<1>3. ASSUME NEW lvl \in Levels, AppUpdate(lvl) PROVE TypeOK'
  <2>1. MailboxType' BY <1>3, EventTypes, MailboxKeeps DEF AppUpdate, MailboxType
  <2>2. OthersType' BY <1>3, AddedType DEF AppStep, AppUpdate, OthersType
  <2> QED
    BY <1>3, <2>1, <2>2 DEF AppStep, AppUpdate, ThreadType, CounterType, TimerType, StreamType
<1> QED BY <1>1, <1>2, <1>3 DEF AppStep, AppThread

LEMMA DeviceKeepsType == TypeOK /\ DeviceStep => TypeOK'
<1> SUFFICES ASSUME TypeOK, NEW lvl \in Levels, DeviceUpdate(lvl), DeviceStep PROVE TypeOK'
  BY DEF DeviceStep, Device
<1> USE DEF TypeOK
<1>1. MailboxType' BY EventTypes, MailboxKeeps DEF DeviceUpdate, MailboxType
<1>2. OthersType' BY DEF DeviceStep, DeviceUpdate, OthersType
<1> QED
  BY <1>1, <1>2 DEF DeviceStep, DeviceUpdate, ThreadType, CounterType, TimerType, StreamType
-----------------------------------------------------------------------------
(* The frames the master sends are frames a slave may receive. *)
LEMMA MasterKeepsType == TypeOK /\ MasterStep => TypeOK'
<1> SUFFICES ASSUME TypeOK, MasterStep PROVE TypeOK'
  OBVIOUS
<1> USE DEF TypeOK
<1>0. ASSUME NEW f \in SlaveFrames, Sends(f)
      PROVE  /\ to_slave' \in Seq(SlaveFrames)
             /\ UNCHANGED <<sock, to_master, vr, linkVars, monitor, bufVars, appVars>>
  BY <1>0 DEF Sends, StreamType
<1>1. CASE MasterI
  <2>1. PICK a \in Sendable : Sends(net_link_pack_I_frame(vs, vr, a))
    BY <1>1 DEF MasterI
  <2>2. net_link_pack_I_frame(vs, vr, a) \in SlaveFrames
    BY FrameTypes DEF OthersType
  <2>3. OthersType' BY <1>1, <2>1, <2>2, <1>0 DEF MasterStep, MasterI, OthersType
  <2> QED
    BY <2>1, <2>2, <2>3, <1>0 DEF MasterStep, ThreadType, MailboxType, CounterType, TimerType,
                                  StreamType
<1>2. CASE MasterS
  <2>1. net_link_pack_S_frame(vr) \in SlaveFrames BY FrameTypes DEF OthersType
  <2>2. OthersType' BY <1>2, <2>1, <1>0 DEF MasterStep, MasterS, OthersType
  <2> QED
    BY <1>2, <2>1, <2>2, <1>0 DEF MasterStep, MasterS, ThreadType, MailboxType, CounterType,
                                  TimerType, StreamType
<1>3. CASE MasterU
  <2>1. PICK act \in UActs : Sends(net_link_pack_U_frame(act)) BY <1>3 DEF MasterU
  <2>2. net_link_pack_U_frame(act) \in SlaveFrames BY FrameTypes
  <2>3. OthersType' BY <1>3, <2>1, <2>2, <1>0 DEF MasterStep, MasterU, OthersType
  <2> QED
    BY <2>1, <2>2, <2>3, <1>0 DEF MasterStep, ThreadType, MailboxType, CounterType, TimerType,
                                  StreamType
<1>4. CASE MasterGets
  <2>1. to_master' \in Seq(Frames) BY <1>4 DEF MasterGets, StreamType
  <2> QED
    BY <1>4, <2>1 DEF MasterStep, MasterGets, ThreadType, MailboxType, CounterType, TimerType,
                      StreamType, OthersType
<1>5. CASE MasterLeaves
  BY <1>5 DEF MasterStep, MasterLeaves, ThreadType, MailboxType, CounterType, TimerType,
              StreamType, OthersType
<1> QED BY <1>1, <1>2, <1>3, <1>4, <1>5 DEF MasterStep, MasterStation
-----------------------------------------------------------------------------
LEMMA InitType == Init => TypeOK
<1> SUFFICES ASSUME Init PROVE TypeOK
  OBVIOUS
<1> USE DEF Init, NetLinkInit, SocketRecvInit, AppViewInit, MasterInit
<1>1. TimerType BY ClockType DEF InitTimers, Idle, TimerType
<1>2. temp_buff \in SlaveFrames /\ temp_asdu \in AsduAreas
  BY DEF Frame, Frames, SlaveFrames, Numbers, UActs, Garbage, AsduAreas, Asdus
<1> QED
  BY <1>1, <1>2 DEF TypeOK, ThreadType, MailboxType, CounterType, StreamType, OthersType, Lengths

(* Every variable keeps its type, however large the windows and mailboxes:  *)
(* k and w stay within their windows and no mailbox exceeds its slots.      *)
THEOREM TypeCorrect == Spec => []TypeOK
<1>1. TypeOK /\ [Next]_vars => TypeOK'
  <2> SUFFICES ASSUME TypeOK, [Next]_vars PROVE TypeOK'
    OBVIOUS
  <2>1. CASE UNCHANGED vars
    BY <2>1 DEF TypeOK, ThreadType, MailboxType, CounterType, TimerType, StreamType, OthersType
  <2> QED
    BY <2>1, LinkKeepsType, MonitorKeepsType, RecvKeepsType, AppKeepsType, DeviceKeepsType,
       MasterKeepsType DEF Next
<1> QED BY <1>1, InitType, PTL DEF Spec
-----------------------------------------------------------------------------
(* What the timer operators do to one timer and leave of the others. *)
LEMMA TimerFacts ==
  ASSUME NEW tm \in TimerSet, NEW t \in Timers, NEW u \in Timers
  PROVE  /\ Stop(tm, t)[u] = IF u = t THEN Idle ELSE tm[u]
         /\ Start(tm, t)[u].start = IF u = t THEN 1 ELSE tm[u].start
         /\ Start(Stop(tm, t), t)[u].start = IF u = t THEN 1 ELSE tm[u].start
         /\ [x \in Timers |-> Counted(tm[x])][u].start = tm[u].start
BY DEF TimerSet, Stop, Start, Counted, Clock

(* Only the link thread and the monitor touch the timers and the counters. *)
LEMMA OthersLeaveCounters ==
  ASSUME RecvStep \/ AppStep \/ DeviceStep \/ MasterStep \/ UNCHANGED vars
  PROVE  UNCHANGED <<timer, apciVars, acked, wire_ack, delivered>>
BY DEF RecvStep, RecvThread, RxTake, RxRead, RxEnd, RxPost, RxDisconnect, RxClose,
       AppStep, AppThread, AppUserData, AppRequest, AppUpdate,
       DeviceStep, Device, DeviceUpdate,
       MasterStep, MasterStation, MasterI, MasterS, MasterU, MasterGets, MasterLeaves, Sends

(* The monitor counts timers, but starts and stops none. *)
LEMMA MonitorLeavesCounters ==
  ASSUME TypeOK, MonitorStep
  PROVE  /\ UNCHANGED <<apciVars, acked, wire_ack, delivered>>
         /\ \A t \in Timers : timer'[t].start = timer[t].start
<1>1. timer \in TimerSet BY DEF TypeOK, TimerType, TimerSet
<1>2. CASE MonitorCount
  BY <1>1, <1>2, TimerFacts DEF MonitorCount
<1>3. CASE MonitorCompare
  BY <1>3 DEF MonitorCompare
<1> QED BY <1>2, <1>3 DEF MonitorStep, MonitorThread
-----------------------------------------------------------------------------
(* T2 runs exactly while received I frames wait for their acknowledgement.  *)
(* With TypeOK the property is inductive: only the I frame that opens or    *)
(* fills the window and the handling of a T2 event move either side.        *)
THEOREM BacklogTimed == Spec => []ReceiveBacklogTimed
<1>1. Init => ReceiveBacklogTimed
  BY DEF Init, NetLinkInit, InitTimers, Idle, Clock, Timers, ReceiveBacklogTimed
<1>2. TypeOK /\ ReceiveBacklogTimed /\ [Next]_vars => ReceiveBacklogTimed'
  <2> SUFFICES ASSUME TypeOK, ReceiveBacklogTimed, [Next]_vars
               PROVE  ReceiveBacklogTimed'
    OBVIOUS
  <2>t. timer \in TimerSet /\ "T1" \in Timers /\ "T2" \in Timers
    BY DEF TypeOK, TimerType, TimerSet, Timers
  <2>w. current_w \in Nat
    BY DEF TypeOK, CounterType
  <2>1. CASE LinkStep
    <3>1. CASE IFrameActive
      <4>1. Start(Stop(timer, "T2"), "T2")["T2"].start = 1
        BY <2>t, TimerFacts, TimerKeeps
      <4> QED BY <3>1, <4>1, <2>w DEF IFrameActive, WithThisFrame, ReceiveBacklogTimed
    <3>2. CASE IFrameFillsWindow
      BY <3>2, <2>t, TimerFacts DEF IFrameFillsWindow, Idle, Clock, ReceiveBacklogTimed
    <3>3. ASSUME NEW t \in Timers, Timeout(t) PROVE ReceiveBacklogTimed'
      BY <3>3, <2>t, TimerFacts DEF Timeout, Idle, Clock, ReceiveBacklogTimed
    <3>4. CASE UFrame \/ SFrame
      BY <3>4, <2>t, TimerFacts DEF UFrame, SFrame, ReceiveBacklogTimed
    <3>5. CASE SendAsdu
      <4>1. /\ Start(Stop(timer, "T1"), "T1")["T2"].start = timer["T2"].start
            /\ Stop(timer, "T1")["T2"].start = timer["T2"].start
        BY <2>t, TimerFacts, TimerKeeps
      <4> QED BY <3>5, <4>1 DEF SendAsdu, CountSent, ReceiveBacklogTimed
    <3>6. CASE SendNone
      BY <3>6, <2>t, TimerFacts DEF SendNone, CountSent, ReceiveBacklogTimed
    <3>7. CASE DropFrame \/ IFrameInactive \/ CopyAfterWrite \/ UserAck \/ Update \/ CntFull
                 \/ Disconnect
      BY <3>7 DEF DropFrame, IFrameInactive, CopyAfterWrite, UserAck, Update, AppNotifies,
                  CntFull, Disconnect, ReceiveBacklogTimed
    <3> QED
      BY <2>1, <3>1, <3>2, <3>3, <3>4, <3>5, <3>6, <3>7 DEF LinkStep, LinkThread
  <2>2. CASE MonitorStep
    BY <2>2, <2>t, MonitorLeavesCounters DEF ReceiveBacklogTimed
  <2>3. CASE RecvStep \/ AppStep \/ DeviceStep \/ MasterStep \/ UNCHANGED vars
    BY <2>3, OthersLeaveCounters DEF ReceiveBacklogTimed
  <2> QED BY <2>1, <2>2, <2>3 DEF Next
<1> QED BY <1>1, <1>2, TypeCorrect, PTL DEF Spec
-----------------------------------------------------------------------------
(* current_k counts the numbers used since the last S frame accepted, and   *)
(* T1 never runs with nothing to confirm: a number is used, counted and T1  *)
(* started in one step, and an S frame resets all three.                    *)
THEOREM WindowCounted == Spec => []SendWindow
<1>1. Init => SendWindow
  BY DEF Init, NetLinkInit, InitTimers, Idle, Clock, Timers, SendWindow
<1>2. TypeOK /\ SendWindow /\ [Next]_vars => SendWindow'
  <2> SUFFICES ASSUME TypeOK, SendWindow, [Next]_vars PROVE SendWindow'
    OBVIOUS
  <2>t. timer \in TimerSet /\ "T1" \in Timers /\ "T2" \in Timers
    BY DEF TypeOK, TimerType, TimerSet, Timers
  <2>c. current_k \in Nat /\ sent_counter \in Nat /\ acked \in Nat
    BY DEF TypeOK, CounterType
  <2>1. CASE LinkStep
    <3>1. CASE UFrame \/ SFrame
      BY <3>1, <2>t, <2>c, TimerFacts DEF UFrame, SFrame, Idle, Clock, SendWindow
    <3>2. CASE SendAsdu \/ SendNone
      <4>1. Stop(timer, "T1")["T1"].start = 0
        BY <2>t, TimerFacts DEF Idle, Clock
      <4>2. CASE HasRoom
        BY <3>2, <4>2, <2>c DEF SendAsdu, SendNone, CountSent, SendWindow
      <4>3. CASE ~HasRoom
        BY <3>2, <4>1, <4>3, <2>c DEF SendAsdu, SendNone, SignalFull, SendWindow
      <4> QED BY <4>2, <4>3
    <3>3. CASE IFrameActive
      <4>1. Start(Stop(timer, "T2"), "T2")["T1"].start = timer["T1"].start
        BY <2>t, TimerFacts, TimerKeeps
      <4> QED BY <3>3, <4>1 DEF IFrameActive, SendWindow
    <3>4. CASE IFrameFillsWindow
      BY <3>4, <2>t, TimerFacts DEF IFrameFillsWindow, SendWindow
    <3>5. ASSUME NEW t \in Timers, Timeout(t) PROVE SendWindow'
      BY <3>5, <2>t, TimerFacts DEF Timeout, SendWindow
    <3>6. CASE DropFrame \/ IFrameInactive \/ CopyAfterWrite \/ UserAck \/ Update \/ CntFull
                 \/ Disconnect
      BY <3>6 DEF DropFrame, IFrameInactive, CopyAfterWrite, UserAck, Update, AppNotifies,
                  CntFull, Disconnect, SendWindow
    <3> QED BY <2>1, <3>1, <3>2, <3>3, <3>4, <3>5, <3>6 DEF LinkStep, LinkThread
  <2>2. CASE MonitorStep
    BY <2>2, <2>t, MonitorLeavesCounters DEF SendWindow
  <2>3. CASE RecvStep \/ AppStep \/ DeviceStep \/ MasterStep \/ UNCHANGED vars
    BY <2>3, OthersLeaveCounters DEF SendWindow
  <2> QED BY <2>1, <2>2, <2>3 DEF Next
<1> QED BY <1>1, <1>2, TypeCorrect, PTL DEF Spec
-----------------------------------------------------------------------------
(* No frame under way, or in the buffer, confirms more than the master has  *)
(* received: a number put on the wire is at most the counter it is made of. *)
NumbersFromPast ==
  /\ temp_buff.nr <= vr
  /\ \A i \in 1 .. Len(to_slave) : to_slave[i].nr <= vr

LEMMA WireNumber ==
  ASSUME NEW n \in Nat
  PROVE  n % SeqMod \in Nat /\ n % SeqMod <= n
<1>1. n % SeqMod \in 0 .. SeqMod - 1
  OBVIOUS
<1>2. CASE n < SeqMod
  BY <1>2
<1>3. CASE n >= SeqMod
  BY <1>1, <1>3
<1> QED BY <1>1, <1>2, <1>3

LEMMA NumbersStayInPast ==
  ASSUME TypeOK, NumbersFromPast, [Next]_vars
  PROVE  NumbersFromPast'
<1>s. /\ to_slave \in Seq(SlaveFrames) /\ vr \in Nat /\ vs \in Nat
      /\ \A f \in SlaveFrames : f.nr \in Nat
  BY DEF TypeOK, StreamType, OthersType, SlaveFrames, Frames, Numbers
<1>1. CASE LinkStep \/ MonitorStep \/ AppStep \/ DeviceStep \/ UNCHANGED vars
  <2>1. UNCHANGED <<temp_buff, to_slave, vr>>
    BY <1>1 DEF LinkStep, LinkThread, DropFrame, IFrameInactive, IFrameActive,
         IFrameFillsWindow, CopyAfterWrite, UFrame, SFrame, UserAck, Update, AppNotifies,
         SendAsdu, SendNone, Timeout, CntFull, Disconnect, MonitorStep, MonitorThread,
         MonitorCount, MonitorCompare, AppStep, AppThread, AppUserData, AppRequest,
         AppUpdate, DeviceStep, Device, DeviceUpdate
  <2> QED BY <2>1 DEF NumbersFromPast
<1>2. CASE RecvStep
  <2>1. CASE RxRead
    <3>1. PICK n \in 1 .. 2 : /\ n <= Len(to_slave)
                              /\ to_slave' = SubSeq(to_slave, n + 1, Len(to_slave))
      BY <2>1 DEF RxRead
    <3>2. temp_buff' = to_slave[1] /\ vr' = vr
      BY <1>2, <2>1 DEF RecvStep, RxRead
    <3>3. \A i \in 1 .. Len(to_slave') : to_slave'[i] = to_slave[n + i]
      BY <3>1, <1>s
    <3>4. Len(to_slave') = Len(to_slave) - n
      BY <3>1, <1>s
    <3> QED BY <3>1, <3>2, <3>3, <3>4, <1>s DEF NumbersFromPast
  <2>2. CASE RxTake \/ RxEnd \/ RxPost \/ RxDisconnect \/ RxClose
    BY <1>2, <2>2 DEF RecvStep, RxTake, RxEnd, RxPost, RxDisconnect, RxClose, NumbersFromPast
  <2> QED BY <1>2, <2>1, <2>2 DEF RecvStep, RecvThread
<1>3. CASE MasterStep
  <2>0. ASSUME NEW f \in SlaveFrames, f.nr <= vr, Sends(f) PROVE NumbersFromPast'
    BY <2>0, <1>s DEF Sends, NumbersFromPast
  <2>1. CASE MasterI
    <3>1. PICK a \in Sendable : Sends(net_link_pack_I_frame(vs, vr, a))
      BY <2>1 DEF MasterI
    <3>2. net_link_pack_I_frame(vs, vr, a) \in SlaveFrames
      BY <1>s, FrameTypes
    <3>3. net_link_pack_I_frame(vs, vr, a).nr <= vr
      BY <1>s, WireNumber DEF net_link_pack_I_frame, Frame
    <3> QED BY <3>1, <3>2, <3>3, <2>0
  <2>2. CASE MasterS
    <3>1. net_link_pack_S_frame(vr) \in SlaveFrames
      BY <1>s, FrameTypes
    <3>2. net_link_pack_S_frame(vr).nr <= vr
      BY <1>s, WireNumber DEF net_link_pack_S_frame, Frame
    <3> QED BY <2>2, <3>1, <3>2, <2>0 DEF MasterS
  <2>3. CASE MasterU
    <3>1. PICK act \in UActs : Sends(net_link_pack_U_frame(act))
      BY <2>3 DEF MasterU
    <3>2. net_link_pack_U_frame(act) \in SlaveFrames
      BY FrameTypes
    <3>3. net_link_pack_U_frame(act).nr <= vr
      BY <1>s DEF net_link_pack_U_frame, Frame
    <3> QED BY <3>1, <3>2, <3>3, <2>0
  <2>4. CASE MasterGets
    <3>1. UNCHANGED <<to_slave, temp_buff>> /\ vr' >= vr /\ vr' \in Nat
      BY <2>4, <1>s DEF MasterGets
    <3>2. temp_buff.nr \in Nat
      BY <1>s DEF TypeOK, StreamType
    <3> QED BY <3>1, <3>2, <1>s DEF NumbersFromPast
  <2>5. CASE MasterLeaves
    BY <2>5 DEF MasterLeaves, NumbersFromPast
  <2> QED BY <1>3, <2>1, <2>2, <2>3, <2>4, <2>5 DEF MasterStep, MasterStation
<1> QED BY <1>1, <1>2, <1>3 DEF Next

(* The link never takes for confirmed what the master has not received.     *)
(* The whole counter is compared with the number of the frame, so a number  *)
(* that was wrapped can only be refused, never be taken for a larger one.   *)
THEOREM OnlyReceivedIsConfirmed == Spec => []ConfirmedWasReceived
<1> DEFINE IInv == NumbersFromPast /\ ConfirmedWasReceived
<1>1. Init => IInv
  <2> SUFFICES ASSUME Init PROVE IInv
    OBVIOUS
  <2>1. temp_buff.nr = 0 /\ vr = 0 /\ acked = 0 /\ to_slave = <<>>
    BY DEF Init, NetLinkInit, SocketRecvInit, MasterInit, Frame
  <2> QED BY <2>1 DEF NumbersFromPast, ConfirmedWasReceived
<1>2. TypeOK /\ IInv /\ [Next]_vars => IInv'
  <2> SUFFICES ASSUME TypeOK, IInv, [Next]_vars PROVE ConfirmedWasReceived'
    BY NumbersStayInPast
  <2>c. acked \in Nat /\ vr \in Nat
    BY DEF TypeOK, CounterType, OthersType
  <2>1. CASE LinkStep
    <3>0. vr' = vr
      BY <2>1 DEF LinkStep
    <3>1. CASE SFrame
      BY <3>0, <3>1 DEF SFrame, GotFrame, net_link_counter_check, NumbersFromPast,
                        ConfirmedWasReceived
    <3>2. CASE ~SFrame
      <4>1. acked' = acked
        BY <2>1, <3>2 DEF LinkStep, LinkThread, DropFrame, IFrameInactive, IFrameActive,
             IFrameFillsWindow, CopyAfterWrite, UFrame, UserAck, Update, AppNotifies,
             SendAsdu, SendNone, Timeout, CntFull, Disconnect
      <4> QED BY <3>0, <4>1 DEF ConfirmedWasReceived
    <3> QED BY <3>1, <3>2
  <2>2. CASE MonitorStep
    BY <2>2, MonitorLeavesCounters DEF MonitorStep, ConfirmedWasReceived
  <2>3. CASE RecvStep \/ AppStep \/ DeviceStep \/ MasterStep \/ UNCHANGED vars
    <3>1. acked' = acked
      BY <2>3, OthersLeaveCounters
    <3>2. vr' >= vr
      BY <2>3, <2>c DEF RecvStep, AppStep, DeviceStep, MasterStep, MasterStation, MasterI,
           MasterS, MasterU, MasterGets, MasterLeaves, Sends
    <3>3. vr' \in Nat
      BY <2>3, <2>c DEF RecvStep, AppStep, DeviceStep, MasterStep, MasterStation, MasterI,
           MasterS, MasterU, MasterGets, MasterLeaves, Sends
    <3> QED BY <3>1, <3>2, <3>3, <2>c DEF ConfirmedWasReceived
  <2> QED BY <2>1, <2>2, <2>3 DEF Next
<1>3. IInv => ConfirmedWasReceived
  OBVIOUS
<1> QED BY <1>1, <1>2, <1>3, TypeCorrect, PTL DEF Spec
=============================================================================
