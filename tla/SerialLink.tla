----------------------------- MODULE SerialLink -----------------------------
(***************************************************************************)
(* The FT1.2 link of Layer/Link/serial_link.c: the secondary station of an *)
(* IEC 60870-5-101 line.  The link answers and never speaks by itself.     *)
(*                                                                         *)
(* A request carries a frame count bit that alternates.  A request with    *)
(* the bit of the one before is a repeat, which the link does not pass on. *)
(* An answer carries the access demand bit, which tells the primary        *)
(* station that class 1 data waits.  Data and commands are answered by the *)
(* application, through the link's mailbox, some time later.               *)
(*                                                                         *)
(* app_tag, which is counted and never read, is left out.                  *)
(***************************************************************************)
EXTENDS IecEvent, Integers

CONSTANTS
  SerialMb,  \* slots of the link's mailbox
  AppMb      \* slots of the application's mailbox

ASSUME SerialMailboxAssumption == SerialMb \in Nat \ {0} /\ AppMb \in Nat \ {0}

VARIABLES
  double_dir,        \* obj.double_dir: 1 on a balanced line
  serialmb,          \* obj.mb_event
  active,            \* obj.active
  data_trans_active, \* obj.data_trans_active, set by the application
  acd_tag,           \* class 1 data waits to be announced
  fcb,               \* the count bit last accepted, NoFcb after a reset
  recv_asdu,         \* the ASDU area of obj.recv_buff: the command it is of
  prev_sent,         \* prev_sent_buff
  rx_buff,           \* the frame in the serial driver's buffer
  to_primary,        \* frames under way to the primary station
  appmb,             \* app_event, the application's mailbox
  first_task,        \* ASDUs that wait in first_task and second_task, by level
  accepted,          \* history: the last counted request that was accepted
  handed,            \* history: the commands handed over to the application
  called,            \* history: a general call was handed over since the reset
  dropped            \* history: an event for the link found its mailbox full

serialVars == <<double_dir, active, data_trans_active, acd_tag, fcb, recv_asdu, prev_sent,
                accepted, handed, called>>
-----------------------------------------------------------------------------
(* Requests.  One that is counted (FCV) has a number, in which the history *)
(* tells a repeat from a new request, and its count bit.                   *)
NoFcb == 255
CountedCodes == {"FC_DW_DATA_YES", "FC_DW_FIRST_DATA", "FC_DW_SEC_DATA"}
Uncounted == {"FC_DW_RST_REMOTE", "FC_DW_REQ", "FC_DW_LINK", "FC_DW_DATA_NO"}

Request(fc, bit, num, asdu, ok) ==
  [FunCode |-> fc, FCB |-> bit, num |-> num, asdu |-> asdu, ok |-> ok]

(* Answers.  What lies in the access demand bit of a fixed frame is not    *)
(* written when nothing is announced: either value goes out.               *)
Answer(fc, acd) == [FunCode |-> fc, ACD |-> acd]

Bits(tag) == IF tag > 0 THEN {1} ELSE {0, 1}
serial_link_pack_fixed_frame(funcode) == {Answer(funcode, bit) : bit \in Bits(acd_tag)}
serial_link_pack_unfixed_frame(tag)   == Answer("FC_UP_USER_DATA", tag)

\* serial_link_init clears it and nothing ever sets it.
prev_sent_len == 0
\* The first len bytes of a frame: zero bytes are no frame.
Bytes(frame, len) == IF len = 0 THEN <<>> ELSE <<frame>>

(* The events only name the buffer they are about; num is history. *)
FrameEvt        == Event("LINK_RECV_DATA", "LINK_PHY", "frame")
CommandEvt(num) == [evt_type |-> "APP_RECV_DATA", evt_sub_type |-> "USER",
                    msg |-> "recv_buff", num |-> num]
BalancedEvt     == Event("APP_RECV_DATA", "LINK_RECV_DATA", "none")

PostLink(evt) == /\ serialmb' = iec_post_event(serialmb, SerialMb, evt)
                 /\ dropped' = (dropped \/ Len(serialmb) = SerialMb)
PostApp(evt)  == appmb' = iec_post_event(appmb, AppMb, evt)

Took(evt) == FirstIs(serialmb, evt) /\ serialmb' = Tail(serialmb)
Write(fs) == to_primary' = to_primary \o fs
\* obj.write of the frame, and its copy in prev_sent_buff.
Sent(frame) == Write(<<frame>>) /\ prev_sent' = frame
-----------------------------------------------------------------------------
(***************************************************************************)
(* A frame received: serial_link_phy_recv_handle, which copies the         *)
(* driver's bytes to recv_buff before it knows what they are, checks them  *)
(* and dispatches.  A fixed frame is too short to reach the ASDU area.     *)
(***************************************************************************)
Garbled == [num |-> 0, asdu |-> "rejected"]
CommandOf(f) == [num |-> f.num, asdu |-> f.asdu]
Copied == recv_asdu' \in IF rx_buff.FunCode # "FC_DW_DATA_YES" THEN {recv_asdu}
                         ELSE {CommandOf(rx_buff)} \cup (IF rx_buff.ok THEN {} ELSE {Garbled})

GotRequest(codes) == FirstIs(serialmb, FrameEvt) /\ rx_buff.ok /\ rx_buff.FunCode \in codes

\* Mutant: every request is taken for a new one.
CountIgnored == FALSE
IsRepeat == rx_buff.FCB = fcb

\* Mutant: the count bit survives a reset.
CountKept == fcb
CountAfterReset == NoFcb
\* Mutant: data transfer survives a reset.
TransferKept == data_trans_active
TransferAfterReset == 0

\* Mutant: a command is confirmed before the application has seen it.
ConfirmedAtOnce == Write(<<Answer("FC_UP_YES", 0)>>)
ConfirmedLater  == UNCHANGED to_primary

(* A frame whose head, end, checksum or address is wrong: no function code *)
(* is found.  A negative confirmation is not answered either.              *)
NoAnswer ==
  /\ FirstIs(serialmb, FrameEvt)
  /\ ~rx_buff.ok \/ rx_buff.FunCode = "FC_DW_DATA_NO"
  /\ Took(FrameEvt) /\ Copied
  /\ UNCHANGED <<double_dir, active, data_trans_active, acd_tag, fcb, prev_sent, to_primary,
                 appmb, accepted, handed, called>>

(* INVAILD_FCB: the answer before is written again, prev_sent_len bytes of it. *)
Repeat ==
  /\ GotRequest(CountedCodes) /\ IsRepeat
  /\ Took(FrameEvt) /\ Copied
  /\ Write(Bytes(prev_sent, prev_sent_len))
  /\ UNCHANGED <<double_dir, active, data_trans_active, acd_tag, fcb, prev_sent, appmb,
                 accepted, handed, called>>

Accepts == /\ fcb' = rx_buff.FCB
           /\ accepted' = rx_buff.num
           /\ Took(FrameEvt) /\ Copied

(* TO_APP_FIRST, TO_APP_SECOND: the application is asked for the data. *)
DataRequest ==
  /\ GotRequest({"FC_DW_FIRST_DATA", "FC_DW_SEC_DATA"}) /\ ~IsRepeat
  /\ Accepts
  /\ PostApp(ReqEvt(IF rx_buff.FunCode = "FC_DW_FIRST_DATA" THEN "LEVEL_1" ELSE "LEVEL_2"))
  /\ UNCHANGED <<double_dir, active, data_trans_active, acd_tag, prev_sent, to_primary,
                 handed, called>>

(* TO_APP_USER: the address of the ASDU area in recv_buff goes on. *)
UserData ==
  /\ GotRequest({"FC_DW_DATA_YES"}) /\ ~IsRepeat
  /\ Accepts
  /\ active' = 1
  /\ PostApp(CommandEvt(rx_buff.num))
  /\ ConfirmedLater
  /\ handed' = Append(handed, rx_buff.num)
  /\ called' = (called \/ rx_buff.asdu = "call")
  /\ UNCHANGED <<double_dir, data_trans_active, acd_tag, prev_sent>>

(* TO_LINK, TO_LINK_REQ: a fixed frame of the link itself. *)
Reset ==
  /\ GotRequest({"FC_DW_RST_REMOTE"})
  /\ Took(FrameEvt) /\ Copied
  /\ fcb' = CountAfterReset
  /\ active' = 0
  /\ data_trans_active' = TransferAfterReset
  /\ \E a \in serial_link_pack_fixed_frame("FC_UP_YES") : Sent(a)
  /\ called' = FALSE
  /\ UNCHANGED <<double_dir, acd_tag, appmb, accepted, handed>>

LinkAnswers ==
  /\ \/ /\ GotRequest({"FC_DW_REQ"})
        /\ \E a \in serial_link_pack_fixed_frame("FC_UP_YES") : Sent(a)
     \/ /\ GotRequest({"FC_DW_LINK"})
        /\ \E a \in serial_link_pack_fixed_frame("FC_UP_LINK") : Sent(a)
  /\ Took(FrameEvt) /\ Copied
  /\ UNCHANGED <<double_dir, active, data_trans_active, acd_tag, fcb, appmb, accepted, handed,
                 called>>
-----------------------------------------------------------------------------
(* Events of the application: serial_link_app_recv_handle.  It has data of *)
(* a level: on a balanced line it is sent an event it has no case for.     *)
Update(lvl) ==
  /\ Took(UpdateEvt(lvl))
  /\ \/ double_dir = 1 /\ PostApp(BalancedEvt) /\ UNCHANGED acd_tag
     \/ /\ double_dir # 1 /\ UNCHANGED appmb
        /\ acd_tag' = IF lvl = "LEVEL_1" THEN 1 ELSE acd_tag
  /\ UNCHANGED <<double_dir, active, data_trans_active, fcb, recv_asdu, prev_sent, to_primary,
                 accepted, handed, called>>

(* It took the command: now the primary station gets its confirmation. *)
UserAck ==
  /\ Took(UserAckEvt)
  /\ acd_tag' = 1
  /\ Sent(Answer("FC_UP_YES", 1))
  /\ UNCHANGED <<double_dir, active, data_trans_active, fcb, recv_asdu, appmb, accepted,
                 handed, called>>

(* serial_link_asdu_send_evt_handle.  The link looks into the application's *)
(* task list to see whether more class 1 data waits; announcing it once    *)
(* clears the tag.                                                         *)
\* Mutant: the tasks that wait are not looked at.
NothingWaits == 0
app_task_check_empty == IF first_task["LEVEL_1"] > 0 THEN 1 ELSE 0

SendAsdu ==
  /\ Took(SendAsduEvt)
  /\ Sent(serial_link_pack_unfixed_frame(app_task_check_empty))
  /\ acd_tag' = 0
  /\ UNCHANGED <<double_dir, active, data_trans_active, fcb, recv_asdu, appmb, accepted,
                 handed, called>>

SendNone ==
  /\ \E lvl \in Levels : Took(SendNoneEvt(lvl))
  /\ \E a \in serial_link_pack_fixed_frame("FC_UP_NO_DATA") : Sent(a)
  /\ UNCHANGED <<double_dir, active, data_trans_active, acd_tag, fcb, recv_asdu, appmb,
                 accepted, handed, called>>

SerialThread ==
  /\ \/ NoAnswer \/ Repeat \/ DataRequest \/ UserData \/ Reset \/ LinkAnswers
     \/ UserAck \/ SendAsdu \/ SendNone \/ \E lvl \in Levels : Update(lvl)
  /\ UNCHANGED <<rx_buff, first_task, dropped>>

SerialLinkInit(dir) ==
  /\ double_dir = dir
  /\ serialmb = <<>> /\ active = 0 /\ data_trans_active = 0
  /\ acd_tag = 0 /\ fcb = NoFcb
  /\ recv_asdu = Garbled /\ prev_sent = Answer("FC_UP_YES", 0)
  /\ accepted = 0 /\ handed = <<>> /\ called = FALSE
  /\ dropped = FALSE
=============================================================================
