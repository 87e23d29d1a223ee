--------------------------- MODULE SerialSession ---------------------------
(***************************************************************************)
(* One serial line: the link thread, the application thread, the device    *)
(* and the primary station.                                                *)
(***************************************************************************)
EXTENDS SerialApp, Primary

vars == <<serialVars, serialmb, dropped, rx_buff, to_primary, appmb, first_task, appVars,
          primaryVars>>

Init == /\ \E dir \in {0, 1} : SerialLinkInit(dir)
        /\ SerialAppInit /\ PrimaryInit

LinkStep    == SerialThread /\ UNCHANGED <<appVars, primaryVars>>
AppStep     == AppThread /\ UNCHANGED primaryVars
DeviceStep  == Device /\ UNCHANGED primaryVars
PrimaryStep == PrimaryStation /\ UNCHANGED appVars

Next == LinkStep \/ AppStep \/ DeviceStep \/ PrimaryStep

Spec == Init /\ [][Next]_vars
-----------------------------------------------------------------------------
LinkEvts == {FrameEvt, UserAckEvt, SendAsduEvt}
              \cup {UpdateEvt(l) : l \in Levels} \cup {SendNoneEvt(l) : l \in Levels}
AppEvts  == {ReqEvt(l) : l \in Levels} \cup {NodeEvt(l) : l \in Levels}
              \cup {CommandEvt(n) : n \in 1 .. accepted} \cup {BalancedEvt}
Requests == [FunCode : CountedCodes \cup Uncounted, FCB : 0 .. 1, num : 0 .. MaxRequests,
             asdu : Asdus, ok : BOOLEAN]
Answers  == [FunCode : {"FC_UP_YES", "FC_UP_LINK", "FC_UP_NO_DATA", "FC_UP_USER_DATA"},
             ACD : 0 .. 1]

StationType ==
  /\ double_dir \in 0 .. 1 /\ active \in 0 .. 1 /\ data_trans_active \in 0 .. 1
  /\ acd_tag \in 0 .. 1 /\ fcb \in {0, 1, NoFcb}
  /\ recv_asdu \in [num : 0 .. MaxRequests, asdu : Asdus] /\ prev_sent \in Answers
  /\ first_task \in [Levels -> Nat] /\ updates \in 0 .. MaxUpdates
  /\ serialmb \in Seq(LinkEvts) /\ Len(serialmb) <= SerialMb
  /\ appmb \in Seq(AppEvts) /\ Len(appmb) <= AppMb

LineType == rx_buff \in Requests /\ request \in Requests /\ to_primary \in Seq(Answers)

PrimaryType ==
  /\ waiting \in BOOLEAN /\ ready \in BOOLEAN /\ told \in BOOLEAN /\ bit \in 0 .. 1
  /\ repeats \in 0 .. MaxRepeats /\ requests \in 0 .. MaxRequests
  /\ losses \in 0 .. MaxLosses /\ early \in 0 .. MaxEarly

HistoryType ==
  /\ accepted \in 0 .. MaxRequests /\ handed \in Seq(1 .. MaxRequests)
  /\ executed \in Seq([posted : 1 .. MaxRequests, read : 0 .. MaxRequests])
  /\ called \in BOOLEAN /\ dropped \in BOOLEAN

(* Every variable keeps its type: the mailboxes never hold more than their *)
(* slots, and a command event is of a request that was accepted.           *)
TypeOK == StationType /\ LineType /\ PrimaryType /\ HistoryType

Increasing(s) == \A i, j \in DOMAIN s : i < j => s[i] < s[j]

(* A command is handed over to the application once, and commands in their *)
(* order, however often the primary repeats them and resets the link, and  *)
(* although the driver's buffer is overwritten under an event that waits.  *)
CommandsOnce == Increasing(handed)

(* While the primary is never early, a request it has not sent before is   *)
(* never taken for a repeat, whatever was lost, repeated and reset.        *)
Pending == FirstIs(serialmb, FrameEvt) /\ rx_buff.ok /\ rx_buff.FunCode \in CountedCodes
NewIsAccepted ==
  (early = 0 /\ Pending /\ rx_buff.num > accepted) => ~IsRepeat

(* While the primary is never early, the application carries out the       *)
(* command its event was posted for: the receive buffer is not used again  *)
(* before the confirmation, which comes after the command.                 *)
CarriedOutAsHanded ==
  (early = 0) => \A i \in DOMAIN executed : executed[i].posted = executed[i].read

(* While the primary is never early, data is only transferred on a link    *)
(* that had a general call since it was reset, although it is the          *)
(* application that sets what the link clears.                             *)
TransferWasCalled == (early = 0 /\ data_trans_active = 1) => called

(* On an unbalanced line without losses, and unless an event was lost, a   *)
(* primary that is never early knows whenever the station is idle that     *)
(* class 1 data waits, or the next answer tells it: the link looks at the  *)
(* task list and clears the tag while the application adds to the list.    *)
Undisturbed == early = 0 /\ losses = 0 /\ ~dropped
ClassOneAnnounced ==
  (Undisturbed /\ double_dir = 0 /\ Quiet /\ ~waiting /\ first_task["LEVEL_1"] > 0)
    => (told \/ acd_tag = 1)
-----------------------------------------------------------------------------
(* serial_linkdef.h:69-70: prev_sent_buff and prev_sent_len hold the data  *)
(* sent last, and its length: a repeated request is answered with it.      *)
RepeatedIsAnswered ==
  [][Repeat => to_primary' = Append(to_primary, prev_sent)]_vars
=============================================================================
