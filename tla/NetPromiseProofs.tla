-------------------------- MODULE NetPromiseProofs --------------------------
(***************************************************************************)
(* What a connection promises about the frames it numbers: which ASDUs it  *)
(* hands over, that none of them is forgotten before it is acknowledged,   *)
(* and that the link implements the numbering of Apci.                     *)
(***************************************************************************)
EXTENDS NetSessionProofs, FiniteSetTheorems

USE WindowAssumption, WidthAssumption
USE DEF vars, linkVars, apciVars, bufVars, wireVars, appVars, rxVars, masterVars,
        RecvUnchanged, SendUnchanged, HandledUnchanged, MonitorUnchanged, RxUnchanged,
        AppUnchanged, MasterUnchanged

(* The link, its counters and what it handed over belong to its own thread. *)
LEMMA OthersLeaveHandedOver ==
  ASSUME RecvStep \/ AppStep \/ DeviceStep \/ MasterStep \/ MonitorStep \/ UNCHANGED vars
  PROVE  UNCHANGED <<link, apciVars, acked, wire_ack, delivered>>
BY DEF RecvStep, RecvThread, RxTake, RxRead, RxEnd, RxPost, RxDisconnect, RxClose,
       AppStep, AppThread, AppUserData, AppRequest, AppUpdate,
       DeviceStep, Device, DeviceUpdate, MonitorStep, MonitorThread, MonitorCount, MonitorCompare,
       MasterStep, MasterStation, MasterI, MasterS, MasterU, MasterGets, MasterLeaves, Sends
-----------------------------------------------------------------------------
(* The bytes behind an APCI are those of its own frame as long as the       *)
(* buffer starts with that frame.                                          *)
BufferFits == (temp_buff.fmt = "I") => (temp_asdu.ns = temp_buff.ns)

LEMMA BufferStaysFit ==
  ASSUME BufferFits, [Next]_vars
  PROVE  BufferFits'
<1>1. CASE RxRead
  BY <1>1 DEF RxRead, BufferFits
<1>2. CASE ~RxRead
  <2>1. UNCHANGED <<temp_buff, temp_asdu>>
    BY <1>2 DEF Next, LinkStep, LinkThread, DropFrame, IFrameInactive, IFrameActive,
         IFrameFillsWindow, CopyAfterWrite, UFrame, SFrame, UserAck, Update, AppNotifies,
         SendAsdu, SendNone, Timeout, CntFull, Disconnect, MonitorStep, MonitorThread,
         MonitorCount, MonitorCompare, AppStep, AppThread, AppUserData, AppRequest,
         AppUpdate, DeviceStep, Device, DeviceUpdate, RecvStep, RecvThread, RxTake, RxEnd, RxPost,
         RxDisconnect, RxClose, MasterStep, MasterStation, MasterI, MasterS, MasterU, MasterGets,
         MasterLeaves, Sends
  <2> QED BY <2>1 DEF BufferFits
<1> QED BY <1>1, <1>2

(* The frame an ASDU handed over next belongs to: while the link waits in   *)
(* its write, one that is counted and acknowledged already.                *)
NextFrame == IF link = "copy" THEN recv_counter - 1 ELSE recv_counter

Acknowledged == /\ wire_ack <= recv_counter
                /\ (link = "copy") => (wire_ack = recv_counter)

AllBefore == \A i \in DOMAIN delivered : delivered[i].frame < NextFrame

Waiting == {i \in DOMAIN delivered : delivered[i].frame >= wire_ack}

HandedInv == /\ BufferFits /\ Acknowledged /\ AllBefore
             /\ DeliveredAsCounted
             /\ IsFiniteSet(Waiting) /\ BacklogCounted

LEMMA DeliveredTyped ==
  ASSUME TypeOK
  PROVE  /\ Len(delivered) \in Nat /\ DOMAIN delivered = 1 .. Len(delivered)
         /\ \A i \in DOMAIN delivered : delivered[i].frame \in Nat
<1> DEFINE T == [frame : Nat, got : 0 .. SeqMod, late : BOOLEAN]
<1>1. delivered \in Seq(T)
  BY DEF TypeOK, StreamType
<1>2. \A i \in 1 .. Len(delivered) : delivered[i] \in T
  BY <1>1, ElementOfSeq
<1>3. Len(delivered) \in Nat /\ DOMAIN delivered = 1 .. Len(delivered)
  BY <1>1
<1> QED BY <1>2, <1>3

(* The events of one more ASDU handed over. *)
LEMMA OneMore ==
  ASSUME TypeOK, NEW n \in Nat, NEW late \in BOOLEAN, HandOver(n, late)
  PROVE  /\ Len(delivered') = Len(delivered) + 1 /\ Len(delivered) \in Nat
         /\ DOMAIN delivered = 1 .. Len(delivered)
         /\ DOMAIN delivered' = 1 .. Len(delivered) + 1
         /\ \A i \in 1 .. Len(delivered) : delivered'[i] = delivered[i]
         /\ delivered'[Len(delivered) + 1] = [frame |-> n, got |-> temp_asdu.ns, late |-> late]
         /\ \A i \in 1 .. Len(delivered) : delivered[i].frame \in Nat
<1>1. delivered \in Seq([frame : Nat, got : 0 .. SeqMod, late : BOOLEAN])
  BY DEF TypeOK, StreamType
<1>2. delivered' = Append(delivered, [frame |-> n, got |-> temp_asdu.ns, late |-> late])
  BY DEF HandOver
<1> DEFINE T == [frame : Nat, got : 0 .. SeqMod, late : BOOLEAN]
           e == [frame |-> n, got |-> temp_asdu.ns, late |-> late]
<1>3. e \in T
  BY DEF TypeOK, StreamType, AsduAreas
<1>4. /\ Len(delivered') = Len(delivered) + 1
      /\ \A i \in 1 .. Len(delivered) : delivered'[i] = delivered[i]
      /\ delivered'[Len(delivered) + 1] = e
      /\ delivered' \in Seq(T)
  BY <1>1, <1>2, <1>3, AppendProperties
<1>5. DOMAIN delivered' = 1 .. Len(delivered')
  BY <1>4
<1> QED BY <1>4, <1>5, DeliveredTyped

(* Handing over the next frame keeps the order of the frames, and what is   *)
(* not late is the frame it is counted as.                                 *)
LEMMA HandOverInOrder ==
  ASSUME TypeOK, AllBefore, DeliveredAsCounted, NextFrame \in Nat, NEW late \in BOOLEAN,
         HandOver(NextFrame, late), ~late => temp_asdu.ns = NextFrame,
         NextFrame' \in Nat, NextFrame < NextFrame'
  PROVE  AllBefore' /\ DeliveredAsCounted'
<1> DEFINE n == NextFrame  d == Len(delivered)
<1>1. /\ d \in Nat /\ DOMAIN delivered = 1 .. d /\ DOMAIN delivered' = 1 .. d + 1
      /\ \A i \in 1 .. d : delivered'[i] = delivered[i]
      /\ delivered'[d + 1] = [frame |-> n, got |-> temp_asdu.ns, late |-> late]
      /\ \A i \in 1 .. d : delivered[i].frame \in Nat
  BY OneMore
<1>2. \A i \in 1 .. d : delivered[i].frame < n
  BY <1>1 DEF AllBefore
<1>3. ASSUME NEW i \in 1 .. d + 1
      PROVE  /\ delivered'[i].frame < NextFrame'
             /\ ~delivered'[i].late => delivered'[i].got = delivered'[i].frame
             /\ \A j \in 1 .. i - 1 : delivered'[j].frame < delivered'[i].frame
  <2>1. CASE i \in 1 .. d
    <3>1. delivered'[i] = delivered[i] /\ delivered[i].frame < n
      BY <1>1, <1>2, <2>1
    <3>2. delivered'[i].frame < NextFrame'
      BY <1>1, <2>1, <3>1
    <3>3. \A j \in 1 .. i - 1 : delivered'[j] = delivered[j]
      BY <1>1, <2>1
    <3> QED BY <1>1, <2>1, <3>1, <3>2, <3>3 DEF DeliveredAsCounted
  <2>2. CASE i = d + 1
    BY <1>1, <1>2, <2>2
  <2> QED BY <1>1, <2>1, <2>2
<1> QED BY <1>1, <1>3 DEF AllBefore, DeliveredAsCounted

(* Of what waits for its acknowledgement there is one more, or none at all  *)
(* once the counter was put on the wire.                                   *)
LEMMA OneMoreWaits ==
  ASSUME TypeOK, NEW n \in Nat, NEW late \in BOOLEAN, HandOver(n, late), wire_ack' = wire_ack,
         IsFiniteSet(Waiting)
  PROVE  /\ IsFiniteSet(Waiting')
         /\ n < wire_ack => Waiting' = Waiting
         /\ Cardinality(Waiting') <= Cardinality(Waiting) + 1
<1> DEFINE d == Len(delivered)
<1>1. /\ d \in Nat /\ DOMAIN delivered = 1 .. d /\ DOMAIN delivered' = 1 .. d + 1
      /\ \A i \in 1 .. d : delivered'[i] = delivered[i]
      /\ delivered'[d + 1] = [frame |-> n, got |-> temp_asdu.ns, late |-> late]
  BY OneMore
<1>2. wire_ack \in Nat
  BY DEF TypeOK, CounterType
<1>3. Waiting' = IF n >= wire_ack THEN Waiting \cup {d + 1} ELSE Waiting
  <2>0. delivered'[d + 1].frame = n
    BY <1>1
  <2>1. \A i : i \in Waiting' <=> i \in 1 .. d + 1 /\ delivered'[i].frame >= wire_ack
    BY <1>1 DEF Waiting
  <2>2. \A i : i \in Waiting <=> i \in 1 .. d /\ delivered[i].frame >= wire_ack
    BY <1>1 DEF Waiting
  <2>3. \A i : i \in Waiting' <=> i \in Waiting \/ (i = d + 1 /\ n >= wire_ack)
    BY <1>1, <2>0, <2>1, <2>2
  <2> QED BY <2>3
<1>4. Cardinality(Waiting) \in Nat
  BY FS_CardinalityType
<1>5. /\ IsFiniteSet(Waiting \cup {d + 1})
      /\ Cardinality(Waiting \cup {d + 1}) <= Cardinality(Waiting) + 1
  <2>1. /\ IsFiniteSet(Waiting \cup {d + 1})
        /\ Cardinality(Waiting \cup {d + 1})
             = IF d + 1 \in Waiting THEN Cardinality(Waiting) ELSE Cardinality(Waiting) + 1
    BY FS_AddElement
  <2> QED BY <1>4, <2>1
<1> QED BY <1>2, <1>3, <1>4, <1>5

LEMMA NoneWaits ==
  ASSUME AllBefore, TypeOK, delivered' = delivered, wire_ack' \in Nat, NextFrame <= wire_ack',
         NextFrame \in Nat, current_w' \in Nat
  PROVE  IsFiniteSet(Waiting') /\ BacklogCounted'
<1>2. Waiting' = {}
  BY DeliveredTyped DEF Waiting, AllBefore
<1> QED BY <1>2, FS_EmptySet DEF Waiting, BacklogCounted
-----------------------------------------------------------------------------
LEMMA HandedStays ==
  ASSUME TypeOK, HandedInv, [Next]_vars, TypeOK'
  PROVE  HandedInv'
<1>b. BufferFits'
  BY BufferStaysFit DEF HandedInv
<1>t. /\ recv_counter \in Nat /\ wire_ack \in Nat /\ current_w \in 0 .. W - 1
      /\ (link = "copy") => recv_counter > 0
      /\ recv_counter' \in Nat /\ wire_ack' \in Nat /\ current_w' \in Nat
  BY DEF TypeOK, CounterType
<1>n. NextFrame \in Nat /\ NextFrame <= recv_counter
  BY <1>t DEF NextFrame
<1>k. /\ IsFiniteSet(Waiting) /\ Cardinality(Waiting) \in Nat
      /\ Cardinality(Waiting) <= current_w
  BY FS_CardinalityType DEF HandedInv, BacklogCounted, Waiting
\* A step that moves none of the numbers.
<1>0. ASSUME UNCHANGED <<recv_counter, current_w, wire_ack, delivered>>,
             (link = "copy") <=> (link' = "copy")
      PROVE  HandedInv'
  BY <1>0, <1>b DEF HandedInv, Acknowledged, AllBefore, NextFrame, DeliveredAsCounted, Waiting,
                    BacklogCounted
\* A step that acknowledges what was received.
<1>1. ASSUME wire_ack' = recv_counter', recv_counter' \in {recv_counter, recv_counter + 1},
             link # "copy", link' = "copy" => recv_counter' = recv_counter + 1,
             delivered' = delivered
      PROVE  HandedInv'
  <2>1. AllBefore' /\ DeliveredAsCounted'
    <3>2. NextFrame = recv_counter /\ NextFrame' \in {recv_counter, recv_counter + 1}
      <4>1. CASE link' = "copy"
        BY <1>1, <1>t, <4>1 DEF NextFrame
      <4>2. CASE link' # "copy"
        BY <1>1, <1>t, <4>2 DEF NextFrame
      <4> QED BY <4>1, <4>2
    <3> QED BY <1>1, <1>t, <3>2, DeliveredTyped DEF HandedInv, AllBefore, DeliveredAsCounted
  <2>2. IsFiniteSet(Waiting') /\ BacklogCounted'
    BY <1>1, <1>t, <1>n, NoneWaits DEF HandedInv
  <2> QED BY <1>1, <1>b, <1>t, <2>1, <2>2 DEF HandedInv, Acknowledged
<1>2. CASE LinkStep
  <2>1. CASE IFrameInactive
    <3>1. /\ recv_counter' = recv_counter + 1 /\ link = "ready" /\ link' = link
          /\ UNCHANGED <<current_w, wire_ack, delivered>>
      BY <2>1 DEF IFrameInactive, InStepIFrame, GotFrame, Handles
    <3>2. NextFrame = recv_counter /\ NextFrame' = recv_counter + 1
      BY <3>1 DEF NextFrame
    <3>4. AllBefore'
      BY <1>t, <3>1, <3>2, DeliveredTyped DEF HandedInv, AllBefore
    <3> QED BY <1>b, <1>t, <3>1, <3>4 DEF HandedInv, Acknowledged, DeliveredAsCounted, Waiting,
                                           BacklogCounted
  <2>2. CASE IFrameActive
    <3>1. /\ recv_counter' = recv_counter + 1 /\ link = "ready" /\ link' = link
          /\ current_w' = current_w + 1 /\ UNCHANGED wire_ack
          /\ HandOver(recv_counter, FALSE)
          /\ temp_buff.fmt = "I" /\ recv_counter = temp_buff.ns
      BY <2>2 DEF IFrameActive, InStepIFrame, GotFrame, Handles, WithThisFrame,
                  net_link_counter_check
    <3>2. NextFrame = recv_counter /\ NextFrame' = recv_counter + 1
      BY <3>1 DEF NextFrame
    <3>3. AllBefore' /\ DeliveredAsCounted'
      <4>1. HandOver(NextFrame, FALSE) /\ temp_asdu.ns = NextFrame
        BY <3>1, <3>2 DEF HandOver, HandedInv, BufferFits
      <4>2. NextFrame \in Nat /\ NextFrame' \in Nat /\ NextFrame < NextFrame'
        BY <1>t, <3>2
      <4>3. AllBefore /\ DeliveredAsCounted
        BY DEF HandedInv
      <4> QED BY ONLY <4>1, <4>2, <4>3, TypeOK, HandOverInOrder
    <3>4. IsFiniteSet(Waiting') /\ Cardinality(Waiting') <= Cardinality(Waiting) + 1
      BY <1>t, <1>k, <3>1, OneMoreWaits
    <3>5. BacklogCounted'
      <4>1. Cardinality(Waiting') \in Nat
        BY <3>4, FS_CardinalityType
      <4> QED BY <1>t, <1>k, <3>1, <3>4, <4>1 DEF Waiting, BacklogCounted
    <3> QED BY <1>b, <1>t, <3>1, <3>3, <3>4, <3>5 DEF HandedInv, Acknowledged
  <2>3. CASE IFrameFillsWindow
    BY <1>1, <2>3 DEF IFrameFillsWindow, InStepIFrame, GotFrame, Handles
  <2>4. CASE CopyAfterWrite
    <3>1. /\ link = "copy" /\ link' = "ready" /\ UNCHANGED <<recv_counter, current_w, wire_ack>>
          /\ HandOver(recv_counter - 1, TRUE)
      BY <2>4 DEF CopyAfterWrite
    <3>2. /\ NextFrame = recv_counter - 1 /\ NextFrame' = recv_counter
          /\ wire_ack = recv_counter
      BY <3>1 DEF NextFrame, HandedInv, Acknowledged
    <3>3. AllBefore' /\ DeliveredAsCounted'
      <4>1. HandOver(NextFrame, TRUE)
        BY <3>1, <3>2 DEF HandOver
      <4>2. NextFrame \in Nat /\ NextFrame' \in Nat /\ NextFrame < NextFrame'
        BY <1>t, <3>1, <3>2
      <4>3. AllBefore /\ DeliveredAsCounted
        BY DEF HandedInv
      <4> QED BY ONLY <4>1, <4>2, <4>3, TypeOK, HandOverInOrder
    <3>4. IsFiniteSet(Waiting') /\ Waiting' = Waiting
      <4>1. recv_counter - 1 \in Nat /\ recv_counter - 1 < wire_ack /\ TRUE \in BOOLEAN
        BY <1>t, <3>1, <3>2
      <4> QED BY <1>k, <3>1, <4>1, OneMoreWaits
    <3> QED BY <1>b, <1>t, <1>k, <3>1, <3>3, <3>4 DEF HandedInv, Acknowledged, Waiting,
                                                       BacklogCounted
  <2>5. ASSUME NEW t \in Timers, Timeout(t) PROVE HandedInv'
    BY <1>0, <1>1, <2>5 DEF Timeout, Handles
  <2>6. CASE SendAsdu \/ SendNone
    <3>1. link = "ready" /\ UNCHANGED <<link, recv_counter, current_w, delivered>>
      BY <2>6 DEF SendAsdu, SendNone, Handles
    <3>2. wire_ack' \in {wire_ack, recv_counter}
      BY <2>6 DEF SendAsdu, SendNone, SignalFull
    <3> QED BY <1>0, <1>1, <3>1, <3>2
  <2>7. CASE DropFrame \/ UFrame \/ SFrame \/ UserAck \/ Update \/ CntFull \/ Disconnect
    BY <1>0, <2>7 DEF DropFrame, UFrame, SFrame, UserAck, Update, AppNotifies, CntFull,
                      Disconnect, Handles
  <2> QED BY <1>2, <2>1, <2>2, <2>3, <2>4, <2>5, <2>6, <2>7 DEF LinkStep, LinkThread
<1>3. CASE RecvStep \/ AppStep \/ DeviceStep \/ MasterStep \/ MonitorStep \/ UNCHANGED vars
  BY <1>0, <1>3, OthersLeaveHandedOver
<1> QED BY <1>2, <1>3 DEF Next

LEMMA HandedHolds == Spec => []HandedInv
<1>1. Init => HandedInv
  <2> SUFFICES ASSUME Init PROVE HandedInv
    OBVIOUS
  <2>1. /\ delivered = <<>> /\ recv_counter = 0 /\ wire_ack = 0 /\ link = "ready"
        /\ current_w = 0 /\ temp_buff.fmt = "U"
    BY DEF Init, NetLinkInit, SocketRecvInit, Frame
  <2>2. Waiting = {}
    BY <2>1 DEF Waiting
  <2> QED BY <2>1, <2>2, FS_EmptySet DEF HandedInv, BufferFits, Acknowledged, AllBefore,
                DeliveredAsCounted, Waiting, BacklogCounted
<1>2. TypeOK /\ TypeOK' /\ HandedInv /\ [Next]_vars => HandedInv'
  BY HandedStays
<1> QED BY <1>1, <1>2, TypeCorrect, PTL DEF Spec

(* The ASDUs the application was given and no frame has confirmed yet are   *)
(* at most the current_w the link counts: none is forgotten.               *)
THEOREM BacklogIsCounted == Spec => []BacklogCounted
<1>1. HandedInv => BacklogCounted
  BY DEF HandedInv
<1> QED BY <1>1, HandedHolds, PTL

(* An ASDU handed over without a write in between belongs to the frame that *)
(* was counted, and no frame is handed over twice or after a later one.    *)
THEOREM CountedAreDelivered == Spec => []DeliveredAsCounted
<1>1. HandedInv => DeliveredAsCounted
  BY DEF HandedInv
<1> QED BY <1>1, HandedHolds, PTL
-----------------------------------------------------------------------------
(* Every I frame under way to the master has a number of its own that was   *)
(* used and that the master has not counted: a number the link used up     *)
(* without a frame is just missing between two of them.                    *)
NumbersFit(num, frames, from, to) ==
  \A i \in 1 .. Len(frames) : frames[i].fmt = "I" =>
    /\ from <= num[i] /\ num[i] < to
    /\ \A j \in 1 .. i - 1 : frames[j].fmt = "I" => num[j] < num[i]

UnderWay == \E num \in [1 .. Len(to_master) -> Nat] : NumbersFit(num, to_master, vr, sent_counter)

PromiseInv == UnderWay /\ vr <= sent_counter /\ NumbersFromPast

LEMMA WriteNumbers ==
  ASSUME TypeOK, UnderWay, NEW f \in Frames, Write(<<f>>), vr' = vr, sent_counter' \in Nat,
         sent_counter' >= sent_counter, f.fmt = "I" => sent_counter' > sent_counter,
         vr <= sent_counter
  PROVE  UnderWay'
<1> DEFINE n == Len(to_master)
<1>1. to_master \in Seq(Frames) /\ n \in Nat /\ vr \in Nat /\ sent_counter \in Nat
  BY DEF TypeOK, StreamType, OthersType, CounterType
<1>2. PICK num \in [1 .. n -> Nat] : NumbersFit(num, to_master, vr, sent_counter)
  BY DEF UnderWay
<1>n. ASSUME NEW i \in 1 .. n, to_master[i].fmt = "I"
      PROVE  /\ num[i] \in Nat /\ vr <= num[i] /\ num[i] < sent_counter /\ num[i] < sent_counter'
             /\ \A j \in 1 .. i - 1 : to_master[j].fmt = "I" => num[j] < num[i]
  <2>1. num[i] \in Nat /\ vr <= num[i] /\ num[i] < sent_counter
    BY <1>2, <1>n DEF NumbersFit
  <2>2. \A j \in 1 .. i - 1 : to_master[j].fmt = "I" => num[j] < num[i]
    BY <1>2, <1>n DEF NumbersFit
  <2>3. num[i] < sent_counter'
    BY <1>1, <2>1
  <2> QED BY <2>1, <2>2, <2>3
<1>3. CASE to_master' = to_master
  <2>1. NumbersFit(num, to_master', vr', sent_counter')
    BY <1>3, <1>n DEF NumbersFit
  <2> QED BY <1>3, <2>1 DEF UnderWay
<1>4. CASE to_master' = to_master \o <<f>>
  <2>1. /\ Len(to_master') = n + 1 /\ to_master'[n + 1] = f
        /\ \A i \in 1 .. n : to_master'[i] = to_master[i]
    BY <1>1, <1>4
  <2> DEFINE new == [i \in 1 .. n + 1 |-> IF i = n + 1 THEN sent_counter ELSE num[i]]
  <2>2. new \in [1 .. n + 1 -> Nat] /\ new[n + 1] = sent_counter /\ \A i \in 1 .. n : new[i] = num[i]
    BY <1>1
  <2> HIDE DEF new
  <2>3. ASSUME NEW i \in 1 .. n + 1, to_master'[i].fmt = "I"
        PROVE  /\ vr <= new[i] /\ new[i] < sent_counter'
               /\ \A j \in 1 .. i - 1 : to_master'[j].fmt = "I" => new[j] < new[i]
    <3>1. CASE i = n + 1
      <4>1. f.fmt = "I" /\ new[i] = sent_counter /\ sent_counter < sent_counter'
        BY <1>1, <2>1, <2>2, <2>3, <3>1
      <4>2. ASSUME NEW j \in 1 .. i - 1, to_master'[j].fmt = "I" PROVE new[j] < new[i]
        <5>1. j \in 1 .. n
          BY <1>1, <3>1
        <5> QED BY <2>1, <2>2, <1>n, <4>1, <4>2, <5>1
      <4> QED BY <4>1, <4>2
    <3>2. CASE i \in 1 .. n
      <4>1. to_master[i].fmt = "I" /\ new[i] = num[i]
        BY <2>1, <2>2, <2>3, <3>2
      <4>2. \A j \in 1 .. i - 1 : j \in 1 .. n
        BY <1>1, <3>2
      <4> QED BY <2>1, <2>2, <1>n, <3>2, <4>1, <4>2
    <3> QED BY <1>1, <3>1, <3>2
  <2>4. NumbersFit(new, to_master', vr', sent_counter')
    BY <2>1, <2>3 DEF NumbersFit
  <2> QED BY <2>1, <2>2, <2>4 DEF UnderWay
<1> QED BY <1>3, <1>4 DEF Write

(* The master gets the first frame under way: the numbers of the others are *)
(* larger, so its count stays behind all of them.                          *)
LEMMA GetsNumbers ==
  ASSUME TypeOK, PromiseInv, MasterGets, sent_counter' = sent_counter
  PROVE  /\ UnderWay' /\ vr' <= sent_counter
         /\ vr' # vr => vr' = vr + 1 /\ vr < sent_counter
<1> DEFINE n == Len(to_master)
<1>1. /\ to_master \in Seq(Frames) /\ n \in Nat \ {0} /\ vr \in Nat /\ sent_counter \in Nat
      /\ to_master' = Tail(to_master)
      /\ vr' = IF to_master[1].fmt = "I" THEN vr + 1 ELSE vr
  BY DEF MasterGets, TypeOK, StreamType, OthersType, CounterType
<1>2. PICK num \in [1 .. n -> Nat] : NumbersFit(num, to_master, vr, sent_counter)
  BY DEF PromiseInv, UnderWay
<1>3. Len(to_master') = n - 1 /\ \A i \in 1 .. n - 1 : to_master'[i] = to_master[i + 1]
  BY <1>1
<1> DEFINE new == [i \in 1 .. n - 1 |-> num[i + 1]]
<1>4. new \in [1 .. n - 1 -> Nat] /\ \A i \in 1 .. n - 1 : new[i] = num[i + 1]
  BY <1>1
<1>5. num[1] \in Nat /\ (to_master[1].fmt = "I" => vr <= num[1] /\ num[1] < sent_counter)
  BY <1>1, <1>2 DEF NumbersFit
<1> HIDE DEF new
<1>6. ASSUME NEW i \in 1 .. n - 1, to_master'[i].fmt = "I"
      PROVE  /\ vr' <= new[i] /\ new[i] < sent_counter
             /\ \A j \in 1 .. i - 1 : to_master'[j].fmt = "I" => new[j] < new[i]
  <2>1. i + 1 \in 1 .. n /\ 1 \in 1 .. i + 1 - 1 /\ num[i + 1] \in Nat /\ to_master[i + 1].fmt = "I"
    BY <1>1, <1>3, <1>6
  <2>2. /\ vr <= num[i + 1] /\ num[i + 1] < sent_counter
        /\ \A j \in 1 .. i + 1 - 1 : to_master[j].fmt = "I" => num[j] < num[i + 1]
    BY <1>2, <2>1 DEF NumbersFit
  <2>3. vr' <= num[i + 1]
    BY <1>1, <1>5, <2>1, <2>2
  <2>4. \A j \in 1 .. i - 1 : j + 1 \in 1 .. i + 1 - 1 /\ j \in 1 .. n - 1
    BY <1>1
  <2> QED BY <1>3, <1>4, <2>2, <2>3, <2>4
<1>7. NumbersFit(new, to_master', vr', sent_counter')
  BY <1>3, <1>6 DEF NumbersFit
<1> QED BY <1>1, <1>3, <1>4, <1>5, <1>7 DEF UnderWay, PromiseInv

(* Only the receiving of a frame moves the master's count, and only what    *)
(* the link writes is added to what is under way.                          *)
LEMMA PromiseStays ==
  ASSUME TypeOK, PromiseInv, [Next]_vars, TypeOK'
  PROVE  PromiseInv'
<1>n. NumbersFromPast'
  BY NumbersStayInPast DEF PromiseInv
<1>t. /\ vr \in Nat /\ sent_counter \in Nat /\ recv_counter \in Nat
      /\ to_master \in Seq(Frames) /\ temp_buff \in SlaveFrames
      /\ sent_counter' \in Nat /\ vr <= sent_counter
  BY DEF TypeOK, CounterType, StreamType, OthersType, PromiseInv
\* Nothing is written.
<1>0. ASSUME to_master' = to_master, vr' = vr, sent_counter' = sent_counter PROVE PromiseInv'
  BY <1>0, <1>n DEF PromiseInv, UnderWay
\* A frame is written, for which a number is used if it is an I frame.
<1>1. ASSUME NEW f \in Frames, Write(<<f>>), vr' = vr, sent_counter' >= sent_counter,
             f.fmt = "I" => sent_counter' > sent_counter
      PROVE  PromiseInv'
  <2>1. UnderWay'
    BY <1>1, <1>t, WriteNumbers DEF PromiseInv
  <2> QED BY <1>1, <1>n, <1>t, <2>1 DEF PromiseInv
\* A number is used up without a frame.
<1>2. ASSUME to_master' = to_master, vr' = vr, sent_counter' = sent_counter + 1 PROVE PromiseInv'
  <2>1. PICK num \in [1 .. Len(to_master) -> Nat] :
          NumbersFit(num, to_master, vr, sent_counter)
    BY DEF PromiseInv, UnderWay
  <2>2. \A i \in 1 .. Len(to_master) : num[i] \in Nat
    BY <2>1
  <2>3. NumbersFit(num, to_master', vr', sent_counter')
    BY <1>2, <1>t, <2>1, <2>2 DEF NumbersFit
  <2> QED BY <1>2, <1>n, <1>t, <2>1, <2>3 DEF PromiseInv, UnderWay
<1>3. CASE LinkStep
  <2>0. vr' = vr
    BY <1>3 DEF LinkStep
  <2>1. CASE IFrameFillsWindow
    <3>1. /\ net_link_pack_S_frame(recv_counter + 1) \in Frames
          /\ net_link_pack_S_frame(recv_counter + 1).fmt = "S"
      <4>1. recv_counter + 1 \in Nat
        BY <1>t
      <4>2. net_link_pack_S_frame(recv_counter + 1) \in Frames
        BY <4>1, FrameTypes
      <4> QED BY <4>2 DEF net_link_pack_S_frame, Frame
    <3> QED BY <1>1, <1>t, <2>0, <2>1, <3>1 DEF IFrameFillsWindow
  <2>2. CASE UFrame
    <3>1. /\ net_link_pack_U_frame(temp_buff.body) \in Frames
          /\ net_link_pack_U_frame(temp_buff.body).fmt = "U"
      BY <1>t, FrameTypes DEF net_link_pack_U_frame, Frame, SlaveFrames, Frames
    <3> QED BY <1>1, <1>t, <2>0, <2>2, <3>1 DEF UFrame
  <2>3. CASE SendAsdu
    <3>1. SendBuff \in Frames
      BY <1>t, FrameTypes DEF SendBuff
    <3>2. CASE HasRoom
      BY <1>1, <1>t, <2>0, <2>3, <3>1, <3>2 DEF SendAsdu, CountSent
    <3>3. CASE ~HasRoom
      BY <1>0, <2>0, <2>3, <3>3 DEF SendAsdu, SignalFull
    <3> QED BY <3>2, <3>3
  <2>4. CASE SendNone
    <3>1. \/ to_master' = to_master /\ sent_counter' = sent_counter + 1
          \/ to_master' = to_master /\ sent_counter' = sent_counter
      BY <2>4 DEF SendNone, CountSent, SignalFull
    <3> QED BY <1>0, <1>2, <2>0, <3>1
  <2>5. ASSUME NEW t \in Timers, Timeout(t) PROVE PromiseInv'
    <3>0. sent_counter' = sent_counter
      BY <2>5 DEF Timeout
    <3>1. CASE t = "T2"
      <4>1. /\ net_link_pack_S_frame(recv_counter) \in Frames
            /\ net_link_pack_S_frame(recv_counter).fmt = "S"
        BY <1>t, FrameTypes DEF net_link_pack_S_frame, Frame
      <4> QED BY <1>1, <1>t, <2>0, <2>5, <3>0, <3>1, <4>1 DEF Timeout
    <3>2. CASE t = "T3"
      <4>1. /\ net_link_pack_U_frame("TESTFR") \in Frames
            /\ net_link_pack_U_frame("TESTFR").fmt = "U"
        BY <1>t, FrameTypes DEF net_link_pack_U_frame, Frame, UActs
      <4> QED BY <1>1, <1>t, <2>0, <2>5, <3>0, <3>2, <4>1 DEF Timeout
    <3>3. CASE t \notin {"T2", "T3"}
      <4>1. Write(<<>>)
        BY <2>5, <3>3 DEF Timeout
      <4>2. to_master' = to_master
        BY <1>t, <4>1 DEF Write
      <4> QED BY <1>0, <2>0, <3>0, <4>2
    <3> QED BY <3>1, <3>2, <3>3
  <2>6. CASE DropFrame \/ IFrameInactive \/ IFrameActive \/ CopyAfterWrite \/ SFrame \/ UserAck
               \/ Update \/ CntFull \/ Disconnect
    BY <1>0, <2>0, <2>6 DEF DropFrame, IFrameInactive, IFrameActive, CopyAfterWrite, SFrame,
         UserAck, Update, AppNotifies, CntFull, Disconnect
  <2> QED BY <1>3, <2>1, <2>2, <2>3, <2>4, <2>5, <2>6 DEF LinkStep, LinkThread
<1>4. CASE RecvStep \/ AppStep \/ DeviceStep \/ MonitorStep \/ UNCHANGED vars
  <2>1. UNCHANGED <<to_master, vr>>
    BY <1>4 DEF RecvStep, RecvThread, RxTake, RxRead, RxEnd, RxPost, RxDisconnect, RxClose,
         AppStep, AppThread, AppUserData, AppRequest, AppUpdate, DeviceStep, Device, DeviceUpdate,
         MonitorStep, MonitorThread, MonitorCount, MonitorCompare
  <2>2. sent_counter' = sent_counter
    BY <1>4, OthersLeaveHandedOver
  <2> QED BY <1>0, <2>1, <2>2
<1>5. CASE MasterStep
  <2>0. sent_counter' = sent_counter
    BY <1>5, OthersLeaveHandedOver
  <2>1. CASE MasterGets
    BY <1>n, <1>t, <2>0, <2>1, GetsNumbers DEF PromiseInv
  <2>2. CASE MasterLeaves
    <3>1. to_master' = <<>> /\ vr' = vr
      BY <2>2 DEF MasterLeaves
    <3>2. UnderWay'
      <4>1. NumbersFit(<<>>, to_master', vr', sent_counter') /\ <<>> \in [1 .. Len(to_master') -> Nat]
        BY <3>1 DEF NumbersFit
      <4> QED BY <4>1 DEF UnderWay
    <3> QED BY <1>n, <1>t, <2>0, <3>1, <3>2 DEF PromiseInv
  <2>3. CASE MasterI \/ MasterS \/ MasterU
    BY <1>0, <2>0, <2>3 DEF MasterI, MasterS, MasterU, Sends
  <2> QED BY <1>5, <2>1, <2>2, <2>3 DEF MasterStep, MasterStation
<1> QED BY <1>3, <1>4, <1>5 DEF Next

LEMMA PromiseHolds == Spec => []PromiseInv
<1>1. Init => PromiseInv
  <2> SUFFICES ASSUME Init PROVE PromiseInv
    OBVIOUS
  <2>1. /\ temp_buff.nr = 0 /\ vr = 0 /\ sent_counter = 0 /\ to_slave = <<>> /\ to_master = <<>>
    BY DEF Init, NetLinkInit, SocketRecvInit, MasterInit, Frame
  <2>2. NumbersFit(<<>>, to_master, vr, sent_counter) /\ <<>> \in [1 .. Len(to_master) -> Nat]
    BY <2>1 DEF NumbersFit
  <2>3. UnderWay
    BY <2>2 DEF UnderWay
  <2>4. NumbersFromPast
    BY <2>1 DEF NumbersFromPast
  <2> QED BY <2>1, <2>3, <2>4 DEF PromiseInv
<1>2. TypeOK /\ TypeOK' /\ PromiseInv /\ [Next]_vars => PromiseInv'
  BY PromiseStays
<1> QED BY <1>1, <1>2, TypeCorrect, PTL DEF Spec
-----------------------------------------------------------------------------
(* Every step of a connection is a step of the numbering, or leaves it.     *)
LEMMA StepIsPromised ==
  ASSUME TypeOK, PromiseInv, SendWindow, [Next]_vars
  PROVE  [Promise!Next]_(Promise!apci)
<1> USE DEF Promise!apci
<1>t. /\ vr \in Nat /\ sent_counter \in Nat /\ recv_counter \in Nat /\ acked \in Nat
      /\ vr <= sent_counter /\ current_k = sent_counter - acked /\ current_k \in Nat
  BY DEF TypeOK, CounterType, OthersType, PromiseInv, SendWindow
<1>0. ASSUME UNCHANGED <<sent_counter, acked, recv_counter, wire_ack, vr>>
      PROVE  [Promise!Next]_(Promise!apci)
  BY <1>0
<1>1. CASE LinkStep
  <2>0. vr' = vr
    BY <1>1 DEF LinkStep
  <2>1. CASE IFrameInactive \/ IFrameActive \/ IFrameFillsWindow
    <3>1. Promise!Receive
      BY <2>0, <2>1 DEF IFrameInactive, IFrameActive, IFrameFillsWindow, Promise!Receive
    <3> QED BY <3>1 DEF Promise!Next
  <2>2. CASE SFrame
    <3>1. sent_counter = temp_buff.nr
      BY <2>2 DEF SFrame, net_link_counter_check
    <3>2. vr = sent_counter
      BY <1>t, <3>1 DEF PromiseInv, NumbersFromPast
    <3>3. Promise!Confirm
      BY <2>0, <2>2, <3>2 DEF SFrame, Promise!Confirm
    <3> QED BY <3>3 DEF Promise!Next
  <2>3. CASE SendAsdu \/ SendNone
    <3>1. CASE HasRoom
      <4>1. sent_counter - acked < K
        BY <1>t, <3>1 DEF HasRoom
      <4>2. /\ sent_counter' = sent_counter + 1 /\ wire_ack' \in {wire_ack, recv_counter}
            /\ UNCHANGED <<acked, recv_counter>>
        BY <2>3, <3>1 DEF SendAsdu, SendNone, CountSent
      <4>3. Promise!Send
        BY <2>0, <4>1, <4>2 DEF Promise!Send
      <4> QED BY <4>3 DEF Promise!Next
    <3>2. CASE ~HasRoom
      BY <1>0, <2>0, <2>3, <3>2 DEF SendAsdu, SendNone, SignalFull
    <3> QED BY <3>1, <3>2
  <2>4. ASSUME NEW t \in Timers, Timeout(t) PROVE [Promise!Next]_(Promise!apci)
    <3>1. CASE t = "T2"
      <4>1. Promise!Acknowledge
        BY <2>0, <2>4, <3>1 DEF Timeout, Promise!Acknowledge
      <4> QED BY <4>1 DEF Promise!Next
    <3>2. CASE t # "T2"
      BY <1>0, <2>0, <2>4, <3>2 DEF Timeout
    <3> QED BY <3>1, <3>2
  <2>5. CASE DropFrame \/ CopyAfterWrite \/ UFrame \/ UserAck \/ Update \/ CntFull \/ Disconnect
    BY <1>0, <2>0, <2>5 DEF DropFrame, CopyAfterWrite, UFrame, UserAck, Update, AppNotifies,
         CntFull, Disconnect
  <2> QED BY <1>1, <2>1, <2>2, <2>3, <2>4, <2>5 DEF LinkStep, LinkThread
<1>2. CASE RecvStep \/ AppStep \/ DeviceStep \/ MonitorStep \/ UNCHANGED vars
  <2>1. vr' = vr
    BY <1>2 DEF RecvStep, AppStep, DeviceStep, MonitorStep
  <2> QED BY <1>0, <1>2, <2>1, OthersLeaveHandedOver
<1>3. CASE MasterStep
  <2>1. UNCHANGED <<sent_counter, acked, recv_counter, wire_ack>>
    BY <1>3, OthersLeaveHandedOver
  <2>2. CASE MasterGets
    <3>1. vr' = vr \/ (vr' = vr + 1 /\ vr < sent_counter)
      BY <2>1, <2>2, GetsNumbers
    <3>2. CASE vr' = vr
      BY <1>0, <2>1, <3>2
    <3>3. CASE vr' = vr + 1 /\ vr < sent_counter
      BY <2>1, <3>3 DEF Promise!PeerReceives, Promise!Next
    <3> QED BY <3>1, <3>2, <3>3
  <2>3. CASE MasterI \/ MasterS \/ MasterU \/ MasterLeaves
    BY <1>0, <2>1, <2>3 DEF MasterI, MasterS, MasterU, MasterLeaves, Sends
  <2> QED BY <1>3, <2>2, <2>3 DEF MasterStep, MasterStation
<1> QED BY <1>1, <1>2, <1>3 DEF Next

(* The connection implements the numbering of Apci, with the master as the  *)
(* peer: never more than K numbers stand unconfirmed, they are confirmed   *)
(* only when the peer has received every one of them, and only what was    *)
(* received is acknowledged.                                               *)
THEOREM NumberingImplemented == Spec => ImplementsApci
<1>1. Init => Promise!Init
  BY DEF Init, NetLinkInit, MasterInit, Promise!Init
<1>2. TypeOK /\ PromiseInv /\ SendWindow /\ [Next]_vars => [Promise!Next]_(Promise!apci)
  BY StepIsPromised
<1> QED
  BY <1>1, <1>2, TypeCorrect, PromiseHolds, WindowCounted, PTL
     DEF Spec, ImplementsApci, Promise!Spec
=============================================================================
