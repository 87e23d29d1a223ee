---------------------------- MODULE SerialProofs ----------------------------
(***************************************************************************)
(* A command is handed over to the application once, and every variable    *)
(* keeps its type, for all sizes of the mailboxes, all numbers of losses   *)
(* and repeats and a primary station that may always be early.             *)
(*                                                                         *)
(* The argument is about the one frame in the driver's buffer: it is the   *)
(* last request, and if that is the request accepted last then the link    *)
(* holds its count bit, unless it is not counted at all.  A reset forgets  *)
(* the bit, but only when the reset itself is what the buffer holds.       *)
(***************************************************************************)
EXTENDS SerialSession, SequenceTheorems, TLAPS

AnyRequest == [FunCode : CountedCodes \cup Uncounted, FCB : 0 .. 1, num : Nat,
               asdu : Asdus, ok : BOOLEAN]

\* What is in the driver's buffer, as it was sent or garbled.
BufferedIsLast ==
  /\ request \in AnyRequest /\ bit \in 0 .. 1
  /\ rx_buff \in {request, [request EXCEPT !.ok = FALSE]}

\* The bit of the request accepted last is the link's.
LastIsCounted ==
  /\ accepted \in Nat /\ accepted <= request.num
  /\ (request.FunCode \in CountedCodes /\ request.num = accepted) => (request.FCB = fcb)

HandedInOrder ==
  /\ handed \in Seq(Nat)
  /\ \A i \in DOMAIN handed : handed[i] <= accepted
  /\ CommandsOnce

OnceInv == BufferedIsLast /\ LastIsCounted /\ HandedInOrder

onceVars == <<request, bit, rx_buff, accepted, fcb, handed>>
-----------------------------------------------------------------------------
(* Appending what is greater than every element keeps a sequence increasing. *)
LEMMA AppendIncreasing ==
  ASSUME NEW s \in Seq(Nat), NEW top \in Nat, NEW n \in Nat, n > top,
         Increasing(s), \A i \in DOMAIN s : s[i] <= top
  PROVE  /\ Append(s, n) \in Seq(Nat)
         /\ Increasing(Append(s, n))
         /\ \A i \in DOMAIN Append(s, n) : Append(s, n)[i] <= n
<1> DEFINE t == Append(s, n)
<1>1. t \in Seq(Nat) /\ Len(t) = Len(s) + 1 /\ DOMAIN t = 1 .. Len(s) + 1
  BY AppendProperties
<1>2. DOMAIN s = 1 .. Len(s) /\ Len(s) \in Nat
  OBVIOUS
<1>3. \A i \in 1 .. Len(s) : t[i] = s[i] /\ s[i] \in Nat
  BY <1>2, AppendProperties
<1>4. t[Len(s) + 1] = n
  BY AppendProperties
<1> HIDE DEF t
<1>5. \A i \in DOMAIN t : t[i] <= n
  <2>1. \A i \in 1 .. Len(s) : t[i] <= top
    BY <1>2, <1>3
  <2>2. \A i \in 1 .. Len(s) + 1 : i \in 1 .. Len(s) \/ i = Len(s) + 1
    BY <1>2
  <2>3. \A i \in 1 .. Len(s) : t[i] \in Nat
    BY <1>3
  <2>4. \A i \in 1 .. Len(s) : t[i] <= n
    BY <2>1, <2>3
  <2> QED BY <1>1, <1>4, <2>2, <2>4
<1>6. Increasing(t)
  <2>1. SUFFICES ASSUME NEW i \in DOMAIN t, NEW j \in DOMAIN t, i < j
                 PROVE  t[i] < t[j]
    BY DEF Increasing
  <2>2. i \in 1 .. Len(s)
    BY <2>1, <1>1, <1>2
  <2>3. CASE j \in 1 .. Len(s)
    BY <2>1, <2>2, <2>3, <1>2, <1>3 DEF Increasing
  <2>4. CASE j = Len(s) + 1
    BY <2>2, <2>4, <1>2, <1>3, <1>4
  <2> QED BY <2>3, <2>4, <1>1, <1>2
<1> QED BY <1>1, <1>5, <1>6 DEF t

(* The link accepts a request only when it is not the one before. *)
LEMMA AcceptedIsNew ==
  ASSUME OnceInv, GotRequest(CountedCodes), ~IsRepeat, Accepts
  PROVE  /\ rx_buff.num = request.num /\ rx_buff.FCB = request.FCB
         /\ accepted' = request.num /\ fcb' = request.FCB
         /\ accepted < accepted' /\ accepted' \in Nat
<1>1. /\ rx_buff.num = request.num /\ rx_buff.FCB = request.FCB
      /\ rx_buff.FunCode = request.FunCode /\ request.num \in Nat
  BY DEF OnceInv, BufferedIsLast, AnyRequest
<1>2. request.num # accepted
  BY <1>1 DEF OnceInv, LastIsCounted, GotRequest, IsRepeat
<1> QED BY <1>1, <1>2 DEF OnceInv, LastIsCounted, Accepts

LEMMA LinkKeepsOnce ==
  ASSUME OnceInv, SerialThread, UNCHANGED primaryVars
  PROVE  OnceInv'
<1>1. UNCHANGED <<request, bit, rx_buff>>
  BY DEF SerialThread, primaryVars
<1>2. BufferedIsLast'
  BY <1>1 DEF OnceInv, BufferedIsLast
<1>3. CASE DataRequest
  <2>1. GotRequest(CountedCodes)
    BY <1>3 DEF DataRequest, GotRequest, CountedCodes
  <2>2. accepted' = request.num /\ fcb' = request.FCB /\ accepted < accepted' /\ accepted' \in Nat
    BY <1>3, <2>1, AcceptedIsNew DEF DataRequest
  <2>3. LastIsCounted'
    BY <1>1, <2>2 DEF LastIsCounted
  <2>4. handed' = handed
    BY <1>3 DEF DataRequest
  <2>5. HandedInOrder'
    <3>1. handed \in Seq(Nat) /\ accepted \in Nat
      BY DEF OnceInv, LastIsCounted, HandedInOrder
    <3>2. \A i \in DOMAIN handed : handed[i] \in Nat
      BY <3>1
    <3> QED BY <2>2, <2>4, <3>1, <3>2 DEF OnceInv, HandedInOrder, CommandsOnce
  <2> QED BY <1>2, <2>3, <2>5 DEF OnceInv
<1>4. CASE UserData
  <2>1. GotRequest(CountedCodes)
    BY <1>4 DEF UserData, GotRequest, CountedCodes
  <2>2. /\ rx_buff.num = request.num /\ accepted' = request.num /\ fcb' = request.FCB
        /\ accepted < accepted' /\ accepted' \in Nat
    BY <1>4, <2>1, AcceptedIsNew DEF UserData
  <2>3. LastIsCounted'
    BY <1>1, <2>2 DEF LastIsCounted
  <2>4. handed' = Append(handed, accepted')
    BY <1>4, <2>2 DEF UserData
  <2>5. HandedInOrder'
    BY <2>2, <2>4, AppendIncreasing DEF OnceInv, LastIsCounted, HandedInOrder, CommandsOnce
  <2> QED BY <1>2, <2>3, <2>5 DEF OnceInv
<1>5. CASE Reset
  <2>1. request.FunCode \notin CountedCodes
    BY <1>5 DEF Reset, GotRequest, OnceInv, BufferedIsLast, AnyRequest, CountedCodes
  <2>2. UNCHANGED <<accepted, handed>>
    BY <1>5 DEF Reset
  <2> QED BY <1>1, <1>2, <2>1, <2>2 DEF OnceInv, LastIsCounted, HandedInOrder, CommandsOnce
<1>6. CASE \/ NoAnswer \/ Repeat \/ LinkAnswers \/ UserAck \/ SendAsdu \/ SendNone
           \/ \E lvl \in Levels : Update(lvl)
  <2>1. UNCHANGED <<accepted, handed, fcb>>
    BY <1>6 DEF NoAnswer, Repeat, LinkAnswers, UserAck, SendAsdu, SendNone, Update
  <2> QED BY <1>1, <1>2, <2>1 DEF OnceInv, LastIsCounted, HandedInOrder, CommandsOnce
<1> QED BY <1>3, <1>4, <1>5, <1>6 DEF SerialThread

(* The primary numbers its counted requests in order and repeats only the last. *)
LEMMA PrimaryKeepsOnce ==
  ASSUME OnceInv, PrimaryStation
  PROVE  OnceInv'
<1>1. UNCHANGED serialVars
  BY DEF PrimaryStation, AskUncounted, AskCounted, Asks, RepeatRequest, GiveUp, TakeAnswer,
         Discard, LoseAnswer, Puts, Hears, LineUnchanged
<1>2. UNCHANGED <<accepted, handed, fcb>>
  BY <1>1 DEF serialVars
<1>3. HandedInOrder'
  BY <1>2 DEF OnceInv, HandedInOrder, CommandsOnce
<1>4. ASSUME NEW f \in AnyRequest, Puts(f), request' = f
      PROVE  rx_buff' \in {request', [request' EXCEPT !.ok = FALSE]}
  BY <1>4 DEF Puts
<1>5. CASE AskUncounted
  <2>1. PICK fc \in Uncounted : Asks(Request(fc, 0, request.num, "rejected", TRUE))
    BY <1>5 DEF AskUncounted
  <2> DEFINE f == Request(fc, 0, request.num, "rejected", TRUE)
  <2>2. f \in AnyRequest /\ f.num = request.num /\ f.FunCode \notin CountedCodes
    BY DEF OnceInv, BufferedIsLast, AnyRequest, Request, Asdus, Uncounted, CountedCodes
  <2>3. request' = f /\ Puts(f) /\ bit' = bit
    BY <1>5, <2>1 DEF Asks, AskUncounted
  <2> HIDE DEF f
  <2>4. BufferedIsLast'
    BY <1>4, <2>2, <2>3 DEF OnceInv, BufferedIsLast
  <2>5. LastIsCounted'
    BY <1>2, <2>2, <2>3 DEF OnceInv, LastIsCounted
  <2> QED BY <1>3, <2>4, <2>5 DEF OnceInv
<1>6. CASE AskCounted
  <2>1. PICK fc \in CountedCodes, a \in Asdus : Asks(Request(fc, bit, request.num + 1, a, TRUE))
    BY <1>6, PrimaryAssumption DEF AskCounted, CountedCodes, Asdus
  <2> DEFINE f == Request(fc, bit, request.num + 1, a, TRUE)
  <2>2. f \in AnyRequest /\ f.num = request.num + 1 /\ request.num \in Nat
    BY DEF OnceInv, BufferedIsLast, AnyRequest, Request
  <2>3. request' = f /\ Puts(f) /\ bit' = 1 - bit
    BY <1>6, <2>1 DEF Asks, AskCounted
  <2> HIDE DEF f
  <2>4. BufferedIsLast'
    BY <1>4, <2>2, <2>3 DEF OnceInv, BufferedIsLast
  <2>5. LastIsCounted'
    BY <1>2, <2>2, <2>3 DEF OnceInv, LastIsCounted
  <2> QED BY <1>3, <2>4, <2>5 DEF OnceInv
<1>7. CASE RepeatRequest
  <2>1. Puts(request) /\ request' = request /\ bit' = bit
    BY <1>7 DEF RepeatRequest
  <2>2. BufferedIsLast'
    BY <1>4, <2>1 DEF OnceInv, BufferedIsLast
  <2> QED BY <1>2, <1>3, <2>1, <2>2 DEF OnceInv, LastIsCounted
<1>8. CASE GiveUp \/ TakeAnswer \/ Discard \/ LoseAnswer
  <2>1. UNCHANGED <<request, rx_buff>>
    BY <1>8 DEF GiveUp, TakeAnswer, Discard, LoseAnswer, Hears
  <2>2. bit' \in 0 .. 1
    BY <1>8 DEF GiveUp, TakeAnswer, Discard, LoseAnswer, OnceInv, BufferedIsLast
  <2> QED BY <1>2, <1>3, <2>1, <2>2 DEF OnceInv, BufferedIsLast, LastIsCounted
<1> QED BY <1>5, <1>6, <1>7, <1>8 DEF PrimaryStation

LEMMA OthersLeaveNumbers ==
  ASSUME AppStep \/ DeviceStep \/ UNCHANGED vars
  PROVE  UNCHANGED onceVars
<1>1. CASE AppStep
  BY <1>1 DEF AppStep, AppThread, AppCommand, AppIgnores, AppRequest, AppUpdate, AppUnchanged,
              primaryVars, onceVars
<1>2. CASE DeviceStep
  BY <1>2 DEF DeviceStep, Device, DeviceUpdate, AppUnchanged, primaryVars, onceVars
<1>3. CASE UNCHANGED vars
  BY <1>3 DEF vars, serialVars, primaryVars, onceVars
<1> QED BY <1>1, <1>2, <1>3

LEMMA OnceHolds == Spec => []OnceInv
<1>1. Init => OnceInv
  BY DEF Init, SerialLinkInit, SerialAppInit, PrimaryInit, NoRequest, Request, OnceInv,
         BufferedIsLast, AnyRequest, LastIsCounted, HandedInOrder, CommandsOnce, Increasing,
         CountedCodes, Uncounted, Asdus
<1>2. OnceInv /\ [Next]_vars => OnceInv'
  <2> SUFFICES ASSUME OnceInv, [Next]_vars PROVE OnceInv'
    OBVIOUS
  <2>1. CASE LinkStep
    BY <2>1, LinkKeepsOnce DEF LinkStep
  <2>2. CASE PrimaryStep
    BY <2>2, PrimaryKeepsOnce DEF PrimaryStep
  <2>3. CASE AppStep \/ DeviceStep \/ UNCHANGED vars
    BY <2>3, OthersLeaveNumbers DEF onceVars, OnceInv, BufferedIsLast, LastIsCounted,
       HandedInOrder, CommandsOnce
  <2> QED BY <2>1, <2>2, <2>3 DEF Next
<1> QED BY <1>1, <1>2, PTL DEF Spec

(* Commands are handed over once and in order: the count bit and the one    *)
(* buffer make a repeat recognisable (serial_link_dispatch).                *)
THEOREM HandedOverOnce == Spec => []CommandsOnce
<1>1. OnceInv => CommandsOnce
  BY DEF OnceInv, HandedInOrder
<1> QED BY <1>1, OnceHolds, PTL
-----------------------------------------------------------------------------
(* Type correctness.  The numbers of requests are bounded because a        *)
(* counted request takes the next number, of which there are as many as    *)
(* requests.                                                               *)
Bounded == /\ request.num <= requests
           /\ request.FunCode \in CountedCodes => request.num >= 1

TypeInv == TypeOK /\ OnceInv /\ Bounded

USE SerialMailboxAssumption, SerialAppAssumption, PrimaryAssumption
-----------------------------------------------------------------------------
LEMMA PostTyped ==
  ASSUME NEW E, NEW mb \in Seq(E), NEW n \in Nat, Len(mb) <= n, NEW e \in E
  PROVE  iec_post_event(mb, n, e) \in Seq(E) /\ Len(iec_post_event(mb, n, e)) <= n
BY DEF iec_post_event

LEMMA TookTyped ==
  ASSUME NEW E, NEW mb \in Seq(E), NEW n \in Nat, Len(mb) <= n, mb # <<>>
  PROVE  Tail(mb) \in Seq(E) /\ Len(Tail(mb)) <= n
OBVIOUS

(* What goes to the primary station is an answer.                          *)
LEMMA AnswersTyped ==
  ASSUME acd_tag \in 0 .. 1
  PROVE  /\ serial_link_pack_fixed_frame("FC_UP_YES") \subseteq Answers
         /\ serial_link_pack_fixed_frame("FC_UP_LINK") \subseteq Answers
         /\ serial_link_pack_fixed_frame("FC_UP_NO_DATA") \subseteq Answers
         /\ serial_link_pack_unfixed_frame(app_task_check_empty) \in Answers
         /\ Answer("FC_UP_YES", 1) \in Answers
BY DEF serial_link_pack_fixed_frame, serial_link_pack_unfixed_frame, app_task_check_empty,
       Answer, Answers, Bits

LEMMA SentTyped ==
  ASSUME to_primary \in Seq(Answers), NEW a \in Answers, Sent(a)
  PROVE  to_primary' \in Seq(Answers) /\ prev_sent' \in Answers
BY DEF Sent, Write

LEMMA CopiedTyped ==
  ASSUME rx_buff \in Requests, recv_asdu \in [num : 0 .. MaxRequests, asdu : Asdus], Copied
  PROVE  recv_asdu' \in [num : 0 .. MaxRequests, asdu : Asdus]
<1>1. Garbled \in [num : 0 .. MaxRequests, asdu : Asdus]
  BY DEF Garbled, Asdus
<1>2. CommandOf(rx_buff) \in [num : 0 .. MaxRequests, asdu : Asdus]
  BY DEF CommandOf, Requests
<1> QED BY <1>1, <1>2 DEF Copied

(* The events of the two mailboxes.                                        *)
LEMMA EventsTyped ==
  /\ {FrameEvt, UserAckEvt, SendAsduEvt} \subseteq LinkEvts
  /\ \A l \in Levels : UpdateEvt(l) \in LinkEvts /\ SendNoneEvt(l) \in LinkEvts
  /\ \A l \in Levels : ReqEvt(l) \in AppEvts /\ NodeEvt(l) \in AppEvts
  /\ BalancedEvt \in AppEvts
BY DEF LinkEvts, AppEvts

LEMMA MailboxesTyped ==
  ASSUME TypeInv
  PROVE  /\ serialmb \in Seq(LinkEvts) /\ Len(serialmb) <= SerialMb
         /\ appmb \in Seq(AppEvts) /\ Len(appmb) <= AppMb
BY DEF TypeInv, TypeOK, StationType

(* A mailbox of a smaller number of commands is one of a larger number.    *)
LEMMA MoreCommands ==
  ASSUME accepted \in Nat, accepted' \in Nat, accepted <= accepted', NEW mb \in Seq(AppEvts)
  PROVE  mb \in Seq(AppEvts')
<1>1. AppEvts \subseteq AppEvts'
  BY DEF AppEvts
<1> QED BY <1>1

(* The link thread leaves the primary station and the tasks alone: what is *)
(* left to show of its steps.                                              *)
LinkType ==
  /\ active \in 0 .. 1 /\ data_trans_active \in 0 .. 1 /\ acd_tag \in 0 .. 1
  /\ fcb \in {0, 1, NoFcb} /\ prev_sent \in Answers /\ to_primary \in Seq(Answers)
  /\ recv_asdu \in [num : 0 .. MaxRequests, asdu : Asdus]
  /\ serialmb \in Seq(LinkEvts) /\ Len(serialmb) <= SerialMb
  /\ appmb \in Seq(AppEvts) /\ Len(appmb) <= AppMb
  /\ accepted \in 0 .. MaxRequests /\ handed \in Seq(1 .. MaxRequests) /\ called \in BOOLEAN

LEMMA LinkTypeSuffices ==
  ASSUME TypeInv, LinkType', OnceInv', UNCHANGED <<appVars, primaryVars>>,
         UNCHANGED <<rx_buff, first_task, dropped, double_dir>>
  PROVE  TypeInv'
<1>1. StationType'
  BY DEF TypeInv, TypeOK, StationType, LinkType, appVars
<1>2. LineType' /\ PrimaryType' /\ Bounded'
  BY DEF TypeInv, TypeOK, LineType, PrimaryType, LinkType, Bounded, primaryVars, Requests, Answers
<1>3. HistoryType'
  BY DEF TypeInv, TypeOK, HistoryType, LinkType, appVars
<1> QED BY <1>1, <1>2, <1>3 DEF TypeInv, TypeOK

LEMMA LinkTypeNow == ASSUME TypeInv PROVE LinkType
BY DEF TypeInv, TypeOK, StationType, LineType, HistoryType, LinkType

(* The number of a counted request that arrives is one of the requests.    *)
LEMMA ArrivedNumber ==
  ASSUME TypeInv, GotRequest(CountedCodes)
  PROVE  rx_buff.num \in 1 .. MaxRequests /\ rx_buff.FCB \in 0 .. 1 /\ rx_buff.asdu \in Asdus
<1>1. rx_buff \in Requests
  BY DEF TypeInv, TypeOK, LineType
<1>2. rx_buff.num = request.num /\ rx_buff.FunCode = request.FunCode
  BY DEF TypeInv, OnceInv, BufferedIsLast, AnyRequest
<1>3. rx_buff.num >= 1
  BY <1>2 DEF TypeInv, Bounded, GotRequest
<1> QED BY <1>1, <1>3 DEF Requests

LEMMA AcceptTyped ==
  ASSUME TypeInv, GotRequest(CountedCodes), ~IsRepeat, Accepts
  PROVE  /\ accepted' \in 1 .. MaxRequests /\ accepted' = rx_buff.num /\ fcb' \in 0 .. 1
         /\ accepted < accepted' /\ accepted \in Nat
<1>1. accepted < accepted'
  BY AcceptedIsNew DEF TypeInv
<1>2. accepted \in Nat
  BY DEF TypeInv, OnceInv, LastIsCounted
<1> QED BY <1>1, <1>2, ArrivedNumber DEF Accepts

LEMMA TookOne ==
  ASSUME TypeInv, NEW e, Took(e)
  PROVE  serialmb' \in Seq(LinkEvts) /\ Len(serialmb') <= SerialMb
BY MailboxesTyped, TookTyped DEF Took, FirstIs

LEMMA LinkStepTyped ==
  ASSUME TypeInv, LinkStep
  PROVE  TypeInv'
<1>0. /\ SerialThread /\ UNCHANGED <<appVars, primaryVars>>
      /\ UNCHANGED <<rx_buff, first_task, dropped>>
  BY DEF LinkStep, SerialThread
<1>1. OnceInv'
  BY <1>0, LinkKeepsOnce DEF TypeInv
<1>2. LinkType /\ acd_tag \in 0 .. 1 /\ to_primary \in Seq(Answers)
  BY LinkTypeNow DEF LinkType
<1>3. rx_buff \in Requests /\ recv_asdu \in [num : 0 .. MaxRequests, asdu : Asdus]
  BY DEF TypeInv, TypeOK, LineType, StationType
<1>4. SUFFICES LinkType' /\ UNCHANGED double_dir
  BY <1>0, <1>1, LinkTypeSuffices
<1>5. CASE NoAnswer
  <2>1. recv_asdu' \in [num : 0 .. MaxRequests, asdu : Asdus]
    BY <1>3, <1>5, CopiedTyped DEF NoAnswer
  <2>2. serialmb' \in Seq(LinkEvts) /\ Len(serialmb') <= SerialMb
    BY <1>5, TookOne DEF NoAnswer
  <2>3. AppEvts' = AppEvts
    BY <1>5 DEF NoAnswer, AppEvts
  <2> QED BY <1>2, <1>5, <2>1, <2>2, <2>3 DEF NoAnswer, LinkType
<1>6. CASE Repeat
  <2>1. recv_asdu' \in [num : 0 .. MaxRequests, asdu : Asdus]
    BY <1>3, <1>6, CopiedTyped DEF Repeat
  <2>2. serialmb' \in Seq(LinkEvts) /\ Len(serialmb') <= SerialMb
    BY <1>6, TookOne DEF Repeat
  <2>3. to_primary' = to_primary
    BY <1>2, <1>6 DEF Repeat, Write, Bytes, prev_sent_len
  <2>4. AppEvts' = AppEvts
    BY <1>6 DEF Repeat, AppEvts
  <2> QED BY <1>2, <1>6, <2>1, <2>2, <2>3, <2>4 DEF Repeat, LinkType
<1>7. CASE DataRequest
  <2>1. GotRequest(CountedCodes) /\ ~IsRepeat /\ Accepts
    BY <1>7 DEF DataRequest, GotRequest, CountedCodes
  <2>2. recv_asdu' \in [num : 0 .. MaxRequests, asdu : Asdus]
    BY <1>3, <2>1, CopiedTyped DEF Accepts
  <2>3. serialmb' \in Seq(LinkEvts) /\ Len(serialmb') <= SerialMb
    BY <2>1, TookOne DEF Accepts
  <2>4. accepted' \in 0 .. MaxRequests /\ fcb' \in {0, 1, NoFcb} /\ accepted <= accepted'
        /\ accepted \in Nat
    BY <2>1, AcceptTyped
  <2>5. \E l \in Levels : appmb' = iec_post_event(appmb, AppMb, ReqEvt(l))
    BY <1>7 DEF DataRequest, PostApp, Levels
  <2>6. appmb' \in Seq(AppEvts) /\ Len(appmb') <= AppMb
    BY <2>5, EventsTyped, MailboxesTyped, PostTyped
  <2>7. appmb' \in Seq(AppEvts')
    BY <2>4, <2>6, MoreCommands
  <2> QED BY <1>2, <1>7, <2>2, <2>3, <2>4, <2>6, <2>7 DEF DataRequest, LinkType
<1>8. CASE UserData
  <2>1. GotRequest(CountedCodes) /\ ~IsRepeat /\ Accepts
    BY <1>8 DEF UserData, GotRequest, CountedCodes
  <2>2. recv_asdu' \in [num : 0 .. MaxRequests, asdu : Asdus]
    BY <1>3, <2>1, CopiedTyped DEF Accepts
  <2>3. serialmb' \in Seq(LinkEvts) /\ Len(serialmb') <= SerialMb
    BY <2>1, TookOne DEF Accepts
  <2>4. /\ accepted' \in 1 .. MaxRequests /\ fcb' \in {0, 1, NoFcb} /\ accepted < accepted'
        /\ accepted \in Nat /\ accepted' = rx_buff.num
    BY <2>1, AcceptTyped
  <2>5. appmb \in Seq(AppEvts') /\ Len(appmb) <= AppMb
    BY <2>4, MailboxesTyped, MoreCommands
  <2>6. CommandEvt(rx_buff.num) \in AppEvts'
    BY <2>4 DEF AppEvts
  <2>7. appmb' \in Seq(AppEvts') /\ Len(appmb') <= AppMb
    BY <1>8, <2>5, <2>6, PostTyped DEF UserData, PostApp
  <2>8. handed' \in Seq(1 .. MaxRequests)
    BY <1>2, <1>8, <2>4 DEF UserData, LinkType
  <2>9. called' \in BOOLEAN
    BY <1>8 DEF UserData
  <2> QED BY <1>2, <1>8, <2>2, <2>3, <2>4, <2>7, <2>8, <2>9
          DEF UserData, LinkType, ConfirmedLater
<1>9. CASE Reset
  <2>1. recv_asdu' \in [num : 0 .. MaxRequests, asdu : Asdus]
    BY <1>3, <1>9, CopiedTyped DEF Reset
  <2>2. serialmb' \in Seq(LinkEvts) /\ Len(serialmb') <= SerialMb
    BY <1>9, TookOne DEF Reset
  <2>3. to_primary' \in Seq(Answers) /\ prev_sent' \in Answers
    BY <1>2, <1>9, AnswersTyped, SentTyped DEF Reset
  <2>4. AppEvts' = AppEvts
    BY <1>9 DEF Reset, AppEvts
  <2>5. active' \in 0 .. 1 /\ data_trans_active' \in 0 .. 1 /\ fcb' \in {0, 1, NoFcb}
    BY <1>9 DEF Reset, CountAfterReset, TransferAfterReset
  <2>6. called' \in BOOLEAN
    BY <1>9 DEF Reset
  <2>7. UNCHANGED <<double_dir, acd_tag, appmb, accepted, handed>>
    BY <1>9 DEF Reset
  <2> QED BY <1>2, <2>1, <2>2, <2>3, <2>4, <2>5, <2>6, <2>7 DEF LinkType
<1>10. CASE LinkAnswers
  <2>1. recv_asdu' \in [num : 0 .. MaxRequests, asdu : Asdus]
    BY <1>3, <1>10, CopiedTyped DEF LinkAnswers
  <2>2. serialmb' \in Seq(LinkEvts) /\ Len(serialmb') <= SerialMb
    BY <1>10, TookOne DEF LinkAnswers
  <2>3. to_primary' \in Seq(Answers) /\ prev_sent' \in Answers
    BY <1>2, <1>10, AnswersTyped, SentTyped DEF LinkAnswers
  <2>4. AppEvts' = AppEvts
    BY <1>10 DEF LinkAnswers, AppEvts
  <2> QED BY <1>2, <1>10, <2>1, <2>2, <2>3, <2>4 DEF LinkAnswers, LinkType
<1>11. CASE UserAck \/ SendAsdu \/ SendNone
  <2>1. serialmb' \in Seq(LinkEvts) /\ Len(serialmb') <= SerialMb
    BY <1>11, TookOne DEF UserAck, SendAsdu, SendNone
  <2>2. to_primary' \in Seq(Answers) /\ prev_sent' \in Answers
    BY <1>2, <1>11, AnswersTyped, SentTyped DEF UserAck, SendAsdu, SendNone
  <2>3. acd_tag' \in 0 .. 1
    BY <1>2, <1>11 DEF UserAck, SendAsdu, SendNone
  <2>4. AppEvts' = AppEvts
    BY <1>11 DEF UserAck, SendAsdu, SendNone, AppEvts
  <2> QED BY <1>2, <1>11, <2>1, <2>2, <2>3, <2>4 DEF UserAck, SendAsdu, SendNone, LinkType
<1>12. ASSUME NEW l \in Levels, Update(l) PROVE LinkType' /\ UNCHANGED double_dir
  <2>1. serialmb' \in Seq(LinkEvts) /\ Len(serialmb') <= SerialMb
    BY <1>12, TookOne DEF Update
  <2>2. appmb' \in Seq(AppEvts) /\ Len(appmb') <= AppMb
    BY <1>12, EventsTyped, MailboxesTyped, PostTyped DEF Update, PostApp
  <2>3. acd_tag' \in 0 .. 1
    BY <1>2, <1>12 DEF Update
  <2>4. AppEvts' = AppEvts
    BY <1>12 DEF Update, AppEvts
  <2> QED BY <1>2, <1>12, <2>1, <2>2, <2>3, <2>4 DEF Update, LinkType
<1> QED BY <1>0, <1>5, <1>6, <1>7, <1>8, <1>9, <1>10, <1>11, <1>12 DEF SerialThread

-----------------------------------------------------------------------------
(* The application and the device: the tasks, the two mailboxes and what   *)
(* was carried out.                                                        *)
AppType ==
  /\ data_trans_active \in 0 .. 1 /\ first_task \in [Levels -> Nat] /\ dropped \in BOOLEAN
  /\ serialmb \in Seq(LinkEvts) /\ Len(serialmb) <= SerialMb
  /\ appmb \in Seq(AppEvts) /\ Len(appmb) <= AppMb
  /\ updates \in 0 .. MaxUpdates
  /\ executed \in Seq([posted : 1 .. MaxRequests, read : 0 .. MaxRequests])

LEMMA AppTypeSuffices ==
  ASSUME TypeInv, AppUnchanged, UNCHANGED primaryVars, AppType'
  PROVE  TypeInv'
<1>1. UNCHANGED <<double_dir, active, acd_tag, fcb, recv_asdu, prev_sent, rx_buff, to_primary,
                  accepted, handed, called, request, waiting, repeats, ready, bit, told,
                  requests, losses, early>>
  BY DEF AppUnchanged, primaryVars
<1>2. StationType' /\ HistoryType'
  BY <1>1 DEF TypeInv, TypeOK, StationType, HistoryType, AppType, Answers
<1>3. LineType' /\ PrimaryType' /\ Bounded' /\ OnceInv'
  BY <1>1 DEF TypeInv, TypeOK, LineType, PrimaryType, Bounded, Requests, Answers,
       OnceInv, BufferedIsLast, LastIsCounted, HandedInOrder, CommandsOnce
<1> QED BY <1>2, <1>3 DEF TypeInv, TypeOK

LEMMA AppTypeNow == ASSUME TypeInv PROVE AppType
BY DEF TypeInv, TypeOK, StationType, HistoryType, AppType

LEMMA AppTookTyped ==
  ASSUME TypeInv, NEW e, FirstIs(appmb, e)
  PROVE  Tail(appmb) \in Seq(AppEvts) /\ Len(Tail(appmb)) <= AppMb
BY MailboxesTyped, TookTyped DEF FirstIs

LEMMA PostLinkTyped ==
  ASSUME TypeInv, NEW e \in LinkEvts, PostLink(e)
  PROVE  serialmb' \in Seq(LinkEvts) /\ Len(serialmb') <= SerialMb /\ dropped' \in BOOLEAN
<1>1. dropped \in BOOLEAN
  BY DEF TypeInv, TypeOK, HistoryType
<1>2. dropped' \in BOOLEAN
  BY <1>1 DEF PostLink
<1> QED BY <1>2, MailboxesTyped, PostTyped DEF PostLink

LEMMA AddedTyped ==
  ASSUME TypeInv, NEW l \in Levels
  PROVE  Added(l) \subseteq [Levels -> Nat]
BY DEF Added, TypeInv, TypeOK, StationType

(* The answers a call posts fit in the mailbox.                            *)
LEMMA CallAnswersTyped ==
  ASSUME NEW mb \in Seq(AppEvts), Len(mb) <= AppMb
  PROVE  /\ CallAnswers(mb) \in Seq({NodeEvt("LEVEL_1")})
         /\ mb \o CallAnswers(mb) \in Seq(AppEvts) /\ Len(mb \o CallAnswers(mb)) <= AppMb
<1> DEFINE room == AppMb - Len(mb)
           k == IF CallNodes <= room THEN CallNodes ELSE room
<1>1. k \in Nat /\ Len(mb) + k <= AppMb
  OBVIOUS
<1>2. Fitting(mb) = 1 .. k
  BY DEF Fitting
<1> HIDE DEF k, room
<1>3. CallAnswers(mb) = [i \in 1 .. k |-> NodeEvt("LEVEL_1")]
  BY <1>2 DEF CallAnswers
<1>4. CallAnswers(mb) \in Seq({NodeEvt("LEVEL_1")}) /\ Len(CallAnswers(mb)) = k
  BY <1>1, <1>3
<1>5. NodeEvt("LEVEL_1") \in AppEvts
  BY EventsTyped DEF Levels
<1>6. CallAnswers(mb) \in Seq(AppEvts)
  BY <1>4, <1>5
<1> QED BY <1>1, <1>4, <1>6, ConcatProperties

LEMMA AppStepTyped ==
  ASSUME TypeInv, AppThread \/ Device, UNCHANGED primaryVars
  PROVE  TypeInv'
<1>1. AppUnchanged
  BY DEF AppThread, Device, AppCommand, AppIgnores, AppRequest, AppUpdate, DeviceUpdate
<1>2. AppType
  BY AppTypeNow
<1>3. AppEvts' = AppEvts
  BY <1>1 DEF AppUnchanged, AppEvts
<1>4. SUFFICES AppType'
  BY <1>1, AppTypeSuffices
<1>5. ASSUME NEW l \in Levels, AppRequest(l) PROVE AppType'
  <2>1. appmb' \in Seq(AppEvts) /\ Len(appmb') <= AppMb
    BY <1>5, AppTookTyped DEF AppRequest, AppTook
  <2>2. serialmb' \in Seq(LinkEvts) /\ Len(serialmb') <= SerialMb /\ dropped' \in BOOLEAN
    BY <1>5, EventsTyped, PostLinkTyped DEF AppRequest
  <2>3. first_task' \in [Levels -> Nat]
    BY <1>2, <1>5 DEF AppRequest, AppType
  <2> QED BY <1>2, <1>3, <1>5, <2>1, <2>2, <2>3 DEF AppRequest, AppType, appVars
<1>6. CASE AppIgnores
  <2>1. appmb' \in Seq(AppEvts) /\ Len(appmb') <= AppMb
    BY <1>6, AppTookTyped DEF AppIgnores, AppTook
  <2> QED BY <1>2, <1>3, <1>6, <2>1 DEF AppIgnores, AppType, appVars
<1>7. CASE AppCommand
  <2>1. PICK n \in 1 .. accepted : /\ FirstIs(appmb, CommandEvt(n))
                                   /\ executed' = Append(executed, [posted |-> n, read |-> recv_asdu.num])
    BY <1>7 DEF AppCommand
  <2>2. Tail(appmb) \in Seq(AppEvts) /\ Len(Tail(appmb)) <= AppMb
    BY <2>1, AppTookTyped
  <2>3. appmb' \in Seq(AppEvts) /\ Len(appmb') <= AppMb
    BY <1>7, <2>2, CallAnswersTyped DEF AppCommand
  <2>4. serialmb' \in Seq(LinkEvts) /\ Len(serialmb') <= SerialMb /\ dropped' \in BOOLEAN
    BY <1>7, EventsTyped, PostLinkTyped DEF AppCommand
  <2>5. first_task' \in [Levels -> Nat]
    BY <1>2, <1>7, AddedTyped DEF AppCommand, AppType, Levels
  <2>6. data_trans_active' \in 0 .. 1
    BY <1>2, <1>7 DEF AppCommand, AppType
  <2>7. executed' \in Seq([posted : 1 .. MaxRequests, read : 0 .. MaxRequests])
    <3>1. n \in 1 .. MaxRequests /\ recv_asdu.num \in 0 .. MaxRequests
      BY DEF TypeInv, TypeOK, HistoryType, StationType
    <3> QED BY <1>2, <2>1, <3>1 DEF AppType
  <2>8. updates' = updates
    BY <1>7 DEF AppCommand
  <2> QED BY <1>2, <1>3, <2>3, <2>4, <2>5, <2>6, <2>7, <2>8 DEF AppType
<1>8. ASSUME NEW l \in Levels, AppUpdate(l) PROVE AppType'
  <2>1. appmb' \in Seq(AppEvts) /\ Len(appmb') <= AppMb
    BY <1>8, AppTookTyped DEF AppUpdate, AppTook
  <2>2. serialmb' \in Seq(LinkEvts) /\ Len(serialmb') <= SerialMb /\ dropped' \in BOOLEAN
    BY <1>2, <1>8, EventsTyped, PostLinkTyped DEF AppUpdate, AppType
  <2>3. first_task' \in [Levels -> Nat]
    BY <1>2, <1>8, AddedTyped DEF AppUpdate, AppType
  <2> QED BY <1>2, <1>3, <1>8, <2>1, <2>2, <2>3 DEF AppUpdate, AppType, appVars
<1>9. ASSUME NEW l \in Levels, DeviceUpdate(l) PROVE AppType'
  <2>1. appmb' \in Seq(AppEvts) /\ Len(appmb') <= AppMb
    BY <1>9, EventsTyped, MailboxesTyped, PostTyped DEF DeviceUpdate, PostApp
  <2> QED BY <1>2, <1>3, <1>9, <2>1 DEF DeviceUpdate, AppType
<1> QED BY <1>5, <1>6, <1>7, <1>8, <1>9 DEF AppThread, Device
-----------------------------------------------------------------------------
(* The primary station and the line.                                       *)
LineUnchangedFacts ==
  UNCHANGED <<double_dir, active, data_trans_active, acd_tag, fcb, recv_asdu, prev_sent, accepted,
              handed, called, appmb, first_task, updates, executed>>

PrimaryAfter ==
  /\ rx_buff \in Requests /\ request \in Requests /\ to_primary \in Seq(Answers)
  /\ serialmb \in Seq(LinkEvts) /\ Len(serialmb) <= SerialMb /\ dropped \in BOOLEAN
  /\ PrimaryType /\ Bounded

LEMMA PrimarySuffices ==
  ASSUME TypeInv, LineUnchangedFacts, PrimaryAfter', OnceInv'
  PROVE  TypeInv'
<1>1. AppEvts' = AppEvts
  BY DEF LineUnchangedFacts, AppEvts
<1>2. StationType' /\ HistoryType'
  BY <1>1 DEF TypeInv, TypeOK, StationType, HistoryType, PrimaryAfter, LineUnchangedFacts, Answers
<1> QED BY <1>2 DEF TypeInv, TypeOK, LineType, PrimaryAfter

LEMMA PutsTyped ==
  ASSUME TypeInv, NEW f \in Requests, Puts(f)
  PROVE  /\ rx_buff' \in Requests /\ to_primary' \in Seq(Answers) /\ losses' \in 0 .. MaxLosses
         /\ serialmb' \in Seq(LinkEvts) /\ Len(serialmb') <= SerialMb /\ dropped' \in BOOLEAN
<1>1. [f EXCEPT !.ok = FALSE] \in Requests
  BY DEF Requests
<1>2. losses \in 0 .. MaxLosses
  BY DEF TypeInv, TypeOK, PrimaryType
<1>3. rx_buff' \in Requests /\ losses' \in 0 .. MaxLosses
  <2>1. CASE rx_buff' = f /\ UNCHANGED losses
    BY <1>2, <2>1
  <2>2. CASE losses < MaxLosses /\ rx_buff' = [f EXCEPT !.ok = FALSE] /\ losses' = losses + 1
    <3>1. losses' \in 0 .. MaxLosses
      BY <1>2, <2>2
    <3> QED BY <1>1, <2>2, <3>1, Zenon
  <2> QED BY <2>1, <2>2 DEF Puts
<1>4. to_primary' \in Seq(Answers)
  BY DEF Puts
<1> QED BY <1>3, <1>4, EventsTyped, PostLinkTyped DEF Puts

LEMMA AsksTyped ==
  ASSUME TypeInv, NEW fc \in CountedCodes \cup Uncounted, NEW b \in 0 .. 1, NEW n \in Nat,
         NEW a \in Asdus, n = request.num \/ n = request.num + 1,
         fc \in CountedCodes => n = request.num + 1,
         Asks(Request(fc, b, n, a, TRUE)), ready' \in BOOLEAN, bit' \in 0 .. 1
  PROVE  PrimaryAfter'
<1> DEFINE f == Request(fc, b, n, a, TRUE)
<1>1. requests < MaxRequests /\ requests \in 0 .. MaxRequests /\ request.num \in Nat
      /\ request.num <= requests
  BY DEF Asks, TypeInv, TypeOK, PrimaryType, LineType, Requests, Bounded
<1>2. n \in 0 .. MaxRequests /\ n <= requests + 1
  BY <1>1
<1>3. f \in Requests /\ f.num = n /\ f.FunCode = fc
  BY <1>2 DEF Request, Requests
<1>4. Puts(f) /\ request' = f /\ waiting' \in BOOLEAN /\ repeats' = 0 /\ requests' = requests + 1
      /\ UNCHANGED <<told, early>>
  BY DEF Asks
<1> HIDE DEF f
<1>5. Bounded'
  BY <1>1, <1>2, <1>3, <1>4 DEF Bounded
<1>6. PrimaryType'
  BY <1>1, <1>3, <1>4, PutsTyped DEF TypeInv, TypeOK, PrimaryType
<1>7. /\ rx_buff' \in Requests /\ to_primary' \in Seq(Answers)
      /\ serialmb' \in Seq(LinkEvts) /\ Len(serialmb') <= SerialMb /\ dropped' \in BOOLEAN
  BY <1>3, <1>4, PutsTyped
<1>8. Requests' = Requests /\ Answers' = Answers /\ LinkEvts' = LinkEvts
  BY DEF Requests, Answers, LinkEvts
<1> QED BY <1>3, <1>4, <1>5, <1>6, <1>7, <1>8 DEF PrimaryAfter

LEMMA PrimaryStepTyped ==
  ASSUME TypeInv, PrimaryStep
  PROVE  TypeInv'
<1>0. PrimaryStation /\ UNCHANGED appVars
  BY DEF PrimaryStep
<1>1. OnceInv'
  BY <1>0, PrimaryKeepsOnce DEF TypeInv
<1>2. LineUnchangedFacts
  BY <1>0 DEF PrimaryStation, AskUncounted, AskCounted, Asks, RepeatRequest, GiveUp, TakeAnswer,
       Discard, LoseAnswer, Puts, Hears, LineUnchanged, serialVars, appVars, LineUnchangedFacts
<1>3. SUFFICES PrimaryAfter'
  BY <1>1, <1>2, PrimarySuffices
<1>4. PrimaryAfter /\ request.num \in Nat
  BY DEF TypeInv, TypeOK, LineType, StationType, HistoryType, PrimaryAfter, Requests
<1>5. PrimaryType /\ request \in Requests
  BY <1>4 DEF PrimaryAfter
<1>6. Requests' = Requests /\ Answers' = Answers /\ LinkEvts' = LinkEvts
  BY DEF Requests, Answers, LinkEvts
<1>7. CASE AskUncounted
  <2>1. PICK fc \in Uncounted : /\ Asks(Request(fc, 0, request.num, "rejected", TRUE))
                                /\ ready' = (ready /\ fc # "FC_DW_RST_REMOTE")
    BY <1>7 DEF AskUncounted
  <2>2. fc \notin CountedCodes /\ "rejected" \in Asdus
    BY DEF Uncounted, CountedCodes, Asdus
  <2>3. ready' \in BOOLEAN /\ bit' \in 0 .. 1
    BY <1>5, <1>7, <2>1 DEF AskUncounted, PrimaryType
  <2>4. 0 \in 0 .. 1 /\ fc \in CountedCodes \cup Uncounted
    OBVIOUS
  <2> QED BY <1>4, <2>1, <2>2, <2>3, <2>4, AsksTyped, Zenon
<1>8. CASE AskCounted
  <2>1. PICK fc \in CountedCodes, a \in Asdus : Asks(Request(fc, bit, request.num + 1, a, TRUE))
    BY <1>8 DEF AskCounted, CountedCodes, Asdus
  <2>2. ready' \in BOOLEAN /\ bit' \in 0 .. 1 /\ bit \in 0 .. 1
    BY <1>5, <1>8 DEF AskCounted, PrimaryType
  <2>3. request.num + 1 \in Nat /\ fc \in CountedCodes \cup Uncounted
    BY <1>4
  <2> QED BY <2>1, <2>2, <2>3, AsksTyped, Zenon
<1>9. ASSUME Times PROVE early' \in 0 .. MaxEarly
  BY <1>5, <1>9 DEF Times, PrimaryType
<1>10. CASE RepeatRequest
  <2>1. Puts(request) /\ Times /\ repeats < MaxRepeats /\ repeats' = repeats + 1
        /\ UNCHANGED <<request, waiting, ready, bit, told, requests>>
    BY <1>10 DEF RepeatRequest
  <2>2. PrimaryType'
    BY <1>5, <1>9, <2>1, PutsTyped DEF PrimaryType
  <2> QED BY <1>4, <1>5, <1>6, <2>1, <2>2, PutsTyped DEF PrimaryAfter, Bounded
<1>11. CASE GiveUp
  <2>1. Times /\ waiting' = FALSE /\ ready' = FALSE
        /\ UNCHANGED <<rx_buff, serialmb, dropped, to_primary, request, repeats, bit, told,
                       requests, losses>>
    BY <1>11 DEF GiveUp
  <2>2. PrimaryType'
    BY <1>5, <1>9, <2>1 DEF PrimaryType
  <2> QED BY <1>4, <1>6, <2>1, <2>2 DEF PrimaryAfter, Bounded
<1>12. CASE TakeAnswer \/ Discard \/ LoseAnswer
  <2>1. Hears
    BY <1>12 DEF TakeAnswer, Discard, LoseAnswer
  <2>2. to_primary' \in Seq(Answers)
    BY <1>4, <2>1 DEF Hears, PrimaryAfter
  <2>3. losses' \in 0 .. MaxLosses /\ early' = early
    BY <1>5, <1>12 DEF TakeAnswer, Discard, LoseAnswer, PrimaryType
  <2>4. waiting' \in BOOLEAN /\ ready' \in BOOLEAN /\ told' \in BOOLEAN /\ bit' \in 0 .. 1
    <3>1. CASE TakeAnswer
      <4>1. waiting' \in BOOLEAN /\ ready' \in BOOLEAN /\ told' \in BOOLEAN
        BY <3>1, Zenon DEF TakeAnswer
      <4>2. bit' \in 0 .. 1
        BY <1>5, <3>1 DEF TakeAnswer, PrimaryType
      <4> QED BY <4>1, <4>2
    <3>2. CASE Discard \/ LoseAnswer
      <4>1. UNCHANGED <<waiting, told, ready, bit>>
        BY <3>2 DEF Discard, LoseAnswer
      <4> QED BY <1>5, <4>1 DEF PrimaryType
    <3> QED BY <1>12, <3>1, <3>2
  <2>5. UNCHANGED <<rx_buff, serialmb, dropped, request, repeats, requests>>
    BY <2>1 DEF Hears
  <2>6. PrimaryType'
    BY <1>5, <2>3, <2>4, <2>5 DEF PrimaryType
  <2> QED BY <1>4, <1>6, <2>2, <2>5, <2>6 DEF PrimaryAfter, Bounded
<1> QED BY <1>0, <1>7, <1>8, <1>10, <1>11, <1>12 DEF PrimaryStation

LEMMA TypeHolds == Spec => []TypeInv
<1>1. Init => TypeOK /\ Bounded
  <2> SUFFICES ASSUME Init PROVE TypeOK /\ Bounded
    OBVIOUS
  <2>1. NoRequest \in Requests /\ NoRequest.num = 0 /\ NoRequest.FunCode \notin CountedCodes
    BY DEF NoRequest, Request, Requests, Uncounted, CountedCodes, Asdus
  <2>2. Garbled \in [num : 0 .. MaxRequests, asdu : Asdus] /\ Answer("FC_UP_YES", 0) \in Answers
    BY DEF Garbled, Asdus, Answer, Answers
  <2>3. /\ double_dir \in 0 .. 1 /\ serialmb = <<>> /\ active = 0 /\ data_trans_active = 0
        /\ acd_tag = 0 /\ fcb = NoFcb /\ recv_asdu = Garbled /\ prev_sent = Answer("FC_UP_YES", 0)
        /\ accepted = 0 /\ handed = <<>> /\ called = FALSE /\ dropped = FALSE
        /\ appmb = <<>> /\ first_task = [l \in Levels |-> 0] /\ updates = 0 /\ executed = <<>>
    BY DEF Init, SerialLinkInit, SerialAppInit
  <2>6. StationType
    BY <2>2, <2>3 DEF StationType
  <2>7. HistoryType
    <3>1. called \in BOOLEAN /\ dropped \in BOOLEAN
      BY <2>3, Zenon
    <3> QED BY <2>3, <3>1 DEF HistoryType
  <2>4. LineType /\ Bounded
    BY <2>1 DEF Init, PrimaryInit, LineType, Bounded
  <2>5. PrimaryType
    <3>1. waiting \in BOOLEAN /\ ready \in BOOLEAN /\ told \in BOOLEAN
      BY Zenon DEF Init, PrimaryInit
    <3>2. bit = 1 /\ repeats = 0 /\ requests = 0 /\ losses = 0 /\ early = 0
      BY DEF Init, PrimaryInit
    <3> QED BY <3>1, <3>2 DEF PrimaryType
  <2> QED BY <2>4, <2>5, <2>6, <2>7 DEF TypeOK
<1>2. TypeInv /\ [Next]_vars => TypeInv'
  <2> SUFFICES ASSUME TypeInv, [Next]_vars PROVE TypeInv'
    OBVIOUS
  <2>1. CASE LinkStep
    BY <2>1, LinkStepTyped
  <2>2. CASE AppStep \/ DeviceStep
    BY <2>2, AppStepTyped DEF AppStep, DeviceStep
  <2>3. CASE PrimaryStep
    BY <2>3, PrimaryStepTyped
  <2>4. CASE UNCHANGED vars
    <3>1. LinkType' /\ OnceInv'
      BY <2>4, LinkTypeNow DEF vars, serialVars, primaryVars, appVars, LinkType, AppEvts, LinkEvts,
         Answers, TypeInv, OnceInv, BufferedIsLast, LastIsCounted, HandedInOrder, CommandsOnce
    <3> QED BY <2>4, <3>1, LinkTypeSuffices DEF vars, serialVars
  <2> QED BY <2>1, <2>2, <2>3, <2>4 DEF Next
<1>3. Spec => []OnceInv
  BY OnceHolds
<1>4. Init /\ OnceInv => TypeInv
  BY <1>1 DEF TypeInv
<1> QED BY <1>2, <1>3, <1>4, PTL DEF Spec

(* Every variable of the serial line keeps its type: no mailbox holds more *)
(* than its slots, and a command event is of a request that was accepted.  *)
THEOREM SerialTyped == Spec => []TypeOK
<1>1. TypeInv => TypeOK
  BY DEF TypeInv
<1> QED BY <1>1, TypeHolds, PTL
=============================================================================
