-------------------------- MODULE SerialTurnProofs --------------------------
(***************************************************************************)
(* A primary station that is never early: for all sizes and numbers, a new *)
(* request is accepted, a command is carried out as it was handed over and *)
(* data is transferred only after a general call; and without losses class *)
(* 1 data that waits is announced.                                         *)
(*                                                                         *)
(* The argument is that of a token.  When the link accepts a counted       *)
(* request, the answer is owed: by the event for the application, then by  *)
(* the application's event for the link, and nowhere twice.  While it is   *)
(* owed the primary waits, and so the driver's buffer holds the request    *)
(* that was accepted: it can be taken for nothing but a repeat, and the    *)
(* receive buffer of the link is overwritten by nothing but itself.        *)
(***************************************************************************)
EXTENDS SerialProofs

\* Events of S are nowhere in a mailbox, or in one place of it.
None(S, mb) == \A i \in DOMAIN mb : mb[i] \notin S
One(S, mb)  == \A i, j \in DOMAIN mb : mb[i] \in S /\ mb[j] \in S => i = j

\* The events that owe the primary an answer.
Calls == {CommandEvt(n) : n \in Nat}
Asked == Calls \cup {ReqEvt(l) : l \in Levels}
Due   == {UserAckEvt, SendAsduEvt} \cup {SendNoneEvt(l) : l \in Levels}

Counted == request.FunCode \in CountedCodes
Behind  == Counted /\ request.num # accepted

\* The events that may be in the application's mailbox for the request.
Owed == IF request.FunCode = "FC_DW_DATA_YES" THEN {CommandEvt(accepted)} ELSE Asked \ Calls

Idle  == None(Asked, appmb) /\ None(Due, serialmb)
OneIs == \/ One(Asked, appmb) /\ None(Due, serialmb)
         \/ None(Asked, appmb) /\ One(Due, serialmb)

Serving ==
  /\ waiting /\ Counted /\ request.num = accepted /\ to_primary = <<>>
  /\ rx_buff = request /\ rx_buff.ok
  /\ None(Asked \ Owed, appmb)
  /\ request.FunCode = "FC_DW_DATA_YES" =>
       recv_asdu = CommandOf(request) /\ (request.asdu = "call" => called)

Turn == Idle \/ (OneIs /\ Serving)

\* A request that was not accepted has no answer, and is not waited for in vain.
Unanswered ==
  Behind => /\ to_primary = <<>>
            /\ ~waiting => None({FrameEvt}, serialmb)

\* The next count bit is not the one the link has, or it is under way.
Alternates ==
  /\ waiting /\ Counted => request.FCB = 1 - bit
  /\ waiting /\ Behind  => request.FCB # fcb
  /\ ready /\ ~(waiting /\ Behind) => fcb # bit
  /\ request.FunCode = "FC_DW_RST_REMOTE" /\ to_primary # <<>> => fcb = NoFcb

Carried == /\ \A i \in DOMAIN executed : executed[i].posted = executed[i].read
           /\ data_trans_active = 1 => called

Parts   == Turn /\ Unanswered /\ Alternates /\ Carried
TurnInv == early = 0 => Parts
-----------------------------------------------------------------------------
(* Posting and taking events.                                              *)
LEMMA PostNone ==
  ASSUME NEW E, NEW mb \in Seq(E), NEW n \in Nat, NEW e, NEW S, None(S, mb)
  PROVE  /\ e \notin S => None(S, iec_post_event(mb, n, e))
         /\ One(S, iec_post_event(mb, n, e))
<1>1. CASE Len(mb) < n
  <2> DEFINE t == Append(mb, e)
  <2>1. DOMAIN t = 1 .. Len(mb) + 1 /\ DOMAIN mb = 1 .. Len(mb) /\ Len(mb) \in Nat
    OBVIOUS
  <2>2. \A i \in 1 .. Len(mb) : t[i] = mb[i]
    OBVIOUS
  <2>3. t[Len(mb) + 1] = e
    OBVIOUS
  <2> HIDE DEF t
  <2>4. \A i \in DOMAIN t : i = Len(mb) + 1 \/ i \in DOMAIN mb
    BY <2>1
  <2>5. \A i \in DOMAIN t : t[i] \in S => i = Len(mb) + 1 /\ e \in S
    BY <2>1, <2>2, <2>3, <2>4 DEF None
  <2>6. (e \notin S => None(S, t)) /\ One(S, t)
    BY <2>5 DEF None, One
  <2> QED BY <1>1, <2>6 DEF iec_post_event, t
<1>2. CASE ~(Len(mb) < n)
  BY <1>2 DEF iec_post_event, None, One
<1> QED BY <1>1, <1>2

LEMMA PostOne ==
  ASSUME NEW E, NEW mb \in Seq(E), NEW n \in Nat, NEW S, NEW e, e \notin S, One(S, mb)
  PROVE  One(S, iec_post_event(mb, n, e))
<1>1. CASE Len(mb) < n
  <2> DEFINE t == Append(mb, e)
  <2>1. DOMAIN t = 1 .. Len(mb) + 1 /\ DOMAIN mb = 1 .. Len(mb) /\ Len(mb) \in Nat
    OBVIOUS
  <2>2. \A i \in 1 .. Len(mb) : t[i] = mb[i]
    OBVIOUS
  <2>3. t[Len(mb) + 1] = e
    OBVIOUS
  <2> HIDE DEF t
  <2>4. \A i \in DOMAIN t : t[i] \in S => i \in DOMAIN mb /\ mb[i] \in S
    BY <2>1, <2>2, <2>3
  <2>5. One(S, t)
    BY <2>4 DEF One
  <2> QED BY <1>1, <2>5 DEF iec_post_event, t
<1>2. CASE ~(Len(mb) < n)
  BY <1>2 DEF iec_post_event
<1> QED BY <1>1, <1>2

LEMMA TakeKeeps ==
  ASSUME NEW E, NEW mb \in Seq(E), mb # <<>>, NEW S
  PROVE  /\ None(S, mb) => None(S, Tail(mb))
         /\ One(S, mb) => One(S, Tail(mb))
         /\ One(S, mb) /\ Head(mb) \in S => None(S, Tail(mb))
         /\ None(S, mb) => Head(mb) \notin S
<1> DEFINE t == Tail(mb)
<1>1. /\ Len(mb) \in Nat \ {0} /\ DOMAIN mb = 1 .. Len(mb) /\ DOMAIN t = 1 .. Len(mb) - 1
      /\ Head(mb) = mb[1]
  OBVIOUS
<1>2. \A i \in DOMAIN t : t[i] = mb[i + 1] /\ i + 1 \in DOMAIN mb /\ i + 1 # 1 /\ i \in Nat
  BY <1>1
<1> HIDE DEF t
<1>3. 1 \in DOMAIN mb
  BY <1>1
<1>4. \A i, j \in DOMAIN t : i + 1 = j + 1 => i = j
  BY <1>2
<1> QED BY <1>1, <1>2, <1>3, <1>4 DEF None, One, t

(* Answers of a call, which owe nothing, after a mailbox.                  *)
LEMMA CallKeeps ==
  ASSUME NEW mb \in Seq(AppEvts), Len(mb) <= AppMb, NEW S, NodeEvt("LEVEL_1") \notin S
  PROVE  /\ None(S, mb) => None(S, mb \o CallAnswers(mb))
         /\ One(S, mb) => One(S, mb \o CallAnswers(mb))
<1> DEFINE c == CallAnswers(mb)
           t == mb \o c
<1>1. c \in Seq({NodeEvt("LEVEL_1")})
  BY CallAnswersTyped
<1> HIDE DEF c
<1>2. /\ DOMAIN t = 1 .. Len(mb) + Len(c) /\ DOMAIN mb = 1 .. Len(mb) /\ Len(mb) \in Nat
      /\ Len(c) \in Nat /\ DOMAIN c = 1 .. Len(c)
  BY <1>1
<1>3. \A i \in 1 .. Len(mb) : t[i] = mb[i]
  BY <1>1
<1>4. \A i \in 1 .. Len(mb) + Len(c) : i > Len(mb) => t[i] = c[i - Len(mb)]
  BY <1>1
<1>5. \A k \in DOMAIN c : c[k] = NodeEvt("LEVEL_1")
  BY <1>1
<1> HIDE DEF t
<1>6. \A i \in DOMAIN t : t[i] \in S => i \in DOMAIN mb /\ mb[i] \in S
  <2> SUFFICES ASSUME NEW i \in DOMAIN t, i > Len(mb) PROVE t[i] \notin S
    BY <1>2, <1>3
  <2>1. i - Len(mb) \in DOMAIN c
    BY <1>2
  <2> QED BY <1>2, <1>4, <1>5, <2>1
<1> QED BY <1>6 DEF None, One, t, c

(* Which events owe an answer.                                             *)
LEMMA WhoOwes ==
  /\ FrameEvt \notin Due /\ \A l \in Levels : UpdateEvt(l) \notin Due
  /\ BalancedEvt \notin Asked /\ \A l \in Levels : NodeEvt(l) \notin Asked
  /\ \A n \in Nat : CommandEvt(n) \in Asked /\ CommandEvt(n) \in Calls
  /\ \A l \in Levels : ReqEvt(l) \in Asked /\ ReqEvt(l) \notin Calls
  /\ {UserAckEvt, SendAsduEvt} \subseteq Due /\ \A l \in Levels : SendNoneEvt(l) \in Due
  /\ FrameEvt \notin {UserAckEvt, SendAsduEvt}
  /\ \A l \in Levels : SendNoneEvt(l) # FrameEvt /\ UpdateEvt(l) # FrameEvt
BY DEF Due, Asked, Calls, FrameEvt, UpdateEvt, BalancedEvt, NodeEvt, CommandEvt, ReqEvt,
       UserAckEvt, SendAsduEvt, SendNoneEvt, Event, Levels

LEMMA CommandsDiffer == \A m, n \in Nat : CommandEvt(m) = CommandEvt(n) => m = n
BY DEF CommandEvt

(* Steps that disturb the mailboxes by what owes nothing keep the turn.    *)
Undue == /\ \A S \in SUBSET Asked : None(S, appmb) => None(S, appmb')
         /\ One(Asked, appmb) => One(Asked, appmb')
         /\ None(Due, serialmb) => None(Due, serialmb')
         /\ One(Due, serialmb) => One(Due, serialmb')

ServeVars == <<waiting, request, accepted, rx_buff, to_primary, recv_asdu, called>>

LEMMA UndueKeeps ==
  ASSUME Undue
  PROVE  /\ Idle => Idle'
         /\ OneIs => OneIs'
         /\ UNCHANGED ServeVars /\ Serving => Serving'
<1>1. Asked' = Asked /\ Due' = Due /\ Calls' = Calls
  BY DEF Asked, Due, Calls
<1>2. None(Asked, appmb) => None(Asked, appmb')
  BY DEF Undue
<1>3. (Idle => Idle') /\ (OneIs => OneIs')
  BY <1>1, <1>2 DEF Undue, Idle, OneIs, None, One
<1>4. ASSUME UNCHANGED ServeVars, Serving PROVE Serving'
  <2>1. UNCHANGED <<waiting, request, accepted, rx_buff, to_primary, recv_asdu, called>>
    BY <1>4 DEF ServeVars
  <2>2. Owed' = Owed
    BY <1>1, <2>1 DEF Owed
  <2>3. None(Asked \ Owed, appmb')
    BY <1>4 DEF Undue, Serving
  <2> QED BY <1>1, <1>4, <2>1, <2>2, <2>3 DEF Serving, Counted, None, CommandOf
<1> QED BY <1>3, <1>4

(* Taking an event that owes nothing.                                      *)
LEMMA TookUndue ==
  ASSUME TypeInv, NEW e, e \notin Due, Took(e), UNCHANGED appmb
  PROVE  Undue
BY MailboxesTyped, TakeKeeps DEF Took, FirstIs, Undue

LEMMA TookFrame ==
  ASSUME TypeInv, NEW e, Took(e)
  PROVE  None({FrameEvt}, serialmb) => None({FrameEvt}, serialmb') /\ e # FrameEvt
BY MailboxesTyped, TakeKeeps DEF Took, FirstIs

(* A request that is accepted is the last one, and the primary waits.      *)
LEMMA AcceptsTheLast ==
  ASSUME TypeInv, Parts, GotRequest(CountedCodes), ~IsRepeat, Accepts
  PROVE  /\ Idle /\ waiting /\ Counted /\ rx_buff = request /\ to_primary = <<>>
         /\ accepted' = request.num /\ fcb' = request.FCB /\ rx_buff.ok
<1>1. /\ rx_buff.num = request.num /\ accepted' = request.num /\ fcb' = request.FCB
      /\ accepted < accepted' /\ accepted \in Nat /\ rx_buff.FCB = request.FCB
  BY AcceptedIsNew, AcceptTyped DEF TypeInv
<1>2. rx_buff = request /\ Counted
  BY DEF GotRequest, TypeInv, OnceInv, BufferedIsLast, AnyRequest, Counted
<1>3. Behind
  BY <1>1, <1>2 DEF Behind
<1>4. ~None({FrameEvt}, serialmb)
  BY MailboxesTyped, TakeKeeps DEF GotRequest, FirstIs
<1>5. waiting /\ to_primary = <<>>
  BY <1>3, <1>4 DEF Parts, Unanswered
<1>6. Idle
  BY <1>3 DEF Parts, Turn, Serving, Behind
<1> QED BY <1>1, <1>2, <1>5, <1>6 DEF GotRequest

(* What a step of the link leaves alone.                                   *)
LEMMA LinkLeaves ==
  ASSUME LinkStep
  PROVE  /\ UNCHANGED <<request, waiting, ready, bit, rx_buff, executed, early>>
         /\ Counted' = Counted
BY DEF LinkStep, SerialThread, primaryVars, appVars, Counted

LEMMA FrameTurns ==
  ASSUME TypeInv, Parts, LinkStep, NoAnswer \/ Repeat \/ Reset \/ LinkAnswers
  PROVE  Parts'
<1>1. Took(FrameEvt) /\ Copied /\ UNCHANGED <<appmb, accepted>>
  BY DEF NoAnswer, Repeat, Reset, LinkAnswers
<1>2. Undue
  BY <1>1, TookUndue, WhoOwes
<1>3. UNCHANGED <<request, waiting, ready, bit, rx_buff, executed, early>> /\ Counted' = Counted
  BY LinkLeaves
<1>4. Behind' = Behind
  BY <1>1, <1>3 DEF Behind
<1>5. ~None({FrameEvt}, serialmb)
  BY <1>1, MailboxesTyped, TakeKeeps DEF Took, FirstIs
<1>6. bit \in 0 .. 1
  BY DEF TypeInv, OnceInv, BufferedIsLast
<1>7. CASE NoAnswer
  <2>1. Idle
    BY <1>7 DEF Parts, Turn, Serving, NoAnswer, Counted, CountedCodes
  <2>2. Turn'
    BY <1>2, <2>1, UndueKeeps DEF Turn
  <2>3. UNCHANGED <<to_primary, fcb, data_trans_active, called>>
    BY <1>7 DEF NoAnswer
  <2>4. Unanswered' /\ Alternates' /\ Carried'
    BY <1>3, <1>4, <1>5, <2>3 DEF Parts, Unanswered, Alternates, Carried
  <2> QED BY <2>2, <2>4 DEF Parts
<1>8. CASE Repeat
  <2>1. to_primary' = to_primary
    <3>1. to_primary \in Seq(Answers)
      BY DEF TypeInv, TypeOK, LineType
    <3> QED BY <1>8, <3>1 DEF Repeat, Write, Bytes, prev_sent_len
  <2>2. UNCHANGED <<fcb, data_trans_active, called>>
    BY <1>8 DEF Repeat
  <2>3. Turn'
    <3>1. CASE Idle
      BY <1>2, <3>1, UndueKeeps DEF Turn
    <3>2. CASE OneIs /\ Serving
      <4>1. rx_buff = request /\ rx_buff.ok
        BY <3>2 DEF Serving
      <4>2. request.FunCode = "FC_DW_DATA_YES" => recv_asdu' = CommandOf(request)
        BY <1>1, <4>1 DEF Copied
      <4>3. request.FunCode # "FC_DW_DATA_YES" => recv_asdu' = recv_asdu
        BY <1>1, <4>1 DEF Copied
      <4>4. request.FunCode = "FC_DW_DATA_YES" => recv_asdu = CommandOf(request)
        BY <3>2 DEF Serving
      <4>5. UNCHANGED ServeVars
        BY <1>1, <1>3, <2>1, <2>2, <4>2, <4>3, <4>4 DEF ServeVars
      <4> QED BY <1>2, <3>2, <4>5, UndueKeeps DEF Turn
    <3> QED BY <3>1, <3>2 DEF Parts, Turn
  <2>4. Unanswered' /\ Alternates' /\ Carried'
    BY <1>3, <1>4, <1>5, <2>1, <2>2 DEF Parts, Unanswered, Alternates, Carried
  <2> QED BY <2>3, <2>4 DEF Parts
<1>9. CASE Reset \/ LinkAnswers
  <2>1. rx_buff.FunCode \notin CountedCodes /\ rx_buff.FunCode = request.FunCode
    BY <1>9 DEF Reset, LinkAnswers, GotRequest, CountedCodes, TypeInv, OnceInv, BufferedIsLast,
       AnyRequest
  <2>2. ~Counted /\ ~Behind
    BY <2>1 DEF Counted, Behind
  <2>3. Turn'
    BY <1>2, <2>2, UndueKeeps DEF Parts, Turn, Serving
  <2>4. Unanswered'
    BY <1>4, <2>2 DEF Unanswered
  <2>5. CASE Reset
    <3>1. fcb' = NoFcb /\ data_trans_active' = 0
      BY <2>5 DEF Reset, CountAfterReset, TransferAfterReset
    <3>2. NoFcb # bit /\ NoFcb' = NoFcb
      BY <1>6 DEF NoFcb
    <3>3. Alternates'
      BY <1>3, <1>4, <2>2, <3>1, <3>2 DEF Alternates
    <3>4. Carried'
      BY <1>3, <3>1 DEF Parts, Carried
    <3> QED BY <2>3, <2>4, <3>3, <3>4 DEF Parts
  <2>6. CASE LinkAnswers
    <3>1. request.FunCode # "FC_DW_RST_REMOTE"
      BY <2>1, <2>6 DEF LinkAnswers, GotRequest
    <3>2. UNCHANGED <<fcb, data_trans_active, called>>
      BY <2>6 DEF LinkAnswers
    <3>3. Alternates' /\ Carried'
      BY <1>3, <1>4, <2>2, <3>1, <3>2 DEF Parts, Alternates, Carried
    <3> QED BY <2>3, <2>4, <3>3 DEF Parts
  <2> QED BY <1>9, <2>5, <2>6
<1> QED BY <1>7, <1>8, <1>9

(* The link accepts a request: from now on its answer is owed.             *)
LEMMA AcceptTurns ==
  ASSUME TypeInv, Parts, LinkStep, DataRequest \/ UserData
  PROVE  Parts'
<1>1. GotRequest(CountedCodes) /\ ~IsRepeat /\ Accepts
  BY DEF DataRequest, UserData, GotRequest, CountedCodes
<1>2. /\ Idle /\ waiting /\ Counted /\ rx_buff = request /\ to_primary = <<>> /\ rx_buff.ok
      /\ accepted' = request.num /\ fcb' = request.FCB
  BY <1>1, AcceptsTheLast
<1>3. UNCHANGED <<request, waiting, ready, bit, rx_buff, executed, early>> /\ Counted' = Counted
  BY LinkLeaves
<1>4. UNCHANGED to_primary /\ UNCHANGED data_trans_active
  BY DEF DataRequest, UserData, ConfirmedLater
<1>5. ~Behind'
  BY <1>2, <1>3 DEF Behind
<1>6. Asked' = Asked /\ Due' = Due /\ Calls' = Calls
  BY DEF Asked, Due, Calls
<1>7. None(Due, serialmb')
  BY <1>1, <1>2, MailboxesTyped, TakeKeeps DEF Accepts, Took, FirstIs, Idle
<1>8. request.num \in Nat
  BY DEF TypeInv, OnceInv, BufferedIsLast, AnyRequest
<1>9. \E e \in Owed' : appmb' = iec_post_event(appmb, AppMb, e)
  <2>1. CASE DataRequest
    <3>1. \E l \in Levels : appmb' = iec_post_event(appmb, AppMb, ReqEvt(l))
      BY <2>1 DEF DataRequest, PostApp, Levels
    <3>2. request.FunCode # "FC_DW_DATA_YES"
      BY <1>2, <2>1 DEF DataRequest, GotRequest
    <3>3. Owed' = Asked \ Calls
      BY <1>3, <1>6, <3>2 DEF Owed
    <3> QED BY <3>1, <3>3, WhoOwes
  <2>2. CASE UserData
    <3>1. appmb' = iec_post_event(appmb, AppMb, CommandEvt(accepted'))
      BY <1>2, <2>2 DEF UserData, PostApp
    <3>2. Owed' = {CommandEvt(accepted')}
      BY <1>2, <1>3, <2>2 DEF Owed, UserData, GotRequest, CommandEvt
    <3> QED BY <3>1, <3>2
  <2> QED BY <2>1, <2>2
<1>10. None(Asked \ Owed', appmb') /\ One(Asked, appmb')
  <2>1. None(Asked \ Owed', appmb) /\ None(Asked, appmb)
    BY <1>2 DEF Idle, None
  <2> QED BY <1>9, <2>1, MailboxesTyped, PostNone, SerialMailboxAssumption
<1>11. request.FunCode = "FC_DW_DATA_YES" =>
         recv_asdu' = CommandOf(request) /\ (request.asdu = "call" => called')
  <2> SUFFICES ASSUME request.FunCode = "FC_DW_DATA_YES"
               PROVE  recv_asdu' = CommandOf(request) /\ (request.asdu = "call" => called')
    OBVIOUS
  <2>1. UserData
    BY <1>2 DEF DataRequest, GotRequest
  <2>2. recv_asdu' = CommandOf(request)
    BY <1>1, <1>2 DEF Accepts, Copied
  <2>3. request.asdu = "call" => called'
    BY <1>2, <2>1 DEF UserData
  <2> QED BY <2>2, <2>3
<1>12. OneIs'
  BY <1>6, <1>7, <1>10 DEF OneIs, None, One
<1>13. Serving'
  BY <1>2, <1>3, <1>4, <1>6, <1>10, <1>11 DEF Serving, None, CommandOf
<1>14. Unanswered'
  BY <1>5 DEF Unanswered
<1>15. Alternates'
  <2>1. bit \in 0 .. 1 /\ request.FCB = 1 - bit
    BY <1>2 DEF TypeInv, OnceInv, BufferedIsLast, Parts, Alternates
  <2>2. fcb' # bit
    BY <1>2, <2>1
  <2> QED BY <1>2, <1>3, <1>4, <1>5, <2>1, <2>2 DEF Alternates
<1>16. Carried'
  <2>1. called => called'
    BY DEF DataRequest, UserData
  <2> QED BY <1>3, <1>4, <2>1 DEF Parts, Carried
<1> QED BY <1>12, <1>13, <1>14, <1>15, <1>16 DEF Parts, Turn

(* The link sends the answer that is owed; nothing is owed any more.       *)
LEMMA AnswerTurns ==
  ASSUME TypeInv, Parts, LinkStep, UserAck \/ SendAsdu \/ SendNone
  PROVE  Parts'
<1>1. PICK e \in Due : Took(e)
  BY WhoOwes DEF UserAck, SendAsdu, SendNone
<1>2. UNCHANGED <<appmb, accepted, fcb, data_trans_active, called>>
  BY DEF UserAck, SendAsdu, SendNone
<1>3. UNCHANGED <<request, waiting, ready, bit, rx_buff, executed, early>> /\ Counted' = Counted
  BY LinkLeaves
<1>4. serialmb \in Seq(LinkEvts) /\ serialmb # <<>> /\ Head(serialmb) \in Due
      /\ serialmb' = Tail(serialmb)
  BY <1>1, MailboxesTyped DEF Took, FirstIs
<1>5. ~None(Due, serialmb)
  BY <1>4, TakeKeeps
<1>6. Serving /\ None(Asked, appmb) /\ One(Due, serialmb)
  BY <1>5 DEF Parts, Turn, Idle, OneIs
<1>7. None(Due, serialmb')
  BY <1>4, <1>6, TakeKeeps
<1>8. Turn'
  BY <1>2, <1>6, <1>7 DEF Turn, Idle, None, Asked, Calls, Due
<1>9. Counted /\ ~Behind /\ ~Behind' /\ request.FunCode # "FC_DW_RST_REMOTE"
  BY <1>2, <1>3, <1>6 DEF Serving, Behind, Counted, CountedCodes
<1>10. Unanswered' /\ Alternates' /\ Carried'
  BY <1>2, <1>3, <1>9 DEF Parts, Unanswered, Alternates, Carried
<1> QED BY <1>8, <1>10 DEF Parts

LEMMA UpdateTurns ==
  ASSUME TypeInv, Parts, LinkStep, NEW l \in Levels, Update(l)
  PROVE  Parts'
<1>1. Took(UpdateEvt(l)) /\ UNCHANGED <<fcb, recv_asdu, to_primary, accepted, called,
                                       data_trans_active>>
  BY DEF Update
<1>2. UNCHANGED <<request, waiting, ready, bit, rx_buff, executed, early>> /\ Counted' = Counted
  BY LinkLeaves
<1>3. /\ None(Due, serialmb) => None(Due, serialmb')
      /\ One(Due, serialmb) => One(Due, serialmb')
  BY <1>1, MailboxesTyped, TakeKeeps DEF Took, FirstIs
<1>4. ASSUME appmb' = appmb PROVE Undue
  BY <1>3, <1>4 DEF Undue
<1>5. ASSUME appmb' = iec_post_event(appmb, AppMb, BalancedEvt) PROVE Undue
  <2>1. \A S \in SUBSET Asked : BalancedEvt \notin S
    BY WhoOwes
  <2>2. \A S \in SUBSET Asked : None(S, appmb) => None(S, appmb')
    BY <1>5, <2>1, MailboxesTyped, PostNone, SerialMailboxAssumption
  <2>3. One(Asked, appmb) => One(Asked, appmb')
    BY <1>5, MailboxesTyped, PostOne, WhoOwes, SerialMailboxAssumption
  <2> QED BY <1>3, <2>2, <2>3 DEF Undue
<1>6. Undue
  BY <1>4, <1>5 DEF Update, PostApp
<1>7. Turn'
  BY <1>1, <1>2, <1>6, UndueKeeps DEF ServeVars, Parts, Turn
<1>8. Behind' = Behind
  BY <1>1, <1>2 DEF Behind
<1>9. Unanswered' /\ Alternates' /\ Carried'
  BY <1>1, <1>2, <1>8, TookFrame DEF Parts, Unanswered, Alternates, Carried
<1> QED BY <1>7, <1>9 DEF Parts

LEMMA LinkTurns ==
  ASSUME TypeInv, Parts, LinkStep
  PROVE  Parts'
BY FrameTurns, AcceptTurns, AnswerTurns, UpdateTurns DEF LinkStep, SerialThread
-----------------------------------------------------------------------------
(* The application and the device.                                         *)
LEMMA AppLeaves ==
  ASSUME AppUnchanged, UNCHANGED primaryVars
  PROVE  /\ UNCHANGED ServeVars /\ UNCHANGED <<ready, bit, fcb, early>>
         /\ Counted' = Counted /\ Behind' = Behind
BY DEF AppUnchanged, primaryVars, ServeVars, Counted, Behind

(* An event in the link's mailbox that is no frame.                        *)
LEMMA PostsNoFrame ==
  ASSUME TypeInv, NEW e, e # FrameEvt, PostLink(e)
  PROVE  None({FrameEvt}, serialmb) => None({FrameEvt}, serialmb')
BY MailboxesTyped, PostNone, SerialMailboxAssumption DEF PostLink

(* The application takes the event that owes the answer, and posts it.     *)
LEMMA AskedTurns ==
  ASSUME TypeInv, Parts, AppUnchanged, UNCHANGED primaryVars, NEW e \in Asked, FirstIs(appmb, e),
         None(Asked, Tail(appmb)) => None(Asked, appmb'),
         NEW answer, PostLink(answer)
  PROVE  Turn' /\ Serving /\ e \in Owed /\ ~Behind
<1>1. appmb \in Seq(AppEvts) /\ appmb # <<>> /\ Head(appmb) = e
  BY MailboxesTyped DEF FirstIs
<1>2. ~None(Asked, appmb)
  BY <1>1, TakeKeeps
<1>3. Serving /\ One(Asked, appmb) /\ None(Due, serialmb)
  BY <1>2 DEF Parts, Turn, Idle, OneIs
<1>4. None(Asked, appmb')
  BY <1>1, <1>3, TakeKeeps
<1>5. One(Due, serialmb')
  BY <1>3, MailboxesTyped, PostNone, SerialMailboxAssumption DEF PostLink
<1>6. e \in Owed
  BY <1>1, <1>3, TakeKeeps DEF Serving
<1>7. Asked' = Asked /\ Due' = Due /\ Calls' = Calls
  BY DEF Asked, Due, Calls
<1>8. OneIs'
  BY <1>4, <1>5, <1>7 DEF OneIs, None, One
<1>9. UNCHANGED <<waiting, request, accepted, rx_buff, to_primary, recv_asdu, called>>
  BY AppLeaves DEF ServeVars
<1>10. Owed' = Owed
  BY <1>7, <1>9 DEF Owed
<1>11. None(Asked \ Owed, appmb')
  BY <1>4 DEF None
<1>12. Serving'
  BY <1>3, <1>7, <1>9, <1>10, <1>11 DEF Serving, Counted, None, CommandOf
<1> QED BY <1>3, <1>6, <1>8, <1>12 DEF Turn, Serving, Behind

LEMMA RequestTurns ==
  ASSUME TypeInv, Parts, UNCHANGED primaryVars, NEW l \in Levels, AppRequest(l)
  PROVE  Parts'
<1>1. AppUnchanged /\ FirstIs(appmb, ReqEvt(l)) /\ appmb' = Tail(appmb) /\ ReqEvt(l) \in Asked
  BY WhoOwes DEF AppRequest, AppTook
<1>2. \E e : PostLink(e)
  BY DEF AppRequest
<1>3. Turn' /\ ~Behind
  BY <1>1, <1>2, AskedTurns
<1>4. UNCHANGED <<data_trans_active, executed>>
  BY DEF AppRequest, appVars
<1>5. UNCHANGED <<waiting, request, to_primary, called, ready, bit, fcb>> /\ Counted' = Counted
      /\ Behind' = Behind
  BY <1>1, AppLeaves DEF ServeVars
<1>6. Unanswered' /\ Alternates' /\ Carried'
  BY <1>3, <1>4, <1>5 DEF Parts, Unanswered, Alternates, Carried
<1> QED BY <1>3, <1>6 DEF Parts

(* The command carried out is the one that was handed over: the receive    *)
(* buffer still holds it.                                                  *)
LEMMA CommandTurns ==
  ASSUME TypeInv, Parts, UNCHANGED primaryVars, AppCommand
  PROVE  Parts'
<1>1. PICK n \in 1 .. accepted : /\ FirstIs(appmb, CommandEvt(n))
                                 /\ executed' = Append(executed, [posted |-> n, read |-> recv_asdu.num])
  BY DEF AppCommand
<1>2. AppUnchanged /\ PostLink(UserAckEvt)
  BY DEF AppCommand
<1>3. n \in Nat /\ CommandEvt(n) \in Asked /\ CommandEvt(n) \in Calls
  BY WhoOwes DEF TypeInv, OnceInv, LastIsCounted
<1>4. Tail(appmb) \in Seq(AppEvts) /\ Len(Tail(appmb)) <= AppMb
  BY <1>1, AppTookTyped
<1>5. None(Asked, Tail(appmb)) => None(Asked, appmb')
  <2>1. NodeEvt("LEVEL_1") \notin Asked
    BY WhoOwes DEF Levels
  <2> QED BY <1>4, <2>1, CallKeeps DEF AppCommand
<1>6. Turn' /\ Serving /\ CommandEvt(n) \in Owed /\ ~Behind
  BY <1>1, <1>2, <1>3, <1>5, AskedTurns
<1>7. request.FunCode = "FC_DW_DATA_YES" /\ CommandEvt(n) = CommandEvt(accepted)
  BY <1>3, <1>6 DEF Owed
<1>8. n = accepted
  BY <1>3, <1>7, CommandsDiffer DEF TypeInv, OnceInv, LastIsCounted
<1>9. recv_asdu = CommandOf(request) /\ (request.asdu = "call" => called)
      /\ request.num = accepted
  BY <1>6, <1>7 DEF Serving
<1>10. recv_asdu.num = n /\ (recv_asdu.asdu = "call" => called)
  BY <1>8, <1>9 DEF CommandOf
<1>11. UNCHANGED <<waiting, request, to_primary, called, ready, bit, fcb>> /\ Counted' = Counted
      /\ Behind' = Behind
  BY <1>2, AppLeaves DEF ServeVars
<1>12. Unanswered' /\ Alternates'
  BY <1>6, <1>11 DEF Parts, Unanswered, Alternates
<1>13. data_trans_active' = 1 => called
  BY <1>10 DEF AppCommand, Parts, Carried
<1>14. \A i \in DOMAIN executed' : executed'[i].posted = executed'[i].read
  <2>1. executed \in Seq([posted : 1 .. MaxRequests, read : 0 .. MaxRequests])
    BY DEF TypeInv, TypeOK, HistoryType
  <2>2. /\ DOMAIN executed' = 1 .. Len(executed) + 1 /\ DOMAIN executed = 1 .. Len(executed)
        /\ Len(executed) \in Nat
    BY <1>1, <2>1
  <2>3. executed'[Len(executed) + 1] = [posted |-> n, read |-> n]
    BY <1>1, <1>10, <2>1
  <2>4. \A i \in 1 .. Len(executed) : executed'[i] = executed[i]
    BY <1>1, <2>1
  <2>5. \A i \in DOMAIN executed : executed[i].posted = executed[i].read
    BY DEF Parts, Carried
  <2>6. \A i \in DOMAIN executed' : i = Len(executed) + 1 \/ i \in 1 .. Len(executed)
    BY <2>2
  <2> QED BY <2>2, <2>3, <2>4, <2>5, <2>6
<1>15. Carried'
  BY <1>11, <1>13, <1>14 DEF Carried
<1> QED BY <1>6, <1>12, <1>15 DEF Parts

LEMMA UndueTurns ==
  ASSUME TypeInv, Parts, UNCHANGED primaryVars, AppUnchanged, Undue,
         UNCHANGED <<data_trans_active, executed>>,
         None({FrameEvt}, serialmb) => None({FrameEvt}, serialmb')
  PROVE  Parts'
<1>1. Turn'
  BY AppLeaves, UndueKeeps DEF Parts, Turn
<1>2. UNCHANGED <<waiting, request, to_primary, called, ready, bit, fcb>> /\ Counted' = Counted
      /\ Behind' = Behind
  BY AppLeaves DEF ServeVars
<1>3. FrameEvt' = FrameEvt
  BY DEF FrameEvt, Event
<1>4. Unanswered' /\ Alternates' /\ Carried'
  BY <1>2, <1>3 DEF Parts, Unanswered, Alternates, Carried, None
<1> QED BY <1>1, <1>4 DEF Parts

LEMMA AppTurns ==
  ASSUME TypeInv, Parts, UNCHANGED primaryVars, AppThread \/ Device
  PROVE  Parts'
<1>1. CASE AppIgnores
  <2>1. AppUnchanged /\ UNCHANGED <<serialmb, data_trans_active, executed>>
        /\ FirstIs(appmb, BalancedEvt) /\ appmb' = Tail(appmb)
    BY <1>1 DEF AppIgnores, AppTook, appVars
  <2>2. Undue
    BY <2>1, MailboxesTyped, TakeKeeps DEF FirstIs, Undue
  <2> QED BY <2>1, <2>2, UndueTurns
<1>2. ASSUME NEW l \in Levels, AppUpdate(l) PROVE Parts'
  <2>1. AppUnchanged /\ UNCHANGED <<data_trans_active, executed>>
        /\ FirstIs(appmb, NodeEvt(l)) /\ appmb' = Tail(appmb)
    BY <1>2 DEF AppUpdate, AppTook, appVars
  <2>2. /\ \A S \in SUBSET Asked : None(S, appmb) => None(S, appmb')
        /\ One(Asked, appmb) => One(Asked, appmb')
    BY <2>1, MailboxesTyped, TakeKeeps DEF FirstIs
  <2>3. CASE UNCHANGED serialmb
    BY <2>1, <2>2, <2>3, UndueTurns DEF Undue
  <2>4. CASE PostLink(UpdateEvt(l))
    <3>1. serialmb' = iec_post_event(serialmb, SerialMb, UpdateEvt(l)) /\ UpdateEvt(l) \notin Due
      BY <2>4, WhoOwes DEF PostLink
    <3>2. Undue
      BY <2>2, <3>1, MailboxesTyped, PostNone, PostOne, SerialMailboxAssumption DEF Undue
    <3>3. None({FrameEvt}, serialmb) => None({FrameEvt}, serialmb')
      BY <2>4, PostsNoFrame, WhoOwes
    <3> QED BY <2>1, <3>2, <3>3, UndueTurns
  <2> QED BY <1>2, <2>3, <2>4 DEF AppUpdate
<1>3. ASSUME NEW l \in Levels, DeviceUpdate(l) PROVE Parts'
  <2>1. AppUnchanged /\ UNCHANGED <<serialmb, data_trans_active, executed>>
        /\ appmb' = iec_post_event(appmb, AppMb, NodeEvt(l))
    BY <1>3 DEF DeviceUpdate, PostApp
  <2>2. \A S \in SUBSET Asked : NodeEvt(l) \notin S
    BY WhoOwes
  <2>3. /\ \A S \in SUBSET Asked : None(S, appmb) => None(S, appmb')
        /\ One(Asked, appmb) => One(Asked, appmb')
    BY <2>1, <2>2, MailboxesTyped, PostNone, PostOne, SerialMailboxAssumption
  <2> QED BY <2>1, <2>3, UndueTurns DEF Undue
<1> QED BY <1>1, <1>2, <1>3, RequestTurns, CommandTurns DEF AppThread, Device
-----------------------------------------------------------------------------
(* The primary station, which is not early.                                *)
LEMMA NotEarly ==
  ASSUME TypeInv, PrimaryStation, early' = 0
  PROVE  /\ early = 0 /\ (Times => Quiet)
         /\ UNCHANGED <<fcb, recv_asdu, accepted, called, appmb, data_trans_active>>
<1>1. early \in Nat
  BY DEF TypeInv, TypeOK, PrimaryType
<1>2. early = 0
  <2>1. AskUncounted \/ AskCounted => early' = early
    BY DEF AskUncounted, AskCounted, Asks
  <2>2. RepeatRequest \/ GiveUp => early' = early \/ early' = early + 1
    BY DEF RepeatRequest, GiveUp, Times
  <2>3. TakeAnswer \/ Discard \/ LoseAnswer => early' = early
    BY DEF TakeAnswer, Discard, LoseAnswer
  <2>4. early' = early \/ early' = early + 1
    BY <2>1, <2>2, <2>3 DEF PrimaryStation
  <2> QED BY <1>1, <2>4
<1>3. Times => Quiet
  BY <1>2 DEF Times
<1> QED BY <1>2, <1>3 DEF PrimaryStation, AskUncounted, AskCounted, Asks, RepeatRequest, GiveUp,
       TakeAnswer, Discard, LoseAnswer, Puts, Hears, LineUnchanged, serialVars

(* Nothing is owed after a request was put on the line when nothing was.   *)
LEMMA PutsIdle ==
  ASSUME TypeInv, Idle, NEW f, Puts(f)
  PROVE  Idle' /\ to_primary' = <<>>
<1>1. None(Due, serialmb')
  BY MailboxesTyped, PostNone, WhoOwes, SerialMailboxAssumption DEF Puts, PostLink, Idle
<1>2. appmb' = appmb /\ to_primary' = <<>>
  BY DEF Puts, LineUnchanged
<1> QED BY <1>1, <1>2 DEF Idle, None, Asked, Calls, Due

LEMMA QuietIdle ==
  ASSUME Quiet
  PROVE  Idle /\ None({FrameEvt}, serialmb) /\ to_primary = <<>>
BY DEF Quiet, Idle, None

LEMMA AskTurns ==
  ASSUME TypeInv, Parts, AskUncounted \/ AskCounted, PrimaryStep, early' = 0
  PROVE  Parts'
<1>1. UNCHANGED <<fcb, accepted, called, data_trans_active, executed>>
  BY NotEarly DEF PrimaryStep, appVars
<1>2. PICK f : /\ Asks(f)
              /\ \/ AskUncounted /\ f.FunCode \in Uncounted
                 \/ /\ AskCounted /\ f.FunCode \in CountedCodes /\ f.num = request.num + 1
                    /\ f.FCB = bit
  <2>1. CASE AskUncounted
    <3>1. PICK fc \in Uncounted : Asks(Request(fc, 0, request.num, "rejected", TRUE))
      BY <2>1 DEF AskUncounted
    <3>2. Request(fc, 0, request.num, "rejected", TRUE).FunCode \in Uncounted
      BY DEF Request
    <3> QED BY <2>1, <3>1, <3>2
  <2>2. CASE AskCounted
    <3>1. PICK fc \in CountedCodes, a \in Asdus : Asks(Request(fc, bit, request.num + 1, a, TRUE))
      BY <2>2, PrimaryAssumption DEF AskCounted, CountedCodes, Asdus
    <3> DEFINE g == Request(fc, bit, request.num + 1, a, TRUE)
    <3>2. g.FunCode \in CountedCodes /\ g.num = request.num + 1 /\ g.FCB = bit
      BY DEF Request
    <3> QED BY <2>2, <3>1, <3>2
  <2> QED BY <2>1, <2>2
<1>3. ~waiting /\ Puts(f) /\ request' = f /\ waiting' = (f.FunCode # "FC_DW_DATA_NO")
  BY <1>2 DEF Asks
<1>4. Idle
  BY <1>3 DEF Parts, Turn, Serving
<1>5. Idle' /\ to_primary' = <<>>
  BY <1>3, <1>4, PutsIdle
<1>6. Counted' => waiting'
  BY <1>3 DEF Counted, CountedCodes
<1>7. Unanswered' /\ Turn'
  BY <1>5, <1>6 DEF Unanswered, Turn, Behind
<1>8. Carried'
  BY <1>1 DEF Parts, Carried
<1>9. bit \in 0 .. 1 /\ request.num \in Nat /\ accepted \in Nat /\ accepted <= request.num
  BY DEF TypeInv, OnceInv, BufferedIsLast, LastIsCounted, AnyRequest
<1>10. ready => fcb # bit
  BY <1>3 DEF Parts, Alternates
<1>11. CASE AskUncounted /\ f.FunCode \in Uncounted
  <2>1. ~Counted' /\ ~Behind'
    BY <1>3, <1>11 DEF Counted, Behind, CountedCodes, Uncounted
  <2>2. bit' = bit /\ (ready' => ready)
    BY <1>11 DEF AskUncounted
  <2>3. Alternates'
    BY <1>1, <1>5, <1>10, <2>1, <2>2 DEF Alternates
  <2> QED BY <1>7, <1>8, <2>3 DEF Parts
<1>12. CASE /\ AskCounted /\ f.FunCode \in CountedCodes /\ f.num = request.num + 1
            /\ f.FCB = bit
  <2>1. bit' = 1 - bit /\ ready
    BY <1>12 DEF AskCounted
  <2>2. request'.FCB = 1 - bit' /\ request'.FCB # fcb'
    BY <1>1, <1>3, <1>9, <1>10, <1>12, <2>1
  <2>3. Counted' /\ Behind'
    BY <1>1, <1>3, <1>9, <1>12 DEF Counted, Behind
  <2>4. Alternates'
    BY <1>5, <1>6, <2>2, <2>3 DEF Alternates
  <2> QED BY <1>7, <1>8, <2>4 DEF Parts
<1> QED BY <1>2, <1>11, <1>12

LEMMA TimesTurns ==
  ASSUME TypeInv, Parts, RepeatRequest \/ GiveUp, PrimaryStep, early' = 0
  PROVE  Parts'
<1>1. /\ UNCHANGED <<fcb, accepted, called, data_trans_active, executed, appmb>>
      /\ waiting /\ Quiet
  BY NotEarly DEF PrimaryStep, appVars, RepeatRequest, GiveUp, Times
<1>2. Idle /\ None({FrameEvt}, serialmb) /\ to_primary = <<>>
  BY <1>1, QuietIdle
<1>3. UNCHANGED <<request, bit>>
  BY DEF RepeatRequest, GiveUp
<1>4. Counted' = Counted /\ Behind' = Behind
  BY <1>1, <1>3 DEF Counted, Behind
<1>5. Carried'
  BY <1>1 DEF Parts, Carried
<1>6. CASE RepeatRequest
  <2>1. Idle' /\ to_primary' = <<>>
    BY <1>2, <1>6, PutsIdle DEF RepeatRequest
  <2>2. UNCHANGED <<waiting, ready>>
    BY <1>6 DEF RepeatRequest
  <2>3. Turn' /\ Unanswered' /\ Alternates'
    BY <1>1, <1>3, <1>4, <2>1, <2>2 DEF Parts, Turn, Unanswered, Alternates
  <2> QED BY <1>5, <2>3 DEF Parts
<1>7. CASE GiveUp
  <2>1. waiting' = FALSE /\ ready' = FALSE /\ UNCHANGED <<serialmb, to_primary>>
    BY <1>7 DEF GiveUp
  <2>2. Idle' /\ None({FrameEvt}', serialmb')
    BY <1>1, <1>2, <2>1 DEF Idle, None, Asked, Calls, Due, FrameEvt, Event
  <2>3. Turn' /\ Unanswered' /\ Alternates'
    BY <1>1, <1>2, <1>3, <1>4, <2>1, <2>2 DEF Parts, Turn, Unanswered, Alternates
  <2> QED BY <1>5, <2>3 DEF Parts
<1> QED BY <1>6, <1>7

LEMMA HearTurns ==
  ASSUME TypeInv, Parts, TakeAnswer \/ Discard \/ LoseAnswer, PrimaryStep, early' = 0
  PROVE  Parts'
<1>1. Hears /\ to_primary # <<>> /\ UNCHANGED <<rx_buff, serialmb, request>>
  BY DEF TakeAnswer, Discard, LoseAnswer, Hears
<1>2. UNCHANGED <<fcb, accepted, called, data_trans_active, executed, appmb>>
  BY NotEarly DEF PrimaryStep, appVars
<1>3. Idle /\ ~Behind
  BY <1>1 DEF Parts, Turn, Serving, Unanswered
<1>4. Counted' = Counted /\ ~Behind'
  BY <1>1, <1>2, <1>3 DEF Counted, Behind
<1>5. Turn' /\ Unanswered' /\ Carried'
  BY <1>1, <1>2, <1>3, <1>4 DEF Turn, Idle, None, Asked, Calls, Due, Unanswered, Parts, Carried
<1>6. ready => fcb # bit
  BY <1>3 DEF Parts, Alternates
<1>7. request.FunCode = "FC_DW_RST_REMOTE" => fcb = NoFcb
  BY <1>1 DEF Parts, Alternates
<1>8. CASE TakeAnswer
  <2>1. waiting' = FALSE
    BY <1>8 DEF TakeAnswer
  <2>2. CASE request.FunCode = "FC_DW_RST_REMOTE"
    <3>1. bit' = 1 /\ fcb' = NoFcb /\ NoFcb # 1 /\ NoFcb' = NoFcb
      BY <1>2, <1>7, <1>8, <2>2 DEF TakeAnswer, NoFcb
    <3>2. Alternates'
      BY <2>1, <3>1 DEF Alternates
    <3> QED BY <1>5, <3>2 DEF Parts
  <2>3. CASE request.FunCode # "FC_DW_RST_REMOTE"
    <3>1. ready' => ready
      BY <1>8, <2>3, Zenon DEF TakeAnswer
    <3>2. bit' = bit
      BY <1>8, <2>3 DEF TakeAnswer
    <3>3. Alternates'
      BY <1>1, <1>2, <1>6, <2>1, <2>3, <3>1, <3>2 DEF Alternates
    <3> QED BY <1>5, <3>3 DEF Parts
  <2> QED BY <2>2, <2>3
<1>9. CASE Discard \/ LoseAnswer
  <2>1. UNCHANGED <<waiting, ready, bit>>
    BY <1>9 DEF Discard, LoseAnswer
  <2>2. NoFcb' = NoFcb
    BY DEF NoFcb
  <2>3. Alternates'
    BY <1>1, <1>2, <1>4, <1>6, <1>7, <2>1, <2>2 DEF Parts, Alternates
  <2> QED BY <1>5, <2>3 DEF Parts
<1> QED BY <1>8, <1>9
-----------------------------------------------------------------------------
LEMMA TurnHolds == Spec => []TurnInv
<1>1. Init => TurnInv
  BY DEF Init, SerialLinkInit, SerialAppInit, PrimaryInit, NoRequest, Request, TurnInv, Parts, Turn,
         Idle, None, Unanswered, Alternates, Carried, Behind, Counted, CountedCodes
<1>2. TypeInv /\ TurnInv /\ [Next]_vars => TurnInv'
  <2> SUFFICES ASSUME TypeInv, TurnInv, [Next]_vars, early' = 0 PROVE Parts'
    BY DEF TurnInv
  <2>1. CASE LinkStep
    BY <2>1, LinkTurns, LinkLeaves DEF TurnInv
  <2>2. CASE AppStep \/ DeviceStep
    <3>1. UNCHANGED primaryVars /\ (AppThread \/ Device)
      BY <2>2 DEF AppStep, DeviceStep
    <3>2. early = 0
      BY <3>1 DEF primaryVars
    <3> QED BY <3>1, <3>2, AppTurns DEF TurnInv
  <2>3. CASE PrimaryStep
    <3>1. PrimaryStation /\ early = 0
      BY <2>3, NotEarly DEF PrimaryStep
    <3> QED BY <2>3, <3>1, AskTurns, TimesTurns, HearTurns DEF PrimaryStation, TurnInv
  <2>4. CASE UNCHANGED vars
    <3>1. /\ UNCHANGED primaryVars /\ AppUnchanged /\ UNCHANGED <<appmb, serialmb>>
          /\ UNCHANGED <<data_trans_active, executed>> /\ early = 0
      BY <2>4 DEF vars, serialVars, appVars, primaryVars, AppUnchanged
    <3> QED BY <3>1, UndueTurns DEF Undue, TurnInv
  <2> QED BY <2>1, <2>2, <2>3, <2>4 DEF Next
<1> QED BY <1>1, <1>2, TypeHolds, PTL DEF Spec

(* A request the primary has not sent before is never taken for a repeat   *)
(* (serial_link_dispatch), while the primary is never early.               *)
THEOREM NewRequestsAccepted == Spec => []NewIsAccepted
<1>1. TypeInv /\ TurnInv => NewIsAccepted
  <2> SUFFICES ASSUME TypeInv, TurnInv, early = 0, Pending, rx_buff.num > accepted PROVE ~IsRepeat
    BY DEF NewIsAccepted
  <2>1. /\ rx_buff.num = request.num /\ rx_buff.FunCode = request.FunCode
        /\ rx_buff.FCB = request.FCB
    BY DEF TypeInv, OnceInv, BufferedIsLast, AnyRequest
  <2>2. accepted \in Nat /\ request.num \in Nat
    BY DEF TypeInv, OnceInv, LastIsCounted, BufferedIsLast, AnyRequest
  <2>3. Behind
    BY <2>1, <2>2 DEF Behind, Counted, Pending
  <2>4. ~None({FrameEvt}, serialmb)
    BY MailboxesTyped, TakeKeeps DEF Pending, FirstIs
  <2>5. waiting
    BY <2>3, <2>4 DEF TurnInv, Parts, Unanswered
  <2> QED BY <2>1, <2>3, <2>5 DEF TurnInv, Parts, Alternates, IsRepeat
<1> QED BY <1>1, TypeHolds, TurnHolds, PTL

(* The command carried out is the one its event was posted for, while the  *)
(* primary is never early: the buffer the event only names is not received *)
(* into again before the confirmation.                                     *)
THEOREM CommandsCarriedOut == Spec => []CarriedOutAsHanded
<1>1. TurnInv => CarriedOutAsHanded
  BY DEF TurnInv, Parts, Carried, CarriedOutAsHanded
<1> QED BY <1>1, TurnHolds, PTL

(* Data is transferred only on a link that had a general call since its    *)
(* reset, while the primary is never early, although the application sets  *)
(* the flag that the link clears.                                          *)
THEOREM TransfersWereCalled == Spec => []TransferWasCalled
<1>1. TurnInv => TransferWasCalled
  BY DEF TurnInv, Parts, Carried, TransferWasCalled
<1> QED BY <1>1, TurnHolds, PTL
-----------------------------------------------------------------------------
(* Class 1 data is announced, on an unbalanced line without losses: while  *)
(* data waits, the tag is set, or an event that sets it is under way, or   *)
(* the link will look at the list, or the answer on the line announces it, *)
(* or the primary knows.  What it knows it forgets when it takes the       *)
(* answer to a request for class 1 data, so from the moment that answer is *)
(* made one of the others holds.                                           *)
DataCodes   == {"FC_DW_FIRST_DATA", "FC_DW_SEC_DATA"}
DataAnswers == {"FC_UP_USER_DATA", "FC_UP_NO_DATA"}

\* The events after which the link announces class 1 data, or looks for it.
Tells == {UpdateEvt("LEVEL_1"), UserAckEvt, SendAsduEvt}

\* What the station owes is an answer of the kind the request asks for.
Kinds ==
  /\ request.FunCode = "FC_DW_FIRST_DATA" => None({ReqEvt("LEVEL_2")}, appmb)
  /\ request.FunCode \in DataCodes => None({UserAckEvt}, serialmb)
  /\ request.FunCode = "FC_DW_DATA_YES" => None({SendAsduEvt}, serialmb)

\* The answer to a request for data is the only one on the line, and fits.
Expects  == waiting /\ request.FunCode \in DataCodes
FitsOnly == (Expects /\ to_primary # <<>>) =>
              Len(to_primary) = 1 /\ Head(to_primary).FunCode \in DataAnswers

\* The primary is about to forget what it was told: it has asked for class 1
\* data, and the answer is made.
Forgets ==
  /\ waiting /\ request.FunCode = "FC_DW_FIRST_DATA"
  /\ to_primary # <<>> \/ \E l \in Levels : ~None({SendNoneEvt(l)}, serialmb)

Announced ==
  first_task["LEVEL_1"] > 0 =>
    \/ acd_tag = 1
    \/ ~None(Tells, serialmb)
    \/ Expects /\ to_primary # <<>> /\ Head(to_primary).ACD = 1
    \/ told /\ ~Forgets

AnnounceParts == Kinds /\ FitsOnly /\ Announced
ClassOneInv   == (Undisturbed /\ double_dir = 0) => AnnounceParts

LEMMA PostSome ==
  ASSUME NEW E, NEW mb \in Seq(E), NEW n \in Nat, NEW e, NEW S
  PROVE  /\ ~None(S, mb) => ~None(S, iec_post_event(mb, n, e))
         /\ Len(mb) < n /\ e \in S => ~None(S, iec_post_event(mb, n, e))
<1>1. CASE Len(mb) < n
  <2> DEFINE t == Append(mb, e)
  <2>1. DOMAIN t = 1 .. Len(mb) + 1 /\ DOMAIN mb = 1 .. Len(mb) /\ Len(mb) \in Nat
    OBVIOUS
  <2>2. \A i \in 1 .. Len(mb) : t[i] = mb[i]
    OBVIOUS
  <2>3. t[Len(mb) + 1] = e
    OBVIOUS
  <2> HIDE DEF t
  <2>4. Len(mb) + 1 \in DOMAIN t /\ \A i \in DOMAIN mb : i \in DOMAIN t /\ t[i] = mb[i]
    BY <2>1, <2>2
  <2>5. (~None(S, mb) => ~None(S, t)) /\ (e \in S => ~None(S, t))
    BY <2>3, <2>4 DEF None
  <2> QED BY <1>1, <2>5 DEF iec_post_event, t
<1>2. CASE ~(Len(mb) < n)
  BY <1>2 DEF iec_post_event
<1> QED BY <1>1, <1>2

LEMMA TakeSome ==
  ASSUME NEW E, NEW mb \in Seq(E), mb # <<>>, NEW S, Head(mb) \notin S, ~None(S, mb)
  PROVE  ~None(S, Tail(mb))
<1> DEFINE t == Tail(mb)
<1>1. /\ Len(mb) \in Nat \ {0} /\ DOMAIN mb = 1 .. Len(mb) /\ DOMAIN t = 1 .. Len(mb) - 1
      /\ Head(mb) = mb[1]
  OBVIOUS
<1>2. \A i \in DOMAIN t : t[i] = mb[i + 1]
  BY <1>1
<1>3. PICK i \in DOMAIN mb : mb[i] \in S
  BY DEF None
<1>4. i # 1 /\ i \in Nat
  BY <1>1, <1>3
<1>5. i - 1 \in DOMAIN t /\ (i - 1) + 1 = i
  BY <1>1, <1>4
<1>6. t[i - 1] \in S
  BY <1>2, <1>3, <1>5
<1> QED BY <1>5, <1>6 DEF None

(* A mailbox in which nothing of a set is, nothing of a smaller one is.    *)
LEMMA FewerNone ==
  ASSUME NEW S, NEW T, S \subseteq T, NEW mb, None(T, mb)
  PROVE  None(S, mb)
BY DEF None

LEMMA WhoTells ==
  /\ UpdateEvt("LEVEL_1") \in Tells /\ UserAckEvt \in Tells /\ SendAsduEvt \in Tells
  /\ FrameEvt \notin Tells /\ UpdateEvt("LEVEL_2") \notin Tells
  /\ \A l \in Levels : SendNoneEvt(l) \notin Tells
  /\ UserAckEvt # SendAsduEvt
  /\ \A l \in Levels : /\ SendNoneEvt(l) # UserAckEvt /\ UpdateEvt(l) # UserAckEvt
                       /\ UpdateEvt(l) # SendAsduEvt
                       /\ \A k \in Levels : UpdateEvt(l) # SendNoneEvt(k)
  /\ FrameEvt # UserAckEvt /\ FrameEvt # SendAsduEvt
  /\ \A l, k \in Levels : NodeEvt(l) # ReqEvt(k)
  /\ \A l \in Levels : BalancedEvt # ReqEvt(l) /\ \A n \in Nat : CommandEvt(n) # ReqEvt(l)
  /\ ReqEvt("LEVEL_1") # ReqEvt("LEVEL_2")
BY DEF Tells, FrameEvt, UpdateEvt, BalancedEvt, NodeEvt, CommandEvt, ReqEvt, UserAckEvt,
       SendAsduEvt, SendNoneEvt, Event, Levels

(* Steps that leave the primary and the kind of the answer alone.          *)
Steady ==
  /\ UNCHANGED <<request, waiting, told>>
  /\ request.FunCode \in DataCodes => UNCHANGED to_primary
  /\ (request.FunCode = "FC_DW_FIRST_DATA" /\ None({ReqEvt("LEVEL_2")}, appmb))
       => None({ReqEvt("LEVEL_2")}, appmb')
  /\ (request.FunCode \in DataCodes /\ None({UserAckEvt}, serialmb)) => None({UserAckEvt}, serialmb')
  /\ (request.FunCode = "FC_DW_DATA_YES" /\ None({SendAsduEvt}, serialmb))
       => None({SendAsduEvt}, serialmb')

LEMMA SteadyKeeps ==
  ASSUME Kinds, FitsOnly, Steady
  PROVE  Kinds' /\ FitsOnly' /\ Expects' = Expects
<1>1. /\ ReqEvt("LEVEL_2")' = ReqEvt("LEVEL_2") /\ UserAckEvt' = UserAckEvt
      /\ SendAsduEvt' = SendAsduEvt
  BY DEF ReqEvt, UserAckEvt, SendAsduEvt, Event
<1>2. DataCodes' = DataCodes /\ DataAnswers' = DataAnswers
  BY DEF DataCodes, DataAnswers
<1>3. Kinds'
  BY <1>1, <1>2 DEF Steady, Kinds, None
<1>4. Expects' = Expects
  BY <1>2 DEF Steady, Expects
<1>5. FitsOnly'
  BY <1>2, <1>4 DEF Steady, FitsOnly, Expects
<1> QED BY <1>3, <1>4, <1>5

\* Nothing that is announced is lost, and nothing the primary knows.
Lasting ==
  /\ first_task'["LEVEL_1"] = first_task["LEVEL_1"]
  /\ acd_tag = 1 => acd_tag' = 1
  /\ ~None(Tells, serialmb) => acd_tag' = 1 \/ ~None(Tells, serialmb')
  /\ request.FunCode = "FC_DW_FIRST_DATA" =>
       \A l \in Levels : None({SendNoneEvt(l)}, serialmb) => None({SendNoneEvt(l)}, serialmb')

LEMMA LastingKeeps ==
  ASSUME AnnounceParts, Steady, Lasting
  PROVE  AnnounceParts'
<1>1. Kinds' /\ FitsOnly' /\ Expects' = Expects
  BY SteadyKeeps DEF AnnounceParts
<1>2. Tells' = Tells /\ \A l \in Levels : SendNoneEvt(l)' = SendNoneEvt(l)
  BY DEF Tells, UpdateEvt, UserAckEvt, SendAsduEvt, SendNoneEvt, Event
<1>3. "FC_DW_FIRST_DATA" \in DataCodes
  BY DEF DataCodes
<1>4. Forgets' => Forgets
  BY <1>2, <1>3 DEF Forgets, Steady, Lasting, None
<1>5. Expects => UNCHANGED to_primary
  BY DEF Steady, Expects
<1>6. told' = told
  BY DEF Steady
<1>7. ~None(Tells, serialmb) => acd_tag' = 1 \/ ~None(Tells', serialmb')
  BY <1>2 DEF Lasting
<1>8. Announced'
  BY <1>1, <1>2, <1>4, <1>5, <1>6, <1>7 DEF AnnounceParts, Announced, Lasting, None
<1> QED BY <1>1, <1>8 DEF AnnounceParts
-----------------------------------------------------------------------------
(* The link thread.                                                        *)
LEMMA ListenAnnounced ==
  ASSUME TypeInv, Parts, AnnounceParts, LinkStep,
         NoAnswer \/ Repeat \/ Reset \/ LinkAnswers \/ DataRequest \/ UserData
  PROVE  AnnounceParts'
<1>1. Took(FrameEvt) /\ UNCHANGED acd_tag
  BY DEF NoAnswer, Repeat, Reset, LinkAnswers, DataRequest, UserData, Accepts
<1>2. UNCHANGED <<request, waiting, told, first_task>>
  BY DEF LinkStep, SerialThread, primaryVars
<1>3. /\ \A S : None(S, serialmb) => None(S, serialmb')
      /\ ~None(Tells, serialmb) => ~None(Tells, serialmb')
  BY <1>1, MailboxesTyped, TakeKeeps, TakeSome, WhoTells DEF Took, FirstIs
<1>4. request.FunCode \in DataCodes => UNCHANGED to_primary
  <2>1. CASE NoAnswer \/ DataRequest \/ UserData
    BY <2>1 DEF NoAnswer, DataRequest, UserData, ConfirmedLater
  <2>2. CASE Repeat
    <3>1. to_primary \in Seq(Answers)
      BY DEF TypeInv, TypeOK, LineType
    <3> QED BY <2>2, <3>1 DEF Repeat, Write, Bytes, prev_sent_len
  <2>3. CASE Reset \/ LinkAnswers
    BY <2>3 DEF Reset, LinkAnswers, GotRequest, DataCodes, TypeInv, OnceInv, BufferedIsLast,
       AnyRequest
  <2> QED BY <2>1, <2>2, <2>3
<1>5. (request.FunCode = "FC_DW_FIRST_DATA" /\ None({ReqEvt("LEVEL_2")}, appmb))
        => None({ReqEvt("LEVEL_2")}, appmb')
  <2>1. CASE NoAnswer \/ Repeat \/ Reset \/ LinkAnswers
    BY <2>1 DEF NoAnswer, Repeat, Reset, LinkAnswers
  <2>2. CASE DataRequest
    <3>1. rx_buff.FunCode = request.FunCode
      BY DEF TypeInv, OnceInv, BufferedIsLast, AnyRequest
    <3>2. request.FunCode = "FC_DW_FIRST_DATA" =>
            appmb' = iec_post_event(appmb, AppMb, ReqEvt("LEVEL_1"))
      BY <2>2, <3>1 DEF DataRequest, PostApp
    <3>3. ReqEvt("LEVEL_1") \notin {ReqEvt("LEVEL_2")}
      BY WhoTells
    <3> QED BY <3>2, <3>3, MailboxesTyped, PostNone, SerialMailboxAssumption
  <2>3. CASE UserData
    BY <2>3 DEF UserData, GotRequest, TypeInv, OnceInv, BufferedIsLast, AnyRequest
  <2> QED BY <2>1, <2>2, <2>3
<1>6. Steady
  BY <1>2, <1>3, <1>4, <1>5 DEF Steady
<1>7. Lasting
  BY <1>1, <1>2, <1>3 DEF Lasting
<1> QED BY <1>6, <1>7, LastingKeeps

LEMMA UpdateAnnounced ==
  ASSUME TypeInv, AnnounceParts, LinkStep, double_dir = 0, NEW l \in Levels, Update(l)
  PROVE  AnnounceParts'
<1>1. Took(UpdateEvt(l)) /\ UNCHANGED <<appmb, to_primary>>
      /\ acd_tag' = IF l = "LEVEL_1" THEN 1 ELSE acd_tag
  BY DEF Update
<1>2. UNCHANGED <<request, waiting, told, first_task>>
  BY DEF LinkStep, SerialThread, primaryVars
<1>3. serialmb \in Seq(LinkEvts) /\ serialmb # <<>> /\ Head(serialmb) = UpdateEvt(l)
      /\ serialmb' = Tail(serialmb)
  BY <1>1, MailboxesTyped DEF Took, FirstIs
<1>4. \A S : None(S, serialmb) => None(S, serialmb')
  BY <1>3, TakeKeeps
<1>5. ~None(Tells, serialmb) => acd_tag' = 1 \/ ~None(Tells, serialmb')
  BY <1>1, <1>3, TakeSome, WhoTells DEF Levels
<1>6. Steady
  BY <1>1, <1>2, <1>4 DEF Steady
<1>7. Lasting
  BY <1>1, <1>2, <1>4, <1>5 DEF Lasting
<1> QED BY <1>6, <1>7, LastingKeeps

(* The link answers: the answer fits, and says whether more data waits.    *)
LEMMA AnswerAnnounced ==
  ASSUME TypeInv, Parts, AnnounceParts, LinkStep, UserAck \/ SendAsdu \/ SendNone
  PROVE  AnnounceParts'
<1>1. PICK e \in Due : /\ Took(e)
                       /\ \/ UserAck /\ e = UserAckEvt
                          \/ SendAsdu /\ e = SendAsduEvt
                          \/ SendNone /\ \E l \in Levels : e = SendNoneEvt(l)
  BY WhoOwes DEF UserAck, SendAsdu, SendNone
<1>2. UNCHANGED <<request, waiting, told, first_task, appmb>>
  BY DEF LinkStep, SerialThread, primaryVars, UserAck, SendAsdu, SendNone
<1>3. serialmb \in Seq(LinkEvts) /\ serialmb # <<>> /\ Head(serialmb) = e
      /\ serialmb' = Tail(serialmb)
  BY <1>1, MailboxesTyped DEF Took, FirstIs
<1>4. \A S : None(S, serialmb) => None(S, serialmb') /\ e \notin S
  BY <1>3, TakeKeeps
<1>5. ~None(Due, serialmb)
  BY <1>4
<1>6. waiting /\ Counted /\ to_primary = <<>>
  BY <1>5 DEF Parts, Turn, Idle, OneIs, Serving
<1>7. /\ Tells' = Tells /\ \A l \in Levels : SendNoneEvt(l)' = SendNoneEvt(l)
      /\ ReqEvt("LEVEL_2")' = ReqEvt("LEVEL_2") /\ UserAckEvt' = UserAckEvt
      /\ SendAsduEvt' = SendAsduEvt
  BY DEF Tells, UpdateEvt, UserAckEvt, SendAsduEvt, SendNoneEvt, ReqEvt, Event
<1>8. Kinds'
  BY <1>2, <1>4, <1>7 DEF AnnounceParts, Kinds, None, DataCodes
<1>9. CASE UserAck /\ e = UserAckEvt
  <2>1. request.FunCode \notin DataCodes
    BY <1>4, <1>9 DEF AnnounceParts, Kinds
  <2>2. acd_tag' = 1
    BY <1>9 DEF UserAck
  <2>3. FitsOnly' /\ Announced'
    BY <1>2, <2>1, <2>2 DEF FitsOnly, Expects, DataCodes, Announced
  <2> QED BY <1>8, <2>3 DEF AnnounceParts
<1>10. CASE SendAsdu /\ e = SendAsduEvt
  <2>1. request.FunCode \in DataCodes
    BY <1>4, <1>6, <1>10 DEF AnnounceParts, Kinds, Counted, CountedCodes, DataCodes
  <2>2. Expects'
    BY <1>2, <1>6, <2>1 DEF Expects, DataCodes
  <2>3. PICK a \in Answers : to_primary' = to_primary \o <<a>> /\ a.FunCode \in DataAnswers
                             /\ (first_task["LEVEL_1"] > 0 => a.ACD = 1)
    <3> DEFINE a == serial_link_pack_unfixed_frame(app_task_check_empty)
    <3>1. to_primary' = to_primary \o <<a>>
      BY <1>10 DEF SendAsdu, Sent, Write
    <3>2. a.FunCode \in DataAnswers /\ (first_task["LEVEL_1"] > 0 => a.ACD = 1) /\ a \in Answers
      BY DEF serial_link_pack_unfixed_frame, app_task_check_empty, Answer, Answers, DataAnswers
    <3> QED BY <3>1, <3>2
  <2>4. to_primary' = <<a>>
    BY <1>6, <2>3
  <2>5. Len(to_primary') = 1 /\ Head(to_primary') = a /\ to_primary' # <<>>
    BY <2>4
  <2>6. FitsOnly' /\ Announced'
    BY <1>2, <2>2, <2>3, <2>5 DEF FitsOnly, Announced, DataAnswers
  <2> QED BY <1>8, <2>6 DEF AnnounceParts
<1>11. CASE SendNone /\ \E l \in Levels : e = SendNoneEvt(l)
  <2>1. PICK a \in Answers : to_primary' = to_primary \o <<a>> /\ a.FunCode \in DataAnswers
    <3>1. PICK a \in serial_link_pack_fixed_frame("FC_UP_NO_DATA") : Sent(a)
      BY <1>11 DEF SendNone
    <3>2. a \in Answers /\ a.FunCode \in DataAnswers
      BY <3>1 DEF serial_link_pack_fixed_frame, Answer, Bits, Answers, DataAnswers
    <3> QED BY <3>1, <3>2 DEF Sent, Write
  <2>2. Len(to_primary') = 1 /\ Head(to_primary') = a
    BY <1>6, <2>1
  <2>3. FitsOnly'
    BY <2>1, <2>2 DEF FitsOnly, DataAnswers
  <2>4. Forgets' => Forgets
    <3>1. \A l \in Levels : e = SendNoneEvt(l) => ~None({SendNoneEvt(l)}, serialmb)
      BY <1>4
    <3> QED BY <1>2, <1>6, <1>11, <3>1 DEF Forgets
  <2>5. UNCHANGED acd_tag
    BY <1>11 DEF SendNone
  <2>6. ~None(Tells, serialmb) => ~None(Tells', serialmb')
    BY <1>3, <1>7, <1>11, TakeSome, WhoTells
  <2>7. Announced'
    BY <1>2, <1>6, <1>7, <2>4, <2>5, <2>6 DEF AnnounceParts, Announced
  <2> QED BY <1>8, <2>3, <2>7 DEF AnnounceParts
<1> QED BY <1>1, <1>9, <1>10, <1>11
-----------------------------------------------------------------------------
(* The application and the device.                                         *)
LEMMA PostsSurely ==
  ASSUME TypeInv, NEW e, PostLink(e), ~dropped'
  PROVE  /\ ~dropped /\ serialmb' = iec_post_event(serialmb, SerialMb, e)
         /\ \A S : e \in S => ~None(S, serialmb')
         /\ \A S : ~None(S, serialmb) => ~None(S, serialmb')
         /\ \A S : e \notin S /\ None(S, serialmb) => None(S, serialmb')
<1>1. serialmb' = iec_post_event(serialmb, SerialMb, e) /\ ~dropped /\ Len(serialmb) # SerialMb
  BY DEF PostLink
<1>2. serialmb \in Seq(LinkEvts) /\ Len(serialmb) < SerialMb /\ SerialMb \in Nat
  BY <1>1, MailboxesTyped, SerialMailboxAssumption
<1> QED BY <1>1, <1>2, PostSome, PostNone

LEMMA RequestAnnounced ==
  ASSUME TypeInv, Parts, AnnounceParts, UNCHANGED primaryVars, NEW l \in Levels, AppRequest(l),
         ~dropped'
  PROVE  AnnounceParts'
<1>1. AppUnchanged /\ FirstIs(appmb, ReqEvt(l)) /\ appmb' = Tail(appmb) /\ ReqEvt(l) \in Asked
  BY WhoOwes DEF AppRequest, AppTook
<1>2. PICK e : PostLink(e) /\ (e = SendAsduEvt \/ (/\ e = SendNoneEvt(l) /\ first_task[l] = 0
                                                   /\ UNCHANGED first_task))
  BY DEF AppRequest
<1>3. Serving /\ ReqEvt(l) \in Owed
  BY <1>1, <1>2, AskedTurns
<1>4. request.FunCode \in DataCodes
  BY <1>3, WhoOwes DEF Serving, Owed, Counted, CountedCodes, DataCodes, Calls, TypeInv, OnceInv,
     LastIsCounted
<1>5. UNCHANGED <<request, waiting, told, to_primary, acd_tag>>
  BY <1>1 DEF AppUnchanged, primaryVars
<1>6. appmb \in Seq(AppEvts) /\ appmb # <<>> /\ Head(appmb) = ReqEvt(l)
  BY <1>1, MailboxesTyped DEF FirstIs
<1>7. \A S : None(S, appmb) => None(S, appmb') /\ ReqEvt(l) \notin S
  BY <1>1, <1>6, TakeKeeps
<1>8. UserAckEvt # e
  BY <1>2, WhoTells
<1>9. None({UserAckEvt}, serialmb) => None({UserAckEvt}, serialmb')
  BY <1>2, <1>8, PostsSurely
<1>10. Steady
  BY <1>4, <1>5, <1>7, <1>9 DEF Steady, DataCodes
<1>11. Tells' = Tells /\ \A k \in Levels : SendNoneEvt(k)' = SendNoneEvt(k)
  BY DEF Tells, UpdateEvt, UserAckEvt, SendAsduEvt, SendNoneEvt, Event
<1>12. Kinds' /\ FitsOnly' /\ Expects' = Expects
  BY <1>10, SteadyKeeps DEF AnnounceParts
<1>13. CASE e = SendAsduEvt
  <2>1. ~None(Tells', serialmb')
    BY <1>2, <1>11, <1>13, PostsSurely, WhoTells
  <2> QED BY <1>12, <2>1 DEF AnnounceParts, Announced
<1>14. CASE e = SendNoneEvt(l) /\ first_task[l] = 0 /\ UNCHANGED first_task
  <2>1. CASE l = "LEVEL_1"
    <3>1. ~(first_task'["LEVEL_1"] > 0)
      BY <1>14, <2>1
    <3> QED BY <1>12, <3>1 DEF AnnounceParts, Announced
  <2>2. CASE l # "LEVEL_1"
    <3>1. l = "LEVEL_2"
      BY <2>2 DEF Levels
    <3>2. request.FunCode # "FC_DW_FIRST_DATA"
      BY <1>7, <3>1 DEF AnnounceParts, Kinds
    <3>3. ~None(Tells, serialmb) => ~None(Tells, serialmb')
      BY <1>2, PostsSurely
    <3>4. Lasting
      BY <1>5, <1>14, <3>2, <3>3 DEF Lasting
    <3> QED BY <1>10, <3>4, LastingKeeps
  <2> QED BY <2>1, <2>2
<1> QED BY <1>2, <1>13, <1>14

LEMMA CommandAnnounced ==
  ASSUME TypeInv, Parts, AnnounceParts, UNCHANGED primaryVars, AppCommand, ~dropped'
  PROVE  AnnounceParts'
<1>1. PICK n \in 1 .. accepted : FirstIs(appmb, CommandEvt(n))
  BY DEF AppCommand
<1>2. AppUnchanged /\ PostLink(UserAckEvt)
  BY DEF AppCommand
<1>3. n \in Nat /\ CommandEvt(n) \in Asked /\ CommandEvt(n) \in Calls
  BY WhoOwes DEF TypeInv, OnceInv, LastIsCounted
<1>4. Tail(appmb) \in Seq(AppEvts) /\ Len(Tail(appmb)) <= AppMb
  BY <1>1, AppTookTyped
<1>5. None(Asked, Tail(appmb)) => None(Asked, appmb')
  <2>1. NodeEvt("LEVEL_1") \notin Asked
    BY WhoOwes DEF Levels
  <2> QED BY <1>4, <2>1, CallKeeps DEF AppCommand
<1>6. CommandEvt(n) \in Owed
  BY <1>1, <1>2, <1>3, <1>5, AskedTurns
<1>7. request.FunCode = "FC_DW_DATA_YES"
  BY <1>3, <1>6 DEF Owed
<1>8. UNCHANGED <<request, waiting, told, to_primary, acd_tag>>
  BY <1>2 DEF AppUnchanged, primaryVars
<1>9. SendAsduEvt # UserAckEvt
  BY WhoTells
<1>10. Steady
  BY <1>2, <1>7, <1>8, <1>9, PostsSurely DEF Steady, DataCodes
<1>11. Tells' = Tells
  BY DEF Tells, UpdateEvt, UserAckEvt, SendAsduEvt, Event
<1>12. ~None(Tells', serialmb')
  BY <1>2, <1>11, PostsSurely, WhoTells
<1>13. Kinds' /\ FitsOnly'
  BY <1>10, SteadyKeeps DEF AnnounceParts
<1> QED BY <1>12, <1>13 DEF AnnounceParts, Announced

LEMMA AppAnnounced ==
  ASSUME TypeInv, Parts, AnnounceParts, UNCHANGED primaryVars, AppThread \/ Device, ~dropped'
  PROVE  AnnounceParts'
<1>1. ASSUME AppUnchanged, UNCHANGED <<serialmb, first_task>>,
             None({ReqEvt("LEVEL_2")}, appmb) => None({ReqEvt("LEVEL_2")}, appmb')
      PROVE  AnnounceParts'
  <2>1. UNCHANGED <<request, waiting, told, to_primary, acd_tag>>
    BY <1>1 DEF AppUnchanged, primaryVars
  <2>2. Steady /\ Lasting
    BY <1>1, <2>1 DEF Steady, Lasting
  <2> QED BY <2>2, LastingKeeps
<1>2. CASE AppIgnores
  <2>1. /\ AppUnchanged /\ UNCHANGED <<serialmb, first_task>> /\ appmb' = Tail(appmb)
        /\ FirstIs(appmb, BalancedEvt)
    BY <1>2 DEF AppIgnores, AppTook
  <2> QED BY <1>1, <2>1, MailboxesTyped, TakeKeeps DEF FirstIs
<1>3. ASSUME NEW l \in Levels, DeviceUpdate(l) PROVE AnnounceParts'
  <2>1. /\ AppUnchanged /\ UNCHANGED <<serialmb, first_task>>
        /\ appmb' = iec_post_event(appmb, AppMb, NodeEvt(l))
    BY <1>3 DEF DeviceUpdate, PostApp
  <2>2. NodeEvt(l) \notin {ReqEvt("LEVEL_2")}
    BY WhoTells DEF Levels
  <2> QED BY <1>1, <2>1, <2>2, MailboxesTyped, PostNone, SerialMailboxAssumption
<1>4. ASSUME NEW l \in Levels, AppUpdate(l) PROVE AnnounceParts'
  <2>1. /\ AppUnchanged /\ appmb' = Tail(appmb) /\ FirstIs(appmb, NodeEvt(l))
    BY <1>4 DEF AppUpdate, AppTook
  <2>2. None({ReqEvt("LEVEL_2")}, appmb) => None({ReqEvt("LEVEL_2")}, appmb')
    BY <2>1, MailboxesTyped, TakeKeeps DEF FirstIs
  <2>3. CASE UNCHANGED <<first_task, serialmb>>
    BY <1>1, <2>1, <2>2, <2>3
  <2>4. CASE first_task' \in Added(l) /\ PostLink(UpdateEvt(l))
    <3>1. UNCHANGED <<request, waiting, told, to_primary, acd_tag>>
      BY <2>1 DEF AppUnchanged, primaryVars
    <3>2. /\ \A S : UpdateEvt(l) \notin S /\ None(S, serialmb) => None(S, serialmb')
          /\ UpdateEvt(l) \in Tells => ~None(Tells, serialmb')
          /\ ~None(Tells, serialmb) => ~None(Tells, serialmb')
      BY <2>4, PostsSurely
    <3>3. /\ \A e \in {UserAckEvt, SendAsduEvt} : UpdateEvt(l) # e
          /\ \A k \in Levels : UpdateEvt(l) # SendNoneEvt(k)
      BY WhoTells
    <3>4. Steady
      BY <2>2, <3>1, <3>2, <3>3 DEF Steady
    <3>5. CASE l = "LEVEL_1"
      <4>1. Kinds' /\ FitsOnly'
        BY <3>4, SteadyKeeps DEF AnnounceParts
      <4>2. Tells' = Tells
        BY DEF Tells, UpdateEvt, UserAckEvt, SendAsduEvt, Event
      <4>3. ~None(Tells', serialmb')
        BY <3>2, <3>5, <4>2, WhoTells
      <4> QED BY <4>1, <4>3 DEF AnnounceParts, Announced
    <3>6. CASE l # "LEVEL_1"
      <4>1. first_task'["LEVEL_1"] = first_task["LEVEL_1"]
        BY <2>4, <3>6 DEF Added, TypeInv, TypeOK, StationType, Levels
      <4>2. Lasting
        BY <3>1, <3>2, <3>3, <4>1 DEF Lasting
      <4> QED BY <3>4, <4>2, LastingKeeps
    <3> QED BY <3>5, <3>6
  <2> QED BY <1>4, <2>3, <2>4 DEF AppUpdate
<1> QED BY <1>2, <1>3, <1>4, RequestAnnounced, CommandAnnounced DEF AppThread, Device
-----------------------------------------------------------------------------
(* The primary station.                                                    *)
LEMMA AskAnnounced ==
  ASSUME TypeInv, Parts, AnnounceParts, AskUncounted \/ AskCounted \/ RepeatRequest, Idle,
         first_task' = first_task, to_primary = <<>> \/ ~waiting
  PROVE  AnnounceParts'
<1>1. PICK f : Puts(f)
  BY DEF AskUncounted, AskCounted, Asks, RepeatRequest
<1>2. Idle' /\ to_primary' = <<>>
  BY <1>1, PutsIdle
<1>3. \A e \in Due : None({e}, serialmb')
  BY <1>2, FewerNone DEF Idle, Due, None
<1>4. None({ReqEvt("LEVEL_2")}, appmb')
  BY <1>2, WhoOwes DEF Idle, None, Levels, Asked, ReqEvt, Event
<1>5. /\ Tells' = Tells /\ \A l \in Levels : SendNoneEvt(l)' = SendNoneEvt(l)
      /\ ReqEvt("LEVEL_2")' = ReqEvt("LEVEL_2") /\ UserAckEvt' = UserAckEvt
      /\ SendAsduEvt' = SendAsduEvt
  BY DEF Tells, UpdateEvt, UserAckEvt, SendAsduEvt, SendNoneEvt, ReqEvt, Event
<1>6. Kinds'
  BY <1>3, <1>4, <1>5, WhoOwes DEF Kinds, None
<1>7. FitsOnly'
  BY <1>2 DEF FitsOnly
<1>8. ~Forgets'
  BY <1>2, <1>3, <1>5, WhoOwes DEF Forgets, None
<1>9. UNCHANGED <<told, acd_tag>>
  BY DEF AskUncounted, AskCounted, Asks, RepeatRequest, Puts, LineUnchanged, serialVars
<1>10. ~None(Tells, serialmb) => ~None(Tells', serialmb')
  BY <1>1, <1>5, MailboxesTyped, PostSome, SerialMailboxAssumption DEF Puts, PostLink
<1>11. Announced'
  BY <1>5, <1>8, <1>9, <1>10 DEF AnnounceParts, Announced, Expects
<1> QED BY <1>6, <1>7, <1>11 DEF AnnounceParts

LEMMA HearAnnounced ==
  ASSUME TypeInv, Parts, AnnounceParts, TakeAnswer \/ Discard \/ GiveUp,
         UNCHANGED <<first_task, appmb>>, GiveUp => to_primary = <<>>
  PROVE  AnnounceParts'
<1>1. UNCHANGED <<request, serialmb, acd_tag>>
  BY DEF TakeAnswer, Discard, GiveUp, Hears, LineUnchanged, serialVars
<1>2. /\ Tells' = Tells /\ \A l \in Levels : SendNoneEvt(l)' = SendNoneEvt(l)
      /\ ReqEvt("LEVEL_2")' = ReqEvt("LEVEL_2") /\ UserAckEvt' = UserAckEvt
      /\ SendAsduEvt' = SendAsduEvt
  BY DEF Tells, UpdateEvt, UserAckEvt, SendAsduEvt, SendNoneEvt, ReqEvt, Event
<1>3. Kinds'
  BY <1>1, <1>2 DEF AnnounceParts, Kinds, None, DataCodes
<1>4. ~Expects'
  <2>1. CASE TakeAnswer \/ GiveUp
    BY <2>1 DEF TakeAnswer, GiveUp, Expects
  <2>2. CASE Discard
    <3>1. to_primary # <<>> /\ ~(waiting /\ Fits(Head(to_primary))) /\ waiting' = waiting
      BY <2>2 DEF Discard, Hears
    <3>2. ~Expects
      BY <3>1 DEF AnnounceParts, FitsOnly, Expects, Fits, DataCodes, DataAnswers
    <3> QED BY <1>1, <3>1, <3>2 DEF Expects, DataCodes
  <2> QED BY <2>1, <2>2
<1>5. ~Forgets' /\ FitsOnly'
  BY <1>4 DEF Forgets, FitsOnly, Expects, DataCodes
<1>6. CASE TakeAnswer
  <2>1. to_primary # <<>> /\ waiting
        /\ told' = (Head(to_primary).ACD = 1 \/ (told /\ request.FunCode # "FC_DW_FIRST_DATA"))
    BY <1>6 DEF TakeAnswer, Hears
  <2>2. told /\ ~Forgets => request.FunCode # "FC_DW_FIRST_DATA"
    BY <2>1 DEF Forgets
  <2>3. Announced'
    BY <1>1, <1>2, <1>5, <2>1, <2>2 DEF AnnounceParts, Announced
  <2> QED BY <1>3, <1>5, <2>3 DEF AnnounceParts
<1>7. CASE Discard \/ GiveUp
  <2>1. told' = told
    BY <1>7 DEF Discard, GiveUp
  <2>2. Expects => to_primary = <<>>
    <3>1. CASE GiveUp
      BY <3>1
    <3>2. CASE Discard
      BY <3>2 DEF Discard, Hears, AnnounceParts, FitsOnly, Expects, Fits, DataCodes, DataAnswers
    <3> QED BY <1>7, <3>1, <3>2
  <2>3. Announced'
    BY <1>1, <1>2, <1>5, <2>1, <2>2 DEF AnnounceParts, Announced
  <2> QED BY <1>3, <1>5, <2>3 DEF AnnounceParts
<1> QED BY <1>6, <1>7

LEMMA PrimaryAnnounced ==
  ASSUME TypeInv, Parts, AnnounceParts, PrimaryStep, early' = 0, losses' = 0
  PROVE  AnnounceParts'
<1>1. /\ PrimaryStation /\ (Times => Quiet)
      /\ UNCHANGED appmb
  BY NotEarly DEF PrimaryStep
<1>2. UNCHANGED first_task
  BY <1>1 DEF PrimaryStation, AskUncounted, AskCounted, Asks, RepeatRequest, GiveUp, TakeAnswer,
     Discard, LoseAnswer, Puts, Hears, LineUnchanged
<1>3. CASE AskUncounted \/ AskCounted
  <2>1. ~waiting
    BY <1>3 DEF AskUncounted, AskCounted, Asks
  <2>2. Idle
    BY <2>1 DEF Parts, Turn, Serving
  <2> QED BY <1>2, <1>3, <2>1, <2>2, AskAnnounced
<1>4. CASE RepeatRequest
  BY <1>1, <1>2, <1>4, QuietIdle, AskAnnounced DEF RepeatRequest
<1>5. CASE GiveUp
  BY <1>1, <1>2, <1>5, QuietIdle, HearAnnounced DEF GiveUp
<1>6. CASE TakeAnswer \/ Discard
  <2>1. to_primary # <<>> /\ Hears
    BY <1>6 DEF TakeAnswer, Discard, Hears
  <2>2. GiveUp => to_primary = <<>>
    BY <1>1, QuietIdle DEF GiveUp
  <2> QED BY <1>1, <1>2, <1>6, <2>2, HearAnnounced
<1>7. CASE LoseAnswer
  <2>1. losses' = losses + 1 /\ losses \in Nat
    BY <1>7 DEF LoseAnswer, TypeInv, TypeOK, PrimaryType
  <2> QED BY <2>1
<1> QED BY <1>1, <1>3, <1>4, <1>5, <1>6, <1>7 DEF PrimaryStation

(* What has been lost, or was early, stays so.                             *)
LEMMA DroppedStays ==
  ASSUME UNCHANGED dropped \/ \E e : PostLink(e)
  PROVE  dropped => dropped'
BY Zenon DEF PostLink

LEMMA StaysUndisturbed ==
  ASSUME TypeInv, [Next]_vars, Undisturbed', double_dir' = 0
  PROVE  Undisturbed /\ double_dir = 0
<1>1. losses \in Nat
  BY DEF TypeInv, TypeOK, PrimaryType
<1>2. CASE LinkStep
  <2>1. UNCHANGED <<early, losses, dropped>>
    BY <1>2 DEF LinkStep, SerialThread, primaryVars
  <2>2. UNCHANGED double_dir
    BY <1>2 DEF LinkStep, SerialThread, NoAnswer, Repeat, DataRequest, UserData, Reset,
       LinkAnswers, UserAck, SendAsdu, SendNone, Update
  <2> QED BY <2>1, <2>2 DEF Undisturbed
<1>3. CASE AppStep \/ DeviceStep
  <2>1. UNCHANGED primaryVars /\ (AppThread \/ Device)
    BY <1>3 DEF AppStep, DeviceStep
  <2>2. AppUnchanged /\ (dropped => dropped')
    <3>1. AppUnchanged /\ (UNCHANGED dropped \/ \E e : PostLink(e))
      BY <2>1 DEF AppThread, Device, AppCommand, AppIgnores, AppRequest, AppUpdate, DeviceUpdate
    <3> QED BY <3>1, DroppedStays, Zenon
  <2> QED BY <2>1, <2>2 DEF Undisturbed, AppUnchanged, primaryVars
<1>4. CASE PrimaryStep
  <2>1. PrimaryStation /\ early = 0
    BY <1>4, NotEarly DEF PrimaryStep, Undisturbed
  <2>2. losses' = losses \/ losses' = losses + 1
    BY <2>1 DEF PrimaryStation, AskUncounted, AskCounted, Asks, RepeatRequest, GiveUp, TakeAnswer,
       Discard, LoseAnswer, Puts, Hears
  <2>3. dropped => dropped'
    <3>1. UNCHANGED dropped \/ \E e : PostLink(e)
      BY <2>1 DEF PrimaryStation, AskUncounted, AskCounted, Asks, RepeatRequest, GiveUp,
         TakeAnswer, Discard, LoseAnswer, Puts, Hears
    <3> QED BY <3>1, DroppedStays, Zenon
  <2>4. UNCHANGED double_dir
    BY <2>1 DEF PrimaryStation, AskUncounted, AskCounted, Asks, RepeatRequest, GiveUp, TakeAnswer,
       Discard, LoseAnswer, Puts, Hears, LineUnchanged, serialVars
  <2> QED BY <1>1, <2>1, <2>2, <2>3, <2>4 DEF Undisturbed
<1>5. CASE UNCHANGED vars
  BY <1>5 DEF vars, serialVars, primaryVars, Undisturbed
<1> QED BY <1>2, <1>3, <1>4, <1>5 DEF Next

LEMMA ClassOneHolds == Spec => []ClassOneInv
<1>1. Init => ClassOneInv
  <2> SUFFICES ASSUME Init PROVE AnnounceParts
    BY DEF ClassOneInv
  <2>1. serialmb = <<>> /\ appmb = <<>> /\ to_primary = <<>> /\ first_task["LEVEL_1"] = 0
    BY DEF Init, SerialLinkInit, SerialAppInit, PrimaryInit, Levels
  <2> QED BY <2>1 DEF AnnounceParts, Kinds, FitsOnly, Announced, None
<1>2. TypeInv /\ TurnInv /\ ClassOneInv /\ [Next]_vars => ClassOneInv'
  <2> SUFFICES ASSUME TypeInv, TurnInv, ClassOneInv, [Next]_vars, Undisturbed', double_dir' = 0
               PROVE  AnnounceParts'
    BY DEF ClassOneInv
  <2>1. AnnounceParts /\ Parts /\ double_dir = 0
    BY StaysUndisturbed DEF ClassOneInv, TurnInv, Undisturbed
  <2>2. ~dropped' /\ early' = 0 /\ losses' = 0
    BY DEF Undisturbed
  <2>3. CASE LinkStep
    BY <2>1, <2>3, ListenAnnounced, UpdateAnnounced, AnswerAnnounced DEF LinkStep, SerialThread
  <2>4. CASE AppStep \/ DeviceStep
    BY <2>1, <2>2, <2>4, AppAnnounced DEF AppStep, DeviceStep
  <2>5. CASE PrimaryStep
    BY <2>1, <2>2, <2>5, PrimaryAnnounced
  <2>6. CASE UNCHANGED vars
    <3>1. UNCHANGED <<request, waiting, told, to_primary, appmb, serialmb, first_task, acd_tag>>
      BY <2>6 DEF vars, serialVars, primaryVars
    <3>2. Steady /\ Lasting
      BY <3>1 DEF Steady, Lasting
    <3> QED BY <2>1, <3>2, LastingKeeps
  <2> QED BY <2>3, <2>4, <2>5, <2>6 DEF Next
<1> QED BY <1>1, <1>2, TypeHolds, TurnHolds, PTL DEF Spec

(* Whenever an unbalanced line without losses is idle and class 1 data     *)
(* waits, the primary knows or the next answer tells it, although the link *)
(* clears the tag by a list that the application adds to meanwhile         *)
(* (serial_link_asdu_send_evt_handle).                                     *)
THEOREM ClassOneIsAnnounced == Spec => []ClassOneAnnounced
<1>1. ClassOneInv => ClassOneAnnounced
  <2> SUFFICES ASSUME AnnounceParts, Quiet, ~waiting, first_task["LEVEL_1"] > 0
               PROVE  told \/ acd_tag = 1
    BY DEF ClassOneInv, ClassOneAnnounced
  <2>1. None(Tells, serialmb) /\ to_primary = <<>>
    BY DEF Quiet, None
  <2> QED BY <2>1 DEF AnnounceParts, Announced
<1> QED BY <1>1, ClassOneHolds, PTL
=============================================================================
