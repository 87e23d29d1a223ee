------------------------- MODULE RegistryLifeProofs -------------------------
(***************************************************************************)
(* What the registry keeps of its links, for any number of sockets, links  *)
(* and places: who is served is bound, no table and no application holds   *)
(* freed memory, and a connection is registered, served, ended and         *)
(* forgotten in this order.                                                *)
(*                                                                         *)
(* The argument is the order in which the threads run.  As long as the     *)
(* main thread's mailbox has a slot left no call is lost, and no caller    *)
(* has two calls in it (MailInv).  A receive thread runs only on an empty  *)
(* mailbox: when it starts the binding was handled, and when it closes the *)
(* link is gone, or its thread is still to hear of it (RecvInv).  A name   *)
(* that is not taken when its connection comes has no receive thread       *)
(* either (NameInv).                                                       *)
(***************************************************************************)
EXTENDS RegistryProofs, FiniteSetTheorems

USE RegistryAssumption
USE DEF mailVars, linkVars, tableVars, heapVars, netVars

Held(mb) == {mb[i] : i \in 1 .. Len(mb)}
Waits(e) == e \in Held(sys_event)
Tabled   == Listed(sys_link_obj)

Listener  == Name("cs", BadSock)
NetNames  == Conns \cup {Listener}
LinkNames == NetNames \cup {Serial0}
-----------------------------------------------------------------------------
(* Each call has a caller: the connection it is about, the serial link or  *)
(* one of the calls of the start-up program.  No caller has two calls in   *)
(* the mailbox.                                                            *)
OfLink(e) == \/ e.evt_type \in {"SYS_CREATE_LINK", "SYS_DEL_LINK"}
             \/ e.evt_sub_type = "SYS_LINK_SERIAL"
             \/ e.evt_sub_type = "SYS_BIND" /\ e.msg.app = "iec104"

Subject(os, e) == IF e.msg.link = NoObj THEN e.msg.name ELSE os[e.msg.link].name

LinkCaller(name) == Name("link", name)

Caller(os, e) ==
  IF OfLink(e) THEN LinkCaller(Subject(os, e))
  ELSE Name(IF e.evt_sub_type = "none" THEN "SYS_APP" ELSE e.evt_sub_type, e.msg.app)

Apart(os, mb) == \A i, j \in 1 .. Len(mb) : i # j => Caller(os, mb[i]) # Caller(os, mb[j])

MailInv == Apart(obj, sys_event)
-----------------------------------------------------------------------------
(* The start-up: the serial link comes first, and no connection before the *)
(* application iec104.                                                     *)
Fresh == sys_link_obj.size = 0 /\ (\A o \in Objs : ~Live(o)) /\ recvs = {}
NoNet == recvs = {} /\ \A o \in Objs : Live(o) => obj[o].name = Serial0

Queued(mb) ==
  /\ CreateLinkEvt(Serial0) \in Held(mb) => mb[1] = CreateLinkEvt(Serial0)
  /\ \A i, j \in 1 .. Len(mb) : \A n \in NetNames :
       mb[i] = CreateAppEvt("iec104") /\ mb[j] = CreateLinkEvt(n) => i < j

BootInv ==
  /\ booted = 0 => sys_event = <<>>
  /\ Queued(sys_event)
  /\ booted = 0 \/ Waits(CreateLinkEvt(Serial0)) => Fresh
  /\ booted > 0 => Waits(CreateLinkEvt(Serial0)) \/ \E o \in Tabled : obj[o].name = Serial0
  /\ booted < 3 => \A n \in NetNames : ~Waits(CreateLinkEvt(n))
  /\ booted < 3 \/ Waits(CreateAppEvt("iec104")) => NoNet

Born(a)  == booted > (IF a = "iec101" THEN 1 ELSE 2)
Known(a) == iec_sys_find_app(sys_app_obj, a)

AppInv ==
  \A a \in Apps :
    /\ Born(a) <=> Waits(CreateAppEvt(a)) \/ Known(a)
    /\ Waits(CreateAppEvt(a)) => ~Known(a)
    /\ Waits(StartAppEvt(a)) => Known(a)
    /\ \A cb \in Callbacks : Waits(SetCbEvt(a, cb)) => Known(a)
    /\ \A o \in Objs : Waits(BindEvt(a, o)) => Known(a)
    /\ Known(a) => /\ Waits(StartAppEvt(a)) \/ app[a].running
                   /\ \A cb \in Callbacks : Waits(SetCbEvt(a, cb)) \/ cb \in app[a].cbs
-----------------------------------------------------------------------------
(* A name has one link, none when one is called for, and nobody has it     *)
(* while the socket of the w5500 it is printed from is free.               *)
NoLive(n) == \A o \in Objs : Live(o) => obj[o].name # n
NameInv ==
  /\ \A o \in Objs : Live(o) => obj[o].name \in LinkNames
  /\ \A o, p \in Objs : Live(o) /\ Live(p) /\ obj[o].name = obj[p].name => o = p
  /\ \A n \in Names : Waits(CreateLinkEvt(n)) => n \in LinkNames /\ NoLive(n)
  /\ \A s \in HwSocks : sock[s] = "free" =>
       ~Waits(CreateLinkEvt(Name("wh", s))) /\ \A r \in recvs : r.name # Name("wh", s)

(* The table holds every link once, and of the links it does not hold none *)
(* was started or bound.                                                   *)
Once(list) == \A i, j \in 1 .. list.size : AsSeq(list)[i] = AsSeq(list)[j] => i = j

TableInv ==
  /\ Once(sys_link_obj)
  /\ \A o \in Tabled : Live(o)
  /\ \A o \in Objs : Live(o) /\ o \notin Tabled =>
       obj[o].tid = "none" /\ obj[o].applayer_id = NoApp /\ obj[o].name \in NetNames
  /\ \A o \in Objs : Live(o) /\ obj[o].name = Serial0 => obj[o].tid # "deleted"
  /\ \A o \in Objs : Live(o) /\ obj[o].applayer_id # NoApp => Known(obj[o].applayer_id)

(* Where a receive thread is, and what became of its link by then.         *)
Bound(o)   == obj[o].applayer_id = "iec104"
Attends(r) == r.link \in Tabled /\ obj[r.link].name = r.name
Told(o)    == o \in disconnect \cup unheard
Gone(r)    == NoLive(r.name) /\ ~Waits(CreateLinkEvt(r.name))

Starting(r) == /\ Attends(r) /\ obj[r.link].tid = "none"
               /\ Waits(BindEvt("iec104", r.link)) \/ Bound(r.link)
Looping(r)  == /\ Attends(r) /\ obj[r.link].tid = "run" /\ ~Told(r.link)
               /\ obj[r.link].write /\ Bound(r.link)
               /\ app["iec104"] = [running |-> TRUE, cbs |-> Callbacks]
Closing(r)  == \/ Attends(r) /\ Told(r.link)
               \/ Attends(r) /\ obj[r.link].tid = "deleted" /\ Waits(DelLinkEvt(r.link))
               \/ Gone(r)

RecvInv ==
  /\ \A r \in recvs : r.name \in NetNames
  /\ \A r, q \in recvs : r.name = q.name => r = q
  /\ \A r \in recvs : r.pc = "start" => Starting(r)
  /\ \A r \in recvs : r.pc = "loop" => Looping(r)
  /\ \A r \in recvs : r.pc = "close" => Closing(r)

(* A link that is told that its connection is over is one that was served. *)
DiscInv ==
  \A o \in Objs : Told(o) => o \in Tabled /\ obj[o].tid = "run" /\ obj[o].name \in NetNames /\ Bound(o)

(* The link a call is about is what the call takes it for.                 *)
CallInv ==
  /\ \A o \in Objs : Waits(DelLinkEvt(o)) =>
       Live(o) /\ obj[o].name \in NetNames /\ (o \in Tabled => obj[o].tid = "deleted")
  /\ \A o \in Objs : Waits(StartLinkEvt(o)) => o \in Tabled /\ obj[o].name = Serial0
  /\ \A o \in Objs, a \in Apps : Waits(BindEvt(a, o)) =>
       /\ o \in Tabled /\ obj[o].applayer_id = NoApp /\ obj[o].tid # "deleted"
       /\ a = "iec104" <=> obj[o].name # Serial0
       /\ a = "iec104" => obj[o].tid = "none"

(* An application has the links that are bound to it, each of them once.   *)
SlotInv ==
  /\ \A a \in Apps : \A i \in 1 .. CFG_LINK_MAX : slots[a][i] # NoObj =>
       LET o == slots[a][i] IN
       /\ o \in Tabled /\ obj[o].applayer_id = a /\ obj[o].tid # "deleted"
       /\ a = "iec104" <=> obj[o].name # Serial0
  /\ \A a \in Apps : \A i, j \in 1 .. CFG_LINK_MAX :
       slots[a][i] # NoObj /\ slots[a][i] = slots[a][j] => i = j
  /\ \A o \in Tabled : obj[o].applayer_id \in Apps /\ obj[o].tid # "deleted" =>
       \E i \in 1 .. CFG_LINK_MAX : slots[obj[o].applayer_id][i] = o
  /\ \A o \in Tabled : obj[o].name \in NetNames /\ obj[o].tid = "run" => Bound(o)

LifeInv == /\ MailInv /\ BootInv /\ AppInv /\ NameInv /\ TableInv
           /\ RecvInv /\ DiscInv /\ CallInv /\ SlotInv
OrderInv == TypeInv /\ (~astray => LifeInv)
-----------------------------------------------------------------------------
(* What a call says: calls are told apart by it.                           *)
LEMMA CallParts ==
  /\ \A n : LET e == CreateLinkEvt(n) IN
       /\ e.evt_type = "SYS_CREATE_LINK" /\ e.evt_sub_type = "none"
       /\ e.msg.name = n /\ e.msg.app = NoApp /\ e.msg.link = NoObj
  /\ \A a : LET e == CreateAppEvt(a) IN
       /\ e.evt_type = "SYS_CREATE_APP" /\ e.evt_sub_type = "none"
       /\ e.msg.name = NoName /\ e.msg.app = a /\ e.msg.link = NoObj
  /\ \A o : LET e == StartLinkEvt(o) IN
       /\ e.evt_type = "SYS_START" /\ e.evt_sub_type = "SYS_LINK_SERIAL"
       /\ e.msg.name = NoName /\ e.msg.app = NoApp /\ e.msg.link = o
  /\ \A a : LET e == StartAppEvt(a) IN
       /\ e.evt_type = "SYS_START" /\ e.evt_sub_type = "SYS_APP"
       /\ e.msg.name = NoName /\ e.msg.app = a /\ e.msg.link = NoObj
  /\ \A a, o : LET e == BindEvt(a, o) IN
       /\ e.evt_type = "SYS_EDIT_PROFILE" /\ e.evt_sub_type = "SYS_BIND"
       /\ e.msg.name = NoName /\ e.msg.app = a /\ e.msg.link = o
  /\ \A a, cb : LET e == SetCbEvt(a, cb) IN
       /\ e.evt_type = "SYS_EDIT_PROFILE" /\ e.evt_sub_type = cb
       /\ e.msg.name = NoName /\ e.msg.app = a /\ e.msg.link = NoObj
  /\ \A o : LET e == DelLinkEvt(o) IN
       /\ e.evt_type = "SYS_DEL_LINK" /\ e.evt_sub_type = "none"
       /\ e.msg.name = NoName /\ e.msg.app = NoApp /\ e.msg.link = o
<1>1. \A t, u, n, a, o : LET e == SysEvt(t, u, n, a, o) IN
        /\ e.evt_type = t /\ e.evt_sub_type = u
        /\ e.msg.name = n /\ e.msg.app = a /\ e.msg.link = o
  BY DEF SysEvt, Event
<1> QED BY <1>1 DEF CreateLinkEvt, CreateAppEvt, StartLinkEvt, StartAppEvt, BindEvt, SetCbEvt, DelLinkEvt

(* Every call is one of these, and says which.                             *)
LEMMA CallKinds ==
  ASSUME NEW e \in SysEvents
  PROVE  /\ e.evt_type = "SYS_CREATE_LINK" => e.msg.name \in Names /\ e = CreateLinkEvt(e.msg.name)
         /\ e.evt_type = "SYS_CREATE_APP" => e.msg.app \in Apps /\ e = CreateAppEvt(e.msg.app)
         /\ e.evt_type = "SYS_START" /\ e.evt_sub_type = "SYS_LINK_SERIAL"
              => e.msg.link \in Objs /\ e = StartLinkEvt(e.msg.link)
         /\ e.evt_type = "SYS_START" /\ e.evt_sub_type # "SYS_LINK_SERIAL"
              => e.msg.app \in Apps /\ e = StartAppEvt(e.msg.app)
         /\ e.evt_type = "SYS_EDIT_PROFILE" /\ e.evt_sub_type = "SYS_BIND"
              => e.msg.app \in Apps /\ e.msg.link \in Objs /\ e = BindEvt(e.msg.app, e.msg.link)
         /\ e.evt_type = "SYS_EDIT_PROFILE" /\ e.evt_sub_type # "SYS_BIND"
              => /\ e.msg.app \in Apps /\ e.evt_sub_type \in Callbacks
                 /\ e = SetCbEvt(e.msg.app, e.evt_sub_type)
         /\ e.evt_type = "SYS_DEL_LINK" => e.msg.link \in Objs /\ e = DelLinkEvt(e.msg.link)
         /\ e.evt_type \in {"SYS_CREATE_LINK", "SYS_CREATE_APP", "SYS_START", "SYS_EDIT_PROFILE",
                             "SYS_DEL_LINK"}
<1>1. \/ \E n \in Names : e = CreateLinkEvt(n)
      \/ \E a \in Apps : e = CreateAppEvt(a)
      \/ \E o \in Objs : e = StartLinkEvt(o)
      \/ \E a \in Apps : e = StartAppEvt(a)
      \/ \E a \in Apps, o \in Objs : e = BindEvt(a, o)
      \/ \E a \in Apps, cb \in Callbacks : e = SetCbEvt(a, cb)
      \/ \E o \in Objs : e = DelLinkEvt(o)
  BY DEF SysEvents
<1>2. "SYS_BIND" \notin Callbacks
  BY DEF Callbacks
<1> QED BY <1>1, <1>2, CallParts

LEMMA CallerOf ==
  ASSUME NEW os
  PROVE  /\ \A n : Caller(os, CreateLinkEvt(n)) = LinkCaller(n)
         /\ \A a \in Apps : Caller(os, CreateAppEvt(a)) = Name("SYS_APP", a)
         /\ \A a \in Apps : Caller(os, StartAppEvt(a)) = Name("SYS_APP", a)
         /\ \A a \in Apps, cb \in Callbacks : Caller(os, SetCbEvt(a, cb)) = Name(cb, a)
         /\ \A o \in Objs : Caller(os, BindEvt("iec101", o)) = Name("SYS_BIND", "iec101")
         /\ \A o \in Objs : Caller(os, BindEvt("iec104", o)) = LinkCaller(os[o].name)
         /\ \A o \in Objs : Caller(os, StartLinkEvt(o)) = LinkCaller(os[o].name)
         /\ \A o \in Objs : Caller(os, DelLinkEvt(o)) = LinkCaller(os[o].name)
<1>1. \A o \in Objs : o # NoObj
  BY DEF Objs, NoObj
<1>2. \A n : Caller(os, CreateLinkEvt(n)) = LinkCaller(n)
  BY CallParts DEF Caller, OfLink, Subject
<1>3. \A a \in Apps : Caller(os, CreateAppEvt(a)) = Name("SYS_APP", a)
  BY CallParts DEF Caller, OfLink
<1>4. \A a \in Apps : Caller(os, StartAppEvt(a)) = Name("SYS_APP", a)
  BY CallParts DEF Caller, OfLink
<1>5. \A a \in Apps, cb \in Callbacks : Caller(os, SetCbEvt(a, cb)) = Name(cb, a)
  BY CallParts DEF Caller, OfLink, Callbacks
<1>6. \A o \in Objs : Caller(os, BindEvt("iec101", o)) = Name("SYS_BIND", "iec101")
  BY CallParts DEF Caller, OfLink
<1>7. \A o \in Objs : Caller(os, BindEvt("iec104", o)) = LinkCaller(os[o].name)
  BY <1>1, CallParts DEF Caller, OfLink, Subject
<1>8. \A o \in Objs : Caller(os, StartLinkEvt(o)) = LinkCaller(os[o].name)
  BY <1>1, CallParts DEF Caller, OfLink, Subject
<1>9. \A o \in Objs : Caller(os, DelLinkEvt(o)) = LinkCaller(os[o].name)
  BY <1>1, CallParts DEF Caller, OfLink, Subject
<1> QED BY <1>2, <1>3, <1>4, <1>5, <1>6, <1>7, <1>8, <1>9

(* A mailbox that has a slot left after a call has not lost it.            *)
LEMMA PostGrows ==
  ASSUME NEW mb \in Seq(SysEvents), NEW e \in SysEvents
  PROVE  Post(mb, e) \in Seq(SysEvents) /\ Len(mb) <= Len(Post(mb, e))
BY DEF Post, iec_post_event

LEMMA PostArrives ==
  ASSUME NEW os, NEW mb \in Seq(SysEvents), Apart(os, mb), NEW e \in SysEvents,
         Len(Post(mb, e)) < SysMb, \A i \in 1 .. Len(mb) : Caller(os, mb[i]) # Caller(os, e)
  PROVE  /\ Post(mb, e) = Append(mb, e) /\ Post(mb, e) \in Seq(SysEvents)
         /\ Apart(os, Post(mb, e))
         /\ \A x : x \in Held(Post(mb, e)) <=> x \in Held(mb) \/ x = e
<1>1. Post(mb, e) = Append(mb, e)
  BY DEF Post, iec_post_event
<1> DEFINE q == Append(mb, e)
<1>2. /\ q \in Seq(SysEvents) /\ Len(q) = Len(mb) + 1 /\ q[Len(mb) + 1] = e
      /\ \A i \in 1 .. Len(mb) : q[i] = mb[i]
  BY AppendProperties
<1> HIDE DEF q
<1>3. \A i \in 1 .. Len(q) : i \in 1 .. Len(mb) \/ i = Len(mb) + 1
  BY <1>2
<1>4. Apart(os, q)
  BY <1>2, <1>3 DEF Apart
<1>5. \A x : x \in Held(q) <=> x \in Held(mb) \/ x = e
  BY <1>2, <1>3 DEF Held
<1> QED BY <1>1, <1>2, <1>4, <1>5 DEF q

(* Callers are known by the names of the links they call about.            *)
LEMMA CallersStay ==
  ASSUME NEW os, NEW ns, NEW mb \in Seq(SysEvents), Apart(os, mb),
         \A i \in 1 .. Len(mb) : OfLink(mb[i]) /\ mb[i].msg.link # NoObj =>
           ns[mb[i].msg.link].name = os[mb[i].msg.link].name
  PROVE  /\ Apart(ns, mb)
         /\ \A i \in 1 .. Len(mb) : Caller(ns, mb[i]) = Caller(os, mb[i])
<1>1. \A i \in 1 .. Len(mb) : Caller(ns, mb[i]) = Caller(os, mb[i])
  BY DEF Caller, Subject
<1> QED BY <1>1 DEF Apart

(* What is left when the main thread takes a call.                         *)
LEMMA RestIsRest ==
  ASSUME NEW os, NEW mb \in Seq(SysEvents), mb # <<>>, Apart(os, mb)
  PROVE  /\ Tail(mb) \in Seq(SysEvents) /\ Head(mb) \in Held(mb)
         /\ Len(Tail(mb)) = Len(mb) - 1 /\ Head(mb) = mb[1]
         /\ \A i \in 1 .. Len(Tail(mb)) : Tail(mb)[i] = mb[i + 1]
         /\ Apart(os, Tail(mb))
         /\ \A i \in 1 .. Len(Tail(mb)) : Caller(os, Tail(mb)[i]) # Caller(os, Head(mb))
         /\ \A x : x \in Held(Tail(mb)) <=> x \in Held(mb) /\ x # Head(mb)
<1>1. /\ Len(mb) \in Nat \ {0} /\ Tail(mb) \in Seq(SysEvents) /\ Len(Tail(mb)) = Len(mb) - 1
      /\ Head(mb) = mb[1] /\ \A i \in 1 .. Len(Tail(mb)) : Tail(mb)[i] = mb[i + 1]
  BY HeadTailProperties
<1>2. Apart(os, Tail(mb))
  BY <1>1 DEF Apart
<1>3. \A i \in 1 .. Len(Tail(mb)) : Caller(os, Tail(mb)[i]) # Caller(os, Head(mb))
  BY <1>1 DEF Apart
<1>4. \A i \in 1 .. Len(mb) : i = 1 \/ \E k \in 1 .. Len(Tail(mb)) : Tail(mb)[k] = mb[i]
  <2> TAKE i \in 1 .. Len(mb)
  <2> DEFINE k == i - 1
  <2>1. i = 1 \/ k \in 1 .. Len(Tail(mb))
    BY <1>1
  <2>2. k + 1 = i
    OBVIOUS
  <2> HIDE DEF k
  <2> QED BY <1>1, <2>1, <2>2
<1>5. \A x : x \in Held(Tail(mb)) <=> x \in Held(mb) /\ x # Head(mb)
  BY <1>1, <1>3, <1>4 DEF Held
<1>6. Head(mb) \in Held(mb)
  BY <1>1 DEF Held
<1> QED BY <1>1, <1>2, <1>3, <1>5, <1>6

(* The order of the start-up is kept: calls are taken at the front and put *)
(* at the end.                                                             *)
LEMMA QueuedRest ==
  ASSUME NEW os, NEW mb \in Seq(SysEvents), mb # <<>>, Apart(os, mb), Queued(mb)
  PROVE  /\ Queued(Tail(mb)) /\ CreateLinkEvt(Serial0) \notin Held(Tail(mb))
         /\ \A n \in NetNames : Head(mb) = CreateLinkEvt(n) => CreateAppEvt("iec104") \notin Held(mb)
<1>1. CreateLinkEvt(Serial0) \notin Held(Tail(mb))
  <2>1. \A x : x \in Held(Tail(mb)) <=> x \in Held(mb) /\ x # Head(mb)
    BY RestIsRest
  <2>2. CreateLinkEvt(Serial0) \in Held(mb) => Head(mb) = CreateLinkEvt(Serial0)
    BY DEF Queued
  <2> QED BY <2>1, <2>2
<1>2. /\ Len(mb) \in Nat \ {0} /\ Len(Tail(mb)) = Len(mb) - 1 /\ Head(mb) = mb[1]
      /\ \A i \in 1 .. Len(Tail(mb)) : Tail(mb)[i] = mb[i + 1]
  BY HeadTailProperties
<1>3. ASSUME NEW i \in 1 .. Len(Tail(mb)), NEW j \in 1 .. Len(Tail(mb)), NEW n \in NetNames,
             Tail(mb)[i] = CreateAppEvt("iec104"), Tail(mb)[j] = CreateLinkEvt(n)
      PROVE  i < j
  <2>1. i + 1 \in 1 .. Len(mb) /\ j + 1 \in 1 .. Len(mb)
    BY <1>2
  <2>2. mb[i + 1] = CreateAppEvt("iec104") /\ mb[j + 1] = CreateLinkEvt(n)
    BY <1>2, <1>3
  <2>3. i + 1 < j + 1
    BY <2>1, <2>2 DEF Queued
  <2> QED BY <2>3
<1>4. ASSUME NEW n \in NetNames, Head(mb) = CreateLinkEvt(n), CreateAppEvt("iec104") \in Held(mb)
      PROVE  FALSE
  <2>1. PICK i \in 1 .. Len(mb) : mb[i] = CreateAppEvt("iec104")
    BY <1>4 DEF Held
  <2>2. i < 1
    BY <1>2, <1>4, <2>1 DEF Queued
  <2> QED BY <2>2
<1> QED BY <1>1, <1>3, <1>4 DEF Queued

LEMMA QueuedPost ==
  ASSUME NEW mb \in Seq(SysEvents), Queued(mb), NEW e \in SysEvents,
         e = CreateLinkEvt(Serial0) => mb = <<>>,
         e = CreateAppEvt("iec104") => \A n \in NetNames : CreateLinkEvt(n) \notin Held(mb)
  PROVE  Queued(Append(mb, e))
<1> DEFINE q == Append(mb, e)
<1>1. /\ Len(mb) \in Nat /\ Len(q) = Len(mb) + 1 /\ q[Len(mb) + 1] = e
      /\ \A i \in 1 .. Len(mb) : q[i] = mb[i]
  BY AppendProperties
<1> HIDE DEF q
<1>2. \A i \in 1 .. Len(q) : i \in 1 .. Len(mb) \/ i = Len(mb) + 1
  BY <1>1
<1>3. CreateLinkEvt(Serial0) \in Held(q) => q[1] = CreateLinkEvt(Serial0)
  <2>1. CASE e = CreateLinkEvt(Serial0)
    BY <1>1, <2>1
  <2>2. CASE e # CreateLinkEvt(Serial0)
    <3> SUFFICES ASSUME CreateLinkEvt(Serial0) \in Held(q) PROVE q[1] = CreateLinkEvt(Serial0)
      OBVIOUS
    <3>1. PICK i \in 1 .. Len(mb) : mb[i] = CreateLinkEvt(Serial0)
      BY <1>1, <1>2, <2>2 DEF Held
    <3>2. mb[1] = CreateLinkEvt(Serial0)
      BY <3>1 DEF Queued, Held
    <3> QED BY <1>1, <3>1, <3>2
  <2> QED BY <2>1, <2>2
<1>4. ASSUME NEW i \in 1 .. Len(q), NEW j \in 1 .. Len(q), NEW n \in NetNames,
             q[i] = CreateAppEvt("iec104"), q[j] = CreateLinkEvt(n)
      PROVE  i < j
  <2>1. CreateAppEvt("iec104") # CreateLinkEvt(n)
    BY CallParts
  <2>2. CASE i \in 1 .. Len(mb) /\ j \in 1 .. Len(mb)
    BY <1>1, <1>4, <2>2 DEF Queued
  <2>3. CASE i = Len(mb) + 1 /\ j \in 1 .. Len(mb)
    BY <1>1, <1>4, <2>3 DEF Held
  <2>4. CASE j = Len(mb) + 1
    BY <1>1, <1>2, <1>4, <2>1, <2>4
  <2> QED BY <1>2, <2>2, <2>3, <2>4
<1> QED BY <1>3, <1>4 DEF Queued, q
-----------------------------------------------------------------------------
(* The table: what it holds after a link is added or removed, and what a   *)
(* name finds.                                                             *)
LEMMA TabledItems ==
  ASSUME NEW list, IsList(Objs, list)
  PROVE  \A x : x \in Listed(list) <=> \E i \in 1 .. list.size : AsSeq(list)[i] = x
<1>1. list.size \in Nat
  BY DEF IsList
<1>2. \A i \in 0 .. list.size - 1 : i + 1 \in 1 .. list.size /\ AsSeq(list)[i + 1] = list.body[i]
  BY <1>1 DEF AsSeq
<1>3. \A i \in 1 .. list.size : i - 1 \in 0 .. list.size - 1 /\ AsSeq(list)[i] = list.body[i - 1]
  BY <1>1 DEF AsSeq
<1> QED BY <1>2, <1>3 DEF Listed, Iterated

LEMMA TabledAdd ==
  ASSUME NEW list, IsList(Objs, list), NEW o \in Objs
  PROVE  LET new == arraylist_add(list, o) IN
         /\ \A x : x \in Listed(new) <=> x \in Listed(list) \/ x = o
         /\ Once(list) /\ o \notin Listed(list) => Once(new)
         /\ IsList(Objs, new) /\ new.size = list.size + 1
<1> DEFINE new == arraylist_add(list, o)
<1>1. IsList(Objs, new) /\ AsSeq(new) = Append(AsSeq(list), o)
  BY AddRefines
<1> HIDE DEF new
<1>2. /\ AsSeq(list) \in Seq(Objs) /\ Len(AsSeq(list)) = list.size
      /\ AsSeq(new) \in Seq(Objs) /\ Len(AsSeq(new)) = new.size
  BY <1>1, ListIsSeq
<1>3. /\ new.size = list.size + 1 /\ list.size \in Nat
      /\ AsSeq(new)[list.size + 1] = o
      /\ \A i \in 1 .. list.size : AsSeq(new)[i] = AsSeq(list)[i]
  BY <1>1, <1>2, AppendProperties DEF IsList
<1>4. \A i \in 1 .. new.size : i \in 1 .. list.size \/ i = list.size + 1
  BY <1>3
<1>5. list.size + 1 \in 1 .. new.size /\ \A i \in 1 .. list.size : i \in 1 .. new.size
  BY <1>3
<1>6. \A x : x \in Listed(new) <=> x \in Listed(list) \/ x = o
  <2> TAKE x
  <2>1. x \in Listed(new) <=> \E i \in 1 .. new.size : AsSeq(new)[i] = x
    BY <1>1, TabledItems
  <2>2. x \in Listed(list) <=> \E i \in 1 .. list.size : AsSeq(list)[i] = x
    BY TabledItems
  <2>3. (\E i \in 1 .. new.size : AsSeq(new)[i] = x) => (\E i \in 1 .. list.size : AsSeq(list)[i] = x) \/ x = o
    BY <1>3, <1>4
  <2>4. (\E i \in 1 .. list.size : AsSeq(list)[i] = x) => \E i \in 1 .. new.size : AsSeq(new)[i] = x
    BY <1>3, <1>5
  <2>5. x = o => \E i \in 1 .. new.size : AsSeq(new)[i] = x
    BY <1>3, <1>5
  <2> QED BY <2>1, <2>2, <2>3, <2>4, <2>5
<1>7. ASSUME Once(list), o \notin Listed(list) PROVE Once(new)
  <2>1. \A i \in 1 .. list.size : AsSeq(list)[i] # o
    BY <1>7, TabledItems
  <2> QED BY <1>3, <1>4, <1>7, <2>1 DEF Once
<1> QED BY <1>1, <1>3, <1>6, <1>7 DEF new

LEMMA TabledRemove ==
  ASSUME NEW list, IsList(Objs, list), Once(list), NEW k \in 0 .. list.size - 1
  PROVE  LET new == arraylist_remove(list, k) IN
         /\ \A x : x \in Listed(new) <=> x \in Listed(list) /\ x # list.body[k]
         /\ Once(new) /\ IsList(Objs, new) /\ new.size = list.size - 1
<1> DEFINE new == arraylist_remove(list, k)
<1>1. IsList(Objs, new) /\ AsSeq(new) = Without(AsSeq(list), k + 1)
  BY RemoveRefines
<1>2. list.size \in Nat /\ new.size = list.size - 1
  BY DEF IsList, arraylist_remove
<1> HIDE DEF new
<1>3. Len(AsSeq(list)) = list.size
  BY ListIsSeq
<1>4. \A i \in 1 .. new.size :
        AsSeq(new)[i] = IF i < k + 1 THEN AsSeq(list)[i] ELSE AsSeq(list)[i + 1]
  BY <1>1, <1>2, <1>3 DEF Without
<1>5. AsSeq(list)[k + 1] = list.body[k] /\ k + 1 \in 1 .. list.size
  BY <1>2 DEF AsSeq
<1>6. Once(new)
  BY <1>2, <1>4 DEF Once
<1>7. ASSUME NEW x \in Listed(new) PROVE x \in Listed(list) /\ x # list.body[k]
  <2>1. PICK i \in 1 .. new.size : AsSeq(new)[i] = x
    BY <1>1, TabledItems
  <2>2. PICK j \in 1 .. list.size : j # k + 1 /\ AsSeq(list)[j] = x
    <3>1. CASE i < k + 1
      BY <1>2, <1>4, <2>1, <3>1
    <3>2. CASE ~(i < k + 1)
      <4>1. i + 1 \in 1 .. list.size /\ i + 1 # k + 1
        BY <1>2, <3>2
      <4> QED BY <1>4, <2>1, <3>2, <4>1
    <3> QED BY <3>1, <3>2
  <2> QED BY <1>5, <2>2, TabledItems DEF Once
<1>8. ASSUME NEW x \in Listed(list), x # list.body[k] PROVE x \in Listed(new)
  <2>1. PICK j \in 1 .. list.size : AsSeq(list)[j] = x
    BY TabledItems
  <2>2. j # k + 1
    BY <1>5, <1>8, <2>1
  <2>3. \E i \in 1 .. new.size : AsSeq(new)[i] = x
    <3>1. CASE j < k + 1
      BY <1>2, <1>4, <2>1, <3>1
    <3>2. CASE ~(j < k + 1)
      <4> DEFINE i == j - 1
      <4>1. i \in 1 .. new.size /\ ~(i < k + 1) /\ i + 1 = j
        BY <1>2, <2>2, <3>2
      <4> HIDE DEF i
      <4> QED BY <1>4, <2>1, <4>1
    <3> QED BY <3>1, <3>2
  <2> QED BY <1>1, <2>3, TabledItems
<1> QED BY <1>1, <1>2, <1>6, <1>7, <1>8 DEF new

LEMMA FindsOwn ==
  ASSUME NEW list, IsList(Objs, list), NEW objs, NEW o \in Listed(list),
         \A p \in Listed(list) : objs[p].name = objs[o].name => p = o
  PROVE  LET hits == Hits(list, objs, objs[o].name) IN
         /\ hits # {} /\ Min(hits) \in 0 .. list.size - 1 /\ list.body[Min(hits)] = o
         /\ iec_sys_find_link(list, objs, objs[o].name) = o
<1> DEFINE hits == Hits(list, objs, objs[o].name)
<1>1. hits \subseteq Nat /\ hits \subseteq 0 .. list.size - 1
  BY DEF Hits, IsList
<1>2. hits # {}
  BY DEF Hits, Listed, Iterated
<1>3. \A i \in hits : list.body[i] = o
  BY DEF Hits, Listed, Iterated
<1>4. iec_sys_find_link(list, objs, objs[o].name) =
        IF hits = {} THEN NoObj ELSE list.body[Min(hits)]
  BY DEF iec_sys_find_link, arraylist_get
<1> HIDE DEF hits
<1>5. Min(hits) \in hits
  BY <1>1, <1>2, MinIsLeast
<1>6. list.body[Min(hits)] = o
  BY <1>3, <1>5
<1>7. iec_sys_find_link(list, objs, objs[o].name) = o
  BY <1>2, <1>4, <1>6
<1> QED BY <1>1, <1>2, <1>5, <1>6, <1>7 DEF hits
-----------------------------------------------------------------------------
LEMMA NamesDiffer ==
  /\ \A n \in NetNames : n # Serial0 /\ n # NoName /\ n \in Names /\ n.kind \in {"cs", "wh"}
  /\ \A n \in NetNames : n.kind = "wh" => n \in Conns /\ n.of \in HwSocks /\ n = Name("wh", n.of)
  /\ \A n \in Conns : n.kind = "cs" => n.of \in Socks
  /\ \A n, m \in Conns : n.of = m.of => n = m
  /\ \A n \in Conns : n.of \in Socks \cup HwSocks /\ n # Listener
  /\ \A s \in HwSocks : Name("wh", s) \in Conns /\ Name("wh", s).kind = "wh" /\ Name("wh", s).of = s
  /\ \A s \in Socks : Name("cs", s) \in Conns /\ Name("cs", s).kind = "cs" /\ Name("cs", s).of = s
  /\ Listener \in NetNames /\ Listener.kind = "cs" /\ Listener.of = BadSock
  /\ Serial0 \in Names /\ Serial0.kind = "serial" /\ NoName \in Names /\ NoName # Serial0
  /\ \A n \in Names : n \in NetNames \/ n \in {Serial0, NoName}
<1>1. /\ \A k, s : Name(k, s).kind = k /\ Name(k, s).of = s
      /\ \A k, s, j, t : Name(k, s) = Name(j, t) <=> k = j /\ s = t
  BY DEF Name
<1>2. \A n : n \in Conns <=> (\E s \in Socks : n = Name("cs", s)) \/ (\E s \in HwSocks : n = Name("wh", s))
  BY DEF Conns
<1>3. \A n : n \in NetNames <=> n \in Conns \/ n = Listener
  BY DEF NetNames
<1>4. \A n : n \in Names <=> n \in Conns \/ n \in {Serial0, NoName, Listener}
  BY DEF Names, Listener
<1>5. Listener = Name("cs", BadSock) /\ Serial0 = Name("serial", BadSock) /\ NoName = Name("none", BadSock)
  BY DEF Listener, Serial0, NoName
<1>6. \A n \in NetNames : n # Serial0 /\ n # NoName /\ n \in Names /\ n.kind \in {"cs", "wh"}
  BY <1>1, <1>2, <1>3, <1>4, <1>5
<1>7. \A n \in NetNames : n.kind = "wh" => n \in Conns /\ n.of \in HwSocks /\ n = Name("wh", n.of)
  BY <1>1, <1>2, <1>3, <1>5
<1>8. \A n \in Conns : n.kind = "cs" => n.of \in Socks
  BY <1>1, <1>2
<1>9. \A n, m \in Conns : n.of = m.of => n = m
  BY <1>1, <1>2
<1>10. \A n \in Conns : n.of \in Socks \cup HwSocks /\ n # Listener
  BY <1>1, <1>2, <1>5
<1> QED BY <1>1, <1>2, <1>3, <1>4, <1>5, <1>6, <1>7, <1>8, <1>9, <1>10

(* Whose call an event is.                                                 *)
LEMMA WhoCalls ==
  ASSUME NEW os, NEW e \in SysEvents
  PROVE  /\ \A a \in Apps : Caller(os, e) = Name("SYS_APP", a)
              => e = CreateAppEvt(a) \/ e = StartAppEvt(a)
         /\ \A a \in Apps, cb \in Callbacks : Caller(os, e) = Name(cb, a) => e = SetCbEvt(a, cb)
         /\ Caller(os, e) = Name("SYS_BIND", "iec101") => \E o \in Objs : e = BindEvt("iec101", o)
         /\ \A n : Caller(os, e) = LinkCaller(n) =>
              \/ e = CreateLinkEvt(n)
              \/ \E o \in Objs : /\ os[o].name = n
                                /\ e \in {DelLinkEvt(o), StartLinkEvt(o), BindEvt("iec104", o)}
<1>1. \A k, s, j, t : Name(k, s) = Name(j, t) => k = j /\ s = t
  BY DEF Name
<1>2. \A n, m : LinkCaller(n) = LinkCaller(m) => n = m
  BY <1>1 DEF LinkCaller
<1>3. \A n, k, s : k # "link" => LinkCaller(n) # Name(k, s)
  BY <1>1 DEF LinkCaller
<1>3a. \A cb \in Callbacks : cb \notin {"link", "SYS_APP", "SYS_BIND"}
  BY DEF Callbacks
<1>3b. \A n : LinkCaller(n) = Name("link", n)
  BY DEF LinkCaller
<1>4. ASSUME NEW n \in Names, e = CreateLinkEvt(n)
      PROVE  /\ \A k, s : k # "link" => Caller(os, e) # Name(k, s)
             /\ \A m : Caller(os, e) = LinkCaller(m) => e = CreateLinkEvt(m)
  BY <1>2, <1>3, <1>4, CallerOf
<1>5. ASSUME NEW a \in Apps, e = CreateAppEvt(a) \/ e = StartAppEvt(a)
      PROVE  \A k, s : Caller(os, e) = Name(k, s) => k = "SYS_APP" /\ s = a
  <2>1. Caller(os, e) = Name("SYS_APP", a)
    BY <1>5, CallerOf
  <2> QED BY <1>1, <2>1
<1>6. ASSUME NEW a \in Apps, NEW cb \in Callbacks, e = SetCbEvt(a, cb)
      PROVE  \A k, s : Caller(os, e) = Name(k, s) => k = cb /\ s = a
  <2>1. Caller(os, e) = Name(cb, a)
    BY <1>6, CallerOf
  <2> QED BY <1>1, <2>1
<1>7. ASSUME NEW o \in Objs, e = BindEvt("iec101", o)
      PROVE  \A k, s : Caller(os, e) = Name(k, s) => k = "SYS_BIND"
  <2>1. Caller(os, e) = Name("SYS_BIND", "iec101")
    BY <1>7, CallerOf
  <2> QED BY <1>1, <2>1
<1>8. ASSUME NEW o \in Objs, e \in {DelLinkEvt(o), StartLinkEvt(o), BindEvt("iec104", o)}
      PROVE  /\ \A k, s : k # "link" => Caller(os, e) # Name(k, s)
             /\ \A m : Caller(os, e) = LinkCaller(m) => os[o].name = m
  <2>1. Caller(os, e) = LinkCaller(os[o].name)
    BY <1>8, CallerOf
  <2> QED BY <1>2, <1>3, <2>1
<1>9. \/ \E n \in Names : e = CreateLinkEvt(n)
      \/ \E a \in Apps : e = CreateAppEvt(a) \/ e = StartAppEvt(a)
      \/ \E a \in Apps, cb \in Callbacks : e = SetCbEvt(a, cb)
      \/ \E o \in Objs : e = BindEvt("iec101", o)
      \/ \E o \in Objs : e \in {DelLinkEvt(o), StartLinkEvt(o), BindEvt("iec104", o)}
  BY CallKinds DEF Apps
<1>10. \A a \in Apps : Caller(os, e) = Name("SYS_APP", a) => e = CreateAppEvt(a) \/ e = StartAppEvt(a)
  BY <1>3a, <1>4, <1>5, <1>6, <1>7, <1>8, <1>9
<1>11. \A a \in Apps, cb \in Callbacks : Caller(os, e) = Name(cb, a) => e = SetCbEvt(a, cb)
  BY <1>3a, <1>4, <1>5, <1>6, <1>7, <1>8, <1>9
<1>12. Caller(os, e) = Name("SYS_BIND", "iec101") => \E o \in Objs : e = BindEvt("iec101", o)
  BY <1>3a, <1>4, <1>5, <1>6, <1>7, <1>8, <1>9
<1>13. \A n : Caller(os, e) = LinkCaller(n) =>
              \/ e = CreateLinkEvt(n)
              \/ \E o \in Objs : /\ os[o].name = n
                                /\ e \in {DelLinkEvt(o), StartLinkEvt(o), BindEvt("iec104", o)}
  BY <1>3a, <1>3b, <1>4, <1>5, <1>6, <1>7, <1>8, <1>9
<1> QED BY <1>10, <1>11, <1>12, <1>13
-----------------------------------------------------------------------------
(* Where the variables are.                                                *)
LEMMA Places ==
  ASSUME TypeInv
  PROVE  /\ sys_event \in Seq(SysEvents) /\ IsList(Objs, sys_link_obj) /\ sys_link_obj.size \in Nat
         /\ Tabled \subseteq Objs /\ NoObj \notin Objs
         /\ obj \in [Objs -> Links] /\ disconnect \subseteq Objs /\ unheard \subseteq Objs
         /\ \A r \in recvs : /\ r = [link |-> r.link, pc |-> r.pc, name |-> r.name]
                             /\ r.link \in Objs /\ r.pc \in {"start", "loop", "close"}
         /\ \A i \in 1 .. Len(sys_event) : sys_event[i] \in SysEvents /\ Waits(sys_event[i])
         /\ \A e : Waits(e) => e \in SysEvents
         /\ booted \in 0 .. 3
         /\ slots \in [Apps -> [1 .. CFG_LINK_MAX -> Objs \cup {NoObj}]]
         /\ app \in [Apps -> [running : BOOLEAN, cbs : SUBSET Callbacks]]
<1>1. /\ sys_event \in Seq(SysEvents) /\ IsList(Objs, sys_link_obj)
      /\ obj \in [Objs -> Links] /\ disconnect \subseteq Objs /\ unheard \subseteq Objs
      /\ recvs \subseteq [link : Objs, pc : {"start", "loop", "close"}, name : Names]
      /\ booted \in 0 .. 3
      /\ slots \in [Apps -> [1 .. CFG_LINK_MAX -> Objs \cup {NoObj}]]
      /\ app \in [Apps -> [running : BOOLEAN, cbs : SUBSET Callbacks]]
  BY DEF TypeInv, TypeOK, TableType, ThreadType, BoundType, BootCalls
<1>2. sys_link_obj.size \in Nat
  BY <1>1 DEF IsList
<1>3. Tabled \subseteq Objs
  BY <1>1 DEF Tabled, Listed, Iterated, IsList, WellFormed
<1>4. NoObj \notin Objs
  BY DEF Objs, NoObj
<1>5. \A i \in 1 .. Len(sys_event) : sys_event[i] \in SysEvents
  BY <1>1
<1> QED BY <1>1, <1>2, <1>3, <1>4, <1>5 DEF Waits, Held

(* What a step leaves in the mailbox as long as nothing has gone astray.   *)
LEMMA RoomLeft ==
  ASSUME TypeInv', NEW mb, Calls(mb), ~astray'
  PROVE  sys_event' = mb /\ Len(mb) < SysMb
<1>1. sys_event' \in Seq(SysEvents) /\ Len(sys_event') <= SysMb
  BY DEF TypeInv, TypeOK, TableType
<1>2. sys_event' = mb /\ Len(mb) # SysMb
  BY Zenon DEF Calls
<1>3. Len(sys_event') \in Nat
  BY <1>1
<1> QED BY <1>1, <1>2, <1>3

LEMMA BootKeeps == ASSUME TypeInv, TypeInv', LifeInv, Boot, ~astray' PROVE LifeInv'
<1> DEFINE c == BootCalls[booted + 1]
<1>1. /\ booted \in 0 .. 2 /\ booted' = booted + 1 /\ Calls(Post(sys_event, c))
      /\ UNCHANGED <<linkVars, tableVars, heapVars, netVars>>
  BY Places DEF Boot, BootCalls
<1>1a. sys_event' = Post(sys_event, c) /\ Len(Post(sys_event, c)) < SysMb
  BY <1>1, RoomLeft
<1>2. /\ booted = 0 => c = CreateLinkEvt(Serial0)
      /\ booted = 1 => c = CreateAppEvt("iec101")
      /\ booted = 2 => c = CreateAppEvt("iec104")
  BY DEF BootCalls
<1> HIDE DEF c
<1>3. "iec101" \in Apps /\ "iec104" \in Apps
  BY DEF Apps
<1>4. c \in SysEvents
  BY <1>1, <1>2, <1>3, EventTypes, NamesDiffer
<1>5. NoNet /\ \A o \in Objs : ~Told(o)
  <2>1. NoNet
    BY <1>1 DEF LifeInv, BootInv
  <2>2. \A o \in Objs : ~Told(o)
    BY <2>1, Places, NamesDiffer DEF LifeInv, NoNet, DiscInv, TableInv
  <2> QED BY <2>1, <2>2
<1>6. \A i \in 1 .. Len(sys_event) : Caller(obj, sys_event[i]) # Caller(obj, c)
  <2>1. CASE booted = 0
    BY <2>1 DEF LifeInv, BootInv
  <2>2. ASSUME NEW a \in Apps, c = CreateAppEvt(a), ~Born(a)
        PROVE  \A i \in 1 .. Len(sys_event) : Caller(obj, sys_event[i]) # Caller(obj, c)
    <3>1. ~Waits(CreateAppEvt(a)) /\ ~Waits(StartAppEvt(a))
      BY <2>2 DEF LifeInv, AppInv
    <3>2. Caller(obj, c) = Name("SYS_APP", a)
      BY <2>2, CallerOf
    <3> QED BY <3>1, <3>2, WhoCalls, Places
  <2>3. (booted = 1 => ~Born("iec101")) /\ (booted = 2 => ~Born("iec104"))
    BY DEF Born
  <2> QED BY <1>1, <1>2, <1>3, <2>1, <2>2, <2>3
<1>8. /\ sys_event' = Append(sys_event, c) /\ Apart(obj, sys_event')
      /\ \A x : Waits(x)' <=> Waits(x) \/ x = c
  BY <1>1a, <1>4, <1>6, PostArrives, Places DEF LifeInv, MailInv, Waits
<1>9. MailInv'
  BY <1>1, <1>8 DEF MailInv
<1>10. Queued(sys_event')
  <2>1. sys_event \in Seq(SysEvents)
    BY Places
  <2> QED BY <1>1, <1>2, <1>4, <1>8, <2>1, CallParts, QueuedPost DEF LifeInv, BootInv, Waits
<1>11. BootInv'
  <2>1. CASE booted = 0
    <3>1. Fresh' /\ NoNet'
      BY <1>1, <2>1 DEF LifeInv, BootInv, Fresh, NoNet, Live
    <3>2. Waits(CreateLinkEvt(Serial0))'
      BY <1>2, <1>8, <2>1
    <3>3. \A n \in NetNames : ~Waits(CreateLinkEvt(n))'
      BY <1>2, <1>8, <2>1, CallParts, NamesDiffer DEF LifeInv, BootInv
    <3> QED BY <1>1, <1>10, <2>1, <3>1, <3>2, <3>3 DEF BootInv
  <2>2. CASE booted # 0
    <3>1. \A n : Waits(CreateLinkEvt(n))' <=> Waits(CreateLinkEvt(n))
      BY <1>1, <1>2, <1>8, <2>2, CallParts
    <3> QED BY <1>1, <1>2, <1>5, <1>10, <2>2, <3>1 DEF LifeInv, BootInv, Fresh, NoNet, Live, Tabled
  <2> QED BY <2>1, <2>2
<1>12. AppInv'
  BY <1>1, <1>2, <1>8, CallParts DEF LifeInv, AppInv, Born, Known, Apps
<1>13. NameInv'
  BY <1>1, <1>2, <1>5, <1>8, CallParts, NamesDiffer DEF LifeInv, BootInv, NameInv, Fresh, NoNet, NoLive, Live, LinkNames
<1>14. TableInv'
  BY <1>1 DEF LifeInv, TableInv, Tabled, Live, Known
<1>15. RecvInv' /\ DiscInv'
  BY <1>1, <1>5 DEF NoNet, RecvInv, DiscInv, Told
<1>16. CallInv'
  BY <1>1, <1>2, <1>8, CallParts DEF LifeInv, CallInv, Tabled, Live
<1>17. SlotInv'
  BY <1>1 DEF LifeInv, SlotInv, Tabled, Bound
<1> QED BY <1>9, <1>11, <1>12, <1>13, <1>14, <1>15, <1>16, <1>17 DEF LifeInv

(* A connection is called for by a name no receive thread has.             *)
LEMMA CallForKeeps ==
  ASSUME TypeInv, TypeInv', LifeInv, booted = 3, ~astray',
         NEW n \in NetNames, Connects(n), \A r \in recvs : r.name # n,
         UNCHANGED <<linkVars, booted, tableVars, obj, recvs>>,
         \A s \in HwSocks : sock'[s] = "free" => sock[s] = "free" /\ n # Name("wh", s)
  PROVE  LifeInv'
<1> DEFINE c == CreateLinkEvt(n)
<1>1. c \in SysEvents /\ n # Serial0 /\ n \in LinkNames /\ n \in Names
  BY EventTypes, NamesDiffer DEF LinkNames
<1>2. /\ sys_event' = Post(sys_event, c) /\ Len(Post(sys_event, c)) < SysMb
      /\ NoLive(n) /\ ~Waits(c)
  <2>1. sys_event' = Post(sys_event, c) /\ ~Taken(n) /\ Len(sys_event') # SysMb
    BY Zenon DEF Connects
  <2>2. sys_event' \in Seq(SysEvents) /\ Len(sys_event') <= SysMb
    BY DEF TypeInv, TypeOK, TableType
  <2>3. sys_event \in Seq(SysEvents)
    BY Places
  <2>4. Len(sys_event') \in Nat
    BY <2>2
  <2> QED BY <2>1, <2>2, <2>3, <2>4 DEF Taken, NoLive, Waits, Held
<1>3. \A i \in 1 .. Len(sys_event) : Caller(obj, sys_event[i]) # Caller(obj, c)
  <2>1. Caller(obj, c) = LinkCaller(n)
    BY CallerOf
  <2>2. ASSUME NEW e, Waits(e), Caller(obj, e) = LinkCaller(n) PROVE FALSE
    <3>1. e \in SysEvents /\ e # CreateLinkEvt(n)
      BY <1>2, <2>2, Places
    <3>2. PICK o \in Objs : /\ obj[o].name = n
                           /\ e \in {DelLinkEvt(o), StartLinkEvt(o), BindEvt("iec104", o)}
      BY <2>2, <3>1, WhoCalls
    <3>3. ~Live(o)
      BY <1>2, <3>2 DEF NoLive
    <3> QED BY <2>2, <3>2, <3>3 DEF LifeInv, CallInv, TableInv, Apps
  <2> QED BY <2>1, <2>2, Places
<1>4. /\ sys_event' = Append(sys_event, c) /\ Apart(obj, sys_event')
      /\ \A x : Waits(x)' <=> Waits(x) \/ x = c
  BY <1>1, <1>2, <1>3, PostArrives, Places DEF LifeInv, MailInv, Waits
<1>5. /\ \A m : Waits(CreateLinkEvt(m))' <=> Waits(CreateLinkEvt(m)) \/ m = n
      /\ \A a : Waits(CreateAppEvt(a))' <=> Waits(CreateAppEvt(a))
      /\ \A a : Waits(StartAppEvt(a))' <=> Waits(StartAppEvt(a))
      /\ \A a, cb : Waits(SetCbEvt(a, cb))' <=> Waits(SetCbEvt(a, cb))
      /\ \A a, o : Waits(BindEvt(a, o))' <=> Waits(BindEvt(a, o))
      /\ \A o : Waits(StartLinkEvt(o))' <=> Waits(StartLinkEvt(o))
      /\ \A o : Waits(DelLinkEvt(o))' <=> Waits(DelLinkEvt(o))
  BY <1>4, CallParts
<1> HIDE DEF c
<1>6. Queued(sys_event')
  <2>1. c # CreateLinkEvt(Serial0) /\ c # CreateAppEvt("iec104")
    BY <1>1, CallParts DEF c
  <2>2. sys_event \in Seq(SysEvents) /\ Queued(sys_event)
    BY Places DEF LifeInv, BootInv
  <2> QED BY <1>1, <1>4, <2>1, <2>2, QueuedPost
<1>7. BootInv'
  BY <1>1, <1>5, <1>6 DEF LifeInv, BootInv, Fresh, NoNet, Live, Tabled
<1>8. AppInv'
  BY <1>5 DEF LifeInv, AppInv, Born, Known
<1>9. NameInv'
  BY <1>1, <1>2, <1>5 DEF LifeInv, NameInv, NoLive, Live
<1>10. TableInv' /\ SlotInv'
  BY DEF LifeInv, TableInv, SlotInv, Tabled, Live, Known, Bound
<1>11. RecvInv'
  <2>1. \A r \in recvs : (Attends(r)' <=> Attends(r)) /\ (Gone(r) => Gone(r)')
    BY <1>5 DEF Attends, Gone, NoLive, Live, Tabled
  <2>2. \A r \in recvs : /\ Starting(r) => Starting(r)'
                         /\ Looping(r) => Looping(r)'
                         /\ Closing(r) => Closing(r)'
    BY <1>5, <2>1 DEF Starting, Looping, Closing, Bound, Told
  <2> QED BY <1>5, <2>2 DEF LifeInv, RecvInv
<1>12. DiscInv'
  BY DEF LifeInv, DiscInv, Tabled, Bound, Told
<1>13. CallInv'
  BY <1>5 DEF LifeInv, CallInv, Tabled, Live
<1> QED BY <1>4, <1>7, <1>8, <1>9, <1>10, <1>11, <1>12, <1>13 DEF LifeInv, MailInv

LEMMA NetKeeps ==
  ASSUME TypeInv, TypeInv', LifeInv, ~astray',
         \/ AcceptFails
         \/ \E s \in Socks : Accept(s)
         \/ \E s \in HwSocks : HwConnects(s)
         \/ \E s \in Socks \cup HwSocks : PeerCloses(s)
         \/ \E o \in Objs : NotifyClose(o)
  PROVE  LifeInv'
<1>1. sock \in [Socks \cup HwSocks -> {"free", "open", "reset"}]
  BY Shape
<1>2. ASSUME ListenRuns, NEW n, Connects(n)
      PROVE  booted = 3 /\ \A r \in recvs : r.name # n
  <2>1. booted = 3 /\ \A r \in recvs : r.pc = "loop"
    BY <1>2, Places DEF ListenRuns, RecvRuns, RecvReady, BootCalls
  <2>2. NoLive(n)
    BY <1>2, Zenon DEF Connects, Calls, Taken, NoLive
  <2>3. \A r \in recvs : r.link \in Objs /\ Live(r.link) /\ obj[r.link].name = r.name
    BY <2>1, Places DEF LifeInv, RecvInv, Looping, Attends, TableInv
  <2> QED BY <2>1, <2>2, <2>3 DEF NoLive
<1>3. CASE AcceptFails
  <2>1. /\ ListenRuns /\ Connects(Listener)
        /\ UNCHANGED <<linkVars, booted, tableVars, obj, recvs, sock>>
    BY <1>3 DEF AcceptFails, Listener
  <2> QED BY <1>2, <2>1, CallForKeeps, NamesDiffer
<1>4. ASSUME NEW s \in Socks, Accept(s) PROVE LifeInv'
  <2> DEFINE n == Name("cs", s)
  <2>1. /\ ListenRuns /\ sock' = [sock EXCEPT ![s] = "open"] /\ Connects(n)
        /\ UNCHANGED <<linkVars, booted, tableVars, obj, recvs>>
    BY <1>4 DEF Accept
  <2>2. n \in NetNames
    BY NamesDiffer DEF NetNames
  <2>3. \A h \in HwSocks : sock'[h] = "free" => sock[h] = "free" /\ n # Name("wh", h)
    BY <1>1, <2>1, NamesDiffer
  <2> HIDE DEF n
  <2> QED BY <1>2, <2>1, <2>2, <2>3, CallForKeeps
<1>5. ASSUME NEW s \in HwSocks, HwConnects(s) PROVE LifeInv'
  <2> DEFINE n == Name("wh", s)
  <2>1. /\ sock[s] = "free" /\ booted = 3 /\ sock' = [sock EXCEPT ![s] = "open"] /\ Connects(n)
        /\ UNCHANGED <<linkVars, booted, tableVars, obj, recvs>>
    BY <1>5 DEF HwConnects, BootCalls
  <2>2. n \in NetNames /\ \A r \in recvs : r.name # n
    BY <2>1, NamesDiffer DEF NetNames, LifeInv, NameInv
  <2>3. \A h \in HwSocks : sock'[h] = "free" => sock[h] = "free" /\ n # Name("wh", h)
    BY <1>1, <2>1, NamesDiffer
  <2> HIDE DEF n
  <2> QED BY <2>1, <2>2, <2>3, CallForKeeps
<1>6. ASSUME NEW s \in Socks \cup HwSocks, PeerCloses(s) PROVE LifeInv'
  <2>1. /\ sock' = [sock EXCEPT ![s] = "reset"]
        /\ UNCHANGED <<mailVars, linkVars, booted, tableVars, heapVars, recvs>>
    BY <1>6 DEF PeerCloses
  <2>2. \A h \in HwSocks : sock'[h] = "free" => sock[h] = "free"
    BY <1>1, <2>1
  <2>3. NameInv'
    BY <2>1, <2>2 DEF LifeInv, NameInv, NoLive, Live, Waits
  <2>4. MailInv' /\ BootInv' /\ AppInv' /\ TableInv' /\ SlotInv'
    BY <2>1 DEF LifeInv, MailInv, BootInv, Fresh, NoNet, AppInv, Born, TableInv, SlotInv, Tabled, Live,
                Known, Bound, Waits
  <2>5. RecvInv'
    <3>1. \A r \in recvs : (Attends(r)' <=> Attends(r)) /\ (Gone(r)' <=> Gone(r))
      BY <2>1 DEF Attends, Gone, NoLive, Live, Tabled, Waits
    <3>2. \A r \in recvs : /\ Starting(r) => Starting(r)'
                           /\ Looping(r) => Looping(r)'
                           /\ Closing(r) => Closing(r)'
      BY <2>1, <3>1 DEF Starting, Looping, Closing, Bound, Told, Waits
    <3> QED BY <2>1, <3>2 DEF LifeInv, RecvInv, Waits
  <2>6. DiscInv'
    BY <2>1 DEF LifeInv, DiscInv, Tabled, Bound, Told
  <2>7. CallInv'
    BY <2>1 DEF LifeInv, CallInv, Tabled, Live, Waits
  <2> QED BY <2>3, <2>4, <2>5, <2>6, <2>7 DEF LifeInv
<1>7. ASSUME NEW o \in Objs, NotifyClose(o) PROVE LifeInv'
  <2>1. /\ obj' = [obj EXCEPT ![o].close_sem = 1]
        /\ UNCHANGED <<mailVars, linkVars, booted, tableVars, faults, netVars>>
    BY <1>7 DEF NotifyClose
  <2>2. \A p \in Objs : /\ obj'[p].mem = obj[p].mem /\ obj'[p].name = obj[p].name
                        /\ obj'[p].tid = obj[p].tid /\ obj'[p].write = obj[p].write
                        /\ obj'[p].applayer_id = obj[p].applayer_id
    BY <2>1, Places DEF Links
  <2>3. \A i \in 1 .. Len(sys_event) : OfLink(sys_event[i]) /\ sys_event[i].msg.link # NoObj =>
          sys_event[i].msg.link \in Objs
    BY Places, CallKinds, CallParts DEF OfLink
  <2>4. MailInv'
    <3>1. Apart(obj', sys_event)
      BY <2>2, <2>3, CallersStay, Places DEF LifeInv, MailInv
    <3> QED BY <2>1, <3>1 DEF MailInv
  <2>5. BootInv' /\ AppInv'
    BY <2>1, <2>2, Places DEF LifeInv, BootInv, Fresh, NoNet, AppInv, Born, Tabled, Live, Known, Waits
  <2>6. NameInv'
    BY <2>1, <2>2 DEF LifeInv, NameInv, NoLive, Live, Waits
  <2>7. TableInv'
    BY <2>1, <2>2, Places DEF LifeInv, TableInv, Tabled, Live, Known
  <2>8. SlotInv'
    <3>1. slots \in [Apps -> [1 .. CFG_LINK_MAX -> Objs \cup {NoObj}]]
      BY Places
    <3>2. \A a \in Apps : \A i \in 1 .. CFG_LINK_MAX : slots[a][i] # NoObj => slots[a][i] \in Objs
      BY <3>1
    <3>3. Tabled' = Tabled /\ Tabled \subseteq Objs
      BY <2>1, Places DEF Tabled
    <3> QED BY <2>1, <2>2, <3>2, <3>3 DEF LifeInv, SlotInv, Bound
  <2>9. RecvInv'
    <3>1. Tabled' = Tabled /\ (\A r \in recvs : r.link \in Objs) /\ \A e : Waits(e)' <=> Waits(e)
      BY <2>1, Places DEF Tabled, Waits
    <3>2. \A r \in recvs : Attends(r)' <=> Attends(r)
      BY <2>2, <3>1 DEF Attends
    <3>3. \A r \in recvs : Gone(r)' <=> Gone(r)
      BY <2>2, <3>1 DEF Gone, NoLive, Live
    <3>4. \A r \in recvs : Starting(r)' <=> Starting(r)
      BY <2>2, <3>1, <3>2 DEF Starting, Bound
    <3>5. \A r \in recvs : Looping(r)' <=> Looping(r)
      BY <2>1, <2>2, <3>1, <3>2 DEF Looping, Bound, Told
    <3>6. \A r \in recvs : Closing(r)' <=> Closing(r)
      BY <2>1, <2>2, <3>1, <3>2, <3>3 DEF Closing, Told
    <3> QED BY <2>1, <3>1, <3>4, <3>5, <3>6 DEF LifeInv, RecvInv
  <2>10. DiscInv'
    BY <2>1, <2>2, Places DEF LifeInv, DiscInv, Tabled, Bound, Told
  <2>11. CallInv'
    BY <2>1, <2>2 DEF LifeInv, CallInv, Tabled, Live, Waits
  <2> QED BY <2>4, <2>5, <2>6, <2>7, <2>8, <2>9, <2>10, <2>11 DEF LifeInv
<1> QED BY <1>3, <1>4, <1>5, <1>6, <1>7
-----------------------------------------------------------------------------
(* The main thread takes a call: the others stay in their order.           *)
LEMMA MainTook ==
  ASSUME TypeInv, LifeInv, MainRuns
  PROVE  /\ booted > 0
         /\ sys_event \in Seq(SysEvents) /\ sys_event # <<>>
         /\ Head(sys_event) \in SysEvents /\ Waits(Head(sys_event))
         /\ Rest \in Seq(SysEvents) /\ Apart(obj, Rest) /\ Queued(Rest)
         /\ CreateLinkEvt(Serial0) \notin Held(Rest)
         /\ \A n \in NetNames : Head(sys_event) = CreateLinkEvt(n) => ~Waits(CreateAppEvt("iec104"))
         /\ \A x : x \in Held(Rest) <=> Waits(x) /\ x # Head(sys_event)
         /\ \A i \in 1 .. Len(Rest) : Rest[i] \in SysEvents /\ Rest[i] \in Held(Rest)
         /\ \A i \in 1 .. Len(Rest) : Caller(obj, Rest[i]) # Caller(obj, Head(sys_event))
<1>1. sys_event # <<>>
  BY DEF MainRuns, MainReady
<1>2. sys_event \in Seq(SysEvents) /\ booted \in 0 .. 3 /\ Apart(obj, sys_event) /\ Queued(sys_event)
  BY Places DEF LifeInv, MailInv, BootInv
<1>3. booted > 0
  BY <1>1, <1>2 DEF LifeInv, BootInv
<1>4. /\ Rest \in Seq(SysEvents) /\ Apart(obj, Rest) /\ Waits(Head(sys_event))
      /\ \A x : x \in Held(Rest) <=> Waits(x) /\ x # Head(sys_event)
      /\ \A i \in 1 .. Len(Rest) : Caller(obj, Rest[i]) # Caller(obj, Head(sys_event))
  BY <1>1, <1>2, RestIsRest DEF Rest, Waits
<1>5. /\ Queued(Rest) /\ CreateLinkEvt(Serial0) \notin Held(Rest)
      /\ \A n \in NetNames : Head(sys_event) = CreateLinkEvt(n) => ~Waits(CreateAppEvt("iec104"))
  BY <1>1, <1>2, QueuedRest DEF Rest, Waits
<1>6. Head(sys_event) \in SysEvents
  BY <1>4, Places
<1>7. \A i \in 1 .. Len(Rest) : Rest[i] \in SysEvents /\ Rest[i] \in Held(Rest)
  BY <1>4 DEF Held
<1> QED BY <1>1, <1>2, <1>3, <1>4, <1>5, <1>6, <1>7

(* An application is started or given a callback.                          *)
LEMMA AppGrows ==
  ASSUME TypeInv, LifeInv, MainRuns, NEW a \in Apps, NEW e, e = Head(sys_event),
         sys_event' = Rest,
         UNCHANGED <<linkVars, booted, sys_link_obj, sys_app_obj, slots, heapVars, netVars>>,
         \/ e = StartAppEvt(a) /\ app' = [app EXCEPT ![a].running = TRUE]
         \/ \E cb \in Callbacks :
              e = SetCbEvt(a, cb) /\ app' = [app EXCEPT ![a].cbs = @ \cup {cb}]
  PROVE  LifeInv'
<1>1. /\ booted > 0 /\ Apart(obj, sys_event') /\ Queued(sys_event')
      /\ \A x : Waits(x)' <=> Waits(x) /\ x # e
  BY MainTook DEF Waits
<1>2. /\ \A n : Waits(CreateLinkEvt(n))' <=> Waits(CreateLinkEvt(n))
      /\ \A b : Waits(CreateAppEvt(b))' <=> Waits(CreateAppEvt(b))
      /\ \A b, o : Waits(BindEvt(b, o))' <=> Waits(BindEvt(b, o))
      /\ \A o : Waits(StartLinkEvt(o))' <=> Waits(StartLinkEvt(o))
      /\ \A o : Waits(DelLinkEvt(o))' <=> Waits(DelLinkEvt(o))
      /\ \A b : Waits(StartAppEvt(b))' => Waits(StartAppEvt(b))
      /\ \A b, cb : Waits(SetCbEvt(b, cb))' => Waits(SetCbEvt(b, cb))
  BY <1>1, CallParts DEF Callbacks
<1>3. Tabled' = Tabled
  BY DEF Tabled
<1>4. /\ \A b \in Apps : app[b].running => app'[b].running
      /\ \A b \in Apps : app[b].cbs \subseteq app'[b].cbs
      /\ e = StartAppEvt(a) => app'[a].running
      /\ \A cb \in Callbacks : e = SetCbEvt(a, cb) => cb \in app'[a].cbs
      /\ \A b \in Apps : app[b] = [running |-> TRUE, cbs |-> Callbacks] => app'[b] = app[b]
  <2>0. \A cb : SetCbEvt(a, cb).evt_sub_type = cb /\ StartAppEvt(a).evt_sub_type = "SYS_APP"
    BY CallParts
  <2>1. /\ app \in [Apps -> [running : BOOLEAN, cbs : SUBSET Callbacks]]
        /\ \A cb \in Callbacks : StartAppEvt(a) # SetCbEvt(a, cb)
    BY <2>0, Places DEF Callbacks
  <2>2. CASE e = StartAppEvt(a) /\ app' = [app EXCEPT ![a].running = TRUE]
    BY <2>1, <2>2
  <2>3. ASSUME NEW cb \in Callbacks, e = SetCbEvt(a, cb), app' = [app EXCEPT ![a].cbs = @ \cup {cb}]
        PROVE  /\ \A b \in Apps : app[b].running => app'[b].running
               /\ \A b \in Apps : app[b].cbs \subseteq app'[b].cbs
               /\ e = StartAppEvt(a) => app'[a].running
               /\ \A k \in Callbacks : e = SetCbEvt(a, k) => k \in app'[a].cbs
               /\ \A b \in Apps : app[b] = [running |-> TRUE, cbs |-> Callbacks] => app'[b] = app[b]
    <3>1. \A k \in Callbacks : e = SetCbEvt(a, k) => k = cb
      <4>1. SetCbEvt(a, cb).evt_sub_type = cb /\ \A k \in Callbacks : SetCbEvt(a, k).evt_sub_type = k
        BY <2>0
      <4> QED BY <2>3, <4>1, Zenon
    <3> QED BY <2>1, <2>3, <3>1
  <2> QED BY <2>2, <2>3
<1>5. MailInv'
  BY <1>1 DEF MailInv
<1>6. BootInv'
  BY <1>1, <1>2, <1>3 DEF LifeInv, BootInv, Fresh, NoNet, Live
<1>7. AppInv'
  <2>1. /\ \A b \in Apps : Waits(StartAppEvt(b)) => Waits(StartAppEvt(b))' \/ (b = a /\ e = StartAppEvt(a))
        /\ \A b \in Apps, cb \in Callbacks : Waits(SetCbEvt(b, cb)) =>
             Waits(SetCbEvt(b, cb))' \/ (b = a /\ e = SetCbEvt(a, cb))
    BY <1>1, CallParts
  <2> QED BY <1>2, <1>4, <2>1 DEF LifeInv, AppInv, Born, Known
<1>8. NameInv'
  BY <1>2 DEF LifeInv, NameInv, NoLive, Live
<1>9. TableInv'
  BY <1>3 DEF LifeInv, TableInv, Live, Known
<1>10. RecvInv'
  <2>1. "iec104" \in Apps
    BY DEF Apps
  <2>2. \A r \in recvs : Looping(r) => Looping(r)'
    BY <1>3, <1>4, <2>1 DEF Looping, Attends, Bound, Told
  <2>3. \A r \in recvs : (Starting(r) => Starting(r)') /\ (Closing(r) => Closing(r)')
    BY <1>2, <1>3 DEF Starting, Closing, Gone, NoLive, Attends, Live, Bound, Told
  <2> QED BY <1>2, <2>2, <2>3 DEF LifeInv, RecvInv
<1>11. DiscInv'
  BY <1>3 DEF LifeInv, DiscInv, Bound, Told
<1>12. CallInv'
  BY <1>2, <1>3 DEF LifeInv, CallInv, Live
<1>13. SlotInv'
  BY <1>3 DEF LifeInv, SlotInv, Bound
<1> QED BY <1>5, <1>6, <1>7, <1>8, <1>9, <1>10, <1>11, <1>12, <1>13 DEF LifeInv

LEMMA AppKeeps == TypeInv /\ LifeInv /\ (StartApp \/ \E cb \in Callbacks : SetCb(cb)) => LifeInv'
<1> SUFFICES ASSUME TypeInv, LifeInv, StartApp \/ \E cb \in Callbacks : SetCb(cb) PROVE LifeInv'
  OBVIOUS
<1>1. CASE StartApp
  <2>1. /\ MainRuns /\ Head(sys_event).evt_type = "SYS_START"
        /\ Head(sys_event).evt_sub_type = "SYS_APP"
    BY <1>1 DEF StartApp, MainTakes
  <2>2. Msg.app \in Apps /\ Head(sys_event) = StartAppEvt(Msg.app)
    BY <2>1, MainTook, CallKinds DEF Msg
  <2> QED BY <1>1, <2>1, <2>2, AppGrows DEF StartApp, Calls
<1>2. ASSUME NEW cb \in Callbacks, SetCb(cb) PROVE LifeInv'
  <2>1. /\ MainRuns /\ Head(sys_event).evt_type = "SYS_EDIT_PROFILE"
        /\ Head(sys_event).evt_sub_type = cb
    BY <1>2 DEF SetCb, MainTakes, Callbacks
  <2>2. Msg.app \in Apps /\ Head(sys_event) = SetCbEvt(Msg.app, cb)
    BY <2>1, MainTook, CallKinds DEF Msg, Callbacks
  <2> QED BY <1>2, <2>1, <2>2, AppGrows DEF SetCb, Calls
<1> QED BY <1>1, <1>2
(* A call about a link that leaves every name and every memory as it is.   *)
LEMMA LinkCalled ==
  ASSUME TypeInv, LifeInv, MainRuns, NEW o \in Objs, NEW e, e = Head(sys_event),
         e \in {StartLinkEvt(o), DelLinkEvt(o)} \cup {BindEvt(a, o) : a \in Apps},
         sys_event' = Rest,
         \A p \in Objs : obj'[p].mem = obj[p].mem /\ obj'[p].name = obj[p].name,
         UNCHANGED <<linkVars, booted, sys_link_obj, sys_app_obj, app, netVars>>
  PROVE  /\ MailInv' /\ BootInv' /\ AppInv' /\ NameInv'
         /\ Tabled' = Tabled /\ Tabled \subseteq Objs
         /\ \A n : Waits(CreateLinkEvt(n))' <=> Waits(CreateLinkEvt(n))
         /\ \A x : Waits(x)' <=> Waits(x) /\ x # e
         /\ \A r \in recvs : r.link \in Objs /\ (Attends(r)' <=> Attends(r)) /\ (Gone(r)' <=> Gone(r))
<1>1. /\ booted > 0 /\ Apart(obj, Rest) /\ Rest \in Seq(SysEvents)
      /\ Queued(sys_event') /\ ~Waits(CreateLinkEvt(Serial0))'
      /\ \A x : Waits(x)' <=> Waits(x) /\ x # e
      /\ \A i \in 1 .. Len(Rest) : Rest[i] \in SysEvents
  BY MainTook DEF Waits
<1>2. /\ e.evt_type = "SYS_START" => e.evt_sub_type = "SYS_LINK_SERIAL"
      /\ e.evt_type = "SYS_EDIT_PROFILE" => e.evt_sub_type = "SYS_BIND"
      /\ e.evt_type \in {"SYS_START", "SYS_EDIT_PROFILE", "SYS_DEL_LINK"}
  BY CallParts
<1>3. /\ \A n : Waits(CreateLinkEvt(n))' <=> Waits(CreateLinkEvt(n))
      /\ \A a : Waits(CreateAppEvt(a))' <=> Waits(CreateAppEvt(a))
      /\ \A a : Waits(StartAppEvt(a))' <=> Waits(StartAppEvt(a))
      /\ \A a : \A cb \in Callbacks : Waits(SetCbEvt(a, cb))' <=> Waits(SetCbEvt(a, cb))
      /\ \A a, p : Waits(BindEvt(a, p))' => Waits(BindEvt(a, p))
  BY <1>1, <1>2, CallParts DEF Callbacks
<1>4. Tabled' = Tabled /\ Tabled \subseteq Objs /\ \A r \in recvs : r.link \in Objs
  BY Places DEF Tabled
<1>5. MailInv'
  <2>1. \A i \in 1 .. Len(Rest) : OfLink(Rest[i]) /\ Rest[i].msg.link # NoObj => Rest[i].msg.link \in Objs
    BY <1>1, CallKinds, CallParts DEF OfLink
  <2>2. Apart(obj', Rest)
    BY <1>1, <2>1, CallersStay
  <2> QED BY <2>2 DEF MailInv
<1>6. BootInv'
  BY <1>1, <1>3, <1>4 DEF LifeInv, BootInv, Fresh, NoNet, Live
<1>7. AppInv'
  BY <1>3 DEF LifeInv, AppInv, Born, Known
<1>8. NameInv'
  BY <1>3 DEF LifeInv, NameInv, NoLive, Live
<1>9. \A r \in recvs : (Attends(r)' <=> Attends(r)) /\ (Gone(r)' <=> Gone(r))
  BY <1>3, <1>4 DEF Attends, Gone, NoLive, Live
<1> QED BY <1>1, <1>3, <1>4, <1>5, <1>6, <1>7, <1>8, <1>9

LEMMA StartLinkKeeps == TypeInv /\ LifeInv /\ StartLink => LifeInv'
<1> SUFFICES ASSUME TypeInv, LifeInv, StartLink PROVE LifeInv'
  OBVIOUS
<1> DEFINE o == Msg.link
<1>1. /\ MainRuns /\ Head(sys_event).evt_type = "SYS_START"
      /\ Head(sys_event).evt_sub_type = "SYS_LINK_SERIAL"
  BY DEF StartLink, MainTakes
<1>2. o \in Objs /\ Head(sys_event) = StartLinkEvt(o) /\ Waits(StartLinkEvt(o))
  BY <1>1, MainTook, CallKinds DEF Msg
<1>3. /\ obj' = [obj EXCEPT ![o].tid = "run"] /\ sys_event' = Rest
      /\ UNCHANGED <<linkVars, booted, tableVars, faults, netVars>>
  BY DEF StartLink, Calls
<1>4. o \in Tabled /\ obj[o].name = Serial0 /\ Live(o) /\ obj[o].tid # "deleted"
  BY <1>2 DEF LifeInv, CallInv, TableInv
<1> HIDE DEF o
<1>5. \A p \in Objs : /\ obj'[p].mem = obj[p].mem /\ obj'[p].name = obj[p].name
                      /\ obj'[p].applayer_id = obj[p].applayer_id /\ obj'[p].write = obj[p].write
                      /\ obj'[p].tid = IF p = o THEN "run" ELSE obj[p].tid
  BY <1>3, Places DEF Links
<1>6. /\ MailInv' /\ BootInv' /\ AppInv' /\ NameInv'
      /\ Tabled' = Tabled /\ Tabled \subseteq Objs
      /\ \A n : Waits(CreateLinkEvt(n))' <=> Waits(CreateLinkEvt(n))
      /\ \A x : Waits(x)' <=> Waits(x) /\ x # StartLinkEvt(o)
      /\ \A r \in recvs : r.link \in Objs /\ (Attends(r)' <=> Attends(r)) /\ (Gone(r)' <=> Gone(r))
  BY <1>1, <1>2, <1>3, <1>5, LinkCalled
<1>7. /\ \A a, p : Waits(BindEvt(a, p))' <=> Waits(BindEvt(a, p))
      /\ \A p : Waits(DelLinkEvt(p))' <=> Waits(DelLinkEvt(p))
      /\ \A p : Waits(StartLinkEvt(p))' => Waits(StartLinkEvt(p))
  BY <1>6, CallParts
<1>8. TableInv'
  BY <1>3, <1>4, <1>5, <1>6 DEF LifeInv, TableInv, Live, Known
<1>9. RecvInv'
  <2>1. \A r \in recvs : Attends(r) => r.link # o
    BY <1>4, NamesDiffer DEF Attends, LifeInv, RecvInv
  <2>2. \A r \in recvs : (Starting(r) => Starting(r)') /\ (Looping(r) => Looping(r)')
    BY <1>3, <1>5, <1>6, <1>7, <2>1 DEF Starting, Looping, Bound, Told
  <2>3. \A r \in recvs : Closing(r) => Closing(r)'
    BY <1>3, <1>5, <1>6, <1>7, <2>1 DEF Closing, Told
  <2> QED BY <1>3, <1>6, <2>2, <2>3 DEF LifeInv, RecvInv
<1>10. CallInv'
  BY <1>4, <1>5, <1>6, <1>7, NamesDiffer DEF LifeInv, CallInv, Live
<1>11. SlotInv'
  <2>1. \A a \in Apps : \A i \in 1 .. CFG_LINK_MAX : slots[a][i] # NoObj => slots[a][i] \in Objs
    BY Places
  <2> QED BY <1>3, <1>4, <1>5, <1>6, <2>1, NamesDiffer DEF LifeInv, SlotInv, Bound
<1>12. DiscInv'
  BY <1>3, <1>4, <1>5, <1>6, NamesDiffer DEF LifeInv, DiscInv, Bound, Told
<1> QED BY <1>6, <1>8, <1>9, <1>10, <1>11, <1>12 DEF LifeInv
(* A link takes a place that is empty, and gives up its own.               *)
LEMMA SlotTaken ==
  ASSUME NEW sl \in [1 .. CFG_LINK_MAX -> Objs \cup {NoObj}], NEW o \in Objs,
         \E i \in 1 .. CFG_LINK_MAX : sl[i] = NoObj
  PROVE  \E k \in 1 .. CFG_LINK_MAX : sl[k] = NoObj /\ app_add_link(sl, o) = [sl EXCEPT ![k] = o]
<1> DEFINE empty == {i \in DOMAIN sl : sl[i] = NoObj}
<1>1. empty \subseteq 1 .. CFG_LINK_MAX /\ empty # {} /\ \A i \in empty : sl[i] = NoObj
  OBVIOUS
<1>2. app_add_link(sl, o) = IF empty = {} THEN sl ELSE [sl EXCEPT ![Min(empty)] = o]
  BY DEF app_add_link
<1> HIDE DEF empty
<1>3. empty \subseteq Nat
  BY <1>1
<1>4. Min(empty) \in empty
  BY <1>1, <1>3, MinIsLeast
<1> QED BY <1>1, <1>2, <1>4

LEMMA SlotGiven ==
  ASSUME NEW sl \in [1 .. CFG_LINK_MAX -> Objs \cup {NoObj}], NEW o \in Objs,
         \A i, j \in 1 .. CFG_LINK_MAX : sl[i] # NoObj /\ sl[i] = sl[j] => i = j
  PROVE  \A i \in 1 .. CFG_LINK_MAX :
           app_remove_link(sl, o)[i] = IF sl[i] = o THEN NoObj ELSE sl[i]
<1> DEFINE hits == {i \in DOMAIN sl : sl[i] = o}
<1>1. hits \subseteq 1 .. CFG_LINK_MAX /\ \A i \in 1 .. CFG_LINK_MAX : i \in hits <=> sl[i] = o
  OBVIOUS
<1>2. app_remove_link(sl, o) = IF hits = {} THEN sl ELSE [sl EXCEPT ![Min(hits)] = NoObj]
  BY DEF app_remove_link
<1> HIDE DEF hits
<1>3. hits \subseteq Nat /\ NoObj \notin Objs
  BY <1>1 DEF Objs, NoObj
<1>4. CASE hits = {}
  BY <1>1, <1>2, <1>4
<1>5. CASE hits # {}
  <2>1. Min(hits) \in hits
    BY <1>3, <1>5, MinIsLeast
  <2>2. \A i \in hits : i = Min(hits)
    BY <1>1, <1>3, <2>1
  <2> QED BY <1>1, <1>2, <1>5, <2>1, <2>2
<1> QED BY <1>4, <1>5

LEMMA Numbers == \A n \in Nat : IsFiniteSet(1 .. n) /\ Cardinality(1 .. n) = n
<1> TAKE n \in Nat
<1>1. 1 \in Int /\ n \in Int
  OBVIOUS
<1>2. /\ IsFiniteSet(1 .. n)
      /\ Cardinality(1 .. n) = IF 1 > n THEN 0 ELSE n - 1 + 1
  BY <1>1, FS_Interval
<1> QED BY <1>2

(* The serial link and the one to be bound are in the table as well: it    *)
(* has one entry more than an application has places.                      *)
LEMMA SlotFree ==
  ASSUME TypeInv, LifeInv, NEW a \in Apps, NEW o \in Objs, Waits(BindEvt(a, o))
  PROVE  \E i \in 1 .. CFG_LINK_MAX : slots[a][i] = NoObj
<1> SUFFICES ASSUME \A i \in 1 .. CFG_LINK_MAX : slots[a][i] # NoObj PROVE FALSE
  OBVIOUS
<1>1. /\ o \in Tabled /\ obj[o].applayer_id = NoApp /\ NoApp \notin Apps
      /\ a = "iec104" <=> obj[o].name # Serial0
  BY DEF LifeInv, CallInv, NoApp, Apps
<1>2. /\ \A i \in 1 .. CFG_LINK_MAX : /\ slots[a][i] \in Tabled /\ slots[a][i] # o
                                      /\ a = "iec104" <=> obj[slots[a][i]].name # Serial0
      /\ \A i, j \in 1 .. CFG_LINK_MAX : slots[a][i] = slots[a][j] => i = j
  BY <1>1 DEF LifeInv, SlotInv
<1>3. CASE a = "iec101"
  <2>1. 1 \in 1 .. CFG_LINK_MAX
    OBVIOUS
  <2>2. /\ slots[a][1] \in Tabled /\ slots[a][1] # o /\ obj[slots[a][1]].name = Serial0
        /\ obj[o].name = Serial0
    BY <1>1, <1>2, <1>3, <2>1
  <2> QED BY <1>1, <2>2, Places DEF LifeInv, TableInv, NameInv
<1>4. CASE a = "iec104"
  <2>1. sys_link_obj.size # 0
    BY <1>1, Places, TabledItems DEF Tabled
  <2>2. PICK s \in Tabled : obj[s].name = Serial0
    <3>1. booted > 0
      BY Places DEF LifeInv, BootInv, Waits, Held
    <3> QED BY <2>1, <3>1 DEF LifeInv, BootInv, Fresh
  <2> DEFINE T == Tabled \ {s, o}
             f == [i \in 1 .. CFG_LINK_MAX |-> slots[a][i]]
             g == AsSeq(sys_link_obj)
  <2>3. s # o /\ f \in Injection(1 .. CFG_LINK_MAX, T)
    BY <1>1, <1>2, <1>4, <2>2 DEF Injection, IsInjective
  <2>4. g \in Surjection(1 .. sys_link_obj.size, Tabled)
    <3>1. g \in Seq(Objs) /\ Len(g) = sys_link_obj.size /\ \A x : x \in Tabled <=> \E i \in 1 .. sys_link_obj.size : g[i] = x
      BY Places, ListIsSeq, TabledItems DEF Tabled
    <3> HIDE DEF g
    <3> QED BY <3>1 DEF Surjection
  <2>5. /\ IsFiniteSet(1 .. sys_link_obj.size) /\ Cardinality(1 .. sys_link_obj.size) = sys_link_obj.size
        /\ IsFiniteSet(1 .. CFG_LINK_MAX) /\ Cardinality(1 .. CFG_LINK_MAX) = CFG_LINK_MAX
    BY Numbers, Places
  <2> HIDE DEF f, g
  <2>6. IsFiniteSet(Tabled) /\ Cardinality(Tabled) <= sys_link_obj.size
    BY <2>4, <2>5, FS_Surjection
  <2>7. /\ IsFiniteSet(Tabled \ {s}) /\ Cardinality(Tabled \ {s}) = Cardinality(Tabled) - 1
        /\ o \in Tabled \ {s}
    BY <1>1, <2>3, <2>6, FS_RemoveElement
  <2>8. /\ IsFiniteSet((Tabled \ {s}) \ {o})
        /\ Cardinality((Tabled \ {s}) \ {o}) = Cardinality(Tabled \ {s}) - 1
    BY <2>7, FS_RemoveElement
  <2>9. T = (Tabled \ {s}) \ {o}
    OBVIOUS
  <2> HIDE DEF T
  <2>10. CFG_LINK_MAX <= Cardinality(T)
    BY <2>3, <2>5, <2>8, <2>9, FS_Injection
  <2>11. sys_link_obj.size <= CFG_LINK_MAX + 1 /\ sys_link_obj.size \in Nat /\ Cardinality(Tabled) \in Nat
    BY <2>6, Places, Shape, FS_CardinalityType
  <2> QED BY <2>6, <2>7, <2>8, <2>9, <2>10, <2>11
<1> QED BY <1>3, <1>4 DEF Apps

LEMMA BindKeeps == TypeInv /\ LifeInv /\ Bind => LifeInv'
<1> SUFFICES ASSUME TypeInv, LifeInv, Bind PROVE LifeInv'
  OBVIOUS
<1> DEFINE o == Msg.link
           a == Msg.app
<1>1. /\ MainRuns /\ Head(sys_event).evt_type = "SYS_EDIT_PROFILE"
      /\ Head(sys_event).evt_sub_type = "SYS_BIND"
  BY DEF Bind, MainTakes
<1>2. o \in Objs /\ a \in Apps /\ Head(sys_event) = BindEvt(a, o) /\ Waits(BindEvt(a, o))
  BY <1>1, MainTook, CallKinds DEF Msg
<1>3. /\ obj' = [obj EXCEPT ![o].applayer_id = a] /\ sys_event' = Rest
      /\ slots' = [slots EXCEPT ![a] = app_add_link(@, o)]
      /\ UNCHANGED <<linkVars, booted, sys_link_obj, sys_app_obj, app, faults, netVars>>
  BY DEF Bind, Calls
<1> HIDE DEF o, a
<1>4. /\ o \in Tabled /\ Live(o) /\ obj[o].applayer_id = NoApp /\ obj[o].tid # "deleted"
      /\ a = "iec104" <=> obj[o].name # Serial0
      /\ a = "iec104" => obj[o].tid = "none"
      /\ NoApp \notin Apps /\ Known(a)
  BY <1>2 DEF LifeInv, CallInv, TableInv, AppInv, NoApp, Apps
<1>5. \A p \in Objs : /\ obj'[p].mem = obj[p].mem /\ obj'[p].name = obj[p].name
                      /\ obj'[p].tid = obj[p].tid /\ obj'[p].write = obj[p].write
                      /\ obj'[p].applayer_id = IF p = o THEN a ELSE obj[p].applayer_id
  BY <1>3, Places DEF Links
<1>6. /\ MailInv' /\ BootInv' /\ AppInv' /\ NameInv'
      /\ Tabled' = Tabled /\ Tabled \subseteq Objs
      /\ \A n : Waits(CreateLinkEvt(n))' <=> Waits(CreateLinkEvt(n))
      /\ \A x : Waits(x)' <=> Waits(x) /\ x # BindEvt(a, o)
      /\ \A r \in recvs : r.link \in Objs /\ (Attends(r)' <=> Attends(r)) /\ (Gone(r)' <=> Gone(r))
  BY <1>1, <1>2, <1>3, <1>5, LinkCalled
<1>7. /\ \A b, p : Waits(BindEvt(b, p))' <=> Waits(BindEvt(b, p)) /\ (b # a \/ p # o)
      /\ \A p : Waits(DelLinkEvt(p))' <=> Waits(DelLinkEvt(p))
      /\ \A p : Waits(StartLinkEvt(p))' <=> Waits(StartLinkEvt(p))
  BY <1>6, CallParts
<1>8. \A b \in Apps : Waits(BindEvt(b, o)) => b = a
  BY <1>2, <1>4 DEF LifeInv, CallInv, Apps
<1>9. TableInv'
  BY <1>2, <1>3, <1>4, <1>5, <1>6 DEF LifeInv, TableInv, Live, Known
<1>10. RecvInv'
  <2>1. \A r \in recvs : r.name \in NetNames
    BY DEF LifeInv, RecvInv
  <2>2. \A r \in recvs : Attends(r) /\ r.link = o => a = "iec104"
    BY <1>4, <2>1, NamesDiffer DEF Attends
  <2>3. \A r \in recvs : Starting(r) => Starting(r)'
    BY <1>5, <1>6, <1>7, <2>2 DEF Starting, Bound
  <2>4. \A r \in recvs : Looping(r) => Looping(r)'
    BY <1>3, <1>4, <1>5, <1>6 DEF Looping, Bound, NoApp, Told
  <2>5. \A r \in recvs : Closing(r) => Closing(r)'
    BY <1>3, <1>5, <1>6, <1>7 DEF Closing, Told
  <2> QED BY <1>3, <1>6, <2>3, <2>4, <2>5 DEF LifeInv, RecvInv
<1>11. CallInv'
  <2>1. \A p \in Objs : Waits(DelLinkEvt(p))' =>
          Live(p)' /\ obj'[p].name \in NetNames /\ (p \in Tabled' => obj'[p].tid = "deleted")
    BY <1>5, <1>6, <1>7 DEF LifeInv, CallInv, Live
  <2>2. \A p \in Objs : Waits(StartLinkEvt(p))' => p \in Tabled' /\ obj'[p].name = Serial0
    BY <1>5, <1>6, <1>7 DEF LifeInv, CallInv
  <2>3. \A p \in Objs, b \in Apps : Waits(BindEvt(b, p))' =>
          /\ p \in Tabled' /\ obj'[p].applayer_id = NoApp /\ obj'[p].tid # "deleted"
          /\ b = "iec104" <=> obj'[p].name # Serial0
          /\ b = "iec104" => obj'[p].tid = "none"
    BY <1>5, <1>6, <1>7, <1>8 DEF LifeInv, CallInv
  <2> QED BY <2>1, <2>2, <2>3 DEF CallInv
<1>12. SlotInv'
  <2>1. slots \in [Apps -> [1 .. CFG_LINK_MAX -> Objs \cup {NoObj}]]
    BY Places
  <2>2. PICK k \in 1 .. CFG_LINK_MAX : slots[a][k] = NoObj /\ app_add_link(slots[a], o) = [slots[a] EXCEPT ![k] = o]
    BY <1>2, <2>1, SlotFree, SlotTaken
  <2>3. \A b \in Apps : \A i \in 1 .. CFG_LINK_MAX :
          slots'[b][i] = IF b = a /\ i = k THEN o ELSE slots[b][i]
    BY <1>2, <1>3, <2>1, <2>2
  <2>4. \A b \in Apps : \A i \in 1 .. CFG_LINK_MAX : slots[b][i] # NoObj =>
          slots[b][i] \in Tabled /\ slots[b][i] # o
    BY <1>4 DEF LifeInv, SlotInv
  <2>5. \A b \in Apps : \A i \in 1 .. CFG_LINK_MAX : slots'[b][i] # NoObj =>
          /\ slots'[b][i] \in Tabled' /\ obj'[slots'[b][i]].applayer_id = b
          /\ obj'[slots'[b][i]].tid # "deleted"
          /\ b = "iec104" <=> obj'[slots'[b][i]].name # Serial0
    <3> SUFFICES ASSUME NEW b \in Apps, NEW i \in 1 .. CFG_LINK_MAX, slots'[b][i] # NoObj
                 PROVE  /\ slots'[b][i] \in Tabled' /\ obj'[slots'[b][i]].applayer_id = b
                        /\ obj'[slots'[b][i]].tid # "deleted"
                        /\ b = "iec104" <=> obj'[slots'[b][i]].name # Serial0
      OBVIOUS
    <3>1. CASE b = a /\ i = k
      BY <1>2, <1>4, <1>5, <1>6, <2>3, <3>1
    <3>2. CASE ~(b = a /\ i = k)
      <4>1. slots'[b][i] = slots[b][i] /\ slots[b][i] \in Tabled /\ slots[b][i] # o
        BY <2>3, <2>4, <3>2
      <4> QED BY <1>5, <1>6, <4>1 DEF LifeInv, SlotInv
    <3> QED BY <3>1, <3>2
  <2>6. \A b \in Apps : \A i, j \in 1 .. CFG_LINK_MAX :
          slots'[b][i] # NoObj /\ slots'[b][i] = slots'[b][j] => i = j
    <3>1. \A b \in Apps : \A i, j \in 1 .. CFG_LINK_MAX :
            slots[b][i] # NoObj /\ slots[b][i] = slots[b][j] => i = j
      BY DEF LifeInv, SlotInv
    <3>2. \A i \in 1 .. CFG_LINK_MAX : slots[a][i] # o
      BY <1>2, <2>4, Places
    <3> QED BY <2>3, <3>1, <3>2
  <2>7. ASSUME NEW p \in Tabled', obj'[p].applayer_id \in Apps, obj'[p].tid # "deleted"
        PROVE  \E i \in 1 .. CFG_LINK_MAX : slots'[obj'[p].applayer_id][i] = p
    <3>1. CASE p = o
      BY <1>2, <1>5, <2>3, <3>1
    <3>2. CASE p # o
      <4>1. p \in Tabled /\ p \in Objs /\ obj'[p].applayer_id = obj[p].applayer_id /\ obj[p].tid # "deleted"
        BY <1>5, <1>6, <2>7, <3>2
      <4>2. PICK i \in 1 .. CFG_LINK_MAX : slots[obj[p].applayer_id][i] = p
        BY <2>7, <4>1 DEF LifeInv, SlotInv
      <4>3. p # NoObj
        BY <4>1, Places
      <4>4. slots'[obj[p].applayer_id][i] = p
        BY <2>2, <2>3, <2>7, <4>1, <4>2, <4>3
      <4> QED BY <4>1, <4>4
    <3> QED BY <3>1, <3>2
  <2>8. \A p \in Tabled' : obj'[p].name \in NetNames /\ obj'[p].tid = "run" => Bound(p)'
    BY <1>4, <1>5, <1>6, NamesDiffer DEF LifeInv, SlotInv, Bound
  <2> QED BY <2>5, <2>6, <2>7, <2>8 DEF SlotInv
<1>13. DiscInv'
  BY <1>3, <1>4, <1>5, <1>6 DEF LifeInv, DiscInv, Bound, Told, NoApp
<1> QED BY <1>6, <1>9, <1>10, <1>11, <1>12, <1>13 DEF LifeInv

(* A link that was not in the table is left alone; another is taken out of *)
(* it under its own name, and its memory is freed.                         *)
LEMMA DelLinkKeeps == TypeInv /\ LifeInv /\ DelLink => LifeInv'
<1> SUFFICES ASSUME TypeInv, LifeInv, DelLink PROVE LifeInv'
  OBVIOUS
<1> DEFINE o == Msg.link
           hits == Hits(sys_link_obj, obj, obj[o].name)
<1>1. MainRuns /\ Head(sys_event).evt_type = "SYS_DEL_LINK"
  BY DEF DelLink, MainTakes
<1>2. o \in Objs /\ Head(sys_event) = DelLinkEvt(o) /\ Waits(DelLinkEvt(o))
  BY <1>1, MainTook, CallKinds DEF Msg
<1>3. /\ sys_event' = Rest
      /\ UNCHANGED <<linkVars, booted, sys_app_obj, slots, app, faults, netVars>>
      /\ hits = {} => UNCHANGED <<sys_link_obj, obj>>
      /\ hits # {} => /\ sys_link_obj' = arraylist_remove(sys_link_obj, Min(hits))
                      /\ obj' = [obj EXCEPT ![o].mem = "freed"]
  BY DEF DelLink, Calls
<1> HIDE DEF o
<1>4. Live(o) /\ obj[o].name \in NetNames /\ (o \in Tabled => obj[o].tid = "deleted")
  BY <1>2 DEF LifeInv, CallInv
<1>5. \A p \in Tabled : p \in Objs /\ Live(p) /\ (obj[p].name = obj[o].name => p = o)
  BY <1>2, <1>4, Places DEF LifeInv, TableInv, NameInv
<1>6. CASE o \notin Tabled
  <2>1. hits = {}
    BY <1>5, <1>6 DEF Hits, Tabled, Listed, Iterated
  <2>2. UNCHANGED <<sys_link_obj, obj>>
    BY <1>3, <2>1
  <2>3. /\ MailInv' /\ BootInv' /\ AppInv' /\ NameInv'
        /\ Tabled' = Tabled /\ Tabled \subseteq Objs
        /\ \A n : Waits(CreateLinkEvt(n))' <=> Waits(CreateLinkEvt(n))
        /\ \A x : Waits(x)' <=> Waits(x) /\ x # DelLinkEvt(o)
        /\ \A r \in recvs : r.link \in Objs /\ (Attends(r)' <=> Attends(r)) /\ (Gone(r)' <=> Gone(r))
    BY <1>1, <1>2, <1>3, <2>2, LinkCalled
  <2>4. /\ \A a, p : Waits(BindEvt(a, p))' <=> Waits(BindEvt(a, p))
        /\ \A p : Waits(DelLinkEvt(p))' <=> Waits(DelLinkEvt(p)) /\ p # o
        /\ \A p : Waits(StartLinkEvt(p))' <=> Waits(StartLinkEvt(p))
    BY <2>3, CallParts
  <2>5. TableInv' /\ SlotInv' /\ DiscInv'
    BY <1>3, <2>2 DEF LifeInv, TableInv, SlotInv, DiscInv, Tabled, Live, Known, Bound, Told
  <2>6. \A r \in recvs : Attends(r) => r.link # o
    BY <1>6 DEF Attends
  <2>7. \A r \in recvs : (Starting(r) => Starting(r)') /\ (Looping(r) => Looping(r)')
    BY <1>3, <2>2, <2>3, <2>4 DEF Starting, Looping, Bound, Told
  <2>8. \A r \in recvs : Closing(r) => Closing(r)'
    BY <1>3, <2>2, <2>3, <2>4, <2>6 DEF Closing, Told
  <2>9. RecvInv'
    BY <1>3, <2>3, <2>7, <2>8 DEF LifeInv, RecvInv
  <2>10. CallInv'
    BY <2>2, <2>4 DEF LifeInv, CallInv, Tabled, Live
  <2> QED BY <2>3, <2>5, <2>9, <2>10 DEF LifeInv
<1>7. CASE o \in Tabled
  <2>1. hits # {} /\ Min(hits) \in 0 .. sys_link_obj.size - 1 /\ sys_link_obj.body[Min(hits)] = o
    BY <1>5, <1>7, FindsOwn, Places DEF Tabled
  <2>2. /\ \A x : x \in Tabled' <=> x \in Tabled /\ x # o
        /\ Once(sys_link_obj') /\ sys_link_obj'.size = sys_link_obj.size - 1
    <3>1. IsList(Objs, sys_link_obj) /\ Once(sys_link_obj)
      BY Places DEF LifeInv, TableInv
    <3>2. sys_link_obj' = arraylist_remove(sys_link_obj, Min(hits))
      BY <1>3, <2>1
    <3> HIDE DEF hits
    <3>3. /\ \A x : x \in Listed(sys_link_obj') <=> x \in Listed(sys_link_obj) /\ x # o
          /\ Once(sys_link_obj') /\ sys_link_obj'.size = sys_link_obj.size - 1
      BY <2>1, <3>1, <3>2, TabledRemove
    <3> QED BY <3>3 DEF Tabled
  <2>3. \A p \in Objs : /\ obj'[p].mem = (IF p = o THEN "freed" ELSE obj[p].mem)
                        /\ obj'[p].tid = obj[p].tid /\ obj'[p].write = obj[p].write
                        /\ obj'[p].applayer_id = obj[p].applayer_id /\ obj'[p].name = obj[p].name
    <3>1. obj' = [obj EXCEPT ![o].mem = "freed"]
      BY <1>3, <2>1
    <3> QED BY <3>1, Places DEF Links
  <2>4. \A p \in Objs : Live(p)' <=> Live(p) /\ p # o
    BY <2>3 DEF Live
  <2> HIDE DEF hits
  <2>5. /\ booted > 0 /\ Apart(obj, Rest) /\ Rest \in Seq(SysEvents)
        /\ Queued(sys_event') /\ ~Waits(CreateLinkEvt(Serial0))'
        /\ \A x : Waits(x)' <=> Waits(x) /\ x # DelLinkEvt(o)
        /\ \A i \in 1 .. Len(Rest) : Rest[i] \in SysEvents
    BY <1>1, <1>2, <1>3, MainTook DEF Waits
  <2>6. /\ \A n : Waits(CreateLinkEvt(n))' <=> Waits(CreateLinkEvt(n))
        /\ \A a : Waits(CreateAppEvt(a))' <=> Waits(CreateAppEvt(a))
        /\ \A a : Waits(StartAppEvt(a))' <=> Waits(StartAppEvt(a))
        /\ \A a, cb : Waits(SetCbEvt(a, cb))' <=> Waits(SetCbEvt(a, cb))
        /\ \A a, p : Waits(BindEvt(a, p))' <=> Waits(BindEvt(a, p))
        /\ \A p : Waits(StartLinkEvt(p))' <=> Waits(StartLinkEvt(p))
        /\ \A p : Waits(DelLinkEvt(p))' <=> Waits(DelLinkEvt(p)) /\ p # o
    BY <2>5, CallParts
  <2>7. MailInv'
    <3>1. \A i \in 1 .. Len(Rest) : OfLink(Rest[i]) /\ Rest[i].msg.link # NoObj => Rest[i].msg.link \in Objs
      BY <2>5, CallKinds, CallParts DEF OfLink
    <3>2. Apart(obj', Rest)
      BY <2>3, <2>5, <3>1, CallersStay
    <3> QED BY <1>3, <3>2 DEF MailInv
  <2>8. BootInv'
    <3>1. obj[o].name # Serial0
      BY <1>4, NamesDiffer
    <3>2. ~(booted < 3 \/ Waits(CreateAppEvt("iec104")))
      BY <1>2, <1>4, <3>1 DEF LifeInv, BootInv, NoNet
    <3>3. \E s \in Tabled : obj[s].name = Serial0
      <4>1. sys_link_obj.size # 0
        BY <1>7, Places, TabledItems DEF Tabled
      <4> QED BY <2>5, <4>1 DEF LifeInv, BootInv, Fresh
    <3>4. \E s \in Tabled' : obj'[s].name = Serial0
      BY <1>5, <2>2, <2>3, <3>1, <3>3
    <3>5. booted' = booted
      BY <1>3
    <3> QED BY <2>5, <2>6, <3>2, <3>4, <3>5 DEF BootInv
  <2>9. AppInv'
    BY <1>3, <2>6 DEF LifeInv, AppInv, Born, Known
  <2>10. NameInv'
    BY <1>3, <2>3, <2>4, <2>6 DEF LifeInv, NameInv, NoLive
  <2>11. TableInv'
    <3>1. Tabled \subseteq Objs
      BY Places
    <3> QED BY <1>3, <2>2, <2>3, <2>4, <3>1 DEF LifeInv, TableInv, Known
  <2>12. RecvInv'
    <3>1. /\ recvs' = recvs /\ (\A p : Told(p)' <=> Told(p)) /\ app' = app
          /\ \A r \in recvs : r.link \in Objs /\ r.name \in NetNames
      BY <1>3, <2>5, Places DEF LifeInv, RecvInv, Told
    <3>2. \A r \in recvs : Attends(r) /\ r.link # o => Attends(r)'
      BY <2>2, <2>3, <3>1 DEF Attends
    <3>3. \A r \in recvs : Gone(r) => Gone(r)'
      BY <2>3, <2>4, <2>6, <3>1 DEF Gone, NoLive
    <3>4. \A r \in recvs : Attends(r) /\ r.link = o => Gone(r)'
      <4> SUFFICES ASSUME NEW r \in recvs, Attends(r), r.link = o PROVE Gone(r)'
        OBVIOUS
      <4>1. obj[o].name = r.name /\ r.name \in Names
        BY <3>1, NamesDiffer DEF Attends
      <4>2. NoLive(r.name)'
        BY <1>2, <1>4, <2>3, <2>4, <4>1 DEF NoLive, LifeInv, NameInv
      <4>3. ~Waits(CreateLinkEvt(r.name))
        BY <1>2, <1>4, <4>1 DEF LifeInv, NameInv, NoLive
      <4> QED BY <1>2, <2>3, <2>6, <4>1, <4>2, <4>3 DEF Gone
    <3>5. \A r \in recvs : (Starting(r) => Starting(r)') /\ (Looping(r) => Looping(r)')
      BY <1>4, <1>7, <2>3, <2>6, <3>1, <3>2 DEF Starting, Looping, Bound
    <3>6. \A r \in recvs : Closing(r) => Closing(r)'
      BY <2>3, <2>5, <2>6, <3>1, <3>2, <3>3, <3>4 DEF Closing
    <3> QED BY <2>6, <3>1, <3>5, <3>6 DEF LifeInv, RecvInv
  <2>13. DiscInv'
    BY <1>3, <1>4, <1>7, <2>2, <2>3, Places DEF LifeInv, DiscInv, Bound, Told
  <2>14. CallInv'
    <3>1. obj[o].name # Serial0 /\ obj[o].tid = "deleted"
      BY <1>4, <1>7, NamesDiffer
    <3> QED BY <2>2, <2>3, <2>4, <2>6, <3>1 DEF LifeInv, CallInv
  <2>15. SlotInv'
    <3>1. /\ slots' = slots /\ obj[o].tid = "deleted" /\ Tabled \subseteq Objs
      BY <1>3, <1>4, <1>7, Places
    <3> QED BY <2>2, <2>3, <3>1 DEF LifeInv, SlotInv, Bound
  <2> QED BY <2>7, <2>8, <2>9, <2>10, <2>11, <2>12, <2>13, <2>14, <2>15 DEF LifeInv
<1> QED BY <1>6, <1>7
-----------------------------------------------------------------------------
(* What iec101_app_complete and iec104_app_complete leave in the mailbox.  *)
LEMMA PostQueued ==
  ASSUME NEW os, NEW mb \in Seq(SysEvents), Apart(os, mb), Queued(mb), NEW e \in SysEvents,
         e.evt_type \notin {"SYS_CREATE_LINK", "SYS_CREATE_APP"},
         Len(Post(mb, e)) < SysMb, \A x \in Held(mb) : Caller(os, x) # Caller(os, e)
  PROVE  LET new == Post(mb, e) IN
         /\ new \in Seq(SysEvents) /\ Apart(os, new) /\ Queued(new)
         /\ \A x : x \in Held(new) <=> x \in Held(mb) \/ x = e
<1>1. \A i \in 1 .. Len(mb) : Caller(os, mb[i]) # Caller(os, e)
  BY DEF Held
<1>2. /\ Post(mb, e) = Append(mb, e) /\ Post(mb, e) \in Seq(SysEvents) /\ Apart(os, Post(mb, e))
      /\ \A x : x \in Held(Post(mb, e)) <=> x \in Held(mb) \/ x = e
  BY <1>1, PostArrives
<1>3. e # CreateLinkEvt(Serial0) /\ e # CreateAppEvt("iec104")
  BY CallParts
<1>4. Queued(Append(mb, e))
  BY <1>3, QueuedPost
<1> QED BY <1>2, <1>4

AppCallers(a) == {Name("SYS_APP", a), Name("APP_CTRL_CMD", a), Name("APP_SYS_CMD", a)}
AppCalls(a)   == {StartAppEvt(a), SetCbEvt(a, "APP_CTRL_CMD"), SetCbEvt(a, "APP_SYS_CMD")}

LEMMA Completes ==
  ASSUME NEW os, NEW mb \in Seq(SysEvents), Apart(os, mb), Queued(mb), NEW a \in Apps,
         NEW apps, iec_sys_find_app(apps, a),
         Len(app_complete(mb, apps, a)) < SysMb,
         \A x \in Held(mb) : Caller(os, x) \notin AppCallers(a)
  PROVE  LET done == app_complete(mb, apps, a) IN
         /\ done \in Seq(SysEvents) /\ Apart(os, done) /\ Queued(done)
         /\ \A x : x \in Held(done) <=> x \in Held(mb) \/ x \in AppCalls(a)
<1> DEFINE e1 == StartAppEvt(a)
           e2 == SetCbEvt(a, "APP_CTRL_CMD")
           e3 == SetCbEvt(a, "APP_SYS_CMD")
           m1 == Post(mb, e1)
           m2 == Post(m1, e2)
           m3 == Post(m2, e3)
<1>1. app_complete(mb, apps, a) = m3
  BY DEF app_complete, iec_sys_api_start_app, iec_sys_api_app_set_cmd_cb
<1>2. "APP_CTRL_CMD" \in Callbacks /\ "APP_SYS_CMD" \in Callbacks
  BY DEF Callbacks
<1>3. /\ e1 \in SysEvents /\ e2 \in SysEvents /\ e3 \in SysEvents
      /\ e1.evt_type = "SYS_START" /\ e2.evt_type = "SYS_EDIT_PROFILE" /\ e3.evt_type = "SYS_EDIT_PROFILE"
  BY <1>2, EventTypes, CallParts
<1>4. /\ Caller(os, e1) = Name("SYS_APP", a) /\ Caller(os, e2) = Name("APP_CTRL_CMD", a)
      /\ Caller(os, e3) = Name("APP_SYS_CMD", a)
  BY <1>2, CallerOf
<1>5. /\ Name("SYS_APP", a) # Name("APP_CTRL_CMD", a) /\ Name("SYS_APP", a) # Name("APP_SYS_CMD", a)
      /\ Name("APP_CTRL_CMD", a) # Name("APP_SYS_CMD", a)
  BY DEF Name
<1>6. Len(m1) < SysMb /\ Len(m2) < SysMb /\ Len(m3) < SysMb
  <2>1. m1 \in Seq(SysEvents)
    BY <1>3, PostGrows
  <2>2. m2 \in Seq(SysEvents) /\ Len(m1) <= Len(m2)
    BY <1>3, <2>1, PostGrows
  <2>3. m3 \in Seq(SysEvents) /\ Len(m2) <= Len(m3)
    BY <1>3, <2>2, PostGrows
  <2>4. Len(m3) < SysMb
    BY <1>1
  <2> HIDE DEF m1, m2, m3
  <2> QED BY <2>1, <2>2, <2>3, <2>4
<1> HIDE DEF e1, e2, e3, m1, m2, m3
<1>7. /\ m1 \in Seq(SysEvents) /\ Apart(os, m1) /\ Queued(m1)
      /\ \A x : x \in Held(m1) <=> x \in Held(mb) \/ x = e1
  <2>1. \A x \in Held(mb) : Caller(os, x) # Caller(os, e1)
    BY <1>4 DEF AppCallers
  <2> QED BY <1>3, <1>6, <2>1, PostQueued DEF m1
<1>8. /\ m2 \in Seq(SysEvents) /\ Apart(os, m2) /\ Queued(m2)
      /\ \A x : x \in Held(m2) <=> x \in Held(m1) \/ x = e2
  <2>1. \A x \in Held(m1) : Caller(os, x) # Caller(os, e2)
    BY <1>4, <1>5, <1>7 DEF AppCallers
  <2> QED BY <1>3, <1>6, <1>7, <2>1, PostQueued DEF m2
<1>9. /\ m3 \in Seq(SysEvents) /\ Apart(os, m3) /\ Queued(m3)
      /\ \A x : x \in Held(m3) <=> x \in Held(m2) \/ x = e3
  <2>1. \A x \in Held(m2) : Caller(os, x) # Caller(os, e3)
    BY <1>4, <1>5, <1>7, <1>8 DEF AppCallers
  <2> QED BY <1>3, <1>6, <1>8, <2>1, PostQueued DEF m3
<1>10. \A x : x \in Held(m3) <=> x \in Held(mb) \/ x \in AppCalls(a)
  BY <1>7, <1>8, <1>9 DEF AppCalls, e1, e2, e3
<1> QED BY <1>1, <1>9, <1>10

LEMMA CreateAppKeeps == ASSUME TypeInv, TypeInv', LifeInv, CreateApp, ~astray' PROVE LifeInv'
<1> DEFINE a    == Msg.app
           apps == Append(sys_app_obj, a)
           done == app_complete(Rest, apps, a)
           both == iec_sys_api_app_bind_link(done, sys_link_obj, obj, apps, Serial0, a)
<1>1. MainRuns /\ Head(sys_event).evt_type = "SYS_CREATE_APP"
  BY DEF CreateApp, MainTakes
<1>2. a \in Apps /\ Head(sys_event) = CreateAppEvt(a) /\ Waits(CreateAppEvt(a))
  BY <1>1, MainTook, CallKinds DEF Msg
<1>3. /\ sys_app_obj' = apps /\ sys_event' = (IF a = "iec101" THEN both ELSE done)
      /\ Len(IF a = "iec101" THEN both ELSE done) < SysMb
      /\ UNCHANGED <<linkVars, booted, sys_link_obj, slots, app, heapVars, netVars>>
  BY RoomLeft DEF CreateApp
<1> HIDE DEF a
<1>4. /\ booted > 0 /\ Apart(obj, Rest) /\ Rest \in Seq(SysEvents)
      /\ Queued(Rest) /\ CreateLinkEvt(Serial0) \notin Held(Rest)
      /\ \A x : x \in Held(Rest) <=> Waits(x) /\ x # CreateAppEvt(a)
      /\ \A x \in Held(Rest) : x \in SysEvents /\ Caller(obj, x) # Name("SYS_APP", a)
  <2>1. Caller(obj, CreateAppEvt(a)) = Name("SYS_APP", a)
    BY <1>2, CallerOf
  <2> QED BY <1>1, <1>2, <2>1, MainTook DEF Held
<1>5. /\ \A b : iec_sys_find_app(apps, b) <=> iec_sys_find_app(sys_app_obj, b) \/ b = a
      /\ ~Known(a)
  <2>1. sys_app_obj \in Seq(Apps) /\ Len(sys_app_obj) \in Nat
    BY DEF TypeInv, TypeOK, TableType
  <2>2. /\ DOMAIN apps = 1 .. Len(sys_app_obj) + 1 /\ DOMAIN sys_app_obj = 1 .. Len(sys_app_obj)
        /\ apps[Len(sys_app_obj) + 1] = a
        /\ \A i \in 1 .. Len(sys_app_obj) : apps[i] = sys_app_obj[i]
    BY <1>2, <2>1
  <2> HIDE DEF apps
  <2>3. \A i \in DOMAIN apps : i \in DOMAIN sys_app_obj \/ i = Len(sys_app_obj) + 1
    BY <2>1, <2>2
  <2>4. Len(sys_app_obj) + 1 \in DOMAIN apps /\ \A i \in DOMAIN sys_app_obj : i \in DOMAIN apps
    BY <2>1, <2>2
  <2>5. \A b : iec_sys_find_app(apps, b) <=> iec_sys_find_app(sys_app_obj, b) \/ b = a
    BY <2>2, <2>3, <2>4 DEF iec_sys_find_app
  <2> QED BY <1>2, <2>5 DEF LifeInv, AppInv
<1>6. /\ ~Waits(StartAppEvt(a)) /\ \A cb \in Callbacks : ~Waits(SetCbEvt(a, cb))
      /\ \A o \in Objs : ~Waits(BindEvt(a, o))
  BY <1>2, <1>5 DEF LifeInv, AppInv
<1> HIDE DEF apps
<1>7. /\ done \in Seq(SysEvents) /\ Apart(obj, done) /\ Queued(done)
      /\ \A x : x \in Held(done) <=> x \in Held(Rest) \/ x \in AppCalls(a)
  <2>1. "APP_CTRL_CMD" \in Callbacks /\ "APP_SYS_CMD" \in Callbacks
    BY DEF Callbacks
  <2>2. \A x \in Held(Rest) : Caller(obj, x) \notin AppCallers(a)
    BY <1>2, <1>4, <1>6, <2>1, WhoCalls DEF AppCallers
  <2>3. Len(done) < SysMb
    <3>1. CASE a # "iec101"
      BY <1>3, <3>1
    <3>2. CASE a = "iec101"
      <4>1. Len(both) < SysMb
        BY <1>3, <3>2
      <4>2. done \in Seq(SysEvents) /\ Len(done) \in Nat
        <5>1. /\ StartAppEvt(a) \in SysEvents /\ SetCbEvt(a, "APP_CTRL_CMD") \in SysEvents
              /\ SetCbEvt(a, "APP_SYS_CMD") \in SysEvents
          BY <1>2, <2>1, EventTypes
        <5> QED BY <1>4, <1>5, <5>1, PostGrows
             DEF done, app_complete, iec_sys_api_start_app, iec_sys_api_app_set_cmd_cb
      <4> HIDE DEF done
      <4>3. CASE both = done
        BY <4>1, <4>3
      <4>4. CASE both # done
        <5> DEFINE s == iec_sys_find_link(sys_link_obj, obj, Serial0)
        <5>1. s # NoObj /\ both = Post(done, BindEvt(a, s))
          BY <1>5, <4>4 DEF iec_sys_api_app_bind_link
        <5>2. BindEvt(a, s) \in SysEvents
          BY <1>2, <5>1, EventTypes, FindsLink, Places
        <5> HIDE DEF both
        <5>3. Len(done) <= Len(both) /\ Len(both) \in Nat
          BY <4>2, <5>1, <5>2, PostGrows
        <5> QED BY <4>1, <4>2, <5>3
      <4> QED BY <4>3, <4>4
    <3> QED BY <3>1, <3>2
  <2> QED BY <1>2, <1>4, <1>5, <2>2, <2>3, Completes
<1> HIDE DEF done
<1>8. /\ Apart(obj, sys_event') /\ Queued(sys_event')
      /\ \A x : Waits(x)' => \/ Waits(x) /\ x # CreateAppEvt(a)
                             \/ x \in AppCalls(a)
                             \/ \E s \in Tabled : /\ a = "iec101" /\ obj[s].name = Serial0
                                                  /\ x = BindEvt("iec101", s)
      /\ \A x : (Waits(x) /\ x # CreateAppEvt(a)) \/ x \in AppCalls(a) => Waits(x)'
  <2>1. CASE sys_event' = done
    BY <1>4, <1>7, <2>1 DEF Waits
  <2>2. CASE a = "iec101" /\ sys_event' # done
    <3> DEFINE s == iec_sys_find_link(sys_link_obj, obj, Serial0)
    <3>1. s # NoObj /\ sys_event' = Post(done, BindEvt(a, s))
      BY <1>3, <1>5, <2>2 DEF iec_sys_api_app_bind_link
    <3>2. s \in Tabled /\ obj[s].name = Serial0 /\ s \in Objs
      <4> DEFINE hits == Hits(sys_link_obj, obj, Serial0)
      <4>1. hits # {} /\ s = sys_link_obj.body[Min(hits)]
        BY <3>1 DEF iec_sys_find_link, arraylist_get
      <4>2. hits \subseteq Nat /\ hits \subseteq 0 .. sys_link_obj.size - 1
            /\ \A i \in hits : obj[sys_link_obj.body[i]].name = Serial0
        BY Places DEF Hits
      <4> HIDE DEF hits, s
      <4>3. Min(hits) \in hits
        BY <4>1, <4>2, MinIsLeast
      <4> QED BY <4>1, <4>2, <4>3, Places DEF Tabled, Listed, Iterated
    <3> HIDE DEF s
    <3> DEFINE e == BindEvt("iec101", s)
    <3>3. /\ e \in SysEvents /\ e.evt_type = "SYS_EDIT_PROFILE"
          /\ Caller(obj, e) = Name("SYS_BIND", "iec101") /\ Len(Post(done, e)) < SysMb
      BY <1>2, <1>3, <2>2, <3>1, <3>2, EventTypes, CallParts, CallerOf
    <3>4. \A x \in Held(done) : Caller(obj, x) # Caller(obj, e)
      <4>1. \A x \in Held(Rest) : Caller(obj, x) # Name("SYS_BIND", "iec101")
        BY <1>4, <1>6, <2>2, WhoCalls
      <4>2. \A x \in AppCalls(a) : Caller(obj, x) \in AppCallers(a)
        BY <1>2, CallerOf DEF AppCalls, AppCallers, Callbacks
      <4>3. Name("SYS_BIND", "iec101") \notin AppCallers(a)
        BY DEF AppCallers, Name
      <4> QED BY <1>7, <3>3, <4>1, <4>2, <4>3
    <3>5. /\ Apart(obj, Post(done, e)) /\ Queued(Post(done, e))
          /\ \A x : x \in Held(Post(done, e)) <=> x \in Held(done) \/ x = e
      <4> HIDE DEF e
      <4> QED BY <1>7, <3>3, <3>4, PostQueued
    <3> QED BY <1>4, <1>7, <2>2, <3>1, <3>2, <3>5 DEF Waits
  <2> QED BY <1>3, <2>1, <2>2
<1>9. /\ \A n : Waits(CreateLinkEvt(n))' <=> Waits(CreateLinkEvt(n))
      /\ \A b : Waits(CreateAppEvt(b))' <=> Waits(CreateAppEvt(b)) /\ b # a
      /\ \A b : Waits(StartAppEvt(b))' <=> Waits(StartAppEvt(b)) \/ b = a
      /\ \A b : \A cb \in Callbacks : Waits(SetCbEvt(b, cb))' <=> Waits(SetCbEvt(b, cb)) \/ b = a
      /\ \A b, o : Waits(BindEvt(b, o))' =>
           \/ Waits(BindEvt(b, o))
           \/ b = a /\ b = "iec101" /\ o \in Tabled /\ obj[o].name = Serial0
      /\ \A o : Waits(StartLinkEvt(o))' <=> Waits(StartLinkEvt(o))
      /\ \A o : Waits(DelLinkEvt(o))' <=> Waits(DelLinkEvt(o))
  <2>1. /\ StartAppEvt(a) \in AppCalls(a) /\ \A cb \in Callbacks : SetCbEvt(a, cb) \in AppCalls(a)
        /\ \A x \in AppCalls(a) : x = StartAppEvt(a) \/ \E cb \in Callbacks : x = SetCbEvt(a, cb)
    BY DEF AppCalls, Callbacks
  <2>2. \A cb \in Callbacks : cb # "SYS_BIND"
    BY DEF Callbacks
  <2>3. \A n : Waits(CreateLinkEvt(n))' <=> Waits(CreateLinkEvt(n))
    BY <1>8, <2>1, CallParts
  <2>4. \A b : Waits(CreateAppEvt(b))' <=> Waits(CreateAppEvt(b)) /\ b # a
    BY <1>8, <2>1, CallParts
  <2>5. \A b : Waits(StartAppEvt(b))' <=> Waits(StartAppEvt(b)) \/ b = a
    BY <1>8, <2>1, CallParts
  <2>6. \A b : \A cb \in Callbacks : Waits(SetCbEvt(b, cb))' <=> Waits(SetCbEvt(b, cb)) \/ b = a
    BY <1>8, <2>1, <2>2, CallParts
  <2>7. \A b, o : Waits(BindEvt(b, o))' =>
           \/ Waits(BindEvt(b, o))
           \/ b = a /\ b = "iec101" /\ o \in Tabled /\ obj[o].name = Serial0
    BY <1>8, <2>1, <2>2, CallParts
  <2>8. /\ \A o : Waits(StartLinkEvt(o))' <=> Waits(StartLinkEvt(o))
        /\ \A o : Waits(DelLinkEvt(o))' <=> Waits(DelLinkEvt(o))
    BY <1>8, <2>1, CallParts
  <2> QED BY <2>3, <2>4, <2>5, <2>6, <2>7, <2>8
<1>10. Tabled' = Tabled /\ Tabled \subseteq Objs /\ \A b : Known(b)' <=> Known(b) \/ b = a
  BY <1>3, <1>5, Places DEF Tabled, Known
<1>11. BootInv'
  BY <1>3, <1>4, <1>8, <1>9, <1>10 DEF LifeInv, BootInv, Fresh, NoNet, Live
<1>12. AppInv'
  <2>1. \A b \in Apps : (Born(b)' <=> Born(b)) /\ app' = app
    BY <1>3 DEF Born
  <2> QED BY <1>2, <1>9, <1>10, <2>1 DEF LifeInv, AppInv
<1>13. NameInv'
  BY <1>3, <1>9 DEF LifeInv, NameInv, NoLive, Live
<1>14. TableInv'
  BY <1>3, <1>10 DEF LifeInv, TableInv, Live
<1>15. RecvInv'
  <2>1. "iec104" \in Apps
    BY DEF Apps
  <2>2. \A r \in recvs : Waits(BindEvt("iec104", r.link)) => Waits(BindEvt("iec104", r.link))'
    <3>1. \A o : BindEvt("iec104", o) # CreateAppEvt(a)
      BY CallParts
    <3> QED BY <1>8, <3>1
  <2>3. \A r \in recvs : /\ Starting(r) => Starting(r)'
                         /\ Looping(r) => Looping(r)'
                         /\ Closing(r) => Closing(r)'
    BY <1>3, <1>9, <1>10, <2>2 DEF Starting, Looping, Closing, Gone, NoLive, Attends, Live, Bound, Told
  <2> QED BY <1>3, <1>9, <2>3 DEF LifeInv, RecvInv
<1>16. DiscInv'
  BY <1>3, <1>10 DEF LifeInv, DiscInv, Bound, Told
<1>17. ASSUME NEW s \in Tabled, obj[s].name = Serial0, a = "iec101"
       PROVE  obj[s].applayer_id = NoApp /\ obj[s].tid # "deleted"
  <2>1. s \in Objs /\ Live(s) /\ obj[s].tid # "deleted" /\ obj[s].applayer_id \in Apps \cup {NoApp}
    BY <1>17, Places DEF LifeInv, TableInv, Links
  <2>2. ASSUME obj[s].applayer_id # NoApp PROVE FALSE
    <3>1. obj[s].applayer_id \in Apps /\ Known(obj[s].applayer_id)
      BY <2>1, <2>2 DEF LifeInv, TableInv
    <3>2. PICK i \in 1 .. CFG_LINK_MAX : slots[obj[s].applayer_id][i] = s
      BY <2>1, <3>1 DEF LifeInv, SlotInv
    <3>3. obj[s].applayer_id # "iec104"
      BY <1>17, <2>1, <3>1, <3>2, Places DEF LifeInv, SlotInv
    <3> QED BY <1>5, <1>17, <3>1, <3>3 DEF Apps
  <2> QED BY <2>1, <2>2
<1>18. CallInv'
  BY <1>3, <1>9, <1>10, <1>17 DEF LifeInv, CallInv, Live
<1>19. SlotInv'
  BY <1>3, <1>10 DEF LifeInv, SlotInv, Bound
<1> QED BY <1>3, <1>8, <1>11, <1>12, <1>13, <1>14, <1>15, <1>16, <1>18, <1>19 DEF LifeInv, MailInv
-----------------------------------------------------------------------------
(* A connection the main thread is to make a link for is new to everybody, *)
(* and the application it will be bound to is there.                       *)
LEMMA CalledFor ==
  ASSUME TypeInv, LifeInv, MainRuns, NEW name, Head(sys_event) = CreateLinkEvt(name),
         NEW o \in Objs, ~Live(o)
  PROVE  /\ name \in LinkNames /\ name \in Names /\ NoLive(name) /\ Waits(CreateLinkEvt(name))
         /\ name = Serial0 => Fresh
         /\ name # Serial0 =>
              /\ name \in NetNames /\ booted = 3 /\ Known("iec104") /\ ~Waits(CreateAppEvt("iec104"))
              /\ ~Waits(CreateLinkEvt(Serial0))
         /\ o \notin Tabled
         /\ \A r \in recvs : r.name # name
         /\ \A x : Waits(x) /\ OfLink(x) /\ x.msg.link # NoObj => x.msg.link \in Objs /\ x.msg.link # o
<1>1. /\ booted > 0 /\ Waits(CreateLinkEvt(name)) /\ CreateLinkEvt(name) \in SysEvents
      /\ CreateLinkEvt(Serial0) \notin Held(Rest)
      /\ name \in NetNames => ~Waits(CreateAppEvt("iec104"))
      /\ \A x : x \in Held(Rest) <=> Waits(x) /\ x # CreateLinkEvt(name)
  BY MainTook
<1>2. name \in Names
  <2>1. CreateLinkEvt(name).evt_type = "SYS_CREATE_LINK" /\ CreateLinkEvt(name).msg.name = name
    BY CallParts
  <2> QED BY <1>1, <2>1, CallKinds
<1>3. name \in LinkNames /\ NoLive(name)
  BY <1>1, <1>2 DEF LifeInv, NameInv
<1>4. name = Serial0 => Fresh
  BY <1>1 DEF LifeInv, BootInv
<1>5. name # Serial0 => /\ name \in NetNames /\ booted = 3 /\ Known("iec104")
                        /\ ~Waits(CreateAppEvt("iec104")) /\ ~Waits(CreateLinkEvt(Serial0))
  <2> SUFFICES ASSUME name # Serial0
               PROVE  /\ name \in NetNames /\ booted = 3 /\ Known("iec104")
                      /\ ~Waits(CreateAppEvt("iec104")) /\ ~Waits(CreateLinkEvt(Serial0))
    OBVIOUS
  <2>1. name \in NetNames
    BY <1>3 DEF LinkNames
  <2>2. booted = 3
    BY <1>1, <2>1, Places DEF LifeInv, BootInv
  <2>3. CreateLinkEvt(name) # CreateLinkEvt(Serial0)
    <3>1. CreateLinkEvt(name).msg.name = name /\ CreateLinkEvt(Serial0).msg.name = Serial0
      BY CallParts
    <3> QED BY <3>1
  <2>4. Known("iec104")
    BY <1>1, <2>1, <2>2 DEF LifeInv, AppInv, Born, Apps
  <2> QED BY <1>1, <2>1, <2>2, <2>3, <2>4
<1>6. \A p \in Tabled : Live(p) /\ p # o /\ obj[p].name # name
  BY <1>3, Places DEF LifeInv, TableInv, NoLive
<1>7. \A r \in recvs : r.name # name
  <2> SUFFICES ASSUME NEW r \in recvs, r.name = name PROVE FALSE
    OBVIOUS
  <2>1. ~Attends(r) /\ ~Gone(r)
    BY <1>1, <1>6 DEF Attends, Gone
  <2> QED BY <2>1, Places DEF LifeInv, RecvInv, Starting, Looping, Closing
<1>8. ASSUME NEW x, Waits(x), OfLink(x), x.msg.link # NoObj
      PROVE  x.msg.link \in Objs /\ x.msg.link # o
  <2>1. x \in SysEvents
    BY <1>8, Places
  <2>2. \E p \in Objs : x.msg.link = p /\ x \in {StartLinkEvt(p), DelLinkEvt(p), BindEvt("iec104", p)}
    BY <1>8, <2>1, CallKinds, CallParts DEF OfLink
  <2>3. PICK p \in Objs : x.msg.link = p /\ x \in {StartLinkEvt(p), DelLinkEvt(p), BindEvt("iec104", p)}
    BY <2>2
  <2>4. Live(p)
    BY <1>8, <2>3, <1>6 DEF LifeInv, CallInv, Apps
  <2> QED BY <2>3, <2>4
<1> QED BY <1>1, <1>2, <1>3, <1>4, <1>5, <1>6, <1>7, <1>8

LEMMA LinkMade ==
  ASSUME TypeInv, LifeInv, MainRuns, NEW name, Head(sys_event) = CreateLinkEvt(name),
         NEW o \in Objs, ~Live(o), \A p \in Objs : p # o => obj'[p] = obj[p],
         obj'[o].mem = "live", obj'[o].name = name, obj'[o].applayer_id = NoApp, obj'[o].tid = "none",
         NEW e \in {StartLinkEvt(o), DelLinkEvt(o), BindEvt("iec104", o)}, sys_event' = Post(Rest, e),
         Len(Post(Rest, e)) < SysMb,
         \A x : x \in Tabled' => x \in Tabled \/ x = o, Tabled \subseteq Tabled',
         recvs \subseteq recvs', recvs' \subseteq recvs \cup {[link |-> o, pc |-> "start", name |-> name]},
         name = Serial0 => o \in Tabled' /\ recvs' = recvs /\ e = StartLinkEvt(o),
         UNCHANGED <<linkVars, booted, sys_app_obj, app, sock>>
  PROVE  /\ MailInv' /\ BootInv' /\ AppInv' /\ NameInv' /\ DiscInv'
         /\ \A x : Waits(x)' <=> (Waits(x) /\ x # CreateLinkEvt(name)) \/ x = e
         /\ \A r \in recvs : /\ Attends(r) => Attends(r)' /\ r.link # o
                             /\ Gone(r) => Gone(r)'
<1>1. /\ name \in LinkNames /\ name \in Names /\ NoLive(name) /\ Waits(CreateLinkEvt(name))
      /\ name = Serial0 => Fresh
      /\ name # Serial0 =>
           /\ name \in NetNames /\ booted = 3 /\ Known("iec104") /\ ~Waits(CreateAppEvt("iec104"))
           /\ ~Waits(CreateLinkEvt(Serial0))
      /\ o \notin Tabled
      /\ \A r \in recvs : r.name # name
      /\ \A x : Waits(x) /\ OfLink(x) /\ x.msg.link # NoObj => x.msg.link \in Objs /\ x.msg.link # o
  BY CalledFor
<1>2. /\ Rest \in Seq(SysEvents) /\ Apart(obj, Rest) /\ Queued(Rest)
      /\ CreateLinkEvt(Serial0) \notin Held(Rest) /\ booted > 0
      /\ \A x : x \in Held(Rest) <=> Waits(x) /\ x # CreateLinkEvt(name)
      /\ \A i \in 1 .. Len(Rest) : Rest[i] \in Held(Rest)
      /\ \A i \in 1 .. Len(Rest) : Caller(obj, Rest[i]) # LinkCaller(name)
  <2>1. Caller(obj, CreateLinkEvt(name)) = LinkCaller(name)
    BY CallerOf
  <2> QED BY <2>1, MainTook
<1>3. /\ Apart(obj', Rest)
      /\ \A i \in 1 .. Len(Rest) : Caller(obj', Rest[i]) = Caller(obj, Rest[i])
  <2>1. \A i \in 1 .. Len(Rest) : OfLink(Rest[i]) /\ Rest[i].msg.link # NoObj =>
          obj'[Rest[i].msg.link].name = obj[Rest[i].msg.link].name
    BY <1>1, <1>2
  <2>2. Rest \in Seq(SysEvents) /\ Apart(obj, Rest)
    BY <1>2
  <2>3. Apart(obj', Rest)
    BY <2>1, <2>2, CallersStay, SMTT(60)
  <2>4. \A i \in 1 .. Len(Rest) : Caller(obj', Rest[i]) = Caller(obj, Rest[i])
    BY <2>1 DEF Caller, Subject
  <2> QED BY <2>3, <2>4
<1>4. /\ e \in SysEvents /\ Caller(obj', e) = LinkCaller(name)
      /\ e.evt_type \notin {"SYS_CREATE_LINK", "SYS_CREATE_APP"}
  <2>1. Caller(obj', e) = LinkCaller(obj'[o].name)
    BY CallerOf
  <2>2. e \in SysEvents /\ e.evt_type \notin {"SYS_CREATE_LINK", "SYS_CREATE_APP"}
    BY EventTypes, CallParts DEF Apps
  <2> QED BY <2>1, <2>2
<1>5. /\ Apart(obj', sys_event') /\ Queued(sys_event')
      /\ \A x : Waits(x)' <=> x \in Held(Rest) \/ x = e
  <2>1. \A x \in Held(Rest) : Caller(obj', x) # Caller(obj', e)
    BY <1>2, <1>3, <1>4 DEF Held
  <2> QED BY <1>2, <1>3, <1>4, <2>1, PostQueued DEF Waits
<1>6. \A x : Waits(x)' <=> (Waits(x) /\ x # CreateLinkEvt(name)) \/ x = e
  BY <1>2, <1>5
<1>7. /\ \A n : Waits(CreateLinkEvt(n))' <=> Waits(CreateLinkEvt(n)) /\ n # name
      /\ \A a : Waits(CreateAppEvt(a))' <=> Waits(CreateAppEvt(a))
      /\ \A a : Waits(StartAppEvt(a))' <=> Waits(StartAppEvt(a))
      /\ \A a : \A cb \in Callbacks : Waits(SetCbEvt(a, cb))' <=> Waits(SetCbEvt(a, cb))
      /\ \A a, p : Waits(BindEvt(a, p))' =>
           Waits(BindEvt(a, p)) \/ (a = "iec104" /\ e = BindEvt("iec104", o))
  <2>1. \A n : Waits(CreateLinkEvt(n))' <=> Waits(CreateLinkEvt(n)) /\ n # name
    BY <1>6, CallParts
  <2>2. /\ \A a : Waits(CreateAppEvt(a))' <=> Waits(CreateAppEvt(a))
        /\ \A a : Waits(StartAppEvt(a))' <=> Waits(StartAppEvt(a))
    BY <1>6, CallParts
  <2>3. \A a : \A cb \in Callbacks : Waits(SetCbEvt(a, cb))' <=> Waits(SetCbEvt(a, cb))
    <3>1. \A cb \in Callbacks : cb # "SYS_BIND"
      BY DEF Callbacks
    <3> QED BY <1>6, <3>1, CallParts
  <2>4. \A a, p : Waits(BindEvt(a, p))' =>
           Waits(BindEvt(a, p)) \/ (a = "iec104" /\ e = BindEvt("iec104", o))
    <3>1. /\ \A a, p : BindEvt(a, p).evt_sub_type = "SYS_BIND" /\ BindEvt(a, p).msg.app = a
          /\ StartLinkEvt(o).evt_sub_type = "SYS_LINK_SERIAL" /\ DelLinkEvt(o).evt_sub_type = "none"
      BY CallParts
    <3>2. \A a, p : BindEvt(a, p) = e => a = "iec104" /\ e = BindEvt("iec104", o)
      BY <3>1
    <3> TAKE a, p
    <3>3. Waits(BindEvt(a, p))' => Waits(BindEvt(a, p)) \/ BindEvt(a, p) = e
      BY <1>6, Zenon
    <3> QED BY <3>2, <3>3
  <2> QED BY <2>1, <2>2, <2>3, <2>4
<1>8. Live(o)' /\ \A p \in Objs : p # o => (Live(p)' <=> Live(p))
  BY DEF Live
<1>9. BootInv'
  <2>1. ~Waits(CreateLinkEvt(Serial0))'
    BY <1>1, <1>7
  <2>2. CASE name = Serial0
    <3>1. NoNet'
      BY <1>1, <1>8, <2>2 DEF Fresh, NoNet
    <3>2. \E p \in Tabled' : obj'[p].name = Serial0
      BY <2>2
    <3> QED BY <1>2, <1>5, <1>7, <2>1, <3>1, <3>2 DEF LifeInv, BootInv
  <2>3. CASE name # Serial0
    <3>1. PICK p \in Tabled : obj[p].name = Serial0
      BY <1>1, <1>2, <2>3 DEF LifeInv, BootInv
    <3>2. p \in Tabled' /\ obj'[p].name = Serial0
      BY <1>1, <3>1, Places
    <3> QED BY <1>1, <1>2, <1>5, <1>7, <2>1, <2>3, <3>2 DEF BootInv
  <2> QED BY <2>2, <2>3
<1>10. AppInv'
  <2>1. \A a \in Apps : (Born(a)' <=> Born(a)) /\ (Known(a)' <=> Known(a)) /\ app' = app
    BY DEF Born, Known
  <2>2. e = BindEvt("iec104", o) => Known("iec104")
    <3>1. BindEvt("iec104", o) # StartLinkEvt(o)
      BY CallParts
    <3> QED BY <1>1, <3>1
  <2> QED BY <1>7, <2>1, <2>2 DEF LifeInv, AppInv
<1>11. NameInv'
  <2>1. \A p \in Objs : p # o => obj'[p].name = obj[p].name
    OBVIOUS
  <2>2. \A n : NoLive(n) /\ n # name => NoLive(n)'
    BY <1>8, <2>1 DEF NoLive
  <2>3. \A r \in recvs' : r \in recvs \/ r.name = name
    OBVIOUS
  <2>4. \A s \in HwSocks : sock[s] = "free" => name # Name("wh", s)
    BY <1>1 DEF LifeInv, NameInv
  <2>5. \A p \in Objs : Live(p)' => obj'[p].name \in LinkNames
    BY <1>1, <1>8, <2>1 DEF LifeInv, NameInv
  <2>6. \A p, q \in Objs : Live(p)' /\ Live(q)' /\ obj'[p].name = obj'[q].name => p = q
    BY <1>1, <1>8, <2>1 DEF LifeInv, NameInv, NoLive
  <2>7. \A n \in Names : Waits(CreateLinkEvt(n))' => n \in LinkNames /\ NoLive(n)'
    BY <1>7, <2>2 DEF LifeInv, NameInv
  <2>8. \A s \in HwSocks : sock'[s] = "free" =>
          ~Waits(CreateLinkEvt(Name("wh", s)))' /\ \A r \in recvs' : r.name # Name("wh", s)
    BY <1>7, <2>3, <2>4 DEF LifeInv, NameInv
  <2> QED BY <2>5, <2>6, <2>7, <2>8 DEF NameInv
<1>12. DiscInv'
  BY <1>1, Places DEF LifeInv, DiscInv, Bound, Told
<1>13. \A r \in recvs : Attends(r) => Attends(r)' /\ r.link # o
  BY <1>1, Places DEF Attends
<1>14. ASSUME NEW r \in recvs, Gone(r) PROVE Gone(r)'
  <2>1. r.name # name
    BY <1>1
  <2> QED BY <1>7, <1>8, <1>14, <2>1 DEF Gone, NoLive
<1> QED BY <1>5, <1>6, <1>9, <1>10, <1>11, <1>12, <1>13, <1>14 DEF MailInv

(* The whole of LifeInv after a link was made and listed. *)
LEMMA CreateLinkKeeps ==
  ASSUME TypeInv, TypeInv', LifeInv, NEW o \in Objs, CreateLink(o), ~astray' PROVE LifeInv'
<1> DEFINE name == Msg.name
           list == arraylist_add(sys_link_obj, o)
           made == [obj EXCEPT ![o] = Created(name)]
           new  == [link |-> o, pc |-> "start", name |-> name]
<1>1. MainRuns /\ Head(sys_event).evt_type = "SYS_CREATE_LINK" /\ ~Live(o)
  BY DEF CreateLink, MainTakes, Cells, Live
<1>2. Head(sys_event) = CreateLinkEvt(name)
  BY <1>1, MainTook, CallKinds DEF Msg
<1>3. /\ sys_link_obj' = list
      /\ UNCHANGED <<linkVars, booted, sys_app_obj, slots, app, faults, sock>>
      /\ Len(sys_event') < SysMb
      /\ name = Serial0 =>
           /\ obj' = [made EXCEPT ![o].write = TRUE]
           /\ sys_event' = iec_sys_api_start_link(Rest, list, made, name)
           /\ recvs' = recvs
      /\ name # Serial0 =>
           /\ obj' = made
           /\ sys_event' = iec_sys_api_app_bind_link(Rest, list, made, sys_app_obj, name, "iec104")
           /\ recvs' = recvs \cup {new}
  BY RoomLeft DEF CreateLink
<1>4. made[o] = Created(name) /\ \A p \in Objs : p # o => made[p] = obj[p]
  BY Places
<1> DEFINE made1 == [made EXCEPT ![o].write = TRUE]
<1>5. /\ \A p \in Objs : p # o => obj'[p] = obj[p]
      /\ obj'[o].mem = "live" /\ obj'[o].name = name /\ obj'[o].applayer_id = NoApp
      /\ obj'[o].tid = "none"
  <2>1. made \in [Objs -> Links \cup {Created(name)}]
    BY Places
  <2>2. made1[o] = [Created(name) EXCEPT !.write = TRUE] /\ \A p \in Objs : p # o => made1[p] = made[p]
    BY <1>4, <2>1
  <2>3. /\ Created(name).mem = "live" /\ Created(name).name = name
        /\ Created(name).applayer_id = NoApp /\ Created(name).tid = "none"
    BY DEF Created, NoLink
  <2> HIDE DEF made, made1, name
  <2>4. CASE name = Serial0
    <3>1. obj' = made1
      BY <1>3, <2>4 DEF made1
    <3>2. LET l == [Created(name) EXCEPT !.write = TRUE] IN
          l.mem = "live" /\ l.name = name /\ l.applayer_id = NoApp /\ l.tid = "none"
      BY DEF Created, NoLink
    <3> QED BY <1>4, <2>2, <3>1, <3>2
  <2>5. CASE name # Serial0
    BY <1>3, <1>4, <2>3, <2>5
  <2> QED BY <2>4, <2>5
<1> HIDE DEF name, made, made1
<1>6. /\ name \in LinkNames /\ name \in Names /\ NoLive(name) /\ Waits(CreateLinkEvt(name))
      /\ name = Serial0 => Fresh
      /\ name # Serial0 =>
           /\ name \in NetNames /\ booted = 3 /\ Known("iec104") /\ ~Waits(CreateAppEvt("iec104"))
           /\ ~Waits(CreateLinkEvt(Serial0))
      /\ o \notin Tabled
      /\ \A r \in recvs : r.name # name
      /\ \A x : Waits(x) /\ OfLink(x) /\ x.msg.link # NoObj => x.msg.link \in Objs /\ x.msg.link # o
  BY <1>1, <1>2, CalledFor
<1>7. /\ \A x : x \in Listed(list) <=> x \in Tabled \/ x = o
      /\ Once(list) /\ IsList(Objs, list)
  BY <1>6, TabledAdd, Places DEF LifeInv, TableInv, Tabled
<1> HIDE DEF list
<1>8. Once(sys_link_obj') /\ \A x : x \in Tabled' <=> x \in Tabled \/ x = o
  BY <1>3, <1>7 DEF Tabled
<1>9. iec_sys_find_link(list, made, name) = o /\ o # NoObj
  <2>1. made[o].name = name
    BY <1>4 DEF Created
  <2>2. \A p \in Listed(list) : made[p].name = made[o].name => p = o
    BY <1>4, <1>6, <1>7, <2>1, Places DEF NoLive, LifeInv, TableInv
  <2>3. o \in Listed(list)
    BY <1>7
  <2>4. iec_sys_find_link(list, made, made[o].name) = o
    BY <1>7, <2>2, <2>3, FindsOwn
  <2> QED BY <2>1, <2>4, Places
<1> DEFINE e == IF name = Serial0 THEN StartLinkEvt(o) ELSE BindEvt("iec104", o)
<1>10. sys_event' = Post(Rest, e) /\ Len(Post(Rest, e)) < SysMb
  BY <1>3, <1>6, <1>9 DEF iec_sys_api_start_link, iec_sys_api_app_bind_link, Known
<1>11. e \in {StartLinkEvt(o), DelLinkEvt(o), BindEvt("iec104", o)} /\ (name = Serial0 => e = StartLinkEvt(o))
  OBVIOUS
<1> HIDE DEF e
<1>12. /\ MailInv' /\ BootInv' /\ AppInv' /\ NameInv' /\ DiscInv'
       /\ \A x : Waits(x)' <=> (Waits(x) /\ x # CreateLinkEvt(name)) \/ x = e
       /\ \A r \in recvs : /\ Attends(r) => Attends(r)' /\ r.link # o
                           /\ Gone(r) => Gone(r)'
  <2>1. UNCHANGED <<linkVars, booted, sys_app_obj, app, sock>>
    BY <1>3
  <2>2. /\ recvs \subseteq recvs' /\ recvs' \subseteq recvs \cup {new}
        /\ name = Serial0 => o \in Tabled' /\ recvs' = recvs /\ e = StartLinkEvt(o)
    BY <1>3, <1>8, <1>11
  <2>3. /\ \A x : x \in Tabled' => x \in Tabled \/ x = o
        /\ Tabled \subseteq Tabled'
    BY <1>8
  <2> QED BY <1>1, <1>2, <1>5, <1>10, <1>11, <2>1, <2>2, <2>3, LinkMade
<1>13. /\ \A n : Waits(CreateLinkEvt(n))' => Waits(CreateLinkEvt(n))
       /\ \A p : Waits(DelLinkEvt(p))' <=> Waits(DelLinkEvt(p))
       /\ \A p : Waits(StartLinkEvt(p))' => Waits(StartLinkEvt(p)) \/ (p = o /\ name = Serial0)
       /\ \A a, p : Waits(BindEvt(a, p))' =>
            Waits(BindEvt(a, p)) \/ (a = "iec104" /\ p = o /\ name # Serial0)
       /\ \A a, p : Waits(BindEvt(a, p)) => Waits(BindEvt(a, p))'
       /\ name # Serial0 => Waits(BindEvt("iec104", o))'
  <2>1. CASE name = Serial0
    BY <1>12, <2>1, CallParts DEF e
  <2>2. CASE name # Serial0
    BY <1>12, <2>2, CallParts DEF e
  <2> QED BY <2>1, <2>2
<1>14. Live(o)' /\ \A p \in Objs : p # o => (Live(p)' <=> Live(p))
  BY <1>5 DEF Live
<1>15. TableInv'
  <2>1. \A p \in Tabled' : Live(p)'
    BY <1>8, <1>14, Places DEF LifeInv, TableInv
  <2>2. \A p \in Objs : Live(p)' /\ p \notin Tabled' =>
          obj'[p].tid = "none" /\ obj'[p].applayer_id = NoApp /\ obj'[p].name \in NetNames
    BY <1>5, <1>8, <1>14 DEF LifeInv, TableInv
  <2>3. \A p \in Objs : Live(p)' /\ obj'[p].name = Serial0 => obj'[p].tid # "deleted"
    BY <1>5, <1>14 DEF LifeInv, TableInv
  <2>4. \A p \in Objs : Live(p)' /\ obj'[p].applayer_id # NoApp => Known(obj[p].applayer_id)'
    <3>1. \A b : Known(b)' <=> Known(b)
      BY <1>3 DEF Known
    <3> QED BY <1>5, <1>14, <3>1 DEF LifeInv, TableInv
  <2> QED BY <1>8, <2>1, <2>2, <2>3, <2>4 DEF TableInv
<1>16. RecvInv'
  <2>1. app' = app /\ (\A p : Told(p)' <=> Told(p)) /\ \A r \in recvs : r.link \in Objs
    BY <1>3, Places DEF Told
  <2>2. ASSUME NEW r \in recvs
        PROVE  /\ Starting(r) => Starting(r)'
               /\ Looping(r) => Looping(r)'
               /\ Closing(r) => Closing(r)'
    <3>1. Attends(r) => Attends(r)' /\ r.link # o /\ obj'[r.link] = obj[r.link]
      BY <1>5, <1>12, <2>1
    <3>2. Gone(r) => Gone(r)'
      BY <1>12
    <3>3. Starting(r) => Starting(r)'
      BY <1>13, <3>1 DEF Starting, Bound
    <3>4. Looping(r) => Looping(r)'
      BY <2>1, <3>1 DEF Looping, Bound
    <3>5. Closing(r) => Closing(r)'
      BY <1>13, <2>1, <3>1, <3>2 DEF Closing
    <3> QED BY <3>3, <3>4, <3>5
  <2>3. CASE recvs' = recvs
    BY <1>13, <2>2, <2>3 DEF LifeInv, RecvInv
  <2>4. CASE name # Serial0
    <3>1. \A r : r.link = o /\ r.name = name => Starting(r)'
      BY <1>5, <1>8, <1>13, <2>4 DEF Starting, Attends
    <3>2. \A r \in recvs' :
            r \in recvs \/ (r = new /\ r.link = o /\ r.pc = "start" /\ r.name = name)
      BY <1>3, <2>4
    <3>3. \A r \in recvs' : r.name \in NetNames
      BY <1>6, <2>4, <3>2 DEF LifeInv, RecvInv
    <3>4. \A r, q \in recvs' : r.name = q.name => r = q
      BY <1>6, <3>2 DEF LifeInv, RecvInv
    <3>5. \A r \in recvs' : r.pc = "start" => Starting(r)'
      BY <2>2, <3>1, <3>2 DEF LifeInv, RecvInv
    <3>6. \A r \in recvs' : r.pc = "loop" => Looping(r)'
      BY <2>2, <3>2 DEF LifeInv, RecvInv
    <3>7. \A r \in recvs' : r.pc = "close" => Closing(r)'
      BY <2>2, <3>2 DEF LifeInv, RecvInv
    <3> QED BY <3>3, <3>4, <3>5, <3>6, <3>7 DEF RecvInv
  <2> QED BY <1>3, <2>3, <2>4
<1>17. CallInv'
  <2>1. \A p \in Objs : Waits(DelLinkEvt(p))' =>
          Live(p)' /\ obj'[p].name \in NetNames /\ (p \in Tabled' => obj'[p].tid = "deleted")
    BY <1>1, <1>5, <1>8, <1>13, <1>14 DEF LifeInv, CallInv
  <2>2. \A p \in Objs : Waits(StartLinkEvt(p))' => p \in Tabled' /\ obj'[p].name = Serial0
    BY <1>5, <1>6, <1>8, <1>13 DEF LifeInv, CallInv
  <2>3. \A p \in Objs, b \in Apps : Waits(BindEvt(b, p))' =>
          /\ p \in Tabled' /\ obj'[p].applayer_id = NoApp /\ obj'[p].tid # "deleted"
          /\ b = "iec104" <=> obj'[p].name # Serial0
          /\ b = "iec104" => obj'[p].tid = "none"
    BY <1>5, <1>6, <1>8, <1>13 DEF LifeInv, CallInv
  <2> QED BY <2>1, <2>2, <2>3 DEF CallInv
<1>18. SlotInv'
  <2>1. /\ slots' = slots /\ Tabled \subseteq Objs /\ NoApp \notin Apps
        /\ \A p \in Tabled : p # o /\ obj'[p] = obj[p] /\ p \in Tabled'
    BY <1>3, <1>5, <1>6, <1>8, Places DEF Apps, NoApp
  <2>2. \A a \in Apps : \A i \in 1 .. CFG_LINK_MAX : slots[a][i] # NoObj =>
          /\ slots[a][i] \in Tabled' /\ obj'[slots[a][i]].applayer_id = a
          /\ obj'[slots[a][i]].tid # "deleted"
          /\ a = "iec104" <=> obj'[slots[a][i]].name # Serial0
    BY <2>1 DEF LifeInv, SlotInv
  <2>3. \A p \in Tabled' : obj'[p].applayer_id \in Apps /\ obj'[p].tid # "deleted" =>
          \E i \in 1 .. CFG_LINK_MAX : slots[obj'[p].applayer_id][i] = p
    BY <1>5, <1>8, <2>1 DEF LifeInv, SlotInv
  <2>4. \A p \in Tabled' : obj'[p].name \in NetNames /\ obj'[p].tid = "run" => Bound(p)'
    BY <1>5, <1>8, <2>1 DEF LifeInv, SlotInv, Bound
  <2>5. \A a \in Apps : \A i, j \in 1 .. CFG_LINK_MAX :
          slots[a][i] # NoObj /\ slots[a][i] = slots[a][j] => i = j
    BY DEF LifeInv, SlotInv
  <2> QED BY <2>1, <2>2, <2>3, <2>4, <2>5 DEF SlotInv
<1> QED BY <1>12, <1>15, <1>16, <1>17, <1>18 DEF LifeInv

LEMMA RejectLinkKeeps ==
  ASSUME TypeInv, TypeInv', LifeInv, NEW o \in Objs, RejectLink(o), ~astray' PROVE LifeInv'
<1> DEFINE name == Msg.name
           new  == [link |-> o, pc |-> "start", name |-> name]
<1>1. MainRuns /\ Head(sys_event).evt_type = "SYS_CREATE_LINK" /\ ~Live(o)
  BY DEF RejectLink, MainTakes, Cells, Live
<1>2. Head(sys_event) = CreateLinkEvt(name)
  BY <1>1, MainTook, CallKinds DEF Msg
<1>3. /\ obj' = [obj EXCEPT ![o] = Created(name)] /\ sys_event' = Post(Rest, DelLinkEvt(o))
      /\ Len(Post(Rest, DelLinkEvt(o))) < SysMb
      /\ UNCHANGED <<linkVars, booted, tableVars, faults, netVars>>
  BY RoomLeft DEF RejectLink
<1> HIDE DEF name
<1>4. /\ \A p \in Objs : p # o => obj'[p] = obj[p]
      /\ obj'[o].mem = "live" /\ obj'[o].name = name /\ obj'[o].applayer_id = NoApp
      /\ obj'[o].tid = "none"
  BY <1>3, Places DEF Created, NoLink
<1>5. name \in NetNames /\ name # Serial0 /\ o \notin Tabled
  <2>1. sys_link_obj.size # 0
    BY Places DEF RejectLink, LinkRoom, arraylist_size
  <2>2. /\ name = Serial0 => Fresh
        /\ name # Serial0 => name \in NetNames
        /\ o \notin Tabled
    BY <1>1, <1>2, CalledFor
  <2> QED BY <2>1, <2>2 DEF Fresh
<1>6. Tabled' = Tabled /\ Tabled \subseteq Objs
  BY <1>3, Places DEF Tabled
<1>7. /\ MailInv' /\ BootInv' /\ AppInv' /\ NameInv' /\ DiscInv'
      /\ \A x : Waits(x)' <=> (Waits(x) /\ x # CreateLinkEvt(name)) \/ x = DelLinkEvt(o)
      /\ \A r \in recvs : /\ Attends(r) => Attends(r)' /\ r.link # o
                          /\ Gone(r) => Gone(r)'
  <2> DEFINE e == DelLinkEvt(o)
  <2>1. /\ e \in {StartLinkEvt(o), DelLinkEvt(o), BindEvt("iec104", o)} /\ sys_event' = Post(Rest, e)
        /\ Len(Post(Rest, e)) < SysMb
        /\ recvs' = recvs
        /\ UNCHANGED <<linkVars, booted, sys_app_obj, app, sock>>
    BY <1>3
  <2> HIDE DEF e
  <2>2. /\ MailInv' /\ BootInv' /\ AppInv' /\ NameInv' /\ DiscInv'
        /\ \A x : Waits(x)' <=> (Waits(x) /\ x # CreateLinkEvt(name)) \/ x = e
        /\ \A r \in recvs : /\ Attends(r) => Attends(r)' /\ r.link # o
                            /\ Gone(r) => Gone(r)'
    <3>1. /\ recvs \subseteq recvs' /\ recvs' \subseteq recvs \cup {new}
          /\ name = Serial0 => o \in Tabled' /\ recvs' = recvs /\ e = StartLinkEvt(o)
          /\ \A x : x \in Tabled' => x \in Tabled \/ x = o
          /\ Tabled \subseteq Tabled'
      BY <1>5, <1>6, <2>1
    <3> QED BY <1>1, <1>2, <1>4, <2>1, <3>1, LinkMade
  <2> QED BY <2>2 DEF e
<1>8. /\ \A n : Waits(CreateLinkEvt(n))' => Waits(CreateLinkEvt(n))
      /\ \A p : Waits(DelLinkEvt(p))' <=> Waits(DelLinkEvt(p)) \/ p = o
      /\ \A p : Waits(StartLinkEvt(p))' <=> Waits(StartLinkEvt(p))
      /\ \A a, p : Waits(BindEvt(a, p))' <=> Waits(BindEvt(a, p))
  BY <1>7, CallParts
<1>9. Live(o)' /\ \A p \in Objs : p # o => (Live(p)' <=> Live(p))
  BY <1>4 DEF Live
<1>10. \A p \in Tabled : p # o /\ p \in Objs /\ obj'[p] = obj[p] /\ Live(p)
  BY <1>4, <1>5, <1>6 DEF LifeInv, TableInv
<1>11. TableInv'
  <2>1. \A b : Known(b)' <=> Known(b)
    BY <1>3 DEF Known
  <2>2. Once(sys_link_obj')
    BY <1>3 DEF LifeInv, TableInv
  <2>3. \A p \in Objs : Live(p)' /\ p \notin Tabled' =>
          obj'[p].tid = "none" /\ obj'[p].applayer_id = NoApp /\ obj'[p].name \in NetNames
    BY <1>4, <1>5, <1>6, <1>9 DEF LifeInv, TableInv
  <2>4. \A p \in Objs : Live(p)' /\ obj'[p].name = Serial0 => obj'[p].tid # "deleted"
    BY <1>4, <1>9 DEF LifeInv, TableInv
  <2>5. \A p \in Objs : Live(p)' /\ obj'[p].applayer_id # NoApp => Known(obj[p].applayer_id)'
    BY <1>4, <1>9, <2>1 DEF LifeInv, TableInv
  <2> QED BY <1>6, <1>9, <1>10, <2>2, <2>3, <2>4, <2>5 DEF TableInv
<1>12. RecvInv'
  <2>1. app' = app /\ (\A p : Told(p)' <=> Told(p)) /\ \A r \in recvs : r.link \in Objs
    BY <1>3, Places DEF Told
  <2>2. ASSUME NEW r \in recvs
        PROVE  /\ Starting(r) => Starting(r)'
               /\ Looping(r) => Looping(r)'
               /\ Closing(r) => Closing(r)'
    <3>1. Attends(r) => Attends(r)' /\ r.link # o /\ obj'[r.link] = obj[r.link]
      BY <1>4, <1>7, <2>1
    <3>2. Gone(r) => Gone(r)'
      BY <1>7
    <3>3. Starting(r) => Starting(r)'
      BY <1>8, <3>1 DEF Starting, Bound
    <3>4. Looping(r) => Looping(r)'
      BY <2>1, <3>1 DEF Looping, Bound
    <3>5. Closing(r) => Closing(r)'
      BY <1>8, <2>1, <3>1, <3>2 DEF Closing
    <3> QED BY <3>3, <3>4, <3>5
  <2>3. recvs' = recvs
    BY <1>3
  <2> QED BY <1>8, <2>2, <2>3 DEF LifeInv, RecvInv
<1>13. CallInv'
  <2>1. \A p \in Objs : Waits(DelLinkEvt(p))' =>
          Live(p)' /\ obj'[p].name \in NetNames /\ (p \in Tabled' => obj'[p].tid = "deleted")
    BY <1>4, <1>5, <1>6, <1>8, <1>9 DEF LifeInv, CallInv
  <2>2. \A p \in Objs : Waits(StartLinkEvt(p))' => p \in Tabled' /\ obj'[p].name = Serial0
    BY <1>6, <1>8, <1>10 DEF LifeInv, CallInv
  <2>3. \A p \in Objs, b \in Apps : Waits(BindEvt(b, p))' =>
          /\ p \in Tabled' /\ obj'[p].applayer_id = NoApp /\ obj'[p].tid # "deleted"
          /\ b = "iec104" <=> obj'[p].name # Serial0
          /\ b = "iec104" => obj'[p].tid = "none"
    BY <1>6, <1>8, <1>10 DEF LifeInv, CallInv
  <2> QED BY <2>1, <2>2, <2>3 DEF CallInv
<1>14. SlotInv'
  <2>1. slots' = slots
    BY <1>3
  <2> QED BY <1>6, <1>10, <2>1 DEF LifeInv, SlotInv, Bound
<1> QED BY <1>7, <1>11, <1>12, <1>13, <1>14 DEF LifeInv
-----------------------------------------------------------------------------
(* The link thread ends its link: the application forgets it before the    *)
(* main thread is asked to delete it.                                      *)
LEMMA DisconnectKeeps ==
  ASSUME TypeInv, TypeInv', LifeInv, NEW o \in Objs, Disconnect(o), ~astray' PROVE LifeInv'
<1> DEFINE e == DelLinkEvt(o)
<1>1. /\ Told(o) /\ o \in Tabled /\ obj[o].tid = "run" /\ obj[o].name \in NetNames /\ Bound(o)
      /\ Live(o)
  BY DEF Disconnect, Told, LifeInv, DiscInv, TableInv
<1>2. /\ obj' = [obj EXCEPT ![o].tid = "deleted"] /\ \A p : Told(p)' <=> Told(p) /\ p # o
      /\ slots' = [slots EXCEPT !["iec104"] = app_remove_link(@, o)]
      /\ sys_event' = Post(sys_event, e) /\ Len(Post(sys_event, e)) < SysMb
      /\ UNCHANGED <<booted, sys_link_obj, sys_app_obj, app, faults, netVars>>
  <2>1. Calls(Post(sys_event, e))
    BY DEF Disconnect
  <2> HIDE DEF e
  <2> QED BY <1>1, <2>1, RoomLeft DEF Disconnect, Bound, NoApp, Told
<1>3. \A p \in Objs : /\ obj'[p].mem = obj[p].mem /\ obj'[p].name = obj[p].name
                      /\ obj'[p].applayer_id = obj[p].applayer_id /\ obj'[p].write = obj[p].write
                      /\ obj'[p].tid = IF p = o THEN "deleted" ELSE obj[p].tid
  BY <1>2, Places DEF Links
<1>4. /\ sys_event \in Seq(SysEvents) /\ Apart(obj, sys_event) /\ Queued(sys_event)
      /\ \A i \in 1 .. Len(sys_event) : Waits(sys_event[i])
      /\ \A x : Waits(x) => x \in SysEvents
  BY Places DEF LifeInv, MailInv, BootInv
<1>5. /\ e \in SysEvents /\ e.evt_type = "SYS_DEL_LINK" /\ Caller(obj, e) = LinkCaller(obj[o].name)
  BY EventTypes, CallParts, CallerOf
<1>6. \A x \in Held(sys_event) : Caller(obj, x) # Caller(obj, e)
  <2> SUFFICES ASSUME NEW x \in SysEvents, Waits(x), Caller(obj, x) = LinkCaller(obj[o].name) PROVE FALSE
    BY <1>4, <1>5 DEF Waits
  <2>1. x # CreateLinkEvt(obj[o].name)
    BY <1>1, NamesDiffer DEF LifeInv, NameInv, NoLive
  <2>2. PICK p \in Objs : /\ obj[p].name = obj[o].name
                         /\ x \in {DelLinkEvt(p), StartLinkEvt(p), BindEvt("iec104", p)}
    BY <2>1, WhoCalls
  <2>3. p = o
    BY <1>1, <2>2 DEF LifeInv, CallInv, TableInv, NameInv, Apps
  <2> QED BY <1>1, <2>2, <2>3, NamesDiffer DEF LifeInv, CallInv, Apps
<1>7. /\ sys_event' \in Seq(SysEvents) /\ Apart(obj, sys_event') /\ Queued(sys_event')
      /\ \A x : Waits(x)' <=> Waits(x) \/ x = e
  BY <1>2, <1>4, <1>5, <1>6, PostQueued DEF Waits
<1>8. /\ \A n : Waits(CreateLinkEvt(n))' <=> Waits(CreateLinkEvt(n))
      /\ \A a : Waits(CreateAppEvt(a))' <=> Waits(CreateAppEvt(a))
      /\ \A a : Waits(StartAppEvt(a))' <=> Waits(StartAppEvt(a))
      /\ \A a : \A cb \in Callbacks : Waits(SetCbEvt(a, cb))' <=> Waits(SetCbEvt(a, cb))
      /\ \A a, p : Waits(BindEvt(a, p))' <=> Waits(BindEvt(a, p))
      /\ \A p : Waits(StartLinkEvt(p))' <=> Waits(StartLinkEvt(p))
      /\ \A p : Waits(DelLinkEvt(p))' <=> Waits(DelLinkEvt(p)) \/ p = o
  BY <1>7, CallParts DEF e
<1>9. Tabled' = Tabled /\ Tabled \subseteq Objs /\ \A p \in Objs : Live(p)' <=> Live(p)
  BY <1>2, <1>3, Places DEF Tabled, Live
<1>10. MailInv'
  <2>1. \A i \in 1 .. Len(sys_event') : sys_event'[i] \in SysEvents
    BY <1>7
  <2>2. \A i \in 1 .. Len(sys_event') : OfLink(sys_event'[i]) /\ sys_event'[i].msg.link # NoObj =>
          sys_event'[i].msg.link \in Objs
    BY <2>1, CallKinds, CallParts DEF OfLink
  <2>3. \A i \in 1 .. Len(sys_event') : OfLink(sys_event'[i]) /\ sys_event'[i].msg.link # NoObj =>
          obj'[sys_event'[i].msg.link].name = obj[sys_event'[i].msg.link].name
    BY <1>3, <2>2
  <2>4. Apart(obj', sys_event')
    BY <1>7, <2>3, CallersStay
  <2> QED BY <2>4 DEF MailInv
<1>11. BootInv'
  <2>1. obj[o].name # Serial0
    BY <1>1, NamesDiffer
  <2>2. ~Fresh /\ ~NoNet
    BY <1>1, <2>1 DEF Fresh, NoNet
  <2>3. PICK p \in Tabled : obj[p].name = Serial0
    BY <2>2, Places DEF LifeInv, BootInv
  <2>4. p \in Tabled' /\ obj'[p].name = Serial0
    BY <1>3, <1>9, <2>3
  <2>5. booted = 3 /\ booted' = booted
    BY <1>2, <2>2, Places DEF LifeInv, BootInv
  <2> QED BY <1>7, <1>8, <2>2, <2>4, <2>5 DEF LifeInv, BootInv
<1>12. AppInv'
  <2>1. \A a \in Apps : (Born(a)' <=> Born(a)) /\ (Known(a)' <=> Known(a)) /\ app' = app
    BY <1>2 DEF Born, Known
  <2> QED BY <1>8, <2>1 DEF LifeInv, AppInv
<1>13. NameInv'
  <2>1. \A n : NoLive(n)' <=> NoLive(n)
    BY <1>3, <1>9 DEF NoLive
  <2> QED BY <1>2, <1>3, <1>8, <1>9, <2>1 DEF LifeInv, NameInv
<1>14. TableInv'
  <2>1. (\A b : Known(b)' <=> Known(b)) /\ obj[o].name # Serial0
    BY <1>1, <1>2, NamesDiffer DEF Known
  <2> QED BY <1>1, <1>2, <1>3, <1>9, <2>1 DEF LifeInv, TableInv
<1>15. RecvInv'
  <2>1. app' = app /\ recvs' = recvs /\ \A r \in recvs : r.link \in Objs
    BY <1>2, Places
  <2>2. \A r \in recvs : (Attends(r)' <=> Attends(r)) /\ (Gone(r)' <=> Gone(r))
    BY <1>3, <1>8, <1>9, <2>1 DEF Attends, Gone, NoLive
  <2>3. \A r \in recvs : /\ Starting(r) => Starting(r)'
                         /\ Looping(r) => Looping(r)'
                         /\ Closing(r) => Closing(r)'
    <3> TAKE r \in recvs
    <3>1. Starting(r) => Starting(r)'
      BY <1>1, <1>3, <1>8, <2>1, <2>2 DEF Starting, Bound
    <3>2. Looping(r) => Looping(r)'
      BY <1>1, <1>2, <1>3, <2>1, <2>2 DEF Looping, Bound
    <3>3. Closing(r) => Closing(r)'
      BY <1>1, <1>2, <1>3, <1>8, <2>1, <2>2 DEF Closing
    <3> QED BY <3>1, <3>2, <3>3
  <2>4. RecvInv
    BY DEF LifeInv
  <2>5. \A n : Waits(CreateLinkEvt(n))' <=> Waits(CreateLinkEvt(n))
    BY <1>8
  <2> QED BY <2>1, <2>3, <2>4, <2>5 DEF RecvInv
<1>16. DiscInv'
  BY <1>2, <1>3, <1>9 DEF LifeInv, DiscInv, Bound
<1>17. CallInv'
  <2>1. \A a \in Apps : ~Waits(BindEvt(a, o))
    BY <1>1 DEF LifeInv, CallInv, Bound, NoApp
  <2> QED BY <1>1, <1>3, <1>8, <1>9, <2>1 DEF LifeInv, CallInv
<1>18. SlotInv'
  <2>1. "iec104" \in Apps /\ slots \in [Apps -> [1 .. CFG_LINK_MAX -> Objs \cup {NoObj}]]
    BY Places DEF Apps
  <2>2. \A i \in 1 .. CFG_LINK_MAX :
          app_remove_link(slots["iec104"], o)[i] = IF slots["iec104"][i] = o THEN NoObj ELSE slots["iec104"][i]
    <3> DEFINE sl == slots["iec104"]
    <3>1. /\ sl \in [1 .. CFG_LINK_MAX -> Objs \cup {NoObj}]
          /\ \A i, j \in 1 .. CFG_LINK_MAX : sl[i] # NoObj /\ sl[i] = sl[j] => i = j
      BY <2>1 DEF LifeInv, SlotInv
    <3> HIDE DEF sl
    <3>2. \A i \in 1 .. CFG_LINK_MAX : app_remove_link(sl, o)[i] = IF sl[i] = o THEN NoObj ELSE sl[i]
      BY <3>1, SlotGiven
    <3> QED BY <3>2 DEF sl
  <2>3. \A a \in Apps : \A i \in 1 .. CFG_LINK_MAX :
          slots'[a][i] = IF a = "iec104" /\ slots[a][i] = o THEN NoObj ELSE slots[a][i]
    BY <1>2, <2>1, <2>2
  <2>4. \A a \in Apps : \A i \in 1 .. CFG_LINK_MAX : slots[a][i] = o => a = "iec104"
    BY <1>1, Places DEF LifeInv, SlotInv, Bound
  <2>5. \A a \in Apps : \A i \in 1 .. CFG_LINK_MAX : slots'[a][i] # NoObj =>
          /\ slots'[a][i] = slots[a][i] /\ slots[a][i] # o
          /\ slots[a][i] \in Tabled' /\ obj'[slots[a][i]].applayer_id = a
          /\ obj'[slots[a][i]].tid # "deleted"
          /\ a = "iec104" <=> obj'[slots[a][i]].name # Serial0
    <3> SUFFICES ASSUME NEW a \in Apps, NEW i \in 1 .. CFG_LINK_MAX, slots'[a][i] # NoObj
                 PROVE  /\ slots'[a][i] = slots[a][i] /\ slots[a][i] # o
                        /\ slots[a][i] \in Tabled' /\ obj'[slots[a][i]].applayer_id = a
                        /\ obj'[slots[a][i]].tid # "deleted"
                        /\ a = "iec104" <=> obj'[slots[a][i]].name # Serial0
      OBVIOUS
    <3>1. slots'[a][i] = slots[a][i] /\ slots[a][i] # o /\ slots[a][i] # NoObj
      BY <2>3, <2>4
    <3>2. slots[a][i] \in Tabled /\ slots[a][i] \in Objs
      BY <1>9, <3>1 DEF LifeInv, SlotInv
    <3> QED BY <1>3, <1>9, <3>1, <3>2 DEF LifeInv, SlotInv
  <2>6. \A a \in Apps : \A i, j \in 1 .. CFG_LINK_MAX :
          slots'[a][i] # NoObj /\ slots'[a][i] = slots'[a][j] => i = j
    BY <2>5 DEF LifeInv, SlotInv
  <2>7. ASSUME NEW p \in Tabled', obj'[p].applayer_id \in Apps, obj'[p].tid # "deleted"
        PROVE  \E i \in 1 .. CFG_LINK_MAX : slots'[obj'[p].applayer_id][i] = p
    <3>1. p \in Objs /\ p \in Tabled /\ p # o /\ obj'[p].applayer_id = obj[p].applayer_id
          /\ obj[p].tid # "deleted"
      BY <1>3, <1>9, <2>7
    <3>2. PICK i \in 1 .. CFG_LINK_MAX : slots[obj[p].applayer_id][i] = p
      BY <2>7, <3>1 DEF LifeInv, SlotInv
    <3>3. slots'[obj[p].applayer_id][i] = p
      BY <2>3, <2>7, <3>1, <3>2
    <3> QED BY <3>1, <3>3
  <2>8. \A p \in Tabled' : obj'[p].name \in NetNames /\ obj'[p].tid = "run" => Bound(p)'
    BY <1>3, <1>9 DEF LifeInv, SlotInv, Bound
  <2> QED BY <2>5, <2>6, <2>7, <2>8 DEF SlotInv
<1> QED BY <1>10, <1>11, <1>12, <1>13, <1>14, <1>15, <1>16, <1>17, <1>18 DEF LifeInv
-----------------------------------------------------------------------------
(* A receive thread runs: nothing is waiting.                              *)
LEMMA RecvTook ==
  ASSUME TypeInv, LifeInv, RecvRuns, NEW r \in recvs
  PROVE  /\ sys_event = <<>> /\ (\A x : ~Waits(x)) /\ booted = 3
         /\ \E p \in Tabled : obj[p].name = Serial0
         /\ \A q \in recvs : Attends(q) => q.link \in Tabled /\ Live(q.link) /\ obj[q.link].name # Serial0
         /\ \A q \in recvs : Attends(q) /\ q # r => q.link # r.link \/ ~Attends(r)
<1>1. sys_event = <<>> /\ \A x : ~Waits(x)
  BY DEF RecvRuns, MainReady, Waits, Held
<1>2. ~Fresh /\ ~NoNet
  BY DEF Fresh, NoNet
<1>3. booted = 3 /\ \E p \in Tabled : obj[p].name = Serial0
  BY <1>1, <1>2, Places DEF LifeInv, BootInv
<1>4. \A q \in recvs : Attends(q) => q.link \in Tabled /\ Live(q.link) /\ obj[q.link].name # Serial0
  BY NamesDiffer DEF Attends, LifeInv, TableInv, RecvInv
<1>5. \A q \in recvs : Attends(q) /\ q # r => q.link # r.link \/ ~Attends(r)
  BY DEF Attends, LifeInv, RecvInv
<1> QED BY <1>1, <1>3, <1>4, <1>5

LEMMA RecvStartKeeps == ASSUME TypeInv, LifeInv, NEW r \in recvs, RecvStart(r) PROVE LifeInv'
<1> DEFINE o   == r.link
           now == [r EXCEPT !.pc = "loop"]
<1>1. /\ sys_event = <<>> /\ (\A x : ~Waits(x)) /\ booted = 3
      /\ \E p \in Tabled : obj[p].name = Serial0
      /\ \A q \in recvs : Attends(q) => q.link \in Tabled /\ Live(q.link) /\ obj[q.link].name # Serial0
      /\ \A q \in recvs : Attends(q) /\ q # r => q.link # r.link \/ ~Attends(r)
  BY RecvTook DEF RecvStart
<1>2. /\ obj' = [obj EXCEPT ![o].write = TRUE, ![o].close_sem = 0, ![o].tid = "run"]
      /\ recvs' = (recvs \ {r}) \cup {now} /\ r.pc = "start"
      /\ UNCHANGED <<mailVars, linkVars, booted, tableVars, faults, sock>>
  BY DEF RecvStart
<1>3. Attends(r) /\ obj[o].tid = "none" /\ Bound(o)
  BY <1>1, <1>2 DEF LifeInv, RecvInv, Starting
<1>4. o \in Objs /\ o \in Tabled /\ Live(o) /\ obj[o].name # Serial0 /\ obj[o].name = r.name
  BY <1>1, <1>3, Places DEF Attends
<1> HIDE DEF o
<1>5. \A p \in Objs : /\ obj'[p].mem = obj[p].mem /\ obj'[p].name = obj[p].name
                      /\ obj'[p].applayer_id = obj[p].applayer_id
                      /\ p # o => obj'[p].write = obj[p].write
                      /\ obj'[p].tid = IF p = o THEN "run" ELSE obj[p].tid
  <2>1. obj' = [obj EXCEPT ![o] = [obj[o] EXCEPT !.write = TRUE, !.close_sem = 0, !.tid = "run"]]
    BY <1>2, <1>4, Places
  <2>2. obj \in [Objs -> Links]
    BY Places
  <2> QED BY <1>4, <2>1, <2>2 DEF Links
<1>5a. obj'[o].write
  <2>1. obj' = [obj EXCEPT ![o] = [obj[o] EXCEPT !.write = TRUE, !.close_sem = 0, !.tid = "run"]]
    BY <1>2, <1>4, Places
  <2> QED BY <1>4, <2>1, Places DEF Links
<1>6. now.link = o /\ now.pc = "loop" /\ now.name = r.name
  BY Places DEF o
<1>6a. r.link = o
  BY DEF o
<1> HIDE DEF now
<1>7. /\ Tabled' = Tabled /\ Tabled \subseteq Objs /\ (\A p \in Objs : Live(p)' <=> Live(p))
      /\ (\A x : ~Waits(x)') /\ (\A b : Known(b)' <=> Known(b))
  BY <1>1, <1>2, <1>5, Places DEF Tabled, Live, Waits, Known
<1>8. MailInv' /\ DiscInv' /\ ~Told(o)
  <2>1. \A p : Told(p)' <=> Told(p)
    BY <1>2 DEF Told
  <2>2. MailInv'
    BY <1>1, <1>2 DEF MailInv, Apart
  <2>3. ~Told(o)
    BY <1>3, <1>4 DEF LifeInv, DiscInv
  <2> QED BY <1>5, <1>7, <2>1, <2>2, <2>3 DEF LifeInv, DiscInv, Bound
<1>9. BootInv'
  <2>1. PICK p \in Tabled : obj[p].name = Serial0
    BY <1>1
  <2>2. p \in Tabled' /\ obj'[p].name = Serial0
    BY <1>5, <1>7, <2>1
  <2>3. booted' = 3 /\ Queued(sys_event')
    BY <1>1, <1>2 DEF LifeInv, BootInv
  <2> QED BY <1>7, <2>2, <2>3 DEF BootInv
<1>10. AppInv'
  BY <1>1, <1>2, <1>7 DEF LifeInv, AppInv, Born
<1>11. NameInv'
  <2>1. \A q \in recvs' : \E p \in recvs : q.name = p.name
    BY <1>2, <1>6
  <2>2. \A p \in Objs : Live(p)' => obj'[p].name \in LinkNames
    BY <1>5, <1>7 DEF LifeInv, NameInv
  <2>3. \A p, q \in Objs : Live(p)' /\ Live(q)' /\ obj'[p].name = obj'[q].name => p = q
    BY <1>5, <1>7 DEF LifeInv, NameInv
  <2>4. \A s \in HwSocks : sock'[s] = "free" => \A q \in recvs' : q.name # Name("wh", s)
    BY <1>2, <2>1 DEF LifeInv, NameInv
  <2> QED BY <1>7, <2>2, <2>3, <2>4 DEF NameInv
<1>12. TableInv'
  <2>1. Once(sys_link_obj')
    BY <1>2 DEF LifeInv, TableInv
  <2>2. \A p \in Tabled' : Live(p)'
    BY <1>7 DEF LifeInv, TableInv
  <2>3. \A p \in Objs : Live(p)' /\ p \notin Tabled' =>
          obj'[p].tid = "none" /\ obj'[p].applayer_id = NoApp /\ obj'[p].name \in NetNames
    BY <1>4, <1>5, <1>7 DEF LifeInv, TableInv
  <2>4. \A p \in Objs : Live(p)' /\ obj'[p].name = Serial0 => obj'[p].tid # "deleted"
    BY <1>4, <1>5, <1>7 DEF LifeInv, TableInv
  <2>5. \A p \in Objs : Live(p)' /\ obj'[p].applayer_id # NoApp => Known(obj[p].applayer_id)'
    BY <1>5, <1>7 DEF LifeInv, TableInv
  <2> QED BY <1>5, <2>1, <2>2, <2>3, <2>4, <2>5 DEF TableInv
<1>13. app'["iec104"] = [running |-> TRUE, cbs |-> Callbacks]
  <2>1. "iec104" \in Apps /\ app \in [Apps -> [running : BOOLEAN, cbs : SUBSET Callbacks]]
    BY Places DEF Apps
  <2>2. Known("iec104")
    BY <1>3, <1>4 DEF LifeInv, TableInv, Bound, NoApp
  <2>3. app["iec104"].running /\ \A cb \in Callbacks : cb \in app["iec104"].cbs
    BY <1>1, <2>1, <2>2 DEF LifeInv, AppInv
  <2>4. app["iec104"] \in [running : BOOLEAN, cbs : SUBSET Callbacks]
    BY <2>1
  <2>5. app["iec104"].cbs = Callbacks /\ app["iec104"].running = TRUE
    BY <2>3, <2>4
  <2>6. app["iec104"] = [running |-> TRUE, cbs |-> Callbacks]
    BY <2>4, <2>5
  <2> QED BY <1>2, <2>6
<1>14. RecvInv'
  <2>1. \A q \in recvs' : q = now \/ (q \in recvs /\ q # r /\ q.link \in Objs)
    BY <1>2, Places
  <2>2. \A q : q.link = o /\ q.name = r.name => Looping(q)'
    <3>1. /\ o \in Tabled' /\ obj'[o].name = r.name /\ obj'[o].tid = "run" /\ ~Told(o)'
          /\ obj'[o].write /\ obj'[o].applayer_id = "iec104"
      BY <1>2, <1>3, <1>4, <1>5, <1>5a, <1>7, <1>8 DEF Bound, Told
    <3> QED BY <1>13, <3>1 DEF Looping, Attends, Bound
  <2>3. ASSUME NEW q \in recvs, q # r
        PROVE  /\ Starting(q) => Starting(q)'
               /\ Looping(q) => Looping(q)'
               /\ Closing(q) => Closing(q)'
    <3>1. q.link \in Objs
      BY Places
    <3>2. Attends(q) => Attends(q)' /\ q.link # o
      BY <1>1, <1>3, <1>5, <1>6a, <1>7, <2>3, <3>1 DEF Attends
    <3>3. (Gone(q) => Gone(q)') /\ (Told(q.link)' <=> Told(q.link))
      BY <1>2, <1>5, <1>7, <3>1 DEF Gone, NoLive, Told
    <3>4. Starting(q) => Starting(q)'
      BY <1>1, <1>5, <3>1, <3>2 DEF Starting, Bound
    <3>5. Looping(q) => Looping(q)'
      BY <1>2, <1>5, <3>1, <3>2, <3>3 DEF Looping, Bound
    <3>6. Closing(q) => Closing(q)'
      BY <1>1, <1>5, <3>1, <3>2, <3>3 DEF Closing
    <3> QED BY <3>4, <3>5, <3>6
  <2>4. \A q \in recvs' : q.name \in NetNames
    BY <1>6, <2>1 DEF LifeInv, RecvInv
  <2>5. \A q, p \in recvs' : q.name = p.name => q = p
    BY <1>6, <2>1 DEF LifeInv, RecvInv
  <2>6. \A q \in recvs' : q.pc = "start" => Starting(q)'
    BY <1>6, <2>1, <2>3 DEF LifeInv, RecvInv
  <2>7. \A q \in recvs' : q.pc = "loop" => Looping(q)'
    BY <1>6, <2>1, <2>2, <2>3 DEF LifeInv, RecvInv
  <2>8. \A q \in recvs' : q.pc = "close" => Closing(q)'
    BY <1>6, <2>1, <2>3 DEF LifeInv, RecvInv
  <2> QED BY <1>7, <2>4, <2>5, <2>6, <2>7, <2>8 DEF RecvInv
<1>15. CallInv'
  BY <1>7 DEF CallInv
<1>16. SlotInv'
  <2>1. slots' = slots /\ \A a \in Apps : \A i \in 1 .. CFG_LINK_MAX : slots[a][i] # NoObj => slots[a][i] \in Objs
    BY <1>2, Places
  <2> QED BY <1>3, <1>5, <1>7, <2>1 DEF LifeInv, SlotInv, Bound
<1> QED BY <1>8, <1>9, <1>10, <1>11, <1>12, <1>14, <1>15, <1>16 DEF LifeInv

LEMMA RecvErrKeeps == ASSUME TypeInv, LifeInv, NEW r \in recvs, RecvErr(r) PROVE LifeInv'
<1> DEFINE now == [r EXCEPT !.pc = "close"]
<1>1. /\ sys_event = <<>> /\ (\A x : ~Waits(x)) /\ booted = 3
      /\ \E p \in Tabled : obj[p].name = Serial0
      /\ \A q \in recvs : Attends(q) => q.link \in Tabled /\ Live(q.link) /\ obj[q.link].name # Serial0
      /\ \A q \in recvs : Attends(q) /\ q # r => q.link # r.link \/ ~Attends(r)
  BY RecvTook DEF RecvErr
<1>2. /\ recvs' = (recvs \ {r}) \cup {now} /\ r.pc = "loop"
      /\ UNCHANGED <<mailVars, booted, tableVars, obj, sock>>
      /\ \A p : Told(p)' <=> Told(p) \/ p = r.link
  BY DEF RecvErr, iec_sys_api_netlink_send_close, Told
<1>3. Looping(r) /\ Attends(r) /\ r.name \in NetNames
  BY <1>2 DEF LifeInv, RecvInv, Looping
<1>4. now.link = r.link /\ now.pc = "close" /\ now.name = r.name
  BY Places
<1> HIDE DEF now
<1>5. /\ Tabled' = Tabled /\ Tabled \subseteq Objs /\ (\A p : Live(p)' <=> Live(p))
      /\ (\A x : ~Waits(x)') /\ (\A b : Known(b)' <=> Known(b))
  BY <1>1, <1>2, Places DEF Tabled, Live, Waits, Known
<1>6. MailInv'
  BY <1>1, <1>2 DEF MailInv, Apart
<1>7. BootInv'
  BY <1>1, <1>2, <1>5 DEF LifeInv, BootInv
<1>8. AppInv'
  BY <1>1, <1>2, <1>5 DEF LifeInv, AppInv, Born
<1>9. NameInv'
  <2>1. \A q \in recvs' : \E p \in recvs : q.name = p.name
    BY <1>2, <1>4
  <2>2. \A n : NoLive(n) => NoLive(n)'
    BY <1>2, <1>5 DEF NoLive
  <2> QED BY <1>2, <1>5, <2>1, <2>2 DEF LifeInv, NameInv
<1>10. TableInv' /\ SlotInv'
  BY <1>2, <1>5 DEF LifeInv, TableInv, SlotInv, Bound
<1>11. RecvInv'
  <2>1. \A q \in recvs' : q = now \/ (q \in recvs /\ q # r)
    BY <1>2
  <2>2. \A q : q.link = r.link /\ q.name = r.name => Closing(q)'
    BY <1>2, <1>3, <1>5 DEF Closing, Attends
  <2>3. ASSUME NEW q \in recvs, q # r
        PROVE  /\ Starting(q) => Starting(q)'
               /\ Looping(q) => Looping(q)'
               /\ Closing(q) => Closing(q)'
    <3>1. Attends(q) => Attends(q)' /\ q.link # r.link
      BY <1>1, <1>2, <1>3, <1>5, <2>3 DEF Attends
    <3>2. Gone(q) => Gone(q)'
      BY <1>2, <1>5 DEF Gone, NoLive
    <3>3. Starting(q) => Starting(q)'
      BY <1>1, <1>2, <3>1 DEF Starting, Bound
    <3>4. Looping(q) => Looping(q)'
      BY <1>2, <3>1 DEF Looping, Bound
    <3>5. Closing(q) => Closing(q)'
      BY <1>1, <1>2, <3>1, <3>2 DEF Closing
    <3> QED BY <3>3, <3>4, <3>5
  <2>4. \A q \in recvs' : q.name \in NetNames
    BY <1>4, <2>1 DEF LifeInv, RecvInv
  <2>5. \A q, p \in recvs' : q.name = p.name => q = p
    BY <1>4, <2>1 DEF LifeInv, RecvInv
  <2>6. \A q \in recvs' : q.pc = "start" => Starting(q)'
    BY <1>4, <2>1, <2>3 DEF LifeInv, RecvInv
  <2>7. \A q \in recvs' : q.pc = "loop" => Looping(q)'
    BY <1>4, <2>1, <2>3 DEF LifeInv, RecvInv
  <2>8. \A q \in recvs' : q.pc = "close" => Closing(q)'
    BY <1>4, <2>1, <2>2, <2>3 DEF LifeInv, RecvInv
  <2> QED BY <1>5, <2>4, <2>5, <2>6, <2>7, <2>8 DEF RecvInv
<1>12. DiscInv'
  <2>1. r.link \in Tabled /\ obj[r.link].tid = "run" /\ obj[r.link].name \in NetNames /\ Bound(r.link)
    BY <1>3 DEF Looping, Attends
  <2> QED BY <1>2, <1>5, <2>1 DEF LifeInv, DiscInv, Bound
<1>13. CallInv'
  BY <1>5 DEF CallInv
<1> QED BY <1>6, <1>7, <1>8, <1>9, <1>10, <1>11, <1>12, <1>13 DEF LifeInv
(* The receive thread gives its socket back: no other thread has the name, *)
(* and a socket of the w5500 is given back by nobody else.                 *)
LEMMA RecvCloseKeeps == ASSUME TypeInv, LifeInv, NEW r \in recvs, RecvClose(r) PROVE LifeInv'
<1> DEFINE o == r.link
<1>1. /\ sys_event = <<>> /\ (\A x : ~Waits(x)) /\ booted = 3
      /\ \E p \in Tabled : obj[p].name = Serial0
  BY RecvTook DEF RecvClose
<1>2. /\ recvs' = recvs \ {r} /\ r.pc = "close"
      /\ obj' = [obj EXCEPT ![o] = IF @.mem = "freed" THEN NoLink ELSE @]
      /\ UNCHANGED <<mailVars, linkVars, booted, tableVars, faults>>
  BY DEF RecvClose
<1>3. r.name \in NetNames /\ o \in Objs
  BY Places DEF LifeInv, RecvInv
<1> HIDE DEF o
<1>4. /\ \A p \in Objs : Live(p)' <=> Live(p)
      /\ \A p \in Objs : Live(p) => obj'[p] = obj[p]
      /\ \A p \in Objs : obj'[p] = obj[p] \/ (obj'[p].mem = "unused" /\ obj'[p].name = NoName)
  <2>1. obj \in [Objs -> Links] /\ NoLink.mem = "unused" /\ NoLink.name = NoName
    BY Places DEF NoLink
  <2>2. obj'[o] = (IF obj[o].mem = "freed" THEN NoLink ELSE obj[o])
        /\ \A p \in Objs : p # o => obj'[p] = obj[p]
    BY <1>2, <1>3, <2>1
  <2>3. \A p \in Objs : Live(p) => obj'[p] = obj[p]
    BY <2>2 DEF Live
  <2>4. \A p \in Objs : obj'[p] = obj[p] \/ (obj'[p].mem = "unused" /\ obj'[p].name = NoName)
    BY <2>1, <2>2
  <2> QED BY <2>3, <2>4 DEF Live
<1>5. /\ Tabled' = Tabled /\ Tabled \subseteq Objs /\ (\A x : ~Waits(x)')
      /\ (\A b : Known(b)' <=> Known(b))
      /\ \A p \in Tabled : Live(p) /\ obj'[p] = obj[p]
  BY <1>1, <1>2, <1>4, Places DEF Tabled, Waits, Known, LifeInv, TableInv
<1>6. MailInv' /\ DiscInv' /\ CallInv' /\ \A p : Told(p)' <=> Told(p)
  <2>1. \A p : Told(p)' <=> Told(p)
    BY <1>2 DEF Told
  <2>2. MailInv' /\ CallInv'
    BY <1>1, <1>2, <1>5 DEF MailInv, Apart, CallInv
  <2>3. DiscInv'
    BY <1>5, <2>1 DEF LifeInv, DiscInv, Bound
  <2> QED BY <2>1, <2>2, <2>3
<1>7. BootInv'
  <2>1. PICK p \in Tabled : obj[p].name = Serial0
    BY <1>1
  <2>2. p \in Tabled' /\ obj'[p].name = Serial0
    BY <1>5, <2>1
  <2>3. booted' = 3 /\ Queued(sys_event')
    BY <1>1, <1>2 DEF LifeInv, BootInv
  <2> QED BY <1>5, <2>2, <2>3 DEF BootInv
<1>8. AppInv'
  BY <1>1, <1>2, <1>5 DEF LifeInv, AppInv, Born
<1>9. \A s \in HwSocks : sock'[s] = "free" => sock[s] = "free" \/ r.name = Name("wh", s)
  <2>1. PICK c \in ClosedBy(r) : sock' = [s \in DOMAIN sock |-> IF s = c THEN "free" ELSE sock[s]]
    BY DEF RecvClose
  <2>2. sock \in [Socks \cup HwSocks -> {"free", "open", "reset"}]
    BY Shape
  <2>3. ASSUME NEW s \in HwSocks, s = c PROVE r.name = Name("wh", s)
    <3>1. CASE r.name.kind = "wh"
      <4>1. s = r.name.of
        BY <2>3, <3>1 DEF ClosedBy
      <4> QED BY <1>3, <3>1, <4>1, NamesDiffer
    <3>2. CASE r.name.kind # "wh"
      <4>1. c \in Socks \cup {BadSock} \/ c \notin HwSocks
        BY <3>2 DEF ClosedBy
      <4> QED BY <2>3, <4>1
    <3> QED BY <3>1, <3>2
  <2> QED BY <2>1, <2>2, <2>3
<1>10. NameInv'
  <2>1. \A p \in Objs : Live(p)' => obj'[p].name \in LinkNames
    BY <1>4 DEF LifeInv, NameInv
  <2>2. \A p, q \in Objs : Live(p)' /\ Live(q)' /\ obj'[p].name = obj'[q].name => p = q
    BY <1>4 DEF LifeInv, NameInv
  <2>3. ASSUME NEW s \in HwSocks, sock'[s] = "free", NEW q \in recvs' PROVE q.name # Name("wh", s)
    BY <1>2, <1>9, <2>3 DEF LifeInv, NameInv, RecvInv
  <2> QED BY <1>5, <2>1, <2>2, <2>3 DEF NameInv
<1>11. TableInv'
  <2>1. Once(sys_link_obj')
    BY <1>2 DEF LifeInv, TableInv
  <2>2. \A p \in Objs : Live(p)' /\ p \notin Tabled' =>
          obj'[p].tid = "none" /\ obj'[p].applayer_id = NoApp /\ obj'[p].name \in NetNames
    BY <1>4, <1>5 DEF LifeInv, TableInv
  <2>3. \A p \in Objs : Live(p)' /\ obj'[p].name = Serial0 => obj'[p].tid # "deleted"
    BY <1>4 DEF LifeInv, TableInv
  <2>4. \A p \in Objs : Live(p)' /\ obj'[p].applayer_id # NoApp => Known(obj[p].applayer_id)'
    BY <1>4, <1>5 DEF LifeInv, TableInv
  <2>5. \A p \in Objs : Live(p)' => obj'[p].applayer_id = obj[p].applayer_id
    BY <1>4
  <2> QED BY <1>4, <1>5, <2>1, <2>2, <2>3, <2>4, <2>5 DEF TableInv
<1>12. RecvInv'
  <2>1. ASSUME NEW q \in recvs
        PROVE  /\ Starting(q) => Starting(q)'
               /\ Looping(q) => Looping(q)'
               /\ Closing(q) => Closing(q)'
    <3>1. Attends(q) => Attends(q)' /\ obj'[q.link] = obj[q.link]
      BY <1>5 DEF Attends
    <3>2. Gone(q) => Gone(q)'
      <4>1. \A n : NoLive(n)' <=> NoLive(n)
        BY <1>4 DEF NoLive
      <4> QED BY <1>5, <4>1 DEF Gone
    <3>3. Starting(q) => Starting(q)'
      BY <1>1, <3>1 DEF Starting, Bound
    <3>4. Looping(q) => Looping(q)'
      BY <1>2, <1>6, <3>1 DEF Looping, Bound
    <3>5. Closing(q) => Closing(q)'
      BY <1>1, <1>6, <3>1, <3>2 DEF Closing
    <3> QED BY <3>3, <3>4, <3>5
  <2>2. recvs' \subseteq recvs
    BY <1>2
  <2> QED BY <1>5, <2>1, <2>2 DEF LifeInv, RecvInv
<1>13. SlotInv'
  <2>1. slots' = slots
    BY <1>2
  <2> QED BY <1>5, <2>1 DEF LifeInv, SlotInv, Bound
<1> QED BY <1>6, <1>7, <1>8, <1>10, <1>11, <1>12, <1>13 DEF LifeInv

(* What free memory holds is nobody's name: no call is about it.           *)
LEMMA OverwriteKeeps == ASSUME TypeInv, LifeInv, NEW o \in Objs, Overwrite(o) PROVE LifeInv'
<1>1. /\ obj[o].mem = "freed" /\ ~Live(o)
      /\ UNCHANGED <<mailVars, linkVars, booted, tableVars, netVars>>
  BY DEF Overwrite, Live
<1>2. /\ obj'[o].mem = "freed" /\ \A p \in Objs : p # o => obj'[p] = obj[p]
  <2>1. PICK s \in Socks \cup {BadSock} : obj' = [obj EXCEPT ![o].name = Name("none", s)]
    BY DEF Overwrite
  <2>2. obj \in [Objs -> Links]
    BY Places
  <2>3. obj' = [obj EXCEPT ![o] = [obj[o] EXCEPT !.name = Name("none", s)]]
    BY <2>1, <2>2
  <2> QED BY <1>1, <2>2, <2>3 DEF Links
<1>3. /\ \A p \in Objs : (Live(p)' <=> Live(p)) /\ (Live(p) => obj'[p] = obj[p])
      /\ Tabled' = Tabled /\ Tabled \subseteq Objs
      /\ (\A x : Waits(x)' <=> Waits(x)) /\ (\A b : Known(b)' <=> Known(b))
      /\ (\A b : Born(b)' <=> Born(b)) /\ \A p : Told(p)' <=> Told(p)
  BY <1>1, <1>2, Places DEF Live, Tabled, Waits, Known, Born, Told
<1>4. \A p \in Tabled : p \in Objs /\ Live(p) /\ obj'[p] = obj[p]
  BY <1>3 DEF LifeInv, TableInv
<1>5. \A n : NoLive(n)' <=> NoLive(n)
  BY <1>3 DEF NoLive
<1>6. MailInv'
  <2>1. sys_event \in Seq(SysEvents) /\ Apart(obj, sys_event)
    BY Places DEF LifeInv, MailInv
  <2>2. ASSUME NEW i \in 1 .. Len(sys_event), OfLink(sys_event[i]), sys_event[i].msg.link # NoObj
        PROVE  obj'[sys_event[i].msg.link].name = obj[sys_event[i].msg.link].name
    <3> DEFINE e == sys_event[i]
               p == e.msg.link
    <3>1. e \in SysEvents /\ Waits(e)
      BY <2>1 DEF Waits, Held
    <3>1a. OfLink(e) /\ e.msg.link # NoObj
      BY <2>2
    <3> HIDE DEF e
    <3>2. p \in Objs /\ (e = DelLinkEvt(p) \/ e = StartLinkEvt(p) \/ \E a \in Apps : e = BindEvt(a, p))
      <4>1. CASE e.evt_type = "SYS_DEL_LINK"
        BY <3>1, <4>1, CallKinds
      <4>2. CASE e.evt_type = "SYS_START"
        <5>1. e.evt_sub_type = "SYS_LINK_SERIAL"
          <6>1. "SYS_APP" # "SYS_BIND" /\ "SYS_APP" # "SYS_LINK_SERIAL"
            OBVIOUS
          <6> QED BY <3>1, <3>1a, <4>2, <6>1, CallKinds, CallParts DEF OfLink
        <5> QED BY <3>1, <4>2, <5>1, CallKinds
      <4>3. CASE e.evt_type = "SYS_EDIT_PROFILE"
        <5>1. e.evt_sub_type = "SYS_BIND"
          BY <3>1, <3>1a, <4>3, CallKinds DEF OfLink, Callbacks
        <5> QED BY <3>1, <4>3, <5>1, CallKinds
      <4>4. CASE e.evt_type \in {"SYS_CREATE_LINK", "SYS_CREATE_APP"}
        BY <3>1, <3>1a, <4>4, CallKinds, CallParts
      <4> QED BY <3>1, <4>1, <4>2, <4>3, <4>4, CallKinds
    <3>3. Live(p)
      BY <1>4, <3>1, <3>2 DEF LifeInv, CallInv
    <3> QED BY <1>3, <3>2, <3>3 DEF e
  <2> DEFINE ns == obj'
  <2>3. \A i \in 1 .. Len(sys_event) : OfLink(sys_event[i]) /\ sys_event[i].msg.link # NoObj =>
          ns[sys_event[i].msg.link].name = obj[sys_event[i].msg.link].name
    BY <2>2
  <2> HIDE DEF ns
  <2>4. Apart(ns, sys_event)
    BY <2>1, <2>3, CallersStay
  <2> QED BY <1>1, <2>4 DEF MailInv, Apart, ns
<1>7. BootInv' /\ AppInv'
  <2>1. BootInv'
    BY <1>1, <1>3, <1>4 DEF LifeInv, BootInv, Queued, Fresh, NoNet, Waits
  <2>2. AppInv'
    BY <1>1, <1>3 DEF LifeInv, AppInv
  <2> QED BY <2>1, <2>2
<1>8. NameInv'
  BY <1>1, <1>3, <1>5 DEF LifeInv, NameInv
<1>9. TableInv'
  BY <1>1, <1>3, <1>4 DEF LifeInv, TableInv
<1>10. RecvInv' /\ DiscInv'
  <2>1. \A r : /\ Attends(r) => Attends(r)' /\ r.link \in Tabled /\ obj'[r.link] = obj[r.link]
               /\ Gone(r)' <=> Gone(r)
    BY <1>3, <1>4, <1>5 DEF Attends, Gone
  <2>2. \A r : /\ Starting(r) => Starting(r)'
               /\ Looping(r) => Looping(r)'
               /\ Closing(r) => Closing(r)'
    BY <1>1, <1>3, <2>1 DEF Starting, Looping, Closing, Bound
  <2>3. DiscInv'
    BY <1>3, <1>4 DEF LifeInv, DiscInv, Bound
  <2> QED BY <1>1, <2>2, <2>3 DEF LifeInv, RecvInv
<1>11. CallInv'
  BY <1>1, <1>3, <1>4 DEF LifeInv, CallInv
<1>12. SlotInv'
  <2>1. slots' = slots
    BY <1>1
  <2> QED BY <1>3, <1>4, <2>1 DEF LifeInv, SlotInv, Bound
<1> QED BY <1>6, <1>7, <1>8, <1>9, <1>10, <1>11, <1>12 DEF LifeInv
-----------------------------------------------------------------------------
(* The invariant of the registry's order.                                  *)
LEMMA OrderInit == Init => OrderInv
<1> SUFFICES ASSUME Init PROVE OrderInv
  OBVIOUS
<1>1. /\ sys_event = <<>> /\ recvs = {} /\ booted = 0 /\ \A o : ~Told(o)
      /\ sys_app_obj = <<>>
      /\ \A o \in Objs : obj[o].mem = "unused" /\ obj[o].name = NoName
      /\ \A a \in Apps : \A i \in 1 .. CFG_LINK_MAX : slots[a][i] = NoObj
  BY DEF Init, NoLink, Told
<1>2. sys_link_obj.size = 0 /\ Tabled = {}
  BY <1>1 DEF Init, arraylist_create, Tabled, Listed, Iterated
<1>3. Held(sys_event) = {} /\ Len(sys_event) = 0
  BY <1>1 DEF Held
<1>4. \A o \in Objs : ~Live(o)
  BY <1>1 DEF Live
<1>5. \A e : ~Waits(e)
  BY <1>3 DEF Waits
<1>6. MailInv
  BY <1>3 DEF MailInv, Apart
<1>7. BootInv
  BY <1>1, <1>2, <1>3, <1>4, <1>5 DEF BootInv, Queued, Fresh, NoNet
<1>8. AppInv
  BY <1>1, <1>5 DEF AppInv, Born, Known, iec_sys_find_app
<1>9. NameInv
  BY <1>1, <1>4, <1>5 DEF NameInv
<1>10. TableInv
  BY <1>2, <1>4 DEF TableInv, Once
<1>11. RecvInv /\ DiscInv /\ CallInv
  BY <1>1, <1>5 DEF RecvInv, DiscInv, CallInv
<1>12. SlotInv
  BY <1>1, <1>2 DEF SlotInv
<1> QED BY TypeInit, <1>6, <1>7, <1>8, <1>9, <1>10, <1>11, <1>12 DEF OrderInv, LifeInv

(* A system that went astray does not come back.                           *)
LEMMA AstrayStays == ASSUME [Next]_vars, ~astray' PROVE ~astray
<1>1. \A mb : Calls(mb) => ~astray
  BY Zenon DEF Calls
<1>2. \A n : Connects(n) => ~astray
  BY DEF Connects
<1>3. CASE UNCHANGED vars
  BY <1>3, Zenon DEF vars, mailVars
<1>4. CASE Boot \/ Main \/ LinkThreads
  BY <1>1, <1>4, Zenon DEF Boot, Main, CreateLink, RejectLink, CreateApp, StartLink, StartApp,
     Bind, DelLink, SetCb, LinkThreads, Disconnect
<1>5. CASE RecvThreads
  BY <1>5, Zenon DEF RecvThreads, Recv, RecvStart, RecvErr, RecvClose, mailVars
<1>6. CASE \/ AcceptFails
           \/ \E s \in Socks : Accept(s)
           \/ \E s \in HwSocks : HwConnects(s)
  BY <1>2, <1>6, Zenon DEF AcceptFails, Accept, HwConnects
<1>7. CASE \/ \E s \in Socks \cup HwSocks : PeerCloses(s)
           \/ \E o \in Objs : NotifyClose(o) \/ Overwrite(o)
  BY <1>7, Zenon DEF PeerCloses, NotifyClose, Overwrite, mailVars
<1> QED BY <1>3, <1>4, <1>5, <1>6, <1>7 DEF Next

LEMMA StillKeeps == LifeInv /\ UNCHANGED vars => LifeInv'
<1> SUFFICES ASSUME LifeInv, UNCHANGED vars PROVE LifeInv'
  OBVIOUS
<1>1. /\ sys_event' = sys_event /\ sys_link_obj' = sys_link_obj /\ sys_app_obj' = sys_app_obj
      /\ obj' = obj /\ disconnect' = disconnect /\ unheard' = unheard /\ slots' = slots /\ app' = app
      /\ recvs' = recvs /\ sock' = sock /\ booted' = booted
  BY DEF vars
<1>2. /\ \A e : Waits(e)' <=> Waits(e)
      /\ \A o : Live(o)' <=> Live(o)
      /\ \A n : NoLive(n)' <=> NoLive(n)
      /\ \A a : Known(a)' <=> Known(a)
      /\ \A a : Born(a)' <=> Born(a)
      /\ \A o : Told(o)' <=> Told(o)
      /\ Tabled' = Tabled
  BY <1>1 DEF Waits, Live, NoLive, Known, Born, Told, Tabled
<1>3. MailInv' /\ BootInv' /\ AppInv'
  BY <1>1, <1>2 DEF LifeInv, MailInv, BootInv, AppInv, Fresh, NoNet
<1>4. NameInv' /\ TableInv'
  BY <1>1, <1>2 DEF LifeInv, NameInv, TableInv
<1>5. RecvInv' /\ DiscInv'
  <2>1. \A r : (Attends(r)' <=> Attends(r)) /\ (Gone(r)' <=> Gone(r))
    BY <1>1, <1>2 DEF Attends, Gone
  <2>2. \A o : Bound(o)' <=> Bound(o)
    BY <1>1 DEF Bound
  <2>3. \A r : /\ Starting(r)' <=> Starting(r)
               /\ Looping(r)' <=> Looping(r)
               /\ Closing(r)' <=> Closing(r)
    BY <1>1, <1>2, <2>1, <2>2 DEF Starting, Looping, Closing
  <2> QED BY <1>1, <1>2, <2>2, <2>3 DEF LifeInv, RecvInv, DiscInv
<1>6. CallInv' /\ SlotInv'
  BY <1>1, <1>2 DEF LifeInv, CallInv, SlotInv, Bound
<1> QED BY <1>3, <1>4, <1>5, <1>6 DEF LifeInv

LEMMA OrderStays == OrderInv /\ [Next]_vars => OrderInv'
<1> SUFFICES ASSUME OrderInv, [Next]_vars PROVE OrderInv'
  OBVIOUS
<1>1. TypeInv /\ TypeInv'
  BY TypeStays DEF OrderInv
<1>2. SUFFICES ASSUME ~astray' PROVE LifeInv'
  BY <1>1 DEF OrderInv
<1>3. LifeInv
  BY <1>1, <1>2, AstrayStays DEF OrderInv
<1>4. CASE UNCHANGED vars
  BY <1>3, <1>4, StillKeeps
<1>5. CASE Boot
  BY <1>1, <1>2, <1>3, <1>5, BootKeeps
<1>6. CASE Main
  BY <1>1, <1>2, <1>3, <1>6, CreateLinkKeeps, RejectLinkKeeps, CreateAppKeeps, StartLinkKeeps,
     AppKeeps, BindKeeps, DelLinkKeeps DEF Main
<1>7. CASE LinkThreads
  BY <1>1, <1>2, <1>3, <1>7, DisconnectKeeps DEF LinkThreads
<1>8. CASE RecvThreads
  BY <1>1, <1>3, <1>8, RecvStartKeeps, RecvErrKeeps, RecvCloseKeeps DEF RecvThreads, Recv
<1>9. CASE \E o \in Objs : Overwrite(o)
  BY <1>1, <1>3, <1>9, OverwriteKeeps
<1>10. CASE \/ AcceptFails
            \/ \E s \in Socks : Accept(s)
            \/ \E s \in HwSocks : HwConnects(s)
            \/ \E s \in Socks \cup HwSocks : PeerCloses(s)
            \/ \E o \in Objs : NotifyClose(o)
  BY <1>1, <1>2, <1>3, <1>10, NetKeeps
<1> QED BY <1>4, <1>5, <1>6, <1>7, <1>8, <1>9, <1>10 DEF Next

LEMMA OrderHolds == Spec => []OrderInv
<1>1. OrderInv /\ [Next]_vars => OrderInv'
  BY OrderStays
<1> QED BY <1>1, OrderInit, PTL DEF Spec
-----------------------------------------------------------------------------
(* When the receive thread has started a link, the link is in the table,   *)
(* bound, has its driver and its thread, and the application runs with its *)
(* callbacks, for any number of connections: the thread of the lower       *)
(* priority runs when the main thread's mailbox is empty.                  *)
THEOREM ServedAreBound == Spec => []ServedIsBound
<1>1. OrderInv => ServedIsBound
  <2> SUFFICES ASSUME OrderInv, NEW r \in recvs, r.pc = "loop", ~astray
               PROVE  LET l == obj[r.link] IN
                      /\ Live(r.link) /\ l.tid = "run" /\ l.write /\ r.link \in Listed(sys_link_obj)
                      /\ l.applayer_id = "iec104"
                      /\ \E i \in 1 .. CFG_LINK_MAX : slots["iec104"][i] = r.link
                      /\ app["iec104"] = [running |-> TRUE, cbs |-> Callbacks]
    BY DEF ServedIsBound
  <2>1. TypeInv /\ LifeInv
    BY DEF OrderInv
  <2>2. Looping(r)
    BY <2>1 DEF LifeInv, RecvInv
  <2>3. /\ r.link \in Tabled /\ obj[r.link].tid = "run" /\ obj[r.link].write /\ Bound(r.link)
        /\ app["iec104"] = [running |-> TRUE, cbs |-> Callbacks]
    BY <2>2 DEF Looping, Attends
  <2>4. Live(r.link)
    BY <2>1, <2>3 DEF LifeInv, TableInv
  <2>5. \E i \in 1 .. CFG_LINK_MAX : slots["iec104"][i] = r.link
    BY <2>1, <2>3 DEF LifeInv, SlotInv, Bound, Apps
  <2> QED BY <2>3, <2>4, <2>5 DEF Tabled, Bound
<1> QED BY <1>1, OrderHolds, PTL

(* An application never holds a link whose memory was freed, and has every *)
(* link once: DelLink of the main thread comes after net_link_del took the *)
(* link from the application.                                              *)
THEOREM SlotsHoldLive == Spec => []SlotsAreLive
<1>1. OrderInv => SlotsAreLive
  <2> SUFFICES ASSUME OrderInv, ~astray, NEW a \in Apps, NEW i \in 1 .. CFG_LINK_MAX,
                      NEW j \in 1 .. CFG_LINK_MAX, slots[a][i] # NoObj
               PROVE  Live(slots[a][i]) /\ (slots[a][i] = slots[a][j] => i = j)
    BY DEF SlotsAreLive
  <2>1. LifeInv
    BY DEF OrderInv
  <2>2. slots[a][i] \in Tabled
    BY <2>1 DEF LifeInv, SlotInv
  <2>3. Live(slots[a][i])
    BY <2>1, <2>2 DEF LifeInv, TableInv
  <2>4. slots[a][i] = slots[a][j] => i = j
    BY <2>1 DEF LifeInv, SlotInv
  <2> QED BY <2>3, <2>4
<1> QED BY <1>1, OrderHolds, PTL

(* The table of links never holds freed memory or one link twice, and      *)
(* holds every link that an application has or that has a thread.          *)
THEOREM TableHoldsLive == Spec => []ListedAreLive
<1>1. OrderInv => ListedAreLive
  <2> SUFFICES ASSUME OrderInv, ~astray
               PROVE  /\ Once(sys_link_obj)
                      /\ \A o \in Tabled : Live(o)
                      /\ \A o \in Objs : Live(o) /\ (Slotted(o) \/ obj[o].tid = "run") => o \in Tabled
    BY DEF ListedAreLive, Once, Tabled
  <2>1. TypeInv /\ LifeInv
    BY DEF OrderInv
  <2>2. Once(sys_link_obj) /\ \A o \in Tabled : Live(o)
    BY <2>1 DEF LifeInv, TableInv
  <2>3. ASSUME NEW o \in Objs, Live(o), obj[o].tid = "run" PROVE o \in Tabled
    BY <2>1, <2>3 DEF LifeInv, TableInv
  <2>4. ASSUME NEW o \in Objs, Slotted(o) PROVE o \in Tabled
    <3>1. PICK a \in Apps : \E i \in DOMAIN slots[a] : slots[a][i] = o
      BY <2>4 DEF Slotted
    <3>2. DOMAIN slots[a] = 1 .. CFG_LINK_MAX
      BY <2>1, Places
    <3>3. o # NoObj
      BY <2>1, Places
    <3> QED BY <2>1, <3>1, <3>2, <3>3 DEF LifeInv, SlotInv
  <2> QED BY <2>2, <2>3, <2>4
<1> QED BY <1>1, OrderHolds, PTL
-----------------------------------------------------------------------------
(* Only the main thread frees a link.                                      *)
LEMMA OthersFreeNothing ==
  ASSUME TypeInv, [Next]_vars, ~DelLink, NEW o \in Objs, Live(o)
  PROVE  obj'[o].mem # "freed"
<1>1. obj \in [Objs -> Links] /\ obj[o].mem = "live"
  BY Places DEF Live
<1>2. CASE obj' = obj
  BY <1>1, <1>2
<1>3. ASSUME NEW p \in Objs, CreateLink(p) \/ RejectLink(p) PROVE obj'[o].mem # "freed"
  <2>1. o # p
    BY <1>1, <1>3 DEF CreateLink, RejectLink, Cells
  <2>2. obj'[o] = obj[o]
    <3>1. CASE CreateLink(p)
      BY <1>1, <2>1, <3>1 DEF CreateLink
    <3>2. CASE RejectLink(p)
      BY <1>1, <2>1, <3>2 DEF RejectLink
    <3> QED BY <1>3, <3>1, <3>2
  <2> QED BY <1>1, <2>2
<1>4. CASE StartLink
  BY <1>1, <1>4 DEF StartLink, Links
<1>5. CASE Bind
  BY <1>1, <1>5 DEF Bind, Links
<1>6. ASSUME NEW p \in Objs, Disconnect(p) PROVE obj'[o].mem # "freed"
  BY <1>1, <1>6 DEF Disconnect, Links
<1>7. ASSUME NEW p \in Objs, NotifyClose(p) PROVE obj'[o].mem # "freed"
  BY <1>1, <1>7 DEF NotifyClose, Links
<1>8. ASSUME NEW p \in Objs, Overwrite(p) PROVE obj'[o].mem # "freed"
  BY <1>1, <1>8 DEF Overwrite, Links
<1>9. ASSUME NEW r \in recvs, RecvStart(r) PROVE obj'[o].mem # "freed"
  <2>1. r.link \in Objs
    BY Places
  <2>2. obj' = [obj EXCEPT ![r.link] = [obj[r.link] EXCEPT !.write = TRUE, !.close_sem = 0, !.tid = "run"]]
    BY <1>1, <1>9, <2>1 DEF RecvStart
  <2> QED BY <1>1, <2>1, <2>2 DEF Links
<1>10. ASSUME NEW r \in recvs, RecvClose(r) PROVE obj'[o].mem # "freed"
  BY <1>1, <1>10 DEF RecvClose
<1>11. Boot => obj' = obj
  BY DEF Boot
<1>12. CreateApp \/ StartApp \/ (\E cb \in Callbacks : SetCb(cb)) => obj' = obj
  BY DEF CreateApp, StartApp, SetCb
<1>13. (\E r \in recvs : RecvErr(r)) => obj' = obj
  BY DEF RecvErr
<1>14. /\ AcceptFails \/ (\E s \in Socks : Accept(s)) => obj' = obj
       /\ (\E s \in HwSocks : HwConnects(s)) => obj' = obj
       /\ (\E s \in Socks \cup HwSocks : PeerCloses(s)) => obj' = obj
  BY DEF AcceptFails, Accept, HwConnects, PeerCloses
<1>15. UNCHANGED vars => obj' = obj
  BY DEF vars
<1>16. CASE Main
  BY <1>2, <1>3, <1>4, <1>5, <1>12, <1>16 DEF Main
<1>17. CASE LinkThreads \/ RecvThreads
  BY <1>2, <1>6, <1>9, <1>10, <1>13, <1>17 DEF LinkThreads, RecvThreads, Recv
<1> QED BY <1>2, <1>7, <1>8, <1>11, <1>14, <1>15, <1>16, <1>17 DEF Next

(* The memory of a link is freed only after its thread was deleted and     *)
(* when its receive thread has asked for that: a connection that is        *)
(* refused or fails takes nobody else's memory.                            *)
THEOREM FreedAtItsEnd == Spec => FreedOnlyAtItsEnd
<1> DEFINE Step == \A o \in Objs : Live(o) /\ obj'[o].mem = "freed" /\ ~astray =>
                     obj[o].tid = "deleted" /\ \A r \in recvs : r.link = o => r.pc = "close"
<1>1. OrderInv /\ [Next]_vars => [Step]_vars
  <2> SUFFICES ASSUME OrderInv, [Next]_vars, NEW o \in Objs, Live(o), obj'[o].mem = "freed", ~astray
               PROVE  obj[o].tid = "deleted" /\ \A r \in recvs : r.link = o => r.pc = "close"
    BY DEF Step
  <2>1. TypeInv /\ LifeInv
    BY DEF OrderInv
  <2>2. DelLink
    BY <2>1, OthersFreeNothing
  <2>3. MainRuns /\ Head(sys_event).evt_type = "SYS_DEL_LINK"
    BY <2>2 DEF DelLink, MainTakes
  <2>4. Msg.link \in Objs /\ Waits(DelLinkEvt(Msg.link))
    BY <2>1, <2>3, MainTook, CallKinds DEF Msg
  <2>5. obj[o].mem = "live" /\ obj \in [Objs -> Links]
    BY <2>1, Places DEF Live
  <2>6. o = Msg.link /\ Hits(sys_link_obj, obj, obj[o].name) # {}
    BY <2>2, <2>4, <2>5 DEF DelLink
  <2>7. PICK p \in Tabled : obj[p].name = obj[o].name
    BY <2>6 DEF Hits, Tabled, Listed, Iterated
  <2>8. p = o
    BY <2>1, <2>7, Places DEF LifeInv, TableInv, NameInv
  <2>9. obj[o].tid = "deleted"
    BY <2>1, <2>4, <2>6, <2>7, <2>8 DEF LifeInv, CallInv
  <2>10. ASSUME NEW r \in recvs, r.link = o PROVE r.pc = "close"
    <3>1. r.pc \in {"start", "loop", "close"}
      BY <2>1, Places
    <3>2. ~Starting(r) /\ ~Looping(r)
      BY <2>9, <2>10 DEF Starting, Looping
    <3> QED BY <2>1, <3>1, <3>2 DEF LifeInv, RecvInv
  <2> QED BY <2>9, <2>10
<1> QED BY <1>1, OrderHolds, PTL DEF Spec, FreedOnlyAtItsEnd
-----------------------------------------------------------------------------
(* The life of a connection, read from the one link of its name.           *)
Stage(T, os, c) ==
  LET ls == {o \in T : os[o].name = c}
  IN  IF ls = {} THEN "absent"
      ELSE IF \E o \in ls : os[o].tid = "none" THEN "known"
      ELSE IF \E o \in ls : os[o].tid = "deleted" THEN "ending"
      ELSE IF \A o \in ls : os[o].applayer_id = "iec104" THEN "served" ELSE "unbound"

StageOf(tid) == IF tid = "none" THEN "known" ELSE IF tid = "deleted" THEN "ending" ELSE "served"

\* The links of the table have one name each, and those that run are bound.
Plain(T, os) == /\ \A o, p \in T : os[o].name = os[p].name => o = p
                /\ \A o \in T : os[o].name \in Conns /\ os[o].tid = "run" => os[o].applayer_id = "iec104"
                /\ \A o \in T : os[o].tid \in {"none", "run", "deleted"}

LEMMA StageIs ==
  ASSUME NEW T, NEW os, Plain(T, os), NEW c \in Conns
  PROVE  /\ (\A o \in T : os[o].name # c) => Stage(T, os, c) = "absent"
         /\ \A o \in T : os[o].name = c => Stage(T, os, c) = StageOf(os[o].tid)
<1> DEFINE ls == {o \in T : os[o].name = c}
<1>1. (\A o \in T : os[o].name # c) => Stage(T, os, c) = "absent"
  BY DEF Stage
<1>2. ASSUME NEW o \in T, os[o].name = c PROVE Stage(T, os, c) = StageOf(os[o].tid)
  <2>1. ls = {o}
    BY <1>2 DEF Plain
  <2>2. /\ os[o].tid \in {"none", "run", "deleted"}
        /\ os[o].tid = "run" => os[o].applayer_id = "iec104"
    BY <1>2 DEF Plain
  <2>3. Stage(T, os, c) =
          IF ls = {} THEN "absent"
          ELSE IF \E p \in ls : os[p].tid = "none" THEN "known"
          ELSE IF \E p \in ls : os[p].tid = "deleted" THEN "ending"
          ELSE IF \A p \in ls : os[p].applayer_id = "iec104" THEN "served" ELSE "unbound"
    BY DEF Stage
  <2> HIDE DEF ls
  <2> QED BY <2>1, <2>2, <2>3 DEF StageOf
<1> QED BY <1>1, <1>2

LEMMA TablePlain == TypeInv /\ LifeInv => Plain(Tabled, obj)
<1> SUFFICES ASSUME TypeInv, LifeInv PROVE Plain(Tabled, obj)
  OBVIOUS
<1>1. Tabled \subseteq Objs /\ obj \in [Objs -> Links]
  BY Places
<1>2. \A o \in Tabled : obj[o].tid \in {"none", "run", "deleted"}
  BY <1>1 DEF Links
<1>3. \A o, p \in Tabled : obj[o].name = obj[p].name => o = p
  BY <1>1 DEF LifeInv, TableInv, NameInv
<1>4. \A o \in Tabled : obj[o].name \in Conns /\ obj[o].tid = "run" => obj[o].applayer_id = "iec104"
  BY DEF LifeInv, SlotInv, Bound, NetNames
<1> QED BY <1>2, <1>3, <1>4 DEF Plain

Lives == [c \in Conns |-> LifeOf(c)]

(* A step that changes at most the link of one connection, seen by its     *)
(* life: the table gains or loses the link o, or o's thread changes.       *)
LEMMA LivesMove ==
  ASSUME TypeInv, LifeInv, ~astray, TypeInv', LifeInv', ~astray', NEW o, NEW n,
         \A p \in Tabled : p # o => /\ p \in Tabled' /\ obj'[p].name = obj[p].name
                                    /\ obj[p].name \in Conns => obj'[p].tid = obj[p].tid,
         \A p \in Tabled' : p # o => p \in Tabled,
         o \in Tabled => obj[o].name = n, o \in Tabled' => obj'[o].name = n
  PROVE  /\ \A c \in Conns : c # n => Lives'[c] = Lives[c]
         /\ n \in Conns /\ o \in Tabled => Lives[n] = StageOf(obj[o].tid)
         /\ n \in Conns /\ o \in Tabled' => Lives'[n] = StageOf(obj'[o].tid)
         /\ n \in Conns /\ (\A p \in Tabled : obj[p].name # n) => Lives[n] = "absent"
         /\ n \in Conns /\ (\A p \in Tabled' : obj'[p].name # n) => Lives'[n] = "absent"
         /\ n \notin Conns => Lives' = Lives
<1>0. Plain(Tabled, obj)'
  BY TablePlain, PTL
<1> DEFINE T == Tabled
           U == Tabled'
           os == obj
           ps == obj'
<1>1. Plain(T, os) /\ Plain(U, ps)
  BY <1>0, TablePlain
<1>2. \A c : LifeOf(c) = Stage(T, os, c) /\ LifeOf(c)' = Stage(U, ps, c)
  BY DEF LifeOf, Stage, Tabled
<1>3. \A c \in Conns : Lives[c] = Stage(T, os, c) /\ Lives'[c] = Stage(U, ps, c)
  BY <1>2 DEF Lives
<1>4. \A p \in T : p # o => p \in U /\ ps[p].name = os[p].name /\ (os[p].name \in Conns => ps[p].tid = os[p].tid)
  OBVIOUS
<1>5. /\ \A p \in U : p # o => p \in T
      /\ o \in T => os[o].name = n
      /\ o \in U => ps[o].name = n
  OBVIOUS
<1> HIDE DEF T, U, os, ps
<1>6. ASSUME NEW c \in Conns, c # n PROVE Stage(U, ps, c) = Stage(T, os, c)
  <2>1. CASE \A p \in T : os[p].name # c
    <3>1. \A p \in U : ps[p].name # c
      BY <1>4, <1>5, <1>6, <2>1
    <3> QED BY <1>1, <2>1, <3>1, StageIs
  <2>2. CASE \E p \in T : os[p].name = c
    <3>1. PICK p \in T : os[p].name = c
      BY <2>2
    <3>2. p \in U /\ ps[p].name = c /\ ps[p].tid = os[p].tid
      BY <1>4, <1>5, <1>6, <3>1
    <3> QED BY <1>1, <3>1, <3>2, StageIs
  <2> QED BY <2>1, <2>2
<1>7. ASSUME n \in Conns
      PROVE  /\ o \in T => Stage(T, os, n) = StageOf(os[o].tid)
             /\ o \in U => Stage(U, ps, n) = StageOf(ps[o].tid)
             /\ (\A p \in T : os[p].name # n) => Stage(T, os, n) = "absent"
             /\ (\A p \in U : ps[p].name # n) => Stage(U, ps, n) = "absent"
  BY <1>1, <1>5, <1>7, StageIs
<1>8. \A c \in Conns : c # n => Lives'[c] = Lives[c]
  BY <1>3, <1>6
<1>9. ASSUME n \notin Conns PROVE Lives' = Lives
  <2>1. \A c \in Conns : Lives'[c] = Lives[c]
    BY <1>8, <1>9
  <2> QED BY <2>1 DEF Lives
<1> QED BY <1>3, <1>7, <1>8, <1>9 DEF T, U, os, ps
(* A step that changes neither the table nor the thread of a connection's  *)
(* link changes no life.                                                   *)
LEMMA LivesStay ==
  ASSUME TypeInv, LifeInv, ~astray, TypeInv', LifeInv', ~astray', Tabled' = Tabled,
         \A p \in Tabled : /\ obj'[p].name = obj[p].name
                           /\ obj[p].name \in Conns => obj'[p].tid = obj[p].tid
  PROVE  Lives' = Lives
<1>1. NoObj \notin Tabled /\ NoName \notin Conns
  <2>1. NoName \notin Conns
    BY DEF NoName, Conns, Name
  <2> QED BY <2>1, Places
<1>2. /\ \A p \in Tabled : p # NoObj =>
            /\ p \in Tabled' /\ obj'[p].name = obj[p].name
            /\ obj[p].name \in Conns => obj'[p].tid = obj[p].tid
      /\ \A p \in Tabled' : p # NoObj => p \in Tabled
      /\ NoObj \in Tabled => obj[NoObj].name = NoName
      /\ NoObj \in Tabled' => obj'[NoObj].name = NoName
  BY <1>1
<1> QED BY <1>1, <1>2, LivesMove

Quiet == \/ Boot \/ CreateApp \/ StartLink \/ StartApp \/ Bind \/ AcceptFails
         \/ \E o \in Objs : RejectLink(o) \/ NotifyClose(o) \/ Overwrite(o)
         \/ \E cb \in Callbacks : SetCb(cb)
         \/ \E r \in recvs : RecvErr(r) \/ RecvClose(r)
         \/ \E s \in Socks : Accept(s)
         \/ \E s \in HwSocks : HwConnects(s)
         \/ \E s \in Socks \cup HwSocks : PeerCloses(s)
         \/ UNCHANGED vars

LEMMA QuietTable ==
  ASSUME TypeInv, LifeInv, Quiet
  PROVE  /\ Tabled' = Tabled
         /\ \A p \in Tabled : /\ obj'[p].name = obj[p].name
                              /\ obj[p].name \in Conns => obj'[p].tid = obj[p].tid
<1>1. /\ obj \in [Objs -> Links] /\ Tabled \subseteq Objs
      /\ \A p \in Tabled : obj[p].mem = "live"
      /\ Serial0 \notin Conns
  <2>1. Serial0 \notin Conns
    BY DEF Serial0, Conns, Name
  <2> QED BY <2>1, Places DEF LifeInv, TableInv, Live
<1>2. sys_link_obj' = sys_link_obj
  <2>1. CASE UNCHANGED vars
    BY <2>1 DEF vars
  <2>2. CASE Boot \/ CreateApp \/ StartLink \/ StartApp \/ Bind \/ AcceptFails
    BY <2>2 DEF Boot, CreateApp, StartLink, StartApp, Bind, AcceptFails
  <2>3. CASE \/ \E o \in Objs : RejectLink(o) \/ NotifyClose(o) \/ Overwrite(o)
             \/ \E cb \in Callbacks : SetCb(cb)
             \/ \E r \in recvs : RecvErr(r) \/ RecvClose(r)
    BY <2>3 DEF RejectLink, NotifyClose, Overwrite, SetCb, RecvErr, RecvClose
  <2>4. CASE \/ \E s \in Socks : Accept(s)
             \/ \E s \in HwSocks : HwConnects(s)
             \/ \E s \in Socks \cup HwSocks : PeerCloses(s)
    BY <2>4 DEF Accept, HwConnects, PeerCloses
  <2> QED BY <2>1, <2>2, <2>3, <2>4 DEF Quiet
<1>3. Tabled' = Tabled
  BY <1>2 DEF Tabled
<1>4. ASSUME NEW p \in Tabled
      PROVE  obj'[p].name = obj[p].name /\ (obj[p].name \in Conns => obj'[p].tid = obj[p].tid)
  <2>1. CASE obj' = obj
    BY <2>1
  <2>2. Boot \/ CreateApp \/ StartApp \/ AcceptFails \/ UNCHANGED vars => obj' = obj
    BY DEF Boot, CreateApp, StartApp, AcceptFails, vars
  <2>3. /\ (\E cb \in Callbacks : SetCb(cb)) => obj' = obj
        /\ (\E r \in recvs : RecvErr(r)) => obj' = obj
        /\ (\E s \in Socks : Accept(s)) => obj' = obj
        /\ (\E s \in HwSocks : HwConnects(s)) => obj' = obj
        /\ (\E s \in Socks \cup HwSocks : PeerCloses(s)) => obj' = obj
    BY DEF SetCb, RecvErr, Accept, HwConnects, PeerCloses
  <2>4. CASE StartLink
    <3> DEFINE o == Msg.link
    <3>1. /\ MainRuns /\ Head(sys_event).evt_type = "SYS_START"
          /\ Head(sys_event).evt_sub_type = "SYS_LINK_SERIAL"
          /\ obj' = [obj EXCEPT ![o].tid = "run"]
      BY <2>4 DEF StartLink, MainTakes
    <3>2. o \in Objs /\ Waits(StartLinkEvt(o))
      BY <3>1, MainTook, CallKinds DEF Msg
    <3>3. obj[o].name = Serial0
      BY <3>2 DEF LifeInv, CallInv
    <3> HIDE DEF o
    <3> QED BY <1>1, <3>1, <3>2, <3>3 DEF Links
  <2>5. CASE Bind
    BY <1>1, <2>5 DEF Bind, Links
  <2>6. ASSUME NEW o \in Objs, RejectLink(o) PROVE obj'[p] = obj[p]
    BY <1>1, <2>6 DEF RejectLink, Cells
  <2>7. ASSUME NEW o \in Objs, NotifyClose(o)
        PROVE  obj'[p].name = obj[p].name /\ obj'[p].tid = obj[p].tid
    BY <1>1, <2>7 DEF NotifyClose, Links
  <2>8. ASSUME NEW r \in recvs, RecvClose(r) PROVE obj'[p] = obj[p]
    BY <1>1, <2>8 DEF RecvClose
  <2>9. ASSUME NEW o \in Objs, Overwrite(o) PROVE obj'[p] = obj[p]
    BY <1>1, <2>9 DEF Overwrite
  <2> QED BY <2>1, <2>2, <2>3, <2>4, <2>5, <2>6, <2>7, <2>8, <2>9 DEF Quiet
<1> QED BY <1>3, <1>4

(* There is a place for every connection of the table.                     *)
LEMMA RoomIsPlace ==
  ASSUME TypeInv, LifeInv, ~astray, LinkRoom
  PROVE  Cardinality({c \in Conns : Lives[c] \in {"known", "served", "ending"}}) < CFG_LINK_MAX + 1
<1> DEFINE K == {c \in Conns : Lives[c] \in {"known", "served", "ending"}}
           At1(i) == obj[AsSeq(sys_link_obj)[i]].name
           f == [c \in K |-> CHOOSE i \in 1 .. sys_link_obj.size : At1(i) = c]
<1>1. \A c \in K : \E o \in Tabled : obj[o].name = c
  <2> SUFFICES ASSUME NEW c \in K, \A o \in Tabled : obj[o].name # c PROVE FALSE
    OBVIOUS
  <2>1. Stage(Tabled, obj, c) = "absent"
    BY TablePlain, StageIs
  <2>2. LifeOf(c) = Stage(Tabled, obj, c)
    BY DEF LifeOf, Stage, Tabled
  <2> QED BY <2>1, <2>2 DEF Lives
<1>2. \A c \in K : \E i \in 1 .. sys_link_obj.size : At1(i) = c
  <2>1. IsList(Objs, sys_link_obj)
    BY Places
  <2> QED BY <1>1, <2>1, TabledItems DEF Tabled
<1> HIDE DEF At1, K
<1>3. f \in Injection(K, 1 .. sys_link_obj.size)
  <2>1. \A c \in K : f[c] \in 1 .. sys_link_obj.size /\ At1(f[c]) = c
    BY <1>2
  <2>2. f \in [K -> 1 .. sys_link_obj.size]
    BY <2>1
  <2> HIDE DEF f
  <2> QED BY <2>1, <2>2 DEF Injection, IsInjective
<1>4. sys_link_obj.size \in Nat /\ sys_link_obj.size <= CFG_LINK_MAX
  BY Places DEF LinkRoom, arraylist_size
<1> HIDE DEF f
<1>5. IsFiniteSet(K) /\ Cardinality(K) <= sys_link_obj.size
  BY <1>3, <1>4, FS_Injection, Numbers
<1>6. Cardinality(K) \in Nat
  BY <1>5, FS_CardinalityType
<1>7. Cardinality(K) < CFG_LINK_MAX + 1
  BY <1>4, <1>5, <1>6
<1> QED BY <1>7 DEF K
\* One life moves, by the name of what moves it.
Moves(c, from, to) == Lives[c] = from /\ Lives' = [Lives EXCEPT ![c] = to]

LEMMA OneMoves ==
  ASSUME NEW n \in Conns, NEW from, NEW to, Lives[n] = from, Lives'[n] = to,
         \A c \in Conns : c # n => Lives'[c] = Lives[c]
  PROVE  Moves(n, from, to)
BY DEF Moves, Lives

LEMMA CreateIsLife ==
  ASSUME TypeInv, LifeInv, ~astray, TypeInv', LifeInv', ~astray', NEW o \in Objs, CreateLink(o)
  PROVE  LinkRoom /\ (Lives' = Lives \/ \E c \in Conns : Moves(c, "absent", "known"))
<1> DEFINE name == Msg.name
           made == [obj EXCEPT ![o] = Created(name)]
<1>1. MainRuns /\ Head(sys_event).evt_type = "SYS_CREATE_LINK" /\ ~Live(o) /\ LinkRoom
  BY DEF CreateLink, MainTakes, Cells, Live
<1>2. Head(sys_event) = CreateLinkEvt(name)
  BY <1>1, MainTook, CallKinds DEF Msg
<1>3. obj' = made \/ obj' = [made EXCEPT ![o].write = TRUE]
  BY DEF CreateLink
<1>4. sys_link_obj' = arraylist_add(sys_link_obj, o)
  BY DEF CreateLink
<1> HIDE DEF name
<1>5. /\ \A p \in Objs : p # o => obj'[p] = obj[p]
      /\ obj'[o].name = name /\ obj'[o].tid = "none"
  <2>1. /\ DOMAIN made = Objs /\ made[o] = Created(name)
        /\ \A p \in Objs : p # o => made[p] = obj[p]
    BY Places
  <2>2. Created(name).name = name /\ Created(name).tid = "none"
    BY DEF Created, NoLink
  <2>3. LET l == [Created(name) EXCEPT !.write = TRUE] IN l.name = name /\ l.tid = "none"
    BY DEF Created, NoLink
  <2> HIDE DEF made
  <2>4. CASE obj' = made
    BY <2>1, <2>2, <2>4
  <2>5. CASE obj' = [made EXCEPT ![o].write = TRUE]
    <3>1. /\ obj'[o] = [made[o] EXCEPT !.write = TRUE]
          /\ \A p \in Objs : p # o => obj'[p] = made[p]
      BY <2>1, <2>5
    <3> QED BY <2>1, <2>3, <3>1
  <2> QED BY <1>3, <2>4, <2>5
<1>6. NoLive(name) /\ o \notin Tabled
  BY <1>1, <1>2, CalledFor
<1>7. \A x : x \in Tabled' <=> x \in Tabled \/ x = o
  BY <1>4, Places, TabledAdd DEF Tabled
<1>8. \A p \in Tabled : p \in Objs /\ obj[p].name # name
  BY <1>6, Places DEF NoLive, LifeInv, TableInv
<1>9. /\ \A c \in Conns : c # name => Lives'[c] = Lives[c]
      /\ name \in Conns => Lives'[name] = StageOf(obj'[o].tid)
      /\ name \in Conns /\ (\A p \in Tabled : obj[p].name # name) => Lives[name] = "absent"
      /\ name \notin Conns => Lives' = Lives
  <2>1. /\ \A p \in Tabled : p # o => /\ p \in Tabled' /\ obj'[p].name = obj[p].name
                                      /\ obj[p].name \in Conns => obj'[p].tid = obj[p].tid
        /\ \A p \in Tabled' : p # o => p \in Tabled
        /\ o \in Tabled => obj[o].name = name
        /\ o \in Tabled' /\ obj'[o].name = name
    BY <1>5, <1>6, <1>7, <1>8
  <2> QED BY <2>1, LivesMove
<1>10. name \in Conns => Lives[name] = "absent" /\ Lives'[name] = "known"
  BY <1>5, <1>8, <1>9 DEF StageOf
<1> QED BY <1>1, <1>9, <1>10, OneMoves

(* The thread of a connection's link is started or deleted.                *)
LEMMA ThreadIsLife ==
  ASSUME TypeInv, LifeInv, ~astray, TypeInv', LifeInv', ~astray', NEW o \in Tabled, Tabled' = Tabled,
         \A p \in Tabled : /\ obj'[p].name = obj[p].name
                           /\ p # o => obj'[p].tid = obj[p].tid
  PROVE  \/ Lives' = Lives
         \/ \E c \in Conns : Moves(c, StageOf(obj[o].tid), StageOf(obj'[o].tid))
<1>0. PICK n : n = obj[o].name
  OBVIOUS
<1>1. /\ \A p \in Tabled : p # o => /\ p \in Tabled' /\ obj'[p].name = obj[p].name
                                    /\ obj[p].name \in Conns => obj'[p].tid = obj[p].tid
      /\ \A p \in Tabled' : p # o => p \in Tabled
      /\ o \in Tabled => obj[o].name = n
      /\ o \in Tabled' => obj'[o].name = n
  BY <1>0
<1>3. /\ \A c \in Conns : c # n => Lives'[c] = Lives[c]
      /\ n \in Conns /\ o \in Tabled => Lives[n] = StageOf(obj[o].tid)
      /\ n \in Conns /\ o \in Tabled' => Lives'[n] = StageOf(obj'[o].tid)
      /\ n \notin Conns => Lives' = Lives
  BY <1>1, LivesMove, ZenonT(60)
<1> QED BY <1>3, OneMoves

LEMMA DeleteIsLife ==
  ASSUME TypeInv, LifeInv, ~astray, TypeInv', LifeInv', ~astray', DelLink
  PROVE  Lives' = Lives \/ \E c \in Conns : Moves(c, "ending", "absent")
<1> DEFINE o == Msg.link
           hits == Hits(sys_link_obj, obj, obj[o].name)
<1>1. MainRuns /\ Head(sys_event).evt_type = "SYS_DEL_LINK"
  BY DEF DelLink, MainTakes
<1>2. o \in Objs /\ Waits(DelLinkEvt(o))
  BY <1>1, MainTook, CallKinds DEF Msg
<1>3. /\ hits = {} => UNCHANGED <<sys_link_obj, obj>>
      /\ hits # {} => /\ sys_link_obj' = arraylist_remove(sys_link_obj, Min(hits))
                      /\ obj' = [obj EXCEPT ![o].mem = "freed"]
  BY DEF DelLink
<1> HIDE DEF o
<1>4. \A p \in Tabled : p \in Objs /\ Live(p) /\ (obj[p].name = obj[o].name => p = o)
  BY <1>2, Places DEF LifeInv, CallInv, TableInv, NameInv
<1>5. CASE hits = {}
  <2>1. Tabled' = Tabled /\ obj' = obj
    BY <1>3, <1>5 DEF Tabled
  <2> QED BY <2>1, LivesStay
<1>6. CASE hits # {}
  <2>1. o \in Tabled
    <3>1. PICK p \in Tabled : obj[p].name = obj[o].name
      BY <1>6 DEF Hits, Tabled, Listed, Iterated
    <3> QED BY <1>4, <3>1
  <2>2. obj[o].tid = "deleted"
    BY <1>2, <2>1 DEF LifeInv, CallInv
  <2>3. Min(hits) \in 0 .. sys_link_obj.size - 1 /\ sys_link_obj.body[Min(hits)] = o
    BY <1>4, <2>1, FindsOwn, Places DEF Tabled
  <2>4. \A x : x \in Tabled' <=> x \in Tabled /\ x # o
    <3>1. IsList(Objs, sys_link_obj) /\ Once(sys_link_obj)
      BY Places DEF LifeInv, TableInv
    <3>2. sys_link_obj' = arraylist_remove(sys_link_obj, Min(hits))
      BY <1>3, <1>6
    <3> HIDE DEF hits
    <3>3. \A x : x \in Listed(sys_link_obj') <=> x \in Listed(sys_link_obj) /\ x # o
      BY <2>3, <3>1, <3>2, TabledRemove
    <3> QED BY <3>3 DEF Tabled
  <2>5. \A p \in Objs : p # o => obj'[p] = obj[p]
    BY <1>2, <1>3, <1>6, Places
  <2>6. PICK n : n = obj[o].name
    OBVIOUS
  <2>7. \A p \in Tabled' : obj'[p].name # n
    BY <1>4, <2>4, <2>5, <2>6
  <2>8. /\ \A p \in Tabled : p # o => /\ p \in Tabled' /\ obj'[p].name = obj[p].name
                                      /\ obj[p].name \in Conns => obj'[p].tid = obj[p].tid
        /\ \A p \in Tabled' : p # o => p \in Tabled
        /\ o \in Tabled => obj[o].name = n
        /\ o \in Tabled' => obj'[o].name = n
    BY <1>4, <2>4, <2>5, <2>6
  <2>9. /\ \A c \in Conns : c # n => Lives'[c] = Lives[c]
        /\ n \in Conns /\ o \in Tabled => Lives[n] = StageOf(obj[o].tid)
        /\ n \in Conns /\ o \in Tabled' => Lives'[n] = StageOf(obj'[o].tid)
        /\ n \in Conns /\ (\A p \in Tabled : obj[p].name # n) => Lives[n] = "absent"
        /\ n \in Conns /\ (\A p \in Tabled' : obj'[p].name # n) => Lives'[n] = "absent"
        /\ n \notin Conns => Lives' = Lives
    <3> HIDE DEF hits
    <3> QED BY <2>8, LivesMove
  <2>10. n \in Conns => Lives[n] = "ending" /\ Lives'[n] = "absent"
    BY <2>1, <2>2, <2>7, <2>9 DEF StageOf
  <2> QED BY <2>9, <2>10, OneMoves
<1> QED BY <1>5, <1>6

LEMMA StepIsLife == OrderInv /\ [Next]_vars => [Life!Next]_Lives
<1> SUFFICES ASSUME OrderInv, [Next]_vars PROVE [Life!Next]_Lives
  OBVIOUS
<1>1. TypeInv /\ OrderInv'
  BY OrderStays DEF OrderInv
<1>2. CASE astray'
  <2>1. Lives' = [c \in Conns |-> "astray"]
    BY <1>2 DEF Lives, LifeOf
  <2> QED BY <2>1 DEF Life!Next, Life!GoAstray, Lives
<1>3. CASE ~astray'
  <2>1. TypeInv' /\ LifeInv' /\ LifeInv /\ ~astray
    BY <1>1, <1>3, AstrayStays DEF OrderInv
  <2>2. \A c \in Conns :
          /\ Moves(c, "known", "served") => Life!Serve(c)
          /\ Moves(c, "served", "ending") => Life!End(c)
          /\ Moves(c, "ending", "absent") => Life!Forget(c)
    BY DEF Moves, Lives, Life!Serve, Life!End, Life!Forget
  <2>3. \A c \in Conns : LinkRoom /\ Moves(c, "absent", "known") => Life!Register(c)
    <3> SUFFICES ASSUME NEW c \in Conns, LinkRoom, Moves(c, "absent", "known")
                 PROVE  Life!Register(c)
      OBVIOUS
    <3>1. Cardinality({d \in Conns : Lives[d] \in {"known", "served", "ending"}}) < CFG_LINK_MAX + 1
      BY <1>1, <2>1, RoomIsPlace
    <3>2. Life!Known = {d \in Conns : Lives[d] \in {"known", "served", "ending"}}
      BY DEF Life!Known, Lives
    <3>3. Life!Register(c) <=> /\ Lives[c] = "absent" /\ Cardinality(Life!Known) < CFG_LINK_MAX + 1
                               /\ Lives' = [Lives EXCEPT ![c] = "known"]
      <4>1. \A S : Life!Cardinality(S) = Cardinality(S)
        BY Zenon DEF Life!Cardinality, Cardinality
      <4> QED BY <4>1 DEF Life!Register, Lives
    <3> QED BY <3>1, <3>2, <3>3 DEF Moves
  <2>4. CASE Quiet
    <3>1. Lives' = Lives
      BY <1>1, <1>3, <2>1, <2>4, QuietTable, LivesStay
    <3> QED BY <3>1
  <2>5. ASSUME NEW o \in Objs, CreateLink(o) PROVE [Life!Next]_Lives
    <3>1. LinkRoom /\ (Lives' = Lives \/ \E c \in Conns : Moves(c, "absent", "known"))
      BY <1>1, <1>3, <2>1, <2>5, CreateIsLife
    <3> QED BY <2>3, <3>1 DEF Life!Next
  <2>6. CASE DelLink
    <3>1. Lives' = Lives \/ \E c \in Conns : Moves(c, "ending", "absent")
      BY <1>1, <1>3, <2>1, <2>6, DeleteIsLife
    <3> QED BY <2>2, <3>1 DEF Life!Next
  <2>7. ASSUME NEW o \in Objs, Disconnect(o) PROVE [Life!Next]_Lives
    <3>1. o \in Tabled /\ obj[o].tid = "run"
      BY <2>1, <2>7 DEF Disconnect, LifeInv, DiscInv, Told
    <3>2. /\ Tabled' = Tabled /\ obj'[o].tid = "deleted"
          /\ \A p \in Tabled : obj'[p].name = obj[p].name /\ (p # o => obj'[p].tid = obj[p].tid)
      BY <1>1, <2>7, Places DEF Disconnect, Tabled, Links
    <3>3. Lives' = Lives \/ \E c \in Conns : Moves(c, "served", "ending")
      BY <1>1, <1>3, <2>1, <3>1, <3>2, ThreadIsLife DEF StageOf
    <3> QED BY <2>2, <3>3 DEF Life!Next
  <2>8. ASSUME NEW r \in recvs, RecvStart(r) PROVE [Life!Next]_Lives
    <3> DEFINE o == r.link
    <3>1. o \in Tabled /\ obj[o].tid = "none" /\ o \in Objs
      BY <1>1, <2>1, <2>8, Places DEF RecvStart, LifeInv, RecvInv, Starting, Attends
    <3>2. obj' = [obj EXCEPT ![o] = [obj[o] EXCEPT !.write = TRUE, !.close_sem = 0, !.tid = "run"]]
      BY <1>1, <2>8, <3>1, Places DEF RecvStart
    <3>3. sys_link_obj' = sys_link_obj
      BY <2>8 DEF RecvStart
    <3> HIDE DEF o
    <3>4. /\ Tabled' = Tabled /\ obj'[o].tid = "run"
          /\ \A p \in Tabled : obj'[p].name = obj[p].name /\ (p # o => obj'[p].tid = obj[p].tid)
      BY <1>1, <3>1, <3>2, <3>3, Places DEF Tabled, Links
    <3>5. Lives' = Lives \/ \E c \in Conns : Moves(c, "known", "served")
      BY <1>1, <1>3, <2>1, <3>1, <3>4, ThreadIsLife DEF StageOf
    <3> QED BY <2>2, <3>5 DEF Life!Next
  <2> QED BY <2>4, <2>5, <2>6, <2>7, <2>8
      DEF Next, Main, LinkThreads, RecvThreads, Recv, Quiet
<1> QED BY <1>2, <1>3

(* The table of links implements the life of a connection: it is known     *)
(* while the table has a place for it, served when it is bound, ended once *)
(* and forgotten before its name can come again, for any number of         *)
(* connections and places.                                                 *)
THEOREM LifeImplemented == Spec => ImplementsLinkLife
<1>1. Init => Life!Init
  <2> SUFFICES ASSUME Init PROVE Life!Init
    OBVIOUS
  <2>1. ~astray /\ Tabled = {}
    BY DEF Init, Tabled, Listed, Iterated, arraylist_create
  <2>2. \A c \in Conns : LifeOf(c) = "absent"
    BY <2>1 DEF LifeOf, Tabled
  <2> QED BY <2>2 DEF Life!Init
<1>2. OrderInv /\ [Next]_vars => [Life!Next]_([c \in Conns |-> LifeOf(c)])
  BY StepIsLife DEF Lives
<1> QED BY <1>1, <1>2, OrderHolds, PTL DEF Spec, ImplementsLinkLife, Life!Spec
=============================================================================
