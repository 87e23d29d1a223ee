--------------------------- MODULE RegistryProofs ---------------------------
(***************************************************************************)
(* Type correctness of the registry, for any number of sockets, links,     *)
(* applications and mailbox slots.  The invariant also says that the table *)
(* of links is a list in memory it owns: without it the indices the        *)
(* lookups return could lie outside the table.                             *)
(***************************************************************************)
EXTENDS Registry, ArrayListProofs, SequenceTheorems, WellFoundedInduction, TLAPS

USE RegistryAssumption
USE DEF mailVars, linkVars, tableVars, heapVars, netVars

TypeInv == TypeOK /\ IsList(Objs, sys_link_obj)

(* A set of natural numbers that is not empty has a least element.         *)
LEMMA MinIsLeast ==
  ASSUME NEW T, T \subseteq Nat, T # {}
  PROVE  Min(T) \in T
<1>1. \E x \in T : \A y \in T : ~(<<y, x>> \in OpToRel(<, Nat))
  BY NatLessThanWellFounded, WFMin
<1>2. PICK x \in T : \A y \in T : ~(<<y, x>> \in OpToRel(<, Nat))
  BY <1>1
<1>3. ASSUME NEW y \in T PROVE x <= y
  <2>1. y \in Nat /\ x \in Nat
    OBVIOUS
  <2>2. y < x => <<y, x>> \in OpToRel(<, Nat)
    BY <2>1, Zenon DEF OpToRel
  <2>3. ~(y < x)
    BY <1>2, <2>2, Zenon
  <2> QED BY <2>1, <2>3
<1> QED BY <1>3 DEF Min

(* What the mailbox and the word on it are.                                *)
Box(mb) == mb \in Seq(SysEvents) /\ Len(mb) <= SysMb
Mailed  == Box(sys_event) /\ astray \in BOOLEAN

LEMMA PostKeeps ==
  ASSUME NEW mb \in Seq(SysEvents), Len(mb) <= SysMb, NEW evt \in SysEvents
  PROVE  Post(mb, evt) \in Seq(SysEvents) /\ Len(Post(mb, evt)) <= SysMb
BY DEF Post, iec_post_event

LEMMA EventTypes ==
  /\ \A n \in Names : CreateLinkEvt(n) \in SysEvents
  /\ \A a \in Apps : CreateAppEvt(a) \in SysEvents /\ StartAppEvt(a) \in SysEvents
  /\ \A o \in Objs : StartLinkEvt(o) \in SysEvents /\ DelLinkEvt(o) \in SysEvents
  /\ \A a \in Apps, o \in Objs : BindEvt(a, o) \in SysEvents
  /\ \A a \in Apps, cb \in Callbacks : SetCbEvt(a, cb) \in SysEvents
BY DEF SysEvents

(* What the message of an event of each type is about.                     *)
LEMMA MessageTypes ==
  ASSUME NEW e \in SysEvents
  PROVE  /\ e.evt_type = "SYS_CREATE_LINK" => e.msg.name \in Names
         /\ e.evt_type = "SYS_CREATE_APP" => e.msg.app \in Apps
         /\ e.evt_type = "SYS_START" /\ e.evt_sub_type = "SYS_LINK_SERIAL" => e.msg.link \in Objs
         /\ e.evt_type = "SYS_START" /\ e.evt_sub_type = "SYS_APP" => e.msg.app \in Apps
         /\ e.evt_type = "SYS_EDIT_PROFILE" => e.msg.app \in Apps
         /\ e.evt_type = "SYS_EDIT_PROFILE" /\ e.evt_sub_type = "SYS_BIND" => e.msg.link \in Objs
         /\ e.evt_type = "SYS_DEL_LINK" => e.msg.link \in Objs
BY DEF SysEvents, CreateLinkEvt, CreateAppEvt, StartLinkEvt, StartAppEvt, BindEvt, SetCbEvt,
       DelLinkEvt, SysEvt, Event, Callbacks

(* The event the main thread takes, and what is left.                      *)
LEMMA TakesKeeps ==
  ASSUME TypeInv, NEW type, NEW sub, MainTakes(type, sub)
  PROVE  /\ Head(sys_event) \in SysEvents
         /\ Rest \in Seq(SysEvents) /\ Len(Rest) <= SysMb
<1>1. sys_event \in Seq(SysEvents) /\ sys_event # <<>> /\ Len(sys_event) <= SysMb
  BY DEF TypeInv, TypeOK, TableType, MainTakes, MainRuns, MainReady
<1> QED BY <1>1 DEF Rest

(* A lookup of a name returns a link or the null pointer, and the index    *)
(* it was found at lies in the table.                                      *)
LEMMA FindsLink ==
  ASSUME NEW list, IsList(Objs, list), NEW objs, NEW name
  PROVE  /\ Hits(list, objs, name) # {} => Min(Hits(list, objs, name)) \in 0 .. list.size - 1
         /\ iec_sys_find_link(list, objs, name) \in Objs \cup {NoObj}
<1>1. Hits(list, objs, name) \subseteq Nat /\ Hits(list, objs, name) \subseteq 0 .. list.size - 1
  BY DEF Hits, IsList
<1>2. Hits(list, objs, name) # {} => Min(Hits(list, objs, name)) \in 0 .. list.size - 1
  BY <1>1, MinIsLeast
<1>3. \A i \in 0 .. list.size - 1 : list.body[i] \in Objs
  BY DEF IsList, WellFormed
<1> QED BY <1>2, <1>3 DEF iec_sys_find_link, arraylist_get

(* The calls of the API leave a mailbox of events.                         *)
LEMMA CallsKeep ==
  ASSUME NEW mb, Box(mb), NEW list, IsList(Objs, list), NEW objs, NEW apps, NEW name,
         NEW a \in Apps
  PROVE  /\ Box(iec_sys_api_start_link(mb, list, objs, name))
         /\ Box(iec_sys_api_app_bind_link(mb, list, objs, apps, name, a))
         /\ Box(app_complete(mb, apps, a))
<1>1. iec_sys_find_link(list, objs, name) \in Objs \cup {NoObj}
  BY FindsLink
<1>2. \A m, evt : Box(m) /\ evt \in SysEvents => Box(Post(m, evt))
  BY PostKeeps DEF Box
<1>3. Box(iec_sys_api_start_link(mb, list, objs, name))
  BY <1>1, <1>2, EventTypes DEF iec_sys_api_start_link
<1>4. Box(iec_sys_api_app_bind_link(mb, list, objs, apps, name, a))
  BY <1>1, <1>2, EventTypes DEF iec_sys_api_app_bind_link
<1>5. \A m : Box(m) => Box(iec_sys_api_start_app(m, apps, a))
  BY <1>2, EventTypes DEF iec_sys_api_start_app
<1>6. \A m, cb : Box(m) /\ cb \in Callbacks => Box(iec_sys_api_app_set_cmd_cb(m, apps, a, cb))
  BY <1>2, EventTypes DEF iec_sys_api_app_set_cmd_cb
<1>7. "APP_CTRL_CMD" \in Callbacks /\ "APP_SYS_CMD" \in Callbacks
  BY DEF Callbacks
<1>8. Box(app_complete(mb, apps, a))
  BY <1>5, <1>6, <1>7 DEF app_complete
<1> QED BY <1>3, <1>4, <1>8

(* Taking a place for a link and giving it up keep the places.             *)
LEMMA SlotsKeep ==
  ASSUME TypeInv, NEW a \in Apps, NEW o \in Objs
  PROVE  /\ [slots EXCEPT ![a] = app_add_link(@, o)] \in [Apps -> [1 .. CFG_LINK_MAX -> Objs \cup {NoObj}]]
         /\ [slots EXCEPT ![a] = app_remove_link(@, o)] \in [Apps -> [1 .. CFG_LINK_MAX -> Objs \cup {NoObj}]]
<1>1. slots[a] \in [1 .. CFG_LINK_MAX -> Objs \cup {NoObj}]
  BY DEF TypeInv, TypeOK, TableType
<1>2. \A i : [slots[a] EXCEPT ![i] = o] \in [1 .. CFG_LINK_MAX -> Objs \cup {NoObj}]
  BY <1>1
<1>3. \A i : [slots[a] EXCEPT ![i] = NoObj] \in [1 .. CFG_LINK_MAX -> Objs \cup {NoObj}]
  BY <1>1
<1>4. app_add_link(slots[a], o) \in [1 .. CFG_LINK_MAX -> Objs \cup {NoObj}]
  BY <1>1, <1>2 DEF app_add_link
<1>5. app_remove_link(slots[a], o) \in [1 .. CFG_LINK_MAX -> Objs \cup {NoObj}]
  BY <1>1, <1>3 DEF app_remove_link
<1> QED BY <1>4, <1>5 DEF TypeInv, TypeOK, TableType

LEMMA NoLinkTyped == NoLink \in Links
BY DEF NoLink, Links, Names

LEMMA MadeIsLink ==
  ASSUME NEW name \in Names
  PROVE  Created(name) \in Links /\ [Created(name) EXCEPT !.write = TRUE] \in Links
<1>1. [NoLink EXCEPT !.mem = "live", !.name = name] \in Links
  BY NoLinkTyped DEF Links
<1>2. Created(name) \in Links
  BY <1>1 DEF Created
<1>3. \A l \in Links : [l EXCEPT !.write = TRUE] \in Links
  BY DEF Links
<1> QED BY <1>2, <1>3

LEMMA TypeInit == Init => TypeInv
<1> SUFFICES ASSUME Init PROVE TypeInv
  OBVIOUS
<1>1. IsList(Objs, sys_link_obj) /\ sys_link_obj.size = 0
  BY CapacityAssumption DEF Init, IsList, WellFormed, arraylist_create
<1>2. TableType
  <2>1. astray \in BOOLEAN
    BY Zenon DEF Init
  <2>2. app \in [Apps -> [running : BOOLEAN, cbs : SUBSET Callbacks]]
    BY DEF Init
  <2> QED BY <1>1, <2>1, <2>2 DEF Init, TableType, IsList
<1>3. ThreadType
  BY NoLinkTyped DEF Init, ThreadType
<1>4. BoundType
  BY DEF Init, BoundType, BootCalls
<1> QED BY <1>1, <1>2, <1>3, <1>4 DEF TypeInv, TypeOK

(* The assignments of the actions to a link object.                        *)
LEMMA LinkUpdates ==
  ASSUME NEW l \in Links
  PROVE  /\ [l EXCEPT !.tid = "run"] \in Links /\ [l EXCEPT !.tid = "deleted"] \in Links
         /\ \A a \in Apps : [l EXCEPT !.applayer_id = a] \in Links
         /\ [l EXCEPT !.mem = "freed"] \in Links /\ [l EXCEPT !.close_sem = 1] \in Links
         /\ [l EXCEPT !.write = TRUE, !.close_sem = 0, !.tid = "run"] \in Links
         /\ \A s \in Socks \cup {BadSock} : [l EXCEPT !.name = Name("none", s)] \in Links
<1>1. Name("none", BadSock) \in Names
  BY DEF Names, NoName
<1>2. \A s \in Socks \cup {BadSock} : Name("none", s) \in Names \cup {Name("none", q) : q \in Socks}
  BY <1>1
<1>3. \A s \in Socks \cup {BadSock} : [l EXCEPT !.name = Name("none", s)] \in Links
  BY <1>2 DEF Links
<1>4. /\ [l EXCEPT !.tid = "run"] \in Links /\ [l EXCEPT !.tid = "deleted"] \in Links
      /\ [l EXCEPT !.mem = "freed"] \in Links /\ [l EXCEPT !.close_sem = 1] \in Links
  BY DEF Links
<1>5. \A a \in Apps : [l EXCEPT !.applayer_id = a] \in Links
  BY DEF Links
<1>6. [l EXCEPT !.write = TRUE, !.close_sem = 0, !.tid = "run"] \in Links
  <2>1. \A m \in Links : [m EXCEPT !.close_sem = 0] \in Links
    BY DEF Links
  <2>2. [l EXCEPT !.write = TRUE] \in Links
    BY DEF Links
  <2>3. \A m \in Links : [m EXCEPT !.tid = "run"] \in Links
    BY DEF Links
  <2>4. [l EXCEPT !.write = TRUE, !.close_sem = 0, !.tid = "run"]
          = [[[l EXCEPT !.write = TRUE] EXCEPT !.close_sem = 0] EXCEPT !.tid = "run"]
    BY Zenon
  <2> QED BY <2>1, <2>2, <2>3, <2>4
<1> QED BY <1>3, <1>4, <1>5, <1>6

(* The calls of the start-up program, and the types an action starts from. *)
LEMMA Shape ==
  ASSUME TypeInv
  PROVE  /\ Box(sys_event) /\ Mailed /\ IsList(Objs, sys_link_obj) /\ sys_link_obj.size <= CFG_LINK_MAX + 1
         /\ obj \in [Objs -> Links] /\ disconnect \subseteq Objs /\ unheard \subseteq Objs
         /\ recvs \subseteq [link : Objs, pc : {"start", "loop", "close"}, name : Names]
         /\ sock \in [Socks \cup HwSocks -> {"free", "open", "reset"}]
BY DEF TypeInv, TypeOK, TableType, ThreadType, Box, Mailed

LEMMA PostBox ==
  ASSUME NEW mb, Box(mb), NEW evt \in SysEvents
  PROVE  Box(Post(mb, evt))
BY PostKeeps DEF Box

LEMMA BootStep == TypeInv /\ Boot => TypeInv'
<1> SUFFICES ASSUME TypeInv, Boot PROVE TypeInv'
  OBVIOUS
<1>1. booted + 1 \in 1 .. 3 /\ booted \in 0 .. 3
  BY DEF TypeInv, TypeOK, BoundType, Boot, BootCalls
<1>2. Serial0 \in Names /\ "iec101" \in Apps /\ "iec104" \in Apps
  BY DEF Names, Apps
<1>3. BootCalls[booted + 1] \in SysEvents
  BY <1>1, <1>2, EventTypes DEF BootCalls
<1>4. Mailed'
  BY <1>3, Shape, PostBox DEF Boot, Calls, Mailed
<1>5. BoundType'
  BY <1>1 DEF TypeInv, TypeOK, BoundType, Boot, BootCalls
<1> QED BY <1>4, <1>5 DEF Boot, TypeInv, TypeOK, TableType, ThreadType, Box, Mailed, Calls

(* An action that disturbs the mailbox and the link objects.               *)
LEMMA BoxAndObjects ==
  ASSUME TypeInv, Mailed', obj' \in [Objs -> Links],
         UNCHANGED <<linkVars, booted, tableVars, faults, netVars>>
  PROVE  TypeInv'
BY DEF TypeInv, TypeOK, TableType, ThreadType, BoundType, Box, Mailed, Calls

LEMMA CreateStep ==
  ASSUME TypeInv, NEW o \in Objs, CreateLink(o) \/ RejectLink(o)
  PROVE  TypeInv'
<1> DEFINE name == Msg.name
           list == arraylist_add(sys_link_obj, o)
           made == [obj EXCEPT ![o] = Created(name)]
<1>1. MainTakes("SYS_CREATE_LINK", "any")
  BY DEF CreateLink, RejectLink
<1>2. Head(sys_event) \in SysEvents /\ Box(Rest)
  BY <1>1, TakesKeeps DEF Box
<1>3. name \in Names
  BY <1>1, <1>2, MessageTypes DEF Msg, MainTakes
<1>4. Created(name) \in Links /\ [Created(name) EXCEPT !.write = TRUE] \in Links
  BY <1>3, MadeIsLink
<1>5. made \in [Objs -> Links]
  BY <1>4, Shape
<1>6. CASE RejectLink(o)
  <2>1. Mailed'
    BY <1>2, <1>6, EventTypes, PostBox DEF RejectLink, Calls, Mailed
  <2>2. obj' \in [Objs -> Links]
    BY <1>5, <1>6 DEF RejectLink
  <2>3. UNCHANGED <<linkVars, booted, tableVars, faults, netVars>>
    BY <1>6 DEF RejectLink
  <2> QED BY <2>1, <2>2, <2>3, BoxAndObjects
<1>7. CASE CreateLink(o)
  <2>1. IsList(Objs, list)
    BY AddRefines, Shape
  <2>2. list.size = sys_link_obj.size + 1
    <3>1. AsSeq(list) = Append(AsSeq(sys_link_obj), o)
      BY AddRefines, Shape
    <3>2. Len(AsSeq(list)) = list.size /\ Len(AsSeq(sys_link_obj)) = sys_link_obj.size
      BY <2>1, ListIsSeq, Shape
    <3>3. AsSeq(sys_link_obj) \in Seq(Objs)
      BY ListIsSeq, Shape
    <3> QED BY <3>1, <3>2, <3>3
  <2>3. sys_link_obj.size <= CFG_LINK_MAX
    BY <1>7 DEF CreateLink, LinkRoom, arraylist_size
  <2>4. sys_link_obj' = list
    BY <1>7 DEF CreateLink
  <2>5. sys_link_obj'.size <= CFG_LINK_MAX + 1
    BY <2>2, <2>3, <2>4, Shape DEF IsList
  <2>6. obj' \in [Objs -> Links]
    <3>1. CASE obj' = made
      BY <1>5, <3>1
    <3>2. CASE obj' = [made EXCEPT ![o].write = TRUE]
      <4>1. made[o] = Created(name)
        BY Shape
      <4>2. obj' = [made EXCEPT ![o] = [Created(name) EXCEPT !.write = TRUE]]
        BY <3>2, <4>1
      <4> QED BY <1>4, <1>5, <4>2
    <3> QED BY <1>7, <3>1, <3>2 DEF CreateLink
  <2>7. Mailed'
    <3>1. "iec104" \in Apps
      BY DEF Apps
    <3>2. Box(iec_sys_api_start_link(Rest, list, made, name))
      BY <1>2, <2>1, <3>1, CallsKeep
    <3>3. Box(iec_sys_api_app_bind_link(Rest, list, made, sys_app_obj, name, "iec104"))
      BY <1>2, <2>1, <3>1, CallsKeep
    <3> QED BY <1>7, <3>2, <3>3 DEF CreateLink, Calls, Mailed
  <2>8. recvs' \subseteq [link : Objs, pc : {"start", "loop", "close"}, name : Names]
    BY <1>3, <1>7, Shape DEF CreateLink
  <2>9. UNCHANGED <<linkVars, booted, sys_app_obj, slots, app, faults, sock>>
    BY <1>7 DEF CreateLink
  <2>10. TableType' /\ IsList(Objs, sys_link_obj')
    BY <2>1, <2>4, <2>5, <2>7, <2>9 DEF TypeInv, TypeOK, TableType, IsList, Box, Mailed, Calls
  <2>11. ThreadType' /\ BoundType'
    BY <2>6, <2>8, <2>9 DEF TypeInv, TypeOK, ThreadType, BoundType
  <2> QED BY <2>10, <2>11 DEF TypeInv, TypeOK
<1> QED BY <1>6, <1>7

LEMMA CreateAppStep == TypeInv /\ CreateApp => TypeInv'
<1> SUFFICES ASSUME TypeInv, CreateApp PROVE TypeInv'
  OBVIOUS
<1> DEFINE a == Msg.app
           apps == Append(sys_app_obj, a)
           done == app_complete(Rest, apps, a)
<1>1. MainTakes("SYS_CREATE_APP", "any")
  BY DEF CreateApp
<1>2. Head(sys_event) \in SysEvents /\ Box(Rest)
  BY <1>1, TakesKeeps DEF Box
<1>3. a \in Apps
  BY <1>1, <1>2, MessageTypes DEF Msg, MainTakes
<1>4. Box(done)
  BY <1>2, <1>3, CallsKeep, Shape
<1>5. "iec101" \in Apps
  BY DEF Apps
<1>6. Box(iec_sys_api_app_bind_link(done, sys_link_obj, obj, apps, Serial0, "iec101"))
  BY <1>4, <1>5, CallsKeep, Shape
<1>7. Mailed'
  BY <1>4, <1>6 DEF CreateApp, Calls, Mailed
<1>8. sys_app_obj' \in Seq(Apps) /\ Len(sys_app_obj') <= CFG_APP_MAX + 1
  <2>1. sys_app_obj \in Seq(Apps) /\ Len(sys_app_obj) <= CFG_APP_MAX
    BY DEF CreateApp, AppRoom, TypeInv, TypeOK, TableType
  <2>2. sys_app_obj' = Append(sys_app_obj, a)
    BY DEF CreateApp
  <2> QED BY <1>3, <2>1, <2>2
<1>9. UNCHANGED <<linkVars, booted, sys_link_obj, slots, app, heapVars, netVars>>
  BY DEF CreateApp
<1> QED BY <1>7, <1>8, <1>9 DEF TypeInv, TypeOK, TableType, ThreadType, BoundType, Box, Mailed, Calls

LEMMA StartStep == TypeInv /\ (StartLink \/ StartApp) => TypeInv'
<1>1. ASSUME TypeInv, StartLink PROVE TypeInv'
  <2>1. MainTakes("SYS_START", "SYS_LINK_SERIAL")
    BY <1>1 DEF StartLink
  <2>2. Head(sys_event) \in SysEvents /\ Box(Rest)
    BY <1>1, <2>1, TakesKeeps DEF Box
  <2>3. Msg.link \in Objs
    BY <2>1, <2>2, MessageTypes DEF Msg, MainTakes
  <2>4. obj' = [obj EXCEPT ![Msg.link].tid = "run"]
    BY <1>1 DEF StartLink
  <2>5. obj' \in [Objs -> Links]
    BY <1>1, <2>3, <2>4, LinkUpdates, Shape
  <2> QED BY <1>1, <2>2, <2>5, BoxAndObjects DEF StartLink, Calls, Mailed
<1>2. ASSUME TypeInv, StartApp PROVE TypeInv'
  <2>1. MainTakes("SYS_START", "SYS_APP")
    BY <1>2 DEF StartApp
  <2>2. Head(sys_event) \in SysEvents /\ Box(Rest)
    BY <1>2, <2>1, TakesKeeps DEF Box
  <2>3. app' = [app EXCEPT ![Msg.app].running = TRUE]
    BY <1>2 DEF StartApp
  <2>4. app \in [Apps -> [running : BOOLEAN, cbs : SUBSET Callbacks]]
    BY <1>2 DEF TypeInv, TypeOK, TableType
  <2>5. app' \in [Apps -> [running : BOOLEAN, cbs : SUBSET Callbacks]]
    BY <2>3, <2>4
  <2>6. Calls(Rest)
        /\ UNCHANGED <<linkVars, booted, sys_link_obj, sys_app_obj, slots, heapVars, netVars>>
    BY <1>2 DEF StartApp
  <2> QED BY <1>2, <2>2, <2>5, <2>6 DEF TypeInv, TypeOK, TableType, ThreadType, BoundType, Box, Mailed, Calls
<1> QED BY <1>1, <1>2

LEMMA EditStep == TypeInv /\ (Bind \/ \E cb \in Callbacks : SetCb(cb)) => TypeInv'
<1>1. ASSUME TypeInv, Bind PROVE TypeInv'
  <2>1. MainTakes("SYS_EDIT_PROFILE", "SYS_BIND")
    BY <1>1 DEF Bind
  <2>2. Head(sys_event) \in SysEvents /\ Box(Rest)
    BY <1>1, <2>1, TakesKeeps DEF Box
  <2>3. Msg.link \in Objs /\ Msg.app \in Apps
    BY <2>1, <2>2, MessageTypes DEF Msg, MainTakes
  <2>4. obj' = [obj EXCEPT ![Msg.link].applayer_id = Msg.app]
    BY <1>1 DEF Bind
  <2>5. obj' \in [Objs -> Links]
    BY <1>1, <2>3, <2>4, LinkUpdates, Shape
  <2>6. slots' = [slots EXCEPT ![Msg.app] = app_add_link(@, Msg.link)]
    BY <1>1 DEF Bind
  <2>7. slots' \in [Apps -> [1 .. CFG_LINK_MAX -> Objs \cup {NoObj}]]
    BY <1>1, <2>3, <2>6, SlotsKeep
  <2>8. Calls(Rest)
        /\ UNCHANGED <<linkVars, booted, sys_link_obj, sys_app_obj, app, faults, netVars>>
    BY <1>1 DEF Bind
  <2> QED BY <1>1, <2>2, <2>5, <2>7, <2>8 DEF TypeInv, TypeOK, TableType, ThreadType, BoundType, Box, Mailed, Calls
<1>2. ASSUME TypeInv, NEW cb \in Callbacks, SetCb(cb) PROVE TypeInv'
  <2>1. MainTakes("SYS_EDIT_PROFILE", cb)
    BY <1>2 DEF SetCb
  <2>2. Head(sys_event) \in SysEvents /\ Box(Rest)
    BY <1>2, <2>1, TakesKeeps DEF Box
  <2>3. app' = [app EXCEPT ![Msg.app].cbs = @ \cup {cb}]
    BY <1>2 DEF SetCb
  <2>4. app \in [Apps -> [running : BOOLEAN, cbs : SUBSET Callbacks]]
    BY <1>2 DEF TypeInv, TypeOK, TableType
  <2>5. app' \in [Apps -> [running : BOOLEAN, cbs : SUBSET Callbacks]]
    BY <2>3, <2>4
  <2>6. Calls(Rest)
        /\ UNCHANGED <<linkVars, booted, sys_link_obj, sys_app_obj, slots, heapVars, netVars>>
    BY <1>2 DEF SetCb
  <2> QED BY <1>2, <2>2, <2>5, <2>6 DEF TypeInv, TypeOK, TableType, ThreadType, BoundType, Box, Mailed, Calls
<1> QED BY <1>1, <1>2

(* The end of a link: the index it is removed at lies in the table.        *)
LEMMA EndStep == TypeInv /\ (DelLink \/ LinkThreads) => TypeInv'
<1>1. ASSUME TypeInv, DelLink PROVE TypeInv'
  <2> DEFINE hits == Hits(sys_link_obj, obj, obj[Msg.link].name)
  <2>1. MainTakes("SYS_DEL_LINK", "any")
    BY <1>1 DEF DelLink
  <2>2. Head(sys_event) \in SysEvents /\ Box(Rest)
    BY <1>1, <2>1, TakesKeeps DEF Box
  <2>3. Msg.link \in Objs
    BY <2>1, <2>2, MessageTypes DEF Msg, MainTakes
  <2>4. Calls(Rest)
        /\ UNCHANGED <<linkVars, booted, sys_app_obj, slots, app, faults, netVars>>
    BY <1>1 DEF DelLink
  <2>5. CASE hits = {}
    <3>1. UNCHANGED <<sys_link_obj, obj>>
      BY <1>1, <2>5 DEF DelLink
    <3> QED BY <1>1, <2>2, <2>4, <3>1, Shape, BoxAndObjects DEF Calls, Mailed
  <2>6. CASE hits # {}
    <3>1. /\ sys_link_obj' = arraylist_remove(sys_link_obj, Min(hits))
          /\ obj' = [obj EXCEPT ![Msg.link].mem = "freed"]
      BY <1>1, <2>6 DEF DelLink
    <3>2. Min(hits) \in 0 .. sys_link_obj.size - 1
      BY <1>1, <2>6, Shape, FindsLink
    <3> HIDE DEF hits
    <3>3. IsList(Objs, sys_link_obj')
      BY <1>1, <3>1, <3>2, Shape, RemoveRefines
    <3>4. sys_link_obj'.size <= CFG_LINK_MAX + 1
      <4>1. IsList(Objs, sys_link_obj) /\ sys_link_obj.size <= CFG_LINK_MAX + 1
        BY <1>1, Shape
      <4>2. sys_link_obj'.size = sys_link_obj.size - 1
        BY <3>1, <4>1 DEF arraylist_remove, IsList
      <4> QED BY <4>1, <4>2 DEF IsList
    <3>5. obj' \in [Objs -> Links]
      BY <1>1, <2>3, <3>1, LinkUpdates, Shape
    <3> QED BY <1>1, <2>2, <2>4, <3>3, <3>4, <3>5
            DEF TypeInv, TypeOK, TableType, ThreadType, BoundType, Box, Mailed, Calls, IsList
  <2> QED BY <2>5, <2>6
<1>2. ASSUME TypeInv, NEW o \in Objs, Disconnect(o) PROVE TypeInv'
  <2>1. obj[o] \in Links
    BY <1>2, Shape
  <2>2. obj' = [obj EXCEPT ![o].tid = "deleted"]
    BY <1>2 DEF Disconnect
  <2>3. obj' \in [Objs -> Links]
    BY <1>2, <2>1, <2>2, LinkUpdates, Shape
  <2>4. obj[o].applayer_id \in Apps \cup {NoApp}
    BY <2>1 DEF Links
  <2>5. slots' \in [Apps -> [1 .. CFG_LINK_MAX -> Objs \cup {NoObj}]]
    <3>1. CASE obj[o].applayer_id = NoApp
      BY <1>2, <3>1 DEF Disconnect, TypeInv, TypeOK, TableType
    <3>2. CASE obj[o].applayer_id # NoApp
      <4>1. slots' = [slots EXCEPT ![obj[o].applayer_id] = app_remove_link(@, o)]
        BY <1>2, <3>2 DEF Disconnect
      <4>2. obj[o].applayer_id \in Apps
        BY <2>4, <3>2
      <4> QED BY <1>2, <4>1, <4>2, SlotsKeep
    <3> QED BY <3>1, <3>2
  <2>6. Mailed'
    BY <1>2, EventTypes, PostBox, Shape DEF Disconnect, Calls, Mailed
  <2>7. disconnect' \subseteq Objs /\ unheard' \subseteq Objs
        /\ UNCHANGED <<booted, sys_link_obj, sys_app_obj, app, faults, netVars>>
    BY <1>2, Shape DEF Disconnect
  <2> QED BY <1>2, <2>3, <2>5, <2>6, <2>7 DEF TypeInv, TypeOK, TableType, ThreadType, BoundType, Box, Mailed, Calls
<1> QED BY <1>1, <1>2 DEF LinkThreads

LEMMA RecvStep == TypeInv /\ RecvThreads => TypeInv'
<1> SUFFICES ASSUME TypeInv, NEW r \in recvs, Recv(r) PROVE TypeInv'
  BY DEF RecvThreads
<1>1. r \in [link : Objs, pc : {"start", "loop", "close"}, name : Names]
  BY Shape
<1>2. r.link \in Objs /\ obj[r.link] \in Links
  BY <1>1, Shape
<1>3. CASE RecvStart(r)
  <2>1. obj' = [obj EXCEPT ![r.link] =
                  [obj[r.link] EXCEPT !.write = TRUE, !.close_sem = 0, !.tid = "run"]]
    BY <1>2, <1>3, Shape DEF RecvStart
  <2>2. obj' \in [Objs -> Links]
    BY <1>2, <2>1, LinkUpdates, Shape
  <2>3. recvs' \subseteq [link : Objs, pc : {"start", "loop", "close"}, name : Names]
    BY <1>1, <1>3, Shape DEF RecvStart
  <2>4. UNCHANGED <<mailVars, linkVars, booted, tableVars, faults, sock>>
    BY <1>3 DEF RecvStart
  <2> QED BY <2>2, <2>3, <2>4 DEF TypeInv, TypeOK, TableType, ThreadType, BoundType
<1>4. CASE RecvErr(r)
  <2>1. recvs' \subseteq [link : Objs, pc : {"start", "loop", "close"}, name : Names]
    BY <1>1, <1>4, Shape DEF RecvErr, iec_sys_api_netlink_send_close
  <2>2. disconnect' \subseteq Objs /\ unheard' \subseteq Objs
    BY <1>2, <1>4, Shape DEF RecvErr, iec_sys_api_netlink_send_close
  <2>3. UNCHANGED <<mailVars, booted, tableVars, obj, sock>>
    BY <1>4 DEF RecvErr, iec_sys_api_netlink_send_close
  <2>4. faults' \in 0 .. MaxFaults
    BY <1>4 DEF RecvErr, iec_sys_api_netlink_send_close, TypeInv, TypeOK, BoundType
  <2> QED BY <2>1, <2>2, <2>3, <2>4 DEF TypeInv, TypeOK, TableType, ThreadType, BoundType
<1>5. CASE RecvClose(r)
  <2>1. recvs' \subseteq recvs
    BY <1>5 DEF RecvClose
  <2>2. obj' \in [Objs -> Links]
    BY <1>2, <1>5, NoLinkTyped, Shape DEF RecvClose
  <2>3. sock' \in [Socks \cup HwSocks -> {"free", "open", "reset"}]
    BY <1>5, Shape DEF RecvClose
  <2>4. UNCHANGED <<mailVars, linkVars, booted, tableVars, faults>>
    BY <1>5 DEF RecvClose
  <2> QED BY <2>1, <2>2, <2>3, <2>4 DEF TypeInv, TypeOK, TableType, ThreadType, BoundType
<1> QED BY <1>3, <1>4, <1>5 DEF Recv

(* The connections that come and go, and the calls that fail.              *)
LEMMA NetStep ==
  ASSUME TypeInv,
         \/ AcceptFails
         \/ \E s \in Socks : Accept(s)
         \/ \E s \in HwSocks : HwConnects(s)
         \/ \E s \in Socks \cup HwSocks : PeerCloses(s)
         \/ \E o \in Objs : NotifyClose(o) \/ Overwrite(o)
  PROVE  TypeInv'
<1>1. CASE AcceptFails
  <2>1. Name("cs", BadSock) \in Names
    BY DEF Names
  <2>2. Mailed'
    BY <1>1, <2>1, EventTypes, PostBox, Shape DEF AcceptFails, Connects, Mailed
  <2>3. BoundType'
    BY <1>1 DEF AcceptFails, TypeInv, TypeOK, BoundType
  <2>4. UNCHANGED <<linkVars, booted, tableVars, obj, recvs, sock>>
    BY <1>1 DEF AcceptFails
  <2> QED BY <2>2, <2>3, <2>4 DEF TypeInv, TypeOK, TableType, ThreadType, Box, Mailed, Calls
<1>2. ASSUME NEW s \in Socks \cup HwSocks, NEW name \in Names,
             sock' = [sock EXCEPT ![s] = "open"],
             Connects(name),
             UNCHANGED <<linkVars, booted, tableVars, heapVars, recvs>>
      PROVE  TypeInv'
  <2>1. Mailed'
    BY <1>2, EventTypes, PostBox, Shape DEF Connects, Mailed
  <2>2. sock' \in [Socks \cup HwSocks -> {"free", "open", "reset"}]
    BY <1>2, Shape
  <2> QED BY <1>2, <2>1, <2>2 DEF TypeInv, TypeOK, TableType, ThreadType, BoundType, Box, Mailed, Calls
<1>3. ASSUME NEW s \in Socks, Accept(s) PROVE TypeInv'
  <2>1. Name("cs", s) \in Names
    BY DEF Names, Conns
  <2> QED BY <1>2, <1>3, <2>1 DEF Accept
<1>4. ASSUME NEW s \in HwSocks, HwConnects(s) PROVE TypeInv'
  <2>1. Name("wh", s) \in Names
    BY DEF Names, Conns
  <2> QED BY <1>2, <1>4, <2>1 DEF HwConnects
<1>5. ASSUME NEW s \in Socks \cup HwSocks, PeerCloses(s) PROVE TypeInv'
  <2>1. sock' \in [Socks \cup HwSocks -> {"free", "open", "reset"}]
    BY <1>5, Shape DEF PeerCloses
  <2>2. UNCHANGED <<mailVars, linkVars, booted, tableVars, heapVars, recvs>>
    BY <1>5 DEF PeerCloses
  <2> QED BY <2>1, <2>2 DEF TypeInv, TypeOK, TableType, ThreadType, BoundType
<1>6. ASSUME NEW o \in Objs, NotifyClose(o) PROVE TypeInv'
  <2>1. obj' = [obj EXCEPT ![o] = [obj[o] EXCEPT !.close_sem = 1]]
    BY <1>6, Shape DEF NotifyClose
  <2>2. obj' \in [Objs -> Links]
    BY <2>1, LinkUpdates, Shape
  <2> QED BY <1>6, <2>2, Shape, BoxAndObjects DEF NotifyClose, Mailed
<1>7. ASSUME NEW o \in Objs, Overwrite(o) PROVE TypeInv'
  <2>1. PICK s \in Socks \cup {BadSock} : obj' = [obj EXCEPT ![o].name = Name("none", s)]
    BY <1>7 DEF Overwrite
  <2>2. obj' = [obj EXCEPT ![o] = [obj[o] EXCEPT !.name = Name("none", s)]]
    BY <2>1, Shape
  <2>3. obj' \in [Objs -> Links]
    BY <2>2, LinkUpdates, Shape
  <2>4. BoundType'
    BY <1>7 DEF Overwrite, TypeInv, TypeOK, BoundType
  <2>5. UNCHANGED <<mailVars, linkVars, booted, tableVars, netVars>>
    BY <1>7 DEF Overwrite
  <2> QED BY <2>3, <2>4, <2>5 DEF TypeInv, TypeOK, TableType, ThreadType
<1> QED BY <1>1, <1>3, <1>4, <1>5, <1>6, <1>7

(* Every step keeps the types.                                             *)
LEMMA TypeStays == TypeInv /\ [Next]_vars => TypeInv'
<1> SUFFICES ASSUME TypeInv, [Next]_vars PROVE TypeInv'
  OBVIOUS
<1>1. CASE Boot
  BY <1>1, BootStep
<1>2. CASE Main
  BY <1>2, CreateStep, CreateAppStep, StartStep, EditStep, EndStep DEF Main
<1>3. CASE LinkThreads
  BY <1>3, EndStep
<1>4. CASE RecvThreads
  BY <1>4, RecvStep
<1>5. CASE UNCHANGED vars
  BY <1>5 DEF vars, TypeInv, TypeOK, TableType, ThreadType, BoundType
<1> QED BY <1>1, <1>2, <1>3, <1>4, <1>5, NetStep DEF Next

(* The registry's tables, mailbox and threads keep their types: the table  *)
(* of links never holds more than CFG_LINK_MAX + 1, and an index at which  *)
(* a name was found lies in it, for any number of connections.             *)
THEOREM RegistryTyped == Spec => [](TypeOK /\ IsList(Objs, sys_link_obj))
<1>1. Init => TypeInv
  BY TypeInit
<1>2. TypeInv /\ [Next]_vars => TypeInv'
  BY TypeStays
<1> QED BY <1>1, <1>2, PTL DEF Spec, TypeInv
=============================================================================
