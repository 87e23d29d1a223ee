------------------------------ MODULE Registry ------------------------------
(***************************************************************************)
(* The system object (Core/core_sys.c) and the threads of App/iec104.c     *)
(* that make and end its network links: the main thread and its mailbox,   *)
(* the tables of links and applications, the listening thread, one receive *)
(* thread per connection and the end of the link threads.                  *)
(*                                                                         *)
(* RT-Thread always runs a ready thread of the highest priority: the link  *)
(* threads (14), then the main thread (15), then the receive threads (17), *)
(* then the listening thread (18).  An action of a thread says which       *)
(* threads must have nothing to do.  What a link does between its start    *)
(* and its end is the matter of NetSession.                                *)
(***************************************************************************)
EXTENDS IecEvent, ArrayList, FiniteSetsExt

CONSTANTS
  Socks,        \* sockets the TCP stack hands out
  HwSocks,      \* sockets of the w5500
  BadSock,      \* what accept() returns when it fails
  CFG_LINK_MAX,
  CFG_APP_MAX,
  SysMb,        \* slots of the main thread's mailbox
  NumObjs,      \* bound: link objects the heap has room for
  MaxFaults     \* bound on faults

ASSUME RegistryAssumption ==
  /\ Socks \cap HwSocks = {} /\ BadSock \notin Socks \cup HwSocks
  /\ CFG_LINK_MAX \in Nat \ {0} /\ SysMb \in Nat
  /\ CFG_APP_MAX \in Nat \ {0}  \* the start-up program makes two applications
  /\ {NumObjs, MaxFaults} \subseteq Nat

VARIABLES
  sys_event,    \* the main thread's mailbox
  astray,       \* history: it was full, or two links have gone by one name
  sys_link_obj, \* the table of links
  sys_app_obj,  \* the table of applications, in their order
  obj,          \* the link objects on the heap
  disconnect,   \* links with a disconnect event in their mailbox
  unheard,      \* links whose thread waited in a write when it was posted
  slots,        \* linklayer_id[] of each application
  app,          \* each application: its callbacks and whether its thread runs
  recvs,        \* the receive threads
  sock,         \* the state of each socket
  booted,       \* calls the start-up program has made
  faults        \* how often accept() failed, the memory of a freed link was used
                \* again, or a link thread was not there to hear of the end

mailVars  == <<sys_event, astray>>
linkVars  == <<disconnect, unheard>>
tableVars == <<sys_link_obj, sys_app_obj, slots, app>>
heapVars  == <<obj, faults>>
netVars   == <<recvs, sock>>
vars      == <<mailVars, linkVars, booted, tableVars, heapVars, netVars>>

Objs  == 1 .. NumObjs
NoObj == 0
Apps  == {"iec101", "iec104"}
NoApp == "none"
Callbacks == {"APP_CTRL_CMD", "APP_SYS_CMD"}

(* The name of a link: its kind and the socket it is printed from. *)
Name(kind, s) == [kind |-> kind, of |-> s]
Serial0 == Name("serial", BadSock)
NoName  == Name("none", BadSock)
Conns   == {Name("cs", s) : s \in Socks} \cup {Name("wh", s) : s \in HwSocks}
Names   == Conns \cup {Serial0, NoName, Name("cs", BadSock)}

NoLink == [mem |-> "unused", name |-> NoName, applayer_id |-> NoApp, tid |-> "none",
           write |-> FALSE, close_sem |-> 0]

SysEvt(type, sub, name, a, o) == Event(type, sub, [name |-> name, app |-> a, link |-> o])
CreateLinkEvt(name) == SysEvt("SYS_CREATE_LINK", "none", name, NoApp, NoObj)
CreateAppEvt(a)     == SysEvt("SYS_CREATE_APP", "none", NoName, a, NoObj)
StartLinkEvt(o)     == SysEvt("SYS_START", "SYS_LINK_SERIAL", NoName, NoApp, o)
StartAppEvt(a)      == SysEvt("SYS_START", "SYS_APP", NoName, a, NoObj)
BindEvt(a, o)       == SysEvt("SYS_EDIT_PROFILE", "SYS_BIND", NoName, a, o)
SetCbEvt(a, cb)     == SysEvt("SYS_EDIT_PROFILE", cb, NoName, a, NoObj)
DelLinkEvt(o)       == SysEvt("SYS_DEL_LINK", "none", NoName, NoApp, o)

Post(mb, evt) == iec_post_event(mb, SysMb, evt)

(* A step leaves the calls mb to the main thread.  From a mailbox that was *)
(* full a call may be missing.                                             *)
Calls(mb) == sys_event' = mb /\ astray' = (astray \/ Len(mb) = SysMb)

Live(o) == obj[o].mem = "live"
Taken(name) == \/ \E i \in DOMAIN sys_event : sys_event[i] = CreateLinkEvt(name)
               \/ \E o \in Objs : Live(o) /\ obj[o].name = name
-----------------------------------------------------------------------------
(* The tables. *)
Listed(list) == Iterated(list)

\* Mutant: every name is taken for the one looked for.
HitsAll(list, objs, name) == 0 .. list.size - 1

\* Mutant: the search stops before the last entry.
HitsButLast(list, objs, name) == {i \in 0 .. list.size - 2 : objs[list.body[i]].name = name}

\* Indices at which the name is listed; the code takes the first.
Hits(list, objs, name) == {i \in 0 .. list.size - 1 : objs[list.body[i]].name = name}

iec_sys_find_link(list, objs, name) ==
  IF Hits(list, objs, name) = {} THEN NoObj
  ELSE arraylist_get(list, Min(Hits(list, objs, name)))

iec_sys_find_app(apps, a) == \E i \in DOMAIN apps : apps[i] = a

\* Mutant: the table takes any number of links.
RoomForAll == TRUE

LinkRoom == arraylist_size(sys_link_obj) <= CFG_LINK_MAX
AppRoom  == Len(sys_app_obj) <= CFG_APP_MAX

app_add_link(sl, o) ==
  LET empty == {i \in DOMAIN sl : sl[i] = NoObj}
  IN  IF empty = {} THEN sl ELSE [sl EXCEPT ![Min(empty)] = o]

\* Mutant: the application keeps the links it is told to forget.
KeepsDeleted(sl, o) == sl

app_remove_link(sl, o) ==
  LET hits == {i \in DOMAIN sl : sl[i] = o}
  IN  IF hits = {} THEN sl ELSE [sl EXCEPT ![Min(hits)] = NoObj]

(* The API: what a call leaves in the main thread's mailbox. *)
iec_sys_api_start_link(mb, list, objs, name) ==
  LET o == iec_sys_find_link(list, objs, name)
  IN  IF o = NoObj THEN mb ELSE Post(mb, StartLinkEvt(o))

iec_sys_api_app_bind_link(mb, list, objs, apps, name, a) ==
  LET o == iec_sys_find_link(list, objs, name)
  IN  IF ~iec_sys_find_app(apps, a) \/ o = NoObj THEN mb ELSE Post(mb, BindEvt(a, o))

iec_sys_api_start_app(mb, apps, a) ==
  IF iec_sys_find_app(apps, a) THEN Post(mb, StartAppEvt(a)) ELSE mb

iec_sys_api_app_set_cmd_cb(mb, apps, a, cb) ==
  IF iec_sys_find_app(apps, a) THEN Post(mb, SetCbEvt(a, cb)) ELSE mb

\* iec101_app_complete and iec104_app_complete make the same calls.
app_complete(mb, apps, a) ==
  iec_sys_api_app_set_cmd_cb(
    iec_sys_api_app_set_cmd_cb(iec_sys_api_start_app(mb, apps, a), apps, a, "APP_CTRL_CMD"),
    apps, a, "APP_SYS_CMD")
-----------------------------------------------------------------------------
Init ==
  /\ sys_event = <<>> /\ sys_link_obj = arraylist_create /\ sys_app_obj = <<>>
  /\ obj = [o \in Objs |-> NoLink]
  /\ disconnect = {} /\ unheard = {} /\ astray = FALSE
  /\ slots = [a \in Apps |-> [i \in 1 .. CFG_LINK_MAX |-> NoObj]]
  /\ app = [a \in Apps |-> [running |-> FALSE, cbs |-> {}]]
  /\ recvs = {} /\ sock = [s \in Socks \cup HwSocks |-> "free"]
  /\ booted = 0 /\ faults = 0

(* The start-up program, in the order iec101.c gives (external). *)
BootCalls == <<CreateLinkEvt(Serial0), CreateAppEvt("iec101"), CreateAppEvt("iec104")>>

Boot ==
  /\ booted < Len(BootCalls)
  /\ booted' = booted + 1
  /\ Calls(Post(sys_event, BootCalls[booted + 1]))
  /\ UNCHANGED <<linkVars, tableVars, heapVars, netVars>>

(* Which threads have something to do. *)
LinkReady(o) == obj[o].tid = "run" /\ o \in disconnect
AnyLinkReady == \E o \in Objs : LinkReady(o)
MainReady    == sys_event # <<>>
RecvReady    == \E r \in recvs : r.pc \in {"start", "close"}

\* Mutant: a receive thread runs ahead of the main thread.
RecvAheadOfMain == ~AnyLinkReady

MainRuns   == ~AnyLinkReady /\ MainReady
RecvRuns   == ~AnyLinkReady /\ ~MainReady
ListenRuns == RecvRuns /\ ~RecvReady /\ booted = Len(BootCalls)

(* The main thread takes the event evt. *)
MainTakes(type, sub) ==
  /\ MainRuns
  /\ Head(sys_event).evt_type = type
  /\ sub # "any" => Head(sys_event).evt_sub_type = sub
Msg  == Head(sys_event).msg
Rest == Tail(sys_event)

(* The allocator takes a cell that was freed or one that was never used. *)
Cells == {o \in Objs : /\ obj[o].mem # "live"
                       /\ \A p \in 1 .. o - 1 : obj[p].mem # obj[o].mem}

\* net_link_create, serial_link_create
Created(name) == [NoLink EXCEPT !.mem = "live", !.name = name]

(* iec_sys_evt_create_link_handle, with the completion calls its two links *)
(* make: a serial link is started and given its driver, a network link is  *)
(* bound and given a receive thread.                                       *)
CreateLink(o) ==
  LET name == Msg.name
      list == arraylist_add(sys_link_obj, o)
      made == [obj EXCEPT ![o] = Created(name)]
  IN  /\ MainTakes("SYS_CREATE_LINK", "any")
      /\ LinkRoom
      /\ o \in Cells
      /\ sys_link_obj' = list
      /\ \/ /\ name = Serial0
            /\ obj' = [made EXCEPT ![o].write = TRUE]
            /\ Calls(iec_sys_api_start_link(Rest, list, made, name))
            /\ UNCHANGED recvs
         \/ /\ name # Serial0
            /\ obj' = made
            /\ Calls(iec_sys_api_app_bind_link(Rest, list, made, sys_app_obj, name, "iec104"))
            /\ recvs' = recvs \cup {[link |-> o, pc |-> "start", name |-> name]}
      /\ UNCHANGED <<linkVars, booted, sys_app_obj, slots, app, faults, sock>>

\* No room: net_link_del of a link without application and thread.
RejectLink(o) ==
  /\ MainTakes("SYS_CREATE_LINK", "any")
  /\ ~LinkRoom
  /\ o \in Cells
  /\ obj' = [obj EXCEPT ![o] = Created(Msg.name)]
  /\ Calls(Post(Rest, DelLinkEvt(o)))
  /\ UNCHANGED <<linkVars, booted, tableVars, faults, netVars>>

(* iec_sys_evt_create_app_handle and the completion calls; that of iec101  *)
(* also binds the serial link.                                             *)
CreateApp ==
  LET a    == Msg.app
      apps == Append(sys_app_obj, a)
      done == app_complete(Rest, apps, a)
  IN  /\ MainTakes("SYS_CREATE_APP", "any")
      /\ AppRoom
      /\ sys_app_obj' = apps
      /\ Calls(IF a = "iec101"
               THEN iec_sys_api_app_bind_link(done, sys_link_obj, obj, apps, Serial0, a)
               ELSE done)
      /\ UNCHANGED <<linkVars, booted, sys_link_obj, slots, app, heapVars, netVars>>

(* iec_sys_evt_start_handle *)
StartLink ==
  /\ MainTakes("SYS_START", "SYS_LINK_SERIAL")
  /\ obj' = [obj EXCEPT ![Msg.link].tid = "run"]
  /\ Calls(Rest)
  /\ UNCHANGED <<linkVars, booted, tableVars, faults, netVars>>

StartApp ==
  /\ MainTakes("SYS_START", "SYS_APP")
  /\ app' = [app EXCEPT ![Msg.app].running = TRUE]
  /\ Calls(Rest)
  /\ UNCHANGED <<linkVars, booted, sys_link_obj, sys_app_obj, slots, heapVars, netVars>>

(* iec_sys_evt_edit_handle *)
Bind ==
  /\ MainTakes("SYS_EDIT_PROFILE", "SYS_BIND")
  /\ obj' = [obj EXCEPT ![Msg.link].applayer_id = Msg.app]
  /\ slots' = [slots EXCEPT ![Msg.app] = app_add_link(@, Msg.link)]
  /\ Calls(Rest)
  /\ UNCHANGED <<linkVars, booted, sys_link_obj, sys_app_obj, app, faults, netVars>>

SetCb(cb) ==
  /\ MainTakes("SYS_EDIT_PROFILE", cb)
  /\ app' = [app EXCEPT ![Msg.app].cbs = @ \cup {cb}]
  /\ Calls(Rest)
  /\ UNCHANGED <<linkVars, booted, sys_link_obj, sys_app_obj, slots, heapVars, netVars>>

(* iec_sys_remove_link: the entry removed is the first of that name, the   *)
(* memory freed is that of the link asked for.                             *)
DelLink ==
  LET hits == Hits(sys_link_obj, obj, obj[Msg.link].name)
  IN  /\ MainTakes("SYS_DEL_LINK", "any")
      /\ IF hits = {} THEN UNCHANGED <<sys_link_obj, obj>>
         ELSE /\ sys_link_obj' = arraylist_remove(sys_link_obj, Min(hits))
              /\ obj' = [obj EXCEPT ![Msg.link].mem = "freed"]
      /\ Calls(Rest)
      /\ UNCHANGED <<linkVars, booted, sys_app_obj, slots, app, faults, netVars>>

Main == \/ \E o \in Objs : CreateLink(o) \/ RejectLink(o)
        \/ CreateApp \/ StartLink \/ StartApp \/ Bind \/ DelLink
        \/ \E cb \in Callbacks : SetCb(cb)
-----------------------------------------------------------------------------
(* The link thread handles EVT_LINK_PHY_DISCONNECT: net_link_del.  A thread *)
(* that waited in a write does so whenever it comes back from it, or never: *)
(* the event was dropped when the mailbox was full.                        *)
Disconnect(o) ==
  /\ obj[o].tid = "run" /\ o \in disconnect \cup unheard
  /\ obj' = [obj EXCEPT ![o].tid = "deleted"]
  /\ slots' = IF obj[o].applayer_id = NoApp THEN slots
              ELSE [slots EXCEPT ![obj[o].applayer_id] = app_remove_link(@, o)]
  /\ disconnect' = disconnect \ {o} /\ unheard' = unheard \ {o}
  /\ Calls(Post(sys_event, DelLinkEvt(o)))
  /\ UNCHANGED <<booted, sys_link_obj, sys_app_obj, app, faults, netVars>>

\* Mutant: the link thread ends the link without its receive thread.
EndsItself(o) ==
  /\ obj[o].tid = "run" /\ obj[o].name # Serial0
  /\ disconnect' = disconnect \cup {o} /\ UNCHANGED unheard
  /\ UNCHANGED <<mailVars, booted, tableVars, heapVars, netVars>>

(* A timeout the link answers with net_link_notify_close. *)
NotifyClose(o) ==
  /\ obj[o].tid = "run" /\ obj[o].name # Serial0
  /\ obj' = [obj EXCEPT ![o].close_sem = 1]
  /\ UNCHANGED <<mailVars, linkVars, booted, tableVars, faults, netVars>>

(* iec104_recv_thread and iec104_w55_recv_thread, up to their loop. *)
RecvStart(r) ==
  /\ RecvRuns /\ r.pc = "start"
  /\ obj' = [obj EXCEPT ![r.link].write = TRUE, ![r.link].close_sem = 0,
                        ![r.link].tid = "run"]
  /\ recvs' = (recvs \ {r}) \cup {[r EXCEPT !.pc = "loop"]}
  /\ UNCHANGED <<mailVars, linkVars, booted, tableVars, faults, sock>>

Broken(s) == s \in DOMAIN sock => sock[s] # "open"

\* Mutant: the loop does not look at the semaphore.
NeverLooks(r) == Broken(obj[r.link].name.of)

(* The loop ends when the semaphore was released or the socket fails. *)
LoopEnds(r) == obj[r.link].close_sem = 1 \/ Broken(obj[r.link].name.of)

(* The link thread takes the event of the end at once, unless it waits in  *)
(* a write.  Then the event waits behind the others in its mailbox, or is  *)
(* dropped because that is full.                                           *)
iec_sys_api_netlink_send_close(o) ==
  \/ disconnect' = disconnect \cup {o} /\ UNCHANGED <<unheard, faults>>
  \/ /\ faults < MaxFaults
     /\ unheard' = unheard \cup {o} /\ faults' = faults + 1 /\ UNCHANGED disconnect

\* Whether the event arrived or not, the thread goes on to close the socket.
RecvErr(r) ==
  /\ RecvRuns /\ r.pc = "loop"
  /\ LoopEnds(r)
  /\ iec_sys_api_netlink_send_close(r.link)
  /\ recvs' = (recvs \ {r}) \cup {[r EXCEPT !.pc = "close"]}
  /\ UNCHANGED <<mailVars, booted, tableVars, obj, sock>>

(* The socket the thread closes: the w5500's thread has kept the number,   *)
(* the other reads it from the link, whose memory may be free by now, or   *)
(* another link's: a number of the w5500 is that of some socket or of none. *)
(* Nothing reads free memory after it, so what it held is forgotten.       *)
ClosedBy(r) ==
  LET s == obj[r.link].name.of
  IN  IF r.name.kind = "wh" THEN {r.name.of}
      ELSE IF s \in HwSocks THEN Socks \cup {BadSock} ELSE {s}

RecvClose(r) ==
  /\ RecvRuns /\ r.pc = "close"
  /\ \E c \in ClosedBy(r) :
       sock' = [s \in DOMAIN sock |-> IF s = c THEN "free" ELSE sock[s]]
  /\ recvs' = recvs \ {r}
  /\ obj' = [obj EXCEPT ![r.link] = IF @.mem = "freed" THEN NoLink ELSE @]
  /\ UNCHANGED <<mailVars, linkVars, booted, tableVars, faults>>

Recv(r) == RecvStart(r) \/ RecvErr(r) \/ RecvClose(r)

(* A connection is called for by the name of its socket.  Bound: a system  *)
(* that went astray is given no other, since nothing is promised of it.    *)
Connects(name) ==
  /\ ~astray
  /\ sys_event' = Post(sys_event, CreateLinkEvt(name))
  /\ astray' = (Taken(name) \/ Len(sys_event') = SysMb)

(* iec104_tcpserver_listen_thread: the result of accept() is not looked at. *)
Accept(s) ==
  /\ ListenRuns /\ sock[s] = "free"
  /\ sock' = [sock EXCEPT ![s] = "open"]
  /\ Connects(Name("cs", s))
  /\ UNCHANGED <<linkVars, booted, tableVars, heapVars, recvs>>

AcceptFails ==
  /\ ListenRuns /\ faults < MaxFaults
  /\ faults' = faults + 1
  /\ Connects(Name("cs", BadSock))
  /\ UNCHANGED <<linkVars, booted, tableVars, obj, recvs, sock>>

(* The w5500's driver reports a connection (external), at a priority of its *)
(* own, through iec104_w55_recv_create.                                     *)
HwConnects(s) ==
  /\ booted = Len(BootCalls) /\ sock[s] = "free"
  /\ sock' = [sock EXCEPT ![s] = "open"]
  /\ Connects(Name("wh", s))
  /\ UNCHANGED <<linkVars, booted, tableVars, heapVars, recvs>>

(* The peer ends the connection (external). *)
PeerCloses(s) ==
  /\ sock[s] = "open"
  /\ sock' = [sock EXCEPT ![s] = "reset"]
  /\ UNCHANGED <<mailVars, linkVars, booted, tableVars, heapVars, recvs>>

(* Another rt_malloc is given the memory of a deleted link: the number and *)
(* the name in it are no longer its own.                                   *)
Overwrite(o) ==
  /\ obj[o].mem = "freed" /\ faults < MaxFaults
  /\ faults' = faults + 1
  /\ \E s \in Socks \cup {BadSock} : obj' = [obj EXCEPT ![o].name = Name("none", s)]
  /\ UNCHANGED <<mailVars, linkVars, booted, tableVars, netVars>>

LinkThreads == \E o \in Objs : Disconnect(o)
Heard       == \E o \in disconnect : Disconnect(o)
RecvThreads == \E r \in recvs : Recv(r)

Next == \/ Boot \/ Main \/ LinkThreads \/ RecvThreads \/ AcceptFails
        \/ \E s \in Socks : Accept(s)
        \/ \E s \in HwSocks : HwConnects(s)
        \/ \E s \in Socks \cup HwSocks : PeerCloses(s)
        \/ \E o \in Objs : NotifyClose(o) \/ Overwrite(o)

RecvOf(o) == \E r \in recvs : r.link = o /\ Recv(r)

(* The threads of the stack run: above the receive threads only threads    *)
(* that block again, and a receive thread sleeps half a second at most.  A *)
(* link thread that waits in a write may wait for ever.                    *)
Fairness == WF_vars(Boot) /\ WF_vars(Main) /\ WF_vars(Heard)
              /\ \A o \in Objs : SF_vars(RecvOf(o))

Spec == Init /\ [][Next]_vars /\ Fairness
-----------------------------------------------------------------------------
SysEvents ==
  {CreateLinkEvt(n) : n \in Names} \cup {CreateAppEvt(a) : a \in Apps}
    \cup {StartLinkEvt(o) : o \in Objs} \cup {StartAppEvt(a) : a \in Apps}
    \cup {BindEvt(a, o) : a \in Apps, o \in Objs}
    \cup {SetCbEvt(a, cb) : a \in Apps, cb \in Callbacks} \cup {DelLinkEvt(o) : o \in Objs}

Links == [mem : {"unused", "live", "freed"},
          name : Names \cup {Name("none", s) : s \in Socks},
          applayer_id : Apps \cup {NoApp}, tid : {"none", "run", "deleted"},
          write : BOOLEAN, close_sem : 0 .. 1]

TableType == /\ sys_event \in Seq(SysEvents) /\ Len(sys_event) <= SysMb /\ astray \in BOOLEAN
             /\ WellFormed(Objs, sys_link_obj) /\ sys_link_obj.size <= CFG_LINK_MAX + 1
             /\ sys_app_obj \in Seq(Apps) /\ Len(sys_app_obj) <= CFG_APP_MAX + 1
             /\ slots \in [Apps -> [1 .. CFG_LINK_MAX -> Objs \cup {NoObj}]]
             /\ app \in [Apps -> [running : BOOLEAN, cbs : SUBSET Callbacks]]
ThreadType == /\ obj \in [Objs -> Links] /\ disconnect \subseteq Objs /\ unheard \subseteq Objs
              /\ recvs \subseteq [link : Objs, pc : {"start", "loop", "close"}, name : Names]
              /\ sock \in [Socks \cup HwSocks -> {"free", "open", "reset"}]
BoundType  == booted \in 0 .. Len(BootCalls) /\ faults \in 0 .. MaxFaults

(* Every variable keeps its type; the table of links holds one more than   *)
(* CFG_LINK_MAX, which is what the comparison of iec_sys_add_link lets in.  *)
TypeOK == TableType /\ ThreadType /\ BoundType

Slotted(o) == \E a \in Apps : \E i \in DOMAIN slots[a] : slots[a][i] = o

(* When the receive thread has started a link, the binding that the main   *)
(* thread posted to itself has been handled: the link is in the table, has *)
(* its application, a place among the application's links, its driver and  *)
(* its thread, and the application runs with its callbacks.                *)
ServedIsBound ==
  \A r \in recvs : r.pc = "loop" /\ ~astray =>
    LET l == obj[r.link]
    IN  /\ Live(r.link) /\ l.tid = "run" /\ l.write /\ r.link \in Listed(sys_link_obj)
        /\ l.applayer_id = "iec104" /\ \E i \in 1 .. CFG_LINK_MAX : slots["iec104"][i] = r.link
        /\ app["iec104"] = [running |-> TRUE, cbs |-> Callbacks]

(* An application never keeps a link whose memory was freed, and has every *)
(* link once: it would post its updates to a mailbox that is gone.         *)
SlotsAreLive ==
  ~astray => \A a \in Apps : \A i, j \in 1 .. CFG_LINK_MAX : slots[a][i] # NoObj =>
    /\ Live(slots[a][i])
    /\ slots[a][i] = slots[a][j] => i = j

(* The table of links never holds freed memory or one link twice, and      *)
(* holds every link that has a thread.                                     *)
ListedAreLive ==
  ~astray =>
    /\ \A i, j \in 1 .. sys_link_obj.size :
         AsSeq(sys_link_obj)[i] = AsSeq(sys_link_obj)[j] => i = j
    /\ \A o \in Listed(sys_link_obj) : Live(o)
    /\ \A o \in Objs : Live(o) /\ (Slotted(o) \/ obj[o].tid = "run") => o \in Listed(sys_link_obj)

(* A failing or refused connection takes the place of nobody: the memory   *)
(* of a link is freed only after its receive thread asked for it.          *)
FreedOnlyAtItsEnd ==
  [][\A o \in Objs : Live(o) /\ obj'[o].mem = "freed" /\ ~astray =>
       obj[o].tid = "deleted" /\ \A r \in recvs : r.link = o => r.pc = "close"]_vars

(* A link that was asked to close, or whose peer has gone, is deleted, but *)
(* for one whose thread waited in a write when its receive thread ended:   *)
(* its mailbox may have had no slot left for the event.                    *)
Ending(o) == /\ Live(o) /\ obj[o].tid = "run" /\ obj[o].name # Serial0 /\ ~astray
             /\ obj[o].close_sem = 1 \/ Broken(obj[o].name.of)
EndedIsDeleted == \A o \in Objs : Ending(o) ~> (~Live(o) \/ o \in unheard \/ astray)

(* What becomes of a connection: the table implements LinkLife, until two  *)
(* links go by one name or a call is lost: then an entry may stay that     *)
(* points to freed memory, and no connection is safe from it.              *)
LifeOf(c) ==
  LET os == {o \in Listed(sys_link_obj) : obj[o].name = c}
  IN  IF astray THEN "astray"
      ELSE IF os = {} THEN "absent"
      ELSE IF \E o \in os : obj[o].tid = "none" THEN "known"
      ELSE IF \E o \in os : obj[o].tid = "deleted" THEN "ending"
      ELSE IF \A o \in os : obj[o].applayer_id = "iec104" THEN "served" ELSE "unbound"

Life == INSTANCE LinkLife WITH
          Places <- CFG_LINK_MAX + 1, life <- [c \in Conns |-> LifeOf(c)]

(* A connection is registered, served when it is bound, ended and forgotten *)
(* in this order, and its name comes again only after it was forgotten.    *)
ImplementsLinkLife == Life!Spec
=============================================================================
