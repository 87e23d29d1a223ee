------------------------------ MODULE Station ------------------------------
(***************************************************************************)
(* One application of the controlled station: its thread (Layer/App/app.c) *)
(* with its task lists, the callbacks of App/iec101.c it calls, the device *)
(* they work on, and the links that ask it for data and hand it commands.  *)
(* A link is what the application reads and writes of one; its own thread  *)
(* is that of NetSession and SerialSession.                                *)
(***************************************************************************)
EXTENDS AppTask, Device, IecEvent

CONSTANTS
  Links,         \* the links bound to the application
  Polled,        \* TRUE: serial lines, whose primary asks at will; FALSE:
                 \* connections, which ask when the application told them to
  Commands,      \* the ASDUs a link may hand over
  Garbage,       \* what the memory of an answer's node may hold as single
  StartSignals,  \* inputs and alarms at the start
  Changing,      \* the inputs and alarms that may change
  AppMb,         \* slots of the mailbox, MAX_EVENT_COUNT
  MaxCommands,   \* bound: commands handed over
  MaxMoves,      \* bound: commands, changes of the device and link resets
  MaxAsked       \* bound: requests of links that wait in the mailbox

ASSUME LinksAssumption == Links \subseteq Nat /\ Polled \in BOOLEAN
ASSUME GarbageAssumption == Garbage \subseteq Nat /\ Garbage # {}
ASSUME SignalsAssumption == StartSignals \in [Signals -> 0 .. 1] /\ Changing \subseteq Signals
ASSUME BoundsAssumption ==
  AppMb \in Nat /\ MaxCommands \in Nat /\ MaxMoves \in Nat /\ MaxAsked \in Nat
ASSUME CommandsAssumption ==
  Commands \subseteq [asdu_ident : 0 .. 255, cause : Causes, addr : Nat, node_count : 0 .. 127,
                      known_asdu : BOOLEAN, SE : {CHOOSING, EXECUTE}, act : -1 .. 2]

VARIABLES
  tasks,              \* first_task and second_task
  app_event,          \* the mailbox of the application
  pulse,              \* the command whose pulse the thread waits for, or none
  active,             \* per link: link_get_active_state
  data_trans_active,  \* per link
  told,               \* per link and level: notices that it has not asked for
  commands, moves,    \* how much of the bounds is used
  image,              \* history: what each link was handed last of a point
  owed,               \* history: what was last registered of a point
  mixed,              \* history: points whose newest data is not sent last
  call,               \* history: the general call of each link
  awaited,            \* history: the commands' answers to come, newest first
  unconfirmed         \* history: commands executed, less those confirmed

taskVars    == <<tasks, app_event, pulse>>
linkVars    == <<active, data_trans_active, told>>
historyVars == <<image, owed, mixed, call, awaited, unconfirmed>>
boundVars   == <<commands, moves>>
vars        == <<taskVars, linkVars, boundVars, historyVars, deviceVars>>

Unknown == -1
NoCall  == [fresh |-> FALSE, got |-> <<>>]

Init ==
  /\ DeviceInit(StartSignals)
  /\ tasks = [lvl \in Levels |-> <<>>] /\ app_event = <<>> /\ pulse = <<>>
  /\ active = [l \in Links |-> 0] /\ data_trans_active = [l \in Links |-> 0]
  /\ told = [l \in Links |-> [lvl \in Levels |-> 0]]
  /\ commands = 0 /\ moves = 0
  /\ image = [l \in Links |-> [p \in Points |-> Unknown]] /\ owed = image
  /\ mixed = [l \in Links |-> {}] /\ call = [l \in Links |-> NoCall]
  /\ awaited = [l \in Links |-> <<>>] /\ unconfirmed = 0
-----------------------------------------------------------------------------
(* The events of the application.                                          *)
Ask(l, lvl)       == Event("APP_RECV_DATA", lvl, [sender |-> l])
HandOver(l, a)    == Event("APP_RECV_DATA", "USER", [sender |-> l, asdu |-> a])
NodeUpdate(u)     == Event("APP_NODE_UPDATE", "NORMAL_NODE", u)

\* The mailbox after iec_all_call_proc reported its three nodes, one by one.
Reported(mb, u)   == iec_post_event(mb, AppMb, NodeUpdate(u))
CallReported(mb)  ==
  LET us == iec_all_call_proc IN Reported(Reported(Reported(mb, us[1]), us[2]), us[3])

Takes(type, subs) ==
  /\ pulse = <<>> /\ app_event # <<>>
  /\ Head(app_event).evt_type = type /\ Head(app_event).evt_sub_type \in subs

(* What of a general call still waits: the call, its data, its end.        *)
OfCall(ident, cause) == cause = "Introgen" \/ ident = C_IC_NA
CallWaits(l) ==
  \/ \E i \in DOMAIN tasks["LEVEL_1"] :
       LET t == tasks["LEVEL_1"][i] IN t.link_id = l /\ OfCall(t.asdu_ident, t.cause)
  \/ \E i \in DOMAIN app_event :
       LET e == app_event[i] IN
         \/ e.evt_type = "APP_NODE_UPDATE" /\ OfCall(e.msg.ident, e.msg.cause)
         \/ e.evt_sub_type = "USER" /\ e.msg.asdu.asdu_ident = C_IC_NA

\* Data of points is reported with these causes, commands are answered with
\* others and have addresses of their own.
DataCauses      == {"Spont", "Introgen"}
Addresses(node) == {node.objects[i].addr : i \in DOMAIN node.objects}
PointsOf(t)     ==
  IF t.cause \in DataCauses THEN UNION {Addresses(t.nodes[i]) : i \in DOMAIN t.nodes} ELSE {}

\* The positions of list al at which a point waits for a link.
WaitsAt(al, l, p) == {i \in DOMAIN al : al[i].link_id = l /\ p \in PointsOf(al[i])}
-----------------------------------------------------------------------------
\* What the links L were told to ask for, after app_send_update_evt_to_link
\* or app_send_userdata_ack_evt_to_link.
Told(L, lvl) ==
  IF Polled THEN told
  ELSE [l \in Links |-> IF l \in L THEN [told[l] EXCEPT ![lvl] = @ + 1] ELSE told[l]]

(* A link asks for data of a level.                                        *)
LinkAsks(l, lvl) ==
  /\ Cardinality({i \in DOMAIN app_event : app_event[i].evt_sub_type \in Levels}) < MaxAsked
  /\ ~Polled => told[l][lvl] > 0
  /\ told' = IF Polled THEN told ELSE [told EXCEPT ![l][lvl] = @ - 1]
  /\ app_event' = iec_post_event(app_event, AppMb, Ask(l, lvl))
  /\ UNCHANGED <<tasks, pulse, active, data_trans_active, boundVars, historyVars, deviceVars>>

(* A link hands over a command: user data makes a serial link active, and  *)
(* on a connection it is accepted when STARTDT has done so.                *)
LinkHandsOver(l, a) ==
  /\ commands < MaxCommands /\ commands' = commands + 1
  /\ moves < MaxMoves /\ moves' = moves + 1
  /\ active' = [active EXCEPT ![l] = 1]
  /\ app_event' = iec_post_event(app_event, AppMb, HandOver(l, a))
  /\ call' = [call EXCEPT ![l] = IF a.asdu_ident = C_IC_NA
                                 THEN [fresh |-> a.node_count <= 1 /\ ~CallWaits(l), got |-> <<>>]
                                 ELSE @]
  /\ UNCHANGED <<tasks, pulse, data_trans_active, told, image, owed, mixed, awaited, unconfirmed,
                 deviceVars>>

(* The primary station resets a serial link: a call that was being         *)
(* answered is over.                                                       *)
LinkReset(l) ==
  /\ Polled /\ active[l] = 1
  /\ moves < MaxMoves /\ moves' = moves + 1
  /\ active' = [active EXCEPT ![l] = 0]
  /\ data_trans_active' = [data_trans_active EXCEPT ![l] = 0]
  /\ call' = [call EXCEPT ![l].fresh = FALSE]
  /\ UNCHANGED <<taskVars, told, commands, image, owed, mixed, awaited, unconfirmed, deviceVars>>
-----------------------------------------------------------------------------
(* app_evt_recv_data_handle, a request: the data goes to the link of the   *)
(* task, whoever asked.  The history reads as many objects as the count    *)
(* of the ASDU says.                                                       *)
Piece(f) == <<f.ident, f.cause>>
Reply(f) == <<f.ident, f.cause, f.objects[1].addr>>

Imaged(img, f) ==
  [p \in Points |->
     LET at == {i \in DOMAIN f.objects : i <= f.count /\ f.objects[i].addr = p}
     IN  IF f.cause \notin DataCauses \/ at = {} THEN img[p] ELSE f.objects[Max(at)].val]

Confirms(f) ==
  f.ident = C_DC_NA /\ f.cause = "Actcon" /\ f.objects[1].val = EXECUTE

HandsOut(f) ==
  LET l == f.link_id IN
  /\ image' = [image EXCEPT ![l] = Imaged(@, f)]
  /\ call' = [call EXCEPT ![l].got = IF OfCall(f.ident, f.cause) THEN Append(@, Piece(f)) ELSE @]
  /\ awaited' = [awaited EXCEPT ![l] = RemoveFirst(@, Reply(f))]
  /\ unconfirmed' = IF Confirms(f) THEN unconfirmed - 1 ELSE unconfirmed

AppRequest ==
  /\ Takes("APP_RECV_DATA", Levels)
  /\ app_event' = Tail(app_event)
  /\ LET lvl   == Head(app_event).evt_sub_type
         asker == Head(app_event).msg.sender
         i     == app_task_get(tasks[lvl], asker)
     IN  \/ /\ i = 0
            /\ UNCHANGED <<tasks, image, call, awaited, unconfirmed>>
         \/ /\ i # 0
            /\ \E single \in Garbage :
                 HandsOut(app_task_covert_to_asdu_frame(tasks[lvl][i], single))
            /\ tasks' = [tasks EXCEPT ![lvl] = app_task_free(Emptied(@, i), i)]
  /\ UNCHANGED <<pulse, linkVars, boundVars, owed, mixed, deviceVars>>

(* app_evt_dispatch_recv_asdu.  An ASDU of a type or address that is not   *)
(* known is not answered.                                                  *)
Known(a) == iec_get_asdu_cfg(a.asdu_ident) /\ a.known_asdu

Answers(l, a, res) ==
  LET cause == app_linkframe_convert_to_asdu(a, res) IN
  /\ tasks' = [tasks EXCEPT !["LEVEL_1"] =
       app_task_insert_ack_asdu(@, l, a.asdu_ident, cause,
         [addr |-> a.addr, single |-> Unset, buffered |-> 0,
          objects |-> <<Object(a.addr, a.SE)>>])]
  /\ told' = Told({l}, "LEVEL_1")
  /\ awaited' = [awaited EXCEPT ![l] =
       <<<<a.asdu_ident, cause, a.addr>>>> \o RemoveFirst(@, <<a.asdu_ident, cause, a.addr>>)]

\* The result of the callback, which only an activation is given to.
Result(a) == IF IsCtrl(a) /\ a.cause = "Act" THEN iec101_ctrl_cmd_callback(a) ELSE "CMD_RES_FAIL"
Acts(a)   == IsCtrl(a) /\ a.cause = "Act"

AppCommand ==
  /\ Takes("APP_RECV_DATA", {"USER"})
  /\ LET l == Head(app_event).msg.sender
         a == Head(app_event).msg.asdu
     IN  \/ /\ ~Known(a)
            /\ app_event' = Tail(app_event)
            /\ told' = Told({l}, "LEVEL_1")
            /\ UNCHANGED <<tasks, pulse, data_trans_active, awaited, unconfirmed, deviceVars>>
         \/ /\ Known(a) /\ Acts(a) /\ Pulses(a)  \* the thread is delayed by 200 ms
            /\ app_event' = Tail(app_event)
            /\ pulse' = <<[sender |-> l, asdu |-> a]>>
            /\ output' = "OUT_SET"
            /\ UNCHANGED <<tasks, data_trans_active, told, awaited, unconfirmed, real,
                           last_realdata, signal, position, moving, clock>>
         \/ /\ Known(a) /\ Acts(a) /\ ~Pulses(a)
            /\ app_event' = Tail(app_event)
            /\ moving' = (moving \/ Starts(a))
            /\ unconfirmed' = IF Starts(a) THEN unconfirmed + 1 ELSE unconfirmed
            /\ Answers(l, a, Result(a))
            /\ UNCHANGED <<pulse, data_trans_active, real, last_realdata, signal, position,
                           output, clock>>
         \/ /\ Known(a) /\ ~Acts(a)
            /\ app_event' = IF IsSys(a) /\ a.asdu_ident = C_IC_NA
                            THEN CallReported(Tail(app_event))
                            ELSE Tail(app_event)
            /\ data_trans_active' = IF IsSys(a) /\ a.asdu_ident = C_IC_NA
                                    THEN [data_trans_active EXCEPT ![l] = 1]
                                    ELSE data_trans_active
            /\ clock' = IF IsSys(a) /\ SetsClock(a.asdu_ident) THEN a.asdu_ident ELSE clock
            /\ Answers(l, a, "CMD_RES_FAIL")
            /\ UNCHANGED <<pulse, unconfirmed, real, last_realdata, signal, position, moving,
                           output>>
  /\ UNCHANGED <<active, boundVars, image, owed, mixed, call>>

\* The delay is over: ecact_action ends the pulse and the command is answered.
PulseEnds ==
  /\ pulse # <<>>
  /\ pulse' = <<>>
  /\ output' = "OUT_RESET"
  /\ unconfirmed' = unconfirmed + 1
  /\ Answers(pulse[1].sender, pulse[1].asdu, "CMD_RES_OK")
  /\ UNCHANGED <<app_event, active, data_trans_active, boundVars, image, owed, mixed, call, real,
                 last_realdata, signal, position, moving, clock>>
-----------------------------------------------------------------------------
(* app_evt_update_node_handle: a task for every link that is active and    *)
(* was called.                                                             *)
Wanting == {l \in Links : active[l] = 1 /\ data_trans_active[l] = 1}

Registered(al, l, u)    == app_task_add_normal(al, l, u.ident, u.cause, u.node)
RegisteredAll(al, L, u) == FoldLeft(LAMBDA x, l : Registered(x, l, u), al, InOrder(L))

\* The points of a link whose newest data is overtaken by older data, is put
\* over data of other points, or is lost under it.
Disturbed(l, u) ==
  LET al  == tasks[u.level]
      new == Registered(al, l, u)
      i   == Place(al, <<l, u.ident, u.cause>>, u.node)
      old == IF i \in DOMAIN al THEN PointsOf(al[i]) ELSE {}
  IN  {p \in Addresses(u.node) :
         \/ \E j \in WaitsAt(new, l, p) : j > i
         \/ \E lvl \in Levels \ {u.level} : WaitsAt(tasks[lvl], l, p) # {}}
        \cup (IF old \in {{}, Addresses(u.node)} THEN {} ELSE old \cup Addresses(u.node))

Settled(l, u) == {p \in Addresses(u.node) : \A lvl \in Levels : WaitsAt(tasks[lvl], l, p) = {}}

AppUpdate ==
  /\ Takes("APP_NODE_UPDATE", {"NORMAL_NODE"})
  /\ app_event' = Tail(app_event)
  /\ LET u == Head(app_event).msg IN
     /\ tasks' = [tasks EXCEPT ![u.level] = RegisteredAll(@, Wanting, u)]
     /\ told' = Told(Wanting, u.level)
     /\ owed' = [l \in Links |-> IF l \notin Wanting THEN owed[l] ELSE
          [p \in Points |->
             LET at == {i \in DOMAIN u.node.objects : u.node.objects[i].addr = p}
             IN  IF at = {} THEN owed[l][p] ELSE u.node.objects[Max(at)].val]]
     /\ mixed' = [l \in Links |-> IF l \notin Wanting THEN mixed[l] ELSE
          (mixed[l] \ Settled(l, u)) \cup Disturbed(l, u)]
  /\ UNCHANGED <<pulse, active, data_trans_active, boundVars, image, call, awaited, unconfirmed,
                 deviceVars>>

AppThread == AppRequest \/ AppCommand \/ PulseEnds \/ AppUpdate
-----------------------------------------------------------------------------
(* The device: iec_update_mv_node samples the measured values, and a       *)
(* change of a status is reported with iec_changed_all_notify.             *)
Sample ==
  /\ Changed # {}
  /\ last_realdata' = [p \in Measured |-> IF p \in Changed THEN real[p] ELSE last_realdata[p]]
  /\ app_event' = iec_post_event(app_event, AppMb,
       NodeUpdate(Update("LEVEL_2", M_ME_NB, "Spont", NodeOf(InOrder(Changed), real, 0))))
  /\ UNCHANGED <<tasks, pulse, linkVars, boundVars, historyVars, real, signal, position, moving,
                 output, clock>>

Measure ==
  /\ moves < MaxMoves /\ moves' = moves + 1
  /\ \E p \in Measured, v \in Readings : v # real[p] /\ real' = [real EXCEPT ![p] = v]
  /\ UNCHANGED <<taskVars, linkVars, commands, historyVars, last_realdata, signal,
                 position, moving, output, clock>>

Notify(p) == NodeUpdate(Update("LEVEL_1", M_SP_NA, "Spont", NodeOf(<<p>>, Status', 0)))

SignalChanges ==
  /\ moves < MaxMoves /\ moves' = moves + 1
  /\ \E p \in Changing :
       /\ signal' = [signal EXCEPT ![p] = 1 - @]
       /\ UNCHANGED <<real, last_realdata, position, moving, output, clock>>
       /\ app_event' = iec_post_event(app_event, AppMb, Notify(p))
  /\ UNCHANGED <<tasks, pulse, linkVars, commands, historyVars>>

SwitchMoves ==
  /\ moving
  /\ moving' = FALSE
  /\ position' = IF position = "CUT" THEN "CLOSE" ELSE "CUT"
  /\ UNCHANGED <<signal, real, last_realdata, output, clock>>
  /\ app_event' = iec_post_event(app_event, AppMb, Notify(YX_CLOSE_ADDR))
  /\ UNCHANGED <<tasks, pulse, linkVars, boundVars, historyVars>>

DeviceStep == Sample \/ Measure \/ SignalChanges \/ SwitchMoves

LinkStep ==
  \E l \in Links :
    \/ LinkReset(l)
    \/ \E lvl \in Levels : LinkAsks(l, lvl)
    \/ \E a \in Commands : LinkHandsOver(l, a)

Next == AppThread \/ DeviceStep \/ LinkStep

Spec == Init /\ [][Next]_vars
-----------------------------------------------------------------------------
UpdateType(u) ==
  /\ u.level \in Levels /\ u.ident \in 0 .. 255 /\ u.cause \in Causes
  /\ u.node.buffered \in 0 .. 1 /\ u.node.single \in Nat /\ Len(u.node.objects) > 0

EventType(e) ==
  CASE e.evt_type = "APP_NODE_UPDATE" -> UpdateType(e.msg)
    [] e.evt_sub_type = "USER"        -> e.msg.sender \in Links /\ e.msg.asdu \in Commands
    [] OTHER                          -> e.evt_sub_type \in Levels /\ e.msg.sender \in Links

TaskType(t) ==
  /\ t.link_id \in Links /\ t.asdu_ident \in 0 .. 255 /\ t.cause \in Causes
  /\ Len(t.nodes) > 0
  /\ \A i \in DOMAIN t.nodes : Len(t.nodes[i].objects) > 0

(* Every variable keeps its type, the mailbox its size, and a task that    *)
(* waits is never empty.                                                   *)
TypeOK ==
  /\ \A lvl \in Levels : \A i \in DOMAIN tasks[lvl] : TaskType(tasks[lvl][i])
  /\ Len(app_event) <= AppMb /\ \A i \in DOMAIN app_event : EventType(app_event[i])
  /\ Len(pulse) <= 1 /\ output = (IF pulse = <<>> THEN "OUT_RESET" ELSE "OUT_SET")
  /\ active \in [Links -> 0 .. 1] /\ data_trans_active \in [Links -> 0 .. 1]
  /\ told \in [Links -> [Levels -> Nat]]
  /\ real \in [Measured -> Readings] /\ last_realdata \in [Measured -> Readings]
  /\ signal \in [Signals -> 0 .. 1] /\ position \in {"CUT", "CLOSE"} /\ moving \in BOOLEAN
  /\ clock \in {0, C_IC_NA, C_CS_NA}
  /\ commands \in 0 .. MaxCommands /\ moves \in 0 .. MaxMoves

CallPieces == <<<<C_IC_NA, "Actcon">>, <<M_SP_NA, "Introgen">>, <<M_ME_NB, "Introgen">>,
                <<C_IC_NA, "Actterm">>>>

(* A general call of one object made when nothing of an earlier one waits  *)
(* is answered in order, by its confirmation, the status, the measured     *)
(* values and its end: although the answers travel through the thread's    *)
(* own mailbox, which may be full, and other data is reported in between,  *)
(* a call that was ended was answered completely.                          *)
CallInOrder == \A l \in Links : call[l].fresh => IsPrefix(call[l].got, CallPieces)

(* A point no task of the link holds any more was last handed to the link  *)
(* with the value last registered for it: no task is lost, sent twice,     *)
(* overtaken or counted wrong.  Excepted are the points whose data waited  *)
(* elsewhere when newer data came, or was put over that of other points.   *)
HandedIsOwed ==
  \A l \in Links : \A p \in Points \ mixed[l] :
    (\A lvl \in Levels : WaitsAt(tasks[lvl], l, p) = {}) => image[l][p] = owed[l][p]

AskTaken(l, lvl) ==
  /\ app_event # <<>> /\ app_event' = Tail(app_event)
  /\ Head(app_event).evt_sub_type = lvl /\ Head(app_event).msg.sender = l

(* What a link is handed for level 1 while answers to its commands wait is *)
(* the newest of them, whatever was registered since.                      *)
AnswerGoesFirst ==
  [][\A l \in Links :
       AskTaken(l, "LEVEL_1") /\ awaited[l] # <<>> => awaited'[l] = Tail(awaited[l])]_vars

(* No execution is confirmed that was not carried out: refused commands    *)
(* and the merging of answers that wait never make a confirmation.         *)
NoFalseConfirm == unconfirmed >= 0

(* A link that asks and has no task is told so, and no task of another     *)
(* link is taken (app_task.c says app_task_get returns 0 without a task).  *)
AskerIsAnswered ==
  [][\A l \in Links, lvl \in Levels :
       AskTaken(l, lvl) /\ (\A i \in DOMAIN tasks[lvl] : tasks[lvl][i].link_id # l)
         => UNCHANGED tasks]_vars
=============================================================================
