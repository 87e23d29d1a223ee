# A specification of the newiec protocol stack

newiec is a slave (controlled station) for IEC 60870-5-101 and -104 on RT-Thread. It is a
handful of threads that exchange events through bounded mailboxes: one thread per link, one
per application object, one time monitor and one receive thread per 104 connection, and a
main thread that creates and binds them. This directory models those threads, checks them
with TLC and proves the central invariants with TLAPS.

## 1. Inventory

| Part (source) | State it keeps | Operations | Talks to |
|---|---|---|---|
| Events (`Core/core_event.c`, `Layer/layer.c`) | a mailbox per thread | create, post, receive, free | every thread |
| 104 link (`Layer/Link/net_link.c`) | `active`, `current_k`, `current_w`, `recv_counter`, `sent_counter`, `t0..t3_start/_delay`, close semaphore | I, S and U frame, send ASDU, nothing to send, update, acknowledgement, timeout, window full, disconnect; monitor round | receive thread, application |
| 104 sockets (`App/iec104.c`) | the socket, one receive buffer | look at the semaphore, read, post, take down; accept | link, TCP |
| Application (`Layer/App/app.c`, `app_task.c`) | `first_task`, `second_task`, `linklayer_id[]` | request of a level, user data, node update, add and free a task, pack an ASDU | links, device callbacks |
| Device (`App/iec101.c`, `Iec/iec_node.c`) | measured values | general call, clock, commands, node updates | application |
| Serial link (`Layer/Link/serial_link.c`) | `fcb`, `acd_tag`, previous frame, `active` | dispatch of a frame, answers, repeats | serial driver, application |
| System (`Core/core_sys.c`) | tables of links and applications | create, start, bind, edit, delete; API calls | everything |
| Array list (`Helper/arraylist.c`) | size, capacity, body | add, insert, remove, slice, splice | application |
| Coding (`Iec/*`) | constant tables | element and node coding | application |

What is hard in this code, and what each part must get right:

- *Lost events.* `iec_post_event` never waits and ignores a full mailbox. Whatever is counted
  before a post must still be right when the event is gone.
- *A shared buffer.* The receive thread posts the address of its only buffer; the link looks
  into it later. What is counted, handed over and confirmed must belong to the same frame.
- *Stale events.* The monitor posts a timeout, the link handles it after the frame that made
  it unnecessary; the else-if chain lets one overdue timer hide another.
- *Crossing frames.* S frames cross I frames; windows and sequence numbers must agree with
  what the peer has received.
- *Ends.* A connection ends from either side; the link asks the receive thread by a
  semaphore, the receive thread tells the link by an event that may be lost.
- *A line that loses frames.* The serial link must tell a repeat from a new request by one
  bit, through losses, resets and a buffer the driver and the link both overwrite while
  events that name it wait; the primary must learn that class 1 data waits although the bit
  that says so is cleared when it is sent.
- *Links that come and go.* A link is made by one thread, bound and started by events, ended
  by three threads in turn, and freed while one of them still reads it; only the priorities of
  the threads put these steps in an order that works.
- *Data that waits.* Answers, status changes and measured values wait in two lists and are
  merged, moved to the front, refreshed in place, looked up by link when they are sent and by
  name when they are freed. A point must be sent with its newest value, a call be answered
  whole, an answer go out first.

The full list, each at its line, is in `PROJECT.json` under `hazards`.

## 2. Modules

| Module | Models | State and actions |
|---|---|---|
| `IecEvent` | events, `iec_post_event` | no state; the post drops an event when the mailbox is full |
| `NetLink` | link thread and time monitor | one action per handler: `DropFrame`, `IFrameInactive`, `IFrameActive`, `IFrameFillsWindow` and `CopyAfterWrite`, `UFrame`, `SFrame`, `UserAck`, `Update`, `SendAsdu`, `SendNone`, `Timeout(t)`, `CntFull`, `Disconnect`; `MonitorCount`, `MonitorCompare` |
| `SocketRecv` | receive thread of a socket | `RxTake`, `RxRead`, `RxEnd`, `RxPost`, `RxDisconnect`, `RxClose` |
| `AppView` | application thread as one link sees it | `AppRequest`, `AppUserData`, `AppUpdate`, `DeviceUpdate` |
| `Master` | the peer (external) | `MasterI`, `MasterS`, `MasterU`, `MasterGets`, `MasterLeaves` |
| `NetSession` | one connection: the five above | `Init`, `Next`, fairness, the properties |
| `Apci` | abstract: what numbering promises | `Send`, `PeerReceives`, `Confirm`, `Receive`, `Acknowledge` |
| `MCNetSession` | timer limits for TLC | |
| `NetSessionProofs`, `NetPromiseProofs` | proofs for all constants | |
| `SerialLink` | link thread of a serial line | one action per frame or event: `NoAnswer`, `Repeat`, `DataRequest`, `UserData`, `Reset`, `LinkAnswers`, `Update`, `UserAck`, `SendAsdu`, `SendNone` |
| `SerialApp` | application thread as a serial link sees it | `AppRequest`, `AppCommand`, `AppIgnores`, `AppUpdate`, `DeviceUpdate` |
| `Primary` | primary station, serial line and driver (external but for `Puts`) | `AskUncounted`, `AskCounted`, `RepeatRequest`, `GiveUp`, `TakeAnswer`, `Discard`, `LoseAnswer` |
| `SerialSession` | one serial line: the three above | `Init`, `Next`, the properties |
| `SerialProofs`, `SerialTurnProofs` | proofs for all constants | |
| `ArrayList` | `Helper/arraylist.c` | operators: a list is a size, a capacity and a body that may hold junk past the size |
| `Registry` | `Core/core_sys.c` and the threads of `App/iec104.c` that make and end links | main thread: `CreateLink`, `RejectLink`, `CreateApp`, `StartLink`, `StartApp`, `Bind`, `SetCb`, `DelLink`; link threads: `Disconnect`, `NotifyClose`; receive threads: `RecvStart`, `RecvErr` (with `iec_sys_api_netlink_send_close`), `RecvClose`; listener and w5500: `Accept`, `AcceptFails`, `HwConnects`; environment: `Boot`, `PeerCloses`, `Overwrite` |
| `LinkLife` | abstract: what becomes of a connection | `Register`, `Serve`, `End`, `Forget`; `GoAstray` once two links have one name or the main mailbox was full |
| `MCRegistry` | the array list's operations against those on sequences | |
| `Asdu` | `Iec/`: types, causes, nodes and how they are packed | operators |
| `AppTask` | `Layer/App/app_task.c`: the lists of tasks | operators: place, add, answer, get, free, pack |
| `Device` | callbacks of `App/iec101.c`, `Iec/iec_node.c` | measured values, status points, switch, battery, clock |
| `Station` | `Layer/App/app.c` with the three above and the links that ask | `AppRequest`, `AppCommand`, `PulseEnds`, `AppUpdate`; `Sample`, `Measure`, `SignalChanges`, `SwitchMoves`; `LinkAsks`, `LinkHandsOver`, `LinkReset` |
| `MCStation` | values for TLC, packing and adding over small lists | |
| `RegistryProofs`, `RegistryLifeProofs`, `ArrayListProofs` | proofs for all constants | |
| `StationProofs` | proofs for all constants, with one link | |

A handler runs from the event it takes to the next `iec_recv_event`; its actions are atomic
except where it writes on the socket before it has finished with the shared buffer
(`net_link.c:418-428`), the one place where another thread can change what it still reads.
The history variables `acked`, `wire_ack` and `delivered` record the number last confirmed,
the number last put on the wire and the ASDUs handed over; no action reads them.

On the serial side `accepted`, `handed`, `executed`, `called` and `dropped` are history, and
so are the numbers of requests and command events: the code knows a request only by its
count bit. A command event names `recv_buff`; what the application carries out is what that
buffer holds then (`recv_asdu`). The access demand bit of a fixed frame is not written when
nothing is announced (`serial_link.c:297-303`): either value goes out. The direction of the
line (`double_dir`) is a parameter of the link's creation and is chosen by `Init`.

Abstractions: an ASDU is what it asks of the application; a length is an APCI, an APCI with
an ASDU, or several frames read at once; a task list is the number of ASDUs that wait; the
receive thread's empty rounds are stuttering. A null sub message (`net_link.c:559`) is
handled as an ASDU the application rejects. The memory of events, tasks and ASDUs is not modelled;
that of links is, in `Registry`.

Registry. RT-Thread always runs the ready thread of the highest priority: links (14), main
thread (15), receive threads (17), listener (18). An action of a thread is enabled only when
no thread above it has something to do (`MainRuns`, `RecvRuns`, `ListenRuns`); that is what
makes a link bound before it is served. The start-up calls are made in the order `Boot`
gives. Freed memory keeps its contents until `Overwrite`: the receive thread reads the
semaphore and the socket number of a link that was freed before it (`RecvClose`), except the
w5500's, which keeps a copy of the number. Once nothing reads the memory any more its
contents are forgotten, which only merges states. A link that was refused for want of room
leaks its object and its socket; it is a state of the model, not an excuse of a property. The
start-up calls include the serial link, which takes one of the `CFG_LINK_MAX + 1` entries and
binds to the other application; without it as many network links would be accepted, and the
last be bound without a place in theirs.

The disconnect event goes from the receive thread to the link's mailbox of four slots. A link
thread that is not held up has emptied its mailbox before a receive thread runs, so it takes
the event at once (`disconnect`). One that waits in a write has not: the event waits with the
others or is dropped by `iec_post_event` when the four slots are taken, as the run
`SocketClosed` shows of one connection. Such a link is `unheard`: its `Disconnect` may come at
any later time or never, while its receive thread closes the socket and ends. The link stays
in the table and in its application, its socket number is free, and the next connection on it
gets the same name. What follows is not what anybody wants: `iec_sys_find_link` binds the old
link again, the new one is served without its binding, and its deletion unlists the old link
and frees the new one, which stays listed.

Two connections also get one name when `accept` fails twice within the half second a receive
thread sleeps, or when the freed memory was used again and another's socket is closed. The
history variable `astray` is set when a connection is called for by a name that a link or a
call already has, or when the main mailbox was full after a post, so that a call may have been
dropped. The properties speak of a system that is not astray. The exception is needed: without
it TLC finds `ServedIsBound`, `SlotsAreLive`, `ListedAreLive`, `FreedOnlyAtItsEnd` and
`ImplementsLinkLife` violated, each by one lost event and one more connection of the name.
Until that connection comes, all of them hold with lost and late events, which the runs and
the proofs include. `Connects` is not taken any more once astray, a bound, since nothing is
promised from there.

Station. A link is what the application reads and writes of one: two flags, and what it was
told to ask for. `Polled` says whether the primary asks at will (a serial line) or the link
asks when the application told it to (a connection). Lost frames and the links' own mailboxes
are the matter of `NetSession` and `SerialSession`; here an ASDU counts as handed when it is
given to the link. The program makes no buffered node and none with the sequence bit, so
no action does; `AppTask` still covers buffered nodes, which `MCStation` evaluates. The
200 ms pulse of a switch command splits `AppCommand` in two, because other threads run
meanwhile. `Garbage` is what the unset `single` of an answer's node may hold. `image`, `owed`,
`mixed`, `call`, `awaited` and `unconfirmed` are history.

The socket's receive time limit (`iec104.c:80`) is taken to make `recv` return -3, which is
what the loop tests for; the TCP stack itself is outside the source.

## 3. Runs

Bounds common to the network runs: sequence numbers modulo 8 and no run sends 8 frames, so a
wrap is left to the proofs, which hold for every modulus; timer limits 1 (T2), 2 (T1) and 3
in rounds of the monitor, in the order of the code's 10, 15, 20 and 30 seconds. Deadlock is
not checked in any run: a connection ends, a primary that has sent all its requests has
nothing left to ask, and a station at its bounds waits.

- `NetReceive` (W = 2, three I frames, mailboxes of 2 and 1): T2 runs exactly while frames
  wait (`ReceiveBacklogTimed`), none is forgotten (`BacklogCounted`), what is handed over
  without a write in between is the frame counted, once (`DeliveredAsCounted`). Three frames
  fill the window and start the next; two slots are enough to lose every kind of event.
- `NetSend` (K = 2, W = 1, a general call, a device update, two U frames): types and bounds,
  `SendWindow`, `ConfirmedWasReceived`, and the refinement `ImplementsApci`.
- `NetLive` (K = 1, W = 2): the liveness properties.
- `DataFrames`, `T1Runs`, `HandOver`, `SocketClosed`: four statements of the source's own
  comments the code does not keep; see `findings` in `PROJECT.json`.
- `Serial` (four requests, one repeat each, one loss, one early timeout, mailboxes of 2, both
  directions): commands are handed over once and in order (`CommandsOnce`). While the primary
  only repeats when the line is silent, a new request is never taken for a repeat
  (`NewIsAccepted`), the application carries out what it was sent (`CarriedOutAsHanded`), and
  data flows only after a general call (`TransferWasCalled`); each of the three fails when the
  primary is early once, which is why they say so. Without losses and lost events the primary
  always learns of class 1 data (`ClassOneAnnounced`). Four requests are a reset, a call and
  two more, enough for a repeat to race with the next request and an update with a poll;
  five requests and two updates with a primary never early were checked too (6 million
  states).
- `Registry` (one socket and one w5500 socket that come again and again, `CFG_LINK_MAX` 2 and
  so a table of three with the serial link, one fault of three kinds (`MaxFaults`): a failing
  `accept`, a reuse of freed memory, or a link thread held up in a write when its connection
  ends; memory for four links, an array that starts with one cell). As long as the system is
  not astray a link that is served was bound (`ServedIsBound`), slots and table hold live links
  once (`SlotsAreLive`, `ListedAreLive`), a link is freed only at its end
  (`FreedOnlyAtItsEnd`), a connection that ended is deleted unless its link is still `unheard`
  (`EndedIsDeleted`; that this cannot be left out is the finding of `SocketClosed`), and each
  connection lives through registered, bound, ended and forgotten in this order
  (`ImplementsLinkLife`). One lost event is enough for an old link and a new one of its name.
  Three entries fill the table, so that the failing accept's link is refused while the others
  run; four cells of memory let a freed one be taken while one was never used. The mailbox of
  twelve slots (`core_sys.c:12`) never fills here. With two faults the properties but
  `EndedIsDeleted` were checked too (503,496 states), and with mailboxes of two, four and six
  slots, which do fill.
- `Station` (one polled link, two commands out of four, four moves of commands, device and
  resets together, two measured values, a mailbox of three): a fresh general call is answered
  in order and whole up to where it ended (`CallInOrder`), a point that waits nowhere was
  handed out with the value last registered (`HandedIsOwed`), an answer goes first
  (`AnswerGoesFirst`), no execution is confirmed that was not carried out (`NoFalseConfirm`).
  Three slots hold the three parts of a
  call and lose one as soon as anything else waits. `HandedIsOwed` excepts the points `mixed`
  records: data put over that of other points, or overtaken in the other list; `CallInOrder`
  a call made while pieces of an earlier one wait, and a call of several objects, which is
  refused. Two links are not in this run, because of the next one.
- `ForeignTask` (two links): a link that asks without having data gets another's. That task
  need not be the first of its name, by which `app_task_free` then looks for it; see `findings`.
- Assumptions TLC evaluates over all small inputs: in `MCRegistry` every operation of the
  array list against the operation on sequences; in `MCStation` that packing a node reads
  back and counts right (`ReadsBack`), what becomes of buffered nodes (`OneAddressForAll`)
  and that adding a node disturbs no other task (`AddDisturbsNoOther`).
- `SerialRepeat`: a repeated request is answered with nothing, because `prev_sent_len` is
  never set.

No liveness is stated of the serial line: the link only answers, and owes nothing to a
primary that does not ask.

Fairness of a connection: weak, on each of the four threads of the station. Each waits only
for its mailbox, a tick or a time limit, and RT-Thread runs every ready thread because the
threads above it block again. Neither master nor device is fair. Fairness of the registry:
weak on start-up, main thread and the links that heard of their end (`Heard`), which nothing
above them holds back for ever, but not on links that are `unheard`; strong
on each receive thread, which sleeps at most half a second but is preempted again and again.
Neither listener, peers nor `accept` are fair. `Station` states no liveness: what is sent
depends on a primary that asks.

## 4. Proofs

`NetSessionProofs` proves for all windows, mailbox sizes, timer limits and number widths:

- `TypeCorrect`: `Spec => []TypeOK`. `TypeOK` is inductive by itself; its one conjunct that is
  not a type, that a frame whose ASDU is still to be copied was counted, is what makes the
  copied frame's number a natural number. One lemma per thread, one step per action.
- `BacklogTimed` and `WindowCounted`: inductive relative to `TypeOK`, from what the timer
  operators change (`TimerFacts`) and from the fact that no other thread touches the counters.
- `OnlyReceivedIsConfirmed`: the inductive invariant adds that no frame under way or in the
  shared buffer carries a number above what the master has received (`NumbersFromPast`);
  without it an S frame could confirm anything.

`NetPromiseProofs` proves the rest of a connection's safety, for the same constants:

- `CountedAreDelivered` and `BacklogIsCounted`, by one invariant, `HandedInv`: the bytes behind
  an APCI in the buffer are its own as long as the buffer starts with it (`BufferFits`); what
  was handed over belongs to frames before the next (`AllBefore`), which while the link waits
  in its write is one already counted and acknowledged (`Acknowledged`). The ASDUs that wait
  for an acknowledgement are then as many as numbers between `wire_ack` and `recv_counter`
  at most, which bounds their cardinality by `current_w`.
- `NumberingImplemented`: `Spec => ImplementsApci`. A frame under way shows its number modulo
  the width only; `PromiseInv` says that the frames can be given whole numbers that grow, are
  not below what the master has counted and below what the link has used (`UnderWay`). So a
  frame the master accepts by its short number is one the link sent and the master lacks.

The serial line, for all mailbox sizes and any number of requests, losses, repeats and resets:

- `SerialProofs` proves `HandedOverOnce`, `Spec => []CommandsOnce`, early timeouts without
  bound included. The inductive invariant `OnceInv` says that the driver's buffer holds the
  last request, sound or garbled, and that if this is the counted request accepted last, the
  link holds its bit. A reset forgets the bit, but then the reset itself is in the buffer, so
  no older command can come again.
  It also proves `SerialTyped`, `Spec => []TypeOK`, by `OnceInv` and the fact that what waits
  anywhere belongs to a request already made (`Bounded`).
- `SerialTurnProofs` proves `NewRequestsAccepted`, `CommandsCarriedOut` and
  `TransfersWereCalled` for a primary that is never early (`early = 0`). `TurnInv` is a token
  argument: between them primary, line and link hold one turn, a frame, an event or an answer
  (`Turn`); while it is out the primary waits (`Unanswered`), the bit of the link is that of
  the request before (`Alternates`), and what the buffer and the flags hold is what the turn
  is about (`Carried`). An early repeat makes a second token, which is why the properties
  need `early = 0`.
- The same module proves `ClassOneIsAnnounced`, `Spec => []ClassOneAnnounced`. While class 1
  data waits on an unbalanced line that lost nothing, one of four holds at every step
  (`Announced`): the tag is set, an event that sets it or makes the link look is in its
  mailbox, the answer on the line carries the bit, or the primary knows and is not about to
  forget. The link clears the tag by what it sees of a list the application adds to
  meanwhile; that this loses nothing needs to know which answer a request can have (`Kinds`)
  and that it is the only one on the line (`FitsOnly`), both from the token.

`RegistryProofs` proves `RegistryTyped`, `Spec => []TypeOK`, for any number of sockets, links,
faults and mailbox slots. `TypeOK` is not inductive: an index found in the table of links must
lie in the memory the table owns, so the invariant adds that the table is a list
(`IsList(Objs, sys_link_obj)`), and it rests on the lemmas of `ArrayListProofs`: `AddRefines`,
`RemoveRefines` and `InsertRefines` say that on every list the operation is that on the
sequence it stands for and leaves a list, growing and the one cell that is moved too many
included. `Doublings` is how far the loop that doubles the capacity may go; the proofs need
only that it may go one step.

`RegistryLifeProofs` proves what the registry keeps in the order of its threads, for any number
of sockets, link objects, places, mailbox slots and faults, lost and late disconnect events
among them, as long as the system is not `astray`: `ServedAreBound`, `SlotsHoldLive`,
`TableHoldsLive`, `FreedAtItsEnd` and the refinement `LifeImplemented`. None of them is
inductive; they follow from one invariant, `OrderInv`, whose parts need each other:

- `MailInv`: each call to the main thread has a caller: the connection or link it is about, or
  one of the calls of the start-up program. A caller never has two calls in the mailbox
  (`Apart`). As long as the mailbox was never full, no call is lost (`RoomLeft`,
  `PostArrives`); nothing is assumed of how many slots there are.
- `BootInv`, `AppInv`: the serial link is created first and the application iec104 before any
  connection, so a link is bound to an application that is there and will run.
- `RecvInv`, `CallInv`, `DiscInv`: a receive thread runs only when the mailbox is empty. When
  it starts, the binding its link posted was handled; when it closes the socket, the link is
  gone, or is still to be told (`Told`) and then bound, listed and running as before.
- `NameInv`: no two live links have one name, and a name that is called for has none. A
  connection that is called for by a free name has no receive thread of that name either: one
  that serves has its link, and none is starting or closing when the listener runs. The w5500
  calls from above all threads, but only for a socket that is free, and its receive thread
  ends when it frees it.
- `TableInv`, `SlotInv`: the table holds live links once, and an application holds exactly the
  links of the table that are bound to it; a full table still has a place for each, because
  the serial link is bound to the other application.
- Free memory that is used again (`OverwriteKeeps`) changes nothing, because no call, entry or
  slot is about a freed link.

The refinement reads the life of a connection from the one link of its name (`Stage`). A
connection gets known only while there is a place: by `NameInv` the known connections have
different entries of the table, so there are no more of them than it has links
(`RoomIsPlace`). `LinkLife` promises nothing once the system is astray (`GoAstray`), for any
connection: an entry of the table may then point to freed memory, whatever its name.

`StationProofs` proves five results about the application with one link (`OneLink`), for any
points, commands, sizes of the mailbox and of an ASDU, and number of steps. `OneLink` is what
each call of `app_task_get` and `app_task_free` relies on: the first task of the link is then
the first of its list, so the task that is sent is the one that is freed. With two links
the first conjunct of `TypeOK`, that a task which waits is not empty, does not hold: a link may
take the last task of another (run `ForeignTask`), which need not be the first of its name.

- `StationTyped`, by `StationInv`: no node of the program is buffered,
  so every task holds one node, whose first object has its address; a report is one of five
  kinds (`UpdateKinds`). The lemmas say what each operation does to a list, in terms of its
  first tasks: `AddedAtPlace`, `AnswerIsFirst`, `FirstIsTaken`, `FirstIsFreed`.
- `ExecutedIsConfirmed`, `Spec => []NoFalseConfirm`, by `ConfirmInv`: the confirmations of
  executed commands that wait are no more than commands executed and not confirmed yet. An
  answer adds one only when its cause is that of a command that was carried out
  (`ConfirmedIsExecuted`), a merged answer and a report none (`ToConfirmAnswer`,
  `ToConfirmReported`), and one that is sent takes one away.
- `NewestAnswerGoesFirst`, `Spec => AnswerGoesFirst`, by `AnswerInv`: no two tasks of the first
  list have the same type, cause and address (`Distinct`), and the first of them are the
  answers that are awaited, in this order (`Answered`).
- `CallsInOrder`, `Spec => []CallInOrder`, by `CallInv`: of the four parts of a fresh call the
  first `g` were handed out, those up to `m` wait as tasks and those up to `n` as reports in
  the mailbox, each kind in its turn (`InTurn`), and nothing else that belongs to a call is
  there. A report that finds the mailbox full loses all that follow it (`ReportedUpTo`), because
  the three are posted by the thread that would have to take one out. A report becomes a task
  because the call itself made the link one that is told (`data_trans_active`), and a part
  never merges with a task that waits, because none of its name does.
- `OwedIsHanded`, `Spec => []HandedIsOwed`, by `OwedInv`: for a point that is not `mixed` the
  last task that holds it, which is sent last, has the value last registered (`NewestIs`); only
  one of the two lists holds tasks of the point; and when neither does, the link has the value.
  A task is handed out whole because its node counts its objects (`Exact`, `CountOfOne`): the
  code never updates `single` of a node that waits, and it stays right as long as data is put
  over data of the same points; where it is not, all points of the task are `mixed` (`Whole`).

Assumptions on constants are those of the types (`WindowAssumption`, `WidthAssumption`,
`RegistryAssumption` and the like). None of them bounds the number of sockets, links or
mailbox slots.

Every safety invariant and action property of a passing run is proved. Only model-checked:
liveness and ENABLED, which are out of the prover's reach (`ReceivedIsAcknowledged`,
`ExpiryCloses`, `CloseRequestCloses`, `EndedIsDeleted`); what the packing and adding of several
nodes to one task does (`MCStation`), which no node of this program needs. Of `Station` with
two links only the violation of `AskerIsAnswered` is shown.

## 5. Not modelled

- Operating system (`src/OS/`): RT-Thread's headers and the CMSIS wrapper, which are not this
  program's. Mailboxes, semaphores, priorities and threads are modelled by what the stack
  relies on.
- The coding of elements to bits (`Iec/iec_element.h`, `iec_element.c`), the lengths of
  addresses and the layout of frames: a value or an address is itself.
- Opening the listening socket, LEDs, printing; the callbacks for test, delay and reset, which
  change nothing; `EVT_SYS_DEL_APP`, whose handler is empty; file and parameter callbacks,
  which no caller sets; forced clearing of the task lists, which no caller asks for.
- `app_tag` of a serial link and the getters and setters of its address; allocation that fails,
  except where a bound on link objects stands for it.
- The timed progress of a peer that leaves 32768 frames behind: the comparison at
  `net_link.c:117` is then always false, which the models of eight numbers do not reach.

## 6. Plan

1. Two links and `Station`: which of its properties hold for a station of two links, and with
   which exceptions.
2. The proofs of the application for several links: `CallInv`, `AnswerInv` and `OwedInv` speak
   of the list as the link's own, and would have to speak of the tasks of one link in it, with
   the exceptions that item 1 finds for a task given to another link.
