----------------------------- MODULE SocketRecv -----------------------------
(***************************************************************************)
(* iec104_recv_thread of App/iec104.c, one per accepted socket.  It looks  *)
(* at the close semaphore, reads the socket into one buffer that it never  *)
(* changes, and posts the address of that buffer to the link.  The link    *)
(* thread runs at a higher priority but waits inside obj.write, and while  *)
(* it does this thread reads on.                                           *)
(***************************************************************************)
EXTENDS NetLink

VARIABLES
  rx,       \* "take", "recv", "post", "err", "close", "gone"
  recv_len  \* bytes_received, by what it can be compared with

rxVars == <<rx, recv_len>>

SocketRecvInit ==
  /\ rx = "take" /\ recv_len = "apci"
  /\ temp_buff = Frame("U", 0, 0, "TESTFR") /\ temp_asdu = Garbage
  /\ sock = "open"

RxUnchanged == UNCHANGED <<link, active, data_trans_active, current_k, current_w, recv_counter,
                           sent_counter, timer, monitor, to_master, appVars, acked, wire_ack,
                           delivered>>

\* Mutant: the semaphore is not looked at.
NeverAsked == FALSE

\* rt_sem_take succeeds.
CloseAsked == close_sem = 1

(* rt_sem_take with a time limit.  A round of the loop that finds the        *)
(* semaphore closed and nothing to receive changes nothing: it is left out. *)
RxTake ==
  /\ rx = "take"
  /\ \/ CloseAsked /\ rx' = "err" /\ close_sem' = 0
     \/ /\ ~CloseAsked /\ (to_slave # <<>> \/ sock # "open")
        /\ rx' = "recv"
        /\ UNCHANGED close_sem
  /\ UNCHANGED <<netmb, bufVars, sock, to_slave, recv_len>>
  /\ RxUnchanged

(* recv returns what the stream holds: one frame, or two that it coalesced. *)
(* A short frame leaves the bytes behind the APCI as they were.            *)
RxRead ==
  /\ rx = "recv"
  /\ \E n \in 1 .. 2 :
       /\ n <= Len(to_slave)
       /\ to_slave' = SubSeq(to_slave, n + 1, Len(to_slave))
       /\ recv_len' = IF n = 1 THEN LenOf(Head(to_slave)) ELSE "many"
       /\ temp_asdu' = CASE Head(to_slave).fmt = "I" ->
                              [ns |-> Head(to_slave).ns, body |-> Head(to_slave).body]
                         [] Head(to_slave).fmt # "I" /\ n = 1 -> temp_asdu
                         [] OTHER -> Garbage
  /\ temp_buff' = Head(to_slave)
  /\ rx' = "post"
  /\ UNCHANGED <<netmb, close_sem, sock>>
  /\ RxUnchanged

(* recv returns 0 or an error: the peer has left and all it sent was read. *)
RxEnd ==
  /\ rx = "recv" /\ to_slave = <<>>
  /\ rx' = "err"
  /\ UNCHANGED <<netmb, close_sem, bufVars, sock, to_slave, recv_len>>
  /\ RxUnchanged

(* iec_sys_api_send_phyid_recv *)
RxPost ==
  /\ rx = "post"
  /\ netmb' = PostNet(netmb, PhyEvt(recv_len))
  /\ rx' = "take" /\ recv_len' = "apci"  \* not used again before the next recv
  /\ UNCHANGED <<close_sem, bufVars, sock, to_slave>>
  /\ RxUnchanged

(* iec_sys_api_netlink_send_close, and then the socket. *)
RxDisconnect ==
  /\ rx = "err"
  /\ netmb' = PostNet(netmb, DisconnectEvt)
  /\ rx' = "close"
  /\ UNCHANGED <<close_sem, bufVars, sock, to_slave, recv_len>>
  /\ RxUnchanged

RxClose ==
  /\ rx = "close"
  /\ sock' = "closed" /\ to_slave' = <<>>
  /\ rx' = "gone"
  /\ UNCHANGED <<netmb, close_sem, bufVars, recv_len>>
  /\ RxUnchanged

RecvThread == RxTake \/ RxRead \/ RxEnd \/ RxPost \/ RxDisconnect \/ RxClose
=============================================================================
