------------------------------ MODULE Primary ------------------------------
(***************************************************************************)
(* The primary station at the other end of the serial line, and the line.  *)
(* It is not part of the repository: this is the station that              *)
(* serial_link.c is written for.  It sends one request at a time, waits    *)
(* for an answer that fits, repeats the request unchanged when it hears    *)
(* none, and resets the link when it has repeated enough.  It alternates   *)
(* the count bit of its counted requests and begins with 1 after a reset.  *)
(*                                                                         *)
(* The line garbles requests and loses answers.  The primary is early when *)
(* it repeats or gives up although the station still works on an answer.   *)
(***************************************************************************)
EXTENDS SerialLink

CONSTANTS
  MaxRequests,  \* bound: requests, repeats not counted
  MaxRepeats,   \* repeats before the primary gives up
  MaxLosses,    \* bound: frames garbled or lost
  MaxEarly,     \* bound: early timeouts
  Commands      \* bound: the ASDUs it sends

ASSUME PrimaryAssumption ==
  /\ MaxRequests \in Nat /\ MaxRepeats \in Nat /\ MaxLosses \in Nat /\ MaxEarly \in Nat
  /\ Commands \subseteq Asdus

VARIABLES
  request,   \* the last request
  waiting,   \* an answer to it is awaited
  repeats,   \* its repeats
  ready,     \* the link was reset and answers since
  bit,       \* the count bit of the next counted request
  told,      \* class 1 data was announced and has not been asked for since
  requests, losses, early

primaryVars == <<request, waiting, repeats, ready, bit, told, requests, losses, early>>

NoRequest == Request("FC_DW_DATA_NO", 0, 0, "rejected", FALSE)

PrimaryInit ==
  /\ request = NoRequest /\ waiting = FALSE /\ repeats = 0 /\ ready = FALSE
  /\ bit = 1 /\ told = FALSE /\ requests = 0 /\ losses = 0 /\ early = 0
  /\ rx_buff = NoRequest /\ to_primary = <<>>

LineUnchanged == UNCHANGED <<serialVars, appmb, first_task>>

(* A request on the line: whatever the primary did not hear before it      *)
(* speaks is gone.  iec_recv_data of the driver posts the event and        *)
(* receives into its only buffer again.                                    *)
Puts(f) ==
  /\ \/ rx_buff' = f /\ UNCHANGED losses
     \/ losses < MaxLosses /\ rx_buff' = [f EXCEPT !.ok = FALSE] /\ losses' = losses + 1
  /\ PostLink(FrameEvt)
  /\ to_primary' = <<>>
  /\ LineUnchanged

Asks(f) ==
  /\ ~waiting /\ requests < MaxRequests
  /\ Puts(f)
  /\ request' = f
  /\ waiting' = (f.FunCode # "FC_DW_DATA_NO")
  /\ repeats' = 0 /\ requests' = requests + 1
  /\ UNCHANGED <<told, early>>

AskUncounted ==
  /\ \E fc \in Uncounted :
       /\ fc = "FC_DW_DATA_NO" => ready
       /\ Asks(Request(fc, 0, request.num, "rejected", TRUE))
       /\ ready' = (ready /\ fc # "FC_DW_RST_REMOTE")
  /\ UNCHANGED bit

AskCounted ==
  /\ ready
  /\ \/ \E fc \in CountedCodes \ {"FC_DW_DATA_YES"} :
          Asks(Request(fc, bit, request.num + 1, "rejected", TRUE))
     \/ \E a \in Commands : Asks(Request("FC_DW_DATA_YES", bit, request.num + 1, a, TRUE))
  /\ bit' = 1 - bit
  /\ UNCHANGED ready

\* The station has nothing to do and nothing is on the line.
Quiet == serialmb = <<>> /\ appmb = <<>> /\ to_primary = <<>>

Times == /\ waiting
         /\ \/ Quiet /\ UNCHANGED early
            \/ ~Quiet /\ early < MaxEarly /\ early' = early + 1

RepeatRequest ==
  /\ Times /\ repeats < MaxRepeats
  /\ Puts(request)
  /\ repeats' = repeats + 1
  /\ UNCHANGED <<request, waiting, ready, bit, told, requests>>

GiveUp ==
  /\ Times /\ repeats = MaxRepeats
  /\ waiting' = FALSE /\ ready' = FALSE
  /\ UNCHANGED <<rx_buff, serialmb, dropped, to_primary, request, repeats, bit, told, requests, losses>>
  /\ LineUnchanged

Fits(a) ==
  a.FunCode \in CASE request.FunCode \in {"FC_DW_FIRST_DATA", "FC_DW_SEC_DATA"} ->
                       {"FC_UP_USER_DATA", "FC_UP_NO_DATA"}
                  [] request.FunCode = "FC_DW_LINK" -> {"FC_UP_LINK"}
                  [] OTHER -> {"FC_UP_YES"}

Hears ==
  /\ to_primary # <<>>
  /\ to_primary' = Tail(to_primary)
  /\ UNCHANGED <<rx_buff, serialmb, dropped, request, repeats, requests>>
  /\ LineUnchanged

(* The announcement is remembered until class 1 data was asked for. *)
TakeAnswer ==
  /\ waiting /\ Hears /\ Fits(Head(to_primary))
  /\ waiting' = FALSE
  /\ told' = (Head(to_primary).ACD = 1 \/ (told /\ request.FunCode # "FC_DW_FIRST_DATA"))
  /\ ready' = (ready \/ request.FunCode = "FC_DW_RST_REMOTE")
  /\ bit' = IF request.FunCode = "FC_DW_RST_REMOTE" THEN 1 ELSE bit
  /\ UNCHANGED <<losses, early>>

Discard ==
  /\ Hears /\ ~(waiting /\ Fits(Head(to_primary)))
  /\ UNCHANGED <<waiting, told, ready, bit, losses, early>>

LoseAnswer ==
  /\ losses < MaxLosses /\ losses' = losses + 1
  /\ Hears
  /\ UNCHANGED <<waiting, told, ready, bit, early>>

PrimaryStation ==
  AskUncounted \/ AskCounted \/ RepeatRequest \/ GiveUp \/ TakeAnswer \/ Discard \/ LoseAnswer
=============================================================================
