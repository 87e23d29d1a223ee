-------------------------------- MODULE Apci --------------------------------
(***************************************************************************)
(* What the numbering of a 104 link promises, without timers, mailboxes or *)
(* frames: numbers go up one at a time, never more than K of them stand    *)
(* unconfirmed, they become confirmed only when the peer has received      *)
(* every one of them, and what is acknowledged to the peer was received.   *)
(***************************************************************************)
EXTENDS Naturals

CONSTANT K

VARIABLES
  sent,         \* numbers used for sending
  confirmed,    \* of these, the ones the peer has confirmed
  received,     \* I frames received in step
  acknowledged, \* of these, the ones acknowledged to the peer
  peer          \* I frames the peer has received

apci == <<sent, confirmed, received, acknowledged, peer>>

Init == sent = 0 /\ confirmed = 0 /\ received = 0 /\ acknowledged = 0 /\ peer = 0

Send == /\ sent - confirmed < K
        /\ sent' = sent + 1
        /\ acknowledged' \in {acknowledged, received}
        /\ UNCHANGED <<confirmed, received, peer>>

PeerReceives == /\ peer < sent
                /\ peer' = peer + 1
                /\ UNCHANGED <<sent, confirmed, received, acknowledged>>

Confirm == /\ peer = sent
           /\ confirmed' = sent
           /\ UNCHANGED <<sent, received, acknowledged, peer>>

Receive == /\ received' = received + 1
           /\ acknowledged' \in {acknowledged, received + 1}
           /\ UNCHANGED <<sent, confirmed, peer>>

Acknowledge == /\ acknowledged' = received
               /\ UNCHANGED <<sent, confirmed, received, peer>>

Next == Send \/ PeerReceives \/ Confirm \/ Receive \/ Acknowledge

Spec == Init /\ [][Next]_apci
=============================================================================
