------------------------------ MODULE LinkLife ------------------------------
(***************************************************************************)
(* What the system object promises of a connection: it is known before it  *)
(* is served, it is served only while the table has a place for it, and it *)
(* is forgotten before its name can come again.  A connection for which    *)
(* there is no place is never known.  Nothing is promised any more once    *)
(* two connections went by one name, or the mailbox by which connections   *)
(* are registered was full.                                                *)
(***************************************************************************)
EXTENDS FiniteSets, Naturals

CONSTANTS Conns, Places

VARIABLE life

Known == {c \in Conns : life[c] \in {"known", "served", "ending"}}

Init == life = [c \in Conns |-> "absent"]

Register(c) == /\ life[c] = "absent" /\ Cardinality(Known) < Places
               /\ life' = [life EXCEPT ![c] = "known"]

Serve(c)    == life[c] = "known" /\ life' = [life EXCEPT ![c] = "served"]
End(c)      == life[c] = "served" /\ life' = [life EXCEPT ![c] = "ending"]
Forget(c)   == life[c] = "ending" /\ life' = [life EXCEPT ![c] = "absent"]

GoAstray == life' = [c \in Conns |-> "astray"]

Next == GoAstray \/ \E c \in Conns : Register(c) \/ Serve(c) \/ End(c) \/ Forget(c)

Spec == Init /\ [][Next]_life
=============================================================================
