----------------------------- MODULE MCRegistry -----------------------------
(***************************************************************************)
(* The registry for TLC, and the operations of the array list against the  *)
(* operations on sequences, over every list of up to three items in a      *)
(* memory of up to four cells.                                             *)
(***************************************************************************)
EXTENDS Registry

S == INSTANCE SequencesExt

MCItems == {"a", "b"}
MCLists == {l \in Lists(MCItems, 1 .. 3) : WellFormed(MCItems, l)}

ASSUME AddAppends ==
  \A l \in MCLists, x \in MCItems : AsSeq(arraylist_add(l, x)) = Append(AsSeq(l), x)

ASSUME InsertInserts ==
  \A l \in MCLists, x \in MCItems : \A i \in 0 .. l.size :
    AsSeq(arraylist_insert(l, i, x)) = S!InsertAt(AsSeq(l), i + 1, x)

ASSUME RemoveRemoves ==
  \A l \in MCLists : \A i \in 0 .. l.size - 1 :
    AsSeq(arraylist_remove(l, i)) = S!RemoveAt(AsSeq(l), i + 1)

ASSUME SetReplaces ==
  \A l \in MCLists, x \in MCItems : \A i \in 0 .. l.size - 1 :
    /\ AsSeq(arraylist_set(l, i, x)) = S!ReplaceAt(AsSeq(l), i + 1, x)
    /\ arraylist_get(arraylist_set(l, i, x), i) = x

ASSUME PopDropsTheLast ==
  \A l \in MCLists : l.size > 0 =>
    /\ AsSeq(arraylist_pop(l)) = S!Front(AsSeq(l))
    /\ arraylist_get(l, l.size - 1) = S!Last(AsSeq(l))
    /\ AsSeq(arraylist_clear(l)) = <<>>

ASSUME SliceIsSubSeq ==
  \A l \in MCLists : \A i \in 0 .. l.size : \A n \in 1 .. l.size - i :
    /\ AsSeq(arraylist_slice(l, i, n)) = SubSeq(AsSeq(l), i + 1, i + n)
    /\ AsSeq(arraylist_slice_end(l, i)) = SubSeq(AsSeq(l), i + 1, l.size)
    /\ AsSeq(arraylist_copy(l)) = AsSeq(l)

ASSUME SplicePutsInBetween ==
  \A l, m \in MCLists : l.size + m.size > 0 =>
    /\ AsSeq(arraylist_join(l, m)) = AsSeq(l) \o AsSeq(m)
    /\ \A i \in 0 .. l.size :
         AsSeq(arraylist_splice(l, m, i)) =
           SubSeq(AsSeq(l), 1, i) \o AsSeq(m) \o SubSeq(AsSeq(l), i + 1, l.size)
=============================================================================
