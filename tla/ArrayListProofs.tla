-------------------------- MODULE ArrayListProofs --------------------------
(***************************************************************************)
(* The operations of the array list on the allocated memory are those on   *)
(* sequences, for every capacity, every length and every kind of item.     *)
(***************************************************************************)
EXTENDS ArrayList, Sequences, TLAPS

\* A list of items of S in an allocated memory that is large enough for it.
IsList(S, l) ==
  /\ l = [size |-> l.size, capacity |-> l.capacity, body |-> l.body]
  /\ l.capacity \in Nat \ {0} /\ l.size \in 0 .. l.capacity
  /\ l.body \in [0 .. l.capacity - 1 -> S \cup {Junk}]
  /\ WellFormed(S, l)

\* s with the item of index i (from 1) left out, and with x put before it.
Without(s, i) == [k \in 1 .. Len(s) - 1 |-> IF k < i THEN s[k] ELSE s[k + 1]]
With(s, i, x) ==
  [k \in 1 .. Len(s) + 1 |-> IF k < i THEN s[k] ELSE IF k = i THEN x ELSE s[k - 1]]

(* A list stands for a sequence of its items, as long as its size says.    *)
LEMMA ListIsSeq ==
  ASSUME NEW S, NEW l, IsList(S, l)
  PROVE  AsSeq(l) \in Seq(S) /\ Len(AsSeq(l)) = l.size
<1>1. l.size \in Nat
  BY DEF IsList
<1>2. \A i \in 1 .. l.size : i - 1 \in 0 .. l.size - 1
  BY <1>1
<1>3. AsSeq(l) \in [1 .. l.size -> S]
  BY <1>2 DEF AsSeq, IsList, WellFormed
<1> QED BY <1>1, <1>3

(* One more item than the memory holds doubles the memory: the loop of     *)
(* arraylist_allocate ends, and with enough room.                          *)
LEMMA GrownHolds ==
  ASSUME NEW c \in Nat \ {0}
  PROVE  Grown(c, c + 1) \in Nat /\ c + 1 <= Grown(c, c + 1)
<1> DEFINE C == {c * p : p \in Doublings}
<1>1. c * 2 \in C /\ c + 1 <= c * 2 /\ c * 2 < 2 * (c + 1)
  BY DoublingsAssumption
<1>2. \E g \in C : c + 1 <= g /\ g < 2 * (c + 1)
  BY <1>1
<1>3. Grown(c, c + 1) \in C /\ c + 1 <= Grown(c, c + 1)
  BY <1>2 DEF Grown
<1>4. PICK p \in Doublings : Grown(c, c + 1) = c * p
  BY <1>3
<1>5. p \in Nat
  BY <1>4, DoublingsAssumption
<1>6. c * p \in Nat
  BY <1>5
<1> QED BY <1>3, <1>4, <1>6

(* Room for one more item leaves the list as it was.                       *)
LEMMA AllocateKeeps ==
  ASSUME NEW S, NEW l, IsList(S, l)
  PROVE  LET a == arraylist_allocate(l, l.size + 1) IN
         /\ IsList(S, a) /\ a.size = l.size /\ l.size < a.capacity
         /\ \A i \in 0 .. l.size - 1 : a.body[i] = l.body[i]
<1> DEFINE a == arraylist_allocate(l, l.size + 1)
           g == Grown(l.capacity, l.size + 1)
<1>0. l.size \in Nat /\ l.capacity \in Nat \ {0} /\ l.size <= l.capacity
  BY DEF IsList
<1>1. CASE l.size + 1 <= l.capacity
  BY <1>0, <1>1 DEF arraylist_allocate
<1>2. CASE l.size = l.capacity
  <2>1. g \in Nat /\ l.size + 1 <= g
    BY <1>0, <1>2, GrownHolds
  <2>2. a = [l EXCEPT !.capacity = g, !.body = [i \in 0 .. g - 1 |-> At(l.body, i)]]
    BY <1>0, <1>2 DEF arraylist_allocate
  <2>3. a = [size |-> l.size, capacity |-> g, body |-> [i \in 0 .. g - 1 |-> At(l.body, i)]]
    BY <2>2 DEF IsList
  <2>4. \A i \in 0 .. l.size - 1 : i \in 0 .. g - 1 /\ At(l.body, i) = l.body[i]
    BY <1>0, <1>2, <2>1 DEF At, IsList
  <2>5. \A i \in 0 .. g - 1 : At(l.body, i) \in S \cup {Junk}
    BY DEF At, IsList
  <2> HIDE DEF a, g
  <2>7. a.body = [i \in 0 .. g - 1 |-> At(l.body, i)] /\ a.capacity = g /\ a.size = l.size
    BY <2>3
  <2>6. WellFormed(S, a)
    BY <2>4, <2>7 DEF WellFormed, IsList
  <2>8. a.body \in [0 .. a.capacity - 1 -> S \cup {Junk}]
    BY <2>5, <2>7
  <2>9. IsList(S, a)
    BY <1>0, <2>1, <2>3, <2>6, <2>7, <2>8 DEF IsList
  <2> QED BY <1>0, <2>1, <2>4, <2>7, <2>9 DEF a
<1> QED BY <1>0, <1>1, <1>2

(* arraylist_add appends, growing the memory when it is full.              *)
THEOREM AddRefines ==
  ASSUME NEW S, NEW l, IsList(S, l), NEW x \in S
  PROVE  /\ IsList(S, arraylist_add(l, x))
         /\ AsSeq(arraylist_add(l, x)) = Append(AsSeq(l), x)
<1> DEFINE a == arraylist_allocate(l, l.size + 1)
           n == arraylist_add(l, x)
<1>0. l.size \in Nat
  BY DEF IsList
<1>1. /\ IsList(S, a) /\ a.size = l.size /\ l.size < a.capacity
      /\ \A i \in 0 .. l.size - 1 : a.body[i] = l.body[i]
  BY AllocateKeeps
<1>2. n = [a EXCEPT !.body[l.size] = x, !.size = l.size + 1]
  BY DEF arraylist_add
<1> HIDE DEF a
<1>3. n = [size |-> l.size + 1, capacity |-> a.capacity, body |-> [a.body EXCEPT ![l.size] = x]]
  BY <1>1, <1>2 DEF IsList
<1> HIDE DEF n
<1>4. /\ n.size = l.size + 1 /\ n.capacity = a.capacity
      /\ n.body = [a.body EXCEPT ![l.size] = x]
  BY <1>3
<1>5. a.capacity \in Nat /\ a.body \in [0 .. a.capacity - 1 -> S \cup {Junk}]
  BY <1>1 DEF IsList
<1>6. l.size \in 0 .. a.capacity - 1
  BY <1>0, <1>1, <1>5
<1>7. n.body \in [0 .. n.capacity - 1 -> S \cup {Junk}]
  BY <1>4, <1>5
<1>8. \A i \in 0 .. l.size - 1 : n.body[i] = l.body[i]
  BY <1>0, <1>1, <1>4, <1>5, <1>6
<1>9. n.body[l.size] = x
  BY <1>4, <1>5, <1>6
<1>10. \A i \in 0 .. l.size - 1 : l.body[i] \in S
  BY DEF IsList, WellFormed
<1>11. WellFormed(S, n)
  <2>1. \A i \in 0 .. n.size - 1 : i = l.size \/ i \in 0 .. l.size - 1
    BY <1>0, <1>4
  <2> QED BY <2>1, <1>8, <1>9, <1>10 DEF WellFormed
<1>12. IsList(S, n)
  BY <1>0, <1>1, <1>3, <1>4, <1>5, <1>7, <1>11 DEF IsList
<1>13. AsSeq(n) = Append(AsSeq(l), x)
  <2>1. AsSeq(l) \in Seq(S) /\ Len(AsSeq(l)) = l.size
    BY ListIsSeq
  <2>2. AsSeq(n) \in Seq(S) /\ Len(AsSeq(n)) = l.size + 1
    BY <1>4, <1>12, ListIsSeq
  <2>3. ASSUME NEW i \in 1 .. l.size + 1
        PROVE  AsSeq(n)[i] = Append(AsSeq(l), x)[i]
    <3>1. AsSeq(n)[i] = n.body[i - 1]
      BY <1>4 DEF AsSeq
    <3>2. CASE i = l.size + 1
      BY <1>0, <1>9, <2>1, <3>1, <3>2
    <3>3. CASE i \in 1 .. l.size
      <4>1. i - 1 \in 0 .. l.size - 1
        BY <1>0, <3>3
      <4>2. AsSeq(l)[i] = l.body[i - 1]
        BY <3>3 DEF AsSeq
      <4> QED BY <1>8, <2>1, <3>1, <3>3, <4>1, <4>2
    <3>4. i = l.size + 1 \/ i \in 1 .. l.size
      BY <1>0
    <3> QED BY <3>2, <3>3, <3>4
  <2> QED BY <1>0, <2>1, <2>2, <2>3
<1> QED BY <1>12, <1>13 DEF n

(* arraylist_remove leaves out the item, although it moves one cell more   *)
(* than the list has: what it read past the end is not part of the list.   *)
THEOREM RemoveRefines ==
  ASSUME NEW S, NEW l, IsList(S, l), NEW i \in 0 .. l.size - 1
  PROVE  /\ IsList(S, arraylist_remove(l, i))
         /\ AsSeq(arraylist_remove(l, i)) = Without(AsSeq(l), i + 1)
<1> DEFINE n == arraylist_remove(l, i)
           body == arraylist_memshift(l.body, i + 1, -1, l.size - i)
<1>0. l.size \in Nat /\ l.capacity \in Nat /\ l.size <= l.capacity /\ i \in Nat /\ i < l.size
  BY DEF IsList
<1>1. body = [k \in 0 .. l.capacity - 1 |->
                IF k \in i .. l.size - 1 THEN At(l.body, k + 1) ELSE l.body[k]]
  <2>1. DOMAIN l.body = 0 .. l.capacity - 1
    BY DEF IsList
  <2>2. i + 1 + (-1) = i /\ i + 1 + (-1) + (l.size - i) - 1 = l.size - 1
    BY <1>0
  <2>3. \A k \in 0 .. l.capacity - 1 : k - (-1) = k + 1
    BY <1>0
  <2> QED BY <2>1, <2>2, <2>3 DEF arraylist_memshift
<1>2. n = [size |-> l.size - 1, capacity |-> l.capacity, body |-> body]
  <2>1. n = [l EXCEPT !.body = body, !.size = l.size - 1]
    BY DEF arraylist_remove
  <2>2. l = [size |-> l.size, capacity |-> l.capacity, body |-> l.body]
    BY DEF IsList
  <2> HIDE DEF body, n
  <2> QED BY <2>1, <2>2
<1> HIDE DEF body, n
<1>3. n.size = l.size - 1 /\ n.capacity = l.capacity /\ n.body = body
  BY <1>2
<1>4. n.body \in [0 .. n.capacity - 1 -> S \cup {Junk}]
  <2>1. \A k \in 0 .. l.capacity - 1 :
          At(l.body, k + 1) \in S \cup {Junk} /\ l.body[k] \in S \cup {Junk}
    BY DEF At, IsList
  <2> QED BY <1>1, <1>3, <2>1
<1>5. \A k \in 0 .. l.size - 2 : n.body[k] = IF k < i THEN l.body[k] ELSE l.body[k + 1]
  <2> SUFFICES ASSUME NEW k \in 0 .. l.size - 2
               PROVE  n.body[k] = IF k < i THEN l.body[k] ELSE l.body[k + 1]
    OBVIOUS
  <2>1. k \in 0 .. l.capacity - 1 /\ k + 1 \in 0 .. l.capacity - 1
    BY <1>0
  <2>2. At(l.body, k + 1) = l.body[k + 1]
    BY <2>1 DEF At, IsList
  <2>3. k \in i .. l.size - 1 <=> ~(k < i)
    BY <1>0
  <2> QED BY <1>1, <1>3, <2>1, <2>2, <2>3
<1>6. WellFormed(S, n)
  <2>1. \A k \in 0 .. l.size - 1 : l.body[k] \in S
    BY DEF IsList, WellFormed
  <2>2. \A k \in 0 .. n.size - 1 : k \in 0 .. l.size - 2
    BY <1>0, <1>3
  <2>3. \A k \in 0 .. l.size - 2 : k \in 0 .. l.size - 1 /\ k + 1 \in 0 .. l.size - 1
    BY <1>0
  <2> QED BY <1>5, <2>1, <2>2, <2>3 DEF WellFormed
<1>7. IsList(S, n)
  BY <1>0, <1>2, <1>3, <1>4, <1>6 DEF IsList
<1>8. AsSeq(n) = Without(AsSeq(l), i + 1)
  <2>1. Len(AsSeq(l)) = l.size
    BY ListIsSeq
  <2>2. ASSUME NEW k \in 1 .. l.size - 1
        PROVE  n.body[k - 1] = IF k < i + 1 THEN AsSeq(l)[k] ELSE AsSeq(l)[k + 1]
    <3>1. k - 1 \in 0 .. l.size - 2 /\ k - 1 + 1 = k /\ (k - 1 < i <=> k < i + 1)
      BY <1>0
    <3>2. k \in 1 .. l.size /\ k + 1 \in 1 .. l.size /\ k + 1 - 1 = k
      BY <1>0
    <3>3. AsSeq(l)[k] = l.body[k - 1] /\ AsSeq(l)[k + 1] = l.body[k]
      BY <3>2 DEF AsSeq
    <3> QED BY <1>5, <3>1, <3>3
  <2>3. AsSeq(n) = [k \in 1 .. l.size - 1 |-> n.body[k - 1]]
    BY <1>3 DEF AsSeq
  <2>4. Without(AsSeq(l), i + 1) =
          [k \in 1 .. l.size - 1 |-> IF k < i + 1 THEN AsSeq(l)[k] ELSE AsSeq(l)[k + 1]]
    BY <2>1 DEF Without
  <2> QED BY <2>2, <2>3, <2>4
<1> QED BY <1>7, <1>8 DEF n

(* arraylist_insert puts the item at the index, growing the memory when it *)
(* is full.                                                                *)
THEOREM InsertRefines ==
  ASSUME NEW S, NEW l, IsList(S, l), NEW i \in 0 .. l.size, NEW x \in S
  PROVE  /\ IsList(S, arraylist_insert(l, i, x))
         /\ AsSeq(arraylist_insert(l, i, x)) = With(AsSeq(l), i + 1, x)
<1> DEFINE a == arraylist_allocate(l, l.size + 1)
           shifted == arraylist_memshift(a.body, i, 1, l.size - i)
           n == arraylist_insert(l, i, x)
<1>0. l.size \in Nat /\ i \in Nat /\ i <= l.size
  BY DEF IsList
<1>1. /\ IsList(S, a) /\ a.size = l.size /\ l.size < a.capacity
      /\ \A k \in 0 .. l.size - 1 : a.body[k] = l.body[k]
  BY AllocateKeeps
<1>2. n = [a EXCEPT !.body = [shifted EXCEPT ![i] = x], !.size = l.size + 1]
  BY DEF arraylist_insert
<1> HIDE DEF a
<1>3. n = [size |-> l.size + 1, capacity |-> a.capacity, body |-> [shifted EXCEPT ![i] = x]]
  BY <1>1, <1>2 DEF IsList
<1>4. a.capacity \in Nat /\ a.body \in [0 .. a.capacity - 1 -> S \cup {Junk}]
  BY <1>1 DEF IsList
<1>5. shifted = [k \in 0 .. a.capacity - 1 |->
                   IF k \in i + 1 .. l.size THEN At(a.body, k - 1) ELSE a.body[k]]
  <2>1. i + 1 + (l.size - i) - 1 = l.size
    BY <1>0
  <2> QED BY <1>4, <2>1 DEF arraylist_memshift
<1> HIDE DEF shifted, n
<1>6. n.size = l.size + 1 /\ n.capacity = a.capacity /\ n.body = [shifted EXCEPT ![i] = x]
  BY <1>3
<1>7. shifted \in [0 .. a.capacity - 1 -> S \cup {Junk}]
  <2>1. \A k \in 0 .. a.capacity - 1 :
          At(a.body, k - 1) \in S \cup {Junk} /\ a.body[k] \in S \cup {Junk}
    BY <1>4 DEF At
  <2> QED BY <1>5, <2>1
<1>8. n.body \in [0 .. n.capacity - 1 -> S \cup {Junk}]
  BY <1>6, <1>7
<1>9. \A k \in 0 .. l.size :
        n.body[k] = IF k < i THEN l.body[k] ELSE IF k = i THEN x ELSE l.body[k - 1]
  <2> SUFFICES ASSUME NEW k \in 0 .. l.size
               PROVE  n.body[k] = IF k < i THEN l.body[k] ELSE IF k = i THEN x ELSE l.body[k - 1]
    OBVIOUS
  <2>1. k \in 0 .. a.capacity - 1
    BY <1>0, <1>1, <1>4
  <2>2. CASE k = i
    BY <1>6, <1>7, <2>1, <2>2
  <2>3. CASE k < i
    <3>1. k \notin i + 1 .. l.size /\ k # i /\ k \in 0 .. l.size - 1
      BY <1>0, <2>3
    <3>2. n.body[k] = shifted[k]
      BY <1>6, <1>7, <2>1, <3>1
    <3> QED BY <1>1, <1>5, <2>1, <2>3, <3>1, <3>2
  <2>4. CASE k > i
    <3>1. k \in i + 1 .. l.size /\ k # i /\ ~(k < i) /\ k - 1 \in 0 .. l.size - 1
      BY <1>0, <2>4
    <3>2. n.body[k] = shifted[k]
      BY <1>6, <1>7, <2>1, <3>1
    <3>3. k - 1 \in 0 .. a.capacity - 1
      BY <1>0, <1>4, <2>1, <3>1
    <3>4. At(a.body, k - 1) = a.body[k - 1]
      BY <1>4, <3>3 DEF At
    <3> QED BY <1>1, <1>5, <2>1, <3>1, <3>2, <3>4
  <2> QED BY <1>0, <2>2, <2>3, <2>4
<1>10. WellFormed(S, n)
  <2>1. \A k \in 0 .. l.size - 1 : l.body[k] \in S
    BY DEF IsList, WellFormed
  <2>2. \A k \in 0 .. n.size - 1 : k \in 0 .. l.size
    BY <1>0, <1>6
  <2>3. \A k \in 0 .. l.size : (k < i => k \in 0 .. l.size - 1) /\ (k > i => k - 1 \in 0 .. l.size - 1)
    BY <1>0
  <2>4. \A k \in 0 .. l.size : k < i \/ k = i \/ (k > i /\ k # i /\ ~(k < i))
    BY <1>0
  <2>5. \A k \in 0 .. l.size : n.body[k] \in S
    BY <1>9, <2>1, <2>3, <2>4
  <2> QED BY <2>2, <2>5 DEF WellFormed
<1>11. IsList(S, n)
  BY <1>0, <1>1, <1>3, <1>4, <1>6, <1>8, <1>10 DEF IsList
<1>12. AsSeq(n) = With(AsSeq(l), i + 1, x)
  <2>1. Len(AsSeq(l)) = l.size
    BY ListIsSeq
  <2>2. ASSUME NEW k \in 1 .. l.size + 1
        PROVE  n.body[k - 1] = IF k < i + 1 THEN AsSeq(l)[k]
                               ELSE IF k = i + 1 THEN x ELSE AsSeq(l)[k - 1]
    <3>1. k - 1 \in 0 .. l.size /\ (k - 1 < i <=> k < i + 1) /\ (k - 1 = i <=> k = i + 1)
      BY <1>0
    <3>2. /\ k < i + 1 => k \in 1 .. l.size
          /\ ~(k < i + 1) /\ k # i + 1 => k - 1 \in 1 .. l.size
      BY <1>0
    <3>3. \A j \in 1 .. l.size : AsSeq(l)[j] = l.body[j - 1]
      BY DEF AsSeq
    <3> QED BY <1>9, <3>1, <3>2, <3>3
  <2>3. AsSeq(n) = [k \in 1 .. l.size + 1 |-> n.body[k - 1]]
    BY <1>6 DEF AsSeq
  <2>4. With(AsSeq(l), i + 1, x) =
          [k \in 1 .. l.size + 1 |-> IF k < i + 1 THEN AsSeq(l)[k]
                                     ELSE IF k = i + 1 THEN x ELSE AsSeq(l)[k - 1]]
    BY <2>1 DEF With
  <2> QED BY <2>2, <2>3, <2>4
<1> QED BY <1>11, <1>12 DEF n
=============================================================================
