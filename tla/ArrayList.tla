----------------------------- MODULE ArrayList -----------------------------
(***************************************************************************)
(* Helper/arraylist.c: a growing array of pointers.  The body is the       *)
(* allocated memory, indexed from 0 as in C; the size says how much of it  *)
(* is the list.  Memory that was allocated and never written, or that lies *)
(* past the end of the body, reads as Junk.                                *)
(***************************************************************************)
EXTENDS Integers

CONSTANTS
  Junk,                        \* what an unwritten cell holds
  ARRAYLIST_INITIAL_CAPACITY,
  Doublings                    \* the powers of 2 the growing loop may reach

ASSUME CapacityAssumption == ARRAYLIST_INITIAL_CAPACITY \in Nat \ {0}
ASSUME DoublingsAssumption == Doublings \subseteq Nat /\ 2 \in Doublings

\* The lists with elements of S and an allocated memory of one of the sizes C.
Lists(S, C) ==
  UNION {[size : 0 .. c, capacity : {c}, body : [0 .. c - 1 -> S \cup {Junk}]] : c \in C}

\* The sequence a list stands for.
AsSeq(l) == [i \in 1 .. l.size |-> l.body[i - 1]]

WellFormed(S, l) == \A i \in 0 .. l.size - 1 : l.body[i] \in S

At(body, i) == IF i \in DOMAIN body THEN body[i] ELSE Junk

\* rt_memmove of length cells from index from to index from + offset.
arraylist_memshift(body, from, offset, length) ==
  [i \in DOMAIN body |->
     IF i \in from + offset .. from + offset + length - 1 THEN At(body, i - offset) ELSE body[i]]

\* rt_memmove of length cells of another body, from its index from.
CopyFrom(body, index, other, from, length) ==
  [i \in DOMAIN body |->
     IF i \in index .. index + length - 1 THEN At(other, from + i - index) ELSE body[i]]
-----------------------------------------------------------------------------
arraylist_create ==
  [size |-> 0, capacity |-> ARRAYLIST_INITIAL_CAPACITY,
   body |-> [i \in 0 .. ARRAYLIST_INITIAL_CAPACITY - 1 |-> Junk]]

\* The capacity the loop stops at: the first doubling that holds size items.
Grown(capacity, size) ==
  CHOOSE c \in {capacity * p : p \in Doublings} : size <= c /\ c < 2 * size

arraylist_allocate(l, size) ==
  IF size <= l.capacity THEN l
  ELSE [l EXCEPT !.capacity = Grown(l.capacity, size),
                 !.body = [i \in 0 .. Grown(l.capacity, size) - 1 |-> At(l.body, i)]]

arraylist_size(l) == l.size

arraylist_add(l, item) ==
  LET a == arraylist_allocate(l, l.size + 1)
  IN  [a EXCEPT !.body[l.size] = item, !.size = l.size + 1]

\* The list after the pop; what is popped is arraylist_get(l, l.size - 1).
arraylist_pop(l) == [l EXCEPT !.size = l.size - 1]

arraylist_get(l, index) == l.body[index]

arraylist_set(l, index, value) == [l EXCEPT !.body[index] = value]

arraylist_insert(l, index, value) ==
  LET a == arraylist_allocate(l, l.size + 1)
      shifted == arraylist_memshift(a.body, index, 1, l.size - index)
  IN  [a EXCEPT !.body = [shifted EXCEPT ![index] = value], !.size = l.size + 1]

\* The shift moves one cell more than the list has behind the index: it
\* reads body[size], which lies past the memory when the list is full.
arraylist_remove(l, index) ==
  [l EXCEPT !.body = arraylist_memshift(l.body, index + 1, -1, l.size - index),
            !.size = l.size - 1]

arraylist_clear(l) == [l EXCEPT !.size = 0]

arraylist_slice(l, index, length) ==
  LET n == arraylist_allocate(arraylist_create, length)
  IN  [n EXCEPT !.body = CopyFrom(n.body, 0, l.body, index, length), !.size = length]

arraylist_slice_end(l, index) == arraylist_slice(l, index, l.size - index)

\* arraylist_slice asserts through arraylist_allocate that the length is not 0.
arraylist_copy(l) == arraylist_slice_end(l, 0)

arraylist_splice(l, source, index) ==
  LET a == arraylist_allocate(l, l.size + source.size)
      shifted == arraylist_memshift(a.body, index, source.size, l.size - index)
  IN  [a EXCEPT !.body = CopyFrom(shifted, index, source.body, 0, source.size),
                !.size = l.size + source.size]

arraylist_join(l, source) == arraylist_splice(l, source, l.size)

\* The items arraylist_iterate visits: its update also reads body[size].
Iterated(l) == {l.body[i] : i \in 0 .. l.size - 1}
=============================================================================
