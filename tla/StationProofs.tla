---------------------------- MODULE StationProofs ----------------------------
(***************************************************************************)
(* One application of the controlled station with one link, for any        *)
(* commands, points, sizes of the mailbox and of an ASDU.                  *)
(*                                                                         *)
(* With one link the first task of the link is the first task of its list, *)
(* and no node of this program is buffered, so every task holds one node.  *)
(***************************************************************************)
EXTENDS Station, FiniteSetTheorems, SequenceTheorems, TLAPS

OneLink == \E l : Links = {l}

Idents == 0 .. 255

\* What the nodes, the reports, the events and the tasks of this program are.
Objects == [addr : Nat, val : Nat]
Nodes ==
  {n \in [addr : Nat, single : Nat, buffered : {0}, objects : Seq(Objects)] :
     n.objects # <<>> /\ n.objects[1].addr = n.addr}

UpdateKinds ==
  {<<"LEVEL_1", M_SP_NA, "Introgen">>, <<"LEVEL_1", M_ME_NB, "Introgen">>,
   <<"LEVEL_1", C_IC_NA, "Actterm">>, <<"LEVEL_1", M_SP_NA, "Spont">>,
   <<"LEVEL_2", M_ME_NB, "Spont">>}

\* A node counts its objects, and has each address once.
Exact(n) == n.single = Len(n.objects) /\ Cardinality(Addresses(n)) = Len(n.objects)

Updates ==
  {u \in [level : Levels, ident : Idents, cause : Causes, node : Nodes] :
     /\ <<u.level, u.ident, u.cause>> \in UpdateKinds /\ Exact(u.node)
     /\ u.cause \in DataCauses \/ Addresses(u.node) \cap Points = {}}

Events ==
  {NodeUpdate(u) : u \in Updates} \cup {Ask(l, lvl) : l \in Links, lvl \in Levels}
    \cup {HandOver(l, a) : l \in Links, a \in Commands}

Tasks ==
  [link_id : Links, asdu_ident : Idents, cause : Causes, nodes : {<<n>> : n \in Nodes}]

-----------------------------------------------------------------------------
(* A set of natural numbers that is not empty has a least element.         *)
LEMMA MinIsLeast ==
  ASSUME NEW T, T \subseteq Nat, T # {}
  PROVE  Min(T) \in T /\ \A y \in T : Min(T) <= y
<1>1. \E x \in T : \A y \in T : ~(<<y, x>> \in OpToRel(<, Nat))
  BY NatLessThanWellFounded, WFMin
<1>2. PICK x \in T : \A y \in T : ~(<<y, x>> \in OpToRel(<, Nat))
  BY <1>1
<1>3. ASSUME NEW y \in T PROVE x <= y
  <2>1. y \in Nat /\ x \in Nat
    OBVIOUS
  <2>2. y < x => <<y, x>> \in OpToRel(<, Nat)
    BY <2>1, Zenon DEF OpToRel
  <2>3. ~(y < x)
    BY <1>2, <2>2, Zenon
  <2> QED BY <2>1, <2>3
<1> QED BY <1>3 DEF Min

LEMMA OneIsMin ==
  ASSUME NEW T, T \subseteq Nat \ {0}, 1 \in T
  PROVE  Min(T) = 1
<1>1. Min(T) \in T /\ \A y \in T : Min(T) <= y
  BY MinIsLeast
<1>2. Min(T) \in Nat /\ Min(T) # 0 /\ Min(T) <= 1
  BY <1>1
<1> QED BY <1>2

(* RemoveAt of the community modules, element by element.                  *)
LEMMA RemoveIndex ==
  ASSUME NEW E, NEW s \in Seq(E), NEW i \in 1 .. Len(s)
  PROVE  /\ RemoveAt(s, i) \in Seq(E)
         /\ Len(RemoveAt(s, i)) = Len(s) - 1
         /\ \A j \in 1 .. Len(s) - 1 : /\ j < i => RemoveAt(s, i)[j] = s[j]
                                       /\ j >= i => RemoveAt(s, i)[j] = s[j + 1]
<1> DEFINE a == SubSeq(s, 1, i - 1)
           b == SubSeq(s, i + 1, Len(s))
           t == a \o b
<1>1. Len(s) \in Nat /\ i \in Nat /\ i >= 1 /\ i <= Len(s)
  OBVIOUS
<1>2. a \in Seq(E) /\ Len(a) = i - 1 /\ \A j \in 1 .. i - 1 : a[j] = s[j]
  BY <1>1
<1>3. b \in Seq(E) /\ Len(b) = Len(s) - i /\ \A j \in 1 .. Len(s) - i : b[j] = s[i + j]
  BY <1>1
<1> HIDE DEF a, b
<1>4. t \in Seq(E) /\ Len(t) = Len(s) - 1
  <2>1. t \in Seq(E) /\ Len(t) = Len(a) + Len(b)
    BY <1>2, <1>3, ConcatProperties
  <2>2. (i - 1) + (Len(s) - i) = Len(s) - 1
    BY <1>1
  <2> QED BY <1>2, <1>3, <2>1, <2>2
<1>5. \A j \in 1 .. Len(a) + Len(b) : t[j] = IF j <= Len(a) THEN a[j] ELSE b[j - Len(a)]
  BY <1>2, <1>3
<1>6. ASSUME NEW j \in 1 .. Len(s) - 1 PROVE (j < i => t[j] = s[j]) /\ (j >= i => t[j] = s[j + 1])
  <2>1. j \in 1 .. Len(a) + Len(b) /\ j \in Nat
    BY <1>1, <1>2, <1>3
  <2>2. CASE j < i
    BY <1>1, <1>2, <1>5, <2>1, <2>2
  <2>3. CASE ~(j < i)
    <3>1. t[j] = b[j - (i - 1)] /\ j - (i - 1) \in 1 .. Len(s) - i
      BY <1>1, <1>2, <1>5, <2>1, <2>3
    <3>2. i + (j - (i - 1)) = j + 1
      BY <1>1, <2>1
    <3> QED BY <1>3, <2>3, <3>1, <3>2
  <2> QED BY <2>2, <2>3
<1> QED BY <1>4, <1>6 DEF RemoveAt, t, a, b

LEMMA JoinTyped ==
  ASSUME NEW E, NEW one \in Seq(E), NEW s \in Seq(E)
  PROVE  one \o s \in Seq(E)
OBVIOUS

LEMMA JoinLength ==
  ASSUME NEW E, NEW one \in Seq(E), NEW s \in Seq(E)
  PROVE  Len(one \o s) = Len(one) + Len(s)
OBVIOUS

LEMMA JoinIndex ==
  ASSUME NEW E, NEW one \in Seq(E), NEW s \in Seq(E), NEW j \in 1 .. Len(one) + Len(s)
  PROVE  (one \o s)[j] = IF j <= Len(one) THEN one[j] ELSE s[j - Len(one)]
BY ConcatProperties

LEMMA ConsIndex ==
  ASSUME NEW E, NEW e \in E, NEW s \in Seq(E)
  PROVE  /\ <<e>> \o s \in Seq(E) /\ Len(<<e>> \o s) = Len(s) + 1
         /\ (<<e>> \o s)[1] = e /\ \A k \in 1 .. Len(s) : (<<e>> \o s)[k + 1] = s[k]
<1> DEFINE one == <<e>>
<1>1. one \in Seq(E) /\ Len(one) = 1 /\ one[1] = e /\ Len(s) \in Nat
  OBVIOUS
<1>2. (one \o s)[1] = e
  OBVIOUS
<1> HIDE DEF one
<1>3. one \o s \in Seq(E) /\ Len(one \o s) = Len(s) + 1
  <2>1. one \o s \in Seq(E) /\ Len(one \o s) = Len(one) + Len(s)
    BY <1>1, JoinTyped, JoinLength
  <2>2. Len(one) + Len(s) = Len(s) + 1
    BY <1>1
  <2> QED BY <2>1, <2>2
<1>4. ASSUME NEW k \in 1 .. Len(s) PROVE (one \o s)[k + 1] = s[k]
  <2>1. PICK j : j = k + 1
    OBVIOUS
  <2>2. j \in 1 .. Len(one) + Len(s) /\ ~(j <= Len(one)) /\ j - Len(one) = k
    BY <1>1, <2>1
  <2>3. (one \o s)[j] = IF j <= Len(one) THEN one[j] ELSE s[j - Len(one)]
    <3>1. one \in Seq(E)
      BY <1>1
    <3> QED BY <2>2, <3>1, JoinIndex
  <2> QED BY <2>1, <2>2, <2>3
<1> QED BY <1>1, <1>2, <1>3, <1>4 DEF one

LEMMA SingleSeq ==
  ASSUME NEW E, NEW s \in Seq(E), Len(s) = 1
  PROVE  s[1] \in E /\ s = <<s[1]>>
<1>1. s[1] \in E
  BY ElementOfSeq
<1> DEFINE t == <<s[1]>>
<1>2. t \in Seq(E) /\ Len(t) = 1 /\ t[1] = s[1]
  BY <1>1
<1> HIDE DEF t
<1>3. s = t
  BY <1>2, SeqEqual
<1> QED BY <1>1, <1>3 DEF t
-----------------------------------------------------------------------------
(* The points in their order.                                              *)
LEMMA InOrderListsAll ==
  ASSUME NEW S, S \subseteq Nat, IsFiniteSet(S)
  PROVE  /\ InOrder(S) \in Seq(S) /\ Len(InOrder(S)) = Cardinality(S)
         /\ \A p \in S : \E i \in DOMAIN InOrder(S) : InOrder(S)[i] = p
         /\ \A i, j \in DOMAIN InOrder(S) : InOrder(S)[i] = InOrder(S)[j] => i = j
<1> DEFINE n    == Cardinality(S)
           N    == 0 .. n - 1
           rank == [p \in S |-> Cardinality(Below(S, p))]
<1>1. n \in Nat
  BY FS_CardinalityType
<1>2. \A p \in S : IsFiniteSet(Below(S, p)) /\ Cardinality(Below(S, p)) \in Nat
  BY FS_Subset, FS_CardinalityType DEF Below
<1>3. \A p \in S : Cardinality(Below(S, p)) < n
  <2> SUFFICES ASSUME NEW p \in S PROVE Cardinality(Below(S, p)) < n
    OBVIOUS
  <2>1. Below(S, p) \in SUBSET S /\ Below(S, p) # S
    <3>1. p \notin Below(S, p)
      BY DEF Below
    <3> QED BY <3>1 DEF Below
  <2>2. Cardinality(Below(S, p)) <= n /\ Cardinality(Below(S, p)) # n
    BY <2>1, FS_Subset
  <2> QED BY <1>1, <1>2, <2>2
<1>4. \A p, q \in S : p < q => Cardinality(Below(S, p)) < Cardinality(Below(S, q))
  <2> SUFFICES ASSUME NEW p \in S, NEW q \in S, p < q
               PROVE  Cardinality(Below(S, p)) < Cardinality(Below(S, q))
    OBVIOUS
  <2>1. Below(S, p) \in SUBSET Below(S, q) /\ p \in Below(S, q) /\ p \notin Below(S, p)
    <3>1. p \in Nat /\ q \in Nat
      OBVIOUS
    <3>2. \A x \in S : x < p => x < q
      BY <3>1
    <3>3. p \in Below(S, q) /\ p \notin Below(S, p)
      BY <3>1 DEF Below
    <3> QED BY <3>2, <3>3, Zenon DEF Below
  <2>2. /\ Cardinality(Below(S, p)) <= Cardinality(Below(S, q))
        /\ Cardinality(Below(S, p)) = Cardinality(Below(S, q)) => Below(S, q) = Below(S, p)
    BY <1>2, <2>1, FS_Subset
  <2>3. Below(S, p) # Below(S, q)
    BY <2>1
  <2> QED BY <1>2, <2>2, <2>3
<1>5. rank \in Injection(S, N)
  <2>1. rank \in [S -> N]
    BY <1>1, <1>2, <1>3
  <2>2. \A p, q \in S : rank[p] = rank[q] => p = q
    <3> SUFFICES ASSUME NEW p \in S, NEW q \in S, p # q PROVE rank[p] # rank[q]
      OBVIOUS
    <3>1. p < q \/ q < p
      OBVIOUS
    <3>2. rank[p] = Cardinality(Below(S, p)) /\ rank[q] = Cardinality(Below(S, q))
      OBVIOUS
    <3> QED BY <1>2, <1>4, <3>1, <3>2
  <2> QED BY <2>1, <2>2 DEF Injection, IsInjective
<1>6. IsFiniteSet(N) /\ Cardinality(N) = n
  <2>1. 0 \in Int /\ n - 1 \in Int
    BY <1>1
  <2>2. IsFiniteSet(N) /\ Cardinality(N) = IF 0 > n - 1 THEN 0 ELSE n - 1 - 0 + 1
    BY <2>1, FS_Interval
  <2> QED BY <1>1, <2>2
<1>7. rank \in Surjection(S, N)
  <2> HIDE DEF rank, N
  <2> QED BY <1>5, <1>6, FS_Injection
<1>8. \A k \in N : \E p \in S : Cardinality(Below(S, p)) = k
  BY <1>7 DEF Surjection
<1> DEFINE o == InOrder(S)
<1>9. o = [i \in 1 .. n |-> CHOOSE p \in S : Cardinality(Below(S, p)) = i - 1]
  BY DEF InOrder
<1>10. DOMAIN o = 1 .. n
  BY <1>9
<1>11. \A i \in 1 .. n : o[i] \in S /\ Cardinality(Below(S, o[i])) = i - 1
  <2> SUFFICES ASSUME NEW i \in 1 .. n
               PROVE  o[i] \in S /\ Cardinality(Below(S, o[i])) = i - 1
    OBVIOUS
  <2>1. i - 1 \in N
    BY <1>1
  <2>2. \E p \in S : Cardinality(Below(S, p)) = i - 1
    BY <1>8, <2>1
  <2>3. o[i] = CHOOSE p \in S : Cardinality(Below(S, p)) = i - 1
    BY <1>9
  <2> HIDE DEF o
  <2> QED BY <2>2, <2>3
<1> HIDE DEF o
<1>12. o \in Seq(S) /\ Len(o) = n
  <2>1. o \in [1 .. n -> S]
    BY <1>9, <1>11
  <2> QED BY <1>1, <2>1
<1>13. \A p \in S : \E i \in DOMAIN o : o[i] = p
  <2> SUFFICES ASSUME NEW p \in S PROVE \E i \in 1 .. n : o[i] = p
    BY <1>10
  <2> DEFINE i == Cardinality(Below(S, p)) + 1
  <2>1. i \in 1 .. n /\ i - 1 = Cardinality(Below(S, p))
    BY <1>1, <1>2, <1>3
  <2>2. o[i] \in S /\ rank[o[i]] = rank[p]
    BY <1>11, <2>1
  <2>3. o[i] = p
    <3> HIDE DEF rank, i
    <3> QED BY <1>5, <2>2 DEF Injection, IsInjective
  <2> QED BY <2>1, <2>3
<1>14. \A i, j \in DOMAIN o : o[i] = o[j] => i = j
  BY <1>10, <1>11
<1> QED BY <1>12, <1>13, <1>14 DEF o

(* A node of points that are some.                                         *)
LEMMA NodeTyped ==
  ASSUME NEW S, S \subseteq Nat, IsFiniteSet(S), S # {}, NEW val, \A p \in S : val[p] \in Nat
  PROVE  NodeOf(InOrder(S), val, 0) \in Nodes /\ Exact(NodeOf(InOrder(S), val, 0))
<1> DEFINE o == InOrder(S)
           n == NodeOf(o, val, 0)
<1>1. o \in Seq(S) /\ Len(o) = Cardinality(S) /\ Cardinality(S) \in Nat /\ Cardinality(S) # 0
  BY InOrderListsAll, FS_CardinalityType, FS_EmptySet
<1> HIDE DEF o
<1>2. DOMAIN o = 1 .. Len(o) /\ 1 \in DOMAIN o /\ Len(o) \in Nat
  <2>1. DOMAIN o = 1 .. Len(o) /\ Len(o) \in Nat
    BY <1>1, LenProperties
  <2>2. Len(o) # 0
    BY <1>1
  <2> QED BY <2>1, <2>2
<1>3. \A i \in DOMAIN o : o[i] \in S /\ o[i] \in Nat
  BY <1>1, <1>2, ElementOfSeq
<1> DEFINE os == [i \in DOMAIN o |-> Object(o[i], val[o[i]])]
<1>4. \A i \in DOMAIN o : Object(o[i], val[o[i]]) \in Objects
  BY <1>3 DEF Object, Objects
<1>5. os \in Seq(Objects) /\ Len(os) = Len(o)
  BY <1>2, <1>4
<1>6. os # <<>> /\ os[1].addr = o[1]
  BY <1>2, <1>5 DEF Object
<1>7. n = [addr |-> o[1], single |-> Len(o), buffered |-> 0, objects |-> os]
  BY DEF NodeOf
<1>8. \A i \in DOMAIN os : os[i].addr = o[i]
  BY DEF Object
<1>9. DOMAIN os = DOMAIN o /\ \A p \in S : \E i \in DOMAIN o : o[i] = p
  BY InOrderListsAll DEF o
<1> HIDE DEF os, n
<1>10. Addresses(n) = S
  <2>1. n.objects = os
    BY <1>7
  <2>2. Addresses(n) = {os[i].addr : i \in DOMAIN o}
    BY <1>9, <2>1 DEF Addresses
  <2>3. \A i \in DOMAIN o : os[i].addr = o[i]
    BY <1>8, <1>9
  <2>4. Addresses(n) \subseteq S
    BY <1>3, <2>2, <2>3
  <2>5. S \subseteq Addresses(n)
    BY <1>9, <2>2, <2>3
  <2> QED BY <2>4, <2>5
<1>11. Exact(n)
  BY <1>1, <1>5, <1>7, <1>10 DEF Exact
<1> QED BY <1>2, <1>3, <1>5, <1>6, <1>7, <1>11 DEF Nodes, n, o

(* A report is registered for no link, or for one.                         *)
LEMMA EmptyDomain == DOMAIN <<>> = {}
OBVIOUS

LEMMA NoneInOrder == InOrder({}) = <<>>
<1>1. IsFiniteSet({}) /\ Cardinality({}) = 0 /\ {} \subseteq Nat
  BY FS_EmptySet
<1>2. PICK S : S = {}
  OBVIOUS
<1>3. InOrder(S) \in Seq(S) /\ Len(InOrder(S)) = 0
  BY <1>1, <1>2, InOrderListsAll
<1>4. InOrder(S) = <<>>
  BY <1>3, EmptySeq
<1> QED BY <1>2, <1>4

LEMMA OneInOrder ==
  ASSUME NEW l \in Nat
  PROVE  InOrder({l}) = <<l>>
<1>1. PICK S : S = {l}
  OBVIOUS
<1>2. IsFiniteSet(S) /\ Cardinality(S) = 1 /\ S \subseteq Nat
  BY <1>1, FS_Singleton
<1>3. InOrder(S) \in Seq(S) /\ Len(InOrder(S)) = 1
  BY <1>2, InOrderListsAll
<1>4. InOrder(S) = <<l>>
  BY <1>1, <1>3, SingleSeq
<1> QED BY <1>1, <1>4

LEMMA RegisteredForNone ==
  ASSUME NEW al, NEW u
  PROVE  RegisteredAll(al, {}, u) = al
BY EmptyDomain, NoneInOrder DEF RegisteredAll, FoldLeft, MapThenFoldSet

LEMMA RegisteredForOne ==
  ASSUME NEW al, NEW u, NEW l \in Nat
  PROVE  RegisteredAll(al, {l}, u) = Registered(al, l, u)
<1> DEFINE q    == InOrder({l})
           D    == DOMAIN q
           F(g) == [s \in SUBSET D |->
                      IF s = {} THEN al ELSE Registered(g[s \ {Max(s)}], q[Max(s)], u)]
           w    == [s \in SUBSET D |-> IF s = {} THEN al ELSE Registered(al, l, u)]
           it   == CHOOSE g : g = F(g)
<1>1. RegisteredAll(al, {l}, u) = it[D]
  BY Zenon DEF RegisteredAll, FoldLeft, MapThenFoldSet
<1>2. D = {1} /\ q[1] = l /\ Max({1}) = 1
  <2>1. q = <<l>>
    BY OneInOrder
  <2> HIDE DEF q
  <2>2. DOMAIN <<l>> = {1} /\ <<l>>[1] = l
    OBVIOUS
  <2> QED BY <2>1, <2>2 DEF Max
<1>3. \A s \in SUBSET D : s = {} \/ s = D
  BY <1>2
<1> HIDE DEF q, D
<1>4. \A s \in SUBSET D : w[s] = IF s = {} THEN al ELSE Registered(al, l, u)
  OBVIOUS
<1>5. w = F(w)
  <2>1. \A s \in SUBSET D : s # {} => Registered(w[s \ {Max(s)}], q[Max(s)], u) = Registered(al, l, u)
    <3> HIDE DEF w
    <3>1. Max(D) = 1 /\ D \ {1} = {} /\ {} \in SUBSET D
      BY <1>2
    <3>2. w[D \ {Max(D)}] = al
      BY <1>4, <3>1
    <3> QED BY <1>2, <1>3, <3>1, <3>2
  <2> HIDE DEF w
  <2>2. w = [s \in SUBSET D |-> IF s = {} THEN al ELSE Registered(al, l, u)]
    BY DEF w
  <2> QED BY <2>1, <2>2
<1>6. it = F(it)
  <2> HIDE DEF w, F
  <2> QED BY <1>5
<1>7. it[D] = Registered(al, l, u)
  <2> HIDE DEF it
  <2>1. it[{}] = al
    BY <1>6
  <2>2. it[D] = Registered(it[D \ {Max(D)}], q[Max(D)], u)
    BY <1>2, <1>6
  <2> QED BY <1>2, <2>1, <2>2
<1> QED BY <1>1, <1>7
-----------------------------------------------------------------------------
(* The lists of tasks.  A task holds one node.                             *)
LEMMA OneNode ==
  ASSUME NEW t \in Tasks
  PROVE  /\ t.nodes[1] \in Nodes /\ t.nodes = <<t.nodes[1]>> /\ DOMAIN t.nodes = {1}
         /\ \A addr : Holds(t, addr) <=> t.nodes[1].addr = addr
<1>1. PICK n \in Nodes : t.nodes = <<n>>
  BY DEF Tasks
<1>2. DOMAIN <<n>> = {1} /\ <<n>>[1] = n
  OBVIOUS
<1> QED BY <1>1, <1>2 DEF Holds

Fits(t, name, node) == Name(t) = name /\ t.nodes[1].addr = node.addr

(* Place is the first task of the name that holds the node's address, or   *)
(* the place behind the last task.                                         *)
LEMMA PlaceIsFirst ==
  ASSUME NEW al \in Seq(Tasks), NEW name, NEW node \in Nodes
  PROVE  /\ Place(al, name, node) \in 1 .. Len(al) + 1
         /\ Place(al, name, node) <= Len(al) => Fits(al[Place(al, name, node)], name, node)
         /\ \A j \in 1 .. Len(al) : j < Place(al, name, node) => ~Fits(al[j], name, node)
<1> DEFINE fit  == {i \in Named(al, name) : node.buffered = 1 \/ Holds(al[i], node.addr)}
           here == {i \in 1 .. Len(al) : Fits(al[i], name, node)}
<1>1. DOMAIN al = 1 .. Len(al) /\ Len(al) \in Nat /\ \A i \in 1 .. Len(al) : al[i] \in Tasks
  BY LenProperties, ElementOfSeq
<1>2. node.buffered # 1
  BY DEF Nodes
<1>3. fit = here
  BY <1>1, <1>2, OneNode DEF Fits, Named
<1>4. Place(al, name, node) = IF here = {} THEN Len(al) + 1 ELSE Min(here)
  BY <1>3 DEF Place
<1>5. CASE here = {}
  BY <1>1, <1>4, <1>5
<1>6. CASE here # {}
  <2>1. Min(here) \in here /\ \A y \in here : Min(here) <= y
    <3>1. here \subseteq Nat
      BY <1>1
    <3> HIDE DEF here
    <3> QED BY <1>6, <3>1, MinIsLeast
  <2>2. \A j \in 1 .. Len(al) : j < Min(here) => j \notin here
    <3> HIDE DEF here
    <3>1. Min(here) \in Nat
      BY <2>1 DEF here
    <3> QED BY <2>1, <3>1
  <2> QED BY <1>1, <1>4, <1>6, <2>1, <2>2
<1> QED BY <1>5, <1>6

\* Data that waits takes the objects of the node, and keeps the rest.
Renewed(t, node) ==
  [t EXCEPT !.nodes = <<[t.nodes[1] EXCEPT !.objects = node.objects]>>]

NewTask(l, ident, cause, node) ==
  [link_id |-> l, asdu_ident |-> ident, cause |-> cause, nodes |-> <<node>>]

LEMMA RenewedTyped ==
  ASSUME NEW t \in Tasks, NEW node \in Nodes, t.nodes[1].addr = node.addr
  PROVE  /\ Renewed(t, node) \in Tasks
         /\ Name(Renewed(t, node)) = Name(t)
         /\ Renewed(t, node).nodes[1] = [t.nodes[1] EXCEPT !.objects = node.objects]
         /\ Refreshed(t.nodes, node) = Renewed(t, node).nodes
<1> DEFINE n == t.nodes[1]
           m == [n EXCEPT !.objects = node.objects]
<1>1. n \in Nodes /\ t.nodes = <<n>> /\ DOMAIN t.nodes = {1}
  BY OneNode
<1>2. m \in Nodes /\ m = [addr |-> n.addr, single |-> n.single, buffered |-> 0, objects |-> node.objects]
  BY <1>1 DEF Nodes
<1>3. Refreshed(t.nodes, node) = <<m>>
  <2>1. {k \in DOMAIN t.nodes : t.nodes[k].addr = node.addr} = {1}
    BY <1>1
  <2>2. Min({1}) = 1
    BY OneIsMin
  <2>3. Refreshed(t.nodes, node) = [t.nodes EXCEPT ![1].objects = node.objects]
    BY <2>1, <2>2 DEF Refreshed
  <2> QED BY <1>1, <2>3
<1> HIDE DEF m, n
<1>4. Renewed(t, node) = [t EXCEPT !.nodes = <<m>>]
  BY DEF Renewed, m, n
<1>5. Renewed(t, node) = [link_id |-> t.link_id, asdu_ident |-> t.asdu_ident, cause |-> t.cause,
                          nodes |-> <<m>>]
  BY <1>4 DEF Tasks
<1> QED BY <1>2, <1>3, <1>5 DEF Tasks, Name, m, n

(* A node is put into the task at its place, or into a new task behind the *)
(* others.                                                                 *)
LEMMA AddedAtPlace ==
  ASSUME NEW al \in Seq(Tasks), NEW l \in Links, NEW ident \in Idents, NEW cause \in Causes,
         NEW node \in Nodes, NEW i, i = Place(al, <<l, ident, cause>>, node),
         NEW new, new = app_task_add_normal(al, l, ident, cause, node)
  PROVE  /\ new \in Seq(Tasks) /\ i \in 1 .. Len(new)
         /\ i > Len(al) => Len(new) = Len(al) + 1 /\ new[i] = NewTask(l, ident, cause, node)
         /\ i <= Len(al) => Len(new) = Len(al) /\ new[i] = Renewed(al[i], node)
         /\ \A j \in 1 .. Len(al) : j # i => new[j] = al[j]
         /\ Fits(new[i], <<l, ident, cause>>, node) /\ new[i].nodes[1].objects = node.objects
<1> DEFINE name == <<l, ident, cause>>
           t    == NewTask(l, ident, cause, node)
<1>1. /\ i \in 1 .. Len(al) + 1 /\ Len(al) \in Nat
      /\ i <= Len(al) => al[i] \in Tasks /\ Fits(al[i], name, node)
  BY PlaceIsFirst, LenProperties, ElementOfSeq
<1>2. t \in Tasks /\ Fits(t, name, node) /\ t.nodes[1] = node
  <2>1. <<node>>[1] = node
    OBVIOUS
  <2> QED BY <2>1 DEF NewTask, Tasks, Fits, Name
<1>3. CASE i > Len(al)
  <2>1. new = Append(al, t)
    BY <1>3 DEF app_task_add_normal, NewTask
  <2>2. i = Len(al) + 1
    BY <1>1, <1>3
  <2> HIDE DEF t
  <2> QED BY <1>1, <1>2, <1>3, <2>1, <2>2, AppendProperties DEF t
<1>4. CASE ~(i > Len(al))
  <2>1. i \in 1 .. Len(al) /\ al[i] \in Tasks /\ al[i].nodes[1].addr = node.addr
    BY <1>1, <1>4 DEF Fits
  <2>2. node.buffered # 1
    BY DEF Nodes
  <2>3. new = [al EXCEPT ![i].nodes = Refreshed(@, node)]
    BY <1>4, <2>2 DEF app_task_add_normal
  <2>4. Renewed(al[i], node) = [al[i] EXCEPT !.nodes = Refreshed(al[i].nodes, node)]
    BY <2>1, RenewedTyped DEF Renewed
  <2>5. new = [al EXCEPT ![i] = Renewed(al[i], node)]
    BY <2>3, <2>4
  <2>6. /\ Renewed(al[i], node) \in Tasks /\ Name(Renewed(al[i], node)) = name
        /\ Renewed(al[i], node).nodes[1] = [al[i].nodes[1] EXCEPT !.objects = node.objects]
    BY <1>1, <2>1, RenewedTyped DEF Fits
  <2>7. al[i].nodes[1] \in Nodes
    BY <2>1, OneNode
  <2>8. Fits(Renewed(al[i], node), name, node) /\ Renewed(al[i], node).nodes[1].objects = node.objects
    BY <2>1, <2>6, <2>7 DEF Fits, Nodes
  <2>9. /\ new \in Seq(Tasks) /\ Len(new) = Len(al)
        /\ \A j \in 1 .. Len(al) : new[j] = IF j = i THEN Renewed(al[i], node) ELSE al[j]
    BY <2>1, <2>5, <2>6, ExceptSeq
  <2> QED BY <1>4, <2>1, <2>8, <2>9
<1> QED BY <1>3, <1>4

(* The answer to a command becomes the first task; the others keep their   *)
(* order, without the one it was put into.                                 *)
LEMMA AnswerIsFirst ==
  ASSUME NEW al \in Seq(Tasks), NEW l \in Links, NEW ident \in Idents, NEW cause \in Causes,
         NEW node \in Nodes, NEW i, i = Place(al, <<l, ident, cause>>, node),
         NEW new, new = app_task_insert_ack_asdu(al, l, ident, cause, node)
  PROVE  /\ new \in Seq(Tasks)
         /\ 1 \in 1 .. Len(new) /\ i \in 1 .. Len(new)
         /\ i > Len(al) => Len(new) = Len(al) + 1 /\ new[1] = NewTask(l, ident, cause, node)
         /\ i <= Len(al) => Len(new) = Len(al) /\ new[1] = Renewed(al[i], node)
         /\ \A j \in 1 .. Len(new) - 1 :
              /\ j < i => new[j + 1] = al[j]
              /\ j >= i => new[j + 1] = al[j + 1]
         /\ Fits(new[1], <<l, ident, cause>>, node) /\ new[1].nodes[1].objects = node.objects
<1>1. PICK added : added = app_task_add_normal(al, l, ident, cause, node)
  OBVIOUS
<1>2. /\ added \in Seq(Tasks) /\ i \in 1 .. Len(added)
      /\ i > Len(al) => Len(added) = Len(al) + 1 /\ added[i] = NewTask(l, ident, cause, node)
      /\ i <= Len(al) => Len(added) = Len(al) /\ added[i] = Renewed(al[i], node)
      /\ \A j \in 1 .. Len(al) : j # i => added[j] = al[j]
      /\ Fits(added[i], <<l, ident, cause>>, node) /\ added[i].nodes[1].objects = node.objects
  BY <1>1, AddedAtPlace
<1> DEFINE rest == RemoveAt(added, i)
<1>3. new = <<added[i]>> \o rest
  BY <1>1 DEF app_task_insert_ack_asdu
<1>4. /\ rest \in Seq(Tasks) /\ Len(rest) = Len(added) - 1
      /\ \A j \in 1 .. Len(added) - 1 : /\ j < i => rest[j] = added[j]
                                        /\ j >= i => rest[j] = added[j + 1]
  BY <1>2, RemoveIndex
<1>5. Len(al) \in Nat /\ Len(added) \in Nat /\ i \in Nat /\ added[i] \in Tasks
  BY <1>2, LenProperties, ElementOfSeq
<1> HIDE DEF rest
<1>6. /\ new \in Seq(Tasks) /\ Len(new) = Len(added) /\ new[1] = added[i]
      /\ \A k \in 1 .. Len(added) - 1 : new[k + 1] = rest[k]
  <2>1. Len(rest) = Len(added) - 1 /\ Len(rest) + 1 = Len(added)
    BY <1>4, <1>5
  <2>2. rest \in Seq(Tasks)
    BY <1>4
  <2> QED BY <1>3, <1>5, <2>1, <2>2, ConsIndex
<1>7. ASSUME NEW j \in 1 .. Len(new) - 1
      PROVE  (j < i => new[j + 1] = al[j]) /\ (j >= i => new[j + 1] = al[j + 1])
  <2>1. j \in 1 .. Len(added) - 1 /\ new[j + 1] = rest[j]
    BY <1>6
  <2>2. (j < i => new[j + 1] = added[j]) /\ (j >= i => new[j + 1] = added[j + 1])
    BY <1>4, <2>1
  <2>3. CASE j < i
    <3>1. j \in 1 .. Len(al) /\ j # i
      BY <1>2, <1>5, <2>1, <2>3
    <3>2. added[j] = al[j]
      BY <1>2, <3>1
    <3>3. ~(j >= i)
      BY <1>5, <2>1, <2>3
    <3> QED BY <2>2, <2>3, <3>2, <3>3
  <2>4. CASE ~(j < i)
    <3>1. j + 1 \in 1 .. Len(al) /\ j + 1 # i
      BY <1>2, <1>5, <2>1, <2>4
    <3> QED BY <1>2, <2>2, <2>4, <3>1
  <2> QED BY <2>3, <2>4
<1>8. 1 \in 1 .. Len(new)
  BY <1>2, <1>5, <1>6
<1> QED BY <1>2, <1>6, <1>7, <1>8

(* With one link the first task of a list is the link's, and when it is    *)
(* sent the rest of the list stays.                                        *)
LEMMA FirstIsTaken ==
  ASSUME NEW l, Links = {l}, NEW al \in Seq(Tasks)
  PROVE  app_task_get(al, l) = IF al = <<>> THEN 0 ELSE 1
<1> DEFINE own == {i \in DOMAIN al : al[i].link_id = l}
<1>1. DOMAIN al = 1 .. Len(al) /\ Len(al) \in Nat /\ \A i \in 1 .. Len(al) : al[i].link_id = l
  <2>1. \A i \in 1 .. Len(al) : al[i] \in Tasks
    BY ElementOfSeq
  <2> QED BY <2>1, LenProperties DEF Tasks
<1>2. own = 1 .. Len(al)
  BY <1>1
<1>3. CASE al = <<>>
  <2>1. Len(al) = 0 /\ own = {}
    BY <1>2, <1>3
  <2> QED BY <1>3, <2>1 DEF app_task_get
<1>4. CASE al # <<>>
  <2>1. Len(al) > 0
    BY <1>1, <1>4, EmptySeq
  <2>2. own \subseteq Nat \ {0} /\ 1 \in own
    BY <1>1, <1>2, <2>1
  <2>3. Min(own) = 1 /\ own # {}
    <3> HIDE DEF own
    <3> QED BY <2>2, OneIsMin
  <2> QED BY <1>4, <2>3 DEF app_task_get
<1> QED BY <1>3, <1>4

LEMMA FirstIsFreed ==
  ASSUME NEW al \in Seq(Tasks), al # <<>>
  PROVE  app_task_free(Emptied(al, 1), 1) = Tail(al)
<1>1. /\ DOMAIN al = 1 .. Len(al) /\ Len(al) \in Nat /\ 1 \in 1 .. Len(al)
      /\ \A i \in 1 .. Len(al) : al[i] \in Tasks
  <2>1. Len(al) \in Nat \ {0}
    BY EmptySeq
  <2> QED BY <2>1, LenProperties, ElementOfSeq
<1> DEFINE t == [al[1] EXCEPT !.nodes = <<>>]
           e == Emptied(al, 1)
           T == Tasks \cup {t}
<1>2. Left(al[1].nodes) = <<>>
  <2>1. al[1].nodes = <<al[1].nodes[1]>>
    BY <1>1, OneNode
  <2>2. Len(<<al[1].nodes[1]>>) = 1
    OBVIOUS
  <2>3. NodesPerAsdu + 1 \in Int /\ 1 \in Int /\ 1 < NodesPerAsdu + 1
    BY NodesAssumption
  <2> QED BY <2>1, <2>2, <2>3, SubSeqEmpty DEF Left
<1>3. e = [al EXCEPT ![1] = t]
  BY <1>2 DEF Emptied
<1>4. e[1] = t /\ t.nodes = <<>> /\ DOMAIN e = 1 .. Len(al)
  BY <1>1, <1>3 DEF Tasks
<1>5. e \in Seq(T) /\ Len(e) = Len(al) /\ \A j \in 1 .. Len(al) : j # 1 => e[j] = al[j]
  <2>1. al \in Seq(T) /\ t \in T
    BY SeqMonotonic
  <2> HIDE DEF t, T
  <2>2. [al EXCEPT ![1] = t] \in Seq(T) /\ Len([al EXCEPT ![1] = t]) = Len(al)
    BY <1>1, <2>1, ExceptSeq
  <2>3. \A j \in 1 .. Len(al) : j # 1 => [al EXCEPT ![1] = t][j] = al[j]
    BY <1>1
  <2> HIDE DEF e
  <2> QED BY <1>3, <2>2, <2>3
<1>6. Named(e, Name(e[1])) \subseteq Nat \ {0} /\ 1 \in Named(e, Name(e[1]))
  <2> HIDE DEF e, t
  <2> QED BY <1>1, <1>4 DEF Named
<1>7. Min(Named(e, Name(e[1]))) = 1
  BY <1>6, OneIsMin
<1>8. app_task_free(e, 1) = RemoveAt(e, 1)
  <2> HIDE DEF t, e
  <2> QED BY <1>4, <1>7 DEF app_task_free
<1>9. RemoveAt(e, 1) = Tail(al)
  <2>1. /\ RemoveAt(e, 1) \in Seq(T) /\ Len(RemoveAt(e, 1)) = Len(al) - 1
        /\ \A j \in 1 .. Len(al) - 1 : RemoveAt(e, 1)[j] = e[j + 1]
    <3> HIDE DEF e, T
    <3>1. 1 \in 1 .. Len(e)
      BY <1>1, <1>5
    <3>2. \A j \in 1 .. Len(e) - 1 : j >= 1 => RemoveAt(e, 1)[j] = e[j + 1]
      BY <1>5, <3>1, RemoveIndex
    <3>3. RemoveAt(e, 1) \in Seq(T) /\ Len(RemoveAt(e, 1)) = Len(e) - 1
      BY <1>5, <3>1, RemoveIndex
    <3>4. Len(al) - 1 \in Nat /\ \A j \in 1 .. Len(al) - 1 : j >= 1
      BY <1>1
    <3> HIDE DEF t
    <3> QED BY <1>5, <3>2, <3>3, <3>4
  <2>2. /\ Tail(al) \in Seq(T) /\ Len(Tail(al)) = Len(al) - 1
        /\ \A j \in 1 .. Len(al) - 1 : Tail(al)[j] = al[j + 1]
    <3>1. al \in Seq(T)
      BY SeqMonotonic
    <3> HIDE DEF T
    <3> QED BY <3>1, HeadTailProperties
  <2>3. \A j \in 1 .. Len(al) - 1 : e[j + 1] = al[j + 1]
    <3> HIDE DEF e
    <3> QED BY <1>1, <1>5
  <2> HIDE DEF e, T
  <2> QED BY <2>1, <2>2, <2>3, SeqEqual
<1> QED BY <1>8, <1>9

-----------------------------------------------------------------------------
(* What is put into the mailbox and what is taken from it.                 *)
LEMMA PostedTyped ==
  ASSUME NEW mb \in Seq(Events), Len(mb) <= AppMb, NEW e \in Events
  PROVE  /\ iec_post_event(mb, AppMb, e) \in Seq(Events)
         /\ Len(iec_post_event(mb, AppMb, e)) <= AppMb
<1>1. Len(mb) \in Nat /\ AppMb \in Nat
  BY BoundsAssumption, LenProperties
<1>2. Append(mb, e) \in Seq(Events) /\ Len(Append(mb, e)) = Len(mb) + 1
  BY AppendProperties
<1> QED BY <1>1, <1>2 DEF iec_post_event

LEMMA EventIsOne ==
  ASSUME NEW e \in Events
  PROVE  \/ \E u \in Updates : e = NodeUpdate(u)
         \/ \E l \in Links, lvl \in Levels : e = Ask(l, lvl)
         \/ \E l \in Links, a \in Commands : e = HandOver(l, a)
BY DEF Events

LEMMA UpdateOfEvent ==
  ASSUME NEW e \in Events, e.evt_type = "APP_NODE_UPDATE"
  PROVE  e.msg \in Updates /\ e = NodeUpdate(e.msg)
BY EventIsOne DEF NodeUpdate, Ask, HandOver, Event

LEMMA AskOfEvent ==
  ASSUME NEW e \in Events, e.evt_type = "APP_RECV_DATA", e.evt_sub_type \in Levels
  PROVE  e.msg.sender \in Links /\ e = Ask(e.msg.sender, e.evt_sub_type)
BY EventIsOne DEF NodeUpdate, Ask, HandOver, Event, Levels

LEMMA CommandOfEvent ==
  ASSUME NEW e \in Events, e.evt_sub_type = "USER"
  PROVE  /\ e.msg.sender \in Links /\ e.msg.asdu \in Commands
         /\ e = HandOver(e.msg.sender, e.msg.asdu)
BY EventIsOne DEF NodeUpdate, Ask, HandOver, Event, Levels

(* The nodes of the callbacks.                                             *)
PointsTyped == real \in [Measured -> Readings] /\ signal \in [Signals -> 0 .. 1]

LEMMA IntervalIsFinite ==
  ASSUME NEW m \in Int, NEW n \in Int, NEW S, S \subseteq m .. n
  PROVE  IsFiniteSet(S)
BY FS_Interval, FS_Subset

LEMMA WiredIsFinite ==
  /\ Wired \subseteq Nat /\ IsFiniteSet(Wired) /\ Wired # {} /\ YX_CLOSE_ADDR \in Wired
  /\ Measured \subseteq Nat /\ IsFiniteSet(Measured) /\ Measured # {}
<1>1. PICK m \in Nat, n \in Nat : Measured \subseteq m .. n
  BY MeasuredAssumption
<1>2. PICK w \in Nat, x \in Nat : Wired \subseteq w .. x
  BY WiredAssumption
<1>3. IsFiniteSet(Wired) /\ IsFiniteSet(Measured)
  <2>1. m \in Int /\ n \in Int /\ w \in Int /\ x \in Int
    OBVIOUS
  <2> QED BY <1>1, <1>2, <2>1, IntervalIsFinite
<1>4. Wired \subseteq Nat /\ Measured \subseteq Nat
  BY <1>1, <1>2
<1>5. YX_CLOSE_ADDR \in Wired /\ Measured # {}
  <2>1. YX_CLOSE_ADDR \in Wired
    BY WiredAssumption
  <2>2. Measured # {}
    BY MeasuredAssumption
  <2> QED BY <2>1, <2>2
<1> QED BY <1>3, <1>4, <1>5

LEMMA StatusTyped ==
  PointsTyped => \A q \in Wired : Status[q] \in Nat
<1> SUFFICES ASSUME PointsTyped, NEW p \in Wired PROVE Status[p] \in Nat
  OBVIOUS
<1>1. YX_CLOSE_ADDR # YX_CUT_ADDR
  BY DEF YX_CLOSE_ADDR, YX_CUT_ADDR
<1>2. CASE p = YX_CLOSE_ADDR
  <2>1. p # YX_CUT_ADDR /\ p \notin Signals
    BY <1>1, <1>2 DEF Signals
  <2>2. Status[p] = IF position = "CLOSE" THEN 1 ELSE 0
    BY <1>2, <2>1 DEF Status
  <2> QED BY <2>2
<1>3. CASE p = YX_CUT_ADDR
  <2>1. p # YX_CLOSE_ADDR /\ p \notin Signals
    BY <1>1, <1>3 DEF Signals
  <2>2. Status[p] = IF position = "CUT" THEN 1 ELSE 0
    BY <1>3, <2>1 DEF Status
  <2> QED BY <2>2
<1>4. CASE p # YX_CLOSE_ADDR /\ p # YX_CUT_ADDR
  <2>1. p \in Signals
    BY <1>4 DEF Signals
  <2>2. Status[p] = signal[p]
    BY <1>4, <2>1 DEF Status
  <2> QED BY <2>1, <2>2 DEF PointsTyped
<1> QED BY <1>2, <1>3, <1>4

LEMMA OnePointTyped ==
  ASSUME NEW p \in Nat, NEW val, val[p] \in Nat
  PROVE  /\ NodeOf(<<p>>, val, 0) \in Nodes
         /\ NodeOf(<<p>>, val, 0)
              = [addr |-> p, single |-> 1, buffered |-> 0, objects |-> <<Object(p, val[p])>>]
         /\ Addresses(NodeOf(<<p>>, val, 0)) = {p} /\ Exact(NodeOf(<<p>>, val, 0))
<1> DEFINE os == <<Object(p, val[p])>>
           q  == <<p>>
<1>1. Len(q) = 1 /\ DOMAIN q = {1} /\ q[1] = p
  OBVIOUS
<1>2. os \in Seq(Objects) /\ os # <<>> /\ os[1].addr = p
  BY DEF Object, Objects
<1>3. [i \in DOMAIN q |-> Object(q[i], val[q[i]])] = os
  <2> HIDE DEF q
  <2>1. [i \in DOMAIN q |-> Object(q[i], val[q[i]])] = [i \in {1} |-> Object(p, val[p])]
    BY <1>1
  <2>2. [i \in {1} |-> Object(p, val[p])] = os
    OBVIOUS
  <2> QED BY <2>1, <2>2
<1>4. NodeOf(q, val, 0) = [addr |-> p, single |-> 1, buffered |-> 0, objects |-> os]
  <2> HIDE DEF q, os
  <2> QED BY <1>1, <1>3 DEF NodeOf
<1> HIDE DEF os
<1>5. [addr |-> p, single |-> 1, buffered |-> 0, objects |-> os] \in Nodes
  BY <1>2 DEF Nodes
<1>6. Len(os) = 1 /\ DOMAIN os = {1}
  BY DEF os
<1>7. PICK n : n = [addr |-> p, single |-> 1, buffered |-> 0, objects |-> os]
  OBVIOUS
<1>8. Addresses(n) = {p}
  BY <1>2, <1>6, <1>7 DEF Addresses
<1>9. Exact(n)
  BY <1>6, <1>7, <1>8, FS_Singleton DEF Exact
<1> QED BY <1>4, <1>5, <1>7, <1>8, <1>9 DEF os, q

LEMMA CallTyped ==
  ASSUME PointsTyped
  PROVE  yx_all_cll \in Updates /\ MeasuredCall \in Updates /\ Termination \in Updates
<1>1. NodeOf(InOrder(Wired), Status, 0) \in Nodes /\ Exact(NodeOf(InOrder(Wired), Status, 0))
  BY WiredIsFinite, StatusTyped, NodeTyped
<1>2. \A p \in Measured : real[p] \in Nat
  BY ReadingsAssumption DEF PointsTyped
<1>3. NodeOf(InOrder(Measured), real, 0) \in Nodes /\ Exact(NodeOf(InOrder(Measured), real, 0))
  BY <1>2, WiredIsFinite, NodeTyped
<1>4. /\ NodeOf(<<0>>, [p \in {0} |-> 20], 0) \in Nodes
      /\ Exact(NodeOf(<<0>>, [p \in {0} |-> 20], 0))
      /\ Addresses(NodeOf(<<0>>, [p \in {0} |-> 20], 0)) = {0}
  <2>1. [p \in {0} |-> 20][0] \in Nat
    OBVIOUS
  <2> QED BY <2>1, OnePointTyped
<1> DEFINE ny == NodeOf(InOrder(Wired), Status, 0)
           nm == NodeOf(InOrder(Measured), real, 0)
           nt == NodeOf(<<0>>, [p \in {0} |-> 20], 0)
<1> HIDE DEF ny, nm, nt
<1>5. /\ ny \in Nodes /\ nm \in Nodes /\ nt \in Nodes /\ Exact(ny) /\ Exact(nm) /\ Exact(nt)
      /\ Addresses(nt) = {0}
  BY <1>1, <1>3, <1>4 DEF ny, nm, nt
<1>6. "LEVEL_1" \in Levels /\ {"Introgen", "Actterm"} \subseteq Causes
      /\ M_SP_NA \in Idents /\ M_ME_NB \in Idents /\ C_IC_NA \in Idents
  BY DEF Levels, Causes, Idents, M_SP_NA, M_ME_NB, C_IC_NA
<1>7. Update("LEVEL_1", M_SP_NA, "Introgen", ny) \in Updates
  BY <1>5, <1>6 DEF Update, Updates, UpdateKinds, DataCauses
<1>8. Update("LEVEL_1", M_ME_NB, "Introgen", nm) \in Updates
  BY <1>5, <1>6 DEF Update, Updates, UpdateKinds, DataCauses
<1>9. Update("LEVEL_1", C_IC_NA, "Actterm", nt) \in Updates
  <2>1. 0 \notin Points
    BY WiredAssumption, MeasuredAssumption DEF Points
  <2> QED BY <1>5, <1>6, <2>1 DEF Update, Updates, UpdateKinds
<1> QED BY <1>7, <1>8, <1>9 DEF yx_all_cll, MeasuredCall, Termination, ny, nm, nt

LEMMA CallReportedTyped ==
  ASSUME PointsTyped, NEW mb \in Seq(Events), Len(mb) <= AppMb
  PROVE  CallReported(mb) \in Seq(Events) /\ Len(CallReported(mb)) <= AppMb
<1> DEFINE us == iec_all_call_proc
           m1 == Reported(mb, us[1])
           m2 == Reported(m1, us[2])
<1>1. us[1] \in Updates /\ us[2] \in Updates /\ us[3] \in Updates
  BY CallTyped DEF iec_all_call_proc
<1> HIDE DEF us
<1>2. ASSUME NEW m \in Seq(Events), Len(m) <= AppMb, NEW u \in Updates
      PROVE  Reported(m, u) \in Seq(Events) /\ Len(Reported(m, u)) <= AppMb
  <2>1. NodeUpdate(u) \in Events
    BY DEF Events
  <2> QED BY <1>2, <2>1, PostedTyped DEF Reported
<1>3. m1 \in Seq(Events) /\ Len(m1) <= AppMb
  BY <1>1, <1>2
<1> HIDE DEF m1
<1>4. m2 \in Seq(Events) /\ Len(m2) <= AppMb
  BY <1>1, <1>2, <1>3
<1> HIDE DEF m2
<1>5. Reported(m2, us[3]) \in Seq(Events) /\ Len(Reported(m2, us[3])) <= AppMb
  BY <1>1, <1>2, <1>4
<1>6. CallReported(mb) = Reported(m2, us[3])
  BY DEF CallReported, m1, m2, us
<1> QED BY <1>5, <1>6

LEMMA MeasuredTyped ==
  ASSUME PointsTyped, Changed # {}
  PROVE  Update("LEVEL_2", M_ME_NB, "Spont", NodeOf(InOrder(Changed), real, 0)) \in Updates
<1>1. Changed \in SUBSET Measured
  BY DEF Changed
<1>2. Changed \subseteq Nat /\ IsFiniteSet(Changed)
  BY <1>1, WiredIsFinite, FS_Subset
<1>3. \A p \in Changed : real[p] \in Nat
  BY <1>1, ReadingsAssumption DEF PointsTyped
<1> DEFINE n == NodeOf(InOrder(Changed), real, 0)
<1>4. n \in Nodes /\ Exact(n)
  BY <1>2, <1>3, NodeTyped
<1> HIDE DEF n
<1>5. "LEVEL_2" \in Levels /\ "Spont" \in Causes /\ M_ME_NB \in Idents
  BY DEF Levels, Causes, Idents, M_ME_NB
<1>6. Update("LEVEL_2", M_ME_NB, "Spont", n) \in Updates
  BY <1>4, <1>5 DEF Update, Updates, UpdateKinds, DataCauses
<1> QED BY <1>6 DEF n

-----------------------------------------------------------------------------
(* The answers to commands.                                                *)
AnswerCauses ==
  {"Actcon", "Actterm", "Unknowinfo", "Unknowtype", "Deactcon", "Unknowreason", "Defreason"}

LEMMA AnswerCauseTyped ==
  ASSUME NEW a, NEW res
  PROVE  app_linkframe_convert_to_asdu(a, res) \in AnswerCauses
<1>1. CtrlCause(res) \in AnswerCauses
  BY DEF CtrlCause, AnswerCauses
<1>2. CASE IsSys(a)
  <2>1. ~IsCtrl(a)
    BY <1>2 DEF IsSys, IsCtrl
  <2>2. app_linkframe_convert_to_asdu(a, res) = "Actcon"
    BY <1>2, <2>1 DEF app_linkframe_convert_to_asdu
  <2> QED BY <2>2 DEF AnswerCauses
<1>3. CASE ~IsSys(a)
  BY <1>1, <1>3 DEF app_linkframe_convert_to_asdu, AnswerCauses
<1> QED BY <1>2, <1>3

AnswerNode(a) ==
  [addr |-> a.addr, single |-> Unset, buffered |-> 0, objects |-> <<Object(a.addr, a.SE)>>]

LEMMA AnswerNodeTyped ==
  ASSUME NEW a \in Commands
  PROVE  AnswerNode(a) \in Nodes /\ a.asdu_ident \in Idents /\ a.addr \in Nat
<1>1. a.addr \in Nat /\ a.SE \in Nat /\ a.asdu_ident \in Idents
  BY CommandsAssumption DEF CHOOSING, EXECUTE, Idents
<1> DEFINE os == <<Object(a.addr, a.SE)>>
<1>2. os \in Seq(Objects) /\ os # <<>> /\ os[1].addr = a.addr
  BY <1>1 DEF Object, Objects
<1> HIDE DEF os
<1>3. [addr |-> a.addr, single |-> Unset, buffered |-> 0, objects |-> os] \in Nodes
  BY <1>1, <1>2 DEF Nodes, Unset
<1> QED BY <1>1, <1>3 DEF AnswerNode, os

LEMMA AnswersTyped ==
  ASSUME NEW l \in Links, NEW a \in Commands, NEW res, Answers(l, a, res),
         tasks \in [Levels -> Seq(Tasks)]
  PROVE  tasks' \in [Levels -> Seq(Tasks)]
<1> DEFINE cause == app_linkframe_convert_to_asdu(a, res)
           new   == app_task_insert_ack_asdu(tasks["LEVEL_1"], l, a.asdu_ident, cause, AnswerNode(a))
<1>1. "LEVEL_1" \in Levels /\ tasks["LEVEL_1"] \in Seq(Tasks)
  BY DEF Levels
<1>2. cause \in Causes
  <2>1. AnswerCauses \subseteq Causes
    BY DEF AnswerCauses, Causes
  <2> QED BY <2>1, AnswerCauseTyped
<1>3. tasks' = [tasks EXCEPT !["LEVEL_1"] = new]
  BY DEF Answers, AnswerNode
<1>4. new \in Seq(Tasks)
  <2>1. PICK n : n = new
    OBVIOUS
  <2>2. PICK i : i = Place(tasks["LEVEL_1"], <<l, a.asdu_ident, cause>>, AnswerNode(a))
    OBVIOUS
  <2> HIDE DEF cause
  <2> QED BY <1>1, <1>2, <2>1, <2>2, AnswerNodeTyped, AnswerIsFirst
<1> HIDE DEF new
<1> QED BY <1>1, <1>3, <1>4

(* The tasks of a report.                                                  *)
LEMMA RegisteredTyped ==
  ASSUME NEW al \in Seq(Tasks), NEW l \in Links, NEW u \in Updates
  PROVE  Registered(al, l, u) \in Seq(Tasks)
<1>1. u.ident \in Idents /\ u.cause \in Causes /\ u.node \in Nodes
  BY DEF Updates
<1>2. PICK n : n = app_task_add_normal(al, l, u.ident, u.cause, u.node)
  OBVIOUS
<1>3. PICK i : i = Place(al, <<l, u.ident, u.cause>>, u.node)
  OBVIOUS
<1> QED BY <1>1, <1>2, <1>3, AddedAtPlace DEF Registered

LEMMA WantingIsOne ==
  ASSUME NEW l, Links = {l}
  PROVE  /\ Wanting = {} \/ Wanting = {l}
         /\ \A al, u : /\ Wanting = {} => RegisteredAll(al, Wanting, u) = al
                       /\ Wanting = {l} => RegisteredAll(al, Wanting, u) = Registered(al, l, u)
<1>1. l \in Nat
  BY LinksAssumption
<1>2. Wanting = {} \/ Wanting = {l}
  BY DEF Wanting
<1> QED BY <1>1, <1>2, RegisteredForNone, RegisteredForOne
-----------------------------------------------------------------------------
(* What every state of the station is made of.                             *)
TasksTyped == tasks \in [Levels -> Seq(Tasks)]
MailTyped  == app_event \in Seq(Events) /\ Len(app_event) <= AppMb
PulseTyped ==
  \/ pulse = <<>> /\ output = "OUT_RESET"
  \/ /\ \E l \in Links, a \in Commands : pulse = <<[sender |-> l, asdu |-> a]>>
     /\ output = "OUT_SET"
LinksTyped ==
  /\ active \in [Links -> 0 .. 1] /\ data_trans_active \in [Links -> 0 .. 1]
  /\ told \in [Links -> [Levels -> Nat]]
DeviceTyped ==
  /\ PointsTyped /\ last_realdata \in [Measured -> Readings]
  /\ position \in {"CUT", "CLOSE"} /\ moving \in BOOLEAN /\ clock \in {0, C_IC_NA, C_CS_NA}
BoundsTyped == commands \in 0 .. MaxCommands /\ moves \in 0 .. MaxMoves

StationInv == TasksTyped /\ MailTyped /\ PulseTyped /\ LinksTyped /\ DeviceTyped /\ BoundsTyped

LEMMA ToldTyped ==
  ASSUME LinksTyped, NEW L, NEW lvl \in Levels
  PROVE  Told(L, lvl) \in [Links -> [Levels -> Nat]]
<1>1. CASE Polled
  BY <1>1 DEF LinksTyped, Told
<1>2. CASE ~Polled
  <2>1. Told(L, lvl) = [k \in Links |-> IF k \in L THEN [told[k] EXCEPT ![lvl] = @ + 1] ELSE told[k]]
    BY <1>2 DEF Told
  <2>2. \A k \in Links : told[k] \in [Levels -> Nat]
    BY DEF LinksTyped
  <2>3. \A k \in Links : [told[k] EXCEPT ![lvl] = @ + 1] \in [Levels -> Nat]
    BY <2>2
  <2> QED BY <2>1, <2>2, <2>3
<1> QED BY <1>1, <1>2

LEMMA StationInit ==
  ASSUME Init
  PROVE  StationInv
<1>1. TasksTyped /\ MailTyped /\ PulseTyped /\ BoundsTyped
  BY BoundsAssumption, EmptySeq
     DEF Init, DeviceInit, TasksTyped, MailTyped, PulseTyped, BoundsTyped
<1>2. LinksTyped
  BY DEF Init, LinksTyped
<1>3. DeviceTyped
  BY ReadingsAssumption, SignalsAssumption
     DEF Init, DeviceInit, DeviceTyped, PointsTyped
<1> QED BY <1>1, <1>2, <1>3 DEF StationInv

-----------------------------------------------------------------------------
(* What the steps of the application do with one link.                     *)
LEMMA TakenTyped ==
  ASSUME MailTyped, app_event # <<>>
  PROVE  /\ Head(app_event) \in Events /\ Tail(app_event) \in Seq(Events)
         /\ Len(Tail(app_event)) <= AppMb /\ Len(Tail(app_event)) = Len(app_event) - 1
<1>1. /\ Head(app_event) \in Events /\ Tail(app_event) \in Seq(Events)
      /\ Len(Tail(app_event)) = Len(app_event) - 1
  BY HeadTailProperties DEF MailTyped
<1>2. Len(app_event) \in Nat /\ Len(app_event) <= AppMb /\ AppMb \in Nat
  BY BoundsAssumption, LenProperties DEF MailTyped
<1> QED BY <1>1, <1>2

LEMMA RequestDoes ==
  ASSUME NEW l, Links = {l}, TasksTyped, MailTyped, AppRequest
  PROVE  \E lvl \in Levels :
           /\ app_event # <<>> /\ Head(app_event) = Ask(l, lvl) /\ app_event' = Tail(app_event)
           /\ \/ tasks[lvl] = <<>> /\ UNCHANGED <<tasks, image, call, awaited, unconfirmed>>
              \/ /\ tasks[lvl] # <<>> /\ tasks' = [tasks EXCEPT ![lvl] = Tail(@)]
                 /\ \E single \in Garbage :
                      HandsOut(app_task_covert_to_asdu_frame(tasks[lvl][1], single))
<1> DEFINE e   == Head(app_event)
           lvl == e.evt_sub_type
           i   == app_task_get(tasks[lvl], e.msg.sender)
<1>1. app_event # <<>> /\ e.evt_type = "APP_RECV_DATA" /\ lvl \in Levels
  BY DEF AppRequest, Takes
<1>2. e \in Events
  BY <1>1, TakenTyped
<1>3. e.msg.sender = l /\ e = Ask(l, lvl)
  BY <1>1, <1>2, AskOfEvent
<1>4. tasks[lvl] \in Seq(Tasks)
  BY <1>1 DEF TasksTyped
<1>5. i = IF tasks[lvl] = <<>> THEN 0 ELSE 1
  BY <1>3, <1>4, FirstIsTaken
<1>6. /\ i = 0 => UNCHANGED <<tasks, image, call, awaited, unconfirmed>>
      /\ i # 0 => \E single \in Garbage :
                    HandsOut(app_task_covert_to_asdu_frame(tasks[lvl][i], single))
  BY DEF AppRequest
<1>7. i # 0 => tasks' = [tasks EXCEPT ![lvl] = app_task_free(Emptied(@, i), i)]
  BY DEF AppRequest
<1>8. app_event' = Tail(app_event)
  BY DEF AppRequest
<1> HIDE DEF i, lvl, e
<1>9. CASE tasks[lvl] = <<>>
  <2>1. UNCHANGED <<tasks, image, call, awaited, unconfirmed>>
    BY <1>5, <1>6, <1>9
  <2> QED BY <1>1, <1>3, <1>8, <1>9, <2>1 DEF e
<1>10. CASE tasks[lvl] # <<>>
  <2>1. i = 1
    BY <1>5, <1>10
  <2>2. app_task_free(Emptied(tasks[lvl], 1), 1) = Tail(tasks[lvl])
    BY <1>4, <1>10, FirstIsFreed
  <2>3. tasks' = [tasks EXCEPT ![lvl] = Tail(@)]
    <3>1. tasks' = [tasks EXCEPT ![lvl] = app_task_free(Emptied(@, 1), 1)]
      BY <1>7, <2>1
    <3> QED BY <2>2, <3>1
  <2>4. \E single \in Garbage : HandsOut(app_task_covert_to_asdu_frame(tasks[lvl][1], single))
    BY <1>6, <2>1
  <2> QED BY <1>1, <1>3, <1>8, <1>10, <2>3, <2>4 DEF e
<1> QED BY <1>9, <1>10

LEMMA CommandDoes ==
  ASSUME MailTyped, AppCommand,
         NEW e, e = Head(app_event)
  PROVE  /\ app_event # <<>> /\ e.msg.sender \in Links /\ e.msg.asdu \in Commands
         /\ e = HandOver(e.msg.sender, e.msg.asdu)
<1>1. app_event # <<>> /\ e.evt_sub_type = "USER"
  BY DEF AppCommand, Takes
<1>2. e \in Events
  BY <1>1, TakenTyped
<1> QED BY <1>1, <1>2, CommandOfEvent

LEMMA UpdateDoes ==
  ASSUME NEW l, Links = {l}, TasksTyped, MailTyped, AppUpdate
  PROVE  \E u \in Updates :
           /\ app_event # <<>> /\ Head(app_event) = NodeUpdate(u) /\ app_event' = Tail(app_event)
           /\ u = Head(app_event).msg /\ told' = Told(Wanting, u.level)
           /\ \/ Wanting = {} /\ tasks' = tasks
              \/ Wanting = {l} /\ tasks' = [tasks EXCEPT ![u.level] = Registered(@, l, u)]
<1> DEFINE e == Head(app_event)
<1>1. app_event # <<>> /\ e.evt_type = "APP_NODE_UPDATE"
  BY DEF AppUpdate, Takes
<1>2. e \in Events
  BY <1>1, TakenTyped
<1>3. PICK u : u = e.msg
  OBVIOUS
<1>4. u \in Updates /\ e = NodeUpdate(u)
  BY <1>1, <1>2, <1>3, UpdateOfEvent
<1>5. /\ tasks' = [tasks EXCEPT ![u.level] = RegisteredAll(@, Wanting, u)]
      /\ told' = Told(Wanting, u.level) /\ app_event' = Tail(app_event)
  BY <1>3, Zenon DEF AppUpdate
<1>6. u.level \in Levels /\ tasks \in [Levels -> Seq(Tasks)]
  BY <1>4 DEF Updates, TasksTyped
<1>7. \/ Wanting = {} /\ tasks' = tasks
      \/ Wanting = {l} /\ tasks' = [tasks EXCEPT ![u.level] = Registered(@, l, u)]
  BY <1>5, <1>6, WantingIsOne
<1> QED BY <1>1, <1>3, <1>4, <1>5, <1>7

-----------------------------------------------------------------------------
(* Every step keeps what the states are made of.                           *)
LEMMA LinkAsksKeeps ==
  ASSUME StationInv, NEW l \in Links, NEW lvl \in Levels, LinkAsks(l, lvl)
  PROVE  StationInv'
<1>1. Ask(l, lvl) \in Events
  BY DEF Events
<1>2. MailTyped'
  BY <1>1, PostedTyped DEF StationInv, MailTyped, LinkAsks
<1>3. told' \in [Links -> [Levels -> Nat]]
  <2>1. told \in [Links -> [Levels -> Nat]]
    BY DEF StationInv, LinksTyped
  <2>2. CASE Polled
    BY <2>1, <2>2 DEF LinkAsks
  <2>3. CASE ~Polled
    <3>1. told[l][lvl] > 0 /\ told' = [told EXCEPT ![l][lvl] = @ - 1]
      BY <2>3 DEF LinkAsks
    <3>2. told[l] \in [Levels -> Nat] /\ told[l][lvl] - 1 \in Nat
      BY <2>1, <3>1
    <3>3. [told[l] EXCEPT ![lvl] = @ - 1] \in [Levels -> Nat]
      BY <3>2
    <3>4. told' = [told EXCEPT ![l] = [told[l] EXCEPT ![lvl] = @ - 1]]
      BY <2>1, <3>1
    <3> QED BY <2>1, <3>3, <3>4
  <2> QED BY <2>2, <2>3
<1>4. UNCHANGED <<tasks, pulse, active, data_trans_active, boundVars, deviceVars>>
  BY DEF LinkAsks
<1> QED BY <1>2, <1>3, <1>4
     DEF StationInv, TasksTyped, PulseTyped, LinksTyped, DeviceTyped, PointsTyped, BoundsTyped,
         boundVars, deviceVars

LEMMA LinkHandsOverKeeps ==
  ASSUME StationInv, NEW l \in Links, NEW a \in Commands, LinkHandsOver(l, a)
  PROVE  StationInv'
<1>1. HandOver(l, a) \in Events
  BY DEF Events
<1>2. MailTyped'
  BY <1>1, PostedTyped DEF StationInv, MailTyped, LinkHandsOver
<1>3. active' \in [Links -> 0 .. 1]
  BY DEF StationInv, LinksTyped, LinkHandsOver
<1>4. BoundsTyped'
  BY BoundsAssumption DEF StationInv, BoundsTyped, LinkHandsOver
<1>5. UNCHANGED <<tasks, pulse, data_trans_active, told, deviceVars>>
  BY DEF LinkHandsOver
<1> QED BY <1>2, <1>3, <1>4, <1>5
     DEF StationInv, TasksTyped, PulseTyped, LinksTyped, DeviceTyped, PointsTyped, deviceVars

LEMMA LinkResetKeeps ==
  ASSUME StationInv, NEW l \in Links, LinkReset(l)
  PROVE  StationInv'
<1>1. active' \in [Links -> 0 .. 1] /\ data_trans_active' \in [Links -> 0 .. 1]
  BY DEF StationInv, LinksTyped, LinkReset
<1>2. BoundsTyped'
  BY BoundsAssumption DEF StationInv, BoundsTyped, LinkReset
<1>3. UNCHANGED <<taskVars, told, deviceVars>>
  BY DEF LinkReset
<1> QED BY <1>1, <1>2, <1>3
     DEF StationInv, TasksTyped, MailTyped, PulseTyped, LinksTyped, DeviceTyped, PointsTyped,
         taskVars, deviceVars

LEMMA AppRequestKeeps ==
  ASSUME OneLink, StationInv, AppRequest
  PROVE  StationInv'
<1>1. PICK l : Links = {l}
  BY DEF OneLink
<1>2. PICK lvl \in Levels :
        /\ app_event # <<>> /\ app_event' = Tail(app_event)
        /\ \/ tasks' = tasks
           \/ tasks[lvl] # <<>> /\ tasks' = [tasks EXCEPT ![lvl] = Tail(@)]
  BY <1>1, RequestDoes DEF StationInv
<1>3. TasksTyped'
  <2>1. tasks[lvl] # <<>> => Tail(tasks[lvl]) \in Seq(Tasks)
    BY HeadTailProperties DEF StationInv, TasksTyped
  <2> QED BY <1>2, <2>1 DEF StationInv, TasksTyped
<1>4. MailTyped'
  BY <1>2, TakenTyped DEF StationInv, MailTyped
<1>5. UNCHANGED <<pulse, linkVars, boundVars, deviceVars>>
  BY DEF AppRequest
<1> QED BY <1>3, <1>4, <1>5
     DEF StationInv, PulseTyped, LinksTyped, DeviceTyped, PointsTyped, BoundsTyped,
         linkVars, boundVars, deviceVars

LEMMA AppUpdateKeeps ==
  ASSUME OneLink, StationInv, AppUpdate
  PROVE  StationInv'
<1>1. PICK l : Links = {l}
  BY DEF OneLink
<1>2. PICK u \in Updates :
        /\ app_event # <<>> /\ app_event' = Tail(app_event) /\ told' = Told(Wanting, u.level)
        /\ \/ tasks' = tasks
           \/ tasks' = [tasks EXCEPT ![u.level] = Registered(@, l, u)]
  BY <1>1, UpdateDoes DEF StationInv
<1>3. TasksTyped'
  <2>1. u.level \in Levels /\ tasks[u.level] \in Seq(Tasks)
    BY DEF StationInv, TasksTyped, Updates
  <2>2. Registered(tasks[u.level], l, u) \in Seq(Tasks)
    BY <1>1, <2>1, RegisteredTyped
  <2> QED BY <1>2, <2>1, <2>2 DEF StationInv, TasksTyped
<1>4. MailTyped'
  BY <1>2, TakenTyped DEF StationInv, MailTyped
<1>5. told' \in [Links -> [Levels -> Nat]]
  BY <1>2, ToldTyped DEF StationInv, Updates
<1>6. UNCHANGED <<pulse, active, data_trans_active, boundVars, deviceVars>>
  BY DEF AppUpdate
<1> QED BY <1>3, <1>4, <1>5, <1>6
     DEF StationInv, PulseTyped, LinksTyped, DeviceTyped, PointsTyped, BoundsTyped,
         boundVars, deviceVars

LEMMA PulseEndsKeeps ==
  ASSUME StationInv, PulseEnds
  PROVE  StationInv'
<1>1. PICK l \in Links, a \in Commands : pulse = <<[sender |-> l, asdu |-> a]>>
  BY DEF StationInv, PulseTyped, PulseEnds
<1>2. pulse[1].sender = l /\ pulse[1].asdu = a
  BY <1>1
<1>3. Answers(l, a, "CMD_RES_OK") /\ pulse' = <<>> /\ output' = "OUT_RESET"
  BY <1>2 DEF PulseEnds
<1>4. TasksTyped'
  BY <1>3, AnswersTyped DEF StationInv, TasksTyped
<1>5. told' \in [Links -> [Levels -> Nat]]
  BY <1>3, ToldTyped DEF StationInv, Answers, Levels
<1>6. UNCHANGED <<app_event, active, data_trans_active, boundVars, real, last_realdata, signal,
                  position, moving, clock>>
  BY DEF PulseEnds
<1> QED BY <1>3, <1>4, <1>5, <1>6
     DEF StationInv, MailTyped, PulseTyped, LinksTyped, DeviceTyped, PointsTyped, BoundsTyped,
         boundVars

LEMMA AppCommandKeeps ==
  ASSUME StationInv, AppCommand
  PROVE  StationInv'
<1> DEFINE e == Head(app_event)
           l == e.msg.sender
           a == e.msg.asdu
<1>1. app_event # <<>> /\ l \in Links /\ a \in Commands
  BY CommandDoes DEF StationInv
<1>2. /\ Tail(app_event) \in Seq(Events) /\ Len(Tail(app_event)) <= AppMb
      /\ "LEVEL_1" \in Levels
  BY <1>1, TakenTyped DEF StationInv, Levels
<1>3. UNCHANGED <<active, boundVars>>
  BY DEF AppCommand
<1>4. CASE /\ ~Known(a)
           /\ app_event' = Tail(app_event)
           /\ told' = Told({l}, "LEVEL_1")
           /\ UNCHANGED <<tasks, pulse, data_trans_active, deviceVars>>
  <2>1. told' \in [Links -> [Levels -> Nat]]
    BY <1>2, <1>4, ToldTyped DEF StationInv
  <2> HIDE DEF l, a, e
  <2> QED BY <1>2, <1>3, <1>4, <2>1
       DEF StationInv, TasksTyped, MailTyped, PulseTyped, LinksTyped, DeviceTyped, PointsTyped,
           BoundsTyped, boundVars, deviceVars
<1>5. CASE /\ app_event' = Tail(app_event)
           /\ pulse' = <<[sender |-> l, asdu |-> a]>>
           /\ output' = "OUT_SET"
           /\ UNCHANGED <<tasks, data_trans_active, told, real, last_realdata, signal, position,
                          moving, clock>>
  <2> HIDE DEF l, a, e
  <2> QED BY <1>1, <1>2, <1>3, <1>5
       DEF StationInv, TasksTyped, MailTyped, PulseTyped, LinksTyped, DeviceTyped, PointsTyped,
           BoundsTyped, boundVars
<1>6. CASE /\ app_event' = Tail(app_event)
           /\ moving' = (moving \/ Starts(a))
           /\ Answers(l, a, Result(a))
           /\ UNCHANGED <<pulse, data_trans_active, real, last_realdata, signal, position, output,
                          clock>>
  <2>1. TasksTyped'
    BY <1>1, <1>6, AnswersTyped DEF StationInv, TasksTyped
  <2>2. told' \in [Links -> [Levels -> Nat]]
    BY <1>2, <1>6, ToldTyped DEF StationInv, Answers
  <2>3. moving' \in BOOLEAN
    BY <1>6
  <2> HIDE DEF l, a, e
  <2> QED BY <1>2, <1>3, <1>6, <2>1, <2>2, <2>3
       DEF StationInv, MailTyped, PulseTyped, LinksTyped, DeviceTyped, PointsTyped, BoundsTyped,
           boundVars
<1>7. CASE /\ app_event' = IF IsSys(a) /\ a.asdu_ident = C_IC_NA
                           THEN CallReported(Tail(app_event))
                           ELSE Tail(app_event)
           /\ data_trans_active' = IF IsSys(a) /\ a.asdu_ident = C_IC_NA
                                   THEN [data_trans_active EXCEPT ![l] = 1]
                                   ELSE data_trans_active
           /\ clock' = IF IsSys(a) /\ SetsClock(a.asdu_ident) THEN a.asdu_ident ELSE clock
           /\ Answers(l, a, "CMD_RES_FAIL")
           /\ UNCHANGED <<pulse, real, last_realdata, signal, position, moving, output>>
  <2>1. TasksTyped'
    BY <1>1, <1>7, AnswersTyped DEF StationInv, TasksTyped
  <2>2. told' \in [Links -> [Levels -> Nat]]
    BY <1>2, <1>7, ToldTyped DEF StationInv, Answers
  <2>3. CallReported(Tail(app_event)) \in Seq(Events) /\ Len(CallReported(Tail(app_event))) <= AppMb
    BY <1>2, CallReportedTyped DEF StationInv, DeviceTyped
  <2> HIDE DEF l, a, e
  <2>4. MailTyped'
    BY <1>2, <1>7, <2>3 DEF MailTyped
  <2>5. data_trans_active' \in [Links -> 0 .. 1]
    BY <1>1, <1>7 DEF StationInv, LinksTyped
  <2>6. clock' \in {0, C_IC_NA, C_CS_NA}
    BY <1>7 DEF StationInv, DeviceTyped, SetsClock
  <2> QED BY <1>3, <1>7, <2>1, <2>2, <2>4, <2>5, <2>6
       DEF StationInv, PulseTyped, LinksTyped, DeviceTyped, PointsTyped, BoundsTyped, boundVars
<1> QED BY <1>4, <1>5, <1>6, <1>7 DEF AppCommand

LEMMA SampleKeeps ==
  ASSUME StationInv, Sample
  PROVE  StationInv'
<1> DEFINE u == Update("LEVEL_2", M_ME_NB, "Spont", NodeOf(InOrder(Changed), real, 0))
<1>1. PointsTyped /\ Changed # {}
  BY DEF StationInv, DeviceTyped, Sample
<1>2. u \in Updates
  BY <1>1, MeasuredTyped
<1>3. app_event' = iec_post_event(app_event, AppMb, NodeUpdate(u))
  BY DEF Sample
<1> HIDE DEF u
<1>4. NodeUpdate(u) \in Events
  BY <1>2 DEF Events
<1>5. MailTyped'
  BY <1>3, <1>4, PostedTyped DEF StationInv, MailTyped
<1>6. last_realdata' \in [Measured -> Readings]
  BY DEF StationInv, DeviceTyped, PointsTyped, Sample
<1>7. UNCHANGED <<tasks, pulse, linkVars, boundVars, real, signal, position, moving, output, clock>>
  BY DEF Sample
<1> QED BY <1>5, <1>6, <1>7
     DEF StationInv, TasksTyped, PulseTyped, LinksTyped, DeviceTyped, PointsTyped, BoundsTyped,
         linkVars, boundVars

LEMMA MeasureKeeps ==
  ASSUME StationInv, Measure
  PROVE  StationInv'
<1>1. real' \in [Measured -> Readings]
  BY DEF StationInv, DeviceTyped, PointsTyped, Measure
<1>2. BoundsTyped'
  BY BoundsAssumption DEF StationInv, BoundsTyped, Measure
<1>3. UNCHANGED <<taskVars, linkVars, last_realdata, signal, position, moving, output, clock>>
  BY DEF Measure
<1> QED BY <1>1, <1>2, <1>3
     DEF StationInv, TasksTyped, MailTyped, PulseTyped, LinksTyped, DeviceTyped, PointsTyped,
         taskVars, linkVars

\* The report of one status, as it is after the step.
LEMMA NotifyTyped ==
  ASSUME PointsTyped', NEW p \in Wired
  PROVE  Notify(p) \in Events
<1>1. \A q \in Wired : Status'[q] \in Nat
  <2>1. (PointsTyped => \A q \in Wired : Status[q] \in Nat)'
    BY StatusTyped, PTL
  <2> QED BY <2>1
<1>2. p \in Nat
  BY WiredIsFinite
<1> DEFINE n == NodeOf(<<p>>, Status', 0)
<1>3. n \in Nodes /\ Exact(n)
  BY <1>1, <1>2, OnePointTyped
<1> HIDE DEF n
<1>4. "LEVEL_1" \in Levels /\ "Spont" \in Causes /\ M_SP_NA \in Idents
  BY DEF Levels, Causes, Idents, M_SP_NA
<1>5. Update("LEVEL_1", M_SP_NA, "Spont", n) \in Updates
  BY <1>3, <1>4 DEF Update, Updates, UpdateKinds, DataCauses
<1> QED BY <1>5 DEF Notify, Events, n

LEMMA SignalChangesKeeps ==
  ASSUME StationInv, SignalChanges
  PROVE  StationInv'
<1>1. PICK p \in Changing :
        /\ signal' = [signal EXCEPT ![p] = 1 - @]
        /\ UNCHANGED <<real, last_realdata, position, moving, output, clock>>
        /\ app_event' = iec_post_event(app_event, AppMb, Notify(p))
  BY DEF SignalChanges
<1>2. p \in Signals /\ p \in Wired
  BY SignalsAssumption DEF Signals
<1>3. PointsTyped'
  BY <1>1, <1>2 DEF StationInv, DeviceTyped, PointsTyped
<1>4. MailTyped'
  BY <1>1, <1>2, <1>3, NotifyTyped, PostedTyped DEF StationInv, MailTyped
<1>5. BoundsTyped'
  BY BoundsAssumption DEF StationInv, BoundsTyped, SignalChanges
<1>6. UNCHANGED <<tasks, pulse, linkVars>>
  BY DEF SignalChanges
<1> QED BY <1>1, <1>3, <1>4, <1>5, <1>6
     DEF StationInv, TasksTyped, PulseTyped, LinksTyped, DeviceTyped, linkVars

LEMMA SwitchMovesKeeps ==
  ASSUME StationInv, SwitchMoves
  PROVE  StationInv'
<1>1. /\ moving' = FALSE /\ position' \in {"CUT", "CLOSE"}
      /\ UNCHANGED <<signal, real, last_realdata, output, clock>>
      /\ app_event' = iec_post_event(app_event, AppMb, Notify(YX_CLOSE_ADDR))
      /\ UNCHANGED <<tasks, pulse, linkVars, boundVars>>
  BY DEF SwitchMoves
<1>2. PointsTyped'
  BY <1>1 DEF StationInv, DeviceTyped, PointsTyped
<1>3. MailTyped'
  BY <1>1, <1>2, WiredIsFinite, NotifyTyped, PostedTyped DEF StationInv, MailTyped
<1> QED BY <1>1, <1>2, <1>3
     DEF StationInv, TasksTyped, PulseTyped, LinksTyped, DeviceTyped, BoundsTyped, linkVars,
         boundVars

LEMMA StationStep ==
  ASSUME OneLink, StationInv, [Next]_vars
  PROVE  StationInv'
<1>1. ASSUME AppThread PROVE StationInv'
  BY <1>1, AppRequestKeeps, AppCommandKeeps, PulseEndsKeeps, AppUpdateKeeps DEF AppThread
<1>2. ASSUME DeviceStep PROVE StationInv'
  BY <1>2, SampleKeeps, MeasureKeeps, SignalChangesKeeps, SwitchMovesKeeps DEF DeviceStep
<1>3. ASSUME LinkStep PROVE StationInv'
  BY <1>3, LinkResetKeeps, LinkAsksKeeps, LinkHandsOverKeeps DEF LinkStep
<1>4. ASSUME UNCHANGED vars PROVE StationInv'
  BY <1>4 DEF StationInv, TasksTyped, MailTyped, PulseTyped, LinksTyped, DeviceTyped, PointsTyped,
              BoundsTyped, vars, taskVars, linkVars, boundVars, deviceVars
<1> QED BY <1>1, <1>2, <1>3, <1>4 DEF Next

LEMMA TasksAreTyped ==
  ASSUME NEW t \in Tasks
  PROVE  TaskType(t)
<1>1. /\ t.link_id \in Links /\ t.asdu_ident \in Idents /\ t.cause \in Causes
      /\ t.nodes = <<t.nodes[1]>> /\ DOMAIN t.nodes = {1} /\ t.nodes[1] \in Nodes
  BY OneNode DEF Tasks
<1>2. Len(<<t.nodes[1]>>) = 1
  OBVIOUS
<1>3. Len(t.nodes[1].objects) > 0
  <2>1. t.nodes[1].objects \in Seq(Objects) /\ t.nodes[1].objects # <<>>
    BY <1>1 DEF Nodes
  <2>2. Len(t.nodes[1].objects) \in Nat \ {0}
    BY <2>1, EmptySeq
  <2> QED BY <2>2
<1>4. Len(t.nodes) > 0
  <2>1. PICK n : t.nodes = <<n>>
    BY <1>1
  <2> QED BY <2>1
<1>5. t.asdu_ident \in 0 .. 255
  BY <1>1 DEF Idents
<1>6. \A i \in DOMAIN t.nodes : Len(t.nodes[i].objects) > 0
  BY <1>1, <1>3
<1> QED BY <1>1, <1>4, <1>5, <1>6, Zenon DEF TaskType

LEMMA EventsAreTyped ==
  ASSUME NEW e \in Events
  PROVE  EventType(e)
<1>1. CASE \E u \in Updates : e = NodeUpdate(u)
  <2>1. PICK u \in Updates : e = NodeUpdate(u)
    BY <1>1
  <2>2. e.evt_type = "APP_NODE_UPDATE" /\ e.msg = u
    BY <2>1 DEF NodeUpdate, Event
  <2>3. /\ u.level \in Levels /\ u.ident \in Idents /\ u.cause \in Causes /\ u.node.buffered = 0
        /\ u.node.single \in Nat /\ u.node.objects \in Seq(Objects) /\ u.node.objects # <<>>
    BY DEF Updates, Nodes
  <2>4. Len(u.node.objects) \in Nat \ {0}
    BY <2>3, EmptySeq
  <2>5. UpdateType(u)
    BY <2>3, <2>4 DEF UpdateType, Idents
  <2>6. e.evt_sub_type # "USER"
    BY <2>1 DEF NodeUpdate, Event
  <2> QED BY <2>2, <2>5, <2>6 DEF EventType
<1>2. CASE \E l \in Links, lvl \in Levels : e = Ask(l, lvl)
  BY <1>2 DEF Ask, Event, EventType, Levels
<1>3. CASE \E l \in Links, a \in Commands : e = HandOver(l, a)
  BY <1>3 DEF HandOver, Event, EventType
<1> QED BY <1>1, <1>2, <1>3, EventIsOne

LEMMA StationInvImplies ==
  ASSUME StationInv
  PROVE  TypeOK
<1>1. \A lvl \in Levels : \A i \in DOMAIN tasks[lvl] :
        TaskType(tasks[lvl][i])
  <2>1. \A lvl \in Levels : \A i \in DOMAIN tasks[lvl] : tasks[lvl][i] \in Tasks
    BY LenProperties, ElementOfSeq DEF StationInv, TasksTyped
  <2> QED BY <2>1, TasksAreTyped
<1>2. Len(app_event) <= AppMb /\ \A i \in DOMAIN app_event : EventType(app_event[i])
  <2>1. \A i \in DOMAIN app_event : app_event[i] \in Events
    BY LenProperties, ElementOfSeq DEF StationInv, MailTyped
  <2> QED BY <2>1, EventsAreTyped DEF StationInv, MailTyped
<1>3. Len(pulse) <= 1 /\ output = (IF pulse = <<>> THEN "OUT_RESET" ELSE "OUT_SET")
  <2>1. CASE pulse = <<>> /\ output = "OUT_RESET"
    BY <2>1
  <2>2. CASE output = "OUT_SET" /\ \E l \in Links, a \in Commands : pulse = <<[sender |-> l, asdu |-> a]>>
    <3>1. PICK x : pulse = <<x>>
      BY <2>2
    <3> QED BY <2>2, <3>1
  <2> QED BY <2>1, <2>2 DEF StationInv, PulseTyped
<1> QED
  BY <1>1, <1>2, <1>3 DEF StationInv, LinksTyped, DeviceTyped, PointsTyped, BoundsTyped, TypeOK

(* With one link every variable of the application keeps its type, a task  *)
(* that waits has a node and a node an object, and the mailbox never holds *)
(* more than its slots, whatever commands, resets, requests and reports    *)
(* come in whatever order (App/app.c, App/app_task.c, App/iec101.c).       *)
THEOREM StationTyped == OneLink => (Spec => []TypeOK)
<1> SUFFICES ASSUME OneLink PROVE Spec => []TypeOK
  OBVIOUS
<1>1. Init => StationInv
  BY StationInit
<1>2. StationInv /\ [Next]_vars => StationInv'
  BY StationStep
<1>3. StationInv => TypeOK
  BY StationInvImplies
<1> QED BY <1>1, <1>2, <1>3, PTL DEF Spec
-----------------------------------------------------------------------------
(* The ASDU of a task is made of the objects of its node.                  *)
LEMMA FlattenOne ==
  ASSUME NEW x, NEW seqs, seqs = <<x>>
  PROVE  FlattenSeq(seqs) = x
<1> DEFINE n    == Len(seqs)
           F(g) == [i \in 1 .. n |-> IF i = 1 THEN seqs[i] ELSE g[i - 1] \o seqs[i]]
           it   == CHOOSE g : g = F(g)
           w    == [i \in 1 .. n |-> x]
<1>1. n = 1 /\ seqs[1] = x /\ \A i \in 1 .. n : i = 1
  OBVIOUS
<1>2. FlattenSeq(seqs) = it[n]
  <2>1. Len(seqs) # 0
    BY <1>1
  <2> QED BY <2>1, Zenon DEF FlattenSeq
<1> HIDE DEF n
<1>3. w = F(w)
  BY <1>1
<1>4. it = F(it)
  <2> HIDE DEF w, F
  <2> QED BY <1>3
<1>5. it[n] = x
  <2> HIDE DEF it
  <2> QED BY <1>1, <1>4
<1> QED BY <1>2, <1>5

Frame(t, garbage) == app_task_covert_to_asdu_frame(t, garbage)

LEMMA FrameOfTask ==
  ASSUME NEW t \in Tasks, NEW garbage
  PROVE  /\ Frame(t, garbage).link_id = t.link_id /\ Frame(t, garbage).ident = t.asdu_ident
         /\ Frame(t, garbage).cause = t.cause
         /\ Frame(t, garbage).objects = t.nodes[1].objects
         /\ Frame(t, garbage).count = CountOf(t.nodes, garbage)
<1> DEFINE n  == t.nodes[1]
           ns == t.nodes
           os == n.objects
<1>1. n \in Nodes /\ ns = <<n>> /\ DOMAIN ns = {1}
  BY OneNode
<1>2. os \in Seq(Objects) /\ os # <<>> /\ os[1].addr = n.addr
  BY <1>1 DEF Nodes
<1>3. Fitting(ns) = ns
  <2>1. ns \in Seq(Nodes) /\ Len(ns) = 1
    <3> HIDE DEF n
    <3>1. <<n>> \in Seq(Nodes) /\ Len(<<n>>) = 1
      BY <1>1
    <3> HIDE DEF ns
    <3> QED BY <1>1, <3>1
  <2>2. NodesPerAsdu \in Nat /\ NodesPerAsdu >= 1
    BY NodesAssumption
  <2>3. (IF Len(ns) < NodesPerAsdu THEN Len(ns) ELSE NodesPerAsdu) = Len(ns)
    BY <2>1, <2>2
  <2> HIDE DEF ns
  <2> QED BY <2>1, <2>3, SubSeqFull DEF Fitting
<1>4. <<Object(n.addr, os[1].val)>> \o Tail(os) = os
  <2> DEFINE h == <<os[1]>>
  <2>1. os[1] \in Objects /\ Tail(os) \in Seq(Objects)
    BY <1>2, HeadTailProperties
  <2>2. Object(n.addr, os[1].val) = os[1]
    BY <1>2, <2>1 DEF Objects, Object
  <2>3. h \o Tail(os) = os
    <3> HIDE DEF os, n
    <3>1. /\ h \o Tail(os) \in Seq(Objects) /\ Len(h \o Tail(os)) = Len(Tail(os)) + 1
          /\ (h \o Tail(os))[1] = os[1]
          /\ \A k \in 1 .. Len(Tail(os)) : (h \o Tail(os))[k + 1] = Tail(os)[k]
      BY <2>1, ConsIndex
    <3>2. /\ Len(Tail(os)) = Len(os) - 1 /\ Len(os) \in Nat
          /\ \A k \in 1 .. Len(Tail(os)) : Tail(os)[k] = os[k + 1]
      BY <1>2, HeadTailProperties, LenProperties
    <3> HIDE DEF h
    <3>3. ASSUME NEW j \in 1 .. Len(os) PROVE (h \o Tail(os))[j] = os[j]
      <4>1. CASE j = 1
        BY <3>1, <4>1
      <4>2. CASE j # 1
        <5>1. PICK k : k = j - 1
          OBVIOUS
        <5>2. k \in 1 .. Len(Tail(os)) /\ j = k + 1
          BY <3>2, <4>2, <5>1
        <5> QED BY <3>1, <3>2, <5>2
      <4> QED BY <4>1, <4>2
    <3>4. Len(h \o Tail(os)) = Len(os)
      BY <3>1, <3>2
    <3> QED BY <1>2, <3>1, <3>3, <3>4, SeqEqual
  <2> QED BY <2>2, <2>3
<1>5. Packed(ns) = os
  <2> DEFINE x    == <<Object(n.addr, os[1].val)>> \o Tail(os)
             seqs == [i \in DOMAIN ns |->
                        <<Object(IF i = 1 THEN Last(ns).addr ELSE 0, ns[i].objects[1].val)>>
                          \o Tail(ns[i].objects)]
  <2>1. Last(ns) = n /\ ns[1] = n
    <3>1. Len(ns) = 1 /\ ns[1] = n
      BY <1>1
    <3> QED BY <3>1 DEF Last
  <2>2. seqs = [i \in {1} |-> x]
    <3>1. \A i \in {1} : <<Object(IF i = 1 THEN Last(ns).addr ELSE 0, ns[i].objects[1].val)>>
                           \o Tail(ns[i].objects) = x
      BY <2>1
    <3> HIDE DEF x, ns
    <3> QED BY <1>1, <3>1
  <2> HIDE DEF x
  <2>3. [i \in {1} |-> x] = <<x>>
    OBVIOUS
  <2>4. FlattenSeq(seqs) = x
    <3> HIDE DEF seqs
    <3> QED BY <2>2, <2>3, FlattenOne
  <2> QED BY <1>4, <2>4 DEF Packed, x
<1> HIDE DEF os, ns, n
<1> QED BY <1>3, <1>5 DEF Frame, app_task_covert_to_asdu_frame, app_task_pack_node, ns, os, n

-----------------------------------------------------------------------------
(* The confirmations of executed commands that wait.                       *)
Confirming(t) ==
  t.asdu_ident = C_DC_NA /\ t.cause = "Actcon" /\ t.nodes[1].objects[1].val = EXECUTE

ToConfirm(al) == {i \in 1 .. Len(al) : Confirming(al[i])}

LEMMA MapsInto ==
  ASSUME NEW S, NEW T, IsFiniteSet(T), NEW f \in [S -> T],
         \A x, y \in S : f[x] = f[y] => x = y
  PROVE  IsFiniteSet(S) /\ Cardinality(S) <= Cardinality(T)
<1>1. f \in Injection(S, T)
  BY DEF Injection, IsInjective
<1> QED BY <1>1, FS_Injection

LEMMA ToConfirmFinite ==
  ASSUME NEW al \in Seq(Tasks)
  PROVE  IsFiniteSet(ToConfirm(al)) /\ Cardinality(ToConfirm(al)) \in Nat
<1>1. Len(al) \in Int /\ 1 \in Int
  BY LenProperties
<1>2. IsFiniteSet(ToConfirm(al))
  BY <1>1, IntervalIsFinite DEF ToConfirm
<1> QED BY <1>2, FS_CardinalityType

LEMMA ToConfirmTail ==
  ASSUME NEW al \in Seq(Tasks), al # <<>>
  PROVE  /\ Cardinality(ToConfirm(Tail(al))) <= Cardinality(ToConfirm(al))
         /\ Confirming(al[1]) =>
              Cardinality(ToConfirm(Tail(al))) <= Cardinality(ToConfirm(al)) - 1
<1> DEFINE S == ToConfirm(Tail(al))
           T == ToConfirm(al)
           f == [i \in S |-> i + 1]
<1>1. /\ Len(al) \in Nat \ {0} /\ Len(Tail(al)) = Len(al) - 1
      /\ \A i \in 1 .. Len(al) - 1 : Tail(al)[i] = al[i + 1]
  BY EmptySeq, HeadTailProperties
<1>2. \A i \in S : i \in Nat /\ i + 1 \in T /\ i + 1 # 1
  BY <1>1 DEF ToConfirm
<1>3. IsFiniteSet(T) /\ Cardinality(T) \in Nat
  BY ToConfirmFinite
<1>4. IsFiniteSet(T \ {1}) /\ Cardinality(T \ {1}) = IF 1 \in T THEN Cardinality(T) - 1 ELSE Cardinality(T)
  BY <1>3, FS_RemoveElement
<1> HIDE DEF S, T
<1>5. f \in [S -> T \ {1}] /\ \A x, y \in S : f[x] = f[y] => x = y
  BY <1>2
<1>6. Cardinality(S) <= Cardinality(T \ {1}) /\ IsFiniteSet(S)
  <2> HIDE DEF f
  <2> QED BY <1>4, <1>5, MapsInto
<1>7. Cardinality(S) \in Nat
  BY <1>6, FS_CardinalityType
<1>8. Confirming(al[1]) => 1 \in T
  BY <1>1 DEF T, ToConfirm
<1>9. /\ Cardinality(S) <= Cardinality(T)
      /\ 1 \in T => Cardinality(S) <= Cardinality(T) - 1
  BY <1>3, <1>4, <1>6, <1>7
<1> QED BY <1>8, <1>9, Zenon DEF S, T

\* Where the tasks behind an answer that was put into place i were.
CameFrom(k, i) == IF k - 1 < i THEN k - 1 ELSE k

LEMMA AnswerMovesOthers ==
  ASSUME NEW al \in Seq(Tasks), NEW l \in Links, NEW ident \in Idents, NEW cause \in Causes,
         NEW node \in Nodes, NEW i, i = Place(al, <<l, ident, cause>>, node),
         NEW new, new = app_task_insert_ack_asdu(al, l, ident, cause, node)
  PROVE  /\ \A k \in 2 .. Len(new) :
              CameFrom(k, i) \in 1 .. Len(al) /\ CameFrom(k, i) # i /\ new[k] = al[CameFrom(k, i)]
         /\ \A j, k \in 2 .. Len(new) : CameFrom(j, i) = CameFrom(k, i) => j = k
<1>1. /\ new \in Seq(Tasks) /\ i \in 1 .. Len(new)
      /\ i > Len(al) => Len(new) = Len(al) + 1
      /\ i <= Len(al) => Len(new) = Len(al)
      /\ \A j \in 1 .. Len(new) - 1 :
           /\ j < i => new[j + 1] = al[j]
           /\ j >= i => new[j + 1] = al[j + 1]
  BY AnswerIsFirst
<1>2. Len(al) \in Nat /\ Len(new) \in Nat /\ i \in Nat
  BY <1>1, LenProperties
<1>3. ASSUME NEW k \in 2 .. Len(new)
      PROVE  CameFrom(k, i) \in 1 .. Len(al) /\ CameFrom(k, i) # i /\ new[k] = al[CameFrom(k, i)]
  <2>1. PICK j : j = k - 1
    OBVIOUS
  <2>2. j \in 1 .. Len(new) - 1 /\ j + 1 = k /\ k \in Nat
    BY <1>2, <2>1
  <2>3. (j < i => new[k] = al[j]) /\ (j >= i => new[k] = al[k])
    BY <1>1, <2>2
  <2>4. CASE j < i
    <3>1. CameFrom(k, i) = j
      BY <2>1, <2>4 DEF CameFrom
    <3>2. j \in 1 .. Len(al) /\ j # i
      BY <1>1, <1>2, <2>2, <2>4
    <3> QED BY <2>3, <2>4, <3>1, <3>2
  <2>5. CASE ~(j < i)
    <3>1. CameFrom(k, i) = k
      BY <2>1, <2>5 DEF CameFrom
    <3>2. k \in 1 .. Len(al) /\ k # i /\ j >= i
      BY <1>1, <1>2, <2>2, <2>5
    <3> QED BY <2>3, <3>1, <3>2
  <2> QED BY <2>4, <2>5
<1>4. \A j, k \in 2 .. Len(new) : CameFrom(j, i) = CameFrom(k, i) => j = k
  BY <1>2 DEF CameFrom
<1> QED BY <1>3, <1>4

LEMMA ToConfirmAnswer ==
  ASSUME NEW al \in Seq(Tasks), NEW l \in Links, NEW ident \in Idents, NEW cause \in Causes,
         NEW node \in Nodes, NEW new, new = app_task_insert_ack_asdu(al, l, ident, cause, node)
  PROVE  /\ Cardinality(ToConfirm(new)) <= Cardinality(ToConfirm(al)) + 1
         /\ ~Confirming(new[1]) => Cardinality(ToConfirm(new)) <= Cardinality(ToConfirm(al))
<1>1. PICK i : i = Place(al, <<l, ident, cause>>, node)
  OBVIOUS
<1> DEFINE S == ToConfirm(new)
           R == S \ {1}
           T == ToConfirm(al)
           f == [k \in R |-> CameFrom(k, i)]
<1>2. new \in Seq(Tasks) /\ Len(new) \in Nat
  BY <1>1, AnswerIsFirst, LenProperties
<1>3. /\ \A k \in 2 .. Len(new) : CameFrom(k, i) \in 1 .. Len(al) /\ new[k] = al[CameFrom(k, i)]
      /\ \A j, k \in 2 .. Len(new) : CameFrom(j, i) = CameFrom(k, i) => j = k
  BY <1>1, AnswerMovesOthers
<1>4. \A k \in R : k \in 2 .. Len(new) /\ Confirming(new[k])
  BY <1>2 DEF ToConfirm
<1>5. \A k \in R : CameFrom(k, i) \in T
  BY <1>3, <1>4 DEF ToConfirm
<1>6. IsFiniteSet(T) /\ Cardinality(T) \in Nat /\ IsFiniteSet(S) /\ Cardinality(S) \in Nat
  BY <1>2, ToConfirmFinite
<1>7. Cardinality(R) = IF 1 \in S THEN Cardinality(S) - 1 ELSE Cardinality(S)
  BY <1>6, FS_RemoveElement
<1>8. 1 \in S => Confirming(new[1])
  BY DEF ToConfirm
<1> HIDE DEF S, T
<1>9. Cardinality(R) <= Cardinality(T)
  <2> HIDE DEF R
  <2>1. f \in [R -> T] /\ \A x, y \in R : f[x] = f[y] => x = y
    BY <1>3, <1>4, <1>5
  <2> HIDE DEF f
  <2> QED BY <1>6, <2>1, MapsInto
<1>10. /\ Cardinality(S) <= Cardinality(T) + 1
       /\ 1 \notin S => Cardinality(S) <= Cardinality(T)
  BY <1>6, <1>7, <1>9
<1> QED BY <1>8, <1>10, Zenon DEF S, T

LEMMA ToConfirmReported ==
  ASSUME NEW al \in Seq(Tasks), NEW l \in Links, NEW u \in Updates
  PROVE  Cardinality(ToConfirm(Registered(al, l, u))) <= Cardinality(ToConfirm(al))
<1>1. PICK i : i = Place(al, <<l, u.ident, u.cause>>, u.node)
  OBVIOUS
<1>2. PICK new : new = app_task_add_normal(al, l, u.ident, u.cause, u.node)
  OBVIOUS
<1>3. u.ident \in Idents /\ u.cause \in Causes /\ u.node \in Nodes /\ u.cause # "Actcon"
  BY DEF Updates, UpdateKinds
<1>4. /\ new \in Seq(Tasks) /\ i \in 1 .. Len(new)
      /\ i > Len(al) => Len(new) = Len(al) + 1
      /\ i <= Len(al) => Len(new) = Len(al)
      /\ \A j \in 1 .. Len(al) : j # i => new[j] = al[j]
      /\ Fits(new[i], <<l, u.ident, u.cause>>, u.node)
  BY <1>1, <1>2, <1>3, AddedAtPlace
<1>5. Len(al) \in Nat /\ Len(new) \in Nat /\ i \in Nat
  BY <1>4, LenProperties
<1>6. ~Confirming(new[i])
  BY <1>3, <1>4 DEF Fits, Name, Confirming
<1>7. \A j \in 1 .. Len(new) : j # i => j \in 1 .. Len(al) /\ new[j] = al[j]
  BY <1>4, <1>5
<1>8. ToConfirm(new) \in SUBSET ToConfirm(al)
  BY <1>6, <1>7 DEF ToConfirm
<1>9. Cardinality(ToConfirm(new)) <= Cardinality(ToConfirm(al))
  BY <1>8, ToConfirmFinite, FS_Subset
<1> QED BY <1>2, <1>9 DEF Registered

(* A command is answered as executed only when it was.                     *)
LEMMA ConfirmedIsExecuted ==
  ASSUME NEW a \in Commands, a.asdu_ident = C_DC_NA, a.SE = EXECUTE,
         app_linkframe_convert_to_asdu(a, Result(a)) = "Actcon"
  PROVE  Acts(a) /\ (Starts(a) \/ Pulses(a))
<1> DEFINE res == Result(a)
<1>1. ~IsSys(a)
  BY DEF IsSys, C_DC_NA
<1>2. IsCtrl(a) /\ a.cause = "Act" /\ CtrlCause(res) = "Actcon"
  <2>1. CASE IsCtrl(a) /\ a.cause = "Act"
    <3> HIDE DEF res
    <3> QED BY <1>1, <2>1 DEF app_linkframe_convert_to_asdu, res
  <2>2. CASE IsCtrl(a) /\ a.cause # "Act"
    <3>1. app_linkframe_convert_to_asdu(a, res) \in {"Deactcon", "Unknowreason"}
      BY <1>1, <2>2 DEF app_linkframe_convert_to_asdu
    <3> QED BY <3>1
  <2>3. CASE ~IsCtrl(a)
    <3>1. app_linkframe_convert_to_asdu(a, res) = "Defreason"
      BY <1>1, <2>3 DEF app_linkframe_convert_to_asdu
    <3> QED BY <3>1
  <2> QED BY <2>1, <2>2, <2>3
<1>3. res = "CMD_RES_OK"
  <2> HIDE DEF res
  <2> QED BY <1>2 DEF CtrlCause
<1>4. res = dc_node_ctrl_proc(a)
  BY <1>2 DEF Result, iec101_ctrl_cmd_callback
<1>5. dc_node_ctrl_proc(a) = "CMD_RES_OK"
  BY <1>3, <1>4
<1>6. a.SE # CHOOSING /\ SwitchAddr # BatteryAddr
  BY DEF CHOOSING, EXECUTE, SwitchAddr, BatteryAddr
<1>7. CASE a.addr = SwitchAddr
  <2>1. dc_node_ctrl_proc(a) = Outcome(swc_action(a.act))
    BY <1>6, <1>7 DEF dc_node_ctrl_proc
  <2>2. swc_action(a.act)
    BY <1>5, <2>1 DEF Outcome
  <2> QED BY <1>2, <1>7, <2>2 DEF Acts, Starts, Executed
<1>8. CASE a.addr = BatteryAddr
  <2>1. dc_node_ctrl_proc(a) = Outcome(ecact_action(a.act))
    BY <1>6, <1>8 DEF dc_node_ctrl_proc
  <2>2. ecact_action(a.act)
    BY <1>5, <2>1 DEF Outcome
  <2> QED BY <1>2, <1>8, <2>2 DEF Acts, Pulses, Executed
<1>9. CASE a.addr # SwitchAddr /\ a.addr # BatteryAddr
  <2>1. dc_node_ctrl_proc(a) = "CMD_RES_ERR_NODE"
    BY <1>9 DEF dc_node_ctrl_proc
  <2> QED BY <1>5, <2>1
<1> QED BY <1>7, <1>8, <1>9

IsSample(t) == t.asdu_ident = M_ME_NB /\ t.cause = "Spont"

(* As many confirmations wait as commands were executed and not confirmed, *)
(* or fewer; only measured values that changed wait in the second list.    *)
ConfirmInv ==
  /\ unconfirmed \in Int /\ Cardinality(ToConfirm(tasks["LEVEL_1"])) <= unconfirmed
  /\ \A i \in 1 .. Len(tasks["LEVEL_2"]) : IsSample(tasks["LEVEL_2"][i])

LEMMA ConfirmInit ==
  ASSUME Init
  PROVE  ConfirmInv
<1>1. tasks["LEVEL_1"] = <<>> /\ tasks["LEVEL_2"] = <<>> /\ unconfirmed = 0
  BY DEF Init, Levels
<1>2. Len(<<>>) = 0
  OBVIOUS
<1>3. ToConfirm(<<>>) = {}
  BY <1>2 DEF ToConfirm
<1> QED BY <1>1, <1>2, <1>3, FS_EmptySet DEF ConfirmInv

LEMMA AnswersConfirm ==
  ASSUME TasksTyped, ConfirmInv, NEW l \in Links, NEW a \in Commands, NEW res, Answers(l, a, res)
  PROVE  /\ tasks'["LEVEL_2"] = tasks["LEVEL_2"]
         /\ Cardinality(ToConfirm(tasks'["LEVEL_1"])) <= unconfirmed + 1
         /\ \/ Cardinality(ToConfirm(tasks'["LEVEL_1"])) <= unconfirmed
            \/ /\ a.asdu_ident = C_DC_NA /\ a.SE = EXECUTE
               /\ app_linkframe_convert_to_asdu(a, res) = "Actcon"
<1>1. PICK cause : cause = app_linkframe_convert_to_asdu(a, res)
  OBVIOUS
<1>2. PICK al : al = tasks["LEVEL_1"]
  OBVIOUS
<1>3. PICK new : new = app_task_insert_ack_asdu(al, l, a.asdu_ident, cause, AnswerNode(a))
  OBVIOUS
<1>4. PICK i : i = Place(al, <<l, a.asdu_ident, cause>>, AnswerNode(a))
  OBVIOUS
<1>5. al \in Seq(Tasks) /\ tasks \in [Levels -> Seq(Tasks)] /\ "LEVEL_1" \in Levels /\ "LEVEL_2" \in Levels
  BY <1>2 DEF TasksTyped, Levels
<1>6. cause \in Causes
  <2>1. AnswerCauses \subseteq Causes
    BY DEF AnswerCauses, Causes
  <2> QED BY <1>1, <2>1, AnswerCauseTyped
<1>7. tasks' = [tasks EXCEPT !["LEVEL_1"] = new]
  BY <1>1, <1>2, <1>3 DEF Answers, AnswerNode
<1>8. tasks'["LEVEL_1"] = new /\ tasks'["LEVEL_2"] = tasks["LEVEL_2"]
  BY <1>5, <1>7
<1>9. AnswerNode(a) \in Nodes /\ a.asdu_ident \in Idents
  BY AnswerNodeTyped
<1>10. /\ Cardinality(ToConfirm(new)) <= Cardinality(ToConfirm(al)) + 1
       /\ ~Confirming(new[1]) => Cardinality(ToConfirm(new)) <= Cardinality(ToConfirm(al))
  BY <1>3, <1>5, <1>6, <1>9, ToConfirmAnswer
<1>11. /\ new \in Seq(Tasks)
       /\ Fits(new[1], <<l, a.asdu_ident, cause>>, AnswerNode(a))
       /\ new[1].nodes[1].objects = AnswerNode(a).objects
  BY <1>3, <1>4, <1>5, <1>6, <1>9, AnswerIsFirst
<1>12. Confirming(new[1]) => a.asdu_ident = C_DC_NA /\ a.SE = EXECUTE /\ cause = "Actcon"
  BY <1>11 DEF Confirming, Fits, Name, AnswerNode, Object
<1>13. /\ Cardinality(ToConfirm(al)) \in Nat /\ Cardinality(ToConfirm(new)) \in Nat
       /\ unconfirmed \in Int /\ Cardinality(ToConfirm(al)) <= unconfirmed
  BY <1>2, <1>5, <1>11, ToConfirmFinite DEF ConfirmInv
<1>14. Cardinality(ToConfirm(new)) <= unconfirmed + 1
  BY <1>10, <1>13
<1>15. ~Confirming(new[1]) => Cardinality(ToConfirm(new)) <= unconfirmed
  BY <1>10, <1>13
<1> QED BY <1>1, <1>8, <1>12, <1>14, <1>15, Zenon

LEMMA RequestConfirms ==
  ASSUME OneLink, StationInv, ConfirmInv, AppRequest
  PROVE  ConfirmInv'
<1>1. PICK l : Links = {l}
  BY DEF OneLink
<1>2. TasksTyped /\ MailTyped
  BY DEF StationInv
<1>3. PICK lvl \in Levels :
        \/ tasks[lvl] = <<>> /\ UNCHANGED <<tasks, image, call, awaited, unconfirmed>>
        \/ /\ tasks[lvl] # <<>> /\ tasks' = [tasks EXCEPT ![lvl] = Tail(@)]
           /\ \E single \in Garbage :
                HandsOut(app_task_covert_to_asdu_frame(tasks[lvl][1], single))
  BY <1>1, <1>2, RequestDoes
<1>4. ASSUME UNCHANGED <<tasks, unconfirmed>> PROVE ConfirmInv'
  BY <1>4 DEF ConfirmInv
<1>5. CASE /\ tasks[lvl] # <<>> /\ tasks' = [tasks EXCEPT ![lvl] = Tail(@)]
           /\ \E single \in Garbage :
                HandsOut(app_task_covert_to_asdu_frame(tasks[lvl][1], single))
  <2>1. PICK single \in Garbage : HandsOut(Frame(tasks[lvl][1], single))
    BY <1>5 DEF Frame
  <2>2. PICK f : f = Frame(tasks[lvl][1], single)
    OBVIOUS
  <2>3. PICK al : al = tasks[lvl]
    OBVIOUS
  <2>4. al \in Seq(Tasks) /\ al # <<>> /\ al[1] \in Tasks /\ Len(al) \in Nat \ {0}
    <3>1. al \in Seq(Tasks) /\ al # <<>>
      BY <1>2, <1>5, <2>3 DEF TasksTyped
    <3>2. Len(al) \in Nat \ {0}
      BY <3>1, EmptySeq
    <3> QED BY <3>1, <3>2, ElementOfSeq
  <2>5. /\ Confirms(f) => unconfirmed' = unconfirmed - 1
        /\ ~Confirms(f) => unconfirmed' = unconfirmed
    BY <2>1, <2>2 DEF HandsOut
  <2>6. f.ident = al[1].asdu_ident /\ f.cause = al[1].cause /\ f.objects = al[1].nodes[1].objects
    BY <2>2, <2>3, <2>4, FrameOfTask
  <2>7. Confirms(f) => Confirming(al[1])
    BY <2>6 DEF Confirms, Confirming
  <2>8. /\ tasks'[lvl] = Tail(al) /\ Len(Tail(al)) = Len(al) - 1
        /\ \A i \in 1 .. Len(al) - 1 : Tail(al)[i] = al[i + 1]
        /\ \A k \in Levels : k # lvl => tasks'[k] = tasks[k]
    <3>1. \A i \in 1 .. Len(Tail(al)) : Tail(al)[i] = al[i + 1]
      BY <2>4, HeadTailProperties
    <3>2. Len(Tail(al)) = Len(al) - 1
      BY <2>4, HeadTailProperties
    <3> QED BY <1>2, <1>5, <2>3, <3>1, <3>2 DEF TasksTyped
  <2>9. unconfirmed \in Int /\ unconfirmed' \in Int
    BY <2>5 DEF ConfirmInv
  <2>10. CASE lvl = "LEVEL_1"
    <3>1. Cardinality(ToConfirm(al)) \in Nat /\ Cardinality(ToConfirm(al)) <= unconfirmed
      BY <2>3, <2>4, <2>10, ToConfirmFinite DEF ConfirmInv
    <3>2. Tail(al) \in Seq(Tasks)
      BY <2>4, HeadTailProperties
    <3>3. Cardinality(ToConfirm(Tail(al))) \in Nat
      BY <3>2, ToConfirmFinite
    <3>4. /\ Cardinality(ToConfirm(Tail(al))) <= Cardinality(ToConfirm(al))
          /\ Confirming(al[1]) =>
               Cardinality(ToConfirm(Tail(al))) <= Cardinality(ToConfirm(al)) - 1
      BY <2>4, ToConfirmTail
    <3>5. tasks'["LEVEL_1"] = Tail(al) /\ tasks'["LEVEL_2"] = tasks["LEVEL_2"]
      BY <2>8, <2>10 DEF Levels
    <3>6. CASE Confirms(f)
      <4>1. /\ Cardinality(ToConfirm(Tail(al))) <= Cardinality(ToConfirm(al)) - 1
            /\ unconfirmed' = unconfirmed - 1
        BY <2>5, <2>7, <3>4, <3>6
      <4>2. Cardinality(ToConfirm(Tail(al))) <= unconfirmed'
        BY <2>9, <3>1, <3>3, <4>1
      <4> QED BY <2>9, <3>5, <4>2 DEF ConfirmInv
    <3>7. CASE ~Confirms(f)
      <4>1. unconfirmed' = unconfirmed
        BY <2>5, <3>7
      <4>2. Cardinality(ToConfirm(Tail(al))) <= unconfirmed'
        BY <2>9, <3>1, <3>3, <3>4, <4>1
      <4> QED BY <2>9, <3>5, <4>2 DEF ConfirmInv
    <3> QED BY <3>6, <3>7
  <2>11. CASE lvl = "LEVEL_2"
    <3>1. \A i \in 1 .. Len(al) : IsSample(al[i])
      BY <2>3, <2>11 DEF ConfirmInv
    <3>2. ~Confirming(al[1])
      BY <2>4, <3>1 DEF Confirming, IsSample
    <3>3. unconfirmed' = unconfirmed
      BY <2>5, <2>7, <3>2
    <3>4. \A i \in 1 .. Len(Tail(al)) : IsSample(Tail(al)[i])
      BY <2>4, <2>8, <3>1
    <3>5. tasks'["LEVEL_1"] = tasks["LEVEL_1"]
      BY <2>8, <2>11 DEF Levels
    <3> QED BY <2>8, <2>11, <3>3, <3>4, <3>5 DEF ConfirmInv
  <2> QED BY <2>10, <2>11 DEF Levels
<1> QED BY <1>3, <1>4, <1>5

LEMMA CommandConfirms ==
  ASSUME StationInv, ConfirmInv, AppCommand
  PROVE  ConfirmInv'
<1> DEFINE e == Head(app_event)
<1>1. PICK l : l = e.msg.sender
  OBVIOUS
<1>2. PICK a : a = e.msg.asdu
  OBVIOUS
<1>3. l \in Links /\ a \in Commands /\ TasksTyped
  BY <1>1, <1>2, CommandDoes DEF StationInv
<1>4. \/ UNCHANGED <<tasks, unconfirmed>>
      \/ /\ Acts(a) /\ ~Pulses(a) /\ Answers(l, a, Result(a))
         /\ unconfirmed' = IF Starts(a) THEN unconfirmed + 1 ELSE unconfirmed
      \/ ~Acts(a) /\ Answers(l, a, "CMD_RES_FAIL") /\ unconfirmed' = unconfirmed
  BY <1>1, <1>2, Zenon DEF AppCommand
<1>5. CASE UNCHANGED <<tasks, unconfirmed>>
  BY <1>5 DEF ConfirmInv
<1>6. unconfirmed \in Int
  BY DEF ConfirmInv
<1>7. ASSUME NEW res, Answers(l, a, res)
      PROVE  /\ tasks'["LEVEL_2"] = tasks["LEVEL_2"]
             /\ Cardinality(ToConfirm(tasks'["LEVEL_1"])) \in Nat
    <2>1. tasks'["LEVEL_2"] = tasks["LEVEL_2"]
      BY <1>3, <1>7, AnswersConfirm
    <2>2. tasks' \in [Levels -> Seq(Tasks)]
      BY <1>3, <1>7, AnswersTyped DEF TasksTyped
    <2>3. tasks'["LEVEL_1"] \in Seq(Tasks)
      BY <2>2 DEF Levels
    <2> QED BY <2>1, <2>3, ToConfirmFinite
<1>8. CASE /\ Acts(a) /\ ~Pulses(a) /\ Answers(l, a, Result(a))
           /\ unconfirmed' = IF Starts(a) THEN unconfirmed + 1 ELSE unconfirmed
  <2>1. CASE Starts(a)
    <3>1. unconfirmed' = unconfirmed + 1
      BY <1>8, <2>1
    <3>2. Cardinality(ToConfirm(tasks'["LEVEL_1"])) <= unconfirmed + 1
      BY <1>3, <1>8, AnswersConfirm
    <3> QED BY <1>6, <1>7, <1>8, <3>1, <3>2 DEF ConfirmInv
  <2>2. CASE ~Starts(a)
    <3>1. unconfirmed' = unconfirmed
      BY <1>8, <2>2
    <3>2. Cardinality(ToConfirm(tasks'["LEVEL_1"])) <= unconfirmed
      BY <1>3, <1>8, <2>2, AnswersConfirm, ConfirmedIsExecuted
    <3> QED BY <1>6, <1>7, <1>8, <3>1, <3>2 DEF ConfirmInv
  <2> QED BY <2>1, <2>2
<1>9. CASE ~Acts(a) /\ Answers(l, a, "CMD_RES_FAIL") /\ unconfirmed' = unconfirmed
  <2>1. Result(a) = "CMD_RES_FAIL"
    BY <1>9 DEF Acts, Result
  <2>2. Cardinality(ToConfirm(tasks'["LEVEL_1"])) <= unconfirmed
    BY <1>3, <1>9, <2>1, AnswersConfirm, ConfirmedIsExecuted
  <2> QED BY <1>6, <1>7, <1>9, <2>2 DEF ConfirmInv
<1> QED BY <1>4, <1>5, <1>8, <1>9

LEMMA PulseConfirms ==
  ASSUME StationInv, ConfirmInv, PulseEnds
  PROVE  ConfirmInv'
<1>1. PICK l \in Links, a \in Commands : pulse = <<[sender |-> l, asdu |-> a]>>
  BY DEF StationInv, PulseTyped, PulseEnds
<1>2. pulse[1].sender = l /\ pulse[1].asdu = a
  BY <1>1
<1>3. Answers(l, a, "CMD_RES_OK") /\ unconfirmed' = unconfirmed + 1
  BY <1>2 DEF PulseEnds
<1>4. /\ tasks'["LEVEL_2"] = tasks["LEVEL_2"]
      /\ Cardinality(ToConfirm(tasks'["LEVEL_1"])) <= unconfirmed + 1
  BY <1>3, AnswersConfirm DEF StationInv
<1> QED BY <1>3, <1>4 DEF ConfirmInv

LEMMA UpdateConfirms ==
  ASSUME OneLink, StationInv, ConfirmInv, AppUpdate
  PROVE  ConfirmInv'
<1>1. PICK l : Links = {l}
  BY DEF OneLink
<1>2. TasksTyped /\ MailTyped /\ unconfirmed' = unconfirmed
  BY DEF StationInv, AppUpdate
<1>3. PICK u \in Updates :
        \/ tasks' = tasks
        \/ tasks' = [tasks EXCEPT ![u.level] = Registered(@, l, u)]
  BY <1>1, <1>2, UpdateDoes
<1>4. CASE tasks' = tasks
  BY <1>2, <1>4 DEF ConfirmInv
<1>5. CASE tasks' = [tasks EXCEPT ![u.level] = Registered(@, l, u)]
  <2>1. PICK al : al = tasks[u.level]
    OBVIOUS
  <2>2. u.level \in Levels /\ al \in Seq(Tasks)
    BY <1>2, <2>1 DEF Updates, TasksTyped
  <2>3. PICK new : new = Registered(al, l, u)
    OBVIOUS
  <2>4. tasks'[u.level] = new /\ \A k \in Levels : k # u.level => tasks'[k] = tasks[k]
    BY <1>2, <1>5, <2>1, <2>2, <2>3 DEF TasksTyped
  <2>5. l \in Links
    BY <1>1
  <2>6. CASE u.level = "LEVEL_1"
    <3>1. new \in Seq(Tasks)
      BY <2>2, <2>3, <2>5, RegisteredTyped
    <3>2. Cardinality(ToConfirm(new)) <= Cardinality(ToConfirm(al))
      BY <2>2, <2>3, <2>5, ToConfirmReported
    <3>3. Cardinality(ToConfirm(new)) \in Nat /\ Cardinality(ToConfirm(al)) \in Nat
      BY <2>2, <3>1, ToConfirmFinite
    <3>4. tasks'["LEVEL_1"] = new /\ tasks'["LEVEL_2"] = tasks["LEVEL_2"]
      BY <2>4, <2>6 DEF Levels
    <3> QED BY <1>2, <2>1, <2>6, <3>2, <3>3, <3>4 DEF ConfirmInv
  <2>7. CASE u.level = "LEVEL_2"
    <3>1. /\ u.ident \in Idents /\ u.cause \in Causes /\ u.node \in Nodes
          /\ u.ident = M_ME_NB /\ u.cause = "Spont"
      BY <2>7 DEF Updates, UpdateKinds
    <3>2. PICK i : i = Place(al, <<l, u.ident, u.cause>>, u.node)
      OBVIOUS
    <3>3. new = app_task_add_normal(al, l, u.ident, u.cause, u.node)
      BY <2>3 DEF Registered
    <3>4. /\ new \in Seq(Tasks) /\ i \in 1 .. Len(new)
          /\ i > Len(al) => Len(new) = Len(al) + 1
          /\ i <= Len(al) => Len(new) = Len(al)
          /\ \A j \in 1 .. Len(al) : j # i => new[j] = al[j]
          /\ Fits(new[i], <<l, u.ident, u.cause>>, u.node)
      BY <2>2, <2>5, <3>1, <3>2, <3>3, AddedAtPlace
    <3>5. IsSample(new[i])
      BY <3>1, <3>4 DEF Fits, Name, IsSample
    <3>6. \A j \in 1 .. Len(al) : IsSample(al[j])
      BY <2>1, <2>7 DEF ConfirmInv
    <3>7. Len(al) \in Nat /\ Len(new) \in Nat /\ i \in Nat
      BY <2>2, <3>4, LenProperties
    <3>8. \A j \in 1 .. Len(new) : j # i => j \in 1 .. Len(al) /\ new[j] = al[j]
      BY <3>4, <3>7
    <3>9. \A j \in 1 .. Len(new) : IsSample(new[j])
      BY <3>5, <3>6, <3>8
    <3>10. tasks'["LEVEL_2"] = new /\ tasks'["LEVEL_1"] = tasks["LEVEL_1"]
      BY <2>4, <2>7 DEF Levels
    <3> QED BY <1>2, <3>9, <3>10 DEF ConfirmInv
  <2> QED BY <2>2, <2>6, <2>7 DEF Levels
<1> QED BY <1>3, <1>4, <1>5

LEMMA ConfirmStep ==
  ASSUME OneLink, StationInv, ConfirmInv, [Next]_vars
  PROVE  ConfirmInv'
<1>1. ASSUME UNCHANGED <<tasks, unconfirmed>> PROVE ConfirmInv'
  BY <1>1 DEF ConfirmInv
<1>2. ASSUME AppThread PROVE ConfirmInv'
  BY <1>2, RequestConfirms, CommandConfirms, PulseConfirms, UpdateConfirms DEF AppThread
<1>3. ASSUME DeviceStep PROVE UNCHANGED <<tasks, unconfirmed>>
  BY <1>3 DEF DeviceStep, Sample, Measure, SignalChanges, SwitchMoves, historyVars, taskVars
<1>4. ASSUME LinkStep PROVE UNCHANGED <<tasks, unconfirmed>>
  BY <1>4 DEF LinkStep, LinkReset, LinkAsks, LinkHandsOver, historyVars, taskVars
<1>5. ASSUME UNCHANGED vars PROVE UNCHANGED <<tasks, unconfirmed>>
  BY <1>5 DEF vars, taskVars, historyVars
<1> QED BY <1>1, <1>2, <1>3, <1>4, <1>5 DEF Next

(* With one link no execution is confirmed that was not carried out: among *)
(* the answers that wait there are never more confirmations of executed    *)
(* commands than commands the device executed and nobody confirmed yet,    *)
(* although answers that wait are merged and commands are refused.         *)
THEOREM ExecutedIsConfirmed == OneLink => (Spec => []NoFalseConfirm)
<1> SUFFICES ASSUME OneLink PROVE Spec => []NoFalseConfirm
  OBVIOUS
<1>1. Init => StationInv /\ ConfirmInv
  BY StationInit, ConfirmInit
<1>2. StationInv /\ ConfirmInv /\ [Next]_vars => StationInv' /\ ConfirmInv'
  BY StationStep, ConfirmStep
<1>3. StationInv /\ ConfirmInv => NoFalseConfirm
  <2> SUFFICES ASSUME StationInv, ConfirmInv PROVE NoFalseConfirm
    OBVIOUS
  <2>1. tasks["LEVEL_1"] \in Seq(Tasks)
    BY DEF StationInv, TasksTyped, Levels
  <2>2. Cardinality(ToConfirm(tasks["LEVEL_1"])) \in Nat
    BY <2>1, ToConfirmFinite
  <2> QED BY <2>2 DEF ConfirmInv, NoFalseConfirm
<1> QED BY <1>1, <1>2, <1>3, PTL DEF Spec

-----------------------------------------------------------------------------
(* The answers that wait are the first tasks of the link, newest first.    *)
LEMMA RemoveFirstOfNone ==
  ASSUME NEW w, NEW x, \A i \in 1 .. Len(w) : w[i] # x
  PROVE  RemoveFirst(w, x) = w
BY DEF RemoveFirst

LEMMA RemoveFirstOfOne ==
  ASSUME NEW w, Len(w) \in Nat, NEW x, NEW i \in 1 .. Len(w), w[i] = x,
         \A j \in 1 .. Len(w) : w[j] = x => j = i
  PROVE  RemoveFirst(w, x) = RemoveAt(w, i)
<1> DEFINE I == {j \in 1 .. Len(w) : w[j] = x}
<1>1. I = {i}
  OBVIOUS
<1>2. Min({i}) = i
  <2>1. {i} \subseteq Nat /\ {i} # {}
    OBVIOUS
  <2> QED BY <2>1, MinIsLeast
<1>3. SelectInSeq(w, LAMBDA v : v = x) = IF I # {} THEN Min(I) ELSE 0
  BY Zenon DEF SelectInSeq
<1>4. (IF I # {} THEN Min(I) ELSE 0) = i
  <2> HIDE DEF I
  <2> QED BY <1>1, <1>2
<1>5. SelectInSeq(w, LAMBDA v : v = x) = i
  BY <1>3, <1>4, Zenon
<1>6. \E j \in 1 .. Len(w) : w[j] = x
  OBVIOUS
<1> QED BY <1>5, <1>6, Zenon DEF RemoveFirst

Key(t) == <<t.asdu_ident, t.cause, t.nodes[1].addr>>
Keys   == Idents \X Causes \X Nat

Distinct(al) == \A i, j \in 1 .. Len(al) : Key(al[i]) = Key(al[j]) => i = j

Answered(w, al) ==
  /\ Len(w) <= Len(al)
  /\ \A j \in 1 .. Len(w) : w[j] = Key(al[j]) /\ al[j].cause \in AnswerCauses

LEMMA FitsByKey ==
  ASSUME NEW l, Links = {l}, NEW t \in Tasks, NEW ident, NEW cause, NEW node
  PROVE  /\ Fits(t, <<l, ident, cause>>, node) => Key(t) = <<ident, cause, node.addr>>
         /\ Key(t) = <<ident, cause, node.addr>> => Fits(t, <<l, ident, cause>>, node)
<1>1. t.link_id = l
  BY DEF Tasks
<1> QED BY <1>1 DEF Fits, Name, Key

LEMMA KeyTyped ==
  ASSUME NEW t \in Tasks
  PROVE  Key(t) \in Keys
<1>1. t.nodes[1] \in Nodes
  BY OneNode
<1>2. t.nodes[1].addr \in Nat
  BY <1>1 DEF Nodes
<1>3. t.asdu_ident \in Idents /\ t.cause \in Causes
  BY DEF Tasks
<1> QED BY <1>2, <1>3 DEF Key, Keys

\* The answer that is handed out first is the first that is awaited.
LEMMA FirstIsAnswered ==
  ASSUME NEW al \in Seq(Tasks), al # <<>>, Distinct(al), NEW w \in Seq(Keys), Answered(w, al)
  PROVE  /\ w # <<>> => RemoveFirst(w, Key(al[1])) = Tail(w)
         /\ RemoveFirst(w, Key(al[1])) \in Seq(Keys)
         /\ Answered(RemoveFirst(w, Key(al[1])), Tail(al)) /\ Distinct(Tail(al))
<1>1. /\ Len(al) \in Nat \ {0} /\ Len(Tail(al)) = Len(al) - 1
      /\ \A i \in 1 .. Len(al) - 1 : Tail(al)[i] = al[i + 1]
  BY EmptySeq, HeadTailProperties
<1>2. Distinct(Tail(al))
  <2> SUFFICES ASSUME NEW i \in 1 .. Len(Tail(al)), NEW j \in 1 .. Len(Tail(al)),
                      Key(Tail(al)[i]) = Key(Tail(al)[j])
               PROVE  i = j
    BY DEF Distinct
  <2>1. /\ i + 1 \in 1 .. Len(al) /\ j + 1 \in 1 .. Len(al) /\ i \in Nat /\ j \in Nat
        /\ Tail(al)[i] = al[i + 1] /\ Tail(al)[j] = al[j + 1]
    BY <1>1
  <2>2. i + 1 = j + 1
    BY <2>1 DEF Distinct
  <2> QED BY <2>1, <2>2
<1>3. CASE w = <<>>
  <2>1. Len(w) = 0
    BY <1>3
  <2>2. RemoveFirst(w, Key(al[1])) = w
    BY <2>1, RemoveFirstOfNone
  <2>3. Answered(w, Tail(al))
    <3>1. Len(w) <= Len(Tail(al)) /\ 1 .. Len(w) = {}
      BY <1>1, <2>1
    <3> QED BY <3>1 DEF Answered
  <2> QED BY <1>2, <1>3, <2>2, <2>3
<1>4. CASE w # <<>>
  <2>1. /\ Len(w) \in Nat \ {0} /\ Tail(w) \in Seq(Keys) /\ Len(Tail(w)) = Len(w) - 1
        /\ \A i \in 1 .. Len(w) - 1 : Tail(w)[i] = w[i + 1]
    BY <1>4, EmptySeq, HeadTailProperties
  <2>2. Len(w) <= Len(al) /\ \A j \in 1 .. Len(w) : w[j] = Key(al[j]) /\ al[j].cause \in AnswerCauses
    BY DEF Answered
  <2>3. 1 \in 1 .. Len(w) /\ w[1] = Key(al[1])
    BY <2>1, <2>2
  <2>4. \A j \in 1 .. Len(w) : w[j] = Key(al[1]) => j = 1
    <3>1. \A j \in 1 .. Len(w) : j \in 1 .. Len(al) /\ 1 \in 1 .. Len(al)
      BY <1>1, <2>1, <2>2
    <3> QED BY <2>2, <3>1 DEF Distinct
  <2>5. RemoveFirst(w, Key(al[1])) = RemoveAt(w, 1)
    BY <2>1, <2>3, <2>4, RemoveFirstOfOne
  <2>6. RemoveAt(w, 1) = Tail(w)
    <3>1. /\ RemoveAt(w, 1) \in Seq(Keys) /\ Len(RemoveAt(w, 1)) = Len(w) - 1
          /\ \A j \in 1 .. Len(w) - 1 : j >= 1 => RemoveAt(w, 1)[j] = w[j + 1]
      BY <2>3, RemoveIndex
    <3>2. \A j \in 1 .. Len(w) - 1 : RemoveAt(w, 1)[j] = Tail(w)[j]
      BY <2>1, <3>1
    <3> QED BY <2>1, <3>1, <3>2, SeqEqual
  <2>7. Answered(Tail(w), Tail(al))
    <3>1. Len(Tail(w)) <= Len(Tail(al))
      BY <1>1, <2>1, <2>2
    <3>2. ASSUME NEW j \in 1 .. Len(Tail(w))
          PROVE  Tail(w)[j] = Key(Tail(al)[j]) /\ Tail(al)[j].cause \in AnswerCauses
      <4>1. /\ j + 1 \in 1 .. Len(w) /\ Tail(w)[j] = w[j + 1] /\ Tail(al)[j] = al[j + 1]
        BY <1>1, <2>1, <2>2
      <4> QED BY <2>2, <4>1
    <3> QED BY <3>1, <3>2 DEF Answered
  <2> QED BY <1>2, <2>1, <2>5, <2>6, <2>7
<1> QED BY <1>3, <1>4

\* A report neither overtakes an answer that waits nor has its key twice.
LEMMA ReportedBehind ==
  ASSUME NEW l, Links = {l}, NEW al \in Seq(Tasks), Distinct(al), NEW u \in Updates,
         NEW new, new = Registered(al, l, u)
  PROVE  /\ Distinct(new)
         /\ \A w \in Seq(Keys) : Answered(w, al) => Answered(w, new)
<1>1. PICK i : i = Place(al, <<l, u.ident, u.cause>>, u.node)
  OBVIOUS
<1>2. /\ u.ident \in Idents /\ u.cause \in Causes /\ u.node \in Nodes /\ l \in Links
      /\ new = app_task_add_normal(al, l, u.ident, u.cause, u.node)
  BY DEF Updates, Registered
<1>3. /\ new \in Seq(Tasks) /\ i \in 1 .. Len(new)
      /\ i > Len(al) => Len(new) = Len(al) + 1
      /\ i <= Len(al) => Len(new) = Len(al)
      /\ \A j \in 1 .. Len(al) : j # i => new[j] = al[j]
      /\ Fits(new[i], <<l, u.ident, u.cause>>, u.node)
  BY <1>1, <1>2, AddedAtPlace
<1>4. /\ i <= Len(al) => Fits(al[i], <<l, u.ident, u.cause>>, u.node)
      /\ \A j \in 1 .. Len(al) : j < i => ~Fits(al[j], <<l, u.ident, u.cause>>, u.node)
  BY <1>1, <1>2, PlaceIsFirst
<1>5. /\ Len(al) \in Nat /\ Len(new) \in Nat /\ i \in Nat
      /\ \A j \in 1 .. Len(al) : al[j] \in Tasks
      /\ \A j \in 1 .. Len(new) : new[j] \in Tasks
  BY <1>3, LenProperties, ElementOfSeq
<1> DEFINE k == <<u.ident, u.cause, u.node.addr>>
<1>6. Key(new[i]) = k
  BY <1>3, <1>5, FitsByKey
<1>7. /\ i <= Len(al) => Key(al[i]) = k
      /\ \A j \in 1 .. Len(al) : j < i => Key(al[j]) # k
  <2>1. ASSUME i <= Len(al) PROVE Key(al[i]) = k
    <3>1. al[i] \in Tasks /\ Fits(al[i], <<l, u.ident, u.cause>>, u.node)
      BY <1>3, <1>4, <1>5, <2>1
    <3> QED BY <3>1, FitsByKey
  <2>2. ASSUME NEW j \in 1 .. Len(al), j < i PROVE Key(al[j]) # k
    <3>1. al[j] \in Tasks /\ ~Fits(al[j], <<l, u.ident, u.cause>>, u.node)
      BY <1>4, <1>5, <2>2
    <3> QED BY <3>1, FitsByKey
  <2> QED BY <2>1, <2>2
<1> HIDE DEF k
<1>8. \A j \in 1 .. Len(al) : Key(new[j]) = Key(al[j])
  BY <1>3, <1>5, <1>6, <1>7
<1>9. \A j \in 1 .. Len(new) : j # i => j \in 1 .. Len(al)
  BY <1>3, <1>5
<1>10. \A j \in 1 .. Len(new) : Key(new[j]) = k => j = i
  <2> SUFFICES ASSUME NEW j \in 1 .. Len(new), Key(new[j]) = k, j # i PROVE FALSE
    OBVIOUS
  <2>1. j \in 1 .. Len(al) /\ Key(al[j]) = k
    BY <1>8, <1>9
  <2>2. ~(j < i)
    BY <1>7, <2>1
  <2>3. i \in 1 .. Len(al)
    BY <1>3, <1>5, <2>1, <2>2
  <2> QED BY <1>7, <2>1, <2>3, <1>5 DEF Distinct
<1>11. Distinct(new)
  <2> SUFFICES ASSUME NEW j \in 1 .. Len(new), NEW m \in 1 .. Len(new), Key(new[j]) = Key(new[m])
               PROVE  j = m
    BY DEF Distinct
  <2>1. CASE j = i \/ m = i
    BY <1>6, <1>10, <2>1
  <2>2. CASE j # i /\ m # i
    BY <1>8, <1>9, <2>2 DEF Distinct
  <2> QED BY <2>1, <2>2
<1>12. ASSUME NEW w \in Seq(Keys), Answered(w, al) PROVE Answered(w, new)
  <2>1. Len(w) \in Nat /\ Len(w) <= Len(new)
    BY <1>3, <1>5, <1>12, LenProperties DEF Answered
  <2>2. ASSUME NEW j \in 1 .. Len(w)
        PROVE  w[j] = Key(new[j]) /\ new[j].cause \in AnswerCauses
    <3>1. j \in 1 .. Len(al) /\ w[j] = Key(al[j]) /\ al[j].cause \in AnswerCauses
      BY <1>5, <1>12, <2>1 DEF Answered
    <3>2. Key(new[j]) = Key(al[j])
      BY <1>8, <3>1
    <3>3. new[j].cause = al[j].cause
      BY <3>2 DEF Key
    <3> QED BY <3>1, <3>2, <3>3
  <2> QED BY <2>1, <2>2 DEF Answered
<1> QED BY <1>11, <1>12

\* An answer that is inserted is the first awaited, and its key is no other's.
LEMMA InsertedInFront ==
  ASSUME NEW l, Links = {l}, NEW al \in Seq(Tasks), Distinct(al),
         NEW w \in Seq(Keys), Answered(w, al),
         NEW ident \in Idents, NEW cause \in AnswerCauses, NEW node \in Nodes,
         NEW key, key = <<ident, cause, node.addr>>,
         NEW new, new = app_task_insert_ack_asdu(al, l, ident, cause, node)
  PROVE  /\ Distinct(new)
         /\ <<key>> \o RemoveFirst(w, key) \in Seq(Keys)
         /\ Answered(<<key>> \o RemoveFirst(w, key), new)
<1>1. PICK i : i = Place(al, <<l, ident, cause>>, node)
  OBVIOUS
<1>2. cause \in Causes /\ l \in Links /\ key \in Keys
  <2>1. AnswerCauses \subseteq Causes
    BY DEF AnswerCauses, Causes
  <2>2. node.addr \in Nat
    BY DEF Nodes
  <2> QED BY <2>1, <2>2 DEF Keys
<1>3. /\ new \in Seq(Tasks) /\ 1 \in 1 .. Len(new) /\ i \in 1 .. Len(new)
      /\ i > Len(al) => Len(new) = Len(al) + 1
      /\ i <= Len(al) => Len(new) = Len(al)
      /\ \A j \in 1 .. Len(new) - 1 :
           /\ j < i => new[j + 1] = al[j]
           /\ j >= i => new[j + 1] = al[j + 1]
      /\ Fits(new[1], <<l, ident, cause>>, node)
  BY <1>1, <1>2, AnswerIsFirst
<1>4. /\ \A k \in 2 .. Len(new) :
           CameFrom(k, i) \in 1 .. Len(al) /\ CameFrom(k, i) # i /\ new[k] = al[CameFrom(k, i)]
      /\ \A j, k \in 2 .. Len(new) : CameFrom(j, i) = CameFrom(k, i) => j = k
  <2>1. \A k \in 2 .. Len(new) :
          CameFrom(k, i) \in 1 .. Len(al) /\ CameFrom(k, i) # i /\ new[k] = al[CameFrom(k, i)]
    BY <1>1, <1>2, AnswerMovesOthers
  <2>2. \A j, k \in 2 .. Len(new) : CameFrom(j, i) = CameFrom(k, i) => j = k
    BY <1>1, <1>2, AnswerMovesOthers
  <2> QED BY <2>1, <2>2
<1>5. /\ Len(al) \in Nat /\ Len(new) \in Nat /\ i \in Nat \ {0} /\ Len(w) \in Nat
      /\ \A j \in 1 .. Len(al) : al[j] \in Tasks
      /\ \A j \in 1 .. Len(new) : new[j] \in Tasks
  BY <1>3, LenProperties, ElementOfSeq
<1>6. Key(new[1]) = key
  <2>1. new[1] \in Tasks /\ Fits(new[1], <<l, ident, cause>>, node)
    BY <1>3, <1>5
  <2>2. Key(new[1]) = <<ident, cause, node.addr>>
    BY <2>1 DEF Fits, Name, Key
  <2> QED BY <2>2
<1>7. i \in 1 .. Len(al) => Key(al[i]) = key
  <2> SUFFICES ASSUME i \in 1 .. Len(al) PROVE Key(al[i]) = key
    OBVIOUS
  <2>1. al[i] \in Tasks /\ i <= Len(al)
    BY <1>5
  <2>2. Fits(al[i], <<l, ident, cause>>, node)
    BY <1>1, <2>1, PlaceIsFirst
  <2>3. Key(al[i]) = <<ident, cause, node.addr>>
    BY <2>2 DEF Fits, Name, Key
  <2> QED BY <2>3
<1>8. \A j \in 1 .. Len(al) : Key(al[j]) = key => j = i
  <2> SUFFICES ASSUME NEW j \in 1 .. Len(al), Key(al[j]) = key PROVE j = i
    OBVIOUS
  <2>1. Fits(al[j], <<l, ident, cause>>, node)
    BY <1>5, FitsByKey
  <2>2. ~(j < i)
    BY <1>1, <2>1, PlaceIsFirst
  <2>3. i \in 1 .. Len(al)
    BY <1>5, <2>2
  <2> QED BY <1>7, <2>3 DEF Distinct
<1>9. \A k \in 2 .. Len(new) : Key(new[k]) # key
  BY <1>4, <1>8
<1>10. Distinct(new)
  <2> SUFFICES ASSUME NEW j \in 1 .. Len(new), NEW k \in 1 .. Len(new), Key(new[j]) = Key(new[k])
               PROVE  j = k
    BY DEF Distinct
  <2>1. CASE j = 1 \/ k = 1
    <3>1. \A m \in 1 .. Len(new) : m = 1 \/ m \in 2 .. Len(new)
      BY <1>5
    <3> QED BY <1>6, <1>9, <2>1, <3>1
  <2>2. CASE j # 1 /\ k # 1
    <3>1. j \in 2 .. Len(new) /\ k \in 2 .. Len(new)
      BY <1>5, <2>2
    <3>2. CameFrom(j, i) = CameFrom(k, i)
      BY <1>4, <3>1 DEF Distinct
    <3> QED BY <1>4, <3>1, <3>2
  <2> QED BY <2>1, <2>2
<1>11. \A j \in 1 .. Len(w) : j \in 1 .. Len(al) /\ w[j] = Key(al[j]) /\ al[j].cause \in AnswerCauses
  BY <1>5 DEF Answered
<1>12. PICK rest : rest = RemoveFirst(w, key)
  OBVIOUS
<1>13. /\ rest \in Seq(Keys) /\ Len(rest) \in Nat /\ Len(rest) + 1 <= Len(new)
       /\ \A m \in 1 .. Len(rest) :
            \/ m < i /\ m \in 1 .. Len(w) /\ rest[m] = w[m]
            \/ m >= i /\ m + 1 \in 1 .. Len(w) /\ rest[m] = w[m + 1]
  <2>1. CASE \E j \in 1 .. Len(w) : w[j] = key
    <3>1. i \in 1 .. Len(w) /\ w[i] = key /\ \A j \in 1 .. Len(w) : w[j] = key => j = i
      BY <1>8, <1>11, <2>1
    <3>2. rest = RemoveAt(w, i)
      BY <1>5, <1>12, <3>1, RemoveFirstOfOne
    <3>3. /\ rest \in Seq(Keys) /\ Len(rest) = Len(w) - 1
          /\ \A j \in 1 .. Len(w) - 1 : /\ j < i => rest[j] = w[j]
                                        /\ j >= i => rest[j] = w[j + 1]
      BY <3>1, <3>2, RemoveIndex
    <3>4. Len(new) = Len(al) /\ Len(w) <= Len(al)
      BY <1>3, <1>11, <3>1 DEF Answered
    <3>5. \A m \in 1 .. Len(w) - 1 : m \in 1 .. Len(w) /\ m + 1 \in 1 .. Len(w) /\ (m < i \/ m >= i)
      BY <1>5
    <3> QED BY <1>5, <3>1, <3>3, <3>4, <3>5
  <2>2. CASE \A j \in 1 .. Len(w) : w[j] # key
    <3>1. rest = w
      BY <1>12, <2>2, RemoveFirstOfNone
    <3>2. i \notin 1 .. Len(w)
      BY <1>7, <1>11, <2>2
    <3>3. Len(w) < i /\ Len(w) <= Len(al)
      BY <1>5, <3>2 DEF Answered
    <3>4. Len(w) + 1 <= Len(new)
      BY <1>3, <1>5, <3>3
    <3>5. \A m \in 1 .. Len(w) : m < i
      BY <1>5, <3>3
    <3> QED BY <1>5, <3>1, <3>4, <3>5
  <2> QED BY <2>1, <2>2
<1>14. PICK front : front = <<key>> \o rest
  OBVIOUS
<1>15. /\ front \in Seq(Keys) /\ Len(front) = Len(rest) + 1 /\ front[1] = key
       /\ \A k \in 1 .. Len(rest) : front[k + 1] = rest[k]
  BY <1>2, <1>13, <1>14, ConsIndex
<1>16. ASSUME NEW j \in 1 .. Len(front)
       PROVE  front[j] = Key(new[j]) /\ new[j].cause \in AnswerCauses
  <2>1. CASE j = 1
    <3>1. new[1].cause = cause
      BY <1>3 DEF Fits, Name
    <3> QED BY <1>6, <1>15, <2>1, <3>1
  <2>2. CASE j # 1
    <3>1. PICK m : m = j - 1
      OBVIOUS
    <3>2. m \in 1 .. Len(rest) /\ j = m + 1 /\ m \in 1 .. Len(new) - 1
      BY <1>5, <1>13, <1>15, <2>2, <3>1
    <3>3. front[j] = rest[m]
      BY <1>15, <3>2
    <3>4. CASE m < i /\ m \in 1 .. Len(w) /\ rest[m] = w[m]
      BY <1>3, <1>11, <3>2, <3>3, <3>4
    <3>5. CASE m >= i /\ m + 1 \in 1 .. Len(w) /\ rest[m] = w[m + 1]
      BY <1>3, <1>11, <3>2, <3>3, <3>5
    <3> QED BY <1>13, <3>2, <3>4, <3>5
  <2> QED BY <2>1, <2>2
<1>17. Len(front) <= Len(new)
  BY <1>13, <1>15
<1> QED BY <1>10, <1>12, <1>14, <1>15, <1>16, <1>17 DEF Answered

(* The first awaited answers are the first tasks of the first list.        *)
AnswerInv ==
  /\ awaited \in [Links -> Seq(Keys)]
  /\ Distinct(tasks["LEVEL_1"])
  /\ \A l \in Links : Answered(awaited[l], tasks["LEVEL_1"])

LEMMA AnswerInit ==
  ASSUME Init
  PROVE  AnswerInv
<1>1. tasks["LEVEL_1"] = <<>> /\ awaited = [l \in Links |-> <<>>]
  BY DEF Init, Levels
<1>2. Len(<<>>) = 0 /\ <<>> \in Seq(Keys)
  OBVIOUS
<1>3. \A al : Len(al) = 0 => Distinct(al)
  BY DEF Distinct
<1>4. \A w, al : Len(w) = 0 /\ Len(al) = 0 => Answered(w, al)
  BY DEF Answered
<1> QED BY <1>1, <1>2, <1>3, <1>4 DEF AnswerInv

LEMMA AnswersQueued ==
  ASSUME OneLink, TasksTyped, AnswerInv,
         NEW l \in Links, NEW a \in Commands, NEW res, Answers(l, a, res)
  PROVE  AnswerInv'
<1>1. PICK cause : cause = app_linkframe_convert_to_asdu(a, res)
  OBVIOUS
<1>2. PICK al : al = tasks["LEVEL_1"]
  OBVIOUS
<1>3. PICK new : new = app_task_insert_ack_asdu(al, l, a.asdu_ident, cause, AnswerNode(a))
  OBVIOUS
<1>4. PICK key : key = <<a.asdu_ident, cause, a.addr>>
  OBVIOUS
<1>5. PICK w : w = awaited[l]
  OBVIOUS
<1>6. Links = {l}
  BY DEF OneLink
<1>7. /\ al \in Seq(Tasks) /\ tasks \in [Levels -> Seq(Tasks)] /\ "LEVEL_1" \in Levels
      /\ Distinct(al) /\ w \in Seq(Keys) /\ Answered(w, al) /\ awaited \in [Links -> Seq(Keys)]
  BY <1>2, <1>5 DEF TasksTyped, Levels, AnswerInv
<1>8. AnswerNode(a) \in Nodes /\ a.asdu_ident \in Idents /\ AnswerNode(a).addr = a.addr
  BY AnswerNodeTyped DEF AnswerNode
<1>9. cause \in AnswerCauses
  BY <1>1, AnswerCauseTyped
<1>10. tasks' = [tasks EXCEPT !["LEVEL_1"] = new]
  BY <1>1, <1>2, <1>3 DEF Answers, AnswerNode
<1>11. awaited' = [awaited EXCEPT ![l] = <<key>> \o RemoveFirst(w, key)]
  BY <1>1, <1>4, <1>5 DEF Answers
<1>12. /\ Distinct(new) /\ <<key>> \o RemoveFirst(w, key) \in Seq(Keys)
       /\ Answered(<<key>> \o RemoveFirst(w, key), new)
  BY <1>3, <1>4, <1>6, <1>7, <1>8, <1>9, InsertedInFront
<1>13. PICK front : front = <<key>> \o RemoveFirst(w, key)
  OBVIOUS
<1>14. tasks'["LEVEL_1"] = new
  BY <1>7, <1>10
<1>15. awaited' \in [Links -> Seq(Keys)] /\ \A k \in Links : awaited'[k] = front
  BY <1>6, <1>7, <1>11, <1>12, <1>13
<1> QED BY <1>12, <1>13, <1>14, <1>15 DEF AnswerInv

LEMMA CommandAnswers ==
  ASSUME OneLink, StationInv, AnswerInv, AppCommand
  PROVE  AnswerInv'
<1> DEFINE e == Head(app_event)
<1>1. PICK l : l = e.msg.sender
  OBVIOUS
<1>2. PICK a : a = e.msg.asdu
  OBVIOUS
<1>3. l \in Links /\ a \in Commands /\ TasksTyped
  BY <1>1, <1>2, CommandDoes DEF StationInv
<1>4. \/ UNCHANGED <<tasks, awaited>>
      \/ Answers(l, a, Result(a))
      \/ Answers(l, a, "CMD_RES_FAIL")
  BY <1>1, <1>2, Zenon DEF AppCommand
<1>5. CASE UNCHANGED <<tasks, awaited>>
  BY <1>5 DEF AnswerInv
<1> QED BY <1>3, <1>4, <1>5, AnswersQueued

LEMMA PulseAnswers ==
  ASSUME OneLink, StationInv, AnswerInv, PulseEnds
  PROVE  AnswerInv'
<1>1. PICK l \in Links, a \in Commands : pulse = <<[sender |-> l, asdu |-> a]>>
  BY DEF StationInv, PulseTyped, PulseEnds
<1>2. pulse[1].sender = l /\ pulse[1].asdu = a
  BY <1>1
<1>3. Answers(l, a, "CMD_RES_OK")
  BY <1>2 DEF PulseEnds
<1> QED BY <1>3, AnswersQueued DEF StationInv

LEMMA UpdateAnswers ==
  ASSUME OneLink, StationInv, AnswerInv, AppUpdate
  PROVE  AnswerInv'
<1>1. PICK l : Links = {l}
  BY DEF OneLink
<1>2. TasksTyped /\ MailTyped /\ awaited' = awaited
  BY DEF StationInv, AppUpdate
<1>3. PICK u \in Updates :
        \/ tasks' = tasks
        \/ tasks' = [tasks EXCEPT ![u.level] = Registered(@, l, u)]
  BY <1>1, <1>2, UpdateDoes
<1>4. PICK al : al = tasks["LEVEL_1"]
  OBVIOUS
<1>5. PICK new : new = Registered(al, l, u)
  OBVIOUS
<1>6. tasks'["LEVEL_1"] = al \/ tasks'["LEVEL_1"] = new
  BY <1>2, <1>3, <1>4, <1>5 DEF TasksTyped, Levels
<1>7. al \in Seq(Tasks) /\ Distinct(al)
  BY <1>2, <1>4 DEF TasksTyped, Levels, AnswerInv
<1>8. Distinct(new) /\ \A w \in Seq(Keys) : Answered(w, al) => Answered(w, new)
  BY <1>1, <1>5, <1>7, ReportedBehind
<1>9. \A k \in Links : awaited[k] \in Seq(Keys) /\ Answered(awaited[k], al)
  BY <1>4 DEF AnswerInv
<1>10. CASE tasks'["LEVEL_1"] = al
  BY <1>2, <1>4, <1>10 DEF AnswerInv
<1>11. CASE tasks'["LEVEL_1"] = new
  BY <1>2, <1>8, <1>9, <1>11 DEF AnswerInv
<1> QED BY <1>6, <1>10, <1>11

LEMMA RequestAnswers ==
  ASSUME OneLink, StationInv, ConfirmInv, AnswerInv, AppRequest
  PROVE  /\ AnswerInv'
         /\ \A l \in Links : AskTaken(l, "LEVEL_1") /\ awaited[l] # <<>>
                               => awaited'[l] = Tail(awaited[l])
<1>1. PICK l : Links = {l}
  BY DEF OneLink
<1>2. TasksTyped /\ MailTyped /\ awaited \in [Links -> Seq(Keys)]
  BY DEF StationInv, AnswerInv
<1>3. PICK lvl \in Levels :
        /\ Head(app_event) = Ask(l, lvl)
        /\ \/ tasks[lvl] = <<>> /\ UNCHANGED <<tasks, image, call, awaited, unconfirmed>>
           \/ /\ tasks[lvl] # <<>> /\ tasks' = [tasks EXCEPT ![lvl] = Tail(@)]
              /\ \E single \in Garbage :
                   HandsOut(app_task_covert_to_asdu_frame(tasks[lvl][1], single))
  BY <1>1, <1>2, RequestDoes
<1>4. Head(app_event).evt_sub_type = lvl
  BY <1>3 DEF Ask, Event
<1>5. PICK w : w = awaited[l]
  OBVIOUS
<1>6. PICK al : al = tasks[lvl]
  OBVIOUS
<1>7. w \in Seq(Keys) /\ Answered(w, tasks["LEVEL_1"]) /\ Distinct(tasks["LEVEL_1"])
  BY <1>1, <1>5 DEF AnswerInv
<1>8. CASE tasks[lvl] = <<>> /\ UNCHANGED <<tasks, awaited>>
  <2>1. AnswerInv'
    BY <1>8 DEF AnswerInv
  <2>2. ~(lvl = "LEVEL_1" /\ w # <<>>)
    <3> SUFFICES ASSUME lvl = "LEVEL_1", w # <<>> PROVE FALSE
      OBVIOUS
    <3>1. Len(w) \in Nat \ {0}
      BY <1>7, EmptySeq
    <3>2. Len(w) <= Len(al) /\ al = <<>>
      BY <1>6, <1>7, <1>8 DEF Answered
    <3>3. Len(al) = 0
      BY <3>2
    <3> QED BY <3>1, <3>2, <3>3
  <2> QED BY <1>1, <1>4, <1>5, <2>1, <2>2 DEF AskTaken
<1>9. CASE /\ tasks[lvl] # <<>> /\ tasks' = [tasks EXCEPT ![lvl] = Tail(@)]
           /\ \E single \in Garbage :
                HandsOut(app_task_covert_to_asdu_frame(tasks[lvl][1], single))
  <2>1. PICK single \in Garbage : HandsOut(Frame(tasks[lvl][1], single))
    BY <1>9 DEF Frame
  <2>2. PICK f : f = Frame(tasks[lvl][1], single)
    OBVIOUS
  <2>3. al \in Seq(Tasks) /\ al # <<>> /\ al[1] \in Tasks /\ Len(al) \in Nat \ {0}
    <3>1. al \in Seq(Tasks) /\ al # <<>>
      BY <1>2, <1>6, <1>9 DEF TasksTyped
    <3>2. Len(al) \in Nat \ {0}
      BY <3>1, EmptySeq
    <3> QED BY <3>1, <3>2, ElementOfSeq
  <2>4. /\ f.link_id = al[1].link_id /\ f.ident = al[1].asdu_ident /\ f.cause = al[1].cause
        /\ f.objects = al[1].nodes[1].objects
    BY <1>6, <2>2, <2>3, FrameOfTask
  <2>5. f.link_id = l
    BY <1>1, <2>3, <2>4 DEF Tasks
  <2>6. Reply(f) = Key(al[1])
    <3>1. al[1].nodes[1] \in Nodes
      BY <2>3, OneNode
    <3>2. al[1].nodes[1].objects[1].addr = al[1].nodes[1].addr
      BY <3>1 DEF Nodes
    <3> QED BY <2>4, <3>2 DEF Reply, Key
  <2>7. awaited' = [awaited EXCEPT ![l] = RemoveFirst(w, Key(al[1]))]
    <3>1. awaited' = [awaited EXCEPT ![f.link_id] = RemoveFirst(@, Reply(f))]
      BY <2>1, <2>2 DEF HandsOut
    <3> QED BY <1>5, <2>5, <2>6, <3>1
  <2>8. PICK rest : rest = RemoveFirst(w, Key(al[1]))
    OBVIOUS
  <2>9. awaited' = [awaited EXCEPT ![l] = rest] /\ awaited'[l] = rest
    BY <1>1, <1>2, <2>7, <2>8
  <2>10. tasks' = [tasks EXCEPT ![lvl] = Tail(al)] /\ tasks \in [Levels -> Seq(Tasks)]
    BY <1>2, <1>6, <1>9 DEF TasksTyped
  <2>11. CASE lvl = "LEVEL_1"
    <3>1. /\ w # <<>> => rest = Tail(w)
          /\ rest \in Seq(Keys) /\ Answered(rest, Tail(al)) /\ Distinct(Tail(al))
      BY <1>6, <1>7, <2>3, <2>8, <2>11, FirstIsAnswered
    <3>2. tasks'["LEVEL_1"] = Tail(al)
      BY <2>10, <2>11 DEF Levels
    <3>3. awaited' \in [Links -> Seq(Keys)]
      BY <1>2, <2>9, <3>1
    <3>4. AnswerInv'
      BY <1>1, <2>9, <3>1, <3>2, <3>3 DEF AnswerInv
    <3> QED BY <1>1, <1>5, <2>9, <3>1, <3>4
  <2>12. CASE lvl = "LEVEL_2"
    <3>1. IsSample(al[1])
      BY <1>6, <2>3, <2>12 DEF ConfirmInv
    <3>2. ASSUME NEW j \in 1 .. Len(w) PROVE w[j] # Key(al[1])
      <4>1. w[j] = Key(tasks["LEVEL_1"][j]) /\ tasks["LEVEL_1"][j].cause \in AnswerCauses
        BY <1>7 DEF Answered
      <4>2. tasks["LEVEL_1"][j].cause # al[1].cause
        BY <3>1, <4>1 DEF AnswerCauses, IsSample
      <4> QED BY <4>1, <4>2 DEF Key
    <3>3. rest = w
      BY <2>8, <3>2, RemoveFirstOfNone
    <3>4. awaited' = awaited
      BY <1>2, <1>5, <2>9, <3>3
    <3>5. tasks'["LEVEL_1"] = tasks["LEVEL_1"]
      BY <2>10, <2>12 DEF Levels
    <3>6. AnswerInv'
      BY <3>4, <3>5 DEF AnswerInv
    <3>7. \A k : ~AskTaken(k, "LEVEL_1")
      BY <1>4, <2>12 DEF AskTaken
    <3> QED BY <3>6, <3>7
  <2> QED BY <2>11, <2>12 DEF Levels
<1> QED BY <1>3, <1>8, <1>9

LEMMA AnswerStep ==
  ASSUME OneLink, StationInv, ConfirmInv, AnswerInv, [Next]_vars
  PROVE  AnswerInv'
<1>1. ASSUME UNCHANGED <<tasks, awaited>> PROVE AnswerInv'
  BY <1>1 DEF AnswerInv
<1>2. ASSUME AppThread PROVE AnswerInv'
  BY <1>2, RequestAnswers, CommandAnswers, PulseAnswers, UpdateAnswers DEF AppThread
<1>3. ASSUME DeviceStep PROVE UNCHANGED <<tasks, awaited>>
  BY <1>3 DEF DeviceStep, Sample, Measure, SignalChanges, SwitchMoves, historyVars, taskVars
<1>4. ASSUME LinkStep PROVE UNCHANGED <<tasks, awaited>>
  BY <1>4 DEF LinkStep, LinkReset, LinkAsks, LinkHandsOver, historyVars, taskVars
<1>5. ASSUME UNCHANGED vars PROVE UNCHANGED <<tasks, awaited>>
  BY <1>5 DEF vars, taskVars, historyVars
<1> QED BY <1>1, <1>2, <1>3, <1>4, <1>5 DEF Next

(* A request that is taken from the mailbox is handled as one.             *)
LEMMA PostedIsNotTaken ==
  ASSUME NEW S, NEW mb \in Seq(S), mb # <<>>, NEW size, NEW e
  PROVE  iec_post_event(mb, size, e) # Tail(mb) /\ mb # Tail(mb)
<1>1. mb \in Seq(S \cup {e}) /\ e \in S \cup {e}
  BY SeqMonotonic
<1>2. Len(mb) \in Nat /\ Len(Tail(mb)) = Len(mb) - 1
  BY HeadTailProperties, LenProperties
<1>3. Len(Append(mb, e)) = Len(mb) + 1
  BY <1>1, AppendProperties
<1>4. iec_post_event(mb, size, e) = Append(mb, e) \/ iec_post_event(mb, size, e) = mb
  BY DEF iec_post_event
<1>5. PICK more : more = Append(mb, e)
  OBVIOUS
<1>6. PICK rest : rest = Tail(mb)
  OBVIOUS
<1>7. rest # mb /\ rest # more
  <2>1. Len(rest) = Len(mb) - 1 /\ Len(more) = Len(mb) + 1
    BY <1>2, <1>3, <1>5, <1>6
  <2>2. Len(rest) # Len(mb) /\ Len(rest) # Len(more)
    <3>1. PICK n \in Nat : n = Len(mb)
      BY <1>2
    <3>2. Len(rest) = n - 1 /\ Len(more) = n + 1 /\ n - 1 # n /\ n - 1 # n + 1
      BY <2>1, <3>1
    <3> QED BY <3>1, <3>2, Zenon
  <2> QED BY <2>2, Zenon
<1> QED BY <1>4, <1>5, <1>6, <1>7, Zenon

LEMMA TakenIsRequest ==
  ASSUME StationInv, Next, NEW l, AskTaken(l, "LEVEL_1")
  PROVE  AppRequest
<1>1. /\ app_event # <<>> /\ app_event' = Tail(app_event) /\ app_event \in Seq(Events)
      /\ Head(app_event).evt_sub_type = "LEVEL_1"
  BY DEF AskTaken, StationInv, MailTyped
<1>2. \A e : app_event' # iec_post_event(app_event, AppMb, e)
  BY <1>1, PostedIsNotTaken
<1>3. app_event' # app_event
  BY <1>1, PostedIsNotTaken
<1>4. ~AppCommand /\ ~AppUpdate
  BY <1>1 DEF AppCommand, AppUpdate, Takes
<1>5. ~PulseEnds
  BY <1>3 DEF PulseEnds
<1>6. ~Sample /\ ~SwitchMoves /\ ~SignalChanges
  BY <1>2 DEF Sample, SwitchMoves, SignalChanges
<1>7. ~Measure
  BY <1>3 DEF Measure, taskVars
<1>8. ~LinkStep
  BY <1>2, <1>3 DEF LinkStep, LinkReset, LinkAsks, LinkHandsOver, taskVars
<1> QED BY <1>4, <1>5, <1>6, <1>7, <1>8 DEF Next, AppThread, DeviceStep

(* With one link, what the link is handed for the first level while        *)
(* answers to its commands wait is the newest of them, whatever data was   *)
(* registered since and however answers that wait were merged.             *)
THEOREM NewestAnswerGoesFirst == OneLink => (Spec => AnswerGoesFirst)
<1> SUFFICES ASSUME OneLink PROVE Spec => AnswerGoesFirst
  OBVIOUS
<1>1. Init => StationInv /\ ConfirmInv /\ AnswerInv
  BY StationInit, ConfirmInit, AnswerInit
<1>2. StationInv /\ ConfirmInv /\ AnswerInv /\ [Next]_vars
        => StationInv' /\ ConfirmInv' /\ AnswerInv'
  BY StationStep, ConfirmStep, AnswerStep
<1>3. StationInv /\ ConfirmInv /\ AnswerInv /\ [Next]_vars
        => [\A l \in Links : AskTaken(l, "LEVEL_1") /\ awaited[l] # <<>>
              => awaited'[l] = Tail(awaited[l])]_vars
  <2> SUFFICES ASSUME StationInv, ConfirmInv, AnswerInv, Next, NEW l \in Links,
                      AskTaken(l, "LEVEL_1"), awaited[l] # <<>>
               PROVE  awaited'[l] = Tail(awaited[l])
    OBVIOUS
  <2>1. AppRequest
    BY TakenIsRequest
  <2> QED BY <2>1, RequestAnswers
<1> QED BY <1>1, <1>2, <1>3, PTL DEF Spec, AnswerGoesFirst

-----------------------------------------------------------------------------
(* The parts of a general call are sent in their turn.  A list or mailbox  *)
(* is read as the type and cause of what is in it.                         *)
IsPart(x) == OfCall(x[1], x[2])

\* The parts after lo up to hi, and no others, are in q in their order.
Held(at, q, n, R) ==
  /\ \A r, s \in R : r < s => at[r] < at[s]
  /\ \A r \in R : q[at[r]] = CallPieces[r]
  /\ \A i \in 1 .. n : IsPart(q[i]) => \E r \in R : at[r] = i

InTurn(q, n, lo, hi) == \E at \in [lo + 1 .. hi -> 1 .. n] : Held(at, q, n, lo + 1 .. hi)

LEMMA PartsOfCall ==
  /\ Len(CallPieces) = 4 /\ \A r \in 1 .. 4 : IsPart(CallPieces[r])
  /\ \A r, s \in 1 .. 4 : CallPieces[r] = CallPieces[s] => r = s
<1>1. /\ CallPieces[1] = <<100, "Actcon">> /\ CallPieces[2] = <<1, "Introgen">>
      /\ CallPieces[3] = <<11, "Introgen">> /\ CallPieces[4] = <<100, "Actterm">>
      /\ Len(CallPieces) = 4
  BY DEF CallPieces, C_IC_NA, M_SP_NA, M_ME_NB
<1>2. \A r \in 1 .. 4 : r = 1 \/ r = 2 \/ r = 3 \/ r = 4
  OBVIOUS
<1>3. \A r \in 1 .. 4 : IsPart(CallPieces[r])
  BY <1>1, <1>2 DEF IsPart, OfCall, C_IC_NA
<1>4. \A r, s \in 1 .. 4 : CallPieces[r] = CallPieces[s] => r = s
  BY <1>1, <1>2
<1> QED BY <1>1, <1>3, <1>4

\* Nothing of a call is in q.
LEMMA NoPart ==
  ASSUME NEW n \in Nat, NEW q, NEW k \in Nat
  PROVE  /\ (\A i \in 1 .. n : ~IsPart(q[i])) => InTurn(q, n, k, k)
         /\ InTurn(q, n, k, k) => \A i \in 1 .. n : ~IsPart(q[i])
<1>1. k + 1 .. k = {}
  OBVIOUS
<1>2. ASSUME \A i \in 1 .. n : ~IsPart(q[i]) PROVE InTurn(q, n, k, k)
  <2> DEFINE at == [r \in k + 1 .. k |-> 1]
  <2>1. at \in [k + 1 .. k -> 1 .. n]
    BY <1>1
  <2> QED BY <1>1, <1>2, <2>1 DEF InTurn, Held
<1>3. ASSUME InTurn(q, n, k, k) PROVE \A i \in 1 .. n : ~IsPart(q[i])
  BY <1>1, <1>3 DEF InTurn, Held
<1> QED BY <1>2, <1>3

\* The first of q is taken: a part of the call is the one whose turn it is.
LEMMA FirstInTurn ==
  ASSUME NEW n \in Nat \ {0}, NEW q, NEW rest, \A i \in 1 .. n - 1 : rest[i] = q[i + 1],
         NEW lo \in 0 .. 4, NEW hi \in 0 .. 4, lo <= hi, InTurn(q, n, lo, hi)
  PROVE  /\ IsPart(q[1]) => lo < hi /\ q[1] = CallPieces[lo + 1] /\ InTurn(rest, n - 1, lo + 1, hi)
         /\ ~IsPart(q[1]) => InTurn(rest, n - 1, lo, hi)
<1> DEFINE R(k) == k + 1 .. hi
<1>1. PICK at \in [R(lo) -> 1 .. n] :
        /\ \A r, s \in R(lo) : r < s => at[r] < at[s]
        /\ \A r \in R(lo) : q[at[r]] = CallPieces[r]
        /\ \A i \in 1 .. n : IsPart(q[i]) => \E r \in R(lo) : at[r] = i
  BY DEF InTurn, Held
<1>2. ASSUME NEW k \in lo .. hi, \A r \in R(k) : at[r] # 1,
             \A r \in R(lo) : r \notin R(k) => at[r] = 1
      PROVE  InTurn(rest, n - 1, k, hi)
  <2> DEFINE to == [r \in R(k) |-> at[r] - 1]
  <2>1. \A r \in R(k) : r \in R(lo) /\ at[r] \in 1 .. n /\ at[r] - 1 \in 1 .. n - 1
    BY <1>2
  <2>2. to \in [R(k) -> 1 .. n - 1]
    BY <2>1
  <2>3. \A r, s \in R(k) : r < s => to[r] < to[s]
    BY <1>1, <2>1
  <2>4. \A r \in R(k) : rest[to[r]] = CallPieces[r]
    BY <1>1, <2>1
  <2>5. ASSUME NEW i \in 1 .. n - 1, IsPart(rest[i]) PROVE \E r \in R(k) : to[r] = i
    <3>1. i + 1 \in 1 .. n /\ rest[i] = q[i + 1] /\ i + 1 # 1
      OBVIOUS
    <3>2. PICK r \in R(lo) : at[r] = i + 1
      BY <1>1, <2>5, <3>1
    <3>3. r \in R(k)
      BY <1>2, <3>1, <3>2
    <3> QED BY <3>2, <3>3
  <2> QED BY <2>2, <2>3, <2>4, <2>5 DEF InTurn, Held
<1>3. ASSUME IsPart(q[1])
      PROVE  lo < hi /\ q[1] = CallPieces[lo + 1] /\ InTurn(rest, n - 1, lo + 1, hi)
  <2>1. PICK r \in R(lo) : at[r] = 1
    BY <1>1, <1>3
  <2>2. lo + 1 \in R(lo) /\ lo < hi
    BY <2>1
  <2>3. r = lo + 1
    <3>1. at[lo + 1] \in 1 .. n
      BY <2>2
    <3>2. ~(lo + 1 < r)
      BY <1>1, <2>1, <2>2, <3>1
    <3> QED BY <2>1, <3>2
  <2>4. \A s \in R(lo + 1) : at[s] # 1
    BY <1>1, <2>1, <2>3
  <2>5. \A s \in R(lo) : s \notin R(lo + 1) => at[s] = 1
    BY <2>1, <2>3
  <2>6. InTurn(rest, n - 1, lo + 1, hi)
    BY <1>2, <2>2, <2>4, <2>5
  <2> QED BY <1>1, <2>1, <2>2, <2>3, <2>6
<1>4. ASSUME ~IsPart(q[1]) PROVE InTurn(rest, n - 1, lo, hi)
  <2>1. \A r \in R(lo) : at[r] # 1
    BY <1>1, <1>4, PartsOfCall
  <2>2. lo \in lo .. hi /\ \A r \in R(lo) : r \notin R(lo) => at[r] = 1
    OBVIOUS
  <2> HIDE DEF R
  <2> QED BY <1>2, <2>1, <2>2
<1> QED BY <1>3, <1>4

\* One more is put at the end of q: anything else, or the part that is next.
LEMMA LastInTurn ==
  ASSUME NEW n \in Nat, NEW q, NEW more, \A i \in 1 .. n : more[i] = q[i],
         NEW lo \in 0 .. 4, NEW hi \in 0 .. 4, lo <= hi, InTurn(q, n, lo, hi)
  PROVE  /\ InTurn(more, n, lo, hi)
         /\ ~IsPart(more[n + 1]) => InTurn(more, n + 1, lo, hi)
         /\ hi < 4 /\ more[n + 1] = CallPieces[hi + 1] => InTurn(more, n + 1, lo, hi + 1)
<1> DEFINE R == lo + 1 .. hi
<1>1. PICK at \in [R -> 1 .. n] :
        /\ \A r, s \in R : r < s => at[r] < at[s]
        /\ \A r \in R : q[at[r]] = CallPieces[r]
        /\ \A i \in 1 .. n : IsPart(q[i]) => \E r \in R : at[r] = i
  BY DEF InTurn, Held
<1>2. InTurn(more, n, lo, hi)
  <2>1. Held(at, more, n, R)
    <3> HIDE DEF R
    <3> QED BY <1>1 DEF Held
  <2> QED BY <2>1 DEF InTurn
<1>3. ASSUME ~IsPart(more[n + 1]) PROVE InTurn(more, n + 1, lo, hi)
  <2>1. at \in [R -> 1 .. n + 1]
    OBVIOUS
  <2>2. \A i \in 1 .. n + 1 : IsPart(more[i]) => i \in 1 .. n
    BY <1>3
  <2>3. Held(at, more, n + 1, R)
    <3> HIDE DEF R
    <3> QED BY <1>1, <2>2 DEF Held
  <2> QED BY <2>1, <2>3 DEF InTurn
<1>4. ASSUME hi < 4, more[n + 1] = CallPieces[hi + 1] PROVE InTurn(more, n + 1, lo, hi + 1)
  <2> DEFINE S  == lo + 1 .. hi + 1
             to == [r \in S |-> IF r = hi + 1 THEN n + 1 ELSE at[r]]
  <2>1. \A r \in S : r = hi + 1 \/ r \in R
    OBVIOUS
  <2>2. to \in [S -> 1 .. n + 1]
    BY <2>1
  <2>3. \A r, s \in S : r < s => to[r] < to[s]
    BY <1>1, <2>1
  <2>4. \A r \in S : more[to[r]] = CallPieces[r]
    BY <1>1, <1>4, <2>1
  <2>5. ASSUME NEW i \in 1 .. n + 1, IsPart(more[i]) PROVE \E r \in S : to[r] = i
    <3>1. CASE i = n + 1
      BY <3>1
    <3>2. CASE i # n + 1
      <4>1. i \in 1 .. n /\ more[i] = q[i]
        BY <3>2
      <4>2. PICK r \in R : at[r] = i
        BY <1>1, <2>5, <4>1
      <4>3. r \in S /\ to[r] = i
        BY <4>2
      <4> QED BY <4>3
    <3> QED BY <3>1, <3>2
  <2> QED BY <2>2, <2>3, <2>4, <2>5 DEF InTurn, Held
<1> QED BY <1>2, <1>3, <1>4

\* Something else is moved, or put, to the front of q from place i.
LEMMA OthersInTurn ==
  ASSUME NEW n \in Nat, NEW q, NEW i \in 1 .. n + 1, NEW m \in Nat, NEW new,
         m = n \/ (m = n + 1 /\ i = n + 1), i <= n => m = n, i > n => m = n + 1,
         i <= n => ~IsPart(q[i]), ~IsPart(new[1]),
         \A j \in 1 .. m - 1 : (j < i => new[j + 1] = q[j]) /\ (j >= i => new[j + 1] = q[j + 1]),
         NEW lo \in 0 .. 4, NEW hi \in 0 .. 4, lo <= hi, InTurn(q, n, lo, hi)
  PROVE  InTurn(new, m, lo, hi)
<1> DEFINE R  == lo + 1 .. hi
<1>1. PICK at \in [R -> 1 .. n] :
        /\ \A r, s \in R : r < s => at[r] < at[s]
        /\ \A r \in R : q[at[r]] = CallPieces[r]
        /\ \A k \in 1 .. n : IsPart(q[k]) => \E r \in R : at[r] = k
  BY DEF InTurn, Held
<1> DEFINE to == [r \in R |-> IF at[r] < i THEN at[r] + 1 ELSE at[r]]
<1>2. ASSUME NEW r \in R PROVE at[r] \in 1 .. n /\ at[r] # i
  <2>1. at[r] \in 1 .. n /\ q[at[r]] = CallPieces[r] /\ r \in 1 .. 4
    BY <1>1
  <2>2. IsPart(q[at[r]])
    BY <2>1, PartsOfCall
  <2> QED BY <2>1, <2>2
<1>3. \A r \in R : /\ at[r] < i => to[r] = at[r] + 1
                   /\ at[r] > i => to[r] = at[r] /\ m = n
  BY <1>2
<1>4. \A r \in R : to[r] \in 2 .. m
  BY <1>2, <1>3
<1>5. to \in [R -> 1 .. m]
  BY <1>4
<1> HIDE DEF to
<1>6. ASSUME NEW r \in R, NEW s \in R, r < s PROVE to[r] < to[s]
  <2>1. at[r] < at[s] /\ at[r] \in 1 .. n /\ at[s] \in 1 .. n /\ at[r] # i /\ at[s] # i
    BY <1>1, <1>2, <1>6
  <2>2. \A x \in R : \/ at[x] < i /\ to[x] = at[x] + 1
                     \/ at[x] > i /\ to[x] = at[x]
    <3>1. \A x \in R : at[x] < i \/ at[x] > i
      BY <1>2
    <3> HIDE DEF R
    <3> QED BY <1>3, <3>1
  <2> HIDE DEF R
  <2> QED BY <2>1, <2>2
<1>7. ASSUME NEW r \in R PROVE new[to[r]] = CallPieces[r]
  <2>1. PICK j : j = to[r] - 1
    OBVIOUS
  <2>2. j \in 1 .. m - 1 /\ to[r] = j + 1
    <3>1. to[r] \in 2 .. m
      BY <1>4
    <3> HIDE DEF R
    <3> QED BY <2>1, <3>1
  <2>3. CASE at[r] < i
    <3>1. j = at[r]
      BY <1>2, <1>3, <2>1, <2>3
    <3> QED BY <1>1, <2>2, <2>3, <3>1
  <2>4. CASE at[r] > i
    <3>1. j >= i /\ j + 1 = at[r]
      BY <1>2, <1>3, <2>1, <2>4
    <3> QED BY <1>1, <2>2, <3>1
  <2> QED BY <1>2, <2>3, <2>4
<1>8. ASSUME NEW k \in 1 .. m, IsPart(new[k]) PROVE \E r \in R : to[r] = k
  <2>1. k # 1
    BY <1>8
  <2>2. PICK j : j = k - 1
    OBVIOUS
  <2>3. j \in 1 .. m - 1 /\ k = j + 1
    BY <2>1, <2>2
  <2>4. CASE j < i
    <3>1. j \in 1 .. n /\ new[k] = q[j]
      BY <2>3, <2>4
    <3>2. PICK r \in R : at[r] = j
      BY <1>1, <1>8, <3>1
    <3>3. to[r] = j + 1
      BY <1>3, <2>4, <3>2
    <3> QED BY <2>3, <3>3
  <2>5. CASE j >= i
    <3>1. m = n
      BY <2>3, <2>5
    <3>3. k \in 1 .. n /\ new[k] = q[k] /\ k > i
      BY <2>3, <2>5, <3>1
    <3>2. PICK r \in R : at[r] = k
      BY <1>1, <1>8, <3>3
    <3> QED BY <1>3, <3>3, <3>2
  <2> QED BY <2>3, <2>4, <2>5
<1> QED BY <1>1, <1>5, <1>6, <1>7, <1>8 DEF InTurn, Held

\* The confirmation of a call is put before what is no part of one.
LEMMA ConfirmationInTurn ==
  ASSUME NEW n \in Nat, NEW q, NEW new, new[1] = CallPieces[1],
         \A j \in 1 .. n : new[j + 1] = q[j], InTurn(q, n, 0, 0)
  PROVE  InTurn(new, n + 1, 0, 1)
<1>1. \A i \in 1 .. n : ~IsPart(q[i])
  BY NoPart
<1> DEFINE at == [r \in 0 + 1 .. 1 |-> 1]
<1>2. at \in [0 + 1 .. 1 -> 1 .. n + 1] /\ \A r \in 0 + 1 .. 1 : r = 1
  OBVIOUS
<1>3. ASSUME NEW i \in 1 .. n + 1, IsPart(new[i]) PROVE i = 1
  <2>1. PICK j : j = i - 1
    OBVIOUS
  <2>2. CASE i # 1
    <3>1. j \in 1 .. n /\ i = j + 1
      BY <2>1, <2>2
    <3> QED BY <1>1, <1>3, <3>1
  <2> QED BY <2>2
<1>4. Held(at, new, n + 1, 0 + 1 .. 1)
  <2>1. \A r \in 0 + 1 .. 1 : r = 1 /\ at[r] = 1 /\ 1 \in 0 + 1 .. 1
    OBVIOUS
  <2> HIDE DEF at
  <2> QED BY <1>2, <1>3, <2>1 DEF Held
<1> QED BY <1>2, <1>4 DEF InTurn

\* The part whose turn comes next is not in q yet.
LEMMA NextIsNew ==
  ASSUME NEW n \in Nat, NEW q, NEW lo \in 0 .. 4, NEW hi \in 0 .. 3, InTurn(q, n, lo, hi)
  PROVE  \A i \in 1 .. n : q[i] # CallPieces[hi + 1]
<1> SUFFICES ASSUME NEW i \in 1 .. n, q[i] = CallPieces[hi + 1] PROVE FALSE
  OBVIOUS
<1> DEFINE R == lo + 1 .. hi
<1>1. PICK at \in [R -> 1 .. n] :
        /\ \A r \in R : q[at[r]] = CallPieces[r]
        /\ \A k \in 1 .. n : IsPart(q[k]) => \E r \in R : at[r] = k
  BY DEF InTurn, Held
<1>2. hi + 1 \in 1 .. 4 /\ \A r \in R : r \in 1 .. 4 /\ r # hi + 1
  OBVIOUS
<1>3. IsPart(q[i])
  BY <1>2, PartsOfCall
<1>4. PICK r \in R : at[r] = i
  BY <1>1, <1>3
<1>5. CallPieces[r] = CallPieces[hi + 1]
  BY <1>1, <1>4
<1> QED BY <1>2, <1>5, PartsOfCall

-----------------------------------------------------------------------------
(* The parts that wait as tasks.                                           *)
TaskLabel(t)   == <<t.asdu_ident, t.cause>>
TaskLabels(al) == [i \in 1 .. Len(al) |-> TaskLabel(al[i])]

Waiting(al, g, m) == InTurn(TaskLabels(al), Len(al), g, m)

LEMMA PartTaken ==
  ASSUME NEW al \in Seq(Tasks), al # <<>>, NEW g \in 0 .. 4, NEW m \in 0 .. 4, g <= m,
         Waiting(al, g, m)
  PROVE  /\ IsPart(TaskLabel(al[1])) =>
              g < m /\ TaskLabel(al[1]) = CallPieces[g + 1] /\ Waiting(Tail(al), g + 1, m)
         /\ ~IsPart(TaskLabel(al[1])) => Waiting(Tail(al), g, m)
<1>1. PICK q : q = TaskLabels(al)
  OBVIOUS
<1>2. PICK rest : rest = TaskLabels(Tail(al))
  OBVIOUS
<1>3. PICK n : n = Len(al)
  OBVIOUS
<1>4. n \in Nat \ {0} /\ Len(Tail(al)) = n - 1
  BY <1>3, EmptySeq, HeadTailProperties
<1>5. \A i \in 1 .. n - 1 : Tail(al)[i] = al[i + 1]
  <2>1. \A i \in 1 .. Len(Tail(al)) : Tail(al)[i] = al[i + 1]
    BY HeadTailProperties
  <2> QED BY <1>4, <2>1
<1>6. \A i \in 1 .. n - 1 : rest[i] = q[i + 1]
  <2>1. \A i \in 1 .. n - 1 : rest[i] = TaskLabel(Tail(al)[i])
    BY <1>2, <1>4 DEF TaskLabels
  <2>2. \A i \in 1 .. n - 1 : i + 1 \in 1 .. n /\ q[i + 1] = TaskLabel(al[i + 1])
    BY <1>1, <1>3, <1>4 DEF TaskLabels
  <2> QED BY <1>5, <2>1, <2>2
<1>7. q[1] = TaskLabel(al[1])
  BY <1>1, <1>3, <1>4 DEF TaskLabels
<1>8. InTurn(q, n, g, m)
  BY <1>1, <1>3 DEF Waiting
<1>9. /\ IsPart(q[1]) => g < m /\ q[1] = CallPieces[g + 1] /\ InTurn(rest, n - 1, g + 1, m)
      /\ ~IsPart(q[1]) => InTurn(rest, n - 1, g, m)
  BY <1>4, <1>6, <1>8, FirstInTurn
<1> QED BY <1>2, <1>4, <1>7, <1>9 DEF Waiting

LEMMA OtherAnswered ==
  ASSUME NEW al \in Seq(Tasks), NEW l \in Links, NEW ident \in Idents, NEW cause \in Causes,
         NEW node \in Nodes, NEW new, new = app_task_insert_ack_asdu(al, l, ident, cause, node),
         ~IsPart(<<ident, cause>>),
         NEW g \in 0 .. 4, NEW m \in 0 .. 4, g <= m, Waiting(al, g, m)
  PROVE  Waiting(new, g, m)
<1>1. PICK i : i = Place(al, <<l, ident, cause>>, node)
  OBVIOUS
<1>2. /\ new \in Seq(Tasks) /\ 1 \in 1 .. Len(new) /\ i \in 1 .. Len(new)
      /\ i > Len(al) => Len(new) = Len(al) + 1
      /\ i <= Len(al) => Len(new) = Len(al)
      /\ \A j \in 1 .. Len(new) - 1 :
           /\ j < i => new[j + 1] = al[j]
           /\ j >= i => new[j + 1] = al[j + 1]
      /\ Fits(new[1], <<l, ident, cause>>, node)
  BY <1>1, AnswerIsFirst
<1>3. /\ i \in 1 .. Len(al) + 1
      /\ i <= Len(al) => Fits(al[i], <<l, ident, cause>>, node)
  BY <1>1, PlaceIsFirst
<1>4. PICK n : n = Len(al)
  OBVIOUS
<1>5. PICK k : k = Len(new)
  OBVIOUS
<1>6. PICK q : q = TaskLabels(al)
  OBVIOUS
<1>7. PICK now : now = TaskLabels(new)
  OBVIOUS
<1>8. n \in Nat /\ k \in Nat /\ i \in 1 .. n + 1
  BY <1>2, <1>3, <1>4, <1>5, LenProperties
<1>9. (\A j \in 1 .. n : q[j] = TaskLabel(al[j])) /\ \A j \in 1 .. k : now[j] = TaskLabel(new[j])
  BY <1>4, <1>5, <1>6, <1>7 DEF TaskLabels
<1>10. (i <= n => k = n) /\ (i > n => k = n + 1)
  BY <1>2, <1>4, <1>5
<1>11. \A t : Fits(t, <<l, ident, cause>>, node) => ~IsPart(TaskLabel(t))
  BY DEF Fits, Name, TaskLabel
<1>12. ~IsPart(now[1]) /\ (i <= n => ~IsPart(q[i]))
  BY <1>2, <1>3, <1>4, <1>5, <1>8, <1>9, <1>11
<1>13. \A j \in 1 .. k - 1 : (j < i => now[j + 1] = q[j]) /\ (j >= i => now[j + 1] = q[j + 1])
  <2> SUFFICES ASSUME NEW j \in 1 .. k - 1
               PROVE  (j < i => now[j + 1] = q[j]) /\ (j >= i => now[j + 1] = q[j + 1])
    OBVIOUS
  <2>1. now[j + 1] = TaskLabel(new[j + 1])
    BY <1>8, <1>9
  <2>2. (j < i => new[j + 1] = al[j]) /\ (j >= i => new[j + 1] = al[j + 1])
    BY <1>2, <1>5
  <2>3. CASE j < i
    BY <1>8, <1>9, <1>10, <2>1, <2>2, <2>3
  <2>4. CASE j >= i
    BY <1>8, <1>9, <1>10, <2>1, <2>2, <2>4
  <2> QED BY <1>8, <2>3, <2>4
<1>14. InTurn(q, n, g, m)
  BY <1>4, <1>6 DEF Waiting
<1>15. k = n \/ (k = n + 1 /\ i = n + 1)
  BY <1>8, <1>10
<1>16. InTurn(now, k, g, m)
  BY <1>8, <1>10, <1>12, <1>13, <1>14, <1>15, OthersInTurn
<1> QED BY <1>5, <1>7, <1>16 DEF Waiting

LEMMA CallConfirmed ==
  ASSUME NEW al \in Seq(Tasks), NEW l \in Links, NEW node \in Nodes,
         NEW new, new = app_task_insert_ack_asdu(al, l, C_IC_NA, "Actcon", node),
         Waiting(al, 0, 0)
  PROVE  Waiting(new, 0, 1)
<1>1. PICK i : i = Place(al, <<l, C_IC_NA, "Actcon">>, node)
  OBVIOUS
<1>2. C_IC_NA \in Idents /\ "Actcon" \in Causes /\ <<C_IC_NA, "Actcon">> = CallPieces[1]
  BY DEF Idents, C_IC_NA, Causes, CallPieces
<1>3. /\ new \in Seq(Tasks) /\ 1 \in 1 .. Len(new)
      /\ i > Len(al) => Len(new) = Len(al) + 1
      /\ \A j \in 1 .. Len(new) - 1 : j < i => new[j + 1] = al[j]
      /\ Fits(new[1], <<l, C_IC_NA, "Actcon">>, node)
  BY <1>1, <1>2, AnswerIsFirst
<1>4. /\ i \in 1 .. Len(al) + 1
      /\ i <= Len(al) => Fits(al[i], <<l, C_IC_NA, "Actcon">>, node)
  BY <1>1, PlaceIsFirst
<1>5. PICK n : n = Len(al)
  OBVIOUS
<1>6. PICK q : q = TaskLabels(al)
  OBVIOUS
<1>7. PICK now : now = TaskLabels(new)
  OBVIOUS
<1>8. n \in Nat /\ InTurn(q, n, 0, 0) /\ i \in 1 .. n + 1
  BY <1>4, <1>5, <1>6, LenProperties DEF Waiting
<1>9. \A j \in 1 .. n : q[j] = TaskLabel(al[j])
  BY <1>5, <1>6 DEF TaskLabels
<1>10. \A t : Fits(t, <<l, C_IC_NA, "Actcon">>, node) => TaskLabel(t) = CallPieces[1]
  BY <1>2 DEF Fits, Name, TaskLabel
<1>11. ~(i <= n)
  <2> SUFFICES ASSUME i <= n PROVE FALSE
    OBVIOUS
  <2>1. i \in 1 .. n /\ q[i] = CallPieces[1]
    BY <1>4, <1>5, <1>8, <1>9, <1>10
  <2>2. 0 \in 0 .. 4 /\ 0 \in 0 .. 3 /\ 0 + 1 = 1
    OBVIOUS
  <2> QED BY <1>8, <2>1, <2>2, NextIsNew
<1>12. Len(new) = n + 1 /\ i = n + 1
  BY <1>3, <1>5, <1>8, <1>11
<1>13. \A j \in 1 .. n + 1 : now[j] = TaskLabel(new[j])
  BY <1>7, <1>12 DEF TaskLabels
<1>14. now[1] = CallPieces[1]
  <2>1. TaskLabel(new[1]) = CallPieces[1]
    BY <1>3, <1>10
  <2>2. 1 \in 1 .. n + 1
    BY <1>8
  <2> QED BY <1>13, <2>1, <2>2
<1>15. \A j \in 1 .. n : now[j + 1] = q[j]
  <2>1. \A j \in 1 .. n : j + 1 \in 1 .. n + 1 /\ j \in 1 .. (n + 1) - 1 /\ j < i
    BY <1>8, <1>12
  <2> QED BY <1>3, <1>9, <1>12, <1>13, <2>1
<1>16. InTurn(now, n + 1, 0, 1)
  BY <1>8, <1>14, <1>15, ConfirmationInTurn
<1> QED BY <1>7, <1>12, <1>16 DEF Waiting

LEMMA PartReported ==
  ASSUME NEW al \in Seq(Tasks), NEW l \in Links, NEW u \in Updates,
         NEW new, new = Registered(al, l, u),
         NEW g \in 0 .. 4, NEW m \in 0 .. 4, g <= m, Waiting(al, g, m)
  PROVE  /\ ~IsPart(<<u.ident, u.cause>>) => Waiting(new, g, m)
         /\ m < 4 /\ <<u.ident, u.cause>> = CallPieces[m + 1] => Waiting(new, g, m + 1)
<1>1. PICK i : i = Place(al, <<l, u.ident, u.cause>>, u.node)
  OBVIOUS
<1>2. u.ident \in Idents /\ u.cause \in Causes /\ u.node \in Nodes
  BY DEF Updates
<1>3. new = app_task_add_normal(al, l, u.ident, u.cause, u.node)
  BY DEF Registered
<1>4. /\ new \in Seq(Tasks) /\ i \in 1 .. Len(new)
      /\ i > Len(al) => Len(new) = Len(al) + 1
      /\ i <= Len(al) => Len(new) = Len(al)
      /\ \A j \in 1 .. Len(al) : j # i => new[j] = al[j]
      /\ Fits(new[i], <<l, u.ident, u.cause>>, u.node)
  BY <1>1, <1>2, <1>3, AddedAtPlace
<1>5. /\ i \in 1 .. Len(al) + 1
      /\ i <= Len(al) => Fits(al[i], <<l, u.ident, u.cause>>, u.node)
  BY <1>1, <1>2, PlaceIsFirst
<1>6. PICK n : n = Len(al)
  OBVIOUS
<1>7. PICK q : q = TaskLabels(al)
  OBVIOUS
<1>8. PICK now : now = TaskLabels(new)
  OBVIOUS
<1>9. n \in Nat /\ InTurn(q, n, g, m) /\ i \in 1 .. n + 1
  BY <1>5, <1>6, <1>7, LenProperties DEF Waiting
<1>10. (\A j \in 1 .. n : q[j] = TaskLabel(al[j])) /\ \A j \in 1 .. Len(new) : now[j] = TaskLabel(new[j])
  BY <1>6, <1>7, <1>8 DEF TaskLabels
<1>11. \A t : Fits(t, <<l, u.ident, u.cause>>, u.node) => TaskLabel(t) = <<u.ident, u.cause>>
  BY DEF Fits, Name, TaskLabel
<1>12. now[i] = <<u.ident, u.cause>> /\ (i <= n => q[i] = <<u.ident, u.cause>>)
  BY <1>4, <1>5, <1>6, <1>9, <1>10, <1>11
<1>13. \A j \in 1 .. n : now[j] = q[j]
  <2> SUFFICES ASSUME NEW j \in 1 .. n PROVE now[j] = q[j]
    OBVIOUS
  <2>1. CASE j = i
    BY <1>9, <1>12, <2>1
  <2>2. CASE j # i
    <3>1. j \in 1 .. Len(new)
      BY <1>4, <1>6, <1>9
    <3> QED BY <1>4, <1>6, <1>10, <2>2, <3>1
  <2> QED BY <2>1, <2>2
<1>14. /\ InTurn(now, n, g, m)
       /\ ~IsPart(now[n + 1]) => InTurn(now, n + 1, g, m)
       /\ m < 4 /\ now[n + 1] = CallPieces[m + 1] => InTurn(now, n + 1, g, m + 1)
  BY <1>9, <1>13, LastInTurn
<1>15. CASE i <= n
  <2>1. ~(m < 4 /\ <<u.ident, u.cause>> = CallPieces[m + 1])
    <3>1. i \in 1 .. n
      BY <1>9, <1>15
    <3>2. m < 4 => m \in 0 .. 3
      OBVIOUS
    <3> QED BY <1>9, <1>12, <1>15, <3>1, <3>2, NextIsNew
  <2>2. Len(new) = n
    BY <1>4, <1>6, <1>15
  <2> QED BY <1>8, <1>14, <2>1, <2>2 DEF Waiting
<1>16. CASE i > n
  <2>1. Len(new) = n + 1 /\ i = n + 1
    BY <1>4, <1>6, <1>9, <1>16
  <2> QED BY <1>8, <1>12, <1>14, <2>1 DEF Waiting
<1> QED BY <1>9, <1>15, <1>16

-----------------------------------------------------------------------------
(* The parts that wait as reports in the mailbox, and the calls in it.     *)
EventLabel(e)   == IF e.evt_type = "APP_NODE_UPDATE" THEN <<e.msg.ident, e.msg.cause>>
                   ELSE <<0, "Act">>
EventLabels(mb) == [i \in 1 .. Len(mb) |-> EventLabel(mb[i])]

Coming(mb, m, n) == InTurn(EventLabels(mb), Len(mb), m, n)

IsCall(e)     == e.evt_sub_type = "USER" /\ e.msg.asdu.asdu_ident = C_IC_NA
NoCallIn(mb)  == \A i \in 1 .. Len(mb) : ~IsCall(mb[i])
OneCallIn(mb) ==
  /\ \A i, j \in 1 .. Len(mb) : IsCall(mb[i]) /\ IsCall(mb[j]) => i = j
  /\ \A i \in 1 .. Len(mb) : IsCall(mb[i]) => mb[i].msg.asdu.node_count <= 1

\* Of the last call the parts after m up to n are in the mailbox, or it is.
MailOfCall(mb, m, n) == Coming(mb, m, n) /\ OneCallIn(mb) /\ (n > 0 => NoCallIn(mb))

LEMMA MailTaken ==
  ASSUME NEW mb \in Seq(Events), mb # <<>>, NEW m \in 0 .. 4, NEW n \in 0 .. 4, m <= n,
         MailOfCall(mb, m, n)
  PROVE  /\ IsPart(EventLabel(mb[1])) =>
              /\ m < n /\ EventLabel(mb[1]) = CallPieces[m + 1]
              /\ MailOfCall(Tail(mb), m + 1, n)
         /\ ~IsPart(EventLabel(mb[1])) => MailOfCall(Tail(mb), m, n)
         /\ IsCall(mb[1]) => /\ n = 0 /\ mb[1].msg.asdu.node_count <= 1
                             /\ NoCallIn(Tail(mb)) /\ Coming(Tail(mb), 0, 0)
<1>1. PICK q : q = EventLabels(mb)
  OBVIOUS
<1>2. PICK rest : rest = EventLabels(Tail(mb))
  OBVIOUS
<1>3. PICK k : k = Len(mb)
  OBVIOUS
<1>4. PICK t : t = Tail(mb)
  OBVIOUS
<1>5. k \in Nat \ {0} /\ Len(t) = k - 1
  BY <1>3, <1>4, EmptySeq, HeadTailProperties
<1>6. \A i \in 1 .. k - 1 : t[i] = mb[i + 1]
  <2>1. \A i \in 1 .. Len(Tail(mb)) : Tail(mb)[i] = mb[i + 1]
    BY HeadTailProperties
  <2> QED BY <1>4, <1>5, <2>1
<1>7. \A i \in 1 .. k - 1 : rest[i] = q[i + 1]
  <2>1. \A i \in 1 .. k - 1 : rest[i] = EventLabel(t[i])
    BY <1>2, <1>4, <1>5 DEF EventLabels
  <2>2. \A i \in 1 .. k - 1 : i + 1 \in 1 .. k /\ q[i + 1] = EventLabel(mb[i + 1])
    BY <1>1, <1>3, <1>5 DEF EventLabels
  <2> QED BY <1>6, <2>1, <2>2
<1>8. q[1] = EventLabel(mb[1]) /\ 1 \in 1 .. k
  BY <1>1, <1>3, <1>5 DEF EventLabels
<1>9. InTurn(q, k, m, n)
  BY <1>1, <1>3 DEF MailOfCall, Coming
<1>10. /\ IsPart(q[1]) => m < n /\ q[1] = CallPieces[m + 1] /\ InTurn(rest, k - 1, m + 1, n)
       /\ ~IsPart(q[1]) => InTurn(rest, k - 1, m, n)
  BY <1>5, <1>7, <1>9, FirstInTurn
<1>11. \A a, b : InTurn(rest, k - 1, a, b) => Coming(t, a, b)
  BY <1>2, <1>4, <1>5 DEF Coming
<1>12. \A i \in 1 .. Len(t) : i + 1 \in 1 .. Len(mb) /\ i + 1 # 1 /\ t[i] = mb[i + 1]
  BY <1>3, <1>5, <1>6
<1>13. OneCallIn(t) /\ (n > 0 => NoCallIn(t)) /\ (IsCall(mb[1]) => NoCallIn(t))
  <2>1. \A i, j \in 1 .. Len(t) : IsCall(t[i]) /\ IsCall(t[j]) => i = j
    <3> SUFFICES ASSUME NEW i \in 1 .. Len(t), NEW j \in 1 .. Len(t), IsCall(t[i]), IsCall(t[j])
                 PROVE  i = j
      OBVIOUS
    <3>1. i + 1 = j + 1
      BY <1>12 DEF MailOfCall, OneCallIn
    <3> QED BY <1>5, <3>1
  <2>2. \A i \in 1 .. Len(t) : IsCall(t[i]) => t[i].msg.asdu.node_count <= 1
    BY <1>12 DEF MailOfCall, OneCallIn
  <2>3. n > 0 => NoCallIn(t)
    BY <1>12 DEF MailOfCall, NoCallIn
  <2>4. IsCall(mb[1]) => NoCallIn(t)
    BY <1>3, <1>8, <1>12 DEF MailOfCall, OneCallIn, NoCallIn
  <2> QED BY <2>1, <2>2, <2>3, <2>4 DEF OneCallIn
<1>14. IsCall(mb[1]) => n = 0 /\ mb[1].msg.asdu.node_count <= 1
  BY <1>3, <1>8 DEF MailOfCall, OneCallIn, NoCallIn
<1>15. IsCall(mb[1]) => ~IsPart(EventLabel(mb[1]))
  <2> SUFFICES ASSUME IsCall(mb[1]) PROVE ~IsPart(EventLabel(mb[1]))
    OBVIOUS
  <2>1. mb[1] \in Events /\ mb[1].evt_sub_type = "USER"
    BY <1>3, <1>8, ElementOfSeq DEF IsCall
  <2>2. mb[1].evt_type = "APP_RECV_DATA"
    BY <2>1, CommandOfEvent DEF HandOver, Event
  <2> QED BY <2>2 DEF EventLabel, IsPart, OfCall, C_IC_NA
<1>16. IsPart(EventLabel(mb[1])) =>
         m < n /\ EventLabel(mb[1]) = CallPieces[m + 1] /\ MailOfCall(t, m + 1, n)
  BY <1>8, <1>10, <1>11, <1>13 DEF MailOfCall
<1>17. ~IsPart(EventLabel(mb[1])) => MailOfCall(t, m, n)
  BY <1>8, <1>10, <1>11, <1>13 DEF MailOfCall
<1>18. IsCall(mb[1]) => NoCallIn(t) /\ Coming(t, 0, 0)
  <2> SUFFICES ASSUME IsCall(mb[1]) PROVE NoCallIn(t) /\ Coming(t, 0, 0)
    OBVIOUS
  <2>1. n = 0 /\ m = 0
    BY <1>14
  <2> QED BY <1>13, <1>15, <1>17, <2>1 DEF MailOfCall
<1> QED BY <1>4, <1>14, <1>16, <1>17, <1>18

LEMMA MailPosted ==
  ASSUME NEW mb \in Seq(Events), NEW e \in Events, NEW more, more = Append(mb, e),
         NEW m \in 0 .. 4, NEW n \in 0 .. 4, m <= n, Coming(mb, m, n)
  PROVE  /\ ~IsPart(EventLabel(e)) => Coming(more, m, n)
         /\ n < 4 /\ EventLabel(e) = CallPieces[n + 1] => Coming(more, m, n + 1)
         /\ ~IsCall(e) => /\ NoCallIn(mb) => NoCallIn(more)
                          /\ OneCallIn(mb) => OneCallIn(more)
         /\ NoCallIn(mb) /\ (IsCall(e) => e.msg.asdu.node_count <= 1) => OneCallIn(more)
<1>1. PICK k : k = Len(mb)
  OBVIOUS
<1>2. PICK q : q = EventLabels(mb)
  OBVIOUS
<1>3. PICK now : now = EventLabels(more)
  OBVIOUS
<1>4. /\ k \in Nat /\ Len(more) = k + 1 /\ more[k + 1] = e
      /\ \A i \in 1 .. k : more[i] = mb[i]
  BY <1>1, AppendProperties, LenProperties
<1>5. (\A i \in 1 .. k : q[i] = EventLabel(mb[i])) /\ \A i \in 1 .. k + 1 : now[i] = EventLabel(more[i])
  BY <1>1, <1>2, <1>3, <1>4 DEF EventLabels
<1>6. InTurn(q, k, m, n)
  BY <1>1, <1>2 DEF Coming
<1>7. (\A i \in 1 .. k : now[i] = q[i]) /\ now[k + 1] = EventLabel(e)
  <2>1. k + 1 \in 1 .. k + 1 /\ \A i \in 1 .. k : i \in 1 .. k + 1
    BY <1>4
  <2> QED BY <1>4, <1>5, <2>1
<1>8. /\ ~IsPart(now[k + 1]) => InTurn(now, k + 1, m, n)
      /\ n < 4 /\ now[k + 1] = CallPieces[n + 1] => InTurn(now, k + 1, m, n + 1)
  BY <1>4, <1>6, <1>7, LastInTurn
<1>9. ASSUME NEW i \in 1 .. Len(more)
      PROVE  (i = k + 1 /\ more[i] = e) \/ (i \in 1 .. Len(mb) /\ more[i] = mb[i])
  <2>1. CASE i = k + 1
    BY <1>4, <2>1
  <2>2. CASE i # k + 1
    <3>1. i \in 1 .. k
      BY <1>4, <2>2
    <3> QED BY <1>1, <1>4, <3>1
  <2> QED BY <2>1, <2>2
<1>10. ~IsCall(e) => (NoCallIn(mb) => NoCallIn(more)) /\ (OneCallIn(mb) => OneCallIn(more))
  <2> SUFFICES ASSUME ~IsCall(e)
               PROVE  (NoCallIn(mb) => NoCallIn(more)) /\ (OneCallIn(mb) => OneCallIn(more))
    OBVIOUS
  <2>1. \A i \in 1 .. Len(more) : IsCall(more[i]) => i \in 1 .. Len(mb) /\ more[i] = mb[i]
    BY <1>9
  <2> QED BY <2>1 DEF NoCallIn, OneCallIn
<1>11. NoCallIn(mb) /\ (IsCall(e) => e.msg.asdu.node_count <= 1) => OneCallIn(more)
  <2> SUFFICES ASSUME NoCallIn(mb), IsCall(e) => e.msg.asdu.node_count <= 1
               PROVE  OneCallIn(more)
    OBVIOUS
  <2>1. \A i \in 1 .. Len(more) : IsCall(more[i]) => i = k + 1 /\ more[i] = e
    BY <1>9 DEF NoCallIn
  <2> QED BY <2>1 DEF OneCallIn
<1> QED BY <1>3, <1>4, <1>7, <1>8, <1>10, <1>11 DEF Coming

LEMMA OtherPosted ==
  ASSUME NEW mb \in Seq(Events), NEW e \in Events, ~IsPart(EventLabel(e)), ~IsCall(e),
         NEW m \in 0 .. 4, NEW n \in 0 .. 4, m <= n, MailOfCall(mb, m, n)
  PROVE  MailOfCall(iec_post_event(mb, AppMb, e), m, n)
<1>1. PICK more : more = Append(mb, e)
  OBVIOUS
<1>2. Coming(mb, m, n) /\ OneCallIn(mb) /\ (n > 0 => NoCallIn(mb))
  BY DEF MailOfCall
<1>3. /\ ~IsPart(EventLabel(e)) => Coming(more, m, n)
      /\ ~IsCall(e) => /\ NoCallIn(mb) => NoCallIn(more)
                       /\ OneCallIn(mb) => OneCallIn(more)
  BY <1>1, <1>2, MailPosted
<1>4. MailOfCall(more, m, n)
  BY <1>2, <1>3 DEF MailOfCall
<1>5. iec_post_event(mb, AppMb, e) = more \/ iec_post_event(mb, AppMb, e) = mb
  BY <1>1 DEF iec_post_event
<1> QED BY <1>4, <1>5

LEMMA CallPosted ==
  ASSUME NEW mb \in Seq(Events), NEW e \in Events, IsCall(e), e.msg.asdu.node_count <= 1,
         ~IsPart(EventLabel(e)), Coming(mb, 0, 0), NoCallIn(mb)
  PROVE  MailOfCall(iec_post_event(mb, AppMb, e), 0, 0)
<1>1. PICK more : more = Append(mb, e)
  OBVIOUS
<1>2. 0 \in 0 .. 4 /\ 0 <= 0 /\ ~(0 > 0)
  OBVIOUS
<1>3. /\ ~IsPart(EventLabel(e)) => Coming(more, 0, 0)
      /\ NoCallIn(mb) /\ (IsCall(e) => e.msg.asdu.node_count <= 1) => OneCallIn(more)
  BY <1>1, <1>2, MailPosted
<1>4. MailOfCall(more, 0, 0) /\ MailOfCall(mb, 0, 0)
  BY <1>2, <1>3 DEF MailOfCall, NoCallIn, OneCallIn
<1>5. iec_post_event(mb, AppMb, e) = more \/ iec_post_event(mb, AppMb, e) = mb
  BY <1>1 DEF iec_post_event
<1> QED BY <1>4, <1>5

\* The parts up to n were reported; when a part is missing, for want of room.
ReportedUpTo(mb, n) ==
  \E k \in 1 .. n : Coming(mb, 1, k) /\ (k < n => Len(mb) >= AppMb)

LEMMA PartPosted ==
  ASSUME NEW mb \in Seq(Events), Len(mb) <= AppMb, NoCallIn(mb), NEW n \in 1 .. 3,
         ReportedUpTo(mb, n),
         NEW u \in Updates, <<u.ident, u.cause>> = CallPieces[n + 1],
         NEW new, new = Reported(mb, u)
  PROVE  new \in Seq(Events) /\ Len(new) <= AppMb /\ NoCallIn(new) /\ ReportedUpTo(new, n + 1)
<1>1. PICK e : e = NodeUpdate(u)
  OBVIOUS
<1>2. e \in Events /\ EventLabel(e) = CallPieces[n + 1] /\ ~IsCall(e)
  BY <1>1 DEF Events, NodeUpdate, Event, EventLabel, IsCall
<1>3. PICK k \in 1 .. n : Coming(mb, 1, k) /\ (k < n => Len(mb) >= AppMb)
  BY DEF ReportedUpTo
<1>4. new = iec_post_event(mb, AppMb, e)
  BY <1>1 DEF Reported
<1>5. new \in Seq(Events) /\ Len(new) <= AppMb
  BY <1>2, <1>4, PostedTyped
<1>6. Len(mb) \in Nat /\ AppMb \in Nat
  BY LenProperties, BoundsAssumption
<1>7. CASE Len(mb) < AppMb
  <2>1. k = n /\ new = Append(mb, e)
    BY <1>3, <1>4, <1>6, <1>7 DEF iec_post_event
  <2>2. n \in 0 .. 4 /\ 1 \in 0 .. 4 /\ 1 <= n /\ n < 4 /\ Coming(mb, 1, n)
    BY <1>3, <2>1
  <2>3. Coming(new, 1, n + 1) /\ NoCallIn(new)
    BY <1>2, <2>1, <2>2, MailPosted
  <2>4. n + 1 \in 1 .. n + 1 /\ ~(n + 1 < n + 1)
    OBVIOUS
  <2> QED BY <1>5, <2>3, <2>4 DEF ReportedUpTo
<1>8. CASE ~(Len(mb) < AppMb)
  <2>1. new = mb /\ Len(mb) >= AppMb /\ k \in 1 .. n + 1
    BY <1>4, <1>6, <1>8 DEF iec_post_event
  <2> QED BY <1>3, <1>5, <2>1 DEF ReportedUpTo
<1> QED BY <1>7, <1>8

LEMMA CallIsComing ==
  ASSUME PointsTyped, NEW mb \in Seq(Events), Len(mb) <= AppMb, NoCallIn(mb), Coming(mb, 0, 0)
  PROVE  \E n \in 1 .. 4 : MailOfCall(CallReported(mb), 1, n)
<1> DEFINE us == iec_all_call_proc
           m1 == Reported(mb, us[1])
           m2 == Reported(m1, us[2])
           m3 == Reported(m2, us[3])
<1>1. us[1] \in Updates /\ us[2] \in Updates /\ us[3] \in Updates
  BY CallTyped DEF iec_all_call_proc
<1>2. /\ <<us[1].ident, us[1].cause>> = CallPieces[1 + 1]
      /\ <<us[2].ident, us[2].cause>> = CallPieces[2 + 1]
      /\ <<us[3].ident, us[3].cause>> = CallPieces[3 + 1]
  BY DEF iec_all_call_proc, yx_all_cll, MeasuredCall, Termination, Update, CallPieces
<1>3. m3 = CallReported(mb)
  BY DEF CallReported
<1>4. ReportedUpTo(mb, 1)
  <2>1. Coming(mb, 1, 1)
    <3>1. PICK k : k = Len(mb)
      OBVIOUS
    <3>2. PICK q : q = EventLabels(mb)
      OBVIOUS
    <3>3. k \in Nat /\ InTurn(q, k, 0, 0)
      BY <3>1, <3>2, LenProperties DEF Coming
    <3>4. InTurn(q, k, 1, 1)
      BY <3>3, NoPart
    <3> QED BY <3>1, <3>2, <3>4 DEF Coming
  <2> QED BY <2>1 DEF ReportedUpTo
<1> HIDE DEF us
<1>5. m1 \in Seq(Events) /\ Len(m1) <= AppMb /\ NoCallIn(m1) /\ ReportedUpTo(m1, 1 + 1)
  BY <1>1, <1>2, <1>4, PartPosted
<1> HIDE DEF m1
<1>6. m2 \in Seq(Events) /\ Len(m2) <= AppMb /\ NoCallIn(m2) /\ ReportedUpTo(m2, 2 + 1)
  BY <1>1, <1>2, <1>5, PartPosted
<1> HIDE DEF m2
<1>7. NoCallIn(m3) /\ ReportedUpTo(m3, 3 + 1)
  BY <1>1, <1>2, <1>6, PartPosted
<1> HIDE DEF m3
<1>8. PICK n \in 1 .. 4 : Coming(m3, 1, n)
  BY <1>7 DEF ReportedUpTo
<1>9. MailOfCall(m3, 1, n)
  BY <1>7, <1>8 DEF MailOfCall, NoCallIn, OneCallIn
<1> QED BY <1>3, <1>9

\* What a link that hands over a call does not find waiting.
LEMMA NothingWaits ==
  ASSUME NEW l, Links = {l}, TasksTyped, MailTyped, ~CallWaits(l)
  PROVE  Waiting(tasks["LEVEL_1"], 0, 0) /\ Coming(app_event, 0, 0) /\ NoCallIn(app_event)
<1>1. PICK al : al = tasks["LEVEL_1"]
  OBVIOUS
<1>2. PICK mb : mb = app_event
  OBVIOUS
<1>3. al \in Seq(Tasks) /\ mb \in Seq(Events)
  BY <1>1, <1>2 DEF TasksTyped, MailTyped, Levels
<1>4. /\ DOMAIN al = 1 .. Len(al) /\ DOMAIN mb = 1 .. Len(mb)
      /\ Len(al) \in Nat /\ Len(mb) \in Nat
      /\ \A i \in 1 .. Len(al) : al[i] \in Tasks
  BY <1>3, LenProperties, ElementOfSeq
<1>5. \A i \in 1 .. Len(al) : ~IsPart(TaskLabels(al)[i])
  <2>1. \A i \in 1 .. Len(al) : al[i].link_id = l
    BY <1>4 DEF Tasks
  <2>2. \A i \in 1 .. Len(al) : ~OfCall(al[i].asdu_ident, al[i].cause)
    BY <1>1, <1>4, <2>1 DEF CallWaits
  <2> QED BY <2>2 DEF IsPart, TaskLabels, TaskLabel
<1>6. \A i \in 1 .. Len(mb) : ~IsCall(mb[i])
  BY <1>2, <1>4 DEF CallWaits, IsCall
<1>7. \A i \in 1 .. Len(mb) : ~IsPart(EventLabels(mb)[i])
  <2> SUFFICES ASSUME NEW i \in 1 .. Len(mb) PROVE ~IsPart(EventLabel(mb[i]))
    BY DEF EventLabels
  <2>1. CASE mb[i].evt_type = "APP_NODE_UPDATE"
    <3>1. ~OfCall(mb[i].msg.ident, mb[i].msg.cause)
      BY <1>2, <1>4, <2>1 DEF CallWaits
    <3> QED BY <2>1, <3>1 DEF IsPart, EventLabel
  <2>2. CASE mb[i].evt_type # "APP_NODE_UPDATE"
    BY <2>2 DEF IsPart, EventLabel, OfCall, C_IC_NA
  <2> QED BY <2>1, <2>2
<1>8. InTurn(TaskLabels(al), Len(al), 0, 0) /\ InTurn(EventLabels(mb), Len(mb), 0, 0)
  BY <1>4, <1>5, <1>7, NoPart
<1> QED BY <1>1, <1>2, <1>6, <1>8 DEF Waiting, Coming, NoCallIn

-----------------------------------------------------------------------------
(* Of a call that was made when nothing of an earlier one waited, g parts  *)
(* were handed to the link, those up to m wait as tasks and those up to n  *)
(* as reports, which become tasks because the link was called.             *)
CallParts(l, g, m, n) ==
  /\ g <= m /\ m <= n
  /\ Len(call[l].got) = g /\ \A i \in 1 .. g : call[l].got[i] = CallPieces[i]
  /\ Waiting(tasks["LEVEL_1"], g, m) /\ MailOfCall(app_event, m, n)
  /\ active[l] = 1 /\ (m < n => data_trans_active[l] = 1)

Calls == [fresh : BOOLEAN, got : Seq(Idents \X Causes)]

CallInv ==
  /\ call \in [Links -> Calls]
  /\ pulse # <<>> => pulse[1].asdu.asdu_ident # C_IC_NA
  /\ \A l \in Links : call[l].fresh => \E g, m, n \in 0 .. 4 : CallParts(l, g, m, n)

LEMMA CallInit ==
  ASSUME Init
  PROVE  CallInv
<1>1. call = [l \in Links |-> NoCall] /\ pulse = <<>>
  BY DEF Init
<1>2. NoCall \in Calls /\ ~NoCall.fresh
  BY DEF NoCall, Calls
<1> QED BY <1>1, <1>2 DEF CallInv

\* Neither a request nor a command is part of a call, nor is data that changed.
LEMMA OtherEvents ==
  /\ \A l, lvl : ~IsPart(EventLabel(Ask(l, lvl)))
  /\ \A l, a : /\ ~IsPart(EventLabel(HandOver(l, a)))
               /\ IsCall(HandOver(l, a)) <=> a.asdu_ident = C_IC_NA
  /\ \A l : \A lvl \in Levels : ~IsCall(Ask(l, lvl))
  /\ \A u : EventLabel(NodeUpdate(u)) = <<u.ident, u.cause>> /\ ~IsCall(NodeUpdate(u))
  /\ \A ident, cause : ident # C_IC_NA /\ cause # "Introgen" => ~IsPart(<<ident, cause>>)
BY DEF Ask, HandOver, NodeUpdate, Event, EventLabel, IsPart, OfCall, IsCall, Levels, C_IC_NA

LEMMA PostedInCall ==
  ASSUME StationInv, CallInv, NEW e \in Events, ~IsPart(EventLabel(e)), ~IsCall(e),
         app_event' = iec_post_event(app_event, AppMb, e),
         UNCHANGED <<tasks, pulse, call, data_trans_active>>,
         \A l \in Links : active[l] = 1 => active'[l] = 1
  PROVE  CallInv'
<1> SUFFICES ASSUME NEW l \in Links, call[l].fresh
             PROVE  \E g, m, n \in 0 .. 4 : CallParts(l, g, m, n)'
  BY DEF CallInv
<1>1. PICK g \in 0 .. 4, m \in 0 .. 4, n \in 0 .. 4 : CallParts(l, g, m, n)
  BY DEF CallInv
<1>2. m <= n /\ MailOfCall(app_event, m, n) /\ app_event \in Seq(Events)
  BY <1>1 DEF CallParts, StationInv, MailTyped
<1>3. MailOfCall(app_event', m, n)
  BY <1>2, OtherPosted
<1>4. CallParts(l, g, m, n)'
  BY <1>1, <1>3 DEF CallParts
<1> QED BY <1>4

LEMMA LinkAsksInCall ==
  ASSUME StationInv, CallInv, NEW l \in Links, NEW lvl \in Levels, LinkAsks(l, lvl)
  PROVE  CallInv'
<1>1. Ask(l, lvl) \in Events
  BY DEF Events
<1>2. /\ app_event' = iec_post_event(app_event, AppMb, Ask(l, lvl)) /\ active' = active
      /\ UNCHANGED <<tasks, pulse, call, data_trans_active>>
  BY DEF LinkAsks, historyVars
<1>3. ~IsPart(EventLabel(Ask(l, lvl))) /\ ~IsCall(Ask(l, lvl))
  BY OtherEvents
<1>4. PICK e : e = Ask(l, lvl)
  OBVIOUS
<1> QED BY <1>1, <1>2, <1>3, <1>4, PostedInCall

LEMMA LinkResetInCall ==
  ASSUME OneLink, CallInv, NEW l \in Links, LinkReset(l)
  PROVE  CallInv'
<1>1. Links = {l} /\ call \in [Links -> Calls]
  BY DEF OneLink, CallInv
<1>2. call' = [call EXCEPT ![l].fresh = FALSE] /\ pulse' = pulse
  BY DEF LinkReset, taskVars
<1>3. call' \in [Links -> Calls] /\ ~call'[l].fresh
  BY <1>1, <1>2 DEF Calls
<1> QED BY <1>1, <1>2, <1>3 DEF CallInv

LEMMA LinkHandsOverInCall ==
  ASSUME OneLink, StationInv, CallInv, NEW l \in Links, NEW a \in Commands, LinkHandsOver(l, a)
  PROVE  CallInv'
<1>1. Links = {l} /\ call \in [Links -> Calls] /\ active \in [Links -> 0 .. 1]
  BY DEF OneLink, CallInv, StationInv, LinksTyped
<1>2. PICK e : e = HandOver(l, a)
  OBVIOUS
<1>3. e \in Events /\ ~IsPart(EventLabel(e)) /\ (IsCall(e) <=> a.asdu_ident = C_IC_NA)
  BY <1>2, OtherEvents DEF Events
<1>4. /\ app_event' = iec_post_event(app_event, AppMb, e)
      /\ UNCHANGED <<tasks, pulse, data_trans_active>> /\ active' = [active EXCEPT ![l] = 1]
  BY <1>2 DEF LinkHandsOver
<1>5. active'[l] = 1
  BY <1>1, <1>4
<1>6. CASE a.asdu_ident # C_IC_NA
  <2>1. call' = [call EXCEPT ![l] = @]
    BY <1>6 DEF LinkHandsOver
  <2>2. call' = call
    BY <1>1, <2>1
  <2>3. \A k \in Links : active[k] = 1 => active'[k] = 1
    BY <1>1, <1>5
  <2> QED BY <1>3, <1>4, <1>6, <2>2, <2>3, PostedInCall
<1>7. CASE a.asdu_ident = C_IC_NA
  <2>1. PICK b \in BOOLEAN : b <=> (a.node_count <= 1 /\ ~CallWaits(l))
    <3>1. CASE a.node_count <= 1 /\ ~CallWaits(l)
      BY <3>1
    <3>2. CASE ~(a.node_count <= 1 /\ ~CallWaits(l))
      BY <3>2
    <3> QED BY <3>1, <3>2
  <2>2. PICK c : c = [fresh |-> b, got |-> <<>>]
    OBVIOUS
  <2>3. call' = [call EXCEPT ![l] = c]
    <3>1. (a.node_count <= 1 /\ ~CallWaits(l)) = b
      BY <2>1, Zenon
    <3>2. call' = [call EXCEPT ![l] = [fresh |-> (a.node_count <= 1 /\ ~CallWaits(l)), got |-> <<>>]]
      BY <1>7 DEF LinkHandsOver
    <3> QED BY <2>2, <3>1, <3>2, Zenon
  <2>4. c \in Calls /\ c.fresh = b /\ c.got = <<>>
    BY <2>2 DEF Calls
  <2>5. call' \in [Links -> Calls] /\ call'[l] = c
    BY <1>1, <2>3, <2>4
  <2>6. ASSUME b PROVE CallParts(l, 0, 0, 0)'
    <3>1. a.node_count <= 1 /\ ~CallWaits(l)
      BY <2>1, <2>6
    <3>2. Waiting(tasks["LEVEL_1"], 0, 0) /\ Coming(app_event, 0, 0) /\ NoCallIn(app_event)
      BY <1>1, <3>1, NothingWaits DEF StationInv
    <3>3. app_event \in Seq(Events) /\ e.msg.asdu.node_count <= 1
      BY <1>2, <3>1 DEF StationInv, MailTyped, HandOver, Event
    <3>4. MailOfCall(app_event', 0, 0)
      BY <1>3, <1>4, <1>7, <3>2, <3>3, CallPosted
    <3>5. Len(call'[l].got) = 0
      BY <2>4, <2>5
    <3> QED BY <1>4, <1>5, <3>2, <3>4, <3>5 DEF CallParts
  <2>7. call'[l].fresh => \E g, m, n \in 0 .. 4 : CallParts(l, g, m, n)'
    BY <2>4, <2>5, <2>6
  <2>8. (pulse # <<>> => pulse[1].asdu.asdu_ident # C_IC_NA)'
    BY <1>4 DEF CallInv
  <2> QED BY <1>1, <2>5, <2>7, <2>8 DEF CallInv
<1> QED BY <1>6, <1>7

LEMMA DeviceInCall ==
  ASSUME StationInv, StationInv', CallInv, DeviceStep
  PROVE  CallInv'
<1>1. UNCHANGED <<tasks, pulse, call, data_trans_active, active>>
  BY DEF DeviceStep, Sample, Measure, SignalChanges, SwitchMoves, taskVars, linkVars, historyVars
<1>2. ASSUME NEW u, NodeUpdate(u) \in Events, u.cause = "Spont", u.ident # C_IC_NA,
             app_event' = iec_post_event(app_event, AppMb, NodeUpdate(u))
      PROVE  CallInv'
  <2>1. PICK e : e = NodeUpdate(u)
    OBVIOUS
  <2>2. ~IsPart(EventLabel(e)) /\ ~IsCall(e)
    BY <1>2, <2>1, OtherEvents
  <2> QED BY <1>1, <1>2, <2>1, <2>2, PostedInCall
<1>3. CASE Sample
  <2>1. PICK u : u = Update("LEVEL_2", M_ME_NB, "Spont", NodeOf(InOrder(Changed), real, 0))
    OBVIOUS
  <2>2. u \in Updates /\ u.cause = "Spont" /\ u.ident # C_IC_NA
    BY <1>3, <2>1, MeasuredTyped DEF Sample, StationInv, DeviceTyped, Update, M_ME_NB, C_IC_NA
  <2>3. NodeUpdate(u) \in Events
    BY <2>2 DEF Events
  <2>4. app_event' = iec_post_event(app_event, AppMb, NodeUpdate(u))
    BY <1>3, <2>1 DEF Sample
  <2> QED BY <1>2, <2>2, <2>3, <2>4
<1>4. ASSUME NEW p \in Wired, app_event' = iec_post_event(app_event, AppMb, Notify(p))
      PROVE  CallInv'
  <2>1. PICK u : u = Update("LEVEL_1", M_SP_NA, "Spont", NodeOf(<<p>>, Status', 0))
    OBVIOUS
  <2>2. Notify(p) = NodeUpdate(u) /\ u.cause = "Spont" /\ u.ident # C_IC_NA
    BY <2>1 DEF Notify, Update, M_SP_NA, C_IC_NA
  <2>3. Notify(p) \in Events
    BY NotifyTyped DEF StationInv, DeviceTyped
  <2> QED BY <1>2, <1>4, <2>2, <2>3
<1>5. CASE Measure
  <2>1. app_event' = app_event
    BY <1>5 DEF Measure, taskVars
  <2> QED BY <1>1, <2>1 DEF CallInv, CallParts
<1>6. CASE SignalChanges
  <2>1. PICK p \in Changing : app_event' = iec_post_event(app_event, AppMb, Notify(p))
    BY <1>6 DEF SignalChanges
  <2>2. p \in Wired
    BY SignalsAssumption DEF Signals
  <2> QED BY <1>4, <2>1, <2>2
<1>7. CASE SwitchMoves
  <2>1. app_event' = iec_post_event(app_event, AppMb, Notify(YX_CLOSE_ADDR))
    BY <1>7 DEF SwitchMoves
  <2> QED BY <1>4, <2>1, WiredIsFinite
<1> QED BY <1>3, <1>5, <1>6, <1>7 DEF DeviceStep

LEMMA RequestInCall ==
  ASSUME OneLink, StationInv, ConfirmInv, CallInv, AppRequest
  PROVE  CallInv'
<1>1. PICK l : Links = {l}
  BY DEF OneLink
<1>2. TasksTyped /\ MailTyped /\ call \in [Links -> Calls]
  BY DEF StationInv, CallInv
<1>3. PICK lvl \in Levels :
        /\ app_event # <<>> /\ Head(app_event) = Ask(l, lvl) /\ app_event' = Tail(app_event)
        /\ \/ tasks[lvl] = <<>> /\ UNCHANGED <<tasks, image, call, awaited, unconfirmed>>
           \/ /\ tasks[lvl] # <<>> /\ tasks' = [tasks EXCEPT ![lvl] = Tail(@)]
              /\ \E single \in Garbage :
                   HandsOut(app_task_covert_to_asdu_frame(tasks[lvl][1], single))
  BY <1>1, <1>2, RequestDoes
<1>4. UNCHANGED <<pulse, active, data_trans_active>>
  BY DEF AppRequest, linkVars
<1>5. app_event \in Seq(Events) /\ ~IsPart(EventLabel(app_event[1]))
  <2>1. app_event \in Seq(Events) /\ app_event[1] = Head(app_event)
    BY <1>2, <1>3 DEF MailTyped
  <2> QED BY <1>3, <2>1, OtherEvents
<1>6. ASSUME NEW m \in 0 .. 4, NEW n \in 0 .. 4, m <= n, MailOfCall(app_event, m, n)
      PROVE  MailOfCall(app_event', m, n)
  BY <1>3, <1>5, <1>6, MailTaken
<1>7. (pulse # <<>> => pulse[1].asdu.asdu_ident # C_IC_NA)'
  BY <1>4 DEF CallInv
<1>8. ASSUME UNCHANGED call, tasks'["LEVEL_1"] = tasks["LEVEL_1"] PROVE CallInv'
  <2> SUFFICES ASSUME call[l].fresh PROVE \E g, m, n \in 0 .. 4 : CallParts(l, g, m, n)'
    BY <1>1, <1>2, <1>7, <1>8 DEF CallInv
  <2>1. PICK g \in 0 .. 4, m \in 0 .. 4, n \in 0 .. 4 : CallParts(l, g, m, n)
    BY <1>1 DEF CallInv
  <2>2. MailOfCall(app_event', m, n)
    BY <1>6, <2>1 DEF CallParts
  <2>3. CallParts(l, g, m, n)'
    BY <1>4, <1>8, <2>1, <2>2 DEF CallParts
  <2> QED BY <2>3
<1>9. CASE /\ tasks[lvl] # <<>> /\ tasks' = [tasks EXCEPT ![lvl] = Tail(@)]
           /\ \E single \in Garbage :
                HandsOut(app_task_covert_to_asdu_frame(tasks[lvl][1], single))
  <2>1. PICK single \in Garbage : HandsOut(Frame(tasks[lvl][1], single))
    BY <1>9 DEF Frame
  <2>2. PICK f : f = Frame(tasks[lvl][1], single)
    OBVIOUS
  <2>3. PICK al : al = tasks[lvl]
    OBVIOUS
  <2>4. al \in Seq(Tasks) /\ al # <<>> /\ al[1] \in Tasks /\ 1 \in 1 .. Len(al)
    <3>1. al \in Seq(Tasks) /\ al # <<>>
      BY <1>2, <1>9, <2>3 DEF TasksTyped
    <3>2. Len(al) \in Nat \ {0}
      BY <3>1, EmptySeq
    <3> QED BY <3>1, <3>2, ElementOfSeq
  <2>5. f.link_id = l /\ f.ident = al[1].asdu_ident /\ f.cause = al[1].cause
    <3>1. /\ f.link_id = al[1].link_id /\ f.ident = al[1].asdu_ident /\ f.cause = al[1].cause
      BY <2>2, <2>3, <2>4, FrameOfTask
    <3> QED BY <1>1, <2>4, <3>1 DEF Tasks
  <2>6. PICK label : label = TaskLabel(al[1])
    OBVIOUS
  <2>7. label = Piece(f) /\ label \in Idents \X Causes /\ (IsPart(label) <=> OfCall(f.ident, f.cause))
    BY <2>4, <2>5, <2>6 DEF Piece, TaskLabel, Tasks, IsPart
  <2>8. /\ IsPart(label) => call' = [call EXCEPT ![l].got = Append(@, label)]
        /\ ~IsPart(label) => call' = [call EXCEPT ![l].got = @]
    <3>1. call' = [call EXCEPT ![f.link_id].got = IF OfCall(f.ident, f.cause)
                                                  THEN Append(@, Piece(f)) ELSE @]
      BY <2>1, <2>2 DEF HandsOut
    <3>2. CASE IsPart(label)
      <4>1. OfCall(f.ident, f.cause)
        BY <2>7, <3>2
      <4> QED BY <2>5, <2>7, <3>1, <3>2, <4>1
    <3>3. CASE ~IsPart(label)
      <4>1. ~OfCall(f.ident, f.cause)
        BY <2>7, <3>3
      <4> QED BY <2>5, <3>1, <3>3, <4>1
    <3> QED BY <3>2, <3>3
  <2>9. tasks'[lvl] = Tail(al) /\ \A k \in Levels : k # lvl => tasks'[k] = tasks[k]
    BY <1>2, <1>9, <2>3 DEF TasksTyped
  <2>10. call[l] \in Calls /\ call[l].got \in Seq(Idents \X Causes)
    BY <1>1, <1>2 DEF Calls
  <2>11. CASE ~IsPart(label)
    <3>1. call' = call
      <4>1. [call[l] EXCEPT !.got = @] = call[l]
        BY <2>10 DEF Calls
      <4>2. call' = [call EXCEPT ![l] = [call[l] EXCEPT !.got = @]]
        BY <2>8, <2>11
      <4> QED BY <1>1, <1>2, <4>1, <4>2
    <3>2. CASE lvl = "LEVEL_2"
      <4>1. tasks'["LEVEL_1"] = tasks["LEVEL_1"]
        BY <2>9, <3>2 DEF Levels
      <4> QED BY <1>8, <3>1, <4>1
    <3>3. CASE lvl = "LEVEL_1"
      <4> SUFFICES ASSUME call[l].fresh PROVE \E g, m, n \in 0 .. 4 : CallParts(l, g, m, n)'
        BY <1>1, <1>2, <1>7, <3>1 DEF CallInv
      <4>1. PICK g \in 0 .. 4, m \in 0 .. 4, n \in 0 .. 4 : CallParts(l, g, m, n)
        BY <1>1 DEF CallInv
      <4>2. g <= m /\ Waiting(al, g, m)
        BY <2>3, <3>3, <4>1 DEF CallParts
      <4>3. Waiting(Tail(al), g, m)
        BY <2>4, <2>6, <2>11, <4>2, PartTaken
      <4>4. MailOfCall(app_event', m, n)
        BY <1>6, <4>1 DEF CallParts
      <4>5. CallParts(l, g, m, n)'
        BY <1>4, <2>9, <3>1, <3>3, <4>1, <4>3, <4>4 DEF CallParts
      <4> QED BY <4>5
    <3> QED BY <3>2, <3>3 DEF Levels
  <2>12. CASE IsPart(label)
    <3>1. lvl = "LEVEL_1"
      <4> SUFFICES ASSUME lvl = "LEVEL_2" PROVE FALSE
        BY DEF Levels
      <4>1. IsSample(al[1])
        BY <2>3, <2>4 DEF ConfirmInv
      <4> QED BY <2>6, <2>12, <4>1 DEF IsSample, TaskLabel, IsPart, OfCall, M_ME_NB, C_IC_NA
    <3>2. PICK c : c = [call[l] EXCEPT !.got = Append(@, label)]
      OBVIOUS
    <3>3. call' = [call EXCEPT ![l] = c]
      BY <2>8, <2>12, <3>2
    <3>4. c \in Calls /\ c.fresh = call[l].fresh /\ c.got = Append(call[l].got, label)
      <4>1. Append(call[l].got, label) \in Seq(Idents \X Causes)
        BY <2>7, <2>10, AppendProperties
      <4> QED BY <2>10, <3>2, <4>1 DEF Calls
    <3>5. call' \in [Links -> Calls] /\ call'[l] = c
      BY <1>1, <1>2, <3>3, <3>4
    <3> SUFFICES ASSUME call[l].fresh PROVE \E g, m, n \in 0 .. 4 : CallParts(l, g, m, n)'
      BY <1>1, <1>7, <3>4, <3>5 DEF CallInv
    <3>6. PICK g \in 0 .. 4, m \in 0 .. 4, n \in 0 .. 4 : CallParts(l, g, m, n)
      BY <1>1 DEF CallInv
    <3>7. g <= m /\ Waiting(al, g, m)
      BY <2>3, <3>1, <3>6 DEF CallParts
    <3>8. g < m /\ label = CallPieces[g + 1] /\ Waiting(Tail(al), g + 1, m)
      BY <2>4, <2>6, <2>12, <3>7, PartTaken
    <3>9. MailOfCall(app_event', m, n)
      BY <1>6, <3>6 DEF CallParts
    <3>10. g + 1 \in 0 .. 4 /\ g + 1 <= m
      BY <3>8
    <3>11. PICK got : got = call[l].got
      OBVIOUS
    <3>12. got \in Seq(Idents \X Causes) /\ Len(got) = g /\ \A i \in 1 .. g : got[i] = CallPieces[i]
      BY <2>10, <3>6, <3>11 DEF CallParts
    <3>13. /\ Len(Append(got, label)) = g + 1
           /\ \A i \in 1 .. g + 1 : Append(got, label)[i] = CallPieces[i]
      <4>1. PICK more : more = Append(got, label)
        OBVIOUS
      <4>2. Len(more) = g + 1 /\ more[g + 1] = label /\ \A i \in 1 .. g : more[i] = got[i]
        BY <2>7, <3>12, <4>1, AppendProperties
      <4>3. \A i \in 1 .. g + 1 : i \in 1 .. g \/ i = g + 1
        OBVIOUS
      <4> QED BY <3>8, <3>12, <4>1, <4>2, <4>3
    <3>14. tasks'["LEVEL_1"] = Tail(al)
      BY <2>9, <3>1
    <3>15. CallParts(l, g + 1, m, n)'
      BY <1>4, <3>4, <3>5, <3>6, <3>8, <3>9, <3>10, <3>11, <3>13, <3>14 DEF CallParts
    <3> QED BY <3>10, <3>15
  <2> QED BY <2>11, <2>12
<1> QED BY <1>3, <1>8, <1>9

LEMMA UpdateInCall ==
  ASSUME OneLink, StationInv, CallInv, AppUpdate
  PROVE  CallInv'
<1>1. PICK l : Links = {l}
  BY DEF OneLink
<1>2. TasksTyped /\ MailTyped /\ LinksTyped /\ call \in [Links -> Calls]
  BY DEF StationInv, CallInv
<1>3. PICK u \in Updates :
        /\ app_event # <<>> /\ Head(app_event) = NodeUpdate(u) /\ app_event' = Tail(app_event)
        /\ \/ Wanting = {} /\ tasks' = tasks
           \/ Wanting = {l} /\ tasks' = [tasks EXCEPT ![u.level] = Registered(@, l, u)]
  BY <1>1, <1>2, UpdateDoes
<1>4. UNCHANGED <<pulse, call, active, data_trans_active>>
  BY DEF AppUpdate
<1>5. PICK label : label = <<u.ident, u.cause>>
  OBVIOUS
<1>6. app_event \in Seq(Events) /\ EventLabel(app_event[1]) = label
  <2>1. app_event \in Seq(Events) /\ app_event[1] = Head(app_event)
    BY <1>2, <1>3 DEF MailTyped
  <2> QED BY <1>3, <1>5, <2>1, OtherEvents
<1>7. PICK al : al = tasks["LEVEL_1"]
  OBVIOUS
<1>8. PICK new : new = Registered(al, l, u)
  OBVIOUS
<1>9. al \in Seq(Tasks) /\ l \in Links
  BY <1>1, <1>2, <1>7 DEF TasksTyped, Levels
<1>10. tasks'["LEVEL_1"] = al \/ tasks'["LEVEL_1"] = new
  BY <1>2, <1>3, <1>7, <1>8 DEF TasksTyped, Levels
<1> SUFFICES ASSUME call[l].fresh PROVE \E g, m, n \in 0 .. 4 : CallParts(l, g, m, n)'
  BY <1>1, <1>2, <1>4 DEF CallInv
<1>11. PICK g \in 0 .. 4, m \in 0 .. 4, n \in 0 .. 4 : CallParts(l, g, m, n)
  BY <1>1 DEF CallInv
<1>12. g <= m /\ m <= n /\ Waiting(al, g, m) /\ MailOfCall(app_event, m, n)
  BY <1>7, <1>11 DEF CallParts
<1>13. CASE ~IsPart(label)
  <2>1. MailOfCall(app_event', m, n)
    BY <1>3, <1>6, <1>12, <1>13, MailTaken
  <2>2. Waiting(new, g, m)
    BY <1>5, <1>8, <1>9, <1>12, <1>13, PartReported
  <2>3. Waiting(tasks'["LEVEL_1"], g, m)
    BY <1>10, <1>12, <2>2
  <2>4. CallParts(l, g, m, n)'
    BY <1>4, <1>11, <2>1, <2>3 DEF CallParts
  <2> QED BY <2>4
<1>14. CASE IsPart(label)
  <2>1. m < n /\ label = CallPieces[m + 1] /\ MailOfCall(app_event', m + 1, n)
    BY <1>3, <1>6, <1>12, <1>14, MailTaken
  <2>2. m < 4 /\ m + 1 \in 0 .. 4 /\ m + 1 <= n /\ g <= m + 1
    BY <1>12, <2>1
  <2>3. Waiting(new, g, m + 1)
    BY <1>5, <1>8, <1>9, <1>12, <2>1, <2>2, PartReported
  <2>4. u.level = "LEVEL_1"
    BY <1>5, <1>14 DEF Updates, UpdateKinds, IsPart, OfCall, C_IC_NA, M_SP_NA, M_ME_NB
  <2>5. active[l] = 1 /\ data_trans_active[l] = 1
    BY <1>11, <2>1 DEF CallParts
  <2>6. l \in Wanting
    BY <1>9, <2>5 DEF Wanting
  <2>7. tasks'["LEVEL_1"] = new
    BY <1>2, <1>3, <1>7, <1>8, <2>4, <2>6 DEF TasksTyped, Levels
  <2>8. CallParts(l, g, m + 1, n)'
    BY <1>4, <1>11, <2>1, <2>2, <2>3, <2>5, <2>7 DEF CallParts
  <2> QED BY <2>2, <2>8
<1> QED BY <1>13, <1>14

\* An answer is put before the tasks that wait.
LEMMA AnswersDo ==
  ASSUME TasksTyped, NEW l \in Links, NEW a \in Commands, NEW res, Answers(l, a, res),
         NEW cause, cause = app_linkframe_convert_to_asdu(a, res)
  PROVE  /\ tasks'["LEVEL_1"]
              = app_task_insert_ack_asdu(tasks["LEVEL_1"], l, a.asdu_ident, cause, AnswerNode(a))
         /\ cause \in AnswerCauses /\ cause \in Causes /\ cause # "Introgen"
<1>1. cause \in AnswerCauses
  BY AnswerCauseTyped
<1>2. cause \in Causes /\ cause # "Introgen"
  BY <1>1 DEF AnswerCauses, Causes
<1>3. PICK new : new = app_task_insert_ack_asdu(tasks["LEVEL_1"], l, a.asdu_ident, cause, AnswerNode(a))
  OBVIOUS
<1>4. tasks' = [tasks EXCEPT !["LEVEL_1"] = new]
  BY <1>3 DEF Answers, AnswerNode
<1>5. tasks'["LEVEL_1"] = new
  BY <1>4 DEF TasksTyped, Levels
<1> QED BY <1>1, <1>2, <1>3, <1>5

LEMMA OtherAnswersInCall ==
  ASSUME TasksTyped, NEW l \in Links, NEW a \in Commands, a.asdu_ident # C_IC_NA,
         NEW res, Answers(l, a, res),
         NEW g \in 0 .. 4, NEW m \in 0 .. 4, g <= m, Waiting(tasks["LEVEL_1"], g, m)
  PROVE  Waiting(tasks'["LEVEL_1"], g, m)
<1>1. PICK al : al = tasks["LEVEL_1"]
  OBVIOUS
<1>2. PICK cause : cause = app_linkframe_convert_to_asdu(a, res)
  OBVIOUS
<1>3. PICK new : new = app_task_insert_ack_asdu(al, l, a.asdu_ident, cause, AnswerNode(a))
  OBVIOUS
<1>4. tasks'["LEVEL_1"] = new /\ cause \in Causes /\ cause # "Introgen"
  BY <1>1, <1>2, <1>3, AnswersDo
<1>5. ~IsPart(<<a.asdu_ident, cause>>)
  BY <1>4, OtherEvents
<1>6. al \in Seq(Tasks)
  BY <1>1 DEF TasksTyped, Levels
<1>7. AnswerNode(a) \in Nodes /\ a.asdu_ident \in Idents
  BY AnswerNodeTyped
<1>8. Waiting(al, g, m)
  BY <1>1
<1>9. Waiting(new, g, m)
  BY <1>3, <1>4, <1>5, <1>6, <1>7, <1>8, OtherAnswered
<1> QED BY <1>4, <1>9

LEMMA PulseInCall ==
  ASSUME StationInv, CallInv, PulseEnds
  PROVE  CallInv'
<1>1. PICK l \in Links, a \in Commands : pulse = <<[sender |-> l, asdu |-> a]>>
  BY DEF StationInv, PulseTyped, PulseEnds
<1>2. pulse[1].sender = l /\ pulse[1].asdu = a /\ pulse # <<>>
  BY <1>1
<1>3. /\ Answers(l, a, "CMD_RES_OK") /\ pulse' = <<>>
      /\ UNCHANGED <<app_event, active, data_trans_active, call>>
  BY <1>2 DEF PulseEnds
<1>4. a.asdu_ident # C_IC_NA /\ TasksTyped
  BY <1>2 DEF CallInv, StationInv
<1> SUFFICES ASSUME NEW k \in Links, call[k].fresh
             PROVE  \E g, m, n \in 0 .. 4 : CallParts(k, g, m, n)'
  BY <1>3 DEF CallInv
<1>5. PICK g \in 0 .. 4, m \in 0 .. 4, n \in 0 .. 4 : CallParts(k, g, m, n)
  BY DEF CallInv
<1>6. g <= m /\ Waiting(tasks["LEVEL_1"], g, m)
  BY <1>5 DEF CallParts
<1>7. Waiting(tasks'["LEVEL_1"], g, m)
  BY <1>3, <1>4, <1>6, OtherAnswersInCall
<1>8. CallParts(k, g, m, n)'
  BY <1>3, <1>5, <1>7 DEF CallParts
<1> QED BY <1>8

\* A call is taken: it is confirmed, and its parts are reported.
LEMMA CallTaken ==
  ASSUME NEW l, Links = {l}, StationInv, NEW a \in Commands,
         a.asdu_ident = C_IC_NA, a.node_count <= 1,
         Answers(l, a, "CMD_RES_FAIL"), Waiting(tasks["LEVEL_1"], 0, 0),
         app_event # <<>>, NoCallIn(Tail(app_event)), Coming(Tail(app_event), 0, 0),
         app_event' = CallReported(Tail(app_event))
  PROVE  Waiting(tasks'["LEVEL_1"], 0, 1) /\ \E n \in 1 .. 4 : MailOfCall(app_event', 1, n)
<1>1. TasksTyped /\ MailTyped /\ PointsTyped
  BY DEF StationInv, DeviceTyped
<1>2. PICK al : al = tasks["LEVEL_1"]
  OBVIOUS
<1>3. PICK new : new = app_task_insert_ack_asdu(al, l, C_IC_NA, "Actcon", AnswerNode(a))
  OBVIOUS
<1>4. app_linkframe_convert_to_asdu(a, "CMD_RES_FAIL") = "Actcon"
  <2>1. IsSys(a)
    BY DEF IsSys, C_IC_NA
  <2>2. ~IsCtrl(a)
    BY DEF IsCtrl, C_IC_NA
  <2> QED BY <2>1, <2>2 DEF app_linkframe_convert_to_asdu
<1>5. tasks'["LEVEL_1"] = new
  BY <1>1, <1>2, <1>3, <1>4, AnswersDo
<1>6. al \in Seq(Tasks) /\ AnswerNode(a) \in Nodes /\ l \in Links /\ Waiting(al, 0, 0)
  BY <1>1, <1>2, AnswerNodeTyped DEF TasksTyped, Levels
<1>7. Waiting(new, 0, 1)
  BY <1>3, <1>6, CallConfirmed
<1>8. Tail(app_event) \in Seq(Events) /\ Len(Tail(app_event)) <= AppMb
  BY <1>1, TakenTyped
<1>9. \E n \in 1 .. 4 : MailOfCall(CallReported(Tail(app_event)), 1, n)
  BY <1>1, <1>8, CallIsComing
<1> QED BY <1>5, <1>7, <1>9

LEMMA CommandInCall ==
  ASSUME OneLink, StationInv, CallInv, AppCommand
  PROVE  CallInv'
<1> DEFINE e == Head(app_event)
<1>1. PICK l : l = e.msg.sender
  OBVIOUS
<1>2. PICK a : a = e.msg.asdu
  OBVIOUS
<1>3. /\ app_event # <<>> /\ l \in Links /\ a \in Commands /\ e = HandOver(l, a)
      /\ TasksTyped /\ MailTyped /\ LinksTyped
  BY <1>1, <1>2, CommandDoes DEF StationInv
<1>4. Links = {l}
  BY <1>3 DEF OneLink
<1>5. call' = call /\ active' = active /\ call \in [Links -> Calls]
  BY DEF AppCommand, CallInv
<1>6. \/ app_event' = Tail(app_event) /\ UNCHANGED <<tasks, pulse, data_trans_active>>
      \/ /\ Acts(a) /\ app_event' = Tail(app_event)
         /\ pulse' = <<[sender |-> l, asdu |-> a]>> /\ UNCHANGED <<tasks, data_trans_active>>
      \/ /\ Acts(a) /\ app_event' = Tail(app_event)
         /\ Answers(l, a, Result(a)) /\ UNCHANGED <<pulse, data_trans_active>>
      \/ /\ ~Acts(a) /\ Answers(l, a, "CMD_RES_FAIL") /\ pulse' = pulse
         /\ app_event' = IF IsSys(a) /\ a.asdu_ident = C_IC_NA
                         THEN CallReported(Tail(app_event)) ELSE Tail(app_event)
         /\ data_trans_active' = IF IsSys(a) /\ a.asdu_ident = C_IC_NA
                                 THEN [data_trans_active EXCEPT ![l] = 1]
                                 ELSE data_trans_active
  BY <1>1, <1>2, Zenon DEF AppCommand
<1>7. Acts(a) => a.asdu_ident # C_IC_NA
  BY DEF Acts, IsCtrl, C_IC_NA
<1>8. (pulse # <<>> => pulse[1].asdu.asdu_ident # C_IC_NA)'
  <2>1. CASE pulse' = pulse
    BY <2>1 DEF CallInv
  <2>2. CASE Acts(a) /\ pulse' = <<[sender |-> l, asdu |-> a]>>
    BY <1>7, <2>2
  <2> QED BY <1>6, <2>1, <2>2
<1> SUFFICES ASSUME call[l].fresh PROVE \E g, m, n \in 0 .. 4 : CallParts(l, g, m, n)'
  BY <1>4, <1>5, <1>8 DEF CallInv
<1>9. PICK g \in 0 .. 4, m \in 0 .. 4, n \in 0 .. 4 : CallParts(l, g, m, n)
  BY <1>3 DEF CallInv
<1>10. g <= m /\ m <= n /\ Waiting(tasks["LEVEL_1"], g, m) /\ MailOfCall(app_event, m, n)
  BY <1>9 DEF CallParts
<1>11. /\ app_event \in Seq(Events) /\ ~IsPart(EventLabel(app_event[1]))
       /\ IsCall(app_event[1]) <=> a.asdu_ident = C_IC_NA
       /\ app_event[1].msg.asdu = a
  <2>1. app_event \in Seq(Events) /\ app_event[1] = e
    BY <1>3 DEF MailTyped
  <2> HIDE DEF e
  <2>2. e.msg.asdu = a
    BY <1>2
  <2> QED BY <1>3, <2>1, <2>2, OtherEvents
<1>12. /\ MailOfCall(Tail(app_event), m, n)
       /\ IsCall(app_event[1]) => /\ n = 0 /\ app_event[1].msg.asdu.node_count <= 1
                                  /\ NoCallIn(Tail(app_event)) /\ Coming(Tail(app_event), 0, 0)
  BY <1>3, <1>10, <1>11, MailTaken
<1>13. ASSUME app_event' = Tail(app_event), data_trans_active' = data_trans_active,
              Waiting(tasks'["LEVEL_1"], g, m)
       PROVE  CallParts(l, g, m, n)'
  BY <1>5, <1>9, <1>12, <1>13 DEF CallParts
<1>14. CASE app_event' = Tail(app_event) /\ UNCHANGED <<tasks, data_trans_active>>
  BY <1>10, <1>13, <1>14
<1>15. ASSUME a.asdu_ident # C_IC_NA, NEW res, Answers(l, a, res),
              app_event' = Tail(app_event), data_trans_active' = data_trans_active
       PROVE  CallParts(l, g, m, n)'
  <2>1. Waiting(tasks'["LEVEL_1"], g, m)
    BY <1>3, <1>10, <1>15, OtherAnswersInCall
  <2> QED BY <1>13, <1>15, <2>1
<1>16. CASE /\ Acts(a) /\ app_event' = Tail(app_event)
            /\ Answers(l, a, Result(a)) /\ UNCHANGED <<pulse, data_trans_active>>
  BY <1>7, <1>15, <1>16
<1>17. CASE /\ ~Acts(a) /\ Answers(l, a, "CMD_RES_FAIL")
            /\ app_event' = IF IsSys(a) /\ a.asdu_ident = C_IC_NA
                            THEN CallReported(Tail(app_event)) ELSE Tail(app_event)
            /\ data_trans_active' = IF IsSys(a) /\ a.asdu_ident = C_IC_NA
                                    THEN [data_trans_active EXCEPT ![l] = 1]
                                    ELSE data_trans_active
  <2>1. CASE a.asdu_ident # C_IC_NA
    <3>1. app_event' = Tail(app_event) /\ data_trans_active' = data_trans_active
      BY <1>17, <2>1
    <3> QED BY <1>15, <1>17, <2>1, <3>1
  <2>2. CASE a.asdu_ident = C_IC_NA
    <3>1. /\ n = 0 /\ a.node_count <= 1
          /\ NoCallIn(Tail(app_event)) /\ Coming(Tail(app_event), 0, 0)
      BY <1>11, <1>12, <2>2
    <3>2. g = 0 /\ m = 0 /\ Waiting(tasks["LEVEL_1"], 0, 0)
      BY <1>10, <3>1
    <3>3. IsSys(a)
      BY <2>2, <3>1 DEF IsSys, C_IC_NA
    <3>4. /\ app_event' = CallReported(Tail(app_event))
          /\ data_trans_active' = [data_trans_active EXCEPT ![l] = 1]
      BY <1>17, <2>2, <3>3
    <3>5. data_trans_active'[l] = 1
      BY <1>3, <3>4 DEF LinksTyped
    <3>6. Waiting(tasks'["LEVEL_1"], 0, 1) /\ \E k \in 1 .. 4 : MailOfCall(app_event', 1, k)
      BY <1>3, <1>4, <1>17, <2>2, <3>1, <3>2, <3>4, CallTaken
    <3>7. PICK k \in 1 .. 4 : MailOfCall(app_event', 1, k)
      BY <3>6
    <3>8. CallParts(l, 0, 1, k)'
      BY <1>5, <1>9, <3>2, <3>5, <3>6, <3>7 DEF CallParts
    <3> QED BY <3>8
  <2> QED BY <2>1, <2>2
<1> QED BY <1>6, <1>14, <1>16, <1>17

LEMMA CallStep ==
  ASSUME OneLink, StationInv, ConfirmInv, CallInv, [Next]_vars
  PROVE  CallInv'
<1>1. StationInv'
  BY StationStep
<1>2. ASSUME AppThread PROVE CallInv'
  BY <1>2, RequestInCall, CommandInCall, PulseInCall, UpdateInCall DEF AppThread
<1>3. ASSUME DeviceStep PROVE CallInv'
  BY <1>1, <1>3, DeviceInCall
<1>4. ASSUME LinkStep PROVE CallInv'
  BY <1>4, LinkAsksInCall, LinkResetInCall, LinkHandsOverInCall DEF LinkStep
<1>5. ASSUME UNCHANGED vars PROVE CallInv'
  BY <1>5 DEF vars, taskVars, linkVars, historyVars, CallInv, CallParts
<1> QED BY <1>2, <1>3, <1>4, <1>5 DEF Next

(* With one link, a general call of one object made when nothing of an     *)
(* earlier one waited is answered in order and, up to where it ended,      *)
(* completely, for every size of the mailbox: what was lost is what comes  *)
(* after everything that was sent.                                         *)
THEOREM CallsInOrder == OneLink => (Spec => []CallInOrder)
<1> SUFFICES ASSUME OneLink PROVE Spec => []CallInOrder
  OBVIOUS
<1>1. Init => StationInv /\ ConfirmInv /\ CallInv
  BY StationInit, ConfirmInit, CallInit
<1>2. StationInv /\ ConfirmInv /\ CallInv /\ [Next]_vars => StationInv' /\ ConfirmInv' /\ CallInv'
  BY StationStep, ConfirmStep, CallStep
<1>3. CallInv => CallInOrder
  <2> SUFFICES ASSUME CallInv, NEW l \in Links, call[l].fresh
               PROVE  IsPrefix(call[l].got, CallPieces)
    BY DEF CallInOrder
  <2>1. PICK g \in 0 .. 4, m \in 0 .. 4, n \in 0 .. 4 : CallParts(l, g, m, n)
    BY DEF CallInv
  <2>2. PICK got : got = call[l].got
    OBVIOUS
  <2>3. got \in Seq(Idents \X Causes) /\ Len(got) = g /\ \A i \in 1 .. g : got[i] = CallPieces[i]
    BY <2>1, <2>2 DEF CallInv, Calls, CallParts
  <2>4. Len(CallPieces) = 4
    BY PartsOfCall
  <2>5. CallPieces \in Seq(Idents \X Causes)
    BY DEF CallPieces, Idents, Causes, C_IC_NA, M_SP_NA, M_ME_NB
  <2>6. got = SubSeq(CallPieces, 1, g)
    BY <2>3, <2>4, <2>5
  <2>7. Len(got) <= Len(CallPieces)
    BY <2>3, <2>4
  <2> QED BY <2>2, <2>3, <2>6, <2>7 DEF IsPrefix
<1> QED BY <1>1, <1>2, <1>3, PTL DEF Spec

-----------------------------------------------------------------------------
(* What the tasks of a list say of a point.                                *)
Value(objects, p) == objects[Max({i \in DOMAIN objects : objects[i].addr = p})].val

Clear(al, p) == \A i \in 1 .. Len(al) : p \notin PointsOf(al[i])

\* The last task with the point, which is sent last, has the value v.
NewestIs(al, p, v) ==
  \A i \in 1 .. Len(al) :
    p \in PointsOf(al[i]) /\ (\A j \in 1 .. Len(al) : j > i => p \notin PointsOf(al[j]))
      => Value(al[i].nodes[1].objects, p) = v

LEMMA PointsOfTask ==
  ASSUME NEW t \in Tasks
  PROVE  /\ t.cause \in DataCauses => PointsOf(t) = Addresses(t.nodes[1]) /\ PointsOf(t) # {}
         /\ t.cause \notin DataCauses => PointsOf(t) = {}
<1>1. DOMAIN t.nodes = {1} /\ t.nodes[1] \in Nodes
  BY OneNode
<1>2. CASE t.cause \in DataCauses
  <2>1. PointsOf(t) = UNION {Addresses(t.nodes[i]) : i \in {1}}
    BY <1>1, <1>2 DEF PointsOf
  <2>2. PointsOf(t) = Addresses(t.nodes[1])
    BY <2>1
  <2>3. t.nodes[1].objects \in Seq(Objects) /\ t.nodes[1].objects # <<>>
    BY <1>1 DEF Nodes
  <2>4. 1 \in DOMAIN t.nodes[1].objects
    BY <2>3, EmptySeq, LenProperties
  <2>5. Addresses(t.nodes[1]) # {}
    BY <2>4 DEF Addresses
  <2> QED BY <1>2, <2>2, <2>5
<1>3. CASE t.cause \notin DataCauses
  BY <1>3 DEF PointsOf
<1> QED BY <1>2, <1>3

LEMMA WaitsAtTasks ==
  ASSUME NEW l, Links = {l}, NEW al \in Seq(Tasks), NEW p
  PROVE  /\ WaitsAt(al, l, p) = {i \in 1 .. Len(al) : p \in PointsOf(al[i])}
         /\ WaitsAt(al, l, p) = {} <=> Clear(al, p)
<1>1. DOMAIN al = 1 .. Len(al) /\ \A i \in 1 .. Len(al) : al[i] \in Tasks
  BY LenProperties, ElementOfSeq
<1>2. \A i \in 1 .. Len(al) : al[i].link_id = l
  BY <1>1 DEF Tasks
<1>3. WaitsAt(al, l, p) = {i \in 1 .. Len(al) : p \in PointsOf(al[i])}
  BY <1>1, <1>2 DEF WaitsAt
<1> QED BY <1>3 DEF Clear

(* An ASDU counts the objects of a task as its node does.                  *)
LEMMA CountOfOne ==
  ASSUME NEW nodes, NEW node, nodes = <<node>>, NEW garbage, node.single \in Nat \ {0}
  PROVE  CountOf(nodes, garbage) = node.single
<1> DEFINE D       == DOMAIN nodes
           one(n)  == IF n.single = Unset THEN garbage ELSE n.single
           op(c, n) == IF one(n) > 1 THEN one(n) ELSE c + 1
           F(g)    == [s \in SUBSET D |-> IF s = {} THEN 0 ELSE op(g[s \ {Max(s)}], nodes[Max(s)])]
           w       == [s \in SUBSET D |-> IF s = {} THEN 0 ELSE op(0, node)]
           it      == CHOOSE g : g = F(g)
<1>1. CountOf(nodes, garbage) = it[D]
  BY Zenon DEF CountOf, FoldLeft, MapThenFoldSet
<1>2. D = {1} /\ nodes[1] = node /\ Max({1}) = 1
  BY DEF Max
<1>3. \A s \in SUBSET D : s = {} \/ s = D
  BY <1>2
<1>4. op(0, node) = node.single
  BY DEF Unset
<1> HIDE DEF D, op
<1>5. \A s \in SUBSET D : w[s] = IF s = {} THEN 0 ELSE op(0, node)
  OBVIOUS
<1>6. w = F(w)
  <2>1. \A s \in SUBSET D : s # {} => op(w[s \ {Max(s)}], nodes[Max(s)]) = op(0, node)
    <3> HIDE DEF w
    <3>1. Max(D) = 1 /\ D \ {1} = {} /\ {} \in SUBSET D
      BY <1>2
    <3>2. w[D \ {Max(D)}] = 0
      BY <1>5, <3>1
    <3>3. nodes[Max(D)] = node
      BY <1>2, <3>1
    <3>4. op(w[D \ {Max(D)}], nodes[Max(D)]) = op(0, node)
      BY <3>2, <3>3
    <3> QED BY <1>3, <3>4
  <2> HIDE DEF w
  <2>2. w = [s \in SUBSET D |-> IF s = {} THEN 0 ELSE op(0, node)]
    BY DEF w
  <2> QED BY <2>1, <2>2
<1>7. it = F(it)
  <2> HIDE DEF w, F
  <2> QED BY <1>6
<1>8. it[D] = op(0, node)
  <2> HIDE DEF it
  <2>1. it[{}] = 0
    BY <1>7
  <2>2. it[D] = op(it[D \ {Max(D)}], nodes[Max(D)])
    BY <1>2, <1>7
  <2> QED BY <1>2, <2>1, <2>2
<1> QED BY <1>1, <1>4, <1>8

(* What the link is handed of a point.                                     *)
LEMMA ImageOfTask ==
  ASSUME NEW t \in Tasks, NEW garbage, NEW img, NEW p \in Points
  PROVE  /\ p \notin PointsOf(t) => Imaged(img, Frame(t, garbage))[p] = img[p]
         /\ p \in PointsOf(t) /\ Exact(t.nodes[1]) =>
              Imaged(img, Frame(t, garbage))[p] = Value(t.nodes[1].objects, p)
<1> DEFINE os == t.nodes[1].objects
           f  == Frame(t, garbage)
           at == {i \in DOMAIN os : i <= f.count /\ os[i].addr = p}
           all == {i \in DOMAIN os : os[i].addr = p}
<1>1. f.cause = t.cause /\ f.objects = os /\ f.count = CountOf(t.nodes, garbage)
  BY FrameOfTask
<1>2. t.nodes[1] \in Nodes /\ t.nodes = <<t.nodes[1]>>
  BY OneNode
<1>3. os \in Seq(Objects) /\ os # <<>> /\ DOMAIN os = 1 .. Len(os) /\ Len(os) \in Nat \ {0}
  BY <1>2, EmptySeq, LenProperties DEF Nodes
<1>4. Imaged(img, f)[p] = IF t.cause \notin DataCauses \/ at = {} THEN img[p] ELSE os[Max(at)].val
  <2> HIDE DEF f, os
  <2> QED BY <1>1 DEF Imaged
<1>5. CASE p \notin PointsOf(t)
  <2>1. t.cause \in DataCauses => at = {}
    <3> HIDE DEF f
    <3> QED BY <1>5, PointsOfTask DEF Addresses
  <2> HIDE DEF at, f, os
  <2> QED BY <1>4, <1>5, <2>1 DEF f, os
<1>6. CASE p \in PointsOf(t) /\ Exact(t.nodes[1])
  <2>1. t.cause \in DataCauses /\ p \in Addresses(t.nodes[1])
    BY <1>6, PointsOfTask
  <2>2. all # {}
    BY <2>1 DEF Addresses
  <2>3. t.nodes[1].single = Len(os)
    BY <1>6 DEF Exact
  <2>4. f.count = Len(os)
    <3> HIDE DEF f, os
    <3> QED BY <1>1, <1>2, <1>3, <2>3, CountOfOne
  <2>5. at = all
    <3> HIDE DEF f, os
    <3> QED BY <1>3, <2>4
  <2>6. Value(t.nodes[1].objects, p) = os[Max(all)].val
    BY DEF Value
  <2> HIDE DEF at, all, f, os
  <2> QED BY <1>4, <1>6, <2>1, <2>2, <2>5, <2>6 DEF f
<1> QED BY <1>5, <1>6

-----------------------------------------------------------------------------
(* What a change of a list makes of the newest task of a point.            *)
\* Every task either counts its objects or has only points that are mixed.
Whole(al, M) == \A i \in 1 .. Len(al) : PointsOf(al[i]) \subseteq M \/ Exact(al[i].nodes[1])

LEMMA NewestStays ==
  ASSUME NEW al, NEW new, NEW p, NEW v, NewestIs(al, p, v),
         \A k \in 1 .. Len(new) : p \in PointsOf(new[k]) =>
           \E c \in 1 .. Len(al) :
             /\ new[k] = al[c]
             /\ \A j \in 1 .. Len(al) : j > c /\ p \in PointsOf(al[j]) =>
                  \E m \in 1 .. Len(new) : m > k /\ p \in PointsOf(new[m])
  PROVE  NewestIs(new, p, v)
<1> SUFFICES ASSUME NEW k \in 1 .. Len(new), p \in PointsOf(new[k]),
                    \A j \in 1 .. Len(new) : j > k => p \notin PointsOf(new[j])
             PROVE  Value(new[k].nodes[1].objects, p) = v
  BY DEF NewestIs
<1>1. PICK c \in 1 .. Len(al) :
        /\ new[k] = al[c]
        /\ \A j \in 1 .. Len(al) : j > c /\ p \in PointsOf(al[j]) =>
             \E m \in 1 .. Len(new) : m > k /\ p \in PointsOf(new[m])
  OBVIOUS
<1>2. \A j \in 1 .. Len(al) : j > c => p \notin PointsOf(al[j])
  BY <1>1
<1>3. p \in PointsOf(al[c])
  BY <1>1
<1>4. Value(al[c].nodes[1].objects, p) = v
  BY <1>2, <1>3 DEF NewestIs
<1> QED BY <1>1, <1>4

LEMMA PointTaken ==
  ASSUME NEW al \in Seq(Tasks), al # <<>>, NEW p
  PROVE  /\ \A v : NewestIs(al, p, v) => NewestIs(Tail(al), p, v)
         /\ Clear(al, p) <=> Clear(Tail(al), p) /\ p \notin PointsOf(al[1])
         /\ \A v : /\ NewestIs(al, p, v) /\ p \in PointsOf(al[1]) /\ Clear(Tail(al), p)
                   => Value(al[1].nodes[1].objects, p) = v
         /\ \A M : Whole(al, M) => Whole(Tail(al), M)
<1> DEFINE tl == Tail(al)
<1>1. /\ Len(al) \in Nat \ {0} /\ Len(tl) = Len(al) - 1
      /\ \A i \in 1 .. Len(tl) : tl[i] = al[i + 1]
  BY EmptySeq, HeadTailProperties
<1> HIDE DEF tl
<1>2. \A i \in 1 .. Len(tl) : i + 1 \in 1 .. Len(al) /\ tl[i] = al[i + 1]
  BY <1>1
<1>3. ASSUME NEW j \in 1 .. Len(al), j > 1
      PROVE  \E m \in 1 .. Len(tl) : m = j - 1 /\ tl[m] = al[j]
  <2>1. PICK m : m = j - 1
    OBVIOUS
  <2>2. m \in 1 .. Len(tl) /\ m + 1 = j
    BY <1>1, <1>3, <2>1
  <2> QED BY <1>1, <2>1, <2>2
<1>4. ASSUME NEW v, NewestIs(al, p, v)
      PROVE  NewestIs(tl, p, v)
  <2>1. ASSUME NEW k \in 1 .. Len(tl), p \in PointsOf(tl[k])
        PROVE  \E c \in 1 .. Len(al) :
                 /\ tl[k] = al[c]
                 /\ \A j \in 1 .. Len(al) : j > c /\ p \in PointsOf(al[j]) =>
                      \E m \in 1 .. Len(tl) : m > k /\ p \in PointsOf(tl[m])
    <3>1. PICK c : c = k + 1
      OBVIOUS
    <3>2. c \in 1 .. Len(al) /\ tl[k] = al[c]
      BY <1>2, <3>1
    <3>3. ASSUME NEW j \in 1 .. Len(al), j > c, p \in PointsOf(al[j])
          PROVE  \E m \in 1 .. Len(tl) : m > k /\ p \in PointsOf(tl[m])
      <4>1. j > 1
        BY <1>1, <3>1, <3>3
      <4>2. PICK m \in 1 .. Len(tl) : m = j - 1 /\ tl[m] = al[j]
        BY <1>3, <4>1
      <4>3. m > k
        BY <1>1, <3>1, <3>3, <4>2
      <4> QED BY <3>3, <4>2, <4>3
    <3> QED BY <3>2, <3>3
  <2> QED BY <1>4, <2>1, NewestStays
<1>5. Clear(al, p) <=> Clear(tl, p) /\ p \notin PointsOf(al[1])
  <2>1. ASSUME Clear(al, p) PROVE Clear(tl, p) /\ p \notin PointsOf(al[1])
    <3>1. 1 \in 1 .. Len(al)
      BY <1>1
    <3> QED BY <1>2, <2>1, <3>1 DEF Clear
  <2>2. ASSUME Clear(tl, p), p \notin PointsOf(al[1]) PROVE Clear(al, p)
    <3>1. ASSUME NEW j \in 1 .. Len(al) PROVE p \notin PointsOf(al[j])
      <4>1. CASE j = 1
        BY <2>2, <4>1
      <4>2. CASE j # 1
        <5>1. j > 1
          BY <1>1, <4>2
        <5> QED BY <1>3, <2>2, <5>1 DEF Clear
      <4> QED BY <4>1, <4>2
    <3> QED BY <3>1 DEF Clear
  <2> QED BY <2>1, <2>2
<1>6. ASSUME NEW v, NewestIs(al, p, v), p \in PointsOf(al[1]), Clear(tl, p)
      PROVE  Value(al[1].nodes[1].objects, p) = v
  <2>1. 1 \in 1 .. Len(al)
    BY <1>1
  <2>2. \A j \in 1 .. Len(al) : j > 1 => p \notin PointsOf(al[j])
    BY <1>3, <1>6 DEF Clear
  <2> QED BY <1>6, <2>1, <2>2 DEF NewestIs
<1>7. ASSUME NEW M, Whole(al, M) PROVE Whole(tl, M)
  BY <1>2, <1>7 DEF Whole
<1> QED BY <1>4, <1>5, <1>6, <1>7 DEF tl

LEMMA PointAnswered ==
  ASSUME NEW al \in Seq(Tasks), NEW l \in Links, NEW ident \in Idents,
         NEW cause \in Causes \ DataCauses, NEW node \in Nodes, NEW new,
         new = app_task_insert_ack_asdu(al, l, ident, cause, node), NEW p
  PROVE  /\ \A v : NewestIs(al, p, v) => NewestIs(new, p, v)
         /\ Clear(al, p) <=> Clear(new, p)
         /\ \A M : Whole(al, M) => Whole(new, M)
<1>1. PICK i : i = Place(al, <<l, ident, cause>>, node)
  OBVIOUS
<1>2. cause \in Causes
  OBVIOUS
<1>3. /\ new \in Seq(Tasks) /\ 1 \in 1 .. Len(new) /\ i \in 1 .. Len(new)
      /\ i > Len(al) => Len(new) = Len(al) + 1
      /\ i <= Len(al) => Len(new) = Len(al)
      /\ \A j \in 1 .. Len(new) - 1 :
           /\ j < i => new[j + 1] = al[j]
           /\ j >= i => new[j + 1] = al[j + 1]
      /\ Fits(new[1], <<l, ident, cause>>, node)
  BY <1>1, <1>2, AnswerIsFirst
<1>4. \A k \in 2 .. Len(new) :
        CameFrom(k, i) \in 1 .. Len(al) /\ CameFrom(k, i) # i /\ new[k] = al[CameFrom(k, i)]
  BY <1>1, <1>2, AnswerMovesOthers
<1>5. Len(al) \in Nat /\ Len(new) \in Nat /\ i \in Nat
  BY <1>3, LenProperties
<1>6. PointsOf(new[1]) = {}
  BY <1>3 DEF Fits, Name, PointsOf
<1>7. i <= Len(al) => PointsOf(al[i]) = {}
  <2>1. i <= Len(al) => Fits(al[i], <<l, ident, cause>>, node)
    BY <1>1, PlaceIsFirst
  <2> QED BY <2>1 DEF Fits, Name, PointsOf
<1>8. ASSUME NEW j \in 1 .. Len(al), PointsOf(al[j]) # {}
      PROVE  \E m \in 2 .. Len(new) : m = (IF j < i THEN j + 1 ELSE j) /\ new[m] = al[j]
  <2>1. j # i
    BY <1>5, <1>7, <1>8
  <2>2. CASE j < i
    <3>1. j \in 1 .. Len(new) - 1 /\ j + 1 \in 2 .. Len(new)
      BY <1>3, <1>5, <2>2
    <3>2. new[j + 1] = al[j]
      BY <1>3, <2>2, <3>1
    <3> QED BY <2>2, <3>1, <3>2
  <2>3. CASE ~(j < i)
    <3>1. PICK k : k = j - 1
      OBVIOUS
    <3>2. k \in 1 .. Len(new) - 1 /\ k + 1 = j /\ k >= i /\ j \in 2 .. Len(new)
      BY <1>3, <1>5, <2>1, <2>3, <3>1
    <3>3. new[j] = al[j]
      BY <1>3, <3>2
    <3> QED BY <2>3, <3>2, <3>3
  <2> QED BY <2>2, <2>3
<1>9. ASSUME NEW v, NewestIs(al, p, v)
      PROVE  NewestIs(new, p, v)
  <2>1. ASSUME NEW k \in 1 .. Len(new), p \in PointsOf(new[k])
        PROVE  \E c \in 1 .. Len(al) :
                 /\ new[k] = al[c]
                 /\ \A j \in 1 .. Len(al) : j > c /\ p \in PointsOf(al[j]) =>
                      \E m \in 1 .. Len(new) : m > k /\ p \in PointsOf(new[m])
    <3>1. k \in 2 .. Len(new)
      BY <1>5, <1>6, <2>1
    <3>2. PICK c : c = CameFrom(k, i)
      OBVIOUS
    <3>3. c \in 1 .. Len(al) /\ c # i /\ new[k] = al[c] /\ c = IF k - 1 < i THEN k - 1 ELSE k
      BY <1>4, <3>1, <3>2 DEF CameFrom
    <3>4. ASSUME NEW j \in 1 .. Len(al), j > c, p \in PointsOf(al[j])
          PROVE  \E m \in 1 .. Len(new) : m > k /\ p \in PointsOf(new[m])
      <4>1. PICK m \in 2 .. Len(new) : m = (IF j < i THEN j + 1 ELSE j) /\ new[m] = al[j]
        BY <1>8, <3>4
      <4>2. j # i
        BY <1>5, <1>7, <3>4
      <4>3. m > k /\ m \in 1 .. Len(new)
        BY <1>5, <3>1, <3>3, <3>4, <4>1, <4>2
      <4> QED BY <3>4, <4>1, <4>3
    <3> QED BY <3>3, <3>4
  <2> QED BY <1>9, <2>1, NewestStays
<1>10. \A k \in 1 .. Len(new) : k = 1 \/ k \in 2 .. Len(new)
  BY <1>5
<1>11. Clear(al, p) => Clear(new, p)
  BY <1>4, <1>6, <1>10 DEF Clear
<1>12. Clear(new, p) => Clear(al, p)
  <2>1. \A m \in 2 .. Len(new) : m \in 1 .. Len(new)
    BY <1>5
  <2> QED BY <1>8, <2>1 DEF Clear
<1>13. ASSUME NEW M, Whole(al, M) PROVE Whole(new, M)
  <2>1. ASSUME NEW k \in 1 .. Len(new)
        PROVE  PointsOf(new[k]) \subseteq M \/ Exact(new[k].nodes[1])
    <3>1. CASE k = 1
      BY <1>6, <3>1
    <3>2. CASE k \in 2 .. Len(new)
      BY <1>4, <1>13, <3>2 DEF Whole
    <3> QED BY <1>10, <3>1, <3>2
  <2> QED BY <2>1 DEF Whole
<1> QED BY <1>9, <1>11, <1>12, <1>13

LEMMA PointReported ==
  ASSUME NEW al \in Seq(Tasks), NEW l \in Links, NEW u \in Updates,
         NEW i, i = Place(al, <<l, u.ident, u.cause>>, u.node),
         NEW new, new = Registered(al, l, u), NEW p,
         p \notin Addresses(u.node), i <= Len(al) => p \notin PointsOf(al[i])
  PROVE  /\ \A v : NewestIs(al, p, v) => NewestIs(new, p, v)
         /\ Clear(al, p) <=> Clear(new, p)
<1>1. u.ident \in Idents /\ u.cause \in Causes /\ u.node \in Nodes
  BY DEF Updates
<1>2. /\ new \in Seq(Tasks) /\ i \in 1 .. Len(new)
      /\ i > Len(al) => Len(new) = Len(al) + 1
      /\ i <= Len(al) => Len(new) = Len(al)
      /\ \A j \in 1 .. Len(al) : j # i => new[j] = al[j]
      /\ new[i].nodes[1].objects = u.node.objects
  BY <1>1, AddedAtPlace DEF Registered
<1>3. Len(al) \in Nat /\ Len(new) \in Nat /\ i \in Nat /\ new[i] \in Tasks
  BY <1>2, LenProperties, ElementOfSeq
<1>4. p \notin PointsOf(new[i])
  <2>1. Addresses(new[i].nodes[1]) = Addresses(u.node)
    BY <1>2 DEF Addresses
  <2> QED BY <1>3, <2>1, PointsOfTask
<1>5. ASSUME NEW j \in 1 .. Len(new), p \in PointsOf(new[j])
      PROVE  j \in 1 .. Len(al) /\ j # i /\ new[j] = al[j]
  <2>1. j # i
    BY <1>4, <1>5
  <2>2. j \in 1 .. Len(al)
    BY <1>2, <1>3, <2>1
  <2> QED BY <1>2, <2>1, <2>2
<1>6. ASSUME NEW j \in 1 .. Len(al), p \in PointsOf(al[j])
      PROVE  j \in 1 .. Len(new) /\ j # i /\ new[j] = al[j]
  <2>1. j # i
    BY <1>3, <1>6
  <2>2. j \in 1 .. Len(new)
    BY <1>2, <1>3
  <2> QED BY <1>2, <2>1, <2>2
<1>7. ASSUME NEW v, NewestIs(al, p, v)
      PROVE  NewestIs(new, p, v)
  <2>1. ASSUME NEW k \in 1 .. Len(new), p \in PointsOf(new[k])
        PROVE  \E c \in 1 .. Len(al) :
                 /\ new[k] = al[c]
                 /\ \A j \in 1 .. Len(al) : j > c /\ p \in PointsOf(al[j]) =>
                      \E m \in 1 .. Len(new) : m > k /\ p \in PointsOf(new[m])
    <3>1. k \in 1 .. Len(al) /\ new[k] = al[k]
      BY <1>5, <2>1
    <3>2. ASSUME NEW j \in 1 .. Len(al), j > k, p \in PointsOf(al[j])
          PROVE  \E m \in 1 .. Len(new) : m > k /\ p \in PointsOf(new[m])
      BY <1>6, <3>2
    <3> QED BY <3>1, <3>2
  <2> QED BY <1>7, <2>1, NewestStays
<1>8. Clear(al, p) => Clear(new, p)
  BY <1>5 DEF Clear
<1>9. Clear(new, p) => Clear(al, p)
  BY <1>6 DEF Clear
<1> QED BY <1>7, <1>8, <1>9

LEMMA PointReportedLast ==
  ASSUME NEW al \in Seq(Tasks), NEW l \in Links, NEW u \in Updates, u.cause \in DataCauses,
         NEW i, i = Place(al, <<l, u.ident, u.cause>>, u.node),
         NEW new, new = Registered(al, l, u), NEW p, p \in Addresses(u.node),
         \A j \in 1 .. Len(new) : j > i => p \notin PointsOf(new[j])
  PROVE  NewestIs(new, p, Value(u.node.objects, p)) /\ ~Clear(new, p)
<1>1. u.ident \in Idents /\ u.cause \in Causes /\ u.node \in Nodes
  BY DEF Updates
<1>2. /\ new \in Seq(Tasks) /\ i \in 1 .. Len(new)
      /\ Fits(new[i], <<l, u.ident, u.cause>>, u.node)
      /\ new[i].nodes[1].objects = u.node.objects
  BY <1>1, AddedAtPlace DEF Registered
<1>3. Len(new) \in Nat /\ i \in Nat /\ new[i] \in Tasks
  BY <1>2, LenProperties, ElementOfSeq
<1>4. p \in PointsOf(new[i])
  <2>1. Addresses(new[i].nodes[1]) = Addresses(u.node)
    BY <1>2 DEF Addresses
  <2>2. new[i].cause = u.cause
    BY <1>2 DEF Fits, Name
  <2> QED BY <1>3, <2>1, <2>2, PointsOfTask
<1>5. ASSUME NEW k \in 1 .. Len(new), p \in PointsOf(new[k]),
             \A j \in 1 .. Len(new) : j > k => p \notin PointsOf(new[j])
      PROVE  k = i
  <2>1. ~(k > i)
    BY <1>5
  <2>2. ~(i > k)
    BY <1>2, <1>4, <1>5
  <2> QED BY <1>3, <2>1, <2>2
<1>6. NewestIs(new, p, Value(u.node.objects, p))
  BY <1>2, <1>5 DEF NewestIs
<1> QED BY <1>2, <1>4, <1>6 DEF Clear

LEMMA RenewedCount ==
  ASSUME NEW t \in Tasks, NEW node \in Nodes, t.nodes[1].addr = node.addr
  PROVE  Renewed(t, node).nodes[1].single = t.nodes[1].single
<1>1. Renewed(t, node).nodes[1] = [t.nodes[1] EXCEPT !.objects = node.objects]
  BY RenewedTyped
<1>2. t.nodes[1] \in Nodes
  BY OneNode
<1> QED BY <1>1, <1>2 DEF Nodes

\* Data put over that of the same points still counts its objects.
LEMMA ReportedIsWhole ==
  ASSUME NEW al \in Seq(Tasks), NEW l \in Links, NEW u \in Updates,
         NEW i, i = Place(al, <<l, u.ident, u.cause>>, u.node),
         NEW new, new = Registered(al, l, u), NEW M, NEW N, Whole(al, M),
         \A j \in 1 .. Len(al) : PointsOf(al[j]) \cap M \subseteq N,
         i <= Len(al) /\ PointsOf(al[i]) \notin {{}, Addresses(u.node)} => Addresses(u.node) \subseteq N
  PROVE  Whole(new, N)
<1>1. u.ident \in Idents /\ u.cause \in Causes /\ u.node \in Nodes /\ Exact(u.node)
  BY DEF Updates
<1>2. /\ new \in Seq(Tasks) /\ i \in 1 .. Len(new)
      /\ i > Len(al) => Len(new) = Len(al) + 1 /\ new[i] = NewTask(l, u.ident, u.cause, u.node)
      /\ i <= Len(al) => Len(new) = Len(al) /\ new[i] = Renewed(al[i], u.node)
      /\ \A j \in 1 .. Len(al) : j # i => new[j] = al[j]
      /\ Fits(new[i], <<l, u.ident, u.cause>>, u.node)
      /\ new[i].nodes[1].objects = u.node.objects
  <2>1. new = app_task_add_normal(al, l, u.ident, u.cause, u.node)
    BY DEF Registered
  <2>2. /\ new \in Seq(Tasks) /\ i \in 1 .. Len(new)
        /\ Fits(new[i], <<l, u.ident, u.cause>>, u.node)
        /\ new[i].nodes[1].objects = u.node.objects
    BY <1>1, <2>1, AddedAtPlace
  <2>3. i > Len(al) => Len(new) = Len(al) + 1 /\ new[i] = NewTask(l, u.ident, u.cause, u.node)
    BY <1>1, <2>1, AddedAtPlace
  <2>4. i <= Len(al) => Len(new) = Len(al) /\ new[i] = Renewed(al[i], u.node)
    BY <1>1, <2>1, AddedAtPlace
  <2>5. \A j \in 1 .. Len(al) : j # i => new[j] = al[j]
    BY <1>1, <2>1, AddedAtPlace
  <2> QED BY <2>2, <2>3, <2>4, <2>5
<1>3. Len(al) \in Nat /\ Len(new) \in Nat /\ i \in Nat /\ new[i] \in Tasks
  BY <1>2, LenProperties, ElementOfSeq
<1>4. /\ Addresses(new[i].nodes[1]) = Addresses(u.node)
      /\ new[i].cause \in DataCauses => PointsOf(new[i]) = Addresses(u.node)
      /\ new[i].cause \notin DataCauses => PointsOf(new[i]) = {}
  <2>1. Addresses(new[i].nodes[1]) = Addresses(u.node)
    BY <1>2 DEF Addresses
  <2> QED BY <1>3, <2>1, PointsOfTask
<1>5. PointsOf(new[i]) \subseteq N \/ Exact(new[i].nodes[1])
  <2>1. CASE new[i].cause \notin DataCauses
    BY <1>4, <2>1
  <2>2. CASE new[i].cause \in DataCauses /\ i > Len(al)
    <3>1. new[i].nodes[1] = u.node
      <4>1. <<u.node>>[1] = u.node
        OBVIOUS
      <4> QED BY <1>2, <2>2, <4>1 DEF NewTask
    <3> QED BY <1>1, <3>1
  <2>3. CASE new[i].cause \in DataCauses /\ ~(i > Len(al))
    <3>1. i \in 1 .. Len(al) /\ al[i] \in Tasks /\ i <= Len(al)
      BY <1>2, <1>3, <2>3, ElementOfSeq
    <3>2. Fits(al[i], <<l, u.ident, u.cause>>, u.node)
      BY <1>1, <3>1, PlaceIsFirst
    <3>3. al[i].nodes[1].addr = u.node.addr /\ al[i].cause = new[i].cause
      BY <1>2, <3>2 DEF Fits, Name
    <3>4. new[i].nodes[1].single = al[i].nodes[1].single
      <4>1. new[i] = Renewed(al[i], u.node)
        BY <1>2, <3>1
      <4>2. u.node \in Nodes
        BY <1>1
      <4> QED BY <3>1, <3>3, <4>1, <4>2, RenewedCount
    <3>5. PointsOf(al[i]) = Addresses(al[i].nodes[1]) /\ PointsOf(al[i]) # {}
      BY <2>3, <3>1, <3>3, PointsOfTask
    <3>6. CASE PointsOf(al[i]) # Addresses(u.node)
      BY <1>4, <2>3, <3>1, <3>5, <3>6
    <3>7. CASE PointsOf(al[i]) = Addresses(u.node) /\ Exact(al[i].nodes[1])
      <4>1. Cardinality(Addresses(al[i].nodes[1])) = Cardinality(Addresses(u.node))
        BY <3>5, <3>7
      <4>2. new[i].nodes[1].single = Cardinality(Addresses(u.node))
        BY <3>4, <3>7, <4>1 DEF Exact
      <4>3. Cardinality(Addresses(u.node)) = Len(u.node.objects)
        BY <1>1 DEF Exact
      <4> QED BY <1>2, <1>4, <4>2, <4>3 DEF Exact
    <3>8. CASE PointsOf(al[i]) = Addresses(u.node) /\ PointsOf(al[i]) \subseteq M
      BY <1>4, <2>3, <3>1, <3>8
    <3> QED BY <3>1, <3>6, <3>7, <3>8 DEF Whole
  <2> QED BY <2>1, <2>2, <2>3
<1>6. ASSUME NEW j \in 1 .. Len(new), j # i
      PROVE  PointsOf(new[j]) \subseteq N \/ Exact(new[j].nodes[1])
  <2>0. j \in 1 .. Len(al)
    BY <1>2, <1>3, <1>6
  <2>1. j \in 1 .. Len(al) /\ new[j] = al[j]
    BY <1>2, <1>6, <2>0
  <2>2. PointsOf(al[j]) \subseteq M \/ Exact(al[j].nodes[1])
    BY <2>1 DEF Whole
  <2>3. PointsOf(al[j]) \cap M \subseteq N
    BY <2>1
  <2> QED BY <2>1, <2>2, <2>3
<1> QED BY <1>5, <1>6 DEF Whole

-----------------------------------------------------------------------------
(* The newest task of a point says the value that is owed, only one of the *)
(* lists holds tasks of the point, and without one the link has the value. *)
PointOwed(l, p) ==
  /\ \A lvl \in Levels : NewestIs(tasks[lvl], p, owed[l][p])
  /\ \E lvl \in Levels : Clear(tasks[lvl], p)
  /\ (\A lvl \in Levels : Clear(tasks[lvl], p)) => image[l][p] = owed[l][p]

OwedInv ==
  /\ image = [l \in Links |-> image[l]]
  /\ \A l \in Links :
       /\ \A lvl \in Levels : Whole(tasks[lvl], mixed[l])
       /\ \A p \in Points \ mixed[l] : PointOwed(l, p)

LEMMA OwedInit ==
  ASSUME Init
  PROVE  OwedInv
<1>1. \A lvl \in Levels : tasks[lvl] = <<>>
  BY DEF Init
<1>2. \A l \in Links : \A p \in Points : image[l][p] = owed[l][p]
  BY DEF Init
<1>3. image = [l \in Links |-> image[l]]
  BY DEF Init
<1>4. ASSUME NEW p, NEW v, NEW M
      PROVE  NewestIs(<<>>, p, v) /\ Clear(<<>>, p) /\ Whole(<<>>, M)
  <2>1. \A i \in 1 .. Len(<<>>) : FALSE
    OBVIOUS
  <2> QED BY <2>1 DEF NewestIs, Clear, Whole
<1>5. "LEVEL_1" \in Levels
  BY DEF Levels
<1>6. ASSUME NEW l \in Links, NEW p \in Points
      PROVE  PointOwed(l, p)
  BY <1>1, <1>2, <1>4, <1>5 DEF PointOwed
<1> QED BY <1>1, <1>3, <1>4, <1>6 DEF OwedInv

LEMMA RequestOwes ==
  ASSUME OneLink, StationInv, OwedInv, AppRequest
  PROVE  OwedInv'
<1>1. PICK l : Links = {l}
  BY DEF OneLink
<1>2. TasksTyped /\ MailTyped /\ owed' = owed /\ mixed' = mixed
  BY DEF StationInv, AppRequest
<1>3. PICK lvl \in Levels :
        \/ UNCHANGED <<tasks, image>>
        \/ /\ tasks[lvl] # <<>> /\ tasks' = [tasks EXCEPT ![lvl] = Tail(@)]
           /\ \E single \in Garbage :
                HandsOut(app_task_covert_to_asdu_frame(tasks[lvl][1], single))
  BY <1>1, <1>2, RequestDoes
<1>4. CASE UNCHANGED <<tasks, image>>
  BY <1>2, <1>4 DEF OwedInv, PointOwed
<1>5. CASE /\ tasks[lvl] # <<>> /\ tasks' = [tasks EXCEPT ![lvl] = Tail(@)]
           /\ \E single \in Garbage :
                HandsOut(app_task_covert_to_asdu_frame(tasks[lvl][1], single))
  <2>1. PICK al : al = tasks[lvl]
    OBVIOUS
  <2>2. al \in Seq(Tasks) /\ al # <<>>
    BY <1>2, <1>5, <2>1 DEF TasksTyped
  <2>3. PICK t : t = al[1]
    OBVIOUS
  <2>4. t \in Tasks /\ 1 \in 1 .. Len(al) /\ t.link_id = l
    <3>1. Len(al) \in Nat \ {0}
      BY <2>2, EmptySeq
    <3>2. t \in Tasks
      BY <2>2, <2>3, <3>1, ElementOfSeq
    <3>3. t.link_id \in Links
      BY <3>2 DEF Tasks
    <3> QED BY <1>1, <3>1, <3>2, <3>3
  <2>5. PICK single \in Garbage : HandsOut(Frame(t, single))
    BY <1>5, <2>1, <2>3 DEF Frame
  <2>6. PICK f : f = Frame(t, single)
    OBVIOUS
  <2>7. f.link_id = l
    BY <2>4, <2>6, FrameOfTask
  <2>8. image' = [image EXCEPT ![l] = Imaged(@, f)]
    BY <2>5, <2>6, <2>7 DEF HandsOut
  <2>9. image = [k \in Links |-> image[k]] /\ l \in Links
    BY <1>1 DEF OwedInv
  <2>10. image' = [k \in Links |-> image'[k]] /\ image'[l] = Imaged(image[l], f)
    BY <2>8, <2>9
  <2>11. tasks'[lvl] = Tail(al) /\ \A k \in Levels : k # lvl => tasks'[k] = tasks[k]
    BY <1>2, <1>5, <2>1 DEF TasksTyped
  <2>12. \A k \in Levels : Whole(tasks[k], mixed[l])
    BY <2>9 DEF OwedInv
  <2>13. Whole(al, mixed[l])
    BY <2>1, <2>12
  <2>14. ASSUME NEW k \in Levels
         PROVE  Whole(tasks'[k], mixed[l])
    <3>1. CASE k = lvl
      BY <2>2, <2>11, <2>13, <3>1, PointTaken
    <3>2. CASE k # lvl
      BY <2>11, <2>12, <3>2
    <3> QED BY <3>1, <3>2
  <2>15. ASSUME NEW p \in Points \ mixed[l]
         PROVE  PointOwed(l, p)'
    <3>1. PICK v : v = owed[l][p]
      OBVIOUS
    <3>2. PointOwed(l, p)
      BY <2>9 DEF OwedInv
    <3>3. \A k \in Levels : NewestIs(tasks[k], p, v)
      BY <3>1, <3>2 DEF PointOwed
    <3>4. \E k \in Levels : Clear(tasks[k], p)
      BY <3>2 DEF PointOwed
    <3>5. (\A k \in Levels : Clear(tasks[k], p)) => image[l][p] = v
      BY <3>1, <3>2 DEF PointOwed
    <3>6. NewestIs(al, p, v)
      BY <2>1, <3>3
    <3>7. NewestIs(Tail(al), p, v)
      BY <2>2, <3>6, PointTaken
    <3>8. Clear(al, p) <=> Clear(Tail(al), p) /\ p \notin PointsOf(t)
      BY <2>2, <2>3, PointTaken
    <3>9. p \in PointsOf(t) /\ Clear(Tail(al), p) => Value(t.nodes[1].objects, p) = v
      BY <2>2, <2>3, <3>6, PointTaken
    <3>10. \A k \in Levels : NewestIs(tasks'[k], p, v)
      BY <2>11, <3>3, <3>7
    <3>11. \A k \in Levels : Clear(tasks[k], p) => Clear(tasks'[k], p)
      BY <2>1, <2>11, <3>8
    <3>12. \E k \in Levels : Clear(tasks'[k], p)
      BY <3>4, <3>11
    <3>13. ASSUME \A k \in Levels : Clear(tasks'[k], p)
           PROVE  image'[l][p] = v
      <4>1. Clear(Tail(al), p) /\ \A k \in Levels : k # lvl => Clear(tasks[k], p)
        BY <2>11, <3>13
      <4>2. CASE p \notin PointsOf(t)
        <5>1. \A k \in Levels : Clear(tasks[k], p)
          BY <2>1, <3>8, <4>1, <4>2
        <5>2. Imaged(image[l], f)[p] = image[l][p]
          BY <2>4, <2>6, <4>2, ImageOfTask
        <5> QED BY <2>10, <3>5, <5>1, <5>2
      <4>3. CASE p \in PointsOf(t)
        <5>1. PointsOf(t) \subseteq mixed[l] \/ Exact(t.nodes[1])
          BY <2>3, <2>4, <2>13 DEF Whole
        <5>2. Exact(t.nodes[1])
          BY <4>3, <5>1
        <5>3. Imaged(image[l], f)[p] = Value(t.nodes[1].objects, p)
          BY <2>4, <2>6, <4>3, <5>2, ImageOfTask
        <5> QED BY <2>10, <3>9, <4>1, <4>3, <5>3
      <4> QED BY <4>2, <4>3
    <3>14. owed'[l][p] = v
      BY <1>2, <3>1
    <3> QED BY <3>10, <3>12, <3>13, <3>14 DEF PointOwed
  <2> QED BY <1>1, <1>2, <2>10, <2>14, <2>15 DEF OwedInv
<1> QED BY <1>3, <1>4, <1>5

LEMMA AnswersOwe ==
  ASSUME OneLink, StationInv, OwedInv, NEW l \in Links, NEW a \in Commands, NEW res,
         Answers(l, a, res), UNCHANGED <<image, owed, mixed>>
  PROVE  OwedInv'
<1>1. Links = {l} /\ TasksTyped
  BY DEF OneLink, StationInv
<1>2. PICK cause : cause = app_linkframe_convert_to_asdu(a, res)
  OBVIOUS
<1>3. PICK al : al = tasks["LEVEL_1"]
  OBVIOUS
<1>4. PICK new : new = app_task_insert_ack_asdu(al, l, a.asdu_ident, cause, AnswerNode(a))
  OBVIOUS
<1>5. tasks'["LEVEL_1"] = new /\ cause \in AnswerCauses /\ cause \in Causes
  BY <1>1, <1>2, <1>3, <1>4, AnswersDo
<1>6. tasks'["LEVEL_2"] = tasks["LEVEL_2"]
  BY <1>1 DEF Answers, TasksTyped, Levels
<1>7. cause \in Causes \ DataCauses /\ al \in Seq(Tasks)
  BY <1>1, <1>3, <1>5 DEF AnswerCauses, DataCauses, TasksTyped, Levels
<1>8. AnswerNode(a) \in Nodes /\ a.asdu_ident \in Idents
  BY AnswerNodeTyped
<1>9. ASSUME NEW p, NEW lvl \in Levels
      PROVE  /\ \A v : NewestIs(tasks[lvl], p, v) => NewestIs(tasks'[lvl], p, v)
             /\ Clear(tasks[lvl], p) <=> Clear(tasks'[lvl], p)
             /\ \A M : Whole(tasks[lvl], M) => Whole(tasks'[lvl], M)
  <2>1. CASE lvl = "LEVEL_1"
    <3>1. /\ \A v : NewestIs(al, p, v) => NewestIs(new, p, v)
          /\ Clear(al, p) <=> Clear(new, p)
          /\ \A M : Whole(al, M) => Whole(new, M)
      BY <1>4, <1>7, <1>8, PointAnswered
    <3> QED BY <1>3, <1>5, <2>1, <3>1
  <2>2. CASE lvl = "LEVEL_2"
    BY <1>6, <2>2
  <2> QED BY <2>1, <2>2 DEF Levels
<1>10. ASSUME NEW p \in Points \ mixed[l]
       PROVE  PointOwed(l, p)'
  <2>1. PointOwed(l, p)
    BY DEF OwedInv
  <2> QED BY <1>9, <2>1 DEF PointOwed
<1>11. \A lvl \in Levels : Whole(tasks'[lvl], mixed[l])
  BY <1>9 DEF OwedInv
<1> QED BY <1>1, <1>10, <1>11 DEF OwedInv

LEMMA CommandOwes ==
  ASSUME OneLink, StationInv, OwedInv, AppCommand
  PROVE  OwedInv'
<1> DEFINE e == Head(app_event)
<1>1. PICK l : l = e.msg.sender
  OBVIOUS
<1>2. PICK a : a = e.msg.asdu
  OBVIOUS
<1>3. l \in Links /\ a \in Commands
  BY <1>1, <1>2, CommandDoes DEF StationInv
<1>4. UNCHANGED <<image, owed, mixed>>
  BY DEF AppCommand
<1>5. UNCHANGED tasks \/ \E res : Answers(l, a, res)
  BY <1>1, <1>2, Zenon DEF AppCommand
<1>6. CASE UNCHANGED tasks
  BY <1>4, <1>6 DEF OwedInv, PointOwed
<1> QED BY <1>3, <1>4, <1>5, <1>6, AnswersOwe

LEMMA PulseOwes ==
  ASSUME OneLink, StationInv, OwedInv, PulseEnds
  PROVE  OwedInv'
<1>1. PICK l \in Links, a \in Commands : pulse = <<[sender |-> l, asdu |-> a]>>
  BY DEF StationInv, PulseTyped, PulseEnds
<1>2. pulse[1].sender = l /\ pulse[1].asdu = a
  BY <1>1
<1>3. Answers(l, a, "CMD_RES_OK") /\ UNCHANGED <<image, owed, mixed>>
  BY <1>2 DEF PulseEnds
<1> QED BY <1>3, AnswersOwe

LEMMA DisturbedWhen ==
  ASSUME NEW l, Links = {l}, TasksTyped, NEW u \in Updates,
         NEW al, al = tasks[u.level], NEW i, i = Place(al, <<l, u.ident, u.cause>>, u.node),
         NEW new, new = Registered(al, l, u)
  PROVE  /\ \A p \in Addresses(u.node) \ Disturbed(l, u) :
              /\ \A j \in 1 .. Len(new) : j > i => p \notin PointsOf(new[j])
              /\ \A lvl \in Levels : lvl # u.level => Clear(tasks[lvl], p)
         /\ i <= Len(al) /\ PointsOf(al[i]) \notin {{}, Addresses(u.node)} =>
              PointsOf(al[i]) \cup Addresses(u.node) \subseteq Disturbed(l, u)
         /\ \A p \in Settled(l, u) : \A lvl \in Levels : Clear(tasks[lvl], p)
<1> DEFINE A   == Addresses(u.node)
           old == IF i \in DOMAIN al THEN PointsOf(al[i]) ELSE {}
           D1  == {p \in A : \/ \E j \in WaitsAt(new, l, p) : j > i
                             \/ \E lvl \in Levels \ {u.level} : WaitsAt(tasks[lvl], l, p) # {}}
           D2  == IF old \in {{}, A} THEN {} ELSE old \cup A
<1>1. Disturbed(l, u) = D1 \cup D2
  BY DEF Disturbed
<1>2. l \in Links /\ u.level \in Levels /\ al \in Seq(Tasks) /\ \A lvl \in Levels : tasks[lvl] \in Seq(Tasks)
  BY DEF TasksTyped, Updates
<1>3. new \in Seq(Tasks)
  BY <1>2, RegisteredTyped
<1>4. \A p : WaitsAt(new, l, p) = {j \in 1 .. Len(new) : p \in PointsOf(new[j])}
  BY <1>3, WaitsAtTasks
<1>5. \A p, lvl : lvl \in Levels => (WaitsAt(tasks[lvl], l, p) = {} <=> Clear(tasks[lvl], p))
  BY <1>2, WaitsAtTasks
<1>6. i <= Len(al) => i \in DOMAIN al
  <2>1. i \in 1 .. Len(al) + 1
    BY <1>2, PlaceIsFirst DEF Updates
  <2> QED BY <1>2, <2>1, LenProperties
<1>7. i <= Len(al) => old = PointsOf(al[i])
  BY <1>6
<1>8. ASSUME NEW p \in A \ Disturbed(l, u)
      PROVE  /\ \A j \in 1 .. Len(new) : j > i => p \notin PointsOf(new[j])
             /\ \A lvl \in Levels : lvl # u.level => Clear(tasks[lvl], p)
  <2> HIDE DEF D2, A
  <2>1. p \in A /\ p \notin D1
    BY <1>1
  <2>2. ~(\E j \in WaitsAt(new, l, p) : j > i)
    BY <2>1
  <2>3. \A lvl \in Levels \ {u.level} : WaitsAt(tasks[lvl], l, p) = {}
    BY <2>1
  <2> HIDE DEF D1
  <2>4. \A j \in 1 .. Len(new) : j > i => p \notin PointsOf(new[j])
    BY <1>4, <2>2
  <2>5. \A lvl \in Levels : lvl # u.level => Clear(tasks[lvl], p)
    BY <1>5, <2>3
  <2> QED BY <2>4, <2>5
<1>9. ASSUME i <= Len(al), PointsOf(al[i]) \notin {{}, A}
      PROVE  PointsOf(al[i]) \cup A \subseteq Disturbed(l, u)
  <2> HIDE DEF D1, A, old
  <2> QED BY <1>1, <1>7, <1>9
<1>10. ASSUME NEW p \in Settled(l, u), NEW lvl \in Levels
       PROVE  Clear(tasks[lvl], p)
  <2>1. WaitsAt(tasks[lvl], l, p) = {}
    BY <1>10 DEF Settled
  <2> QED BY <1>5, <2>1
<1> HIDE DEF A
<1> QED BY <1>8, <1>9, <1>10 DEF A

LEMMA UpdateOwes ==
  ASSUME OneLink, StationInv, OwedInv, AppUpdate
  PROVE  OwedInv'
<1> DEFINE w == Head(app_event).msg
<1>0. owed' = [l \in Links |-> IF l \notin Wanting THEN owed[l] ELSE
                [p \in Points |->
                   LET at == {i \in DOMAIN w.node.objects : w.node.objects[i].addr = p}
                   IN  IF at = {} THEN owed[l][p] ELSE w.node.objects[Max(at)].val]]
  BY DEF AppUpdate
<1> HIDE DEF w
<1>1. PICK l : Links = {l}
  BY DEF OneLink
<1>2. TasksTyped /\ MailTyped /\ image' = image /\ l \in Links
  BY <1>1 DEF StationInv, AppUpdate
<1>3. PICK u \in Updates :
        /\ u = Head(app_event).msg
        /\ \/ Wanting = {} /\ tasks' = tasks
           \/ Wanting = {l} /\ tasks' = [tasks EXCEPT ![u.level] = Registered(@, l, u)]
  BY <1>1, <1>2, UpdateDoes
<1>4. u = w
  BY <1>3 DEF w
<1>5. mixed' = [k \in Links |-> IF k \notin Wanting THEN mixed[k] ELSE
                 (mixed[k] \ Settled(k, u)) \cup Disturbed(k, u)]
  BY <1>3, Zenon DEF AppUpdate
<1>6. CASE Wanting = {} /\ tasks' = tasks
  <2>1. owed'[l] = owed[l] /\ mixed'[l] = mixed[l]
    BY <1>0, <1>2, <1>5, <1>6
  <2> QED BY <1>1, <1>2, <1>6, <2>1 DEF OwedInv, PointOwed
<1>7. CASE Wanting = {l} /\ tasks' = [tasks EXCEPT ![u.level] = Registered(@, l, u)]
  <2>1. PICK al : al = tasks[u.level]
    OBVIOUS
  <2>2. PICK new : new = Registered(al, l, u)
    OBVIOUS
  <2>3. PICK i : i = Place(al, <<l, u.ident, u.cause>>, u.node)
    OBVIOUS
  <2>4. u.level \in Levels /\ al \in Seq(Tasks)
    BY <1>2, <2>1 DEF Updates, TasksTyped
  <2>5. tasks'[u.level] = new /\ \A k \in Levels : k # u.level => tasks'[k] = tasks[k]
    BY <1>2, <1>7, <2>1, <2>2, <2>4 DEF TasksTyped
  <2>6. PICK M : M = mixed[l]
    OBVIOUS
  <2>7. PICK D : D = Disturbed(l, u)
    OBVIOUS
  <2>8. PICK S : S = Settled(l, u)
    OBVIOUS
  <2>9. mixed'[l] = (M \ S) \cup D
    BY <1>2, <1>5, <1>7, <2>6, <2>7, <2>8
  <2>10. /\ \A p \in Addresses(u.node) \ D :
              /\ \A j \in 1 .. Len(new) : j > i => p \notin PointsOf(new[j])
              /\ \A lvl \in Levels : lvl # u.level => Clear(tasks[lvl], p)
         /\ i <= Len(al) /\ PointsOf(al[i]) \notin {{}, Addresses(u.node)} =>
              PointsOf(al[i]) \cup Addresses(u.node) \subseteq D
         /\ \A p \in S : \A lvl \in Levels : Clear(tasks[lvl], p)
    BY <1>1, <1>2, <2>1, <2>2, <2>3, <2>7, <2>8, DisturbedWhen
  <2>11. S \subseteq Addresses(u.node)
    BY <2>8 DEF Settled
  <2>12. \A k \in Levels : Whole(tasks[k], M)
    BY <1>2, <2>6 DEF OwedInv
  <2>13. ASSUME NEW k \in Levels, NEW j \in 1 .. Len(tasks[k])
         PROVE  PointsOf(tasks[k][j]) \cap M \subseteq (M \ S) \cup D
    BY <2>10 DEF Clear
  <2>14. ASSUME NEW k \in Levels
         PROVE  Whole(tasks'[k], (M \ S) \cup D)
    <3>1. CASE k = u.level
      <4>1. Whole(al, M) /\ \A j \in 1 .. Len(al) : PointsOf(al[j]) \cap M \subseteq (M \ S) \cup D
        BY <2>1, <2>4, <2>12, <2>13
      <4>2. i <= Len(al) /\ PointsOf(al[i]) \notin {{}, Addresses(u.node)} =>
              Addresses(u.node) \subseteq (M \ S) \cup D
        BY <2>10
      <4>3. Whole(new, (M \ S) \cup D)
        BY <1>2, <2>2, <2>3, <2>4, <4>1, <4>2, ReportedIsWhole
      <4> QED BY <2>5, <3>1, <4>3
    <3>2. CASE k # u.level
      <4>1. tasks'[k] = tasks[k] /\ Whole(tasks[k], M)
        BY <2>5, <2>12, <3>2
      <4> QED BY <2>13, <4>1 DEF Whole
    <3> QED BY <3>1, <3>2
  <2>15. ASSUME NEW p \in Points, p \notin (M \ S) \cup D
         PROVE  PointOwed(l, p)'
    <3>1. PICK at : at = {n \in DOMAIN u.node.objects : u.node.objects[n].addr = p}
      OBVIOUS
    <3>2. owed'[l][p] = IF at = {} THEN owed[l][p] ELSE u.node.objects[Max(at)].val
      <4>1. l \in Links /\ l \in Wanting
        BY <1>2, <1>7
      <4>2. at = {n \in DOMAIN w.node.objects : w.node.objects[n].addr = p}
        BY <1>4, <3>1
      <4>3. owed'[l][p] = IF at = {} THEN owed[l][p] ELSE w.node.objects[Max(at)].val
        BY <1>0, <4>1, <4>2
      <4> QED BY <1>4, <4>3
    <3>3. at = {} <=> p \notin Addresses(u.node)
      BY <3>1 DEF Addresses
    <3>4. CASE p \in Addresses(u.node)
      <4>1. PICK v : v = Value(u.node.objects, p)
        OBVIOUS
      <4>2. owed'[l][p] = v
        BY <3>1, <3>2, <3>3, <3>4, <4>1 DEF Value
      <4>3. u.cause \in DataCauses
        BY <3>4 DEF Updates
      <4>4. /\ \A j \in 1 .. Len(new) : j > i => p \notin PointsOf(new[j])
            /\ \A lvl \in Levels : lvl # u.level => Clear(tasks[lvl], p)
        BY <2>10, <2>15, <3>4
      <4>5. NewestIs(new, p, v) /\ ~Clear(new, p)
        BY <1>2, <2>2, <2>3, <2>4, <3>4, <4>1, <4>3, <4>4, PointReportedLast
      <4>6. \A k \in Levels : k # u.level => Clear(tasks'[k], p)
        BY <2>5, <4>4
      <4>7. \A k \in Levels : NewestIs(tasks'[k], p, v)
        <5>1. \A k \in Levels : k # u.level => NewestIs(tasks'[k], p, v)
          BY <4>6 DEF Clear, NewestIs
        <5> QED BY <2>5, <4>5, <5>1
      <4>8. \E k \in Levels : Clear(tasks'[k], p)
        BY <2>4, <4>6 DEF Levels
      <4>9. ~Clear(tasks'[u.level], p)
        BY <2>5, <4>5
      <4> QED BY <2>4, <4>2, <4>7, <4>8, <4>9 DEF PointOwed
    <3>5. CASE p \notin Addresses(u.node)
      <4>1. owed'[l][p] = owed[l][p]
        BY <3>2, <3>3, <3>5
      <4>2. p \notin M
        BY <2>11, <2>15, <3>5
      <4>3. PointOwed(l, p)
        BY <1>2, <2>6, <4>2 DEF OwedInv
      <4>4. i <= Len(al) => p \notin PointsOf(al[i])
        BY <2>10, <2>15, <3>5
      <4>5. /\ \A v : NewestIs(al, p, v) => NewestIs(new, p, v)
            /\ Clear(al, p) <=> Clear(new, p)
        BY <1>2, <2>2, <2>3, <2>4, <3>5, <4>4, PointReported
      <4>6. ASSUME NEW k \in Levels
            PROVE  /\ \A v : NewestIs(tasks[k], p, v) => NewestIs(tasks'[k], p, v)
                   /\ Clear(tasks[k], p) <=> Clear(tasks'[k], p)
        <5>1. CASE k = u.level
          BY <2>1, <2>5, <4>5, <5>1
        <5>2. CASE k # u.level
          BY <2>5, <5>2
        <5> QED BY <5>1, <5>2
      <4> QED BY <1>2, <4>1, <4>3, <4>6 DEF PointOwed
    <3> QED BY <3>4, <3>5
  <2>16. image' = [k \in Links |-> image'[k]]
    BY <1>2 DEF OwedInv
  <2> QED BY <1>1, <2>9, <2>14, <2>15, <2>16 DEF OwedInv
<1> QED BY <1>3, <1>6, <1>7

LEMMA OwedStep ==
  ASSUME OneLink, StationInv, OwedInv, [Next]_vars
  PROVE  OwedInv'
<1>1. ASSUME UNCHANGED <<tasks, image, owed, mixed>> PROVE OwedInv'
  BY <1>1 DEF OwedInv, PointOwed
<1>2. ASSUME AppThread PROVE OwedInv'
  BY <1>2, RequestOwes, CommandOwes, PulseOwes, UpdateOwes DEF AppThread
<1>3. ASSUME DeviceStep PROVE UNCHANGED <<tasks, image, owed, mixed>>
  BY <1>3 DEF DeviceStep, Sample, Measure, SignalChanges, SwitchMoves, historyVars, taskVars
<1>4. ASSUME LinkStep PROVE UNCHANGED <<tasks, image, owed, mixed>>
  BY <1>4 DEF LinkStep, LinkReset, LinkAsks, LinkHandsOver, historyVars, taskVars
<1>5. ASSUME UNCHANGED vars PROVE UNCHANGED <<tasks, image, owed, mixed>>
  BY <1>5 DEF vars, taskVars, historyVars
<1> QED BY <1>1, <1>2, <1>3, <1>4, <1>5 DEF Next

(* With one link a point that waits nowhere was last handed out with the   *)
(* value last registered for it, except where the history says otherwise:  *)
(* the newest task of a point always has that value, however often data is *)
(* put over data that waits, and its ASDU counts all of its objects.       *)
THEOREM OwedIsHanded == OneLink => (Spec => []HandedIsOwed)
<1> SUFFICES ASSUME OneLink PROVE Spec => []HandedIsOwed
  OBVIOUS
<1>1. Init => StationInv /\ OwedInv
  BY StationInit, OwedInit
<1>2. StationInv /\ OwedInv /\ [Next]_vars => StationInv' /\ OwedInv'
  BY StationStep, OwedStep
<1>3. StationInv /\ OwedInv => HandedIsOwed
  <2> SUFFICES ASSUME StationInv, OwedInv, NEW l \in Links, NEW p \in Points \ mixed[l],
                      \A lvl \in Levels : WaitsAt(tasks[lvl], l, p) = {}
               PROVE  image[l][p] = owed[l][p]
    BY DEF HandedIsOwed
  <2>1. Links = {l}
    BY DEF OneLink
  <2>2. \A lvl \in Levels : tasks[lvl] \in Seq(Tasks)
    BY DEF StationInv, TasksTyped
  <2>3. \A lvl \in Levels : Clear(tasks[lvl], p)
    BY <2>1, <2>2, WaitsAtTasks
  <2> QED BY <2>3 DEF OwedInv, PointOwed
<1> QED BY <1>1, <1>2, <1>3, PTL DEF Spec
=============================================================================
