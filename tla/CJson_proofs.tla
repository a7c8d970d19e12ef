---------------------------- MODULE CJson_proofs ----------------------------
(***************************************************************************)
(* The items of cJSON in a heap of any size, whatever the calls: the lists *)
(* stay lists (ListsLinked), and every node and string has its owner.      *)
(*                                                                         *)
(* The links are described by neighbours only: every node has a parent, or *)
(* none, that it shares with the nodes before and after it (Linkage); the  *)
(* caller holds those with none, but for the lost ones (Held).  The strings*)
(* are counted node by node (Tally).  What the recursive walks of CJson    *)
(* find is proved once, by induction on the length of the walk (ListAt,    *)
(* ReachAt, ChainFrom, ReachClosed, ReachLeast), and each step of cJSON.c  *)
(* is proved to lead from one Linkage to another, and to change the lists, *)
(* as sequences (ForestOf), in the way that JsonTree has it.               *)
(***************************************************************************)
EXTENDS CJson, SequencesExt, SequenceTheorems, FiniteSetTheorems, WellFoundedInduction, TLAPS

-----------------------------------------------------------------------------
(* Sets of numbers and recursive functions                                 *)

(* Induction on the natural numbers, for a set of them.                    *)
LEMMA AllNaturals ==
  ASSUME NEW G, 0 \in G, \A m \in Nat : m \in G => m + 1 \in G
  PROVE  Nat \subseteq G
<1> DEFINE S == Nat \ G
<1> SUFFICES ASSUME S # {} PROVE FALSE OBVIOUS
<1>1. PICK x \in S : \A y \in S : ~(<<y, x>> \in OpToRel(<, Nat))
  BY NatLessThanWellFounded, WFMin
<1>2. OpToRel(<, Nat) = {ss \in Nat \X Nat : ss[1] < ss[2]}
  BY Zenon DEF OpToRel
<1>3. x \in Nat /\ x # 0 OBVIOUS
<1>4. x - 1 \in Nat /\ (x - 1) + 1 = x /\ x - 1 < x BY <1>3
<1>5. x - 1 \notin S BY <1>1, <1>2, <1>4
<1> QED BY <1>4, <1>5

(* The least member of a set of numbers.                                   *)
LEMMA LeastOf ==
  ASSUME NEW S \in SUBSET Nat, S # {}
  PROVE  \E f \in S : \A j \in S : f <= j
<1>1. PICK x \in S : \A y \in S : ~(<<y, x>> \in OpToRel(<, Nat))
  BY NatLessThanWellFounded, WFMin
<1>2. OpToRel(<, Nat) = {ss \in Nat \X Nat : ss[1] < ss[2]}
  BY Zenon DEF OpToRel
<1>3. ASSUME NEW y \in S PROVE x <= y
  <2>1. ~(y < x) BY <1>1, <1>2
  <2> QED BY <2>1
<1> QED BY <1>3

(* A set of places without gaps is numbered by its members.                *)
LEMMA NoGaps ==
  ASSUME NEW M \in Nat, NEW D \in SUBSET (1 .. M), \A j \in D : j > 1 => j - 1 \in D
  PROVE  D = 1 .. Cardinality(D) /\ Cardinality(D) \in 0 .. M
<1>1. \E L \in 0 .. M : D = 1 .. L
  <2>1. CASE D = 1 .. M BY <2>1
  <2>2. CASE D # 1 .. M
    <3> DEFINE S == (1 .. M) \ D
    <3>1. PICK f \in S : \A j \in S : f <= j
      <4>1. S \in SUBSET Nat /\ S # {}
        <5>1. S \in SUBSET Nat OBVIOUS
        <5>2. ASSUME S = {} PROVE D = 1 .. M
          <6>1. \A k \in 1 .. M : k \in D BY <5>2
          <6>2. D \subseteq 1 .. M OBVIOUS
          <6> QED BY <6>1, <6>2
        <5> QED BY <2>2, <5>1, <5>2
      <4> HIDE DEF S
      <4> QED BY <4>1, LeastOf
    <3> DEFINE G == {k \in Nat : f + k \notin D}
    <3>2. 0 \in G BY <3>1
    <3>3. ASSUME NEW k \in Nat, k \in G PROVE k + 1 \in G
      <4> SUFFICES ASSUME f + (k + 1) \in D PROVE FALSE OBVIOUS
      <4>1. f + (k + 1) > 1 /\ (f + (k + 1)) - 1 = f + k BY <3>1
      <4> QED BY <3>3, <4>1
    <3>4. Nat \subseteq G BY <3>2, <3>3, AllNaturals
    <3>5. ASSUME NEW j \in D PROVE j < f
      <4> SUFFICES ASSUME j >= f PROVE FALSE BY <3>1
      <4>1. j - f \in Nat /\ f + (j - f) = j BY <3>1
      <4> QED BY <3>4, <4>1
    <3>6. D = 1 .. f - 1
      <4>1. ASSUME NEW k \in 1 .. f - 1 PROVE k \in D
        <5>1. k \in 1 .. M /\ ~(f <= k) BY <3>1
        <5> QED BY <3>1, <5>1
      <4>2. \A j \in D : j \in 1 .. f - 1 BY <3>1, <3>5
      <4> QED BY <4>1, <4>2
    <3>7. f - 1 \in 0 .. M BY <3>1
    <3> QED BY <3>6, <3>7
  <2> QED BY <2>1, <2>2
<1>2. PICK L \in 0 .. M : D = 1 .. L BY <1>1
<1>3. Cardinality(D) = L
  <2>1. Cardinality(1 .. L) = IF 1 > L THEN 0 ELSE L - 1 + 1 BY FS_Interval
  <2> QED BY <1>2, <2>1
<1> QED BY <1>2, <1>3

(* What is at the places a to b of a walk that begins with x and goes on   *)
(* with after: the recursive functions of List and Reach are such walks.   *)
Walk(a, b, x, after) ==
  CHOOSE at : at = [k \in a .. b |-> IF k = a THEN x ELSE after[at[k - 1]]]

(* The walk is defined at each place: it exists.                           *)
LEMMA WalkExists ==
  ASSUME NEW a \in Nat, NEW b \in Nat, NEW D, NEW x \in D, NEW after \in [D -> D]
  PROVE  /\ Walk(a, b, x, after) \in [a .. b -> D]
         /\ \A k \in a .. b : Walk(a, b, x, after)[k]
                                = IF k = a THEN x ELSE after[Walk(a, b, x, after)[k - 1]]
<1> DEFINE Begun(m, g) == g = [k \in a .. a + m |-> IF k = a THEN x ELSE after[g[k - 1]]]
           G == {m \in Nat : \E g \in [a .. a + m -> D] : Begun(m, g)}
<1>1. 0 \in G
  <2> DEFINE g == [k \in a .. a |-> x]
  <2>1. g \in [a .. a + 0 -> D] OBVIOUS
  <2>2. Begun(0, g) OBVIOUS
  <2> QED BY <2>1, <2>2
<1>2. ASSUME NEW m \in Nat, m \in G
      PROVE  m + 1 \in G
  <2>1. PICK g \in [a .. a + m -> D] : Begun(m, g) BY <1>2
  <2> DEFINE f == [k \in a .. a + (m + 1) |-> IF k = a THEN x ELSE after[g[k - 1]]]
  <2>2. \A k \in a .. a + (m + 1) : k # a => k - 1 \in a .. a + m OBVIOUS
  <2>3. f \in [a .. a + (m + 1) -> D] BY <2>2
  <2>4. \A k \in a .. a + m : f[k] = g[k]
    BY <2>1
  <2>5. Begun(m + 1, f) BY <2>2, <2>4
  <2> HIDE DEF f, Begun
  <2>6. \E e \in [a .. a + (m + 1) -> D] : Begun(m + 1, e) BY <2>3, <2>5
  <2> QED BY <2>6
<1>3. Nat \subseteq G BY <1>1, <1>2, AllNaturals
<1>4. \E g \in [a .. b -> D] : g = [k \in a .. b |-> IF k = a THEN x ELSE after[g[k - 1]]]
  <2>1. CASE b >= a
    <3>1. b - a \in Nat /\ a + (b - a) = b BY <2>1
    <3>2. b - a \in G BY <1>3, <3>1
    <3> QED BY <3>1, <3>2
  <2>2. CASE b < a
    <3> DEFINE g == [k \in a .. b |-> x]
    <3>1. a .. b = {} BY <2>2
    <3>2. g \in [a .. b -> D] OBVIOUS
    <3>3. g = [k \in a .. b |-> IF k = a THEN x ELSE after[g[k - 1]]] BY <3>1
    <3> QED BY <3>2, <3>3
  <2> QED BY <2>1, <2>2
<1>5. PICK g \in [a .. b -> D] : g = [k \in a .. b |-> IF k = a THEN x ELSE after[g[k - 1]]]
  BY <1>4
<1> DEFINE at == CHOOSE at : at = [k \in a .. b |-> IF k = a THEN x ELSE after[at[k - 1]]]
<1>6. at = [k \in a .. b |-> IF k = a THEN x ELSE after[at[k - 1]]]
  BY <1>5, Zenon
<1>7. ASSUME NEW k \in a .. b PROVE at[k] = g[k]
  <2> HIDE DEF at
  <2> DEFINE H == {m \in Nat : a + m \in a .. b => at[a + m] = g[a + m]}
  <2>1. 0 \in H BY <1>5, <1>6
  <2>2. ASSUME NEW m \in Nat, m \in H PROVE m + 1 \in H
    <3> SUFFICES ASSUME a + (m + 1) \in a .. b PROVE at[a + (m + 1)] = g[a + (m + 1)]
      OBVIOUS
    <3>1. a + m \in a .. b /\ (a + (m + 1)) - 1 = a + m /\ a + (m + 1) # a OBVIOUS
    <3>2. at[a + m] = g[a + m] BY <2>2, <3>1
    <3> QED BY <1>5, <1>6, <3>1, <3>2
  <2>3. Nat \subseteq H BY <2>1, <2>2, AllNaturals
  <2>4. k - a \in Nat /\ a + (k - a) = k OBVIOUS
  <2>5. k - a \in H BY <2>3, <2>4
  <2> QED BY <2>4, <2>5
<1>8. at = g
  <2> HIDE DEF at
  <2> QED BY <1>5, <1>6, <1>7
<1>9. at = Walk(a, b, x, after) BY Zenon DEF Walk
<1> HIDE DEF at
<1> QED BY <1>5, <1>8, <1>9

(* The links of a heap *)
Nodes == Items \union {NULL}
Struct ==
  [kind : Containers \union {"Number", "String", "Invalid", "FREE"}, ref : BOOLEAN,
   const : BOOLEAN, next : Nodes, prev : Nodes, child : Nodes, string : Keys \union {NULL},
   of : Nodes]
Heaps == [Items -> Struct]

Onward(h) == [n \in Nodes |-> IF n = NULL THEN NULL ELSE h[n].next]
Along(h, x) == Walk(1, MaxItems + 1, x, Onward(h))

(* List is the part of a walk along next before its first NULL.            *)
LEMMA ListAt ==
  ASSUME NEW h \in Heaps, NEW x \in Nodes
  PROVE  /\ Along(h, x) \in [1 .. MaxItems + 1 -> Nodes]
         /\ \A k \in 1 .. MaxItems + 1 :
              Along(h, x)[k] = IF k = 1 THEN x ELSE Onward(h)[Along(h, x)[k - 1]]
         /\ List(h, x) = [k \in 1 .. Cardinality({j \in 1 .. MaxItems + 1 : Along(h, x)[j] # NULL})
                            |-> Along(h, x)[k]]
<1>1. MaxItems \in Nat BY ItemsAssumption, FS_CardinalityType DEF MaxItems
<1>2. Onward(h) \in [Nodes -> Nodes] BY DEF Onward, Nodes, Heaps, Struct
<1>3. 1 \in Nat /\ MaxItems + 1 \in Nat BY <1>1
<1>4. /\ Along(h, x) \in [1 .. MaxItems + 1 -> Nodes]
      /\ \A k \in 1 .. MaxItems + 1 :
           Along(h, x)[k] = IF k = 1 THEN x ELSE Onward(h)[Along(h, x)[k - 1]]
  BY <1>2, <1>3, WalkExists DEF Along
<1>5. List(h, x) = [k \in 1 .. Cardinality({j \in 1 .. MaxItems + 1 : Along(h, x)[j] # NULL})
                      |-> Along(h, x)[k]]
  BY Zenon DEF List, Along, Onward, Nodes, Walk
<1> QED BY <1>4, <1>5

(* The same for Reach.                                                     *)
Links(h, n, deep) == {h[n].next} \union (IF deep \/ ~h[n].ref THEN {h[n].child} ELSE {})
Further(h, deep) ==
  [T \in SUBSET Items |-> T \union ((UNION {Links(h, n, deep) : n \in T}) \ {NULL})]
Reached(h, S, deep) == Walk(0, MaxItems, S, Further(h, deep))

(* Reach is the last set of a walk that adds the linked nodes each time.   *)
LEMMA ReachAt ==
  ASSUME NEW h \in Heaps, NEW S \in SUBSET Items, NEW deep \in BOOLEAN
  PROVE  LET r == Reached(h, S, deep)
         IN /\ r \in [0 .. MaxItems -> SUBSET Items] /\ r[0] = S
            /\ \A k \in 0 .. MaxItems : k > 0 => /\ k - 1 \in 0 .. MaxItems
                                               /\ r[k] = Further(h, deep)[r[k - 1]]
            /\ Reach(h, S, deep) = r[MaxItems]
<1>1. MaxItems \in Nat BY ItemsAssumption, FS_CardinalityType DEF MaxItems
<1>2. Further(h, deep) \in [SUBSET Items -> SUBSET Items]
  <2>1. ASSUME NEW T \in SUBSET Items, NEW n \in T
        PROVE  Links(h, n, deep) \subseteq Nodes
    BY DEF Links, Nodes, Heaps, Struct
  <2> QED BY <2>1 DEF Further, Nodes
<1>3. 0 \in Nat OBVIOUS
<1>4. /\ Reached(h, S, deep) \in [0 .. MaxItems -> SUBSET Items]
      /\ \A k \in 0 .. MaxItems :
           Reached(h, S, deep)[k] = IF k = 0 THEN S
                                    ELSE Further(h, deep)[Reached(h, S, deep)[k - 1]]
  <2> DEFINE D == SUBSET Items
  <2>1. S \in D /\ Further(h, deep) \in [D -> D] BY <1>2
  <2> HIDE DEF D
  <2>2. Reached(h, S, deep) \in [0 .. MaxItems -> D]
    BY <1>1, <1>3, <2>1, WalkExists DEF Reached
  <2>3. \A k \in 0 .. MaxItems :
          Reached(h, S, deep)[k] = IF k = 0 THEN S
                                   ELSE Further(h, deep)[Reached(h, S, deep)[k - 1]]
    BY <1>1, <1>3, <2>1, WalkExists DEF Reached
  <2> QED BY <2>2, <2>3 DEF D
<1>5. Reach(h, S, deep) = Reached(h, S, deep)[MaxItems]
  BY Zenon DEF Reach, Reached, Further, Links, Walk
<1> DEFINE r == Reached(h, S, deep)
<1> HIDE DEF r
<1>6. /\ r \in [0 .. MaxItems -> SUBSET Items]
      /\ \A k \in 0 .. MaxItems : r[k] = IF k = 0 THEN S ELSE Further(h, deep)[r[k - 1]]
      /\ Reach(h, S, deep) = r[MaxItems]
  BY <1>4, <1>5 DEF r
<1>7. 0 \in 0 .. MaxItems BY <1>1
<1>8. \A k \in 0 .. MaxItems : k > 0 => k - 1 \in 0 .. MaxItems BY <1>1
<1> QED BY <1>6, <1>7, <1>8 DEF r
-----------------------------------------------------------------------------
(* How the nodes hang together.  par[n] is the array or object in whose    *)
(* list n is, if any.  What Linkage says of a node looks at its neighbours *)
(* only; NoCycle adds that no nodes of a list stand in a circle beside it: *)
(* a set of them that contains the node before each contains the first.    *)

Parents == [Items -> Nodes]

IsList(h, p) == h[p].kind \in Containers /\ ~h[p].ref

MemberOK(h, par, n) ==
  /\ par[n] # n /\ IsList(h, par[n]) /\ h[n].kind # "FREE"
  /\ h[n].next # NULL => par[h[n].next] = par[n] /\ h[h[n].next].prev = n
  /\ h[n].prev # NULL /\ par[h[n].prev] = par[n]
  /\ h[h[n].prev].next = IF n = h[par[n]].child THEN NULL ELSE n

ChildOK(h, par, p) ==
  /\ IsList(h, p) =>
       IF h[p].child = NULL THEN \A n \in Items : par[n] # p ELSE par[h[p].child] = p
  /\ h[p].kind \notin Containers => h[p].child = NULL
  /\ h[p].child # NULL => h[h[p].child].kind # "FREE" /\ h[p].child # p

NoCycle(h, par) ==
  \A T \in SUBSET Items :
    (\A n \in T : par[n] # NULL /\ n # h[par[n]].child /\ h[n].prev \in T) => T = {}

Linkage(h, par) ==
  /\ h \in Heaps /\ par \in Parents
  /\ \A n \in Items : IF par[n] = NULL THEN h[n].next = NULL ELSE MemberOK(h, par, n)
  /\ \A p \in Items : ChildOK(h, par, p)
  /\ NoCycle(h, par)

(* The links of a heap lead to nodes, as parents do; NULL is none.         *)
LEMMA Basics ==
  /\ NULL \notin Items /\ IsFiniteSet(Items) /\ MaxItems \in Nat /\ MaxItems = Cardinality(Items)
  /\ \A h \in Heaps, n \in Items :
       /\ h[n] \in Struct /\ h[n].next \in Nodes /\ h[n].prev \in Nodes /\ h[n].child \in Nodes
  /\ \A par \in Parents, n \in Items : par[n] \in Nodes
  /\ \A n \in Nodes : n # NULL => n \in Items
  BY ItemsAssumption, FS_CardinalityType DEF MaxItems, Heaps, Struct, Parents, Nodes

(* What List finds from x on: distinct nodes, of one list, in the order    *)
(* of their links, and the last is the last of that list.                  *)
Chain(h, par, x, l) ==
  /\ l \in Seq(Items) /\ Len(l) \in 1 .. MaxItems /\ l[1] = x
  /\ \A k \in 1 .. Len(l) :
       /\ l[k] \in Items /\ par[l[k]] = par[x]
       /\ h[l[k]].next = IF k = Len(l) THEN NULL ELSE l[k + 1]
       /\ k > 1 => /\ l[k - 1] \in Items /\ h[l[k]].prev = l[k - 1] /\ par[x] # NULL
                   /\ l[k] # h[par[x]].child
  /\ \A i, j \in 1 .. Len(l) : l[i] = l[j] => i = j

(* What List finds is such a chain, and it ends.                           *)
LEMMA ChainFrom ==
  ASSUME NEW h, NEW par, Linkage(h, par), NEW x \in Items
  PROVE  Chain(h, par, x, List(h, x))
<1> DEFINE M == MaxItems
           at == Along(h, x)
<1>1. /\ h \in Heaps /\ par \in Parents /\ M \in Nat /\ NULL \notin Items /\ x \in Nodes
      /\ Nodes = Items \union {NULL}
  BY Basics DEF Linkage, Nodes
<1>2. /\ at \in [1 .. M + 1 -> Nodes] /\ at[1] = x
      /\ \A k \in 1 .. M + 1 : k > 1 =>
           /\ k - 1 \in 1 .. M + 1
           /\ at[k] = IF at[k - 1] = NULL THEN NULL ELSE h[at[k - 1]].next
  <2>1. /\ at \in [1 .. M + 1 -> Nodes]
        /\ \A k \in 1 .. M + 1 : at[k] = IF k = 1 THEN x ELSE Onward(h)[at[k - 1]]
    BY <1>1, ListAt
  <2>2. \A n \in Nodes : Onward(h)[n] = IF n = NULL THEN NULL ELSE h[n].next BY DEF Onward
  <2> HIDE DEF at
  <2>3. at[1] = x BY <1>1, <2>1
  <2> QED BY <1>1, <2>1, <2>2, <2>3
<1>3. List(h, x) = [k \in 1 .. Cardinality({j \in 1 .. M + 1 : at[j] # NULL}) |-> at[k]]
  BY <1>1, ListAt
<1> HIDE DEF at, M
<1>4. ASSUME NEW k \in 1 .. M + 1, at[k] # NULL
      PROVE  at[k] \in Items /\ par[at[k]] = par[x]
  <2> DEFINE G == {m \in Nat : m + 1 \in 1 .. M + 1 /\ at[m + 1] # NULL => par[at[m + 1]] = par[x]}
  <2>1. 0 \in G BY <1>2
  <2>2. ASSUME NEW m \in Nat, m \in G PROVE m + 1 \in G
    <3> SUFFICES ASSUME (m + 1) + 1 \in 1 .. M + 1, at[(m + 1) + 1] # NULL
                 PROVE  par[at[(m + 1) + 1]] = par[x]
      OBVIOUS
    <3>1. m + 1 \in 1 .. M + 1 /\ (m + 1) + 1 > 1 /\ ((m + 1) + 1) - 1 = m + 1
      BY <1>1
    <3>2. at[m + 1] # NULL /\ at[(m + 1) + 1] = h[at[m + 1]].next /\ at[m + 1] \in Items
      BY <1>1, <1>2, <3>1
    <3>3. par[at[m + 1]] = par[x] BY <2>2, <3>1, <3>2
    <3> QED BY <3>2, <3>3 DEF Linkage, MemberOK
  <2>3. Nat \subseteq G BY <2>1, <2>2, AllNaturals
  <2>4. k - 1 \in G /\ (k - 1) + 1 = k BY <1>1, <2>3
  <2> QED BY <1>1, <1>2, <1>4, <2>4
<1>5. ASSUME NEW k \in 1 .. M + 1, at[k] # NULL, k > 1
      PROVE  /\ k - 1 \in 1 .. M + 1 /\ at[k - 1] # NULL /\ at[k - 1] \in Items
             /\ h[at[k - 1]].next = at[k] /\ h[at[k]].prev = at[k - 1]
             /\ par[x] # NULL /\ at[k] # h[par[x]].child
  <2>1. /\ k - 1 \in 1 .. M + 1 /\ at[k - 1] # NULL /\ at[k - 1] \in Items
        /\ h[at[k - 1]].next = at[k]
    BY <1>1, <1>2, <1>5
  <2>2. at[k] \in Items /\ par[at[k]] = par[x] /\ par[at[k - 1]] = par[x]
    BY <1>4, <1>5, <2>1
  <2>3. MemberOK(h, par, at[k - 1]) /\ par[at[k - 1]] # NULL BY <1>5, <2>1 DEF Linkage
  <2>4. MemberOK(h, par, at[k]) BY <2>2, <2>3 DEF Linkage
  <2>5. h[at[k]].prev = at[k - 1] BY <1>5, <2>1, <2>3 DEF MemberOK
  <2> QED BY <1>5, <2>1, <2>2, <2>3, <2>4, <2>5 DEF MemberOK
<1>6. ASSUME NEW i \in 1 .. M + 1, NEW j \in 1 .. M + 1, i < j, at[i] = at[j], at[j] # NULL
      PROVE  FALSE
  <2> DEFINE I == {m \in Nat : \E k \in 1 .. M + 1 :
                      m \in 1 .. M + 1 /\ m < k /\ at[m] = at[k] /\ at[k] # NULL}
  <2>1. i \in I BY <1>6
  <2>2. PICK m \in I : \A b \in I : m <= b BY <2>1, LeastOf
  <2>3. PICK k \in 1 .. M + 1 : m \in 1 .. M + 1 /\ m < k /\ at[m] = at[k] /\ at[k] # NULL
    BY <2>2
  <2>4. m = 1
    <3> SUFFICES ASSUME m > 1 PROVE FALSE BY <2>3
    <3>1. /\ m - 1 \in 1 .. M + 1 /\ k - 1 \in 1 .. M + 1 /\ m - 1 < k - 1
          /\ at[m - 1] = at[k - 1] /\ at[k - 1] # NULL
      BY <1>1, <1>5, <2>3
    <3>2. m - 1 \in I BY <1>1, <3>1
    <3> QED BY <1>1, <2>2, <2>3, <3>2
  <2> DEFINE T == {at[b] : b \in 2 .. k}
  <2>5. at[k] = x /\ k >= 2 BY <1>1, <1>2, <2>3, <2>4
  <2>6. ASSUME NEW b \in 2 .. k PROVE b \in 1 .. M + 1 /\ at[b] # NULL
    <3> DEFINE G == {c \in Nat : k - c \in 1 .. M + 1 => at[k - c] # NULL}
    <3>1. 0 \in G BY <1>1, <2>3
    <3>2. ASSUME NEW c \in Nat, c \in G PROVE c + 1 \in G
      <4> SUFFICES ASSUME k - (c + 1) \in 1 .. M + 1 PROVE at[k - (c + 1)] # NULL OBVIOUS
      <4>1. k - c \in 1 .. M + 1 /\ k - c > 1 /\ (k - c) - 1 = k - (c + 1)
        BY <1>1, <2>3
      <4> QED BY <1>5, <3>2, <4>1
    <3>3. Nat \subseteq G BY <3>1, <3>2, AllNaturals
    <3>4. k - b \in Nat /\ k - (k - b) = b /\ b \in 1 .. M + 1 BY <1>1, <2>3
    <3>5. k - b \in G BY <3>3, <3>4
    <3> QED BY <3>4, <3>5
  <2>7. T \in SUBSET Items BY <1>4, <2>6
  <2>8. ASSUME NEW n \in T PROVE par[n] # NULL /\ n # h[par[n]].child /\ h[n].prev \in T
    <3>1. PICK b \in 2 .. k : n = at[b] OBVIOUS
    <3>2. b \in 1 .. M + 1 /\ at[b] # NULL /\ b > 1 BY <2>6, <3>1
    <3>3. par[n] = par[x] /\ par[x] # NULL /\ n # h[par[x]].child /\ h[n].prev = at[b - 1]
      BY <1>4, <1>5, <3>1, <3>2
    <3>4. at[b - 1] \in T
      <4>1. CASE b > 2
        <5>1. b - 1 \in 2 .. k BY <4>1
        <5> QED BY <5>1
      <4>2. CASE b = 2
        <5>1. b - 1 = 1 /\ k \in 2 .. k BY <4>2, <2>5
        <5>2. at[b - 1] = at[k] BY <5>1, <2>5, <1>2
        <5> QED BY <5>1, <5>2
      <4> QED BY <4>1, <4>2
    <3> QED BY <3>3, <3>4
  <2>9. T = {} BY <2>7, <2>8 DEF Linkage, NoCycle
  <2>10. at[k] \in T BY <2>5
  <2> QED BY <2>9, <2>10
<1> DEFINE D == {j \in 1 .. M + 1 : at[j] # NULL}
           L == Cardinality(D)
<1>7. D = 1 .. L /\ L \in 0 .. M + 1
  <2>1. \A j \in D : j > 1 => j - 1 \in D BY <1>5
  <2>2. D \in SUBSET (1 .. M + 1) /\ M + 1 \in Nat BY <1>1
  <2> HIDE DEF D
  <2> QED BY <2>1, <2>2, NoGaps
<1>8. L \in 1 .. M
  <2>1. 1 \in D BY <1>1, <1>2
  <2>2. L # M + 1
    <3> SUFFICES ASSUME L = M + 1 PROVE FALSE OBVIOUS
    <3>1. \A k \in 1 .. M + 1 : at[k] # NULL BY <1>7
    <3>2. at \in [1 .. M + 1 -> Items] BY <1>2, <1>4, <3>1
    <3>3. IsFiniteSet(1 .. M + 1) /\ Cardinality(1 .. M + 1) = M + 1
      BY <1>1, FS_Interval
    <3>4. IsFiniteSet(Items) /\ Cardinality(Items) < Cardinality(1 .. M + 1)
      BY <1>1, <3>3, Basics DEF M
    <3>5. \E i, j \in 1 .. M + 1 : i # j /\ at[i] = at[j]
      BY <3>2, <3>3, <3>4, FS_PigeonHole
    <3>6. PICK i \in 1 .. M + 1, j \in 1 .. M + 1 : i # j /\ at[i] = at[j] BY <3>5
    <3>7. i < j \/ j < i BY <1>1, <3>6
    <3> QED BY <1>6, <3>1, <3>6, <3>7
  <2>3. L \in 0 .. M + 1 /\ L \in Int /\ 1 \in 1 .. L BY <1>7, <2>1
  <2> HIDE DEF D, L
  <2> QED BY <1>1, <2>2, <2>3
<1>9. List(h, x) = [k \in 1 .. L |-> at[k]] BY <1>3
<1>10. \A k \in 1 .. L : k \in 1 .. M + 1 /\ at[k] # NULL /\ at[k] \in Items
  BY <1>4, <1>7
<1>11. ASSUME NEW k \in 1 .. L PROVE h[at[k]].next = IF k = L THEN NULL ELSE at[k + 1]
  <2>1. k + 1 \in 1 .. M + 1 /\ k + 1 > 1 /\ (k + 1) - 1 = k BY <1>1, <1>8
  <2>2. at[k + 1] = h[at[k]].next BY <1>2, <1>10, <2>1
  <2>3. k = L => k + 1 \notin D BY <1>7
  <2> QED BY <2>1, <2>2, <2>3
<1> DEFINE l == List(h, x)
<1> HIDE DEF L, D
<1>12. l \in Seq(Items) /\ Len(l) = L /\ \A k \in 1 .. L : l[k] = at[k]
  <2>1. L \in Nat BY <1>1, <1>8
  <2> QED BY <1>9, <1>10, <2>1
<1>13. \A i, j \in 1 .. L : at[i] = at[j] => i = j
  <2> SUFFICES ASSUME NEW i \in 1 .. L, NEW j \in 1 .. L, at[i] = at[j], i # j PROVE FALSE
    OBVIOUS
  <2>1. i < j \/ j < i OBVIOUS
  <2> QED BY <1>6, <1>10, <2>1
<1>14. \A k \in 1 .. L : k # L => k + 1 \in 1 .. L /\ (k > 1 => k - 1 \in 1 .. L)
  BY <1>8
<1>15. \A k \in 1 .. L : k > 1 => k - 1 \in 1 .. L
  BY <1>8
<1> HIDE DEF l
<1>16. \A k \in 1 .. L : par[at[k]] = par[x] BY <1>4, <1>10
<1>17. \A k \in 1 .. L : k > 1 =>
         /\ at[k - 1] \in Items /\ h[at[k]].prev = at[k - 1] /\ par[x] # NULL
         /\ at[k] # h[par[x]].child
  BY <1>5, <1>10
<1>18. 1 \in 1 .. L BY <1>8
<1>19. \A k \in 1 .. L :
         /\ l[k] \in Items /\ par[l[k]] = par[x]
         /\ h[l[k]].next = IF k = L THEN NULL ELSE l[k + 1]
         /\ k > 1 => /\ l[k - 1] \in Items /\ h[l[k]].prev = l[k - 1] /\ par[x] # NULL
                     /\ l[k] # h[par[x]].child
  BY <1>10, <1>11, <1>12, <1>14, <1>15, <1>16, <1>17
<1>20. l[1] = x BY <1>2, <1>12, <1>18
<1>21. \A i, j \in 1 .. Len(l) : l[i] = l[j] => i = j BY <1>12, <1>13
<1>22. Len(l) \in 1 .. MaxItems BY <1>8, <1>12 DEF M
<1> QED BY <1>12, <1>19, <1>20, <1>21, <1>22 DEF l, Chain

(* What Reach finds is closed under the links it follows: it does not stop *)
(* too early.                                                              *)
LEMMA ReachClosed ==
  ASSUME NEW h \in Heaps, NEW S \in SUBSET Items, NEW deep \in BOOLEAN
  PROVE  /\ Reach(h, S, deep) \in SUBSET Items /\ S \subseteq Reach(h, S, deep)
         /\ \A n \in Reach(h, S, deep) : Links(h, n, deep) \ {NULL} \subseteq Reach(h, S, deep)
<1> DEFINE M == MaxItems
           r == Reached(h, S, deep)
           Closed(T) == \A n \in T : Links(h, n, deep) \ {NULL} \subseteq T
<1>1. M \in Nat /\ IsFiniteSet(Items) /\ Cardinality(Items) = M BY Basics
<1>2. \A n \in Items : Links(h, n, deep) \ {NULL} \subseteq Items
  BY Basics DEF Links, Nodes
<1>3. /\ r \in [0 .. M -> SUBSET Items] /\ r[0] = S
      /\ \A k \in 0 .. M : k > 0 => /\ k - 1 \in 0 .. M
                                    /\ r[k] = Further(h, deep)[r[k - 1]]
      /\ Reach(h, S, deep) = r[M]
  BY ReachAt
<1> HIDE DEF r, M
<1>4. ASSUME NEW k \in 0 .. M, k > 0
      PROVE  /\ k - 1 \in 0 .. M /\ r[k - 1] \in SUBSET Items /\ r[k] \in SUBSET Items
             /\ r[k] = r[k - 1] \union ((UNION {Links(h, n, deep) : n \in r[k - 1]}) \ {NULL})
  <2>1. k - 1 \in 0 .. M /\ r[k - 1] \in SUBSET Items /\ r[k] \in SUBSET Items BY <1>3, <1>4
  <2>2. r[k] = Further(h, deep)[r[k - 1]] BY <1>3, <1>4
  <2> QED BY <2>1, <2>2 DEF Further
<1>5. ASSUME NEW k \in 0 .. M PROVE S \subseteq r[k]
  <2> DEFINE G == {m \in Nat : m \in 0 .. M => S \subseteq r[m]}
  <2>1. 0 \in G BY <1>3
  <2>2. ASSUME NEW m \in Nat, m \in G PROVE m + 1 \in G
    <3> SUFFICES ASSUME m + 1 \in 0 .. M PROVE S \subseteq r[m + 1] OBVIOUS
    <3>1. m + 1 > 0 /\ (m + 1) - 1 = m /\ m \in 0 .. M BY <1>1
    <3>2. r[m] \subseteq r[m + 1] BY <1>4, <3>1
    <3> QED BY <2>2, <3>1, <3>2
  <2>3. Nat \subseteq G BY <2>1, <2>2, AllNaturals
  <2>4. k \in G BY <2>3
  <2> QED BY <2>4
<1>6. ASSUME NEW k \in 0 .. M, k > 0, Closed(r[k - 1]) PROVE Closed(r[k]) /\ r[k] = r[k - 1]
  <2>1. (UNION {Links(h, n, deep) : n \in r[k - 1]}) \ {NULL} \subseteq r[k - 1] BY <1>6
  <2>2. r[k] = r[k - 1] BY <1>4, <1>6, <2>1
  <2> QED BY <1>6, <2>2
<1>7. ASSUME NEW k \in 0 .. M, k > 0, ~Closed(r[k - 1])
      PROVE  Cardinality(r[k]) >= Cardinality(r[k - 1]) + 1
  <2>1. /\ r[k - 1] \in SUBSET Items /\ r[k] \in SUBSET Items
        /\ r[k] = r[k - 1] \union ((UNION {Links(h, n, deep) : n \in r[k - 1]}) \ {NULL})
    BY <1>4, <1>7
  <2>2. PICK n \in r[k - 1] : ~(Links(h, n, deep) \ {NULL} \subseteq r[k - 1]) BY <1>7
  <2>3. PICK m \in Links(h, n, deep) \ {NULL} : m \notin r[k - 1] BY <2>2
  <2>4. m \in r[k] BY <2>1, <2>3
  <2>5. IsFiniteSet(r[k - 1]) /\ IsFiniteSet(r[k]) /\ r[k - 1] \union {m} \in SUBSET r[k]
    BY <1>1, <2>1, <2>4, FS_Subset
  <2>6. Cardinality(r[k - 1] \union {m}) = Cardinality(r[k - 1]) + 1
    <3>1. ASSUME NEW A, IsFiniteSet(A), NEW e, e \notin A
          PROVE  Cardinality(A \union {e}) = Cardinality(A) + 1
      BY <3>1, FS_AddElement
    <3>2. IsFiniteSet(r[k - 1]) /\ m \notin r[k - 1] BY <2>3, <2>5
    <3> HIDE DEF Closed
    <3> QED BY <3>1, <3>2
  <2>7. Cardinality(r[k - 1] \union {m}) <= Cardinality(r[k]) BY <2>5, FS_Subset
  <2>8. Cardinality(r[k]) \in Nat /\ Cardinality(r[k - 1]) \in Nat
    BY <2>5, FS_CardinalityType
  <2> QED BY <2>6, <2>7, <2>8
<1>8. ASSUME NEW k \in 0 .. M PROVE Closed(r[k]) \/ Cardinality(r[k]) >= k
  <2> DEFINE G == {m \in Nat : m \in 0 .. M => Closed(r[m]) \/ Cardinality(r[m]) >= m}
  <2>1. 0 \in G
    <3>1. IsFiniteSet(r[0]) BY <1>1, <1>3, FS_Subset
    <3>2. Cardinality(r[0]) \in Nat BY <3>1, FS_CardinalityType
    <3> QED BY <3>2
  <2>2. ASSUME NEW m \in Nat, m \in G PROVE m + 1 \in G
    <3> SUFFICES ASSUME m + 1 \in 0 .. M, ~Closed(r[m + 1])
                 PROVE  Cardinality(r[m + 1]) >= m + 1
      OBVIOUS
    <3>1. m + 1 > 0 /\ (m + 1) - 1 = m /\ m \in 0 .. M BY <1>1
    <3> HIDE DEF Closed
    <3>2. ~Closed(r[m]) BY <1>6, <3>1
    <3>3. Cardinality(r[m]) >= m BY <2>2, <3>1, <3>2
    <3>4. Cardinality(r[m + 1]) >= Cardinality(r[m]) + 1 BY <1>7, <3>1, <3>2
    <3>5. IsFiniteSet(r[m]) /\ IsFiniteSet(r[m + 1]) BY <1>1, <1>3, <3>1, FS_Subset
    <3>6. Cardinality(r[m]) \in Nat /\ Cardinality(r[m + 1]) \in Nat
      BY <3>5, FS_CardinalityType
    <3> QED BY <3>3, <3>4, <3>6
  <2>3. Nat \subseteq G BY <2>1, <2>2, AllNaturals
  <2>4. k \in G BY <2>3
  <2> QED BY <2>4
<1>9. Closed(r[M])
  <2>1. M \in 0 .. M /\ r[M] \in SUBSET Items BY <1>1, <1>3
  <2>2. CASE Cardinality(r[M]) >= M
    <3>1. Cardinality(r[M]) <= M /\ (Cardinality(Items) = Cardinality(r[M]) => Items = r[M])
      BY <1>1, <2>1, FS_Subset
    <3>2. Cardinality(r[M]) \in Nat BY <1>1, <2>1, FS_Subset, FS_CardinalityType
    <3>3. Items = r[M] BY <1>1, <2>2, <3>1, <3>2
    <3> QED BY <1>2, <3>3
  <2> QED BY <1>8, <2>1, <2>2
<1>10. S \subseteq r[M] /\ r[M] \in SUBSET Items BY <1>1, <1>3, <1>5
<1> QED BY <1>3, <1>9, <1>10

(* And nothing but what every set closed under these links contains.       *)
LEMMA ReachLeast ==
  ASSUME NEW h \in Heaps, NEW S \in SUBSET Items, NEW deep \in BOOLEAN,
         NEW Y \in SUBSET Items, S \subseteq Y,
         \A n \in Y : Links(h, n, deep) \ {NULL} \subseteq Y
  PROVE  Reach(h, S, deep) \subseteq Y
<1> DEFINE M == MaxItems
           r == Reached(h, S, deep)
<1>1. M \in Nat BY Basics
<1>2. /\ r \in [0 .. M -> SUBSET Items] /\ r[0] = S
      /\ \A k \in 0 .. M : k > 0 => /\ k - 1 \in 0 .. M
                                    /\ r[k] = Further(h, deep)[r[k - 1]]
      /\ Reach(h, S, deep) = r[M]
  BY ReachAt
<1> HIDE DEF r, M
<1> DEFINE G == {m \in Nat : m \in 0 .. M => r[m] \subseteq Y}
<1>3. 0 \in G BY <1>2
<1>4. ASSUME NEW m \in Nat, m \in G PROVE m + 1 \in G
  <2> SUFFICES ASSUME m + 1 \in 0 .. M PROVE r[m + 1] \subseteq Y OBVIOUS
  <2>1. m + 1 > 0 /\ (m + 1) - 1 = m /\ m \in 0 .. M BY <1>1
  <2>2. r[m] \subseteq Y /\ r[m] \in SUBSET Items BY <1>2, <1>4, <2>1
  <2>3. r[m + 1] = r[m] \union ((UNION {Links(h, n, deep) : n \in r[m]}) \ {NULL})
    BY <1>2, <2>1, <2>2 DEF Further
  <2>4. (UNION {Links(h, n, deep) : n \in r[m]}) \ {NULL} \subseteq Y BY <2>2
  <2> QED BY <2>2, <2>3, <2>4
<1>5. Nat \subseteq G BY <1>3, <1>4, AllNaturals
<1>6. M \in G BY <1>1, <1>5
<1> QED BY <1>1, <1>2, <1>6

(* Heaps with the same links: the same is reached in them.                 *)
LEMMA SameReach ==
  ASSUME NEW h \in Heaps, NEW g \in Heaps, NEW S \in SUBSET Items, NEW deep \in BOOLEAN,
         \A n \in Items : g[n].next = h[n].next /\ g[n].child = h[n].child /\ g[n].ref = h[n].ref
  PROVE  Reach(g, S, deep) = Reach(h, S, deep)
<1>1. \A n \in Items : Links(g, n, deep) = Links(h, n, deep) BY Zenon DEF Links
<1>2. /\ Reach(h, S, deep) \in SUBSET Items /\ S \subseteq Reach(h, S, deep)
      /\ \A n \in Reach(h, S, deep) : Links(h, n, deep) \ {NULL} \subseteq Reach(h, S, deep)
  BY ReachClosed
<1>3. /\ Reach(g, S, deep) \in SUBSET Items /\ S \subseteq Reach(g, S, deep)
      /\ \A n \in Reach(g, S, deep) : Links(g, n, deep) \ {NULL} \subseteq Reach(g, S, deep)
  BY ReachClosed
<1> DEFINE A == Reach(h, S, deep)
           B == Reach(g, S, deep)
<1> HIDE DEF A, B
<1>4. \A n \in A : Links(g, n, deep) \ {NULL} \subseteq A BY <1>1, <1>2 DEF A
<1>5. \A n \in B : Links(h, n, deep) \ {NULL} \subseteq B BY <1>1, <1>3 DEF B
<1>6. A \in SUBSET Items /\ S \subseteq A BY <1>2 DEF A
<1>7. B \in SUBSET Items /\ S \subseteq B BY <1>3 DEF B
<1>8. Reach(g, S, deep) \subseteq A BY <1>4, <1>6, ReachLeast
<1>9. Reach(h, S, deep) \subseteq B BY <1>5, <1>7, ReachLeast
<1> QED BY <1>8, <1>9 DEF A, B

(* Nothing is below a node with nothing after it and no list.              *)
LEMMA NothingBelow ==
  ASSUME NEW h \in Heaps, NEW n \in Items, h[n].next = NULL, h[n].ref \/ h[n].child = NULL
  PROVE  Below(h, n) = {n}
<1> DEFINE Y == {n}
<1>1. Y \in SUBSET Items /\ FALSE \in BOOLEAN OBVIOUS
<1>2. Links(h, n, FALSE) \ {NULL} = {} BY DEF Links
<1>3. \A m \in Y : Links(h, m, FALSE) \ {NULL} \subseteq Y BY <1>2
<1>4. Below(h, n) = Reach(h, Y, FALSE) BY DEF Below
<1> HIDE DEF Y
<1>5. Reach(h, Y, FALSE) \subseteq Y BY <1>1, <1>3, ReachLeast
<1>6. Y \subseteq Reach(h, Y, FALSE) BY <1>1, ReachClosed
<1> QED BY <1>4, <1>5, <1>6 DEF Y

(* The list of an array or object: the nodes that have it as their parent. *)
LEMMA ListOf ==
  ASSUME NEW h, NEW par, Linkage(h, par), NEW p \in Items, IsList(h, p)
  PROVE  /\ Members(h, p) = {n \in Items : par[n] = p}
         /\ Linked(h, p)
         /\ Len(Kids(h, p)) <= MaxItems
<1> DEFINE c == h[p].child
           kids == Kids(h, p)
<1>1. h \in Heaps /\ par \in Parents /\ c \in Nodes /\ NULL \notin Items /\ MaxItems \in Nat
  BY Basics DEF Linkage
<1>2. CASE c = NULL
  <2>1. kids = <<>> /\ Len(kids) = 0 /\ DOMAIN kids = {} BY <1>2 DEF Kids
  <2>2. \A n \in Items : par[n] # p BY <1>2 DEF Linkage, ChildOK
  <2>3. Members(h, p) = {} BY <2>1 DEF Members
  <2>4. Linked(h, p) BY <2>1 DEF Linked
  <2> QED BY <1>1, <2>1, <2>2, <2>3, <2>4
<1>3. CASE c # NULL
  <2>1. c \in Items /\ par[c] = p /\ p # NULL
    BY <1>1, <1>3 DEF Linkage, ChildOK, Nodes
  <2>2. kids = List(h, c) BY <1>3 DEF Kids
  <2> DEFINE L == Len(kids)
  <2>3. /\ kids \in Seq(Items) /\ L \in 1 .. MaxItems /\ kids[1] = c
        /\ \A k \in 1 .. L :
             /\ kids[k] \in Items /\ par[kids[k]] = p
             /\ h[kids[k]].next = IF k = L THEN NULL ELSE kids[k + 1]
             /\ k > 1 => h[kids[k]].prev = kids[k - 1]
        /\ \A i, j \in 1 .. L : kids[i] = kids[j] => i = j
    <3> DEFINE l == List(h, c)
    <3> HIDE DEF c, kids
    <3>1. Chain(h, par, c, l) BY <2>1, ChainFrom
    <3>2. kids = l BY <2>2
    <3> HIDE DEF l
    <3> QED BY <2>1, <3>1, <3>2 DEF Chain
  <2>4. DOMAIN kids = 1 .. L BY <2>3
  <2> HIDE DEF kids, L
  <2> DEFINE T == {n \in Items : par[n] = p /\ \A k \in 1 .. L : n # kids[k]}
  <2>5. T = {}
    <3> SUFFICES ASSUME NEW n \in T
                 PROVE  par[n] # NULL /\ n # h[par[n]].child /\ h[n].prev \in T
      BY DEF Linkage, NoCycle
    <3>1. n \in Items /\ par[n] = p /\ n # c BY <1>1, <2>3
    <3>2. MemberOK(h, par, n) BY <2>1, <3>1 DEF Linkage
    <3>3. /\ h[n].prev \in Items /\ par[h[n].prev] = p /\ h[h[n].prev].next = n
      BY <1>1, <3>1, <3>2, Basics DEF MemberOK
    <3>4. ASSUME NEW k \in 1 .. L, h[n].prev = kids[k] PROVE FALSE
      <4>1. k # L BY <1>1, <2>3, <3>1, <3>3, <3>4
      <4>2. k + 1 \in 1 .. L /\ n = kids[k + 1] BY <2>3, <3>3, <3>4, <4>1
      <4> QED BY <4>2
    <3> QED BY <2>1, <3>1, <3>3, <3>4
  <2>6. Members(h, p) = {n \in Items : par[n] = p}
    <3>1. Members(h, p) = {kids[k] : k \in 1 .. L} BY <2>4 DEF Members, kids
    <3> QED BY <2>3, <2>5, <3>1
  <2>7. h[c].prev = kids[L]
    <3>1. MemberOK(h, par, c) BY <2>1 DEF Linkage
    <3>2. /\ h[c].prev \in Items /\ par[h[c].prev] = p /\ h[h[c].prev].next = NULL
      BY <1>1, <2>1, <3>1, Basics DEF MemberOK
    <3>3. PICK k \in 1 .. L : h[c].prev = kids[k] BY <2>5, <3>2
    <3>4. k = L
      <4> SUFFICES ASSUME k # L PROVE FALSE OBVIOUS
      <4>1. k + 1 \in 1 .. L /\ kids[k + 1] = NULL BY <2>3, <3>2, <3>3
      <4> QED BY <1>1, <2>3, <4>1
    <3> QED BY <3>3, <3>4
  <2>8. \A k \in 1 .. L : h[kids[k]].prev = IF k = 1 THEN kids[L] ELSE kids[k - 1]
    BY <2>3, <2>7
  <2>9. Linked(h, p) BY <2>4, <2>8 DEF Linked, kids, L
  <2>10. Len(kids) <= MaxItems BY <2>3 DEF L
  <2> QED BY <2>6, <2>9, <2>10 DEF kids
<1> QED BY <1>2, <1>3

(* What the first node of a list is in, with what follows each of its      *)
(* nodes, has the whole list.                                              *)
LEMMA WholeList ==
  ASSUME NEW h, NEW par, Linkage(h, par), NEW p \in Items, IsList(h, p),
         NEW C \in SUBSET Items, h[p].child # NULL => h[p].child \in C,
         \A n \in C : h[n].next # NULL => h[n].next \in C
  PROVE  \A n \in Items : par[n] = p => n \in C
<1> DEFINE T == {m \in Items : par[m] = p /\ m \notin C}
<1>1. p # NULL /\ \A m \in Nodes : m # NULL => m \in Items BY Basics
<1>2. ASSUME NEW m \in T PROVE par[m] # NULL /\ m # h[par[m]].child /\ h[m].prev \in T
  <2>1. m \in Items /\ par[m] = p /\ m \notin C OBVIOUS
  <2>2. MemberOK(h, par, m) BY <1>1, <2>1 DEF Linkage
  <2>3. h[m].prev \in Items /\ par[h[m].prev] = p
    <3>1. h \in Heaps BY DEF Linkage
    <3> QED BY <1>1, <2>1, <2>2, <3>1, Basics DEF MemberOK
  <2>4. m # h[p].child BY <1>1, <2>1, Basics
  <2>5. h[h[m].prev].next = m BY <2>1, <2>2, <2>4 DEF MemberOK
  <2>6. h[m].prev \notin C BY <2>1, <2>5, Basics
  <2> QED BY <1>1, <2>1, <2>3, <2>4, <2>6
<1>3. T = {}
  <2>1. T \in SUBSET Items /\ NoCycle(h, par) BY DEF Linkage
  <2> HIDE DEF T
  <2> QED BY <1>2, <2>1 DEF NoCycle
<1> QED BY <1>3

(* Below a node: the links that lead on, and the lists of all that is      *)
(* there.                                                                  *)
LEMMA BelowOf ==
  ASSUME NEW h, NEW par, Linkage(h, par), NEW x \in Items
  PROVE  /\ Below(h, x) \in SUBSET Items /\ x \in Below(h, x)
         /\ \A n \in Below(h, x) :
              /\ h[n].next # NULL => h[n].next \in Below(h, x)
              /\ ~h[n].ref /\ h[n].child # NULL => h[n].child \in Below(h, x)
         /\ \A n \in Items : par[n] \in Below(h, x) => n \in Below(h, x)
<1> DEFINE B == Below(h, x)
<1>1. h \in Heaps BY DEF Linkage
<1>2. /\ B \in SUBSET Items /\ x \in B
      /\ \A n \in B : Links(h, n, FALSE) \ {NULL} \subseteq B
  <2>1. {x} \in SUBSET Items /\ FALSE \in BOOLEAN OBVIOUS
  <2>2. B = Reach(h, {x}, FALSE) BY DEF Below
  <2> HIDE DEF B
  <2> QED BY <1>1, <2>1, <2>2, ReachClosed
<1> HIDE DEF B
<1>3. ASSUME NEW n \in B
      PROVE  /\ h[n].next # NULL => h[n].next \in B
             /\ ~h[n].ref /\ h[n].child # NULL => h[n].child \in B
  <2>1. Links(h, n, FALSE) \ {NULL} \subseteq B BY <1>2
  <2> QED BY <2>1 DEF Links
<1>4. ASSUME NEW n \in Items, par[n] \in B PROVE n \in B
  <2>1. par[n] \in Items /\ par[n] # NULL BY <1>2, <1>4, Basics
  <2>2. IsList(h, par[n]) BY <2>1 DEF Linkage, MemberOK
  <2>3. h[par[n]].child # NULL => h[par[n]].child \in B BY <1>3, <1>4, <2>2 DEF IsList
  <2> QED BY <1>2, <1>3, <2>1, <2>2, <2>3, WholeList
<1> QED BY <1>2, <1>3, <1>4 DEF B

(* Parents stand in no circle.                                             *)
Grounded(par) == \A T \in SUBSET Items : (\A n \in T : par[n] \in T) => T = {}

(* A node may lose its parent.                                             *)
LEMMA GroundedLess ==
  ASSUME NEW par, Grounded(par), NEW own, \A n \in Items : own[n] \in {par[n], NULL}
  PROVE  Grounded(own)
<1> SUFFICES ASSUME NEW T \in SUBSET Items, \A n \in T : own[n] \in T PROVE T = {}
  BY DEF Grounded
<1>1. \A n \in T : own[n] = par[n] BY Basics
<1> QED BY <1>1 DEF Grounded

(* A node may get a parent that is not among what hangs on it.             *)
LEMMA GroundedMore ==
  ASSUME NEW par, Grounded(par), NEW B, NEW i \in B, NEW a, a \notin B,
         \A n \in Items : par[n] \in B => n \in B,
         NEW own, own[i] = a, \A n \in Items \ {i} : own[n] \in {par[n], NULL}
  PROVE  Grounded(own)
<1> SUFFICES ASSUME NEW T \in SUBSET Items, \A n \in T : own[n] \in T PROVE T = {}
  BY DEF Grounded
<1> DEFINE U == T \ B
<1>1. ASSUME NEW n \in U PROVE par[n] \in U
  <2>1. n \in Items /\ n # i /\ n \notin B /\ own[n] \in T OBVIOUS
  <2>2. own[n] = par[n] BY <2>1, Basics
  <2> QED BY <2>1, <2>2
<1>2. U = {} BY <1>1 DEF Grounded
<1>3. i \notin T BY <1>2
<1>4. \A n \in T : own[n] = par[n] BY <1>3, Basics
<1> QED BY <1>4 DEF Grounded

(* What is in use is in each set that has the nodes without a parent and,  *)
(* with each node, what follows it and its list.                           *)
LEMMA AllCovered ==
  ASSUME NEW h, NEW par, Linkage(h, par), Grounded(par), NEW C \in SUBSET Items,
         \A n \in Items : h[n].kind # "FREE" /\ par[n] = NULL => n \in C,
         \A n \in C : h[n].next # NULL => h[n].next \in C,
         \A p \in C : IsList(h, p) /\ h[p].child # NULL => h[p].child \in C
  PROVE  Live(h) \subseteq C
<1> DEFINE T == Live(h) \ C
<1>1. ASSUME NEW n \in T PROVE par[n] \in T
  <2>1. n \in Items /\ h[n].kind # "FREE" /\ n \notin C BY DEF Live
  <2>2. par[n] # NULL BY <2>1
  <2>3. MemberOK(h, par, n) /\ par[n] \in Items BY <2>1, <2>2, Basics DEF Linkage
  <2>4. IsList(h, par[n]) /\ par[n] \in Live(h)
    BY <2>3 DEF MemberOK, IsList, Live, Containers
  <2>5. par[n] \in C => n \in C BY <2>1, <2>3, <2>4, WholeList
  <2> QED BY <2>1, <2>4, <2>5
<1>2. T \in SUBSET Items BY DEF Live
<1> HIDE DEF T
<1>3. T = {} BY <1>1, <1>2 DEF Grounded
<1> QED BY <1>3 DEF T

(* Nothing in use points to a node that is free.                           *)
LEMMA LiveLinks ==
  ASSUME NEW h, NEW par, Linkage(h, par), NEW n \in Live(h)
  PROVE  Links(h, n, TRUE) \ {NULL} \subseteq Live(h)
<1>1. n \in Items /\ h[n].kind # "FREE" BY DEF Live
<1>2. h[n].next # NULL => h[n].next \in Live(h)
  <2> SUFFICES ASSUME h[n].next # NULL PROVE h[n].next \in Live(h) OBVIOUS
  <2>1. par[n] # NULL BY <1>1 DEF Linkage
  <2>2. MemberOK(h, par, n) /\ h[n].next \in Items BY <1>1, <2>1, Basics DEF Linkage
  <2>3. par[h[n].next] # NULL BY <2>1, <2>2 DEF MemberOK
  <2>4. MemberOK(h, par, h[n].next) BY <2>2, <2>3 DEF Linkage
  <2> QED BY <2>2, <2>4 DEF MemberOK, Live
<1>3. h[n].child # NULL => h[n].child \in Live(h)
  <2>1. h[n].child \in Nodes /\ ChildOK(h, par, n) BY <1>1, Basics DEF Linkage
  <2> QED BY <2>1, Basics DEF ChildOK, Live
<1> QED BY <1>2, <1>3 DEF Links
-----------------------------------------------------------------------------
(* What the steps do to the links: first field by field, then to Linkage.  *)

(* What kind of item a node is stays, and but for p where its list begins. *)
SameBut(h, g, p) ==
  \A n \in Items :
    g[n].kind = h[n].kind /\ g[n].ref = h[n].ref /\ (n # p => g[n].child = h[n].child)

(* One link is set.                                                        *)
LEMMA LinkSet ==
  ASSUME NEW h \in Heaps, NEW n \in Items, NEW v \in Nodes
  PROVE  /\ [h EXCEPT ![n].next = v] \in Heaps
         /\ [h EXCEPT ![n].prev = v] \in Heaps
         /\ [h EXCEPT ![n].child = v] \in Heaps
<1>1. ASSUME NEW m \in Struct
      PROVE  /\ [m EXCEPT !.next = v] \in Struct
             /\ [m EXCEPT !.prev = v] \in Struct
             /\ [m EXCEPT !.child = v] \in Struct
  BY DEF Struct
<1>2. ASSUME NEW m \in Struct PROVE [h EXCEPT ![n] = m] \in Heaps
  BY DEF Heaps
<1>3. h[n] \in Struct BY DEF Heaps
<1>4. /\ [h EXCEPT ![n].next = v] = [h EXCEPT ![n] = [h[n] EXCEPT !.next = v]]
      /\ [h EXCEPT ![n].prev = v] = [h EXCEPT ![n] = [h[n] EXCEPT !.prev = v]]
      /\ [h EXCEPT ![n].child = v] = [h EXCEPT ![n] = [h[n] EXCEPT !.child = v]]
  OBVIOUS
<1> QED BY <1>1, <1>2, <1>3, <1>4

(* The fields of all nodes after add_item_to_array.                        *)
LEMMA AddEffect ==
  ASSUME NEW h \in Heaps, NEW a \in Items, NEW i \in Items, NEW c, c = h[a].child, c # i,
         c # NULL => c \in Items /\ h[c].prev \in Items /\ h[c].prev # i
  PROVE  LET g == add_item_to_array(h, a, i)
         IN /\ g \in Heaps
            /\ \A n \in Items :
                 /\ g[n].kind = h[n].kind /\ g[n].ref = h[n].ref
                 /\ g[n].next = IF c = NULL THEN IF n = i THEN NULL ELSE h[n].next
                                ELSE IF n = h[c].prev THEN i ELSE h[n].next
                 /\ g[n].prev = IF n = i THEN IF c = NULL THEN i ELSE h[c].prev
                                ELSE IF n = c THEN i ELSE h[n].prev
                 /\ g[n].child = IF n = a /\ c = NULL THEN i ELSE h[n].child
<1> DEFINE g == add_item_to_array(h, a, i)
<1>1. NULL \notin Items /\ NULL \in Nodes /\ i \in Nodes BY Basics DEF Nodes
<1>2. CASE c = NULL
  <2>1. g = [h EXCEPT ![a].child = i, ![i].prev = i, ![i].next = NULL]
    BY <1>2 DEF add_item_to_array
  <2> DEFINE h1 == [h EXCEPT ![a].child = i]
             h2 == [h1 EXCEPT ![i].prev = i]
  <2>2. g \in Heaps
    <3>1. h1 \in Heaps BY <1>1, LinkSet
    <3>2. h2 \in Heaps
      <4> HIDE DEF h1
      <4> QED BY <1>1, <3>1, LinkSet
    <3>3. [h2 EXCEPT ![i].next = NULL] \in Heaps
      <4> HIDE DEF h2
      <4> QED BY <1>1, <3>2, LinkSet
    <3> QED BY <2>1, <3>3
  <2>3. ASSUME NEW n \in Items
        PROVE  /\ g[n].kind = h[n].kind /\ g[n].ref = h[n].ref
               /\ g[n].next = IF n = i THEN NULL ELSE h[n].next
               /\ g[n].prev = IF n = i THEN i ELSE h[n].prev
               /\ g[n].child = IF n = a THEN i ELSE h[n].child
    BY <2>1 DEF Heaps, Struct
  <2> HIDE DEF g
  <2>4. \A n \in Items : n # c BY <1>1, <1>2
  <2> QED BY <1>2, <2>2, <2>3, <2>4 DEF g
<1>3. CASE c # NULL
  <2> DEFINE last == h[c].prev
  <2>1. c \in Items /\ last \in Items /\ last # NULL /\ last \in Nodes BY <1>1, <1>3 DEF Nodes
  <2>2. g = [h EXCEPT ![last].next = i, ![i].prev = last, ![c].prev = i]
    BY <1>3, <2>1 DEF add_item_to_array, suffix_object
  <2> HIDE DEF last
  <2>3. g \in Heaps
    <3> DEFINE g1 == [h EXCEPT ![last].next = i]
               g2 == [g1 EXCEPT ![i].prev = last]
    <3>1. g1 \in Heaps BY <1>1, <2>1, LinkSet
    <3>2. g = [g2 EXCEPT ![c].prev = i] BY <2>2
    <3> HIDE DEF g1
    <3>3. g2 \in Heaps BY <2>1, <3>1, LinkSet
    <3>4. i \in Nodes BY DEF Nodes
    <3> HIDE DEF g2, g
    <3> QED BY <2>1, <3>2, <3>3, <3>4, LinkSet
  <2>4. ASSUME NEW n \in Items
        PROVE  /\ g[n].kind = h[n].kind /\ g[n].ref = h[n].ref
               /\ g[n].next = IF n = last THEN i ELSE h[n].next
               /\ g[n].prev = IF n = i THEN last ELSE IF n = c THEN i ELSE h[n].prev
               /\ g[n].child = h[n].child
    BY <2>1, <2>2 DEF Heaps, Struct
  <2> HIDE DEF g
  <2> QED BY <1>3, <2>3, <2>4 DEF g, last
<1> QED BY <1>2, <1>3

(* A node from outside the lists goes to the end of one.                   *)
LEMMA AddedLinks ==
  ASSUME NEW h, NEW par, Linkage(h, par), NEW a \in Items, NEW i \in Items, IsList(h, a),
         i # a, par[i] = NULL, h[i].kind # "FREE"
  PROVE  /\ Linkage(add_item_to_array(h, a, i), [par EXCEPT ![i] = a])
         /\ SameBut(h, add_item_to_array(h, a, i), a)
<1> DEFINE g == add_item_to_array(h, a, i)
           own == [par EXCEPT ![i] = a]
           c == h[a].child
           last == h[c].prev
<1>1. /\ h \in Heaps /\ par \in Parents /\ NULL \notin Items
      /\ \A n \in Nodes : n # NULL => n \in Items
      /\ \A n \in Items : /\ h[n].next \in Nodes /\ h[n].prev \in Nodes /\ h[n].child \in Nodes
                          /\ par[n] \in Nodes
  BY Basics DEF Linkage
<1>2. /\ \A n \in Items : IF par[n] = NULL THEN h[n].next = NULL ELSE MemberOK(h, par, n)
      /\ \A p \in Items : ChildOK(h, par, p)
  BY DEF Linkage
<1>3. c # NULL => /\ c \in Items /\ par[c] = a /\ last \in Items /\ par[last] = a
                  /\ h[last].next = NULL /\ c # i /\ last # i
  <2> SUFFICES ASSUME c # NULL
               PROVE  /\ c \in Items /\ par[c] = a /\ last \in Items /\ par[last] = a
                      /\ h[last].next = NULL /\ c # i /\ last # i
    OBVIOUS
  <2>1. c \in Items /\ par[c] = a /\ a # NULL BY <1>1, <1>2 DEF ChildOK
  <2>2. MemberOK(h, par, c) BY <1>2, <2>1
  <2> QED BY <1>1, <2>1, <2>2 DEF MemberOK
<1>4. c = NULL => \A n \in Items : par[n] # a BY <1>2 DEF ChildOK
<1>5. /\ g \in Heaps
      /\ \A n \in Items :
           /\ g[n].kind = h[n].kind /\ g[n].ref = h[n].ref
           /\ g[n].next = IF c = NULL THEN IF n = i THEN NULL ELSE h[n].next
                          ELSE IF n = last THEN i ELSE h[n].next
           /\ g[n].prev = IF n = i THEN IF c = NULL THEN i ELSE last
                          ELSE IF n = c THEN i ELSE h[n].prev
           /\ g[n].child = IF n = a /\ c = NULL THEN i ELSE h[n].child
  <2>1. c # i BY <1>1, <1>3
  <2> HIDE DEF c
  <2> QED BY <1>1, <1>3, <2>1, AddEffect DEF c
<1>6. /\ own \in Parents /\ a \in Nodes
      /\ \A n \in Items : own[n] = IF n = i THEN a ELSE par[n]
  BY <1>1 DEF Parents, Nodes
<1>7. /\ c \in Nodes /\ a # NULL /\ h[i].next = NULL /\ IsList(g, a)
      /\ \A p \in Items : IsList(g, p) <=> IsList(h, p)
  BY <1>1, <1>2, <1>5 DEF IsList
<1> HIDE DEF g, own, c, last
<1>8. ASSUME NEW n \in Items, own[n] = NULL PROVE g[n].next = NULL
  <2>1. n # i /\ par[n] = NULL BY <1>6, <1>7, <1>8
  <2>2. c # NULL => n # last BY <1>3, <1>7, <2>1
  <2> QED BY <1>2, <1>5, <2>1, <2>2
<1>9. ASSUME NEW n \in Items, own[n] # NULL PROVE MemberOK(g, own, n)
  <2>1. CASE n = i
    <3>1. own[i] = a /\ g[i].kind # "FREE" BY <1>5, <1>6
    <3>2. g[i].next = NULL BY <1>3, <1>5, <1>7
    <3>3. CASE c = NULL
      <4>1. g[i].prev = i /\ g[a].child = i BY <1>5, <3>3
      <4> QED BY <1>1, <1>7, <2>1, <3>1, <3>2, <4>1 DEF MemberOK
    <3>4. CASE c # NULL
      <4>1. g[i].prev = last /\ g[last].next = i /\ g[a].child = c /\ own[last] = a
        BY <1>3, <1>5, <1>6, <3>4 DEF c
      <4> QED BY <1>1, <1>3, <1>7, <2>1, <3>1, <3>2, <3>4, <4>1 DEF MemberOK
    <3> QED BY <3>3, <3>4
  <2>2. CASE n # i
    <3>1. own[n] = par[n] /\ par[n] # NULL /\ par[n] \in Items BY <1>1, <1>6, <1>9, <2>2
    <3>2. MemberOK(h, par, n) BY <1>2, <3>1
    <3> DEFINE p == par[n]
    <3>3. /\ h[n].prev \in Items /\ par[h[n].prev] = p /\ h[n].prev # i /\ p # n
          /\ IsList(g, p) /\ g[n].kind # "FREE"
          /\ h[h[n].prev].next = IF n = h[p].child THEN NULL ELSE n
          /\ h[n].next # NULL => /\ h[n].next \in Items /\ par[h[n].next] = p
                                 /\ h[h[n].next].prev = n /\ h[n].next # i
      BY <1>1, <1>5, <1>7, <3>1, <3>2 DEF MemberOK
    <3>4. CASE p = a
      <4>1. c # NULL BY <1>4, <3>4
      <4>2. g[a].child = c /\ h[a].child = c BY <1>5, <4>1 DEF c
      <4>3. CASE n = last
        <5>1. g[n].next = i /\ own[i] = a /\ g[i].prev = n BY <1>5, <1>6, <4>1, <4>3
        <5>2. CASE n = c
          <6>1. g[n].prev = i /\ own[i] = a /\ g[i].next = NULL
            BY <1>3, <1>5, <1>6, <1>7, <2>2, <4>1, <5>2
          <6> QED BY <1>1, <3>1, <3>3, <3>4, <4>2, <5>1, <5>2, <6>1 DEF MemberOK
        <5>3. CASE n # c
          <6>1. g[n].prev = h[n].prev /\ own[h[n].prev] = a BY <1>5, <1>6, <2>2, <3>3, <3>4, <5>3
          <6>2. h[n].prev # last BY <1>1, <1>3, <3>3, <3>4, <4>1, <4>2, <4>3, <5>3
          <6>3. g[h[n].prev].next = n BY <1>5, <3>3, <3>4, <4>1, <4>2, <5>3, <6>2
          <6> QED BY <1>1, <3>1, <3>3, <3>4, <4>2, <5>1, <5>3, <6>1, <6>3 DEF MemberOK
        <5> QED BY <5>2, <5>3
      <4>4. CASE n # last
        <5>1. g[n].next = h[n].next BY <1>5, <4>1, <4>4
        <5>2. h[n].next # NULL => h[n].next # c
          <6>1. h[c].prev = last BY DEF last
          <6> QED BY <3>3, <4>4, <6>1
        <5>3. h[n].next # NULL => own[h[n].next] = a /\ g[h[n].next].prev = n
          BY <1>5, <1>6, <3>3, <3>4, <5>2
        <5>4. CASE n = c
          <6>1. g[n].prev = i /\ own[i] = a /\ g[i].next = NULL
            BY <1>3, <1>5, <1>6, <1>7, <2>2, <4>1, <5>4
          <6> QED BY <1>1, <3>1, <3>3, <3>4, <4>2, <5>1, <5>3, <5>4, <6>1 DEF MemberOK
        <5>5. CASE n # c
          <6>1. g[n].prev = h[n].prev /\ own[h[n].prev] = a BY <1>5, <1>6, <2>2, <3>3, <3>4, <5>5
          <6>2. h[n].prev # last BY <1>1, <1>3, <3>3, <3>4, <4>1, <4>2, <5>5
          <6>3. g[h[n].prev].next = n BY <1>5, <3>3, <3>4, <4>1, <4>2, <5>5, <6>2
          <6> QED BY <1>1, <3>1, <3>3, <3>4, <4>2, <5>1, <5>3, <5>5, <6>1, <6>3 DEF MemberOK
        <5> QED BY <5>4, <5>5
      <4> QED BY <4>3, <4>4
    <3>5. CASE p # a
      <4>1. c # NULL => n # c /\ n # last /\ h[n].prev # last /\ h[n].next # c /\ h[n].next # last
        BY <1>1, <1>3, <3>3, <3>5
      <4>2. g[p].child = h[p].child BY <1>5, <3>1, <3>5
      <4>3. g[n].next = h[n].next /\ g[n].prev = h[n].prev /\ g[h[n].prev].next = h[h[n].prev].next
        BY <1>1, <1>5, <2>2, <3>3, <4>1
      <4>4. h[n].next # NULL => own[h[n].next] = p /\ g[h[n].next].prev = n
        BY <1>1, <1>5, <1>6, <3>3, <4>1
      <4>5. own[h[n].prev] = p BY <1>6, <3>3
      <4> QED BY <1>1, <3>1, <3>3, <4>2, <4>3, <4>4, <4>5 DEF MemberOK
    <3> QED BY <3>4, <3>5
  <2> QED BY <2>1, <2>2
<1>10. ASSUME NEW p \in Items PROVE ChildOK(g, own, p)
  <2>1. ChildOK(h, par, p) BY <1>2
  <2>2. CASE p = a
    <3>1. CASE c = NULL
      <4>1. g[a].child = i /\ own[i] = a /\ g[i].kind # "FREE" BY <1>5, <1>6, <3>1
      <4> QED BY <1>1, <1>7, <2>2, <4>1 DEF ChildOK, IsList
    <3>2. CASE c # NULL
      <4>1. g[a].child = c /\ own[c] = a /\ g[c].kind = h[c].kind /\ h[a].child = c
        BY <1>3, <1>5, <1>6, <3>2 DEF c
      <4> QED BY <1>1, <1>3, <1>7, <2>1, <2>2, <3>2, <4>1 DEF ChildOK, IsList
    <3> QED BY <3>1, <3>2
  <2>3. CASE p # a
    <3>1. g[p].child = h[p].child /\ g[p].kind = h[p].kind /\ (IsList(g, p) <=> IsList(h, p))
      BY <1>5, <1>7, <2>3
    <3>2. h[p].child # NULL => h[p].child \in Items /\ g[h[p].child].kind = h[h[p].child].kind
      BY <1>1, <1>5
    <3>3. \A n \in Items : par[n] # p => own[n] # p BY <1>6, <2>3
    <3>4. IsList(h, p) /\ h[p].child # NULL => own[h[p].child] = p
      BY <1>1, <1>6, <2>1, <3>2 DEF ChildOK
    <3> QED BY <2>1, <3>1, <3>2, <3>3, <3>4 DEF ChildOK
  <2> QED BY <2>2, <2>3
<1>11. NoCycle(g, own)
  <2> SUFFICES ASSUME NEW T \in SUBSET Items,
                      \A n \in T : own[n] # NULL /\ n # g[own[n]].child /\ g[n].prev \in T
               PROVE  T = {}
    BY DEF NoCycle
  <2> DEFINE U == T \ {i}
  <2>1. ASSUME NEW n \in U PROVE par[n] # NULL /\ n # h[par[n]].child /\ h[n].prev \in U
    <3>1. n \in Items /\ n # i /\ own[n] = par[n] /\ par[n] # NULL /\ par[n] \in Items
      BY <1>1, <1>6
    <3>2. n # h[par[n]].child
      <4>1. n # g[par[n]].child BY <3>1
      <4> QED BY <1>4, <1>5, <3>1, <4>1
    <3>3. MemberOK(h, par, n) BY <1>2, <3>1
    <3>4. h[n].prev # i BY <1>1, <3>1, <3>3 DEF MemberOK
    <3>5. c # NULL => n # c BY <1>3, <3>1, <3>2 DEF c
    <3>6. g[n].prev = h[n].prev BY <1>1, <1>5, <3>1, <3>5
    <3> QED BY <3>1, <3>2, <3>4, <3>6
  <2>2. U = {}
    <3>1. U \in SUBSET Items /\ NoCycle(h, par) BY DEF Linkage
    <3> HIDE DEF U
    <3> QED BY <2>1, <3>1 DEF NoCycle
  <2>3. ASSUME i \in T PROVE FALSE
    <3>1. i # g[a].child /\ g[i].prev = i BY <1>6, <2>2, <2>3
    <3> QED BY <1>3, <1>5, <3>1
  <2> QED BY <2>2, <2>3
<1>12. Linkage(g, own) BY <1>5, <1>6, <1>8, <1>9, <1>10, <1>11 DEF Linkage
<1>13. SameBut(h, g, a) BY <1>5 DEF SameBut
<1> QED BY <1>12, <1>13 DEF g, own

(* The fields of all nodes after InsertItemInArray.                        *)
LEMMA InsertEffect ==
  ASSUME NEW h \in Heaps, NEW a \in Items, NEW b \in Items, NEW i \in Items,
         NEW before \in Items, before = h[b].prev, i # b, i # before
  PROVE  LET g == Inserted(h, a, b, i)
             first == b = h[a].child
         IN /\ g \in Heaps
            /\ \A n \in Items :
                 /\ g[n].kind = h[n].kind /\ g[n].ref = h[n].ref
                 /\ g[n].next = IF n = i THEN b ELSE IF ~first /\ n = before THEN i ELSE h[n].next
                 /\ g[n].prev = IF n = i THEN before ELSE IF n = b THEN i ELSE h[n].prev
                 /\ g[n].child = IF first /\ n = a THEN i ELSE h[n].child
<1> DEFINE g == Inserted(h, a, b, i)
           h1 == [h EXCEPT ![i].next = b, ![i].prev = before, ![b].prev = i]
<1>1. b \in Nodes /\ i \in Nodes /\ before \in Nodes BY DEF Nodes
<1>2. /\ h1 \in Heaps
      /\ \A n \in Items :
           /\ h1[n].kind = h[n].kind /\ h1[n].ref = h[n].ref /\ h1[n].child = h[n].child
           /\ h1[n].next = IF n = i THEN b ELSE h[n].next
           /\ h1[n].prev = IF n = i THEN before ELSE IF n = b THEN i ELSE h[n].prev
  <2> DEFINE k1 == [h EXCEPT ![i].next = b]
             k2 == [k1 EXCEPT ![i].prev = before]
             k3 == [k2 EXCEPT ![b].prev = i]
  <2>1. k1 \in Heaps BY <1>1, LinkSet
  <2>2. ASSUME NEW n \in Items
        PROVE  /\ k1[n].kind = h[n].kind /\ k1[n].ref = h[n].ref /\ k1[n].child = h[n].child
               /\ k1[n].next = IF n = i THEN b ELSE h[n].next
               /\ k1[n].prev = h[n].prev
    BY DEF Heaps, Struct
  <2>3. h1 = k3 OBVIOUS
  <2> HIDE DEF h1, k1
  <2>4. k2 \in Heaps BY <1>1, <2>1, LinkSet
  <2>5. ASSUME NEW n \in Items
        PROVE  /\ k2[n].kind = k1[n].kind /\ k2[n].ref = k1[n].ref /\ k2[n].child = k1[n].child
               /\ k2[n].next = k1[n].next
               /\ k2[n].prev = IF n = i THEN before ELSE k1[n].prev
    BY <2>1 DEF Heaps, Struct
  <2> HIDE DEF k2
  <2>6. k3 \in Heaps BY <1>1, <2>4, LinkSet
  <2>7. ASSUME NEW n \in Items
        PROVE  /\ k3[n].kind = k2[n].kind /\ k3[n].ref = k2[n].ref /\ k3[n].child = k2[n].child
               /\ k3[n].next = k2[n].next
               /\ k3[n].prev = IF n = b THEN i ELSE k2[n].prev
    BY <2>4 DEF Heaps, Struct
  <2> HIDE DEF k3
  <2> QED BY <2>2, <2>3, <2>5, <2>6, <2>7
<1>3. g = IF b = h[a].child THEN [h1 EXCEPT ![a].child = i] ELSE [h1 EXCEPT ![before].next = i]
  BY DEF Inserted
<1> HIDE DEF g, h1
<1>4. CASE b = h[a].child
  <2>1. g = [h1 EXCEPT ![a].child = i] BY <1>3, <1>4
  <2>2. g \in Heaps BY <1>1, <1>2, <2>1, LinkSet
  <2>3. ASSUME NEW n \in Items
        PROVE  /\ g[n].kind = h1[n].kind /\ g[n].ref = h1[n].ref
               /\ g[n].next = h1[n].next /\ g[n].prev = h1[n].prev
               /\ g[n].child = IF n = a THEN i ELSE h1[n].child
    BY <1>2, <2>1 DEF Heaps, Struct
  <2> QED BY <1>2, <1>4, <2>2, <2>3 DEF g
<1>5. CASE b # h[a].child
  <2>1. g = [h1 EXCEPT ![before].next = i] BY <1>3, <1>5
  <2>2. g \in Heaps BY <1>1, <1>2, <2>1, LinkSet
  <2>3. ASSUME NEW n \in Items
        PROVE  /\ g[n].kind = h1[n].kind /\ g[n].ref = h1[n].ref
               /\ g[n].next = IF n = before THEN i ELSE h1[n].next
               /\ g[n].prev = h1[n].prev /\ g[n].child = h1[n].child
    BY <1>2, <2>1 DEF Heaps, Struct
  <2> QED BY <1>2, <1>5, <2>2, <2>3 DEF g
<1> QED BY <1>4, <1>5

(* A node from outside the lists goes before one of a list.                *)
LEMMA InsertedLinks ==
  ASSUME NEW h, NEW par, Linkage(h, par), NEW a \in Items, NEW b \in Items, par[b] = a,
         NEW i \in Items, i # a, par[i] = NULL, h[i].kind # "FREE"
  PROVE  /\ Linkage(Inserted(h, a, b, i), [par EXCEPT ![i] = a])
         /\ SameBut(h, Inserted(h, a, b, i), a)
<1> DEFINE g == Inserted(h, a, b, i)
           own == [par EXCEPT ![i] = a]
           before == h[b].prev
           first == b = h[a].child
<1>1. /\ h \in Heaps /\ par \in Parents /\ NULL \notin Items
      /\ \A n \in Nodes : n # NULL => n \in Items
      /\ \A n \in Items : /\ h[n].next \in Nodes /\ h[n].prev \in Nodes /\ h[n].child \in Nodes
                          /\ par[n] \in Nodes
  BY Basics DEF Linkage
<1>2. /\ \A n \in Items : IF par[n] = NULL THEN h[n].next = NULL ELSE MemberOK(h, par, n)
      /\ \A p \in Items : ChildOK(h, par, p)
  BY DEF Linkage
<1>3. /\ before \in Items /\ par[before] = a /\ i # b /\ i # before /\ a # NULL /\ b # NULL
      /\ IsList(h, a) /\ h[before].next = IF first THEN NULL ELSE b
  <2>1. MemberOK(h, par, b) /\ a # NULL BY <1>1, <1>2
  <2> QED BY <1>1, <2>1 DEF MemberOK
<1>4. /\ g \in Heaps
      /\ \A n \in Items :
           /\ g[n].kind = h[n].kind /\ g[n].ref = h[n].ref
           /\ g[n].next = IF n = i THEN b ELSE IF ~first /\ n = before THEN i ELSE h[n].next
           /\ g[n].prev = IF n = i THEN before ELSE IF n = b THEN i ELSE h[n].prev
           /\ g[n].child = IF first /\ n = a THEN i ELSE h[n].child
  BY <1>1, <1>3, InsertEffect
<1>5. /\ own \in Parents
      /\ \A n \in Items : own[n] = IF n = i THEN a ELSE par[n]
  BY <1>1 DEF Parents, Nodes
<1>6. \A p \in Items : IsList(g, p) <=> IsList(h, p) BY <1>4 DEF IsList
<1>7. h[a].child \in Items /\ par[h[a].child] = a /\ h[a].child # i
  BY <1>1, <1>2, <1>3 DEF ChildOK
<1>8. first <=> b = h[a].child OBVIOUS
<1> HIDE DEF g, own, before, first
<1>9. ASSUME NEW n \in Items, own[n] = NULL PROVE g[n].next = NULL
  BY <1>2, <1>3, <1>4, <1>5, <1>9
<1>10. ASSUME NEW n \in Items, own[n] # NULL PROVE MemberOK(g, own, n)
  <2>1. CASE n = i
    <3>1. /\ own[n] = a /\ g[n].next = b /\ own[b] = a /\ g[b].prev = n /\ g[n].prev = before
          /\ own[before] = a /\ g[n].kind # "FREE" /\ g[a].child = IF first THEN n ELSE h[a].child
      BY <1>3, <1>4, <1>5, <2>1
    <3>2. g[before].next = IF n = g[a].child THEN NULL ELSE n
      BY <1>1, <1>3, <1>4, <1>7, <2>1, <3>1
    <3> QED BY <1>1, <1>3, <1>6, <2>1, <3>1, <3>2 DEF MemberOK
  <2>2. CASE n # i
    <3>1. own[n] = par[n] /\ par[n] # NULL /\ par[n] \in Items BY <1>1, <1>5, <1>10, <2>2
    <3>2. MemberOK(h, par, n) BY <1>2, <3>1
    <3> DEFINE p == par[n]
    <3>3. /\ h[n].prev \in Items /\ par[h[n].prev] = p /\ h[n].prev # i /\ p # n
          /\ IsList(g, p) /\ g[n].kind # "FREE"
          /\ h[h[n].prev].next = IF n = h[p].child THEN NULL ELSE n
          /\ h[n].next # NULL => /\ h[n].next \in Items /\ par[h[n].next] = p
                                 /\ h[h[n].next].prev = n /\ h[n].next # i
      BY <1>1, <1>4, <1>6, <3>1, <3>2 DEF MemberOK
    <3>4. g[n].next # NULL => own[g[n].next] = p /\ g[g[n].next].prev = n
      <4>1. CASE ~first /\ n = before
        <5>1. g[n].next = i /\ own[i] = a /\ p = a /\ g[i].prev = n
          BY <1>3, <1>4, <1>5, <2>2, <4>1
        <5> QED BY <5>1
      <4>2. CASE ~(~first /\ n = before)
        <5>1. g[n].next = h[n].next BY <1>4, <2>2, <4>2
        <5>2. h[n].next # NULL => h[n].next # b BY <1>1, <1>3, <3>3, <4>2 DEF before
        <5> QED BY <1>4, <1>5, <3>3, <5>1, <5>2
      <4> QED BY <4>1, <4>2
    <3>5. /\ g[n].prev # NULL /\ own[g[n].prev] = p
          /\ g[g[n].prev].next = IF n = g[p].child THEN NULL ELSE n
      <4>1. CASE n = b
        <5>1. g[n].prev = i /\ own[i] = p /\ g[i].next = n BY <1>4, <1>5, <2>2, <4>1
        <5>2. n # g[p].child BY <1>4, <1>8, <2>2, <3>1, <4>1
        <5> QED BY <1>1, <5>1, <5>2
      <4>2. CASE n # b
        <5>1. g[n].prev = h[n].prev /\ own[h[n].prev] = p BY <1>4, <1>5, <2>2, <3>3, <4>2
        <5>2. g[p].child = IF first /\ p = a THEN i ELSE h[p].child BY <1>4, <3>1
        <5>3. CASE ~first /\ h[n].prev = before
          <6>1. p = a /\ h[h[n].prev].next = b BY <1>3, <3>3, <5>3
          <6>2. n = h[p].child BY <1>3, <3>3, <4>2, <6>1
          <6> QED BY <1>3, <1>4, <3>3, <4>2, <5>1, <5>2, <5>3, <6>1, <6>2
        <5>4. CASE ~(~first /\ h[n].prev = before)
          <6>1. g[h[n].prev].next = h[h[n].prev].next BY <1>4, <3>3, <5>4
          <6>2. n = g[p].child <=> n = h[p].child
            BY <1>4, <1>8, <2>2, <4>2, <5>2
          <6> QED BY <1>1, <3>3, <5>1, <6>1, <6>2
        <5> QED BY <5>3, <5>4
      <4> QED BY <4>1, <4>2
    <3> QED BY <3>1, <3>3, <3>4, <3>5 DEF MemberOK
  <2> QED BY <2>1, <2>2
<1>11. ASSUME NEW p \in Items PROVE ChildOK(g, own, p)
  <2>1. ChildOK(h, par, p) BY <1>2
  <2>2. g[p].kind = h[p].kind /\ g[p].child = IF first /\ p = a THEN i ELSE h[p].child
    BY <1>4
  <2>3. CASE first /\ p = a
    BY <1>1, <1>3, <1>4, <1>5, <1>6, <2>2, <2>3 DEF ChildOK, IsList
  <2>4. CASE ~(first /\ p = a)
    <3>1. h[p].child # NULL => /\ h[p].child \in Items
                               /\ g[h[p].child].kind = h[h[p].child].kind
      BY <1>1, <1>4
    <3>2. IsList(h, p) /\ h[p].child = NULL => \A n \in Items : own[n] # p
      BY <1>1, <1>3, <1>5, <1>7, <2>1 DEF ChildOK
    <3>3. IsList(h, p) /\ h[p].child # NULL => own[h[p].child] = p
      BY <1>1, <1>5, <2>1, <3>1 DEF ChildOK
    <3> QED BY <1>6, <2>1, <2>2, <2>4, <3>1, <3>2, <3>3 DEF ChildOK
  <2> QED BY <2>3, <2>4
<1>12. NoCycle(g, own)
  <2> SUFFICES ASSUME NEW T \in SUBSET Items,
                      \A n \in T : own[n] # NULL /\ n # g[own[n]].child /\ g[n].prev \in T
               PROVE  T = {}
    BY DEF NoCycle
  <2> DEFINE U == T \ {i}
  <2>1. ASSUME NEW n \in U PROVE par[n] # NULL /\ n # h[par[n]].child /\ h[n].prev \in U
    <3>1. n \in Items /\ n # i /\ own[n] = par[n] /\ par[n] # NULL /\ par[n] \in Items
      BY <1>1, <1>5
    <3>2. MemberOK(h, par, n) BY <1>2, <3>1
    <3>3. h[n].prev # i BY <1>1, <3>1, <3>2 DEF MemberOK
    <3>4. CASE n = b
      <4>1. i \in T BY <1>4, <3>1, <3>4
      <4>2. i # g[a].child BY <1>5, <4>1
      <4>3. n # h[a].child BY <1>3, <1>4, <1>8, <3>4, <4>2
      <4>4. before \in T BY <1>4, <4>1
      <4> QED BY <3>1, <3>3, <3>4, <4>3, <4>4 DEF before
    <3>5. CASE n # b
      <4>1. h[n].prev \in T BY <1>4, <3>1, <3>5
      <4>2. n # h[par[n]].child
        <5>1. n # g[par[n]].child BY <3>1
        <5> QED BY <1>4, <1>8, <3>1, <3>5, <5>1
      <4> QED BY <3>1, <3>3, <4>1, <4>2
    <3> QED BY <3>4, <3>5
  <2>2. U = {}
    <3>1. U \in SUBSET Items /\ NoCycle(h, par) BY DEF Linkage
    <3> HIDE DEF U
    <3> QED BY <2>1, <3>1 DEF NoCycle
  <2>3. ASSUME i \in T PROVE FALSE
    <3>1. before \in T BY <1>4, <2>3
    <3> QED BY <1>3, <2>2, <3>1
  <2> QED BY <2>2, <2>3
<1>13. Linkage(g, own) BY <1>4, <1>5, <1>9, <1>10, <1>11, <1>12 DEF Linkage
<1>14. SameBut(h, g, a) BY <1>4 DEF SameBut
<1> QED BY <1>13, <1>14 DEF g, own

(* The fields of all nodes after DetachItemViaPointer.                     *)
LEMMA DetachEffect ==
  ASSUME NEW h \in Heaps, NEW p \in Items, NEW i \in Items, NEW c \in Items, c = h[p].child,
         NEW before \in Items, before = h[i].prev, NEW after \in Nodes, after = h[i].next,
         before # i \/ i = c, after # i
  PROVE  LET g == Detached(h, p, i)
         IN /\ g \in Heaps
            /\ \A n \in Items :
                 /\ g[n].kind = h[n].kind /\ g[n].ref = h[n].ref
                 /\ g[n].next = IF n = i THEN NULL
                                ELSE IF i # c /\ n = before THEN after ELSE h[n].next
                 /\ g[n].prev = IF n = i THEN NULL
                                ELSE IF after # NULL /\ n = after THEN before
                                ELSE IF i # c /\ after = NULL /\ n = c THEN before ELSE h[n].prev
                 /\ g[n].child = IF i = c /\ n = p THEN after ELSE h[n].child
<1> DEFINE g == Detached(h, p, i)
           h1 == IF i = c THEN h ELSE [h EXCEPT ![before].next = after]
           h2 == IF after = NULL THEN h1 ELSE [h1 EXCEPT ![after].prev = before]
           h3 == IF i = c THEN [h2 EXCEPT ![p].child = after]
                 ELSE IF after = NULL THEN [h2 EXCEPT ![c].prev = before] ELSE h2
<1>1. /\ before \in Nodes /\ NULL \in Nodes /\ NULL \notin Items
      /\ after # NULL => after \in Items
  BY Basics DEF Nodes
<1>2. /\ h1 \in Heaps
      /\ \A n \in Items :
           /\ h1[n].kind = h[n].kind /\ h1[n].ref = h[n].ref /\ h1[n].prev = h[n].prev
           /\ h1[n].child = h[n].child
           /\ h1[n].next = IF i # c /\ n = before THEN after ELSE h[n].next
  <2>1. h1 \in Heaps BY <1>1, LinkSet
  <2>2. ASSUME NEW n \in Items
        PROVE  /\ h1[n].kind = h[n].kind /\ h1[n].ref = h[n].ref /\ h1[n].prev = h[n].prev
               /\ h1[n].child = h[n].child
               /\ h1[n].next = IF i # c /\ n = before THEN after ELSE h[n].next
    BY DEF Heaps, Struct
  <2> QED BY <2>1, <2>2
<1> HIDE DEF h1
<1>3. /\ h2 \in Heaps
      /\ \A n \in Items :
           /\ h2[n].kind = h[n].kind /\ h2[n].ref = h[n].ref /\ h2[n].next = h1[n].next
           /\ h2[n].child = h[n].child
           /\ h2[n].prev = IF after # NULL /\ n = after THEN before ELSE h[n].prev
  <2>1. h2 \in Heaps BY <1>1, <1>2, LinkSet
  <2>2. ASSUME NEW n \in Items
        PROVE  /\ h2[n].kind = h1[n].kind /\ h2[n].ref = h1[n].ref /\ h2[n].next = h1[n].next
               /\ h2[n].child = h1[n].child
               /\ h2[n].prev = IF after # NULL /\ n = after THEN before ELSE h1[n].prev
    BY <1>2 DEF Heaps, Struct
  <2> HIDE DEF h2
  <2> QED BY <1>2, <2>1, <2>2
<1> HIDE DEF h2
<1>4. /\ h3 \in Heaps
      /\ \A n \in Items :
           /\ h3[n].kind = h[n].kind /\ h3[n].ref = h[n].ref /\ h3[n].next = h1[n].next
           /\ h3[n].child = IF i = c /\ n = p THEN after ELSE h[n].child
           /\ h3[n].prev = IF i # c /\ after = NULL /\ n = c THEN before ELSE h2[n].prev
  <2>1. h3 \in Heaps BY <1>1, <1>3, LinkSet
  <2>2. ASSUME NEW n \in Items
        PROVE  /\ h3[n].kind = h2[n].kind /\ h3[n].ref = h2[n].ref /\ h3[n].next = h2[n].next
               /\ h3[n].child = IF i = c /\ n = p THEN after ELSE h2[n].child
               /\ h3[n].prev = IF i # c /\ after = NULL /\ n = c THEN before ELSE h2[n].prev
    BY <1>3 DEF Heaps, Struct
  <2> HIDE DEF h3
  <2> QED BY <1>3, <2>1, <2>2
<1>5. g = [h3 EXCEPT ![i].prev = NULL, ![i].next = NULL]
  BY DEF Detached, h1, h2
<1> HIDE DEF g, h3
<1>6. g \in Heaps
  <2> DEFINE k == [h3 EXCEPT ![i].prev = NULL]
  <2>1. k \in Heaps BY <1>1, <1>4, LinkSet
  <2>2. g = [k EXCEPT ![i].next = NULL] BY <1>5
  <2> HIDE DEF k
  <2> QED BY <1>1, <2>1, <2>2, LinkSet
<1>7. ASSUME NEW n \in Items
      PROVE  /\ g[n].kind = h3[n].kind /\ g[n].ref = h3[n].ref /\ g[n].child = h3[n].child
             /\ g[n].next = IF n = i THEN NULL ELSE h3[n].next
             /\ g[n].prev = IF n = i THEN NULL ELSE h3[n].prev
  BY <1>4, <1>5 DEF Heaps, Struct
<1>8. \A n \in Items :
        /\ g[n].kind = h[n].kind /\ g[n].ref = h[n].ref
        /\ g[n].next = IF n = i THEN NULL ELSE IF i # c /\ n = before THEN after ELSE h[n].next
        /\ g[n].prev = IF n = i THEN NULL
                       ELSE IF after # NULL /\ n = after THEN before
                       ELSE IF i # c /\ after = NULL /\ n = c THEN before ELSE h[n].prev
        /\ g[n].child = IF i = c /\ n = p THEN after ELSE h[n].child
  BY <1>2, <1>3, <1>4, <1>7
<1> QED BY <1>6, <1>8 DEF g

(* A node leaves its list, which is then the list of the others.           *)
LEMMA DetachedLinks ==
  ASSUME NEW h, NEW par, Linkage(h, par), NEW p \in Items, NEW i \in Items, par[i] = p
  PROVE  /\ Linkage(Detached(h, p, i), [par EXCEPT ![i] = NULL])
         /\ SameBut(h, Detached(h, p, i), p)
<1> DEFINE g == Detached(h, p, i)
           own == [par EXCEPT ![i] = NULL]
           c == h[p].child
           before == h[i].prev
           after == h[i].next
<1>1. /\ h \in Heaps /\ par \in Parents /\ NULL \notin Items
      /\ \A n \in Nodes : n # NULL => n \in Items
      /\ \A n \in Items : /\ h[n].next \in Nodes /\ h[n].prev \in Nodes /\ h[n].child \in Nodes
                          /\ par[n] \in Nodes
  BY Basics DEF Linkage
<1>2. /\ \A n \in Items : IF par[n] = NULL THEN h[n].next = NULL ELSE MemberOK(h, par, n)
      /\ \A q \in Items : ChildOK(h, par, q)
  BY DEF Linkage
<1>3. /\ before \in Items /\ par[before] = p /\ after \in Nodes /\ p # NULL /\ p # i
      /\ IsList(h, p) /\ h[before].next = IF i = c THEN NULL ELSE i
      /\ after # NULL => after \in Items /\ par[after] = p /\ h[after].prev = i
  <2>1. MemberOK(h, par, i) BY <1>1, <1>2
  <2> QED BY <1>1, <2>1 DEF MemberOK
<1>4. c \in Items /\ par[c] = p BY <1>1, <1>2, <1>3 DEF ChildOK
<1>5. MemberOK(h, par, c) BY <1>1, <1>2, <1>4
<1>6. after # NULL => h[before].next = IF i = c THEN NULL ELSE i
  BY <1>3
<1>7. (before # i \/ i = c) /\ after # i /\ (before = i => after = NULL) /\ after # c
  <2>1. after # c
    <3> SUFFICES ASSUME after = c PROVE FALSE OBVIOUS
    <3>1. h[c].prev = i /\ h[i].next = c /\ c # NULL BY <1>1, <1>3, <1>4
    <3> QED BY <1>1, <1>4, <1>5, <3>1 DEF MemberOK
  <2>2. before = i => i = c
    <3> SUFFICES ASSUME before = i, i # c PROVE FALSE OBVIOUS
    <3>1. {i} \in SUBSET Items /\ NoCycle(h, par) BY DEF Linkage
    <3>2. \A n \in {i} : par[n] # NULL /\ n # h[par[n]].child /\ h[n].prev \in {i}
      BY <1>1
    <3> QED BY <3>1, <3>2 DEF NoCycle
  <2>3. before = i => after = NULL BY <1>3, <2>2
  <2>4. after # i
    <3> SUFFICES ASSUME after = i PROVE FALSE OBVIOUS
    <3>1. h[i].prev = i BY <1>1, <1>3
    <3> QED BY <1>1, <2>3, <3>1
  <2> QED BY <2>1, <2>2, <2>3, <2>4
<1>8. /\ g \in Heaps
      /\ \A n \in Items :
           /\ g[n].kind = h[n].kind /\ g[n].ref = h[n].ref
           /\ g[n].next = IF n = i THEN NULL ELSE IF i # c /\ n = before THEN after ELSE h[n].next
           /\ g[n].prev = IF n = i THEN NULL
                          ELSE IF after # NULL /\ n = after THEN before
                          ELSE IF i # c /\ after = NULL /\ n = c THEN before ELSE h[n].prev
           /\ g[n].child = IF i = c /\ n = p THEN after ELSE h[n].child
  BY <1>1, <1>3, <1>4, <1>7, DetachEffect
<1>9. /\ own \in Parents
      /\ \A n \in Items : own[n] = IF n = i THEN NULL ELSE par[n]
  BY <1>1 DEF Parents, Nodes
<1>10. \A q \in Items : IsList(g, q) <=> IsList(h, q) BY <1>8 DEF IsList
<1>11. before = h[i].prev /\ after = h[i].next /\ c = h[p].child OBVIOUS
<1> HIDE DEF g, own, before, after, c
<1>12. ASSUME NEW n \in Items, own[n] = NULL PROVE g[n].next = NULL
  <2>1. n # i => par[n] = NULL /\ n # before /\ h[n].next = NULL BY <1>1, <1>2, <1>3, <1>9, <1>12
  <2> QED BY <1>8, <2>1
<1>13. ASSUME NEW n \in Items, own[n] # NULL PROVE MemberOK(g, own, n)
  <2>1. /\ n # i /\ own[n] = par[n] /\ par[n] # NULL /\ par[n] \in Items
    BY <1>1, <1>9, <1>13
  <2>2. MemberOK(h, par, n) BY <1>2, <2>1
  <2> DEFINE q == par[n]
  <2>3. /\ h[n].prev \in Items /\ par[h[n].prev] = q /\ q # n
        /\ IsList(g, q) /\ g[n].kind # "FREE"
        /\ h[h[n].prev].next = IF n = h[q].child THEN NULL ELSE n
        /\ h[n].next # NULL => h[n].next \in Items /\ par[h[n].next] = q /\ h[h[n].next].prev = n
    BY <1>1, <1>8, <1>10, <2>1, <2>2 DEF MemberOK
  <2>4. g[n].next # NULL => own[g[n].next] = q /\ g[g[n].next].prev = n
    <3>1. CASE i # c /\ n = before
      <4>1. g[n].next = after /\ q = p BY <1>3, <1>8, <2>1, <3>1
      <4> QED BY <1>3, <1>7, <1>8, <1>9, <3>1, <4>1
    <3>2. CASE ~(i # c /\ n = before)
      <4>1. g[n].next = h[n].next BY <1>8, <2>1, <3>2
      <4>2. h[n].next # NULL => h[n].next # i
        BY <1>1, <1>3, <1>5, <1>11, <2>1, <2>3, <3>2
      <4>3. h[n].next # NULL => h[n].next # after BY <1>3, <2>1, <2>3
      <4>4. h[n].next # NULL => h[n].next # c
        BY <1>1, <1>4, <1>5, <1>11, <2>3 DEF MemberOK
      <4> QED BY <1>8, <1>9, <2>3, <4>1, <4>2, <4>3, <4>4
    <3> QED BY <3>1, <3>2
  <2>5. /\ g[n].prev # NULL /\ own[g[n].prev] = q
        /\ g[g[n].prev].next = IF n = g[q].child THEN NULL ELSE n
    <3>1. CASE n = after
      <4>1. g[n].prev = before /\ q = p /\ after # NULL BY <1>1, <1>3, <1>8, <2>1, <3>1
      <4>2. before # i /\ own[before] = p BY <1>3, <1>7, <1>9, <4>1
      <4>3. CASE i = c
        <5>1. g[p].child = n /\ g[before].next = NULL BY <1>3, <1>8, <3>1, <4>2, <4>3
        <5> QED BY <1>1, <1>3, <4>1, <4>2, <5>1
      <4>4. CASE i # c
        <5>1. g[p].child = c /\ g[before].next = n BY <1>3, <1>8, <1>11, <3>1, <4>2, <4>4
        <5> QED BY <1>1, <1>3, <1>7, <3>1, <4>1, <4>2, <5>1
      <4> QED BY <4>3, <4>4
    <3>2. CASE n # after /\ i # c /\ after = NULL /\ n = c
      <4>1. g[n].prev = before /\ q = p BY <1>4, <1>8, <2>1, <3>2
      <4>2. before # i /\ own[before] = p BY <1>3, <1>7, <1>9, <3>2
      <4>3. g[p].child = n /\ g[before].next = NULL BY <1>3, <1>8, <1>11, <3>2, <4>2
      <4> QED BY <1>1, <1>3, <4>1, <4>2, <4>3
    <3>3. CASE n # after /\ ~(i # c /\ after = NULL /\ n = c)
      <4>1. g[n].prev = h[n].prev BY <1>8, <2>1, <3>3
      <4>2. h[n].prev # i
        <5> SUFFICES ASSUME h[n].prev = i PROVE FALSE OBVIOUS
        <5>1. q = p /\ after = IF n = c THEN NULL ELSE n BY <1>11, <2>3
        <5> QED BY <1>4, <2>1, <3>3, <5>1
      <4>3. own[h[n].prev] = q BY <1>9, <2>3, <4>2
      <4>4. n = g[q].child <=> n = h[q].child
        <5>1. q = p /\ i = c => n # c /\ g[q].child = after /\ h[q].child = c
          BY <1>8, <1>11, <2>1
        <5>2. ~(q = p /\ i = c) => g[q].child = h[q].child BY <1>8, <2>1
        <5> QED BY <3>3, <5>1, <5>2
      <4>5. g[h[n].prev].next = h[h[n].prev].next
        <5>1. i # c => h[n].prev # before
          <6> SUFFICES ASSUME i # c, h[n].prev = before PROVE FALSE OBVIOUS
          <6>1. h[before].next = i /\ q = p BY <1>3, <2>3
          <6>2. i \in Items /\ NULL \notin Items BY <1>1
          <6> QED BY <2>1, <2>3, <6>1, <6>2
        <5> QED BY <1>8, <2>3, <4>2, <5>1
      <4> QED BY <1>1, <2>3, <4>1, <4>3, <4>4, <4>5
    <3> QED BY <3>1, <3>2, <3>3
  <2> QED BY <2>1, <2>3, <2>4, <2>5 DEF MemberOK
<1>14. ASSUME NEW q \in Items PROVE ChildOK(g, own, q)
  <2>1. ChildOK(h, par, q) BY <1>2
  <2>2. g[q].kind = h[q].kind /\ g[q].child = IF i = c /\ q = p THEN after ELSE h[q].child
    BY <1>8
  <2>3. CASE i = c /\ q = p
    <3>1. ASSUME after = NULL, NEW n \in Items PROVE own[n] # p
      <4> SUFFICES ASSUME own[n] = p PROVE FALSE OBVIOUS
      <4> DEFINE T == {m \in Items : par[m] = p /\ m # i}
      <4>1. ASSUME NEW m \in T PROVE par[m] # NULL /\ m # h[par[m]].child /\ h[m].prev \in T
        <5>1. m \in Items /\ par[m] = p /\ m # i /\ m # c /\ p # NULL BY <1>3, <2>3
        <5>2. MemberOK(h, par, m) BY <1>2, <5>1
        <5>3. h[m].prev \in Items /\ par[h[m].prev] = p /\ h[h[m].prev].next = m
          BY <1>1, <1>11, <5>1, <5>2 DEF MemberOK
        <5>4. h[m].prev # i BY <1>1, <1>11, <3>1, <5>3
        <5> QED BY <1>11, <5>1, <5>3, <5>4
      <4>2. T \in SUBSET Items /\ NoCycle(h, par) BY DEF Linkage
      <4>3. n \in T BY <1>3, <1>9
      <4> HIDE DEF T
      <4>4. T = {} BY <4>1, <4>2 DEF NoCycle
      <4> QED BY <4>3, <4>4
    <3>2. after # NULL => own[after] = p /\ g[after].kind # "FREE" /\ after # p
      <4> SUFFICES ASSUME after # NULL PROVE own[after] = p /\ g[after].kind # "FREE" /\ after # p
        OBVIOUS
      <4>1. MemberOK(h, par, after) BY <1>2, <1>3
      <4> QED BY <1>3, <1>7, <1>8, <1>9, <4>1 DEF MemberOK
    <3> QED BY <1>3, <2>2, <2>3, <3>1, <3>2 DEF ChildOK, IsList
  <2>4. CASE ~(i = c /\ q = p)
    <3>1. h[q].child # NULL => /\ h[q].child \in Items
                               /\ g[h[q].child].kind = h[h[q].child].kind
      BY <1>1, <1>8
    <3>2. q \in Items /\ q # NULL BY <1>1
    <3>3. IsList(h, q) /\ h[q].child = NULL => \A n \in Items : own[n] # q
      BY <1>9, <2>1, <3>2 DEF ChildOK
    <3>4. IsList(h, q) /\ h[q].child # NULL => own[h[q].child] = q
      BY <1>1, <1>9, <1>11, <2>1, <2>4, <3>1 DEF ChildOK
    <3> QED BY <1>10, <2>1, <2>2, <2>4, <3>1, <3>3, <3>4 DEF ChildOK
  <2> QED BY <2>3, <2>4
<1>15. NoCycle(g, own)
  <2> SUFFICES ASSUME NEW T \in SUBSET Items,
                      \A n \in T : own[n] # NULL /\ n # g[own[n]].child /\ g[n].prev \in T
               PROVE  T = {}
    BY DEF NoCycle
  <2> DEFINE U == IF after \in T THEN T \union {i} ELSE T
  <2>1. ASSUME NEW n \in T
        PROVE  par[n] # NULL /\ n # h[par[n]].child /\ h[n].prev \in U
    <3>1. n \in Items /\ n # i /\ own[n] = par[n] /\ par[n] # NULL /\ par[n] \in Items
      BY <1>1, <1>9
    <3>2. n # g[par[n]].child BY <3>1
    <3>3. n # h[par[n]].child BY <1>8, <1>11, <3>1, <3>2
    <3>4. n # c \/ par[n] # p BY <1>11, <3>3
    <3>5. CASE n = after
      <4>1. h[n].prev = i BY <1>1, <1>3, <3>1, <3>5
      <4> QED BY <3>1, <3>3, <3>5, <4>1
    <3>6. CASE n # after
      <4>1. g[n].prev = h[n].prev BY <1>4, <1>8, <3>1, <3>4, <3>6
      <4> QED BY <3>1, <3>3, <4>1
    <3> QED BY <3>5, <3>6
  <2>2. ASSUME after \in T PROVE par[i] # NULL /\ i # h[par[i]].child /\ h[i].prev \in U
    <3>1. after \in Items /\ after # NULL /\ after # i BY <1>1, <1>7, <2>2
    <3>2. own[after] = p BY <1>3, <1>9, <3>1
    <3>3. after # g[p].child BY <2>2, <3>2
    <3>4. i # c BY <1>3, <1>8, <3>3
    <3>5. g[after].prev = before BY <1>8, <3>1
    <3> QED BY <1>1, <1>3, <1>11, <2>2, <3>4, <3>5
  <2>3. U = {}
    <3>1. U \in SUBSET Items /\ NoCycle(h, par) BY DEF Linkage
    <3>2. \A n \in U : par[n] # NULL /\ n # h[par[n]].child /\ h[n].prev \in U
      BY <2>1, <2>2
    <3> HIDE DEF U
    <3> QED BY <3>1, <3>2 DEF NoCycle
  <2> QED BY <2>3
<1>16. Linkage(g, own) BY <1>8, <1>9, <1>12, <1>13, <1>14, <1>15 DEF Linkage
<1>17. SameBut(h, g, p) BY <1>8 DEF SameBut
<1> QED BY <1>16, <1>17 DEF g, own

(* What else a node holds is of no matter here.                            *)
LEMMA SameLinks ==
  ASSUME NEW h, NEW par, Linkage(h, par), NEW g \in Heaps,
         \A n \in Items : /\ g[n].kind = h[n].kind /\ g[n].ref = h[n].ref
                          /\ g[n].next = h[n].next /\ g[n].prev = h[n].prev
                          /\ g[n].child = h[n].child
  PROVE  Linkage(g, par)
<1>1. /\ h \in Heaps /\ par \in Parents /\ NULL \notin Items
      /\ \A n \in Nodes : n # NULL => n \in Items
      /\ \A n \in Items : /\ h[n].next \in Nodes /\ h[n].prev \in Nodes /\ h[n].child \in Nodes
                          /\ par[n] \in Nodes
  BY Basics DEF Linkage
<1>2. ASSUME NEW n \in Items, par[n] # NULL PROVE MemberOK(g, par, n)
  <2>1. MemberOK(h, par, n) /\ par[n] \in Items BY <1>1, <1>2 DEF Linkage
  <2>2. /\ h[n].prev \in Items
        /\ h[n].next # NULL => h[n].next \in Items
    BY <1>1, <2>1 DEF MemberOK
  <2> QED BY <2>1, <2>2 DEF MemberOK, IsList
<1>3. ASSUME NEW n \in Items, par[n] = NULL PROVE g[n].next = NULL BY <1>3 DEF Linkage
<1>4. ASSUME NEW p \in Items PROVE ChildOK(g, par, p)
  <2>1. ChildOK(h, par, p) /\ (h[p].child # NULL => h[p].child \in Items)
    BY <1>1 DEF Linkage
  <2> QED BY <2>1 DEF ChildOK, IsList
<1>5. NoCycle(g, par)
  <2> SUFFICES ASSUME NEW T \in SUBSET Items,
                      \A n \in T : par[n] # NULL /\ n # g[par[n]].child /\ g[n].prev \in T
               PROVE  T = {}
    BY DEF NoCycle
  <2>1. \A n \in T : par[n] # NULL /\ n # h[par[n]].child /\ h[n].prev \in T
    BY <1>1
  <2> QED BY <2>1 DEF Linkage, NoCycle
<1> QED BY <1>1, <1>2, <1>3, <1>4, <1>5 DEF Linkage

(* The fields of all nodes after a replacement of x by r.                  *)
LEMMA ReplaceEffect ==
  ASSUME NEW h \in Heaps, NEW p \in Items, NEW x \in Items, NEW c \in Items, c = h[p].child,
         NEW before \in Items, before = h[x].prev, NEW after \in Nodes, after = h[x].next,
         NEW r \in Items, r \notin {x, c, before, after}, after # x
  PROVE  LET g == Replaced(h, p, x, r)
         IN /\ g \in Heaps
            /\ \A n \in Items :
                 /\ g[n].kind = h[n].kind /\ g[n].ref = h[n].ref
                 /\ g[n].next = IF n = x THEN NULL ELSE IF n = r THEN after
                                ELSE IF x # c /\ n = before THEN r ELSE h[n].next
                 /\ g[n].prev = IF n = x THEN NULL
                                ELSE IF n = r THEN IF x = c /\ before = x THEN r ELSE before
                                ELSE IF after # NULL /\ n = after THEN r
                                ELSE IF x # c /\ after = NULL /\ n = c THEN r ELSE h[n].prev
                 /\ g[n].child = IF x = c /\ n = p THEN r ELSE h[n].child
<1> DEFINE g == Replaced(h, p, x, r)
<1>1. /\ NULL \notin Items /\ NULL \in Nodes /\ (after # NULL => after \in Items)
      /\ r \in Nodes /\ before \in Nodes
      /\ r # x /\ r # c /\ r # before /\ r # after
  BY Basics DEF Nodes
<1> DEFINE h1 == [h EXCEPT ![r].next = after, ![r].prev = before]
           h2 == IF after = NULL THEN h1 ELSE [h1 EXCEPT ![after].prev = r]
           f == [h2 EXCEPT ![before].next = r]
           h3 == IF x = c
                 THEN IF h2[x].prev = x THEN [h2 EXCEPT ![r].prev = r, ![p].child = r]
                      ELSE [h2 EXCEPT ![p].child = r]
                 ELSE IF after = NULL THEN [f EXCEPT ![c].prev = r] ELSE f
<1>2. /\ h1 \in Heaps
      /\ \A n \in Items :
           /\ h1[n].kind = h[n].kind /\ h1[n].ref = h[n].ref /\ h1[n].child = h[n].child
           /\ h1[n].next = IF n = r THEN after ELSE h[n].next
           /\ h1[n].prev = IF n = r THEN before ELSE h[n].prev
  <2>1. h1 \in Heaps
    <3> DEFINE k == [h EXCEPT ![r].next = after]
    <3>1. k \in Heaps BY <1>1, LinkSet
    <3>2. h1 = [k EXCEPT ![r].prev = before] OBVIOUS
    <3> HIDE DEF k, h1
    <3> QED BY <1>1, <3>1, <3>2, LinkSet
  <2>2. ASSUME NEW n \in Items
        PROVE  /\ h1[n].kind = h[n].kind /\ h1[n].ref = h[n].ref /\ h1[n].child = h[n].child
               /\ h1[n].next = IF n = r THEN after ELSE h[n].next
               /\ h1[n].prev = IF n = r THEN before ELSE h[n].prev
    BY <1>1 DEF Heaps, Struct
  <2> QED BY <2>1, <2>2
<1> HIDE DEF h1
<1>3. /\ h2 \in Heaps
      /\ \A n \in Items :
           /\ h2[n].kind = h[n].kind /\ h2[n].ref = h[n].ref /\ h2[n].child = h[n].child
           /\ h2[n].next = h1[n].next
           /\ h2[n].prev = IF after # NULL /\ n = after THEN r ELSE h1[n].prev
  <2>1. h2 \in Heaps BY <1>1, <1>2, LinkSet
  <2>2. ASSUME NEW n \in Items
        PROVE  /\ h2[n].kind = h1[n].kind /\ h2[n].ref = h1[n].ref /\ h2[n].child = h1[n].child
               /\ h2[n].next = h1[n].next
               /\ h2[n].prev = IF after # NULL /\ n = after THEN r ELSE h1[n].prev
    BY <1>1, <1>2 DEF Heaps, Struct
  <2> HIDE DEF h2
  <2> QED BY <1>2, <2>1, <2>2
<1> HIDE DEF h2
<1>4. h2[x].prev = before BY <1>1, <1>2, <1>3
<1>5. /\ f \in Heaps
      /\ \A n \in Items :
           /\ f[n].kind = h2[n].kind /\ f[n].ref = h2[n].ref /\ f[n].child = h2[n].child
           /\ f[n].next = IF n = before THEN r ELSE h2[n].next
           /\ f[n].prev = h2[n].prev
  <2>1. f \in Heaps BY <1>1, <1>3, LinkSet
  <2>2. ASSUME NEW n \in Items
        PROVE  /\ f[n].kind = h2[n].kind /\ f[n].ref = h2[n].ref /\ f[n].child = h2[n].child
               /\ f[n].next = IF n = before THEN r ELSE h2[n].next
               /\ f[n].prev = h2[n].prev
    BY <1>1, <1>3 DEF Heaps, Struct
  <2> QED BY <2>1, <2>2
<1> HIDE DEF f
<1>6. /\ h3 \in Heaps
      /\ \A n \in Items :
           /\ h3[n].kind = h2[n].kind /\ h3[n].ref = h2[n].ref
           /\ h3[n].child = IF x = c /\ n = p THEN r ELSE h2[n].child
           /\ h3[n].next = IF x # c /\ n = before THEN r ELSE h2[n].next
           /\ h3[n].prev = IF x = c /\ before = x /\ n = r THEN r
                           ELSE IF x # c /\ after = NULL /\ n = c THEN r ELSE h2[n].prev
  <2>1. h3 \in Heaps
    <3> DEFINE k == [h2 EXCEPT ![r].prev = r]
    <3>1. k \in Heaps BY <1>1, <1>3, LinkSet
    <3>2. [h2 EXCEPT ![r].prev = r, ![p].child = r] = [k EXCEPT ![p].child = r] OBVIOUS
    <3> HIDE DEF k
    <3>3. [k EXCEPT ![p].child = r] \in Heaps BY <1>1, <3>1, LinkSet
    <3>4. [h2 EXCEPT ![p].child = r] \in Heaps BY <1>1, <1>3, LinkSet
    <3>5. [f EXCEPT ![c].prev = r] \in Heaps BY <1>1, <1>5, LinkSet
    <3> QED BY <1>5, <3>2, <3>3, <3>4, <3>5
  <2>2. CASE x = c
    <3>1. ASSUME NEW n \in Items
          PROVE  /\ h3[n].kind = h2[n].kind /\ h3[n].ref = h2[n].ref
                 /\ h3[n].child = IF n = p THEN r ELSE h2[n].child
                 /\ h3[n].next = h2[n].next
                 /\ h3[n].prev = IF before = x /\ n = r THEN r ELSE h2[n].prev
      BY <1>3, <1>4, <2>2 DEF Heaps, Struct
    <3> HIDE DEF h3
    <3> QED BY <2>1, <2>2, <3>1
  <2>3. CASE x # c
    <3>1. ASSUME NEW n \in Items
          PROVE  /\ h3[n].kind = f[n].kind /\ h3[n].ref = f[n].ref
                 /\ h3[n].child = f[n].child /\ h3[n].next = f[n].next
                 /\ h3[n].prev = IF after = NULL /\ n = c THEN r ELSE f[n].prev
      BY <1>5, <2>3 DEF Heaps, Struct
    <3> HIDE DEF h3
    <3> QED BY <1>5, <2>1, <2>3, <3>1
  <2> QED BY <2>2, <2>3
<1>7. g = [h3 EXCEPT ![x].next = NULL, ![x].prev = NULL]
  BY DEF Replaced, h1, h2, f
<1> HIDE DEF g, h3
<1>8. g \in Heaps
  <2> DEFINE k == [h3 EXCEPT ![x].next = NULL]
  <2>1. k \in Heaps BY <1>1, <1>6, LinkSet
  <2>2. g = [k EXCEPT ![x].prev = NULL] BY <1>7
  <2> HIDE DEF k
  <2> QED BY <1>1, <2>1, <2>2, LinkSet
<1>9. ASSUME NEW n \in Items
      PROVE  /\ g[n].kind = h3[n].kind /\ g[n].ref = h3[n].ref /\ g[n].child = h3[n].child
             /\ g[n].next = IF n = x THEN NULL ELSE h3[n].next
             /\ g[n].prev = IF n = x THEN NULL ELSE h3[n].prev
  BY <1>6, <1>7 DEF Heaps, Struct
<1>10. ASSUME NEW n \in Items
      PROVE  /\ g[n].kind = h[n].kind /\ g[n].ref = h[n].ref
             /\ g[n].next = IF n = x THEN NULL ELSE IF n = r THEN after
                            ELSE IF x # c /\ n = before THEN r ELSE h[n].next
             /\ g[n].prev = IF n = x THEN NULL
                            ELSE IF n = r THEN IF x = c /\ before = x THEN r ELSE before
                            ELSE IF after # NULL /\ n = after THEN r
                            ELSE IF x # c /\ after = NULL /\ n = c THEN r ELSE h[n].prev
             /\ g[n].child = IF x = c /\ n = p THEN r ELSE h[n].child
  BY <1>1, <1>2, <1>3, <1>6, <1>9
<1> QED BY <1>8, <1>10 DEF g

(* A replacement is a removal and an addition at the same place.           *)
LEMMA ReplacedLinks ==
  ASSUME NEW h, NEW par, Linkage(h, par), NEW p \in Items, NEW x \in Items, par[x] = p,
         NEW r \in Items, r # p, par[r] = NULL, h[r].kind # "FREE"
  PROVE  /\ Linkage(Replaced(h, p, x, r), [[par EXCEPT ![x] = NULL] EXCEPT ![r] = p])
         /\ SameBut(h, Replaced(h, p, x, r), p)
<1> DEFINE c == h[p].child
           before == h[x].prev
           after == h[x].next
           own == [par EXCEPT ![x] = NULL]
           d == Detached(h, p, x)
           e == IF after = NULL THEN add_item_to_array(d, p, r) ELSE Inserted(d, p, after, r)
           g == Replaced(h, p, x, r)
<1>1. /\ h \in Heaps /\ par \in Parents /\ NULL \notin Items /\ NULL \in Nodes
      /\ \A n \in Nodes : n # NULL => n \in Items
      /\ \A n \in Items : /\ h[n].next \in Nodes /\ h[n].prev \in Nodes /\ h[n].child \in Nodes
                          /\ par[n] \in Nodes /\ n \in Nodes
  BY Basics DEF Linkage, Nodes
<1>2. MemberOK(h, par, x) /\ p # NULL /\ h[r].next = NULL /\ x # r /\ ChildOK(h, par, p)
  BY <1>1 DEF Linkage
<1>3. /\ before \in Items /\ par[before] = p /\ after \in Nodes /\ p # x /\ IsList(h, p)
      /\ h[before].next = IF x = c THEN NULL ELSE x
      /\ after # NULL => after \in Items /\ par[after] = p /\ h[after].prev = x
  BY <1>1, <1>2 DEF MemberOK
<1>4. c \in Items /\ par[c] = p BY <1>1, <1>2, <1>3 DEF ChildOK
<1>5. Linkage(d, own) BY DetachedLinks
<1>6. before # r /\ after # r /\ c # r BY <1>1, <1>2, <1>3, <1>4
<1>7. (before # x \/ x = c) /\ after # x /\ (before = x => after = NULL)
  <2>1. before = x => x = c
    <3> SUFFICES ASSUME before = x, x # c PROVE FALSE OBVIOUS
    <3>1. {x} \in SUBSET Items /\ NoCycle(h, par) BY DEF Linkage
    <3>2. \A n \in {x} : par[n] # NULL /\ n # h[par[n]].child /\ h[n].prev \in {x}
      BY <1>2
    <3> QED BY <3>1, <3>2 DEF NoCycle
  <2>2. before = x => after = NULL BY <1>3, <2>1
  <2>3. after # x
    <3> SUFFICES ASSUME after = x PROVE FALSE OBVIOUS
    <3>1. h[x].prev = x BY <1>1, <1>3
    <3> QED BY <1>1, <2>2, <3>1
  <2> QED BY <2>1, <2>2, <2>3
<1>8. /\ d \in Heaps
      /\ \A n \in Items :
           /\ d[n].kind = h[n].kind /\ d[n].ref = h[n].ref
           /\ d[n].next = IF n = x THEN NULL ELSE IF x # c /\ n = before THEN after ELSE h[n].next
           /\ d[n].prev = IF n = x THEN NULL
                          ELSE IF after # NULL /\ n = after THEN before
                          ELSE IF x # c /\ after = NULL /\ n = c THEN before ELSE h[n].prev
           /\ d[n].child = IF x = c /\ n = p THEN after ELSE h[n].child
  BY <1>1, <1>3, <1>4, <1>7, DetachEffect
<1>9. x = c /\ after = NULL => before = x
  <2> SUFFICES ASSUME x = c, after = NULL, before # x PROVE FALSE OBVIOUS
  <2>1. IsList(d, p) /\ d[p].child = NULL BY <1>3, <1>8 DEF IsList
  <2>2. own[before] = p BY <1>1, <1>3 DEF Parents
  <2> QED BY <1>3, <1>5, <2>1, <2>2 DEF Linkage, ChildOK
<1>10. /\ g \in Heaps
       /\ \A n \in Items :
            /\ g[n].kind = h[n].kind /\ g[n].ref = h[n].ref
            /\ g[n].next = IF n = x THEN NULL ELSE IF n = r THEN after
                           ELSE IF x # c /\ n = before THEN r ELSE h[n].next
            /\ g[n].prev = IF n = x THEN NULL
                           ELSE IF n = r THEN IF x = c /\ before = x THEN r ELSE before
                           ELSE IF after # NULL /\ n = after THEN r
                           ELSE IF x # c /\ after = NULL /\ n = c THEN r ELSE h[n].prev
            /\ g[n].child = IF x = c /\ n = p THEN r ELSE h[n].child
  <2> HIDE DEF g, c, before, after
  <2>1. r \notin {x, c, before, after} BY <1>2, <1>6
  <2> QED BY <1>3, <1>4, <1>7, <2>1, ReplaceEffect, <1>1 DEF g, c, before, after
<1>11. /\ own[r] = NULL /\ d[r].kind # "FREE" /\ d[r].next = NULL /\ IsList(d, p)
       /\ after # NULL => own[after] = p
  BY <1>1, <1>2, <1>3, <1>6, <1>7, <1>8 DEF Parents, IsList
<1>12. Linkage(e, [own EXCEPT ![r] = p])
  BY <1>3, <1>5, <1>11, AddedLinks, InsertedLinks
<1>13. \A n \in Items : /\ e[n].kind = d[n].kind /\ e[n].ref = d[n].ref
                        /\ e[n].next = g[n].next /\ e[n].prev = g[n].prev
                        /\ e[n].child = g[n].child
  <2> HIDE DEF g, d, own
  <2>1. CASE after = NULL
    <3> DEFINE k == d[p].child
    <3>1. k = IF x = c THEN NULL ELSE c BY <1>8, <2>1
    <3>2. k # NULL => k = c /\ d[k].prev = before /\ x # c BY <1>4, <1>8, <2>1, <3>1
    <3>3. e = add_item_to_array(d, p, r) BY <2>1
    <3>4. k # r /\ (k # NULL => k \in Items /\ d[k].prev \in Items /\ d[k].prev # r)
      BY <1>1, <1>3, <1>4, <1>6, <3>1, <3>2
    <3> HIDE DEF e, k
    <3>5. \A n \in Items :
            /\ e[n].kind = d[n].kind /\ e[n].ref = d[n].ref
            /\ e[n].next = IF k = NULL THEN IF n = r THEN NULL ELSE d[n].next
                           ELSE IF n = d[k].prev THEN r ELSE d[n].next
            /\ e[n].prev = IF n = r THEN IF k = NULL THEN r ELSE d[k].prev
                           ELSE IF n = k THEN r ELSE d[n].prev
            /\ e[n].child = IF n = p /\ k = NULL THEN r ELSE d[n].child
      BY <1>8, <3>3, <3>4, AddEffect DEF k
    <3> HIDE DEF c, before, after
    <3>6. CASE x = c
      BY <1>1, <1>2, <1>6, <1>8, <1>9, <1>10, <1>11, <2>1, <3>1, <3>5, <3>6
    <3>7. CASE x # c
      <4>1. k = c /\ d[k].prev = before /\ k # NULL BY <1>1, <1>4, <3>1, <3>2, <3>7
      <4> QED BY <1>2, <1>6, <1>7, <1>8, <1>10, <1>11, <2>1, <3>5, <3>7, <4>1
    <3> QED BY <3>6, <3>7
  <2>2. CASE after # NULL
    <3>1. after \in Items /\ d[after].prev = before /\ e = Inserted(d, p, after, r)
      BY <1>1, <1>3, <1>7, <1>8, <2>2
    <3>2. after = d[p].child <=> x = c
      <4>1. d[p].child = IF x = c THEN after ELSE c BY <1>8
      <4>2. x # c => after # c
        <5> SUFFICES ASSUME x # c, after = c PROVE FALSE OBVIOUS
        <5>1. h[c].prev = x /\ MemberOK(h, par, c) BY <1>1, <1>2, <1>3, <1>4 DEF Linkage
        <5> QED BY <1>1, <1>4, <2>2, <5>1 DEF MemberOK
      <4> QED BY <4>1, <4>2
    <3> HIDE DEF e
    <3>3. \A n \in Items :
            /\ e[n].kind = d[n].kind /\ e[n].ref = d[n].ref
            /\ e[n].next = IF n = r THEN after ELSE IF x # c /\ n = before THEN r ELSE d[n].next
            /\ e[n].prev = IF n = r THEN before ELSE IF n = after THEN r ELSE d[n].prev
            /\ e[n].child = IF x = c /\ n = p THEN r ELSE d[n].child
      <4> HIDE DEF c, before, after
      <4>1. before = d[after].prev /\ r # after /\ r # before /\ before \in Items /\ d \in Heaps
        BY <1>3, <1>6, <1>8, <3>1
      <4> DEFINE first == after = d[p].child
      <4>2. \A n \in Items :
              /\ e[n].kind = d[n].kind /\ e[n].ref = d[n].ref
              /\ e[n].next = IF n = r THEN after ELSE IF ~first /\ n = before THEN r ELSE d[n].next
              /\ e[n].prev = IF n = r THEN before ELSE IF n = after THEN r ELSE d[n].prev
              /\ e[n].child = IF first /\ n = p THEN r ELSE d[n].child
        BY <3>1, <4>1, InsertEffect, SMTT(20)
      <4> QED BY <3>2, <4>2
    <3> HIDE DEF c, before, after
    <3> QED BY <1>2, <1>6, <1>7, <1>8, <1>10, <2>2, <3>1, <3>3
  <2> QED BY <2>1, <2>2
<1>14. \A n \in Items : g[n].kind = e[n].kind /\ g[n].ref = e[n].ref
  <2> HIDE DEF g, d, e, own, c, before, after
  <2> QED BY <1>8, <1>10, <1>13
<1> HIDE DEF g, d, e, own
<1>15. Linkage(g, [own EXCEPT ![r] = p]) BY <1>10, <1>12, <1>13, <1>14, SameLinks
<1>16. SameBut(h, g, p)
  <2> HIDE DEF c, before, after
  <2> QED BY <1>10 DEF SameBut
<1> QED BY <1>15, <1>16 DEF g, own

(* A node that was free gets into use, in no list.                         *)
LEMMA FreshLinks ==
  ASSUME NEW h, NEW par, Linkage(h, par), NEW n \in Items, h[n].kind = "FREE",
         NEW g \in Heaps, \A m \in Items : m # n => g[m] = h[m],
         g[n].next = NULL, g[n].kind # "FREE", g[n].child \in Items => h[g[n].child].kind # "FREE",
         IsList(g, n) \/ g[n].kind \notin Containers => g[n].child = NULL
  PROVE  Linkage(g, par) /\ par[n] = NULL
<1>1. /\ h \in Heaps /\ par \in Parents /\ NULL \notin Items
      /\ \A m \in Nodes : m # NULL => m \in Items
      /\ \A m \in Items : /\ h[m].next \in Nodes /\ h[m].prev \in Nodes /\ h[m].child \in Nodes
                          /\ par[m] \in Nodes /\ g[m].child \in Nodes
  BY Basics DEF Linkage
<1>2. /\ \A m \in Items : IF par[m] = NULL THEN h[m].next = NULL ELSE MemberOK(h, par, m)
      /\ \A p \in Items : ChildOK(h, par, p)
  BY DEF Linkage
<1>3. par[n] = NULL BY <1>2 DEF MemberOK
<1>4. \A m \in Items : par[m] # n
  <2> SUFFICES ASSUME NEW m \in Items, par[m] = n PROVE FALSE OBVIOUS
  <2>1. MemberOK(h, par, m) BY <1>1, <1>2
  <2> QED BY <2>1 DEF MemberOK, IsList, Containers
<1>5. ASSUME NEW m \in Items, par[m] # NULL PROVE MemberOK(g, par, m)
  <2>1. MemberOK(h, par, m) /\ par[m] \in Items /\ par[m] # n /\ m # n
    BY <1>1, <1>2, <1>3, <1>4, <1>5
  <2>2. /\ h[m].prev \in Items /\ h[m].prev # n
        /\ h[m].next # NULL => h[m].next \in Items /\ h[m].next # n
    BY <1>1, <1>3, <2>1 DEF MemberOK
  <2> QED BY <2>1, <2>2 DEF MemberOK, IsList
<1>6. ASSUME NEW m \in Items, par[m] = NULL PROVE g[m].next = NULL BY <1>2, <1>6
<1>7. ASSUME NEW p \in Items PROVE ChildOK(g, par, p)
  <2>1. CASE p = n
    <3>1. g[n].child # NULL => g[n].child \in Items /\ g[n].child # n BY <1>1
    <3> QED BY <1>4, <2>1, <3>1 DEF ChildOK
  <2>2. CASE p # n
    <3>1. ChildOK(h, par, p) /\ g[p] = h[p] BY <1>2, <2>2
    <3>2. h[p].child # NULL => h[p].child \in Items /\ h[p].child # n BY <1>1, <3>1 DEF ChildOK
    <3> QED BY <3>1, <3>2 DEF ChildOK, IsList
  <2> QED BY <2>1, <2>2
<1>8. NoCycle(g, par)
  <2> SUFFICES ASSUME NEW T \in SUBSET Items,
                      \A m \in T : par[m] # NULL /\ m # g[par[m]].child /\ g[m].prev \in T
               PROVE  T = {}
    BY DEF NoCycle
  <2>1. \A m \in T : par[m] # NULL /\ m # h[par[m]].child /\ h[m].prev \in T
    BY <1>1, <1>3, <1>4
  <2> QED BY <2>1 DEF Linkage, NoCycle
<1> QED BY <1>1, <1>3, <1>5, <1>6, <1>7, <1>8 DEF Linkage

(* From h to g the nodes of B are freed, which are all the lists they are  *)
(* in, and all that hangs on them: those of P, whose lists these were, may *)
(* go on without.                                                          *)
Cut(h, par, B, P, g) ==
  /\ \A n \in Items : par[n] \in B \union P => n \in B
  /\ \A n \in B : par[n] \in B \union P \union {NULL}
  /\ \A r \in Items \ (B \union P) : h[r].kind # "FREE" /\ h[r].ref => h[r].child \notin B
  /\ \A n \in B : g[n] = Free
  /\ \A n \in Items \ (B \union P) : g[n] = h[n]
  /\ \A p \in P \ B : /\ g[p].kind # "FREE" /\ g[p].child = NULL
                       /\ g[p].next = h[p].next /\ g[p].prev = h[p].prev

(* What is left is in lists as before.                                     *)
LEMMA CutLinks ==
  ASSUME NEW h, NEW par, Linkage(h, par), NEW B \in SUBSET Items, NEW P \in SUBSET Items,
         NEW g \in Heaps, Cut(h, par, B, P, g)
  PROVE  Linkage(g, [n \in Items |-> IF n \in B THEN NULL ELSE par[n]])
<1> DEFINE own == [n \in Items |-> IF n \in B THEN NULL ELSE par[n]]
<1>1. /\ h \in Heaps /\ par \in Parents /\ NULL \notin Items /\ NULL \in Nodes
      /\ \A m \in Nodes : m # NULL => m \in Items
      /\ \A m \in Items : /\ h[m].next \in Nodes /\ h[m].prev \in Nodes /\ h[m].child \in Nodes
                          /\ par[m] \in Nodes
  BY Basics DEF Linkage, Nodes
<1> USE DEF Cut
<1>2. /\ \A m \in Items : IF par[m] = NULL THEN h[m].next = NULL ELSE MemberOK(h, par, m)
      /\ \A p \in Items : ChildOK(h, par, p)
  BY DEF Linkage
<1>3. Free.next = NULL /\ Free.kind = "FREE" /\ Free.child = NULL BY DEF Free
<1>4. /\ own \in Parents
      /\ \A n \in Items : own[n] = IF n \in B THEN NULL ELSE par[n]
  BY <1>1 DEF Parents
<1> HIDE DEF own
<1>5. ASSUME NEW n \in Items \ B
      PROVE  g[n].next = h[n].next /\ g[n].prev = h[n].prev /\ (g[n].kind = "FREE" => h[n].kind = "FREE")
  OBVIOUS
<1>6. ASSUME NEW n \in Items, own[n] = NULL PROVE g[n].next = NULL
  BY <1>2, <1>3, <1>4, <1>5, <1>6
<1>7. ASSUME NEW n \in Items \ B, par[n] # NULL
      PROVE  /\ own[n] = par[n] /\ par[n] \in Items \ (B \union P) /\ MemberOK(h, par, n)
             /\ g[par[n]] = h[par[n]]
             /\ h[n].prev \in Items \ B
             /\ h[n].next # NULL => h[n].next \in Items \ B
  <2>1. own[n] = par[n] /\ par[n] \in Items \ (B \union P) BY <1>1, <1>4, <1>7
  <2>2. MemberOK(h, par, n) BY <1>2, <1>7
  <2>3. /\ h[n].prev \in Items /\ par[h[n].prev] = par[n]
        /\ h[n].next # NULL => h[n].next \in Items /\ par[h[n].next] = par[n]
    BY <1>1, <2>2 DEF MemberOK
  <2>4. \A m \in Items : par[m] = par[n] => m \notin B
    BY <1>1, <1>7, <2>1
  <2> QED BY <2>1, <2>2, <2>3, <2>4
<1>8. ASSUME NEW n \in Items, own[n] # NULL PROVE MemberOK(g, own, n)
  <2>1. n \in Items \ B /\ par[n] # NULL BY <1>4, <1>8
  <2>2. /\ own[n] = par[n] /\ par[n] \in Items \ (B \union P) /\ MemberOK(h, par, n)
        /\ g[par[n]] = h[par[n]] /\ h[n].prev \in Items \ B
        /\ h[n].next # NULL => h[n].next \in Items \ B
    BY <1>7, <2>1
  <2>3. /\ g[n].next = h[n].next /\ g[n].prev = h[n].prev /\ g[n].kind # "FREE"
    BY <1>5, <2>1, <2>2 DEF MemberOK
  <2>4. /\ own[h[n].prev] = par[h[n].prev] /\ g[h[n].prev].next = h[h[n].prev].next
        /\ h[n].next # NULL => /\ own[h[n].next] = par[h[n].next]
                               /\ g[h[n].next].prev = h[h[n].next].prev
    BY <1>4, <1>5, <2>2
  <2> QED BY <2>2, <2>3, <2>4 DEF MemberOK, IsList
<1>9. ASSUME NEW p \in Items PROVE ChildOK(g, own, p)
  <2>1. CASE p \in B
    BY <1>3, <2>1 DEF ChildOK, IsList, Containers
  <2>2. CASE p \in P \ B
    <3>1. \A n \in Items : own[n] # p BY <1>1, <1>4, <2>2
    <3> QED BY <2>2, <3>1 DEF ChildOK
  <2>3. CASE p \notin B \union P
    <3>1. ChildOK(h, par, p) /\ g[p] = h[p] BY <1>2, <2>3
    <3>2. h[p].child # NULL => h[p].child \in Items /\ h[p].child \notin B
      <4> SUFFICES ASSUME h[p].child # NULL PROVE h[p].child \in Items /\ h[p].child \notin B
        OBVIOUS
      <4>1. CASE IsList(h, p)
        <5>1. par[h[p].child] = p /\ h[p].child \in Items BY <1>1, <3>1, <4>1 DEF ChildOK
        <5> QED BY <1>1, <2>3, <5>1
      <4>2. CASE ~IsList(h, p)
        <5>1. h[p].kind \in Containers /\ h[p].ref
          BY <1>1, <3>1, <4>2 DEF ChildOK, IsList, Heaps, Struct
        <5>2. h[p].kind # "FREE" BY <5>1 DEF Containers
        <5> QED BY <1>1, <2>3, <5>1, <5>2
      <4> QED BY <4>1, <4>2
    <3>3. \A n \in Items : par[n] # p => own[n] # p BY <1>1, <1>4
    <3>4. h[p].child # NULL => /\ own[h[p].child] = par[h[p].child]
                               /\ g[h[p].child].kind = "FREE" => h[h[p].child].kind = "FREE"
      BY <1>4, <1>5, <3>2
    <3> QED BY <3>1, <3>3, <3>4 DEF ChildOK, IsList
  <2> QED BY <2>1, <2>2, <2>3
<1>10. NoCycle(g, own)
  <2> SUFFICES ASSUME NEW T \in SUBSET Items,
                      \A n \in T : own[n] # NULL /\ n # g[own[n]].child /\ g[n].prev \in T
               PROVE  T = {}
    BY DEF NoCycle
  <2>1. ASSUME NEW n \in T PROVE par[n] # NULL /\ n # h[par[n]].child /\ h[n].prev \in T
    <3>1. own[n] # NULL /\ n # g[own[n]].child /\ g[n].prev \in T /\ n \in Items OBVIOUS
    <3>2. n \in Items \ B /\ par[n] # NULL BY <1>4, <3>1
    <3>3. own[n] = par[n] /\ g[par[n]] = h[par[n]] /\ g[n].prev = h[n].prev
      BY <1>5, <1>7, <3>2
    <3> QED BY <3>1, <3>2, <3>3
  <2> QED BY <2>1 DEF Linkage, NoCycle
<1>11. Linkage(g, own) BY <1>4, <1>6, <1>8, <1>9, <1>10 DEF Linkage
<1> QED BY <1>11 DEF own

(* A node from outside the lists is freed, with what it owns: all that is  *)
(* below it and no more.                                                   *)
LEMMA FreedLinks ==
  ASSUME NEW h, NEW par, Linkage(h, par), NEW x \in Items, par[x] = NULL,
         \A r \in Items \ Below(h, x) :
           h[r].kind # "FREE" /\ h[r].ref => h[r].child \notin Below(h, x)
  PROVE  /\ Linkage(Freed(h, x), [n \in Items |-> IF n \in Below(h, x) THEN NULL ELSE par[n]])
         /\ x \in Below(h, x)
         /\ \A n \in Below(h, x) : n # x => par[n] # NULL
<1> DEFINE B == Below(h, x)
           g == Freed(h, x)
<1>1. /\ h \in Heaps /\ par \in Parents /\ NULL \notin Items /\ NULL \in Nodes
  BY Basics DEF Linkage, Nodes
<1>2. /\ \A m \in Items : IF par[m] = NULL THEN h[m].next = NULL ELSE MemberOK(h, par, m)
      /\ \A p \in Items : ChildOK(h, par, p)
  BY DEF Linkage
<1>3. /\ B \in SUBSET Items /\ x \in B
      /\ \A n \in B : /\ h[n].next # NULL => h[n].next \in B
                      /\ ~h[n].ref /\ h[n].child # NULL => h[n].child \in B
      /\ \A n \in Items : par[n] \in B => n \in B
  BY BelowOf
<1>4. ASSUME NEW n \in B, n # x PROVE par[n] \in B
  <2> HIDE DEF B
  <2> DEFINE Y == {m \in B : m = x \/ par[m] \in B}
  <2>1. Y \in SUBSET Items /\ {x} \subseteq Y BY <1>3
  <2>2. ASSUME NEW m \in Y PROVE Links(h, m, FALSE) \ {NULL} \subseteq Y
    <3>1. m \in B /\ m \in Items BY <1>3
    <3>2. h[m].next # NULL => h[m].next \in Y
      <4> SUFFICES ASSUME h[m].next # NULL PROVE h[m].next \in Y OBVIOUS
      <4>1. par[m] # NULL BY <1>2, <3>1
      <4>2. MemberOK(h, par, m) BY <1>2, <3>1, <4>1
      <4>3. m # x BY <4>1
      <4>4. par[h[m].next] = par[m] /\ par[m] \in B BY <4>2, <4>3 DEF MemberOK
      <4> QED BY <1>3, <3>1, <4>4
    <3>3. ~h[m].ref /\ h[m].child # NULL => h[m].child \in Y
      <4> SUFFICES ASSUME ~h[m].ref, h[m].child # NULL PROVE h[m].child \in Y OBVIOUS
      <4>1. ChildOK(h, par, m) BY <1>2, <3>1
      <4>2. IsList(h, m) /\ par[h[m].child] = m BY <4>1 DEF ChildOK, IsList
      <4> QED BY <1>3, <3>1, <4>2
    <3> QED BY <3>2, <3>3 DEF Links
  <2> HIDE DEF Y
  <2>3. Reach(h, {x}, FALSE) \subseteq Y
    <3>1. {x} \in SUBSET Items /\ FALSE \in BOOLEAN OBVIOUS
    <3> QED BY <1>1, <2>1, <2>2, <3>1, ReachLeast
  <2> QED BY <1>4, <2>3 DEF B, Below, Y
<1>5. /\ g \in Heaps
      /\ \A n \in Items : g[n] = IF n \in B THEN Free ELSE h[n]
  <2>1. Free \in Struct BY <1>1 DEF Free, Struct, Nodes
  <2>2. g = [n \in Items |-> IF n \in B THEN Free ELSE h[n]] BY DEF Freed, B
  <2> HIDE DEF B, g
  <2> QED BY <1>1, <2>1, <2>2 DEF Heaps
<1>6. \A n \in B : par[n] \in B \union {NULL} BY <1>4
<1>7. \A r \in Items \ B : h[r].kind # "FREE" /\ h[r].ref => h[r].child \notin B
  OBVIOUS
<1> HIDE DEF B, g
<1> DEFINE P == {}
<1>8. P \in SUBSET Items OBVIOUS
<1>9. \A p \in P \ B : /\ g[p].kind # "FREE" /\ g[p].child = NULL
                       /\ g[p].next = h[p].next /\ g[p].prev = h[p].prev
  OBVIOUS
<1> HIDE DEF P
<1>10. Linkage(g, [n \in Items |-> IF n \in B THEN NULL ELSE par[n]])
  <2>1. \A n \in Items : par[n] \in B \union P => n \in B BY <1>3 DEF P
  <2>2. \A n \in B : par[n] \in B \union P \union {NULL} BY <1>6 DEF P
  <2>3. \A r \in Items \ (B \union P) : h[r].kind # "FREE" /\ h[r].ref => h[r].child \notin B
    BY <1>7 DEF P
  <2>4. \A n \in Items \ (B \union P) : g[n] = h[n] BY <1>5 DEF P
  <2>5. g \in Heaps BY <1>5
  <2>6. B \in SUBSET Items /\ \A n \in B : g[n] = Free BY <1>3, <1>5
  <2>7. Cut(h, par, B, P, g) BY <1>9, <2>1, <2>2, <2>3, <2>4, <2>6 DEF Cut
  <2> QED BY <1>8, <2>5, <2>6, <2>7, CutLinks
<1>11. \A n \in B : n # x => par[n] # NULL BY <1>1, <1>3, <1>4
<1> QED BY <1>3, <1>10, <1>11 DEF B, g
-----------------------------------------------------------------------------
(* Copies of a tree                                                        *)

(* Two sets with one member between them.                                  *)
LEMMA OneOfBoth ==
  ASSUME NEW A, NEW B, IsFiniteSet(A), IsFiniteSet(B), Cardinality(A) + Cardinality(B) = 1
  PROVE  /\ \A m, n \in A : m = n
         /\ \A m, n \in B : m = n
         /\ A = {} \/ B = {}
<1>1. Cardinality(A) \in Nat /\ Cardinality(B) \in Nat BY FS_CardinalityType
<1>2. /\ Cardinality(A) = 0 <=> A = {}
      /\ Cardinality(B) = 0 <=> B = {}
  BY FS_EmptySet
<1>3. \/ Cardinality(A) = 0 /\ Cardinality(B) = 1
      \/ Cardinality(A) = 1 /\ Cardinality(B) = 0
  BY <1>1
<1>4. ASSUME NEW C, IsFiniteSet(C), Cardinality(C) = 1 PROVE \A m, n \in C : m = n
  BY <1>4, FS_Singleton
<1> QED BY <1>2, <1>3, <1>4

(* In a tree, all nodes but the first are in the list of one other node:   *)
(* owner[m] is the node in whose list m is.                                *)
Owns(h, x, R, owner) ==
  /\ owner \in [R -> R \union {x}]
  /\ \A q \in R \union {x} : h[q].child # NULL => h[q].child \in R /\ owner[h[q].child] = q
  /\ \A m \in R :
       /\ owner[m] # m /\ h[owner[m]].child # NULL
       /\ h[m].next # NULL => /\ h[m].next \in R /\ owner[h[m].next] = owner[m]
                              /\ \A q \in R \union {x} : h[q].child # h[m].next
                              /\ \A n \in R : h[n].next = h[m].next => n = m
       /\ m # h[owner[m]].child => \E p \in R : h[p].next = m
       /\ m = h[owner[m]].child =>
            LET l == List(h, m)
            IN l[Len(l)] \in R /\ owner[l[Len(l)]] = owner[m] /\ h[l[Len(l)]].next = NULL
  /\ \A T \in SUBSET R :
       (\A m \in T : m # h[owner[m]].child /\ \E p \in T : h[p].next = m) => T = {}
  /\ \A T \in SUBSET R : (\A m \in T : owner[m] \in T) => T = {}

(* In a tree each node but the first has one owner, and is reached from    *)
(* the first of its list.                                                  *)
LEMMA TreeOwners ==
  ASSUME NEW h, NEW par, Linkage(h, par), NEW x \in Items, h[x].kind # "FREE", IsTree(h, x)
  PROVE  \E R \in SUBSET Items : \E owner :
           /\ Nest(h, x) = R \union {x} /\ x \notin R /\ Owns(h, x, R, owner)
           /\ \A m \in R : h[m].kind # "FREE"
<1> DEFINE S == Nest(h, x)
           R == Reach(h, {h[x].child} \ {NULL}, TRUE)
<1>1. /\ h \in Heaps /\ par \in Parents /\ NULL \notin Items /\ IsFiniteSet(Items)
      /\ \A m \in Nodes : m # NULL => m \in Items
      /\ \A m \in Items : /\ h[m].next \in Nodes /\ h[m].prev \in Nodes /\ h[m].child \in Nodes
                          /\ par[m] \in Nodes
  BY Basics DEF Linkage
<1>2. /\ \A m \in Items : IF par[m] = NULL THEN h[m].next = NULL ELSE MemberOK(h, par, m)
      /\ \A p \in Items : ChildOK(h, par, p)
  BY DEF Linkage
<1>3. {h[x].child} \ {NULL} \in SUBSET Items /\ TRUE \in BOOLEAN BY <1>1
<1>4. /\ R \in SUBSET Items
      /\ h[x].child # NULL => h[x].child \in R
      /\ \A m \in R : /\ h[m].next # NULL => h[m].next \in R
                      /\ h[m].child # NULL => h[m].child \in R
  <2>1. /\ R \in SUBSET Items /\ {h[x].child} \ {NULL} \subseteq R
        /\ \A m \in R : Links(h, m, TRUE) \ {NULL} \subseteq R
    BY <1>1, <1>3, ReachClosed
  <2> HIDE DEF R
  <2> QED BY <2>1 DEF Links
<1>5. ASSUME NEW Y \in SUBSET Items, h[x].child # NULL => h[x].child \in Y,
             \A m \in Y : /\ h[m].next # NULL => h[m].next \in Y
                          /\ h[m].child # NULL => h[m].child \in Y
      PROVE  R \subseteq Y
  <2>1. \A m \in Y : Links(h, m, TRUE) \ {NULL} \subseteq Y BY <1>5 DEF Links
  <2>2. {h[x].child} \ {NULL} \subseteq Y BY <1>5
  <2> DEFINE I == {h[x].child} \ {NULL}
  <2>3. I \in SUBSET Items BY <1>3
  <2>4. R = Reach(h, I, TRUE) OBVIOUS
  <2>5. I \subseteq Y BY <2>2
  <2> HIDE DEF I, R
  <2>6. Reach(h, I, TRUE) \subseteq Y BY <1>1, <1>3, <2>1, <2>3, <2>5, ReachLeast
  <2> QED BY <2>4, <2>6
<1>6. S = R \union {x} /\ S \in SUBSET Items /\ IsFiniteSet(S)
  <2>1. S = R \union {x} BY DEF Nest
  <2> HIDE DEF R, S
  <2> QED BY <1>1, <1>4, <2>1, FS_Subset
<1> DEFINE e == [h EXCEPT ![x].next = NULL]
           ByNext(n) == {m \in S : e[m].next = n}
           ByChild(n) == {m \in S : e[m].child = n}
<1>7. \A m \in Items : e[m].child = h[m].child /\ e[m].next = IF m = x THEN NULL ELSE h[m].next
  BY <1>1 DEF Heaps, Struct
<1>8. \A n \in S : Cardinality(ByNext(n)) + Cardinality(ByChild(n)) = IF n = x THEN 0 ELSE 1
  BY DEF IsTree, Pointers
<1>9. \A n : IsFiniteSet(ByNext(n)) /\ IsFiniteSet(ByChild(n))
  <2> HIDE DEF S
  <2> QED BY <1>6, FS_Subset
<1> HIDE DEF R, S, e
<1>10. ASSUME NEW m \in S
       PROVE  h[m].child # x /\ (m # x => h[m].next # x)
  <2>1. Cardinality(ByNext(x)) + Cardinality(ByChild(x)) = 0 BY <1>6, <1>8
  <2>2. Cardinality(ByNext(x)) \in Nat /\ Cardinality(ByChild(x)) \in Nat
    BY <1>9, FS_CardinalityType
  <2>3. Cardinality(ByNext(x)) = 0 /\ Cardinality(ByChild(x)) = 0 BY <2>1, <2>2
  <2>4. ByNext(x) = {} /\ ByChild(x) = {} BY <1>9, <2>3, FS_EmptySet
  <2> QED BY <1>6, <1>7, <2>4
<1>11. x \notin R
  <2> DEFINE Y == R \ {x}
  <2>1. Y \in SUBSET Items /\ (h[x].child # NULL => h[x].child \in Y) BY <1>4, <1>6, <1>10
  <2>2. \A m \in Y : /\ h[m].next # NULL => h[m].next \in Y
                     /\ h[m].child # NULL => h[m].child \in Y
    BY <1>4, <1>6, <1>10
  <2> HIDE DEF Y
  <2>3. R \subseteq Y BY <1>5, <2>1, <2>2
  <2> QED BY <2>3 DEF Y
<1>12. ASSUME NEW n \in R
       PROVE  /\ \A m, k \in R : h[m].next = n /\ h[k].next = n => m = k
              /\ \A m, k \in S : h[m].child = n /\ h[k].child = n => m = k
              /\ \A m \in R, k \in S : ~(h[m].next = n /\ h[k].child = n)
  <2>1. Cardinality(ByNext(n)) + Cardinality(ByChild(n)) = 1 BY <1>6, <1>8, <1>11
  <2>2. /\ \A m, k \in ByNext(n) : m = k
        /\ \A m, k \in ByChild(n) : m = k
        /\ ByNext(n) = {} \/ ByChild(n) = {}
    <3> DEFINE A == ByNext(n)
               B == ByChild(n)
    <3>1. IsFiniteSet(A) /\ IsFiniteSet(B) /\ Cardinality(A) + Cardinality(B) = 1 BY <1>9, <2>1
    <3> HIDE DEF A, B
    <3> QED BY <3>1, OneOfBoth DEF A, B
  <2>3. \A m \in R : m \in Items /\ m \in S /\ (h[m].next = n => m \in ByNext(n))
    BY <1>6, <1>7, <1>11
  <2>4. \A m \in S : h[m].child = n => m \in ByChild(n) BY <1>6, <1>7
  <2> QED BY <2>2, <2>3, <2>4
<1> DEFINE l(q) == List(h, h[q].child)
           In(m, q) == h[q].child # NULL /\ \E k \in 1 .. Len(l(q)) : l(q)[k] = m
<1>13. ASSUME NEW q \in S, h[q].child # NULL
       PROVE  /\ Len(l(q)) \in Nat /\ Len(l(q)) >= 1 /\ l(q)[1] = h[q].child /\ h[q].child \in R
              /\ \A k \in 1 .. Len(l(q)) :
                   /\ l(q)[k] \in Items
                   /\ h[l(q)[k]].next = IF k = Len(l(q)) THEN NULL ELSE l(q)[k + 1]
  <2>1. h[q].child \in R BY <1>4, <1>6, <1>13
  <2>2. h[q].child \in Items BY <1>4, <2>1
  <2> DEFINE c == h[q].child
  <2> HIDE DEF c
  <2>3. /\ Len(List(h, c)) \in 1 .. MaxItems /\ List(h, c)[1] = c
        /\ \A k \in 1 .. Len(List(h, c)) :
             /\ List(h, c)[k] \in Items
             /\ h[List(h, c)[k]].next = IF k = Len(List(h, c)) THEN NULL ELSE List(h, c)[k + 1]
    <3>1. Chain(h, par, c, List(h, c)) BY <2>2, ChainFrom DEF c
    <3> QED BY <3>1 DEF Chain
  <2> QED BY <2>1, <2>3 DEF c
<1> HIDE DEF l
<1>14. ASSUME NEW q \in S, h[q].child # NULL, NEW k \in 1 .. Len(l(q))
       PROVE  l(q)[k] \in R
  <2> DEFINE G == {j \in Nat : j + 1 \in 1 .. Len(l(q)) => l(q)[j + 1] \in R}
  <2>1. 0 \in G BY <1>13, <1>14
  <2>2. ASSUME NEW j \in Nat, j \in G PROVE j + 1 \in G
    <3> SUFFICES ASSUME (j + 1) + 1 \in 1 .. Len(l(q)) PROVE l(q)[(j + 1) + 1] \in R OBVIOUS
    <3>1. j + 1 \in 1 .. Len(l(q)) /\ j + 1 # Len(l(q)) BY <1>13, <1>14
    <3>2. l(q)[j + 1] \in R /\ h[l(q)[j + 1]].next = l(q)[(j + 1) + 1]
      BY <1>13, <1>14, <2>2, <3>1
    <3>3. l(q)[(j + 1) + 1] # NULL BY <1>1, <1>13, <1>14
    <3> QED BY <1>4, <3>2, <3>3
  <2>3. Nat \subseteq G BY <2>1, <2>2, AllNaturals
  <2>4. k - 1 \in Nat /\ (k - 1) + 1 = k BY <1>13, <1>14
  <2>5. k - 1 \in G BY <2>3, <2>4
  <2> QED BY <2>4, <2>5
<1>15. ASSUME NEW q \in S, h[q].child # NULL, NEW k \in 1 .. Len(l(q)), k > 1
       PROVE  /\ k - 1 \in 1 .. Len(l(q)) /\ l(q)[k - 1] \in R
              /\ h[l(q)[k - 1]].next = l(q)[k]
  <2>1. k - 1 \in 1 .. Len(l(q)) /\ k - 1 # Len(l(q)) /\ (k - 1) + 1 = k BY <1>13, <1>15
  <2> QED BY <1>13, <1>14, <1>15, <2>1
<1>16. ASSUME NEW m \in R PROVE \E q \in S : In(m, q)
  <2> DEFINE Y == {n \in R : \E q \in S : In(n, q)}
  <2>1. ASSUME NEW q \in S, h[q].child # NULL PROVE h[q].child \in Y
    <3>1. 1 \in 1 .. Len(l(q)) /\ l(q)[1] = h[q].child /\ h[q].child \in R BY <1>13, <2>1
    <3> QED BY <2>1, <3>1
  <2>2. ASSUME NEW n \in Y, h[n].next # NULL PROVE h[n].next \in Y
    <3>1. PICK q \in S : In(n, q) OBVIOUS
    <3>2. PICK k \in 1 .. Len(l(q)) : l(q)[k] = n BY <3>1
    <3>3. k # Len(l(q)) /\ h[n].next = l(q)[k + 1] BY <1>13, <2>2, <3>1, <3>2
    <3>4. k + 1 \in 1 .. Len(l(q)) BY <1>13, <3>1, <3>3
    <3> QED BY <1>4, <2>2, <3>1, <3>3, <3>4
  <2>3. Y \in SUBSET Items /\ x \in S /\ \A n \in Y : n \in S BY <1>4, <1>6
  <2> HIDE DEF Y
  <2>4. R \subseteq Y BY <1>5, <2>1, <2>2, <2>3
  <2> QED BY <2>4 DEF Y
<1>17. ASSUME NEW p \in S, NEW q \in S, NEW m, In(m, p), In(m, q) PROVE p = q
  <2> SUFFICES ASSUME p # q PROVE FALSE OBVIOUS
  <2> DEFINE I == {k \in Nat : /\ k \in 1 .. Len(l(p))
                               /\ \E j \in 1 .. Len(l(q)) : l(p)[k] = l(q)[j]}
  <2>1. I # {} /\ I \in SUBSET Nat
    <3>1. PICK k \in 1 .. Len(l(p)) : l(p)[k] = m BY <1>17
    <3>2. PICK j \in 1 .. Len(l(q)) : l(q)[j] = m BY <1>17
    <3>3. k \in Nat /\ l(p)[k] = l(q)[j] BY <1>13, <1>17, <3>1, <3>2
    <3>4. k \in I BY <3>3
    <3> QED BY <3>4
  <2>2. PICK k \in I : \A b \in I : k <= b
    <3> HIDE DEF I
    <3> QED BY <2>1, LeastOf
  <2>3. PICK j \in 1 .. Len(l(q)) : l(p)[k] = l(q)[j] BY <2>2
  <2>4. k \in 1 .. Len(l(p)) /\ l(p)[k] \in R BY <1>14, <1>17, <2>2
  <2>5. CASE k = 1 /\ j = 1 BY <1>12, <1>13, <1>17, <2>3, <2>4, <2>5
  <2>6. CASE k = 1 /\ j > 1
    <3>1. l(q)[j - 1] \in R /\ h[l(q)[j - 1]].next = l(q)[j] BY <1>15, <1>17, <2>6
    <3> QED BY <1>12, <1>13, <1>17, <2>3, <2>4, <2>6, <3>1
  <2>7. CASE k > 1 /\ j = 1
    <3>1. l(p)[k - 1] \in R /\ h[l(p)[k - 1]].next = l(p)[k] BY <1>15, <1>17, <2>4, <2>7
    <3> QED BY <1>12, <1>13, <1>17, <2>3, <2>4, <2>7, <3>1
  <2>8. CASE k > 1 /\ j > 1
    <3>1. k - 1 \in 1 .. Len(l(p)) /\ l(p)[k - 1] \in R /\ h[l(p)[k - 1]].next = l(p)[k]
      BY <1>15, <1>17, <2>4, <2>8
    <3>2. j - 1 \in 1 .. Len(l(q)) /\ l(q)[j - 1] \in R /\ h[l(q)[j - 1]].next = l(q)[j]
      BY <1>15, <1>17, <2>8
    <3>3. l(p)[k - 1] = l(q)[j - 1] BY <1>12, <2>3, <2>4, <3>1, <3>2
    <3>4. k - 1 \in I BY <2>4, <3>1, <3>2, <3>3
    <3> QED BY <2>2, <2>4, <3>4
  <2>9. k >= 1 /\ j >= 1 BY <2>3, <2>4
  <2> QED BY <2>5, <2>6, <2>7, <2>8, <2>9, <1>13, <1>17, <2>4
<1> DEFINE owner == [m \in R |-> CHOOSE q \in S : In(m, q)]
<1>18. ASSUME NEW m \in R PROVE owner[m] \in S /\ In(m, owner[m])
  <2>1. \E q \in S : In(m, q) BY <1>16
  <2> HIDE DEF In
  <2> QED BY <2>1
<1>19. \A m \in R, q \in S : In(m, q) => owner[m] = q
  <2> HIDE DEF In, owner
  <2> QED BY <1>17, <1>18
<1>20. owner \in [R -> S]
  <2> HIDE DEF In
  <2> QED BY <1>18
<1> HIDE DEF owner
<1>21. ASSUME NEW q \in S, h[q].child # NULL PROVE h[q].child \in R /\ owner[h[q].child] = q
  <2>1. 1 \in 1 .. Len(l(q)) /\ l(q)[1] = h[q].child /\ h[q].child \in R BY <1>13, <1>21
  <2> QED BY <1>19, <1>21, <2>1
<1>22. ASSUME NEW m \in R, h[m].next # NULL
       PROVE  h[m].next \in R /\ owner[h[m].next] = owner[m]
  <2> DEFINE q == owner[m]
  <2>1. q \in S /\ In(m, q) BY <1>18
  <2>2. PICK k \in 1 .. Len(l(q)) : l(q)[k] = m BY <2>1
  <2>3. k # Len(l(q)) /\ h[m].next = l(q)[k + 1] BY <1>13, <1>22, <2>1, <2>2
  <2>4. k + 1 \in 1 .. Len(l(q)) BY <1>13, <2>1, <2>3
  <2>5. In(h[m].next, q) BY <2>1, <2>3, <2>4
  <2> QED BY <1>4, <1>19, <1>22, <2>1, <2>5
<1>23. ASSUME NEW m \in R PROVE owner[m] # m
  <2> SUFFICES ASSUME owner[m] = m PROVE FALSE OBVIOUS
  <2> DEFINE Y == {n \in R : n # m /\ owner[n] # m}
  <2>1. Y \in SUBSET Items BY <1>4
  <2>2. h[x].child # NULL => h[x].child \in Y BY <1>6, <1>11, <1>21
  <2>3. ASSUME NEW n \in Y PROVE /\ h[n].next # NULL => h[n].next \in Y
                                 /\ h[n].child # NULL => h[n].child \in Y
    BY <1>6, <1>21, <1>22
  <2> HIDE DEF Y
  <2>4. R \subseteq Y BY <1>5, <2>1, <2>2, <2>3
  <2> QED BY <2>4 DEF Y
<1>24. ASSUME NEW m \in R, m # h[owner[m]].child PROVE \E p \in R : h[p].next = m
  <2>1. owner[m] \in S /\ In(m, owner[m]) BY <1>18
  <2>2. PICK k \in 1 .. Len(l(owner[m])) : l(owner[m])[k] = m BY <2>1
  <2>3. k > 1 BY <1>13, <1>24, <2>1, <2>2
  <2> QED BY <1>15, <2>1, <2>2, <2>3
<1>25. ASSUME NEW m \in R, m = h[owner[m]].child
       PROVE  /\ l(owner[m])[Len(l(owner[m]))] \in R
              /\ owner[l(owner[m])[Len(l(owner[m]))]] = owner[m]
              /\ h[l(owner[m])[Len(l(owner[m]))]].next = NULL
  <2> DEFINE q == owner[m]
             L == Len(l(q))
  <2>1. q \in S /\ In(m, q) /\ h[q].child # NULL BY <1>18
  <2>2. L \in 1 .. L BY <1>13, <2>1
  <2>3. l(q)[L] \in R /\ h[l(q)[L]].next = NULL BY <1>13, <1>14, <2>1, <2>2
  <2>4. In(l(q)[L], q) BY <2>1, <2>2
  <2> QED BY <1>19, <2>1, <2>3, <2>4
<1>26. ASSUME NEW T \in SUBSET R, \A m \in T : m # h[owner[m]].child /\ \E p \in T : h[p].next = m
       PROVE  T = {}
  <2> SUFFICES ASSUME NEW m \in T PROVE FALSE OBVIOUS
  <2> DEFINE q == owner[m]
             K == {k \in Nat : k \in 1 .. Len(l(q)) /\ l(q)[k] \in T}
  <2>1. q \in S /\ In(m, q) BY <1>18
  <2>2. PICK k \in 1 .. Len(l(q)) : l(q)[k] = m BY <2>1
  <2>3. k \in K /\ K \in SUBSET Nat BY <2>2
  <2>4. PICK j \in K : \A b \in K : j <= b
    <3> HIDE DEF K
    <3> QED BY <2>3, LeastOf
  <2>5. j \in 1 .. Len(l(q)) /\ l(q)[j] \in T /\ l(q)[j] \in R BY <2>4
  <2>6. owner[l(q)[j]] = q BY <1>19, <2>1, <2>5
  <2>7. j > 1
    <3>1. l(q)[j] # h[q].child BY <1>26, <2>5, <2>6
    <3> QED BY <1>13, <2>1, <2>5, <3>1
  <2>8. j - 1 \in 1 .. Len(l(q)) /\ l(q)[j - 1] \in R /\ h[l(q)[j - 1]].next = l(q)[j]
    BY <1>15, <2>1, <2>5, <2>7
  <2>9. PICK p \in T : h[p].next = l(q)[j] BY <1>26, <2>5
  <2>10. p = l(q)[j - 1] BY <1>12, <2>5, <2>8, <2>9
  <2>11. j - 1 \in K BY <2>5, <2>8, <2>9, <2>10
  <2> QED BY <2>4, <2>5, <2>11
<1>27. \A m \in R : h[m].kind # "FREE"
  <2> DEFINE Y == {m \in Items : h[m].kind # "FREE"}
  <2>1. h[x].child # NULL => h[x].child \in Y BY <1>1, <1>2 DEF ChildOK
  <2>2. ASSUME NEW m \in Y PROVE /\ h[m].next # NULL => h[m].next \in Y
                                 /\ h[m].child # NULL => h[m].child \in Y
    <3>1. h[m].next # NULL => h[m].next \in Y
      <4> SUFFICES ASSUME h[m].next # NULL PROVE h[m].next \in Y OBVIOUS
      <4>1. par[m] # NULL BY <1>2
      <4>2. MemberOK(h, par, m) BY <1>2, <4>1
      <4>3. h[m].next \in Items /\ par[h[m].next] # NULL BY <1>1, <4>1, <4>2 DEF MemberOK
      <4>4. MemberOK(h, par, h[m].next) BY <1>2, <4>3
      <4> QED BY <4>3, <4>4 DEF MemberOK
    <3>2. h[m].child # NULL => h[m].child \in Y BY <1>1, <1>2 DEF ChildOK
    <3> QED BY <3>1, <3>2
  <2>3. Y \in SUBSET Items OBVIOUS
  <2> HIDE DEF Y
  <2>4. R \subseteq Y BY <1>5, <2>1, <2>2, <2>3
  <2> QED BY <2>4 DEF Y
<1>28. Owns(h, x, R, owner)
  <2>1. \A m \in R : h[m].next # NULL =>
          /\ \A q \in S : h[q].child # h[m].next
          /\ \A n \in R : h[n].next = h[m].next => n = m
    BY <1>12, <1>22
  <2>2. \A m \in R : h[owner[m]].child # NULL BY <1>18
  <2>3. \A m \in R : m = h[owner[m]].child =>
          LET z == List(h, m)
          IN z[Len(z)] \in R /\ owner[z[Len(z)]] = owner[m] /\ h[z[Len(z)]].next = NULL
    BY <1>25 DEF l
  <2>4. ASSUME NEW T \in SUBSET R, \A m \in T : owner[m] \in T PROVE T = {}
    <3> DEFINE Y == {n \in R : owner[n] \notin T}
    <3>1. Y \in SUBSET Items BY <1>4
    <3>2. h[x].child # NULL => h[x].child \in Y BY <1>6, <1>11, <1>21
    <3>3. ASSUME NEW n \in Y PROVE /\ h[n].next # NULL => h[n].next \in Y
                                   /\ h[n].child # NULL => h[n].child \in Y
      <4>1. n \in R /\ n \in S /\ n \notin T BY <1>6, <2>4
      <4> QED BY <1>21, <1>22, <4>1
    <3> HIDE DEF Y
    <3>4. R \subseteq Y BY <1>5, <3>1, <3>2, <3>3
    <3> QED BY <2>4, <3>4 DEF Y
  <2> HIDE DEF In
  <2> QED BY <1>6, <1>20, <1>21, <1>22, <1>23, <1>24, <1>26, <2>1, <2>2, <2>3, <2>4 DEF Owns
<1>29. \E o : Owns(h, x, R, o) BY <1>28
<1> QED BY <1>4, <1>6, <1>11, <1>27, <1>29 DEF S

(* The copies of a tree are in lists like those of the tree, and the copy  *)
(* of its first node is in none.                                           *)
LEMMA CopiedLinks ==
  ASSUME NEW h, NEW par, Linkage(h, par), NEW x \in Items, h[x].kind # "FREE", IsTree(h, x),
         NEW f \in [Nest(h, x) -> Items \ Live(h)], Injective(f)
  PROVE  \E own :
           /\ Linkage(Copied(h, f, x), own)
           /\ f[x] \in Items /\ own[f[x]] = NULL /\ Copied(h, f, x)[f[x]].kind # "FREE"
           /\ \A n \in Items : IF h[n].kind # "FREE" THEN own[n] = par[n] /\ Copied(h, f, x)[n] = h[n]
                               ELSE Copied(h, f, x)[n].kind # "FREE" /\ own[n] = NULL => n = f[x]
           /\ Grounded(par) => Grounded(own)
<1>1. /\ h \in Heaps /\ par \in Parents /\ NULL \notin Items /\ NULL \in Nodes
      /\ \A m \in Nodes : m # NULL => m \in Items
      /\ \A m \in Items : /\ h[m].next \in Nodes /\ h[m].prev \in Nodes /\ h[m].child \in Nodes
                          /\ par[m] \in Nodes /\ m \in Nodes
  BY Basics DEF Linkage, Nodes
<1>2. /\ \A m \in Items : IF par[m] = NULL THEN h[m].next = NULL ELSE MemberOK(h, par, m)
      /\ \A p \in Items : ChildOK(h, par, p)
  BY DEF Linkage
<1>3. PICK R \in SUBSET Items : \E owner :
         /\ Nest(h, x) = R \union {x} /\ x \notin R /\ Owns(h, x, R, owner)
         /\ \A m \in R : h[m].kind # "FREE"
  BY TreeOwners
<1>4. PICK owner :
         /\ Nest(h, x) = R \union {x} /\ x \notin R /\ Owns(h, x, R, owner)
         /\ \A m \in R : h[m].kind # "FREE"
  BY <1>3
<1> DEFINE S == DOMAIN f
           src(n) == CHOOSE m \in S : f[m] = n
           to(m) == IF m \in S THEN f[m] ELSE NULL
           before(m) ==
             IF m = x THEN NULL
             ELSE IF \E p \in S : h[p].child = m
                  THEN f[List(h, m)[Len(List(h, m))]]
                  ELSE f[CHOOSE p \in S \ {x} : h[p].next = m]
           copy(m) == [h[m] EXCEPT !.ref = FALSE, !.of = NULL, !.child = to(@), !.prev = before(m),
                                   !.next = IF m = x THEN NULL ELSE to(@)]
           g == Copied(h, f, x)
<1>5. g = [n \in Items |-> IF \E m \in S : f[m] = n THEN copy(src(n)) ELSE h[n]]
  BY Zenon DEF Copied
<1>6. S = R \union {x} /\ x \in S /\ S \in SUBSET Items /\ NULL \notin S BY <1>1, <1>4
<1>7. \A m \in S : f[m] \in Items /\ f[m] \in Nodes /\ f[m] # NULL /\ h[f[m]].kind = "FREE"
  BY <1>1 DEF Live
<1>8. \A m, n \in S : f[m] = f[n] => m = n BY DEF Injective
<1>9. ASSUME NEW m \in S PROVE src(f[m]) = m
  <2>1. \E k \in S : f[k] = f[m] OBVIOUS
  <2>2. src(f[m]) \in S /\ f[src(f[m])] = f[m] BY <2>1
  <2> QED BY <1>8, <2>2
<1>10. /\ owner \in [R -> S]
       /\ \A q \in S : h[q].child # NULL => h[q].child \in R /\ owner[h[q].child] = q
  BY <1>6, <1>4 DEF Owns
<1>11. ASSUME NEW m \in R
       PROVE  /\ owner[m] \in S /\ owner[m] # m /\ h[owner[m]].child # NULL
              /\ h[m].next # NULL => /\ h[m].next \in R /\ owner[h[m].next] = owner[m]
                                     /\ \A q \in S : h[q].child # h[m].next
                                     /\ \A n \in R : h[n].next = h[m].next => n = m
              /\ m # h[owner[m]].child => \E p \in R : h[p].next = m
              /\ m = h[owner[m]].child =>
                   LET l == List(h, m)
                   IN l[Len(l)] \in R /\ owner[l[Len(l)]] = owner[m] /\ h[l[Len(l)]].next = NULL
  BY <1>4, <1>6, <1>10 DEF Owns
<1>12. ASSUME NEW T \in SUBSET R,
              \A m \in T : m # h[owner[m]].child /\ \E p \in T : h[p].next = m
       PROVE  T = {}
  BY <1>4, <1>12 DEF Owns
<1>13. ASSUME NEW m \in R, h[m].next # NULL PROVE before(h[m].next) = f[m]
  <2> DEFINE n == h[m].next
  <2>1. n \in R /\ n # x /\ \A p \in S : h[p].child # n BY <1>4, <1>11, <1>13
  <2>2. \E p \in S \ {x} : h[p].next = n BY <1>4, <1>6
  <2> DEFINE p == CHOOSE p \in S \ {x} : h[p].next = n
  <2>3. p \in S \ {x} /\ h[p].next = n BY <2>2
  <2>4. before(n) = f[p] BY <2>1
  <2> HIDE DEF p, n, before
  <2>5. p \in R /\ h[p].next = h[m].next BY <1>6, <2>3 DEF n
  <2>6. p = m BY <1>11, <1>13, <2>5
  <2> QED BY <2>4, <2>6 DEF n
<1>14. ASSUME NEW m \in R, m = h[owner[m]].child
       PROVE  \E z \in R : before(m) = f[z] /\ owner[z] = owner[m] /\ h[z].next = NULL
  <2>1. m # x /\ \E p \in S : h[p].child = m BY <1>4, <1>11, <1>14
  <2>2. before(m) = f[List(h, m)[Len(List(h, m))]] BY <2>1
  <2> HIDE DEF before
  <2> QED BY <1>11, <1>14, <2>2
<1>15. ASSUME NEW m \in R, m # h[owner[m]].child
       PROVE  \E p \in R : before(m) = f[p] /\ owner[p] = owner[m] /\ h[p].next = m
  <2>1. PICK p \in R : h[p].next = m BY <1>11, <1>15
  <2>2. m \in Items /\ h[p].next # NULL BY <1>1, <2>1
  <2> HIDE DEF before
  <2> QED BY <1>11, <1>13, <2>1, <2>2
<1>16. \A m \in S : before(m) \in Nodes
  <2> SUFFICES ASSUME NEW m \in S PROVE before(m) \in Nodes OBVIOUS
  <2>1. CASE m = x BY <1>1, <2>1
  <2>2. CASE m # x
    <3> HIDE DEF before, S
    <3>1. m \in R BY <1>6, <2>2
    <3>2. \E z \in R : before(m) = f[z] BY <1>14, <1>15, <3>1
    <3> QED BY <1>6, <1>7, <3>2
  <2> QED BY <2>1, <2>2
<1>17. ASSUME NEW m \in S
       PROVE  /\ copy(m) \in Struct /\ copy(m).kind = h[m].kind /\ copy(m).ref = FALSE
              /\ copy(m).child = IF h[m].child = NULL THEN NULL ELSE f[h[m].child]
              /\ copy(m).next = IF m = x \/ h[m].next = NULL THEN NULL ELSE f[h[m].next]
              /\ copy(m).prev = before(m)
  <2>1. to(h[m].child) = IF h[m].child = NULL THEN NULL ELSE f[h[m].child]
    BY <1>6, <1>10
  <2>2. m # x => to(h[m].next) = IF h[m].next = NULL THEN NULL ELSE f[h[m].next]
    BY <1>6, <1>11
  <2>3. to(h[m].child) \in Nodes /\ to(h[m].next) \in Nodes /\ before(m) \in Nodes
    BY <1>1, <1>7, <1>16
  <2>4. h[m] \in Struct BY <1>1, <1>6 DEF Heaps
  <2> DEFINE c == to(h[m].child)
             b == before(m)
             a == IF m = x THEN NULL ELSE to(h[m].next)
  <2>5. copy(m) = [h[m] EXCEPT !.ref = FALSE, !.of = NULL, !.child = c, !.prev = b, !.next = a]
    OBVIOUS
  <2>6. c \in Nodes /\ b \in Nodes /\ a \in Nodes BY <1>1, <2>3
  <2> HIDE DEF c, b, a, copy, to, before, S
  <2>7. copy(m) \in Struct
    <3>1. ASSUME NEW z \in Struct
          PROVE  [z EXCEPT !.ref = FALSE, !.of = NULL, !.child = c, !.prev = b, !.next = a] \in Struct
      BY <1>1, <2>6 DEF Struct
    <3> QED BY <2>4, <2>5, <3>1
  <2>8. /\ copy(m).kind = h[m].kind /\ copy(m).ref = FALSE
        /\ copy(m).child = c /\ copy(m).next = a /\ copy(m).prev = b
    BY <2>4, <2>5 DEF Struct
  <2> QED BY <2>1, <2>2, <2>7, <2>8 DEF a, b, c
<1> HIDE DEF copy, before, to
<1>18. ASSUME NEW m \in S PROVE g[f[m]] = copy(m)
  <2>1. f[m] \in Items /\ \E k \in S : f[k] = f[m] BY <1>7
  <2>2. g[f[m]] = copy(src(f[m])) BY <1>5, <2>1
  <2> QED BY <1>9, <2>2
<1>19. \A n \in Items : (\A m \in S : f[m] # n) => g[n] = h[n] BY <1>5
<1>20. g \in Heaps
  <2>1. ASSUME NEW n \in Items PROVE g[n] \in Struct
    <3>1. CASE \E m \in S : f[m] = n
      <4> PICK m \in S : f[m] = n BY <3>1
      <4> QED BY <1>17, <1>18
    <3>2. CASE ~\E m \in S : f[m] = n
      BY <1>1, <1>19, <3>2 DEF Heaps
    <3> QED BY <3>1, <3>2
  <2>2. g = [n \in Items |-> g[n]] BY <1>5
  <2> HIDE DEF g
  <2> QED BY <2>1, <2>2 DEF Heaps
<1> DEFINE own == [n \in Items |-> IF \E m \in R : f[m] = n THEN f[owner[src(n)]] ELSE par[n]]
<1>21. ASSUME NEW m \in R PROVE own[f[m]] = f[owner[m]]
  <2>1. m \in S /\ f[m] \in Items BY <1>6, <1>7
  <2> HIDE DEF src
  <2> QED BY <1>9, <2>1
<1>22. \A n \in Items : (\A m \in R : f[m] # n) => own[n] = par[n] OBVIOUS
<1>23. own \in Parents
  <2>1. ASSUME NEW n \in Items PROVE own[n] \in Nodes
    <3>1. CASE \E m \in R : f[m] = n
      <4> PICK m \in R : f[m] = n BY <3>1
      <4> HIDE DEF own, S
      <4>1. own[n] = f[owner[m]] /\ owner[m] \in S BY <1>11, <1>21
      <4> QED BY <1>7, <4>1
    <3>2. CASE ~\E m \in R : f[m] = n BY <1>1, <1>22, <3>2
    <3> QED BY <3>1, <3>2
  <2>2. own = [n \in Items |-> own[n]] OBVIOUS
  <2> HIDE DEF own
  <2> QED BY <2>1, <2>2 DEF Parents
<1> HIDE DEF g, own, src, S
<1>24. \A n \in Items : h[n].kind # "FREE" => g[n] = h[n] /\ own[n] = par[n]
  BY <1>6, <1>7, <1>19, <1>22
<1>25. \A n \in Items : par[n] # NULL =>
         /\ h[n].kind # "FREE" /\ par[n] \in Items /\ h[par[n]].kind # "FREE"
         /\ h[n].prev \in Items /\ h[h[n].prev].kind # "FREE"
         /\ h[n].next # NULL => h[n].next \in Items /\ h[h[n].next].kind # "FREE"
  <2> SUFFICES ASSUME NEW n \in Items, par[n] # NULL
               PROVE  /\ h[n].kind # "FREE" /\ par[n] \in Items /\ h[par[n]].kind # "FREE"
                      /\ h[n].prev \in Items /\ h[h[n].prev].kind # "FREE"
                      /\ h[n].next # NULL => h[n].next \in Items /\ h[h[n].next].kind # "FREE"
    OBVIOUS
  <2>1. MemberOK(h, par, n) /\ par[n] \in Items BY <1>1, <1>2
  <2>2. h[n].prev \in Items /\ par[h[n].prev] # NULL BY <1>1, <2>1 DEF MemberOK
  <2>3. h[n].next # NULL => h[n].next \in Items /\ par[h[n].next] # NULL
    BY <1>1, <2>1 DEF MemberOK
  <2>4. MemberOK(h, par, h[n].prev) BY <1>2, <2>2
  <2>5. h[n].next # NULL => MemberOK(h, par, h[n].next) BY <1>2, <2>3
  <2> QED BY <2>1, <2>2, <2>3, <2>4, <2>5 DEF MemberOK, IsList, Containers
<1>26. f[x] \in Items /\ own[f[x]] = NULL /\ g[f[x]].next = NULL /\ g[f[x]].kind = h[x].kind
  <2>1. \A m \in R : f[m] # f[x] BY <1>4, <1>6, <1>8
  <2>2. f[x] \in Items /\ g[f[x]] = copy(x) BY <1>6, <1>7, <1>18
  <2>3. copy(x).next = NULL /\ copy(x).kind = h[x].kind BY <1>6, <1>17
  <2>4. own[f[x]] = par[f[x]] BY <1>22, <2>1, <2>2
  <2>5. h[f[x]].kind = "FREE" BY <1>6, <1>7
  <2> QED BY <1>25, <2>2, <2>3, <2>4, <2>5
<1>27. ASSUME NEW n \in Items
       PROVE  \/ \E m \in R : f[m] = n
              \/ n = f[x]
              \/ g[n] = h[n] /\ own[n] = par[n] /\ (\A m \in S : f[m] # n)
  BY <1>6, <1>19, <1>22
<1>28. ASSUME NEW m \in R
       PROVE  /\ g[f[m]].kind = h[m].kind /\ g[f[m]].prev = before(m)
              /\ g[f[m]].next = IF h[m].next = NULL THEN NULL ELSE f[h[m].next]
  <2>1. m \in S /\ m # x BY <1>4, <1>6
  <2>2. g[f[m]] = copy(m) BY <1>18, <2>1
  <2>3. /\ copy(m).kind = h[m].kind /\ copy(m).prev = before(m)
        /\ copy(m).next = IF m = x \/ h[m].next = NULL THEN NULL ELSE f[h[m].next]
    BY <1>17, <2>1
  <2> QED BY <2>1, <2>2, <2>3
<1>29. ASSUME NEW q \in S
       PROVE  /\ g[f[q]].kind = h[q].kind
              /\ g[f[q]].child = IF h[q].child = NULL THEN NULL ELSE f[h[q].child]
              /\ h[q].child # NULL => IsList(g, f[q])
  <2>1. ChildOK(h, par, q) BY <1>2, <1>6
  <2>2. g[f[q]] = copy(q) BY <1>18
  <2>3. /\ copy(q).kind = h[q].kind /\ copy(q).ref = FALSE
        /\ copy(q).child = IF h[q].child = NULL THEN NULL ELSE f[h[q].child]
    BY <1>17
  <2> QED BY <2>1, <2>2, <2>3 DEF ChildOK, IsList
<1>30. ASSUME NEW m \in R PROVE MemberOK(g, own, f[m])
  <2> DEFINE q == owner[m]
  <2>1. /\ q \in S /\ m \in S /\ q # m /\ h[q].child # NULL /\ own[f[m]] = f[q]
        /\ h[q].child \in R /\ h[q].child \in S
    BY <1>6, <1>10, <1>11, <1>21
  <2>2. f[q] # f[m] /\ IsList(g, f[q]) /\ g[f[m]].kind # "FREE"
    BY <1>4, <1>8, <1>28, <1>29, <2>1
  <2>3. g[f[m]].next # NULL => own[g[f[m]].next] = f[q] /\ g[g[f[m]].next].prev = f[m]
    <3> SUFFICES ASSUME h[m].next # NULL
                 PROVE  own[f[h[m].next]] = f[q] /\ g[f[h[m].next]].prev = f[m]
      BY <1>28
    <3>1. h[m].next \in R /\ owner[h[m].next] = q BY <1>11
    <3> QED BY <1>13, <1>21, <1>28, <3>1
  <2>4. f[m] = g[f[q]].child <=> m = h[q].child
    BY <1>8, <1>29, <2>1
  <2>5. /\ g[f[m]].prev # NULL /\ own[g[f[m]].prev] = f[q]
        /\ g[g[f[m]].prev].next = IF m = h[q].child THEN NULL ELSE f[m]
    <3>1. CASE m = h[q].child
      <4>1. PICK z \in R : before(m) = f[z] /\ owner[z] = q /\ h[z].next = NULL
        BY <1>14, <3>1
      <4>2. z \in S BY <1>6
      <4> QED BY <1>7, <1>21, <1>28, <3>1, <4>1, <4>2
    <3>2. CASE m # h[q].child
      <4>1. PICK p \in R : before(m) = f[p] /\ owner[p] = q /\ h[p].next = m
        BY <1>15, <3>2
      <4>2. p \in S /\ m # NULL BY <1>6, <2>1
      <4> QED BY <1>7, <1>21, <1>28, <3>2, <4>1, <4>2
    <3> QED BY <3>1, <3>2
  <2> QED BY <2>1, <2>2, <2>3, <2>4, <2>5 DEF MemberOK
<1>31. ASSUME NEW n \in Items, own[n] = NULL PROVE g[n].next = NULL
  <2>1. \A m \in R : f[m] # n
    <3> SUFFICES ASSUME NEW m \in R, f[m] = n PROVE FALSE OBVIOUS
    <3>1. own[n] = f[owner[m]] /\ owner[m] \in S BY <1>11, <1>21
    <3> QED BY <1>7, <1>31, <3>1
  <2> QED BY <1>2, <1>26, <1>27, <1>31, <2>1
<1>32. ASSUME NEW n \in Items, own[n] # NULL PROVE MemberOK(g, own, n)
  <2>1. CASE \E m \in R : f[m] = n BY <1>30, <2>1
  <2>2. CASE \A m \in R : f[m] # n
    <3>1. n # f[x] BY <1>26, <1>32
    <3>2. g[n] = h[n] /\ own[n] = par[n] /\ par[n] # NULL BY <1>27, <1>32, <2>2, <3>1
    <3>3. MemberOK(h, par, n) BY <1>2, <3>2
    <3> QED BY <1>24, <1>25, <3>2, <3>3 DEF MemberOK, IsList
  <2> QED BY <2>1, <2>2
<1>33. ASSUME NEW p \in Items PROVE ChildOK(g, own, p)
  <2>1. CASE \E q \in S : p = f[q]
    <3> PICK q \in S : p = f[q] BY <2>1
    <3>1. ChildOK(h, par, q) /\ q \in Items BY <1>2, <1>6
    <3>2. CASE h[q].child = NULL
      <4>1. g[p].child = NULL BY <1>29, <3>2
      <4>2. ASSUME NEW n \in Items PROVE own[n] # p
        <5>1. CASE \E m \in R : f[m] = n
          <6> PICK m \in R : f[m] = n BY <5>1
          <6>1. own[n] = f[owner[m]] /\ owner[m] \in S /\ h[owner[m]].child # NULL
            BY <1>11, <1>21
          <6> QED BY <1>8, <3>2, <6>1
        <5>2. CASE ~\E m \in R : f[m] = n
          <6>1. own[n] = par[n] BY <1>22, <5>2
          <6>2. h[p].kind = "FREE" /\ p # NULL BY <1>7
          <6> QED BY <1>25, <6>1, <6>2
        <5> QED BY <5>1, <5>2
      <4> QED BY <4>1, <4>2 DEF ChildOK
    <3>3. CASE h[q].child # NULL
      <4> DEFINE c == h[q].child
      <4>1. c \in R /\ owner[c] = q /\ c \in S /\ c # q BY <1>6, <1>10, <3>1, <3>3 DEF ChildOK
      <4>2. g[p].child = f[c] /\ f[c] # NULL /\ f[c] # p /\ own[f[c]] = p
        BY <1>7, <1>8, <1>21, <1>29, <3>3, <4>1
      <4>3. g[f[c]].kind # "FREE" BY <1>4, <1>28, <4>1
      <4>4. g[p].kind \in Containers BY <1>29, <3>3 DEF IsList
      <4> QED BY <4>2, <4>3, <4>4 DEF ChildOK
    <3> QED BY <3>2, <3>3
  <2>2. CASE ~\E q \in S : p = f[q]
    <3>1. g[p] = h[p] /\ ChildOK(h, par, p) BY <1>2, <1>19, <2>2
    <3>2. h[p].child # NULL => h[p].child \in Items /\ h[h[p].child].kind # "FREE"
      BY <1>1, <3>1 DEF ChildOK
    <3>3. ASSUME NEW n \in Items, par[n] # p PROVE own[n] # p
      <4>1. CASE \E m \in R : f[m] = n
        <5> PICK m \in R : f[m] = n BY <4>1
        <5>1. own[n] = f[owner[m]] /\ owner[m] \in S BY <1>11, <1>21
        <5> QED BY <2>2, <5>1
      <4>2. CASE ~\E m \in R : f[m] = n BY <1>22, <3>3, <4>2
      <4> QED BY <4>1, <4>2
    <3> QED BY <1>24, <3>1, <3>2, <3>3 DEF ChildOK, IsList
  <2> QED BY <2>1, <2>2
<1>34. NoCycle(g, own)
  <2> SUFFICES ASSUME NEW T \in SUBSET Items,
                      \A n \in T : own[n] # NULL /\ n # g[own[n]].child /\ g[n].prev \in T
               PROVE  T = {}
    BY DEF NoCycle
  <2> DEFINE U == {m \in R : f[m] \in T}
             V == {n \in T : \A m \in R : f[m] # n}
  <2>1. ASSUME NEW m \in U PROVE m # h[owner[m]].child /\ \E p \in U : h[p].next = m
    <3>1. m \in R /\ f[m] \in T /\ own[f[m]] = f[owner[m]] /\ owner[m] \in S /\ m \in S
      BY <1>6, <1>11, <1>21
    <3>2. f[m] # g[f[owner[m]]].child /\ g[f[m]].prev \in T BY <3>1
    <3>3. m # h[owner[m]].child
      BY <1>11, <1>29, <3>1, <3>2
    <3>4. PICK p \in R : before(m) = f[p] /\ h[p].next = m BY <1>15, <3>1, <3>3
    <3>5. f[p] \in T BY <1>28, <3>1, <3>2, <3>4
    <3> QED BY <3>3, <3>4, <3>5
  <2>2. U = {}
    <3>1. U \in SUBSET R OBVIOUS
    <3> HIDE DEF U
    <3> QED BY <1>12, <2>1, <3>1
  <2>3. ASSUME NEW n \in V PROVE par[n] # NULL /\ n # h[par[n]].child /\ h[n].prev \in V
    <3>1. n \in Items /\ own[n] # NULL /\ n # g[own[n]].child /\ g[n].prev \in T OBVIOUS
    <3>2. n # f[x] BY <1>26, <3>1
    <3>3. g[n] = h[n] /\ own[n] = par[n] /\ par[n] # NULL BY <1>27, <3>1, <3>2
    <3>4. par[n] \in Items /\ g[par[n]] = h[par[n]] BY <1>24, <1>25, <3>3
    <3>5. h[n].prev \in T /\ h[h[n].prev].kind # "FREE" BY <1>25, <3>1, <3>3
    <3>6. \A m \in R : f[m] # h[n].prev BY <1>6, <1>7, <3>5
    <3> QED BY <3>1, <3>3, <3>4, <3>5, <3>6
  <2>4. V = {}
    <3>1. V \in SUBSET Items /\ NoCycle(h, par) BY DEF Linkage
    <3> HIDE DEF V
    <3> QED BY <2>3, <3>1 DEF NoCycle
  <2> QED BY <2>2, <2>4
<1>35. Linkage(g, own) BY <1>20, <1>23, <1>31, <1>32, <1>33, <1>34 DEF Linkage
<1>36. ASSUME Grounded(par) PROVE Grounded(own)
  <2> SUFFICES ASSUME NEW T \in SUBSET Items, \A n \in T : own[n] \in T PROVE T = {}
    BY DEF Grounded
  <2> DEFINE U == {m \in R : f[m] \in T}
             V == {n \in T : \A m \in R : f[m] # n}
  <2>1. ASSUME NEW n \in V PROVE par[n] \in V
    <3>1. n \in Items /\ own[n] = par[n] /\ par[n] \in T BY <1>22
    <3>2. h[par[n]].kind # "FREE" BY <1>1, <1>25, <3>1
    <3>3. \A m \in R : f[m] # par[n] BY <1>6, <1>7, <3>2
    <3> QED BY <3>1, <3>3
  <2>2. V = {}
    <3>1. V \in SUBSET Items OBVIOUS
    <3> HIDE DEF V
    <3> QED BY <1>36, <2>1, <3>1 DEF Grounded
  <2>3. ASSUME NEW m \in U PROVE owner[m] \in U
    <3>1. m \in R /\ f[owner[m]] \in T /\ owner[m] \in S BY <1>11, <1>21
    <3>2. PICK k \in R : f[k] = f[owner[m]] BY <2>2, <3>1
    <3>3. k \in S BY <1>6
    <3> QED BY <1>8, <3>1, <3>2, <3>3
  <2>4. U = {}
    <3>1. U \in SUBSET R OBVIOUS
    <3>2. \A I \in SUBSET R : (\A m \in I : owner[m] \in I) => I = {} BY <1>4 DEF Owns
    <3> HIDE DEF U
    <3> QED BY <2>3, <3>1, <3>2
  <2> QED BY <2>2, <2>4
<1>37. ASSUME NEW n \in Items, h[n].kind = "FREE", g[n].kind # "FREE", own[n] = NULL
       PROVE  n = f[x]
  <2>1. CASE \E m \in R : f[m] = n
    <3> PICK m \in R : f[m] = n BY <2>1
    <3>1. own[n] = f[owner[m]] /\ owner[m] \in S BY <1>11, <1>21
    <3> QED BY <1>7, <1>37, <3>1
  <2> QED BY <1>27, <1>37, <2>1
<1>38. /\ Linkage(g, own)
       /\ f[x] \in Items /\ own[f[x]] = NULL /\ g[f[x]].kind # "FREE"
       /\ \A n \in Items : IF h[n].kind # "FREE" THEN own[n] = par[n] /\ g[n] = h[n]
                           ELSE g[n].kind # "FREE" /\ own[n] = NULL => n = f[x]
       /\ Grounded(par) => Grounded(own)
  BY <1>2, <1>24, <1>26, <1>35, <1>36, <1>37
<1> QED BY <1>38 DEF g

-----------------------------------------------------------------------------
(* Lists as sequences, and the forest of all lists                         *)

(* InsertAt, element by element.                                           *)
LEMMA Inserting ==
  ASSUME NEW S, NEW s \in Seq(S), NEW p \in 1 .. Len(s) + 1, NEW e \in S
  PROVE  /\ InsertAt(s, p, e) \in Seq(S) /\ Len(InsertAt(s, p, e)) = Len(s) + 1
         /\ \A k \in 1 .. Len(s) + 1 :
              InsertAt(s, p, e)[k] = IF k < p THEN s[k] ELSE IF k = p THEN e ELSE s[k - 1]
<1> DEFINE a == SubSeq(s, 1, p - 1)
           b == SubSeq(s, p, Len(s))
           ae == a \o <<e>>
<1>1. Len(s) \in Nat /\ p \in Int /\ p - 1 \in Int /\ Len(s) \in Int /\ 1 \in Int OBVIOUS
<1>2. \A i \in 1 .. p - 1 : s[i] \in S OBVIOUS
<1>3. \A i \in p .. Len(s) : s[i] \in S OBVIOUS
<1>4. a \in Seq(S) /\ Len(a) = p - 1 /\ \A i \in 1 .. p - 1 : a[i] = s[i]
  <2>1. /\ a \in Seq(S) /\ Len(a) = IF 1 <= p - 1 THEN (p - 1) - 1 + 1 ELSE 0
        /\ \A i \in 1 .. (p - 1) - 1 + 1 : a[i] = s[1 + i - 1]
    BY <1>1, <1>2, SubSeqProperties
  <2> HIDE DEF a
  <2> QED BY <1>1, <2>1
<1>5. /\ b \in Seq(S) /\ Len(b) = Len(s) - p + 1
      /\ \A i \in 1 .. Len(s) - p + 1 : b[i] = s[p + i - 1]
  <2>1. /\ b \in Seq(S) /\ Len(b) = IF p <= Len(s) THEN Len(s) - p + 1 ELSE 0
        /\ \A i \in 1 .. Len(s) - p + 1 : b[i] = s[p + i - 1]
    BY <1>1, <1>3, SubSeqProperties
  <2> HIDE DEF b
  <2> QED BY <1>1, <2>1
<1>6. <<e>> \in Seq(S) /\ Len(<<e>>) = 1 /\ <<e>>[1] = e OBVIOUS
<1> HIDE DEF a, b
<1>7. ae \in Seq(S) /\ Len(ae) = p /\ \A i \in 1 .. p : ae[i] = IF i < p THEN s[i] ELSE e
  <2>1. /\ ae \in Seq(S) /\ Len(ae) = Len(a) + Len(<<e>>)
        /\ \A i \in 1 .. Len(a) + Len(<<e>>) :
             ae[i] = IF i <= Len(a) THEN a[i] ELSE <<e>>[i - Len(a)]
    BY <1>4, <1>6, ConcatProperties
  <2> HIDE DEF ae
  <2> QED BY <1>1, <1>4, <1>6, <2>1
<1> HIDE DEF ae
<1>8. /\ ae \o b \in Seq(S) /\ Len(ae \o b) = Len(ae) + Len(b)
      /\ \A i \in 1 .. Len(ae) + Len(b) :
           (ae \o b)[i] = IF i <= Len(ae) THEN ae[i] ELSE b[i - Len(ae)]
  BY <1>5, <1>7, ConcatProperties
<1>9. InsertAt(s, p, e) = ae \o b BY DEF InsertAt, ae, a, b
<1> HIDE DEF InsertAt
<1> DEFINE l == ae \o b
<1>10. l \in Seq(S) /\ Len(l) = Len(s) + 1 BY <1>1, <1>5, <1>7, <1>8
<1>11. ASSUME NEW k \in 1 .. Len(s) + 1
       PROVE  l[k] = IF k < p THEN s[k] ELSE IF k = p THEN e ELSE s[k - 1]
  <2>1. l[k] = IF k <= p THEN ae[k] ELSE b[k - p] BY <1>1, <1>5, <1>7, <1>8
  <2> HIDE DEF l
  <2>2. CASE k <= p BY <1>1, <1>7, <2>1, <2>2
  <2>3. CASE k > p
    <3>1. k - p \in 1 .. Len(s) - p + 1 /\ p + (k - p) - 1 = k - 1 BY <1>1, <2>3
    <3>2. b[k - p] = s[k - 1] BY <1>5, <3>1
    <3> QED BY <1>1, <2>1, <2>3, <3>2
  <2> QED BY <1>1, <2>2, <2>3
<1> QED BY <1>9, <1>10, <1>11

(* So for RemoveAt.                                                        *)
LEMMA Removing ==
  ASSUME NEW S, NEW s \in Seq(S), NEW p \in 1 .. Len(s)
  PROVE  /\ RemoveAt(s, p) \in Seq(S) /\ Len(RemoveAt(s, p)) = Len(s) - 1
         /\ \A k \in 1 .. Len(s) - 1 :
              RemoveAt(s, p)[k] = IF k < p THEN s[k] ELSE s[k + 1]
<1> DEFINE a == SubSeq(s, 1, p - 1)
           b == SubSeq(s, p + 1, Len(s))
<1>1. Len(s) \in Nat /\ p + 1 \in Int /\ p - 1 \in Int /\ Len(s) \in Int /\ 1 \in Int OBVIOUS
<1>2. \A i \in 1 .. p - 1 : s[i] \in S OBVIOUS
<1>3. \A i \in p + 1 .. Len(s) : s[i] \in S OBVIOUS
<1>4. a \in Seq(S) /\ Len(a) = p - 1 /\ \A i \in 1 .. p - 1 : a[i] = s[i]
  <2>1. /\ a \in Seq(S) /\ Len(a) = IF 1 <= p - 1 THEN (p - 1) - 1 + 1 ELSE 0
        /\ \A i \in 1 .. (p - 1) - 1 + 1 : a[i] = s[1 + i - 1]
    BY <1>1, <1>2, SubSeqProperties
  <2> HIDE DEF a
  <2> QED BY <1>1, <2>1
<1>5. /\ b \in Seq(S) /\ Len(b) = Len(s) - p
      /\ \A i \in 1 .. Len(s) - p : b[i] = s[p + i]
  <2>1. /\ b \in Seq(S) /\ Len(b) = IF p + 1 <= Len(s) THEN Len(s) - (p + 1) + 1 ELSE 0
        /\ \A i \in 1 .. Len(s) - (p + 1) + 1 : b[i] = s[(p + 1) + i - 1]
    BY <1>1, <1>3, SubSeqProperties
  <2> HIDE DEF b
  <2>2. \A i \in 1 .. Len(s) - p : (p + 1) + i - 1 = p + i BY <1>1
  <2> QED BY <1>1, <2>1, <2>2
<1> HIDE DEF a, b
<1>6. /\ a \o b \in Seq(S) /\ Len(a \o b) = Len(a) + Len(b)
      /\ \A i \in 1 .. Len(a) + Len(b) :
           (a \o b)[i] = IF i <= Len(a) THEN a[i] ELSE b[i - Len(a)]
  BY <1>4, <1>5, ConcatProperties
<1>7. RemoveAt(s, p) = a \o b BY DEF RemoveAt, a, b
<1> DEFINE l == a \o b
<1>8. l \in Seq(S) /\ Len(l) = Len(s) - 1 BY <1>1, <1>4, <1>5, <1>6
<1>9. ASSUME NEW k \in 1 .. Len(s) - 1 PROVE l[k] = IF k < p THEN s[k] ELSE s[k + 1]
  <2>1. l[k] = IF k <= p - 1 THEN a[k] ELSE b[k - (p - 1)] BY <1>1, <1>4, <1>5, <1>6
  <2> HIDE DEF l
  <2>2. CASE k < p BY <1>1, <1>4, <2>1, <2>2
  <2>3. CASE k >= p
    <3>1. k - (p - 1) \in 1 .. Len(s) - p /\ p + (k - (p - 1)) = k + 1 BY <1>1, <2>3
    <3>2. b[k - (p - 1)] = s[k + 1] BY <1>5, <3>1
    <3> QED BY <1>1, <2>1, <2>3, <3>2
  <2> QED BY <1>1, <2>2, <2>3
<1> QED BY <1>7, <1>8, <1>9

(* l is the list that begins with c.                                       *)
Follows(h, c, l) ==
  /\ l \in Seq(Items)
  /\ c = IF Len(l) = 0 THEN NULL ELSE l[1]
  /\ \A k \in 1 .. Len(l) : h[l[k]].next = IF k = Len(l) THEN NULL ELSE l[k + 1]

(* Only one sequence is.                                                   *)
LEMMA OneFollows ==
  ASSUME NEW h, NEW c, NEW l, NEW m, Follows(h, c, l), Follows(h, c, m)
  PROVE  l = m
<1>1. /\ l \in Seq(Items) /\ m \in Seq(Items) /\ Len(l) \in Nat /\ Len(m) \in Nat
      /\ \A k \in 1 .. Len(l) : l[k] \in Items
      /\ \A k \in 1 .. Len(m) : m[k] \in Items
      /\ NULL \notin Items
  BY Basics DEF Follows
<1>2. /\ c = IF Len(l) = 0 THEN NULL ELSE l[1]
      /\ \A k \in 1 .. Len(l) : h[l[k]].next = IF k = Len(l) THEN NULL ELSE l[k + 1]
      /\ c = IF Len(m) = 0 THEN NULL ELSE m[1]
      /\ \A k \in 1 .. Len(m) : h[m[k]].next = IF k = Len(m) THEN NULL ELSE m[k + 1]
  BY DEF Follows
<1> DEFINE G == {k \in Nat : k \in 1 .. Len(l) => k \in 1 .. Len(m) /\ m[k] = l[k]}
<1>3. 0 \in G OBVIOUS
<1>4. ASSUME NEW k \in Nat, k \in G PROVE k + 1 \in G
  <2> SUFFICES ASSUME k + 1 \in 1 .. Len(l)
               PROVE  k + 1 \in 1 .. Len(m) /\ m[k + 1] = l[k + 1]
    OBVIOUS
  <2>1. CASE k = 0
    <3>1. Len(l) # 0 /\ c = l[1] /\ c \in Items /\ l[k + 1] = c BY <1>1, <1>2, <2>1
    <3>2. Len(m) # 0 BY <1>1, <1>2, <3>1
    <3>3. c = m[1] /\ 1 \in 1 .. Len(m) /\ k + 1 = 1 BY <1>1, <1>2, <3>2, <2>1
    <3> QED BY <3>1, <3>3
  <2>2. CASE k # 0
    <3>1. k \in 1 .. Len(l) /\ k # Len(l) BY <1>1, <2>2
    <3>2. k \in 1 .. Len(m) /\ m[k] = l[k] BY <1>4, <3>1
    <3>3. h[m[k]].next = l[k + 1] /\ l[k + 1] \in Items BY <1>1, <1>2, <3>1, <3>2
    <3>4. k # Len(m) BY <1>1, <1>2, <3>2, <3>3
    <3>5. k + 1 \in 1 .. Len(m) BY <1>1, <3>2, <3>4
    <3> QED BY <1>2, <3>2, <3>3, <3>4, <3>5
  <2> QED BY <2>1, <2>2
<1>5. Nat \subseteq G BY <1>3, <1>4, AllNaturals
<1>6. \A k \in 1 .. Len(l) : k \in 1 .. Len(m) /\ m[k] = l[k] BY <1>1, <1>5
<1> HIDE DEF G
<1>7. Len(l) = Len(m)
  <2>1. CASE Len(l) = 0
    <3>1. c = NULL BY <1>2, <2>1
    <3>2. Len(m) # 0 => 1 \in 1 .. Len(m) /\ c = m[1] BY <1>1, <1>2
    <3> QED BY <1>1, <2>1, <3>1, <3>2
  <2>2. CASE Len(l) # 0
    <3>1. Len(l) \in 1 .. Len(l) BY <1>1, <2>2
    <3>2. Len(l) \in 1 .. Len(m) /\ m[Len(l)] = l[Len(l)] BY <1>6, <3>1
    <3>3. h[m[Len(l)]].next = NULL BY <1>2, <3>1, <3>2
    <3>4. ASSUME Len(l) # Len(m) PROVE FALSE
      <4>1. Len(l) + 1 \in 1 .. Len(m) BY <1>1, <3>2, <3>4
      <4>2. m[Len(l) + 1] = NULL BY <1>2, <3>2, <3>3, <3>4
      <4> QED BY <1>1, <4>1, <4>2
    <3> QED BY <3>4
  <2> QED BY <2>1, <2>2
<1> QED BY <1>1, <1>6, <1>7, SeqEqual

(* The list of p, where each node knows its parent.                        *)
ListIn(h, par, p, l) ==
  /\ Follows(h, h[p].child, l) /\ Len(l) \in Nat
  /\ \A k \in 1 .. Len(l) : /\ l[k] \in Items /\ par[l[k]] = p
                            /\ h[l[k]].prev = IF k = 1 THEN l[Len(l)] ELSE l[k - 1]
  /\ \A i, j \in 1 .. Len(l) : l[i] = l[j] => i = j
  /\ \A n \in Items : par[n] = p => \E k \in 1 .. Len(l) : n = l[k]

(* Kids finds such a list.                                                 *)
LEMMA KidsIn ==
  ASSUME NEW h, NEW par, Linkage(h, par), NEW p \in Items, IsList(h, p)
  PROVE  ListIn(h, par, p, Kids(h, p))
<1> DEFINE c == h[p].child
           kids == Kids(h, p)
<1>1. /\ h \in Heaps /\ par \in Parents /\ NULL \notin Items /\ c \in Nodes
      /\ \A n \in Nodes : n # NULL => n \in Items
  BY Basics DEF Linkage
<1>2. ChildOK(h, par, p) BY DEF Linkage
<1>3. /\ {kids[k] : k \in DOMAIN kids} = {n \in Items : par[n] = p}
      /\ \A k \in DOMAIN kids :
           h[kids[k]].prev = IF k = 1 THEN kids[Len(kids)] ELSE kids[k - 1]
  BY ListOf DEF Members, Linked
<1>4. CASE c = NULL
  <2>1. kids = <<>> BY <1>4 DEF Kids
  <2>2. kids \in Seq(Items) /\ Len(kids) = 0 BY <2>1
  <2>3. \A n \in Items : par[n] # p BY <1>2, <1>4 DEF ChildOK
  <2> HIDE DEF kids
  <2> QED BY <1>4, <2>2, <2>3 DEF ListIn, Follows, kids
<1>5. CASE c # NULL
  <2>1. c \in Items /\ par[c] = p BY <1>1, <1>2, <1>5 DEF ChildOK
  <2>2. kids = List(h, c) BY <1>5 DEF Kids
  <2> HIDE DEF kids, c
  <2>3. Chain(h, par, c, kids) BY <2>1, <2>2, ChainFrom
  <2>4. /\ kids \in Seq(Items) /\ Len(kids) \in Nat /\ Len(kids) # 0 /\ kids[1] = c
        /\ \A k \in 1 .. Len(kids) :
             /\ kids[k] \in Items /\ par[kids[k]] = p
             /\ h[kids[k]].next = IF k = Len(kids) THEN NULL ELSE kids[k + 1]
        /\ \A i, j \in 1 .. Len(kids) : kids[i] = kids[j] => i = j
    BY <1>1, <2>1, <2>3, Basics DEF Chain
  <2>5. DOMAIN kids = 1 .. Len(kids) BY <2>4
  <2>6. Follows(h, c, kids) BY <2>4 DEF Follows
  <2>7. \A n \in Items : par[n] = p => \E k \in 1 .. Len(kids) : n = kids[k]
    BY <1>3, <2>5
  <2> QED BY <1>3, <2>4, <2>5, <2>6, <2>7 DEF ListIn, c, kids
<1> QED BY <1>4, <1>5

(* And any list that is linked from the first node on is the one it finds. *)
LEMMA KidsAre ==
  ASSUME NEW h, NEW par, Linkage(h, par), NEW p \in Items, IsList(h, p),
         NEW l, Follows(h, h[p].child, l)
  PROVE  Kids(h, p) = l
BY KidsIn, OneFollows DEF ListIn

(* A member has a place in it.                                             *)
LEMMA MemberAt ==
  ASSUME NEW h, NEW par, Linkage(h, par), NEW p \in Items, IsList(h, p), NEW x \in Members(h, p)
  PROVE  \E k \in 1 .. Len(Kids(h, p)) : x = Kids(h, p)[k]
<1> DEFINE kids == Kids(h, p)
<1>1. ListIn(h, par, p, kids) BY KidsIn
<1> HIDE DEF kids
<1>2. DOMAIN kids = 1 .. Len(kids) BY <1>1 DEF ListIn, Follows
<1>3. x \in {kids[k] : k \in DOMAIN kids} BY DEF Members, kids
<1> QED BY <1>2, <1>3 DEF kids

(* The lists of all arrays and objects.                                    *)
ForestOf(h) == [n \in Items |-> IF IsList(h, n) THEN Kids(h, n) ELSE <<>>]

(* The links from the nodes of other lists than that of p are the same.    *)
Elsewhere(h, par, g, p) ==
  \A n \in Items : par[n] # p /\ par[n] # NULL => g[n].next = h[n].next

WithList(f, p, l) == [f EXCEPT ![p] = l]

(* What calls do to the lists.                                             *)
Appended(f, a, i) == [f EXCEPT ![a] = Append(@, i)]
InsertedAt(f, a, p, i) == [f EXCEPT ![a] = InsertAt(@, p, i)]
RemovedAt(f, a, p) == [f EXCEPT ![a] = RemoveAt(@, p)]
ReplacedAt(f, a, p, i) == [f EXCEPT ![a] = ReplaceAt(@, p, i)]
Without(f, B) == [n \in Items |-> IF n \in B THEN <<>> ELSE f[n]]

(* A step that leaves the first node of each list but p's, and the links   *)
(* from its nodes, changes the list of p alone.                            *)
LEMMA ForestBut ==
  ASSUME NEW h, NEW par, Linkage(h, par), NEW g, NEW own, Linkage(g, own),
         NEW p \in Items, SameBut(h, g, p), IsList(h, p),
         Elsewhere(h, par, g, p), NEW l, Follows(g, g[p].child, l)
  PROVE  ForestOf(g) = WithList(ForestOf(h), p, l)
<1>1. ASSUME NEW q \in Items, q # p, IsList(h, q)
      PROVE  IsList(g, q) /\ Kids(g, q) = Kids(h, q)
  <2>1. IsList(g, q) /\ g[q].child = h[q].child BY <1>1 DEF SameBut, IsList
  <2>2. ListIn(h, par, q, Kids(h, q)) BY <1>1, KidsIn
  <2>3. q # NULL BY Basics
  <2>4. Follows(g, g[q].child, Kids(h, q))
    <3> DEFINE k == Kids(h, q)
    <3> HIDE DEF k
    <3>1. ListIn(h, par, q, k) BY <2>2 DEF k
    <3> QED BY <1>1, <2>1, <2>3, <3>1 DEF ListIn, Follows, Elsewhere, k
  <2> QED BY <2>1, <2>4, KidsAre
<1>2. IsList(g, p) /\ Kids(g, p) = l
  <2>1. IsList(g, p) BY DEF SameBut, IsList
  <2> QED BY <2>1, KidsAre
<1>3. ASSUME NEW q \in Items, ~IsList(h, q) PROVE ~IsList(g, q)
  BY <1>3 DEF SameBut, IsList
<1>4. \A q \in Items :
        ForestOf(g)[q] = IF q = p THEN l ELSE ForestOf(h)[q]
  BY <1>1, <1>2, <1>3 DEF ForestOf
<1>5. DOMAIN ForestOf(g) = Items /\ DOMAIN ForestOf(h) = Items BY DEF ForestOf
<1>6. ForestOf(g) = [q \in Items |-> ForestOf(g)[q]] BY DEF ForestOf
<1> QED BY <1>4, <1>5, <1>6 DEF WithList

(* Nothing of this is about names.                                         *)
LEMMA ForestSame ==
  ASSUME NEW h, NEW par, Linkage(h, par), NEW g, Linkage(g, par),
         \A n \in Items : /\ g[n].kind = h[n].kind /\ g[n].ref = h[n].ref
                          /\ g[n].next = h[n].next /\ g[n].child = h[n].child
  PROVE  ForestOf(g) = ForestOf(h)
<1>1. ASSUME NEW q \in Items, IsList(h, q)
      PROVE  IsList(g, q) /\ Kids(g, q) = Kids(h, q)
  <2>1. IsList(g, q) /\ g[q].child = h[q].child BY <1>1 DEF IsList
  <2> DEFINE k == Kids(h, q)
  <2>2. ListIn(h, par, q, k) BY <1>1, KidsIn
  <2> HIDE DEF k
  <2>3. Follows(g, g[q].child, k) BY <2>1, <2>2 DEF ListIn, Follows
  <2> QED BY <2>1, <2>3, KidsAre DEF k
<1>2. ASSUME NEW q \in Items, ~IsList(h, q) PROVE ~IsList(g, q) BY <1>2 DEF IsList
<1> QED BY <1>1, <1>2 DEF ForestOf

(* A new name changes no list.                                             *)
LEMMA ForestKeyed ==
  ASSUME NEW h, NEW par, Linkage(h, par), NEW i \in Items, NEW key \in Keys \union {NULL},
         NEW const \in BOOLEAN
  PROVE  /\ Linkage(WithKey(h, i, key, const), par)
         /\ ForestOf(WithKey(h, i, key, const)) = ForestOf(h)
<1> DEFINE g == WithKey(h, i, key, const)
<1>1. h \in Heaps BY DEF Linkage
<1>2. g = [h EXCEPT ![i] = [h[i] EXCEPT !.string = key, !.const = const]] BY DEF WithKey
<1>3. [h[i] EXCEPT !.string = key, !.const = const] \in Struct BY <1>1 DEF Heaps, Struct
<1>4. g \in Heaps BY <1>1, <1>2, <1>3 DEF Heaps
<1>5. \A n \in Items : /\ g[n].kind = h[n].kind /\ g[n].ref = h[n].ref
                       /\ g[n].next = h[n].next /\ g[n].prev = h[n].prev
                       /\ g[n].child = h[n].child
  BY <1>1, <1>2 DEF Heaps, Struct
<1> HIDE DEF g
<1>6. Linkage(g, par) BY <1>4, <1>5, SameLinks
<1>7. ForestOf(g) = ForestOf(h) BY <1>5, <1>6, ForestSame
<1> QED BY <1>6, <1>7 DEF g

(* add_item_to_array appends.                                              *)
LEMMA ForestAdded ==
  ASSUME NEW h, NEW par, Linkage(h, par), NEW a \in Items, NEW i \in Items, IsList(h, a),
         i # a, par[i] = NULL, h[i].kind # "FREE"
  PROVE  ForestOf(add_item_to_array(h, a, i)) = Appended(ForestOf(h), a, i)
<1> DEFINE g == add_item_to_array(h, a, i)
           own == [par EXCEPT ![i] = a]
           c == h[a].child
           kids == Kids(h, a)
           l == Append(kids, i)
<1>1. /\ h \in Heaps /\ par \in Parents /\ NULL \notin Items /\ a # NULL /\ h[i].next = NULL
  BY Basics DEF Linkage
<1>2. Linkage(g, own) /\ SameBut(h, g, a) BY AddedLinks
<1>3. ListIn(h, par, a, kids) BY KidsIn
<1>4. /\ kids \in Seq(Items) /\ Len(kids) \in Nat
      /\ c = IF Len(kids) = 0 THEN NULL ELSE kids[1]
      /\ \A k \in 1 .. Len(kids) :
           /\ kids[k] \in Items /\ par[kids[k]] = a
           /\ h[kids[k]].next = IF k = Len(kids) THEN NULL ELSE kids[k + 1]
           /\ h[kids[k]].prev = IF k = 1 THEN kids[Len(kids)] ELSE kids[k - 1]
      /\ \A j, k \in 1 .. Len(kids) : kids[j] = kids[k] => j = k
  BY <1>3 DEF ListIn, Follows
<1> HIDE DEF c, kids
<1>5. /\ l \in Seq(Items) /\ Len(l) = Len(kids) + 1 /\ l[Len(kids) + 1] = i
      /\ \A k \in 1 .. Len(kids) : l[k] = kids[k]
  BY <1>4, AppendProperties
<1> HIDE DEF l
<1>6. CASE Len(kids) = 0
  <2>1. c = NULL BY <1>4, <1>6
  <2>2. \A n \in Items : /\ g[n].next = IF n = i THEN NULL ELSE h[n].next
                         /\ g[n].child = IF n = a THEN i ELSE h[n].child
    <3>1. c # i BY <1>1, <2>1
    <3> HIDE DEF g
    <3> QED BY <1>1, <2>1, <3>1, AddEffect DEF g, c
  <2> HIDE DEF g, own
  <2>3. Follows(g, g[a].child, l)
    <3>1. Len(l) = 1 /\ l[1] = i BY <1>5, <1>6
    <3>2. g[a].child = i /\ g[i].next = NULL BY <2>2
    <3>3. \A k \in 1 .. Len(l) : k = 1 BY <3>1
    <3> QED BY <1>5, <3>1, <3>2, <3>3 DEF Follows
  <2>4. Elsewhere(h, par, g, a) BY <1>1, <2>2 DEF Elsewhere
  <2>5. ForestOf(g) = WithList(ForestOf(h), a, l) BY <1>2, <2>3, <2>4, ForestBut
  <2>6. ForestOf(h)[a] = kids BY DEF ForestOf, kids
  <2> QED BY <2>5, <2>6 DEF g, l, WithList, Appended
<1>7. CASE Len(kids) # 0
  <2> DEFINE last == kids[Len(kids)]
  <2>1. 1 \in 1 .. Len(kids) /\ Len(kids) \in 1 .. Len(kids) BY <1>4, <1>7
  <2>2. /\ c \in Items /\ par[c] = a /\ c # NULL /\ h[c].prev = last /\ last \in Items
        /\ par[last] = a /\ c = kids[1]
    BY <1>1, <1>4, <1>7, <2>1
  <2> HIDE DEF last
  <2>3. \A n \in Items : /\ g[n].next = IF n = last THEN i ELSE h[n].next
                         /\ g[n].child = h[n].child
    <3>1. c # i /\ h[c].prev # i BY <1>1, <2>2
    <3> HIDE DEF g
    <3> QED BY <1>1, <2>2, <3>1, AddEffect DEF g, c
  <2> HIDE DEF g, own
  <2>4. Follows(g, g[a].child, l)
    <3>1. g[a].child = l[1] /\ Len(l) # 0 BY <1>4, <1>5, <2>1, <2>2, <2>3 DEF c
    <3>2. ASSUME NEW k \in 1 .. Len(l)
          PROVE  g[l[k]].next = IF k = Len(l) THEN NULL ELSE l[k + 1]
      <4>1. CASE k = Len(l)
        <5>1. l[k] = i /\ i # last BY <1>1, <1>5, <2>2, <4>1
        <5> QED BY <1>1, <2>3, <4>1, <5>1
      <4>2. CASE k # Len(l)
        <5>1. k \in 1 .. Len(kids) /\ l[k] = kids[k] BY <1>4, <1>5, <4>2
        <5>2. CASE k = Len(kids) BY <1>5, <2>2, <2>3, <4>2, <5>1, <5>2 DEF last
        <5>3. CASE k # Len(kids)
          <6>1. kids[k] # last BY <1>4, <2>1, <5>1, <5>3 DEF last
          <6>2. k + 1 \in 1 .. Len(kids) BY <1>4, <5>1, <5>3
          <6> QED BY <1>4, <1>5, <2>3, <4>2, <5>1, <5>3, <6>1, <6>2
        <5> QED BY <5>2, <5>3
      <4> QED BY <4>1, <4>2
    <3> QED BY <1>5, <3>1, <3>2 DEF Follows
  <2>5. Elsewhere(h, par, g, a) BY <2>2, <2>3 DEF Elsewhere
  <2>6. ForestOf(g) = WithList(ForestOf(h), a, l) BY <1>2, <2>4, <2>5, ForestBut
  <2>7. ForestOf(h)[a] = kids BY DEF ForestOf, kids
  <2> QED BY <2>6, <2>7 DEF g, l, WithList, Appended
<1> QED BY <1>6, <1>7

(* InsertItemInArray inserts.                                              *)
LEMMA ForestInserted ==
  ASSUME NEW h, NEW par, Linkage(h, par), NEW a \in Items, IsList(h, a),
         NEW p \in 1 .. Len(Kids(h, a)), NEW i \in Items, i # a, par[i] = NULL, h[i].kind # "FREE"
  PROVE  ForestOf(Inserted(h, a, Kids(h, a)[p], i)) = InsertedAt(ForestOf(h), a, p, i)
<1> DEFINE kids == Kids(h, a)
           b == kids[p]
           g == Inserted(h, a, b, i)
           own == [par EXCEPT ![i] = a]
           c == h[a].child
           l == InsertAt(kids, p, i)
           before == h[b].prev
<1>1. h \in Heaps /\ par \in Parents /\ NULL \notin Items /\ a # NULL /\ h[i].next = NULL
  BY Basics DEF Linkage
<1>2. ListIn(h, par, a, kids) BY KidsIn
<1>3. p \in 1 .. Len(kids) OBVIOUS
<1> HIDE DEF kids
<1>4. /\ kids \in Seq(Items) /\ Len(kids) \in Nat /\ Len(kids) # 0
      /\ c = kids[1] /\ 1 \in 1 .. Len(kids) /\ Len(kids) \in 1 .. Len(kids)
      /\ \A k \in 1 .. Len(kids) :
           /\ kids[k] \in Items /\ par[kids[k]] = a
           /\ h[kids[k]].next = IF k = Len(kids) THEN NULL ELSE kids[k + 1]
           /\ h[kids[k]].prev = IF k = 1 THEN kids[Len(kids)] ELSE kids[k - 1]
      /\ \A j, k \in 1 .. Len(kids) : kids[j] = kids[k] => j = k
  BY <1>2, <1>3 DEF ListIn, Follows
<1> HIDE DEF c
<1>5. /\ l \in Seq(Items) /\ Len(l) = Len(kids) + 1
      /\ \A k \in 1 .. Len(kids) + 1 :
           l[k] = IF k < p THEN kids[k] ELSE IF k = p THEN i ELSE kids[k - 1]
  <2>1. p \in 1 .. Len(kids) + 1 BY <1>3, <1>4
  <2> QED BY <1>4, <2>1, Inserting
<1> HIDE DEF l
<1>6. b \in Items /\ par[b] = a /\ i # b BY <1>1, <1>3, <1>4
<1>7. Linkage(g, own) /\ SameBut(h, g, a) BY <1>6, InsertedLinks
<1>8. before \in Items /\ par[before] = a /\ i # before /\ (b = c <=> p = 1)
      /\ (p > 1 => before = kids[p - 1])
  <2>1. p > 1 => p - 1 \in 1 .. Len(kids) BY <1>3, <1>4
  <2>2. CASE p = 1 BY <1>1, <1>3, <1>4, <2>2
  <2>3. CASE p # 1
    <3>1. p > 1 BY <1>3, <1>4, <2>3
    <3> QED BY <1>1, <1>3, <1>4, <2>1, <2>3, <3>1
  <2> QED BY <2>2, <2>3
<1> HIDE DEF b, before
<1>9. \A n \in Items :
        /\ g[n].next = IF n = i THEN b ELSE IF p # 1 /\ n = before THEN i ELSE h[n].next
        /\ g[n].child = IF p = 1 /\ n = a THEN i ELSE h[n].child
  <2> HIDE DEF g
  <2> QED BY <1>1, <1>6, <1>8, InsertEffect DEF g, c, before
<1> HIDE DEF g, own
<1>10. Follows(g, g[a].child, l)
  <2>1. g[a].child = l[1] /\ Len(l) # 0
    <3>1. 1 \in 1 .. Len(kids) + 1 BY <1>4
    <3> QED BY <1>3, <1>4, <1>5, <1>9, <3>1 DEF c
  <2>2. ASSUME NEW k \in 1 .. Len(l)
        PROVE  g[l[k]].next = IF k = Len(l) THEN NULL ELSE l[k + 1]
    <3>1. k \in 1 .. Len(kids) + 1 BY <1>5
    <3>2. CASE k = p
      <4>1. l[k] = i /\ k # Len(l) /\ k + 1 \in 1 .. Len(kids) + 1 BY <1>3, <1>4, <1>5, <3>1, <3>2
      <4>2. l[k + 1] = kids[p] BY <1>3, <1>4, <1>5, <3>2, <4>1
      <4> QED BY <1>9, <4>1, <4>2 DEF b
    <3>3. CASE k < p
      <4>1. l[k] = kids[k] /\ k # Len(l) /\ k \in 1 .. Len(kids) /\ k + 1 \in 1 .. Len(kids) + 1
        BY <1>3, <1>4, <1>5, <3>1, <3>3
      <4>2. kids[k] # i /\ kids[k] \in Items BY <1>1, <1>4, <4>1
      <4>3. CASE k + 1 = p
        <5>1. before = kids[k] /\ p # 1 BY <1>3, <1>4, <1>8, <3>1, <4>3
        <5>2. l[k + 1] = i BY <1>5, <4>1, <4>3
        <5> QED BY <1>9, <4>1, <4>2, <5>1, <5>2
      <4>4. CASE k + 1 # p
        <5>1. k + 1 < p /\ p - 1 \in 1 .. Len(kids) /\ k # p - 1 /\ p > 1
          BY <1>3, <1>4, <3>1, <3>3, <4>4
        <5>2. kids[k] # before BY <1>4, <1>8, <4>1, <5>1
        <5>3. l[k + 1] = kids[k + 1] BY <1>5, <4>1, <5>1
        <5>4. k # Len(kids) BY <1>3, <1>4, <4>1, <5>1
        <5> QED BY <1>4, <1>9, <4>1, <4>2, <5>2, <5>3, <5>4
      <4> QED BY <4>3, <4>4
    <3>4. CASE k > p
      <4>1. l[k] = kids[k - 1] /\ k - 1 \in 1 .. Len(kids) BY <1>3, <1>4, <1>5, <3>1, <3>4
      <4>2. kids[k - 1] # i /\ kids[k - 1] \in Items BY <1>1, <1>4, <4>1
      <4>3. p # 1 => kids[k - 1] # before
        <5> SUFFICES ASSUME p # 1 PROVE kids[k - 1] # before OBVIOUS
        <5>1. p - 1 \in 1 .. Len(kids) /\ p > 1 /\ k - 1 # p - 1 BY <1>3, <1>4, <3>1, <3>4
        <5> QED BY <1>4, <1>8, <4>1, <5>1
      <4>4. g[l[k]].next = IF k - 1 = Len(kids) THEN NULL ELSE kids[(k - 1) + 1]
        BY <1>4, <1>9, <4>1, <4>2, <4>3
      <4>5. CASE k = Len(l) BY <1>4, <1>5, <3>1, <4>4, <4>5
      <4>6. CASE k # Len(l)
        <5>1. k + 1 \in 1 .. Len(kids) + 1 /\ k + 1 > p /\ (k - 1) + 1 = (k + 1) - 1
              /\ k - 1 # Len(kids)
          BY <1>3, <1>4, <1>5, <3>1, <3>4, <4>6
        <5>2. l[k + 1] = kids[(k + 1) - 1] BY <1>3, <1>4, <1>5, <5>1
        <5> QED BY <4>4, <4>6, <5>1, <5>2
      <4> QED BY <4>5, <4>6
    <3> QED BY <1>3, <1>4, <3>1, <3>2, <3>3, <3>4
  <2> QED BY <1>5, <2>1, <2>2 DEF Follows
<1>11. Elsewhere(h, par, g, a) BY <1>1, <1>8, <1>9 DEF Elsewhere
<1>12. ForestOf(g) = WithList(ForestOf(h), a, l) BY <1>7, <1>10, <1>11, ForestBut
<1>13. ForestOf(h)[a] = kids BY DEF ForestOf, kids
<1> QED BY <1>12, <1>13 DEF g, b, l, kids, WithList, InsertedAt

(* DetachItemViaPointer takes an item out.                                 *)
LEMMA ForestDetached ==
  ASSUME NEW h, NEW par, Linkage(h, par), NEW a \in Items, IsList(h, a),
         NEW p \in 1 .. Len(Kids(h, a))
  PROVE  /\ ForestOf(Detached(h, a, Kids(h, a)[p])) = RemovedAt(ForestOf(h), a, p)
         /\ Elsewhere(h, par, Detached(h, a, Kids(h, a)[p]), a)
<1> DEFINE kids == Kids(h, a)
           i == kids[p]
           g == Detached(h, a, i)
           own == [par EXCEPT ![i] = NULL]
           c == h[a].child
           l == RemoveAt(kids, p)
           before == h[i].prev
           after == h[i].next
<1>1. h \in Heaps /\ par \in Parents /\ NULL \notin Items /\ a # NULL
  BY Basics DEF Linkage
<1>2. ListIn(h, par, a, kids) BY KidsIn
<1>3. p \in 1 .. Len(kids) OBVIOUS
<1> HIDE DEF kids
<1>4. /\ kids \in Seq(Items) /\ Len(kids) \in Nat /\ Len(kids) # 0
      /\ c = kids[1] /\ 1 \in 1 .. Len(kids) /\ Len(kids) \in 1 .. Len(kids)
      /\ \A k \in 1 .. Len(kids) :
           /\ kids[k] \in Items /\ par[kids[k]] = a
           /\ h[kids[k]].next = IF k = Len(kids) THEN NULL ELSE kids[k + 1]
           /\ h[kids[k]].prev = IF k = 1 THEN kids[Len(kids)] ELSE kids[k - 1]
      /\ \A j, k \in 1 .. Len(kids) : kids[j] = kids[k] => j = k
  BY <1>2, <1>3 DEF ListIn, Follows
<1> HIDE DEF c
<1>5. /\ l \in Seq(Items) /\ Len(l) = Len(kids) - 1
      /\ \A k \in 1 .. Len(kids) - 1 : l[k] = IF k < p THEN kids[k] ELSE kids[k + 1]
  BY <1>3, <1>4, Removing
<1> HIDE DEF l
<1>6. i \in Items /\ par[i] = a BY <1>3, <1>4
<1>7. Linkage(g, own) /\ SameBut(h, g, a) BY <1>6, DetachedLinks
<1>8. /\ before \in Items /\ par[before] = a /\ (i = c <=> p = 1)
      /\ (p > 1 => before = kids[p - 1] /\ before # i)
      /\ after = IF p = Len(kids) THEN NULL ELSE kids[p + 1]
      /\ after \in Nodes /\ after # i
  <2>1. p > 1 => p - 1 \in 1 .. Len(kids) BY <1>3, <1>4
  <2>2. p # Len(kids) => p + 1 \in 1 .. Len(kids) BY <1>3, <1>4
  <2>3. after = IF p = Len(kids) THEN NULL ELSE kids[p + 1] BY <1>3, <1>4
  <2>4. i = c <=> p = 1 BY <1>3, <1>4
  <2>5. before = IF p = 1 THEN kids[Len(kids)] ELSE kids[p - 1] BY <1>3, <1>4
  <2>6. p > 1 => before # i BY <1>3, <1>4, <2>1, <2>5
  <2>7. after # i /\ after \in Nodes BY <1>1, <1>3, <1>4, <1>6, <2>2, <2>3 DEF Nodes
  <2>8. p = 1 \/ p > 1 BY <1>3, <1>4
  <2> QED BY <1>4, <2>1, <2>3, <2>4, <2>5, <2>6, <2>7, <2>8
<1> HIDE DEF i, before, after
<1>9. \A n \in Items :
        /\ g[n].next = IF n = i THEN NULL ELSE IF p # 1 /\ n = before THEN after ELSE h[n].next
        /\ g[n].child = IF p = 1 /\ n = a THEN after ELSE h[n].child
  <2>1. before # i \/ i = c BY <1>3, <1>4, <1>8
  <2>2. c \in Items BY <1>4
  <2> HIDE DEF g
  <2> QED BY <1>1, <1>6, <1>8, <2>1, <2>2, DetachEffect DEF g, c, before, after
<1> HIDE DEF g, own
<1>10. Follows(g, g[a].child, l)
  <2>1. g[a].child = IF Len(l) = 0 THEN NULL ELSE l[1]
    <3>1. CASE Len(kids) = 1
      <4>1. p = 1 /\ Len(l) = 0 BY <1>3, <1>5, <3>1
      <4> QED BY <1>8, <1>9, <3>1, <4>1
    <3>2. CASE Len(kids) # 1
      <4>1. 1 \in 1 .. Len(kids) - 1 /\ Len(l) # 0 BY <1>4, <1>5, <3>2
      <4>2. CASE p = 1 BY <1>5, <1>8, <1>9, <3>2, <4>1, <4>2
      <4>3. CASE p # 1
        <5>1. 1 < p BY <1>3, <1>4, <4>3
        <5> QED BY <1>4, <1>5, <1>9, <4>1, <4>3, <5>1 DEF c
      <4> QED BY <4>2, <4>3
    <3> QED BY <3>1, <3>2
  <2>2. ASSUME NEW k \in 1 .. Len(l)
        PROVE  g[l[k]].next = IF k = Len(l) THEN NULL ELSE l[k + 1]
    <3>1. k \in 1 .. Len(kids) - 1 /\ k \in 1 .. Len(kids) /\ k + 1 \in 1 .. Len(kids)
      BY <1>4, <1>5
    <3>2. k # Len(l) => k + 1 \in 1 .. Len(kids) - 1 BY <1>4, <1>5, <3>1
    <3>3. CASE k < p
      <4>1. l[k] = kids[k] /\ kids[k] \in Items BY <1>4, <1>5, <3>1, <3>3
      <4>2. kids[k] # i BY <1>3, <1>4, <3>1, <3>3 DEF i
      <4>3. CASE k + 1 = p
        <5>1. p > 1 /\ p # 1 /\ before = kids[k] BY <1>3, <1>4, <1>8, <3>1, <4>3
        <5>2. g[l[k]].next = after BY <1>9, <4>1, <4>2, <5>1
        <5>3. k = Len(l) <=> p = Len(kids) BY <1>4, <1>5, <3>1, <4>3
        <5>4. k # Len(l) => l[k + 1] = kids[p + 1]
          <6> SUFFICES ASSUME k # Len(l) PROVE l[k + 1] = kids[p + 1] OBVIOUS
          <6> QED BY <1>3, <1>4, <1>5, <3>1, <3>2, <4>3
        <5> QED BY <1>8, <5>2, <5>3, <5>4
      <4>4. CASE k + 1 # p
        <5>1. k + 1 < p /\ p - 1 \in 1 .. Len(kids) /\ k # p - 1 /\ p > 1 /\ k # Len(l)
              /\ k # Len(kids)
          BY <1>3, <1>4, <1>5, <3>1, <3>3, <4>4
        <5>2. kids[k] # before BY <1>4, <1>8, <3>1, <5>1
        <5>3. l[k + 1] = kids[k + 1] BY <1>5, <3>2, <5>1
        <5>4. h[kids[k]].next = kids[k + 1] BY <1>4, <3>1, <5>1
        <5> QED BY <1>9, <4>1, <4>2, <5>1, <5>2, <5>3, <5>4
      <4> QED BY <4>3, <4>4
    <3>4. CASE k >= p
      <4>1. l[k] = kids[k + 1] /\ kids[k + 1] \in Items BY <1>3, <1>4, <1>5, <3>1, <3>4
      <4>2. kids[k + 1] # i
        <5>1. k + 1 # p BY <1>3, <1>4, <3>1, <3>4
        <5> QED BY <1>3, <1>4, <3>1, <5>1 DEF i
      <4>3. p # 1 => kids[k + 1] # before
        <5> SUFFICES ASSUME p # 1 PROVE kids[k + 1] # before OBVIOUS
        <5>1. p - 1 \in 1 .. Len(kids) /\ p > 1 /\ k + 1 # p - 1 BY <1>3, <1>4, <3>1, <3>4
        <5> QED BY <1>4, <1>8, <3>1, <5>1
      <4>4. g[l[k]].next = IF k + 1 = Len(kids) THEN NULL ELSE kids[(k + 1) + 1]
        BY <1>4, <1>9, <3>1, <4>1, <4>2, <4>3
      <4>5. k + 1 = Len(kids) <=> k = Len(l) BY <1>4, <1>5, <3>1
      <4>6. k # Len(l) => l[k + 1] = kids[(k + 1) + 1]
        <5> SUFFICES ASSUME k # Len(l) PROVE l[k + 1] = kids[(k + 1) + 1] OBVIOUS
        <5>1. ~(k + 1 < p) BY <1>3, <1>4, <3>1, <3>4
        <5> QED BY <1>5, <3>2, <5>1
      <4> QED BY <4>4, <4>5, <4>6
    <3> QED BY <1>3, <1>4, <3>1, <3>3, <3>4
  <2> QED BY <1>5, <2>1, <2>2 DEF Follows
<1>11. Elsewhere(h, par, g, a)
  BY <1>1, <1>6, <1>8, <1>9 DEF Elsewhere
<1>12. ForestOf(g) = WithList(ForestOf(h), a, l) BY <1>7, <1>10, <1>11, ForestBut
<1>13. ForestOf(h)[a] = kids BY DEF ForestOf, kids
<1> QED BY <1>11, <1>12, <1>13 DEF g, i, l, kids, WithList, RemovedAt

(* ReplaceItemViaPointer, before it deletes, puts one item in the place of *)
(* another.                                                                *)
LEMMA ForestReplaced ==
  ASSUME NEW h, NEW par, Linkage(h, par), NEW a \in Items, IsList(h, a),
         NEW p \in 1 .. Len(Kids(h, a)), NEW r \in Items, r # a, par[r] = NULL, h[r].kind # "FREE"
  PROVE  /\ ForestOf(Replaced(h, a, Kids(h, a)[p], r)) = ReplacedAt(ForestOf(h), a, p, r)
         /\ Elsewhere(h, par, Replaced(h, a, Kids(h, a)[p], r), a)
<1> DEFINE kids == Kids(h, a)
           x == kids[p]
           g == Replaced(h, a, x, r)
           own == [[par EXCEPT ![x] = NULL] EXCEPT ![r] = a]
           c == h[a].child
           l == ReplaceAt(kids, p, r)
           before == h[x].prev
           after == h[x].next
<1>1. h \in Heaps /\ par \in Parents /\ NULL \notin Items /\ a # NULL
  BY Basics DEF Linkage
<1>2. ListIn(h, par, a, kids) BY KidsIn
<1>3. p \in 1 .. Len(kids) OBVIOUS
<1> HIDE DEF kids
<1>4. /\ kids \in Seq(Items) /\ Len(kids) \in Nat /\ Len(kids) # 0
      /\ c = kids[1] /\ 1 \in 1 .. Len(kids) /\ Len(kids) \in 1 .. Len(kids)
      /\ \A k \in 1 .. Len(kids) :
           /\ kids[k] \in Items /\ par[kids[k]] = a
           /\ h[kids[k]].next = IF k = Len(kids) THEN NULL ELSE kids[k + 1]
           /\ h[kids[k]].prev = IF k = 1 THEN kids[Len(kids)] ELSE kids[k - 1]
      /\ \A j, k \in 1 .. Len(kids) : kids[j] = kids[k] => j = k
  BY <1>2, <1>3 DEF ListIn, Follows
<1> HIDE DEF c
<1>5. /\ l \in Seq(Items) /\ Len(l) = Len(kids)
      /\ \A k \in 1 .. Len(kids) : l[k] = IF k = p THEN r ELSE kids[k]
  <2>1. l = [kids EXCEPT ![p] = r] BY <1>3, <1>4 DEF ReplaceAt
  <2> QED BY <1>3, <1>4, <2>1
<1> HIDE DEF l
<1>6. x \in Items /\ par[x] = a BY <1>3, <1>4
<1>7. Linkage(g, own) /\ SameBut(h, g, a) BY <1>6, ReplacedLinks
<1>8. /\ before \in Items /\ par[before] = a /\ (x = c <=> p = 1)
      /\ (p > 1 => before = kids[p - 1])
      /\ after = IF p = Len(kids) THEN NULL ELSE kids[p + 1]
      /\ after \in Nodes /\ after # x /\ r # after
  <2>1. p > 1 => p - 1 \in 1 .. Len(kids) BY <1>3, <1>4
  <2>2. p # Len(kids) => p + 1 \in 1 .. Len(kids) BY <1>3, <1>4
  <2>3. after = IF p = Len(kids) THEN NULL ELSE kids[p + 1] BY <1>3, <1>4
  <2>4. x = c <=> p = 1 BY <1>3, <1>4
  <2>5. before = IF p = 1 THEN kids[Len(kids)] ELSE kids[p - 1] BY <1>3, <1>4
  <2>6. after # x /\ after \in Nodes /\ r # after
    BY <1>1, <1>3, <1>4, <1>6, <2>2, <2>3 DEF Nodes
  <2>7. p = 1 \/ p > 1 BY <1>3, <1>4
  <2> QED BY <1>4, <2>1, <2>3, <2>4, <2>5, <2>6, <2>7
<1> HIDE DEF x, before, after
<1>9. \A n \in Items :
        /\ g[n].next = IF n = x THEN NULL ELSE IF n = r THEN after
                       ELSE IF p # 1 /\ n = before THEN r ELSE h[n].next
        /\ g[n].child = IF p = 1 /\ n = a THEN r ELSE h[n].child
  <2>1. c \in Items /\ par[c] = a BY <1>4
  <2>2. r \notin {x, c, before, after} BY <1>1, <1>6, <1>8, <2>1
  <2> HIDE DEF g
  <2> QED BY <1>1, <1>6, <1>8, <2>1, <2>2, ReplaceEffect DEF g, c, before, after
<1> HIDE DEF g, own
<1>10. Follows(g, g[a].child, l)
  <2>1. g[a].child = l[1] /\ Len(l) # 0 BY <1>3, <1>4, <1>5, <1>9 DEF c
  <2>2. ASSUME NEW k \in 1 .. Len(l)
        PROVE  g[l[k]].next = IF k = Len(l) THEN NULL ELSE l[k + 1]
    <3>1. k \in 1 .. Len(kids) BY <1>5
    <3>2. k # Len(kids) => k + 1 \in 1 .. Len(kids) BY <1>4, <3>1
    <3>3. CASE k = p
      <4>1. l[k] = r /\ r # x BY <1>1, <1>5, <1>6, <3>1, <3>3
      <4>2. g[l[k]].next = after BY <1>9, <4>1
      <4>3. k # Len(kids) => l[k + 1] = kids[k + 1]
        <5> SUFFICES ASSUME k # Len(kids) PROVE l[k + 1] = kids[k + 1] OBVIOUS
        <5>1. k + 1 # p BY <1>3, <1>4, <3>1, <3>3
        <5> QED BY <1>5, <3>2, <5>1
      <4> QED BY <1>5, <1>8, <3>3, <4>2, <4>3
    <3>4. CASE k # p
      <4>1. l[k] = kids[k] /\ kids[k] \in Items /\ kids[k] # r BY <1>1, <1>4, <1>5, <3>1, <3>4
      <4>2. kids[k] # x BY <1>3, <1>4, <3>1, <3>4 DEF x
      <4>3. CASE k + 1 = p
        <5>1. p > 1 /\ p # 1 /\ before = kids[k] /\ k # Len(kids) BY <1>3, <1>4, <1>8, <3>1, <4>3
        <5>2. g[l[k]].next = r BY <1>9, <4>1, <4>2, <5>1
        <5> QED BY <1>3, <1>5, <4>3, <5>1, <5>2
      <4>4. CASE k + 1 # p
        <5>1. p # 1 => kids[k] # before
          <6> SUFFICES ASSUME p # 1 PROVE kids[k] # before OBVIOUS
          <6>1. p - 1 \in 1 .. Len(kids) /\ p > 1 /\ k # p - 1 BY <1>3, <1>4, <3>1, <4>4
          <6> QED BY <1>4, <1>8, <3>1, <6>1
        <5>2. g[l[k]].next = h[kids[k]].next BY <1>9, <4>1, <4>2, <5>1
        <5> QED BY <1>4, <1>5, <3>1, <3>2, <4>4, <5>2
      <4> QED BY <4>3, <4>4
    <3> QED BY <3>3, <3>4
  <2> QED BY <1>5, <2>1, <2>2 DEF Follows
<1>11. Elsewhere(h, par, g, a)
  BY <1>1, <1>6, <1>8, <1>9 DEF Elsewhere
<1>12. ForestOf(g) = WithList(ForestOf(h), a, l) BY <1>7, <1>10, <1>11, ForestBut
<1>13. ForestOf(h)[a] = kids BY DEF ForestOf, kids
<1> QED BY <1>11, <1>12, <1>13 DEF g, x, l, kids, WithList, ReplacedAt

(* The links from the nodes of the list of p are the same.                 *)
NextSame(h, par, g, p) == \A n \in Items : par[n] = p => g[n].next = h[n].next

(* A list stays that begins with the same node, and is linked as it was.   *)
LEMMA KidsSame ==
  ASSUME NEW h, NEW par, Linkage(h, par), NEW g, NEW own, Linkage(g, own),
         NEW q \in Items, IsList(h, q), IsList(g, q), g[q].child = h[q].child,
         NextSame(h, par, g, q)
  PROVE  Kids(g, q) = Kids(h, q)
<1> DEFINE k == Kids(h, q)
<1>1. ListIn(h, par, q, k) BY KidsIn
<1> HIDE DEF k
<1>2. Follows(g, g[q].child, k) BY <1>1 DEF ListIn, Follows, NextSame
<1> QED BY <1>2, KidsAre DEF k

(* The members of a list, as its elements.                                 *)
LEMMA ForestMembers ==
  ASSUME NEW h, NEW par, Linkage(h, par), NEW p \in Items
  PROVE  /\ ForestOf(h)[p] \in Seq(Items)
         /\ ToSet(ForestOf(h)[p]) = {n \in Items : par[n] = p}
<1>1. CASE IsList(h, p)
  <2> DEFINE k == Kids(h, p)
  <2>1. ListIn(h, par, p, k) BY <1>1, KidsIn
  <2>2. ForestOf(h)[p] = k BY <1>1 DEF ForestOf
  <2> HIDE DEF k
  <2>3. k \in Seq(Items) /\ DOMAIN k = 1 .. Len(k) BY <2>1 DEF ListIn, Follows
  <2>4. ToSet(k) = {n \in Items : par[n] = p}
    <3>1. \A i \in 1 .. Len(k) : k[i] \in Items /\ par[k[i]] = p BY <2>1 DEF ListIn
    <3>2. \A n \in Items : par[n] = p => \E i \in 1 .. Len(k) : n = k[i] BY <2>1 DEF ListIn
    <3>3. ToSet(k) = {k[i] : i \in 1 .. Len(k)} BY <2>3 DEF ToSet
    <3> QED BY <3>1, <3>2, <3>3
  <2> QED BY <2>2, <2>3, <2>4
<1>2. CASE ~IsList(h, p)
  <2>1. ForestOf(h)[p] = <<>> BY <1>2 DEF ForestOf
  <2>2. \A n \in Items : par[n] # p BY <1>2, Basics DEF Linkage, MemberOK
  <2>3. ToSet(<<>>) = {} BY DEF ToSet
  <2>4. <<>> \in Seq(Items) OBVIOUS
  <2> QED BY <2>1, <2>2, <2>3, <2>4
<1> QED BY <1>1, <1>2

(* A node gets into use, with no list of its own.                          *)
LEMMA ForestFresh ==
  ASSUME NEW h, NEW par, Linkage(h, par), NEW n \in Items, h[n].kind = "FREE",
         NEW g \in Heaps, \A m \in Items : m # n => g[m] = h[m],
         g[n].next = NULL, g[n].kind # "FREE", g[n].child \in Items => h[g[n].child].kind # "FREE",
         IsList(g, n) \/ g[n].kind \notin Containers => g[n].child = NULL
  PROVE  Linkage(g, par) /\ par[n] = NULL /\ ForestOf(g) = ForestOf(h)
<1>1. Linkage(g, par) /\ par[n] = NULL BY FreshLinks
<1>2. NULL \notin Items BY Basics
<1>3. ~IsList(h, n) BY DEF IsList, Containers
<1>4. IsList(g, n) => Kids(g, n) = <<>> BY DEF Kids
<1>5. ASSUME NEW q \in Items, q # n, IsList(h, q)
      PROVE  IsList(g, q) /\ Kids(g, q) = Kids(h, q)
  <2>1. IsList(g, q) /\ g[q].child = h[q].child BY <1>5 DEF IsList
  <2>2. NextSame(h, par, g, q) BY <1>1, <1>2 DEF NextSame
  <2> QED BY <1>1, <1>5, <2>1, <2>2, KidsSame
<1>6. ASSUME NEW q \in Items, q # n, ~IsList(h, q) PROVE ~IsList(g, q)
  BY <1>6 DEF IsList
<1>7. \A q \in Items : ForestOf(g)[q] = ForestOf(h)[q]
  BY <1>3, <1>4, <1>5, <1>6 DEF ForestOf
<1>8. ForestOf(g) = [q \in Items |-> ForestOf(g)[q]] /\ ForestOf(h) = [q \in Items |-> ForestOf(h)[q]]
  BY DEF ForestOf
<1> QED BY <1>1, <1>7, <1>8

(* What is below a node that has no parent has its parent there.           *)
LEMMA BelowUp ==
  ASSUME NEW h, NEW par, Linkage(h, par), NEW x \in Items, par[x] = NULL
  PROVE  \A n \in Below(h, x) : n # x => par[n] \in Below(h, x)
<1> DEFINE B == Below(h, x)
           Y == {n \in B : n = x \/ par[n] \in B}
<1>1. h \in Heaps /\ par \in Parents /\ NULL \notin Items BY Basics DEF Linkage
<1>2. /\ B \in SUBSET Items /\ x \in B
      /\ \A n \in B : /\ h[n].next # NULL => h[n].next \in B
                      /\ ~h[n].ref /\ h[n].child # NULL => h[n].child \in B
  BY BelowOf
<1> HIDE DEF B
<1>3. ASSUME NEW n \in Y PROVE Links(h, n, FALSE) \ {NULL} \subseteq Y
  <2>1. n \in Items /\ n \in B BY <1>2
  <2>2. h[n].next # NULL => h[n].next \in Y
    <3> SUFFICES ASSUME h[n].next # NULL PROVE h[n].next \in Y OBVIOUS
    <3>1. par[n] # NULL /\ h[n].next \in B BY <1>2, <2>1 DEF Linkage
    <3>2. par[h[n].next] = par[n] BY <2>1, <3>1 DEF Linkage, MemberOK
    <3> QED BY <3>1, <3>2
  <2>3. ~h[n].ref /\ h[n].child # NULL => h[n].child \in Y
    <3> SUFFICES ASSUME ~h[n].ref, h[n].child # NULL PROVE h[n].child \in Y OBVIOUS
    <3>1. ChildOK(h, par, n) BY <2>1 DEF Linkage
    <3>2. par[h[n].child] = n BY <3>1 DEF ChildOK, IsList
    <3> QED BY <1>2, <2>1, <3>2
  <2> HIDE DEF Y
  <2> QED BY <2>2, <2>3 DEF Links
<1>4. Y \in SUBSET Items /\ {x} \subseteq Y BY <1>2
<1> HIDE DEF Y
<1>5. Below(h, x) \subseteq Y
  <2>1. {x} \in SUBSET Items OBVIOUS
  <2>2. FALSE \in BOOLEAN OBVIOUS
  <2> QED BY <1>1, <1>3, <1>4, <2>1, <2>2, ReachLeast DEF Below
<1> QED BY <1>5 DEF B, Y

(* What cJSON_Delete releases has no lists any more; all other lists stay. *)
LEMMA ForestFreed ==
  ASSUME NEW h, NEW par, Linkage(h, par), NEW x \in Items, par[x] = NULL,
         \A r \in Items \ Below(h, x) :
           h[r].kind # "FREE" /\ h[r].ref => h[r].child \notin Below(h, x)
  PROVE  ForestOf(Freed(h, x)) = Without(ForestOf(h), Below(h, x))
<1> DEFINE B == Below(h, x)
           g == Freed(h, x)
           own == [n \in Items |-> IF n \in B THEN NULL ELSE par[n]]
<1>1. Linkage(g, own) BY FreedLinks
<1>2. \A n \in B : n # x => par[n] \in B BY BelowUp
<1>3. NULL \notin Items BY Basics
<1>4. \A n \in Items : g[n] = IF n \in B THEN Free ELSE h[n] BY DEF Freed
<1> HIDE DEF B, g, own
<1>5. \A n \in Items : n \in B => ~IsList(g, n) BY <1>4 DEF Free, IsList, Containers
<1>6. ASSUME NEW q \in Items, q \notin B, IsList(h, q)
      PROVE  IsList(g, q) /\ Kids(g, q) = Kids(h, q)
  <2>1. IsList(g, q) /\ g[q].child = h[q].child BY <1>4, <1>6 DEF IsList
  <2>2. NextSame(h, par, g, q) BY <1>2, <1>3, <1>4, <1>6 DEF NextSame
  <2> QED BY <1>1, <1>6, <2>1, <2>2, KidsSame
<1>7. ASSUME NEW q \in Items, q \notin B, ~IsList(h, q) PROVE ~IsList(g, q)
  BY <1>4, <1>7 DEF IsList
<1>8. \A q \in Items : ForestOf(g)[q] = IF q \in B THEN <<>> ELSE ForestOf(h)[q]
  BY <1>5, <1>6, <1>7 DEF ForestOf
<1>9. ForestOf(g) = [q \in Items |-> ForestOf(g)[q]] BY DEF ForestOf
<1> QED BY <1>8, <1>9 DEF B, g, Without

CopiedList(h, g, n) ==
  /\ n \in Live(h) => ForestOf(g)[n] = ForestOf(h)[n]
  /\ n \notin Live(h) => /\ ForestOf(h)[n] = <<>>
                         /\ ToSet(ForestOf(g)[n]) \intersect Live(h) = {}

(* The lists of the copies are of nodes that were free, and no other list  *)
(* changes.                                                                *)
LEMMA ForestCopied ==
  ASSUME NEW h, NEW par, Linkage(h, par), NEW x \in Items, h[x].kind # "FREE", IsTree(h, x),
         NEW f \in [Nest(h, x) -> Items \ Live(h)], Injective(f), NEW n \in Items
  PROVE  CopiedList(h, Copied(h, f, x), n)
<1> DEFINE g == Copied(h, f, x)
<1>1. PICK own :
        /\ Linkage(g, own)
        /\ f[x] \in Items /\ own[f[x]] = NULL /\ g[f[x]].kind # "FREE"
        /\ \A m \in Items : IF h[m].kind # "FREE" THEN own[m] = par[m] /\ g[m] = h[m]
                            ELSE g[m].kind # "FREE" /\ own[m] = NULL => m = f[x]
        /\ Grounded(par) => Grounded(own)
  BY CopiedLinks
<1>2. NULL \notin Items BY Basics
<1> HIDE DEF g
<1>3. \A m \in Items : par[m] # NULL => h[m].kind # "FREE" /\ h[par[m]].kind \in Containers
  BY DEF Linkage, MemberOK, IsList
<1>4. ASSUME n \in Live(h)
      PROVE  ForestOf(g)[n] = ForestOf(h)[n]
  <2>1. g[n] = h[n] BY <1>1, <1>4 DEF Live
  <2>2. NextSame(h, par, g, n) BY <1>1, <1>2, <1>3 DEF NextSame
  <2>3. CASE IsList(h, n)
    <3>1. IsList(g, n) /\ g[n].child = h[n].child BY <2>1, <2>3 DEF IsList
    <3>2. Kids(g, n) = Kids(h, n) BY <1>1, <2>2, <2>3, <3>1, KidsSame
    <3> QED BY <2>3, <3>1, <3>2 DEF ForestOf
  <2>4. CASE ~IsList(h, n)
    <3>1. ~IsList(g, n) BY <2>1, <2>4 DEF IsList
    <3> QED BY <2>4, <3>1 DEF ForestOf
  <2> QED BY <2>3, <2>4
<1>5. ASSUME n \notin Live(h)
      PROVE  ForestOf(h)[n] = <<>> /\ ToSet(ForestOf(g)[n]) \intersect Live(h) = {}
  <2>1. h[n].kind = "FREE" BY <1>5 DEF Live
  <2>2. ForestOf(h)[n] = <<>> BY <2>1 DEF ForestOf, IsList, Containers
  <2>3. ToSet(ForestOf(g)[n]) = {m \in Items : own[m] = n} BY <1>1, ForestMembers
  <2>4. \A m \in Live(h) : own[m] = par[m] /\ m \in Items BY <1>1 DEF Live
  <2>5. \A m \in Live(h) : par[m] # n BY <1>2, <1>3, <2>1, <2>4 DEF Containers
  <2> QED BY <2>2, <2>3, <2>4, <2>5
<1> QED BY <1>4, <1>5 DEF g, CopiedList

(* What is below x in the lists k, by the sets that have it with each of   *)
(* their members' lists.                                                   *)
ListsWithin(k, S) == \A m \in S : ToSet(k[m]) \subseteq S
BelowIn(k, x) == {n \in Items : \A S \in SUBSET Items : x \in S /\ ListsWithin(k, S) => n \in S}

(* What is below a node in the lists is what is below it in the heap, when *)
(* nothing follows it: so cJSON_Delete releases a tree.                    *)
LEMMA BelowForest ==
  ASSUME NEW h, NEW par, Linkage(h, par), Grounded(par), NEW x \in Items,
         NEW g \in Heaps, g[x].next = NULL, SameBut(h, g, par[x]), Elsewhere(h, par, g, par[x])
  PROVE  BelowIn(ForestOf(h), x) = Below(g, x) /\ par[x] \notin BelowIn(ForestOf(h), x)
<1> DEFINE F == ForestOf(h)
           D == BelowIn(F, x)
           B == Below(g, x)
           a == par[x]
<1>1. h \in Heaps /\ par \in Parents /\ NULL \notin Items /\ a \in Nodes BY Basics DEF Linkage
<1>2. \A m \in Items : ToSet(F[m]) = {n \in Items : par[n] = m} BY ForestMembers
<1> HIDE DEF F
<1>3. D \in SUBSET Items /\ x \in D BY DEF BelowIn
<1>4. \A n \in Items : par[n] \in D => n \in D
  <2> SUFFICES ASSUME NEW n \in Items, par[n] \in D, NEW S \in SUBSET Items, x \in S,
                      ListsWithin(F, S)
               PROVE  n \in S
    BY DEF BelowIn
  <2>1. par[n] \in S /\ par[n] \in Items BY DEF BelowIn
  <2> QED BY <1>2, <2>1 DEF ListsWithin
<1>5. \A S \in SUBSET Items : x \in S /\ (\A n \in Items : par[n] \in S => n \in S) => D \subseteq S
  <2> SUFFICES ASSUME NEW S \in SUBSET Items, x \in S, \A n \in Items : par[n] \in S => n \in S
               PROVE  D \subseteq S
    OBVIOUS
  <2>1. ListsWithin(F, S) BY <1>2 DEF ListsWithin
  <2> QED BY <2>1 DEF BelowIn
<1> HIDE DEF D
<1>6. \A n \in D : n # x => par[n] \in D
  <2> DEFINE S == {n \in D : n # x => par[n] \in D}
  <2>1. S \in SUBSET Items /\ x \in S BY <1>3
  <2>2. \A n \in Items : par[n] \in S => n \in S BY <1>4
  <2> HIDE DEF S
  <2>3. D \subseteq S BY <1>5, <2>1, <2>2
  <2> QED BY <2>3 DEF S
<1>7. a \notin D
  <2> SUFFICES ASSUME a \in D PROVE FALSE OBVIOUS
  <2>1. \A n \in D : par[n] \in D BY <1>6
  <2> QED BY <1>3, <2>1 DEF Grounded
<1> HIDE DEF a
<1>8. \A n \in D : /\ n # a /\ n \in Items /\ g[n].child = h[n].child
                   /\ g[n].ref = h[n].ref
  BY <1>3, <1>7 DEF SameBut, a
<1>9. \A n \in D : n # x => par[n] # NULL /\ par[n] # a /\ g[n].next = h[n].next
  BY <1>1, <1>3, <1>6, <1>7 DEF Elsewhere, a
<1>10. B \subseteq D
  <2>1. ASSUME NEW n \in D PROVE Links(g, n, FALSE) \ {NULL} \subseteq D
    <3>1. n \in Items BY <1>3
    <3>2. g[n].next # NULL => g[n].next \in D
      <4> SUFFICES ASSUME g[n].next # NULL PROVE g[n].next \in D OBVIOUS
      <4>1. n # x /\ par[n] # NULL /\ g[n].next = h[n].next BY <1>9
      <4>2. par[h[n].next] = par[n] BY <3>1, <4>1 DEF Linkage, MemberOK
      <4>3. h[n].next \in Items BY <1>1, <3>1, <4>1, Basics
      <4> QED BY <1>4, <1>6, <4>1, <4>2, <4>3
    <3>3. ~g[n].ref /\ g[n].child # NULL => g[n].child \in D
      <4> SUFFICES ASSUME ~g[n].ref, g[n].child # NULL PROVE g[n].child \in D OBVIOUS
      <4>1. ~h[n].ref /\ h[n].child # NULL /\ g[n].child = h[n].child BY <1>8
      <4>2. ChildOK(h, par, n) BY <3>1 DEF Linkage
      <4>3. par[h[n].child] = n BY <4>1, <4>2 DEF ChildOK, IsList
      <4>4. h[n].child \in Items BY <1>1, <3>1, <4>1, Basics
      <4> QED BY <1>4, <4>1, <4>3, <4>4
    <3> QED BY <3>2, <3>3 DEF Links
  <2>2. {x} \in SUBSET Items /\ {x} \subseteq D BY <1>3
  <2>3. FALSE \in BOOLEAN OBVIOUS
  <2> QED BY <1>3, <2>1, <2>2, <2>3, ReachLeast DEF Below
<1>11. /\ B \in SUBSET Items /\ x \in B
       /\ \A n \in B : Links(g, n, FALSE) \ {NULL} \subseteq B
  <2>1. {x} \in SUBSET Items /\ FALSE \in BOOLEAN OBVIOUS
  <2> QED BY <2>1, ReachClosed DEF Below
<1> HIDE DEF B
<1>12. D \subseteq B
  <2> SUFFICES ASSUME NEW m \in B, NEW n \in Items, par[n] = m
               PROVE  n \in B
    BY <1>5, <1>11
  <2>1. m \in D /\ m \in Items /\ m # NULL BY <1>1, <1>10, <1>11
  <2>2. IsList(h, m) BY <1>1, <2>1 DEF Linkage, MemberOK
  <2> DEFINE C == {k \in Items : par[k] # m \/ k \in B}
  <2>3. C \in SUBSET Items OBVIOUS
  <2>4. h[m].child # NULL => h[m].child \in C
    <3> SUFFICES ASSUME h[m].child # NULL PROVE h[m].child \in C OBVIOUS
    <3>1. g[m].child = h[m].child /\ ~g[m].ref BY <1>8, <2>1, <2>2 DEF IsList
    <3>2. g[m].child \in B BY <1>11, <3>1 DEF Links
    <3> QED BY <1>11, <3>1, <3>2
  <2>5. ASSUME NEW k \in C, h[k].next # NULL PROVE h[k].next \in C
    <3>1. k \in Items /\ par[k] # NULL BY <2>5 DEF Linkage
    <3>2. par[h[k].next] = par[k] BY <2>5, <3>1 DEF Linkage, MemberOK
    <3>3. h[k].next \in Items BY <1>1, <2>5, <3>1, Basics
    <3>4. CASE par[k] # m BY <3>2, <3>3, <3>4
    <3>5. CASE par[k] = m
      <4>1. k \in B BY <3>5
      <4>2. k # x BY <1>7, <2>1, <3>5 DEF a
      <4>3. g[k].next = h[k].next BY <1>9, <1>10, <4>1, <4>2
      <4>4. g[k].next \in B BY <1>11, <2>5, <4>1, <4>3 DEF Links
      <4> QED BY <3>3, <4>3, <4>4
    <3> QED BY <3>4, <3>5
  <2> HIDE DEF C
  <2>6. \A k \in C : h[k].next # NULL => h[k].next \in C BY <2>5
  <2>7. \A k \in Items : par[k] = m => k \in C BY <2>1, <2>2, <2>3, <2>4, <2>6, WholeList
  <2> QED BY <2>7 DEF C
<1> QED BY <1>7, <1>10, <1>12 DEF B, D, F, a

-----------------------------------------------------------------------------
(* The invariant: there are parents that the links agree with; of what is  *)
(* in use, just what the caller holds or has lost is in no list; what is   *)
(* lost has no list, and parents stand in no circle.                       *)

Held(h, par, R, L) ==
  /\ R \subseteq Items /\ L \subseteq Items /\ R \intersect L = {}
  /\ \A n \in Items : n \in R \union L <=> h[n].kind # "FREE" /\ par[n] = NULL
  /\ \A y \in L : ~IsList(h, y)
  /\ Grounded(par)

Sound(h, R, L) == \E par : Linkage(h, par) /\ Held(h, par, R, L)

Inv == Sound(heap, roots, lost)

(* What is sound is a heap, and shows in the members of its lists.         *)
LEMMA SoundHeap ==
  ASSUME NEW h, NEW R, NEW L, Sound(h, R, L)
  PROVE  h \in Heaps /\ R \subseteq Items /\ L \subseteq Items /\ R \intersect L = {}
BY DEF Sound, Linkage, Held

(* A node the caller holds is added to a list that is not below it.        *)
LEMMA SoundAdded ==
  ASSUME NEW h, NEW R, NEW L, Sound(h, R, L), NEW a \in Items, IsList(h, a),
         NEW i \in R, a \notin Below(h, i)
  PROVE  /\ Sound(add_item_to_array(h, a, i), R \ {i}, L)
         /\ ForestOf(add_item_to_array(h, a, i)) = Appended(ForestOf(h), a, i)
<1>1. PICK par : Linkage(h, par) /\ Held(h, par, R, L) BY DEF Sound
<1> DEFINE g == add_item_to_array(h, a, i)
           own == [par EXCEPT ![i] = a]
<1>2. i \in Items /\ par[i] = NULL /\ h[i].kind # "FREE" /\ par \in Parents
  BY <1>1 DEF Held, Linkage
<1>3. i \in Below(h, i) /\ \A n \in Items : par[n] \in Below(h, i) => n \in Below(h, i)
  BY <1>1, <1>2, BelowOf
<1>4. Linkage(g, own) /\ SameBut(h, g, a) BY <1>1, <1>2, <1>3, AddedLinks
<1>9. ForestOf(g) = Appended(ForestOf(h), a, i) BY <1>1, <1>2, <1>3, ForestAdded
<1> HIDE DEF g
<1>5. own[i] = a /\ \A n \in Items \ {i} : own[n] = par[n] BY <1>2 DEF Parents
<1> HIDE DEF own
<1>6. Grounded(own) BY <1>1, <1>3, <1>5, GroundedMore DEF Held
<1>7. a # NULL BY Basics
<1>8. Held(g, own, R \ {i}, L)
  BY <1>1, <1>2, <1>4, <1>5, <1>6, <1>7 DEF Held, SameBut, IsList
<1> QED BY <1>4, <1>8, <1>9 DEF Sound, g

(* A node the caller holds is put before one of a list.                    *)
LEMMA SoundInserted ==
  ASSUME NEW h, NEW R, NEW L, Sound(h, R, L), NEW a \in Items, IsList(h, a),
         NEW b \in Members(h, a), NEW i \in R, a \notin Below(h, i)
  PROVE  /\ Sound(Inserted(h, a, b, i), R \ {i}, L)
         /\ \E p \in 1 .. Len(Kids(h, a)) :
              ForestOf(Inserted(h, a, b, i)) = InsertedAt(ForestOf(h), a, p, i)
<1>1. PICK par : Linkage(h, par) /\ Held(h, par, R, L) BY DEF Sound
<1> DEFINE g == Inserted(h, a, b, i)
           own == [par EXCEPT ![i] = a]
<1>2. i \in Items /\ par[i] = NULL /\ h[i].kind # "FREE" /\ par \in Parents
  BY <1>1 DEF Held, Linkage
<1>3. i \in Below(h, i) /\ \A n \in Items : par[n] \in Below(h, i) => n \in Below(h, i)
  BY <1>1, <1>2, BelowOf
<1>4. b \in Items /\ par[b] = a BY <1>1, ListOf
<1>5. Linkage(g, own) /\ SameBut(h, g, a) BY <1>1, <1>2, <1>3, <1>4, InsertedLinks
<1>10. PICK p \in 1 .. Len(Kids(h, a)) : b = Kids(h, a)[p] BY <1>1, MemberAt
<1>11. ForestOf(g) = InsertedAt(ForestOf(h), a, p, i)
  <2>1. i # a BY <1>3
  <2> HIDE DEF g
  <2> QED BY <1>1, <1>2, <1>10, <2>1, ForestInserted DEF g
<1> HIDE DEF g
<1>6. own[i] = a /\ \A n \in Items \ {i} : own[n] = par[n] BY <1>2 DEF Parents
<1> HIDE DEF own
<1>7. Grounded(own) BY <1>1, <1>3, <1>6, GroundedMore DEF Held
<1>8. a # NULL BY Basics
<1>9. Held(g, own, R \ {i}, L)
  BY <1>1, <1>2, <1>5, <1>6, <1>7, <1>8 DEF Held, SameBut, IsList
<1> QED BY <1>5, <1>9, <1>11 DEF Sound, g

(* A node of a list gets to the caller.                                    *)
LEMMA SoundDetached ==
  ASSUME NEW h, NEW R, NEW L, Sound(h, R, L), NEW p \in Items, IsList(h, p),
         NEW x \in Members(h, p)
  PROVE  /\ Sound(Detached(h, p, x), R \union {x}, L) /\ SameBut(h, Detached(h, p, x), p)
         /\ x \in Items /\ x \notin R
         /\ Below(Detached(h, p, x), x) = BelowIn(ForestOf(h), x)
         /\ \E k \in 1 .. Len(Kids(h, p)) :
              x = Kids(h, p)[k] /\ ForestOf(Detached(h, p, x)) = RemovedAt(ForestOf(h), p, k)
<1>1. PICK par : Linkage(h, par) /\ Held(h, par, R, L) BY DEF Sound
<1> DEFINE g == Detached(h, p, x)
           own == [par EXCEPT ![x] = NULL]
<1>2. x \in Items /\ par[x] = p /\ par \in Parents /\ p # NULL
  BY <1>1, Basics, ListOf DEF Linkage
<1>3. Linkage(g, own) /\ SameBut(h, g, p) BY <1>1, <1>2, DetachedLinks
<1>10. PICK k \in 1 .. Len(Kids(h, p)) : x = Kids(h, p)[k] BY <1>1, MemberAt
<1>11. ForestOf(g) = RemovedAt(ForestOf(h), p, k) /\ Elsewhere(h, par, g, p)
  <2> HIDE DEF g
  <2> QED BY <1>1, <1>10, ForestDetached DEF g
<1> HIDE DEF g
<1>4. h[x].kind # "FREE" BY <1>1, <1>2 DEF Linkage, MemberOK
<1>5. x \notin R \union L BY <1>1, <1>2 DEF Held
<1>6. own[x] = NULL /\ \A n \in Items : n # x => own[n] = par[n] BY <1>2 DEF Parents
<1> HIDE DEF own
<1>7. Grounded(own) BY <1>1, <1>6, GroundedLess DEF Held
<1>8. Held(g, own, R \union {x}, L)
  BY <1>1, <1>2, <1>3, <1>4, <1>5, <1>6, <1>7 DEF Held, SameBut, IsList
<1>9. Sound(g, R \union {x}, L) BY <1>3, <1>8 DEF Sound
<1>12. Below(g, x) = BelowIn(ForestOf(h), x)
  <2>1. g \in Heaps /\ g[x].next = NULL BY <1>2, <1>3, <1>6 DEF Linkage
  <2>2. Grounded(par) BY <1>1 DEF Held
  <2>3. SameBut(h, g, par[x]) /\ Elsewhere(h, par, g, par[x]) BY <1>2, <1>3, <1>11
  <2> QED BY <1>1, <1>2, <2>1, <2>2, <2>3, BelowForest
<1> QED BY <1>2, <1>3, <1>5, <1>9, <1>10, <1>11, <1>12 DEF g

(* A node of a list and one that the caller holds change places.           *)
LEMMA SoundReplaced ==
  ASSUME NEW h, NEW R, NEW L, Sound(h, R, L), NEW p \in Items, IsList(h, p),
         NEW x \in Members(h, p), NEW r \in R, p \notin Below(h, r)
  PROVE  /\ Sound(Replaced(h, p, x, r), (R \ {r}) \union {x}, L)
         /\ SameBut(h, Replaced(h, p, x, r), p)
         /\ x \in Items /\ x \notin R
         /\ Below(Replaced(h, p, x, r), x) = BelowIn(ForestOf(h), x)
         /\ \E k \in 1 .. Len(Kids(h, p)) :
              /\ x = Kids(h, p)[k]
              /\ ForestOf(Replaced(h, p, x, r)) = ReplacedAt(ForestOf(h), p, k, r)
<1>1. PICK par : Linkage(h, par) /\ Held(h, par, R, L) BY DEF Sound
<1> DEFINE g == Replaced(h, p, x, r)
           own == [[par EXCEPT ![x] = NULL] EXCEPT ![r] = p]
<1>2. x \in Items /\ par[x] = p /\ par \in Parents /\ p # NULL
  BY <1>1, Basics, ListOf DEF Linkage
<1>3. r \in Items /\ par[r] = NULL /\ h[r].kind # "FREE" /\ r # x BY <1>1, <1>2 DEF Held
<1>4. r \in Below(h, r) /\ \A n \in Items : par[n] \in Below(h, r) => n \in Below(h, r)
  BY <1>1, <1>3, BelowOf
<1>5. Linkage(g, own) /\ SameBut(h, g, p) BY <1>1, <1>2, <1>3, <1>4, ReplacedLinks
<1>12. PICK k \in 1 .. Len(Kids(h, p)) : x = Kids(h, p)[k] BY <1>1, MemberAt
<1>13. ForestOf(g) = ReplacedAt(ForestOf(h), p, k, r) /\ Elsewhere(h, par, g, p)
  <2>1. r # p BY <1>4
  <2> HIDE DEF g
  <2> QED BY <1>1, <1>3, <1>12, <2>1, ForestReplaced DEF g
<1> HIDE DEF g
<1>6. h[x].kind # "FREE" BY <1>1, <1>2 DEF Linkage, MemberOK
<1>7. x \notin R \union L BY <1>1, <1>2 DEF Held
<1>8. \A n \in Items : own[n] = IF n = r THEN p ELSE IF n = x THEN NULL ELSE par[n]
  BY <1>2, <1>3 DEF Parents
<1> HIDE DEF own
<1>9. Grounded(own)
  <2>1. own[r] = p /\ \A n \in Items \ {r} : own[n] \in {par[n], NULL} BY <1>3, <1>8
  <2> QED BY <1>1, <1>4, <2>1, GroundedMore DEF Held
<1>10. Held(g, own, (R \ {r}) \union {x}, L)
  BY <1>1, <1>2, <1>3, <1>5, <1>6, <1>7, <1>8, <1>9 DEF Held, SameBut, IsList
<1>11. Sound(g, (R \ {r}) \union {x}, L) BY <1>5, <1>10 DEF Sound
<1>14. Below(g, x) = BelowIn(ForestOf(h), x)
  <2>1. g \in Heaps /\ g[x].next = NULL BY <1>2, <1>3, <1>5, <1>8 DEF Linkage
  <2>2. Grounded(par) BY <1>1 DEF Held
  <2>3. SameBut(h, g, par[x]) /\ Elsewhere(h, par, g, par[x]) BY <1>2, <1>5, <1>13
  <2> QED BY <1>1, <1>2, <2>1, <2>2, <2>3, BelowForest
<1> QED BY <1>2, <1>5, <1>7, <1>11, <1>12, <1>13, <1>14 DEF g

(* Names, and all that is not a link, may change.                          *)
LEMMA SoundSame ==
  ASSUME NEW h, NEW R, NEW L, Sound(h, R, L), NEW g \in Heaps,
         \A n \in Items : /\ g[n].kind = h[n].kind /\ g[n].ref = h[n].ref
                          /\ g[n].next = h[n].next /\ g[n].prev = h[n].prev
                          /\ g[n].child = h[n].child
  PROVE  Sound(g, R, L) /\ ForestOf(g) = ForestOf(h)
<1>1. PICK par : Linkage(h, par) /\ Held(h, par, R, L) BY DEF Sound
<1>2. Linkage(g, par) BY <1>1, SameLinks
<1>3. Held(g, par, R, L) BY <1>1 DEF Held, IsList
<1>4. ForestOf(g) = ForestOf(h) BY <1>1, <1>2, ForestSame
<1> QED BY <1>2, <1>3, <1>4 DEF Sound

(* A node that was free is the caller's, or is lost.                       *)
LEMMA SoundFresh ==
  ASSUME NEW h, NEW R, NEW L, Sound(h, R, L), NEW n \in Items, h[n].kind = "FREE",
         NEW g \in Heaps, \A m \in Items : m # n => g[m] = h[m],
         g[n].next = NULL, g[n].kind # "FREE", g[n].child \in Items => h[g[n].child].kind # "FREE",
         IsList(g, n) \/ g[n].kind \notin Containers => g[n].child = NULL
  PROVE  /\ Sound(g, R \union {n}, L)
         /\ ~IsList(g, n) => Sound(g, R, L \union {n})
         /\ n \notin R /\ ForestOf(g) = ForestOf(h)
<1>1. PICK par : Linkage(h, par) /\ Held(h, par, R, L) BY DEF Sound
<1>2. Linkage(g, par) /\ par[n] = NULL /\ ForestOf(g) = ForestOf(h) BY <1>1, ForestFresh
<1>3. n \notin R /\ n \notin L BY <1>1 DEF Held
<1>4. \A y \in L : ~IsList(g, y) BY <1>1, <1>3 DEF Held, IsList
<1>5. /\ Held(g, par, R \union {n}, L)
      /\ ~IsList(g, n) => Held(g, par, R, L \union {n})
  BY <1>1, <1>2, <1>3, <1>4 DEF Held
<1> QED BY <1>2, <1>3, <1>5 DEF Sound

(* A node that the caller holds is freed, with all that is below it.       *)
LEMMA SoundFreed ==
  ASSUME NEW h, NEW R, NEW L, Sound(h, R, L), NEW x \in R,
         \A r \in Items \ Below(h, x) :
           h[r].kind # "FREE" /\ h[r].ref => h[r].child \notin Below(h, x)
  PROVE  /\ Sound(Freed(h, x), R \ {x}, L)
         /\ ForestOf(Freed(h, x)) = Without(ForestOf(h), Below(h, x))
<1>1. PICK par : Linkage(h, par) /\ Held(h, par, R, L) BY DEF Sound
<1> DEFINE B == Below(h, x)
           g == Freed(h, x)
           own == [n \in Items |-> IF n \in B THEN NULL ELSE par[n]]
<1>2. x \in Items /\ par[x] = NULL /\ B \in SUBSET Items BY <1>1, BelowOf DEF Held
<1>3. Linkage(g, own) /\ x \in B /\ \A n \in B : n # x => par[n] # NULL
  BY <1>1, <1>2, FreedLinks
<1>8. ForestOf(g) = Without(ForestOf(h), B) BY <1>1, <1>2, ForestFreed
<1>4. /\ \A n \in Items \ B : g[n] = h[n] /\ own[n] = par[n]
      /\ \A n \in B : g[n].kind = "FREE" /\ own[n] = NULL
  BY <1>2 DEF Freed, Free
<1> HIDE DEF B, g, own
<1>5. \A y \in (R \ {x}) \union L : y \in Items /\ y \notin B BY <1>1, <1>3 DEF Held
<1>6. Grounded(own)
  <2>1. \A n \in Items : own[n] \in {par[n], NULL} BY <1>4
  <2> QED BY <1>1, <2>1, GroundedLess DEF Held
<1>7. Held(g, own, R \ {x}, L) BY <1>1, <1>3, <1>4, <1>5, <1>6 DEF Held, IsList
<1> QED BY <1>3, <1>7, <1>8 DEF Sound, g, B

(* A tree is copied: the copy of its first node is the caller's.           *)
LEMMA SoundCopied ==
  ASSUME NEW h, NEW R, NEW L, Sound(h, R, L), NEW x \in Items, h[x].kind # "FREE", IsTree(h, x),
         NEW f \in [Nest(h, x) -> Items \ Live(h)], Injective(f)
  PROVE  /\ Sound(Copied(h, f, x), R \union {f[x]}, L)
         /\ \A n \in Items : CopiedList(h, Copied(h, f, x), n)
<1>1. PICK par : Linkage(h, par) /\ Held(h, par, R, L) BY DEF Sound
<1> DEFINE g == Copied(h, f, x)
<1>2. PICK own :
        /\ Linkage(g, own)
        /\ f[x] \in Items /\ own[f[x]] = NULL /\ g[f[x]].kind # "FREE"
        /\ \A n \in Items : IF h[n].kind # "FREE" THEN own[n] = par[n] /\ g[n] = h[n]
                            ELSE g[n].kind # "FREE" /\ own[n] = NULL => n = f[x]
        /\ Grounded(par) => Grounded(own)
  BY <1>1, CopiedLinks
<1> HIDE DEF g
<1>3. h[f[x]].kind = "FREE" BY DEF Nest, Live
<1>4. f[x] \notin L BY <1>1, <1>2, <1>3 DEF Held
<1>5. \A y \in L : g[y] = h[y] BY <1>1, <1>2 DEF Held
<1>6. \A n \in Items : n \in R \union {f[x]} \union L <=> g[n].kind # "FREE" /\ own[n] = NULL
  BY <1>1, <1>2 DEF Held
<1>7. Held(g, own, R \union {f[x]}, L) BY <1>1, <1>2, <1>4, <1>5, <1>6 DEF Held, IsList
<1>8. \A n \in Items : CopiedList(h, g, n) BY <1>1, ForestCopied DEF g
<1> QED BY <1>2, <1>7, <1>8 DEF Sound, g

(* What is below a node the caller holds, in the lists.                    *)
LEMMA SoundBelow ==
  ASSUME NEW h, NEW R, NEW L, Sound(h, R, L), NEW x \in R
  PROVE  Below(h, x) = BelowIn(ForestOf(h), x) /\ x \in Items
<1>1. PICK par : Linkage(h, par) /\ Held(h, par, R, L) BY DEF Sound
<1>2. x \in Items /\ par[x] = NULL /\ Grounded(par) /\ h \in Heaps BY <1>1 DEF Held, Linkage
<1>3. h[x].next = NULL BY <1>1, <1>2 DEF Linkage
<1>4. SameBut(h, h, par[x]) /\ Elsewhere(h, par, h, par[x]) BY DEF SameBut, Elsewhere
<1> QED BY <1>1, <1>2, <1>3, <1>4, BelowForest

-----------------------------------------------------------------------------
(* The calls                                                               *)

(* Where nobody refers into what is freed, no reference is left with a     *)
(* child that was.                                                         *)
LEMMA NoReferenceLeft ==
  ASSUME NEW h, NEW S \in SUBSET Items, heap \in Heaps, MayDelete(S),
         \A n \in Items : /\ h[n].kind = heap[n].kind /\ h[n].ref = heap[n].ref
                          /\ heap[n].ref => h[n].child = heap[n].child
  PROVE  \A r \in Items \ S : h[r].kind # "FREE" /\ h[r].ref => h[r].child \notin S
<1> SUFFICES ASSUME NEW r \in Items \ S, h[r].kind # "FREE", h[r].ref, h[r].child \in S
             PROVE  FALSE
  OBVIOUS
<1>1. r \in Live(heap) \ S /\ heap[r].ref /\ h[r].child = heap[r].child BY DEF Live
<1>2. Reach(heap, {heap[r].child} \ {NULL}, TRUE) \intersect S = {} BY <1>1 DEF MayDelete
<1>3. heap[r].child \in Items /\ heap[r].child # NULL BY <1>1, Basics
<1>4. {heap[r].child} \ {NULL} \subseteq Reach(heap, {heap[r].child} \ {NULL}, TRUE)
  BY <1>3, ReachClosed
<1> QED BY <1>1, <1>2, <1>3, <1>4

(* A name leads to a member, or to none.                                   *)
LEMMA NamedMember ==
  ASSUME NEW h, NEW R, NEW L, Sound(h, R, L), NEW p \in Items, IsList(h, p), NEW key
  PROVE  Named(h, p, key) # NULL => Named(h, p, key) \in Members(h, p)
<1> DEFINE kids == Kids(h, p)
           hits == {k \in DOMAIN kids : h[kids[k]].string = key}
<1>1. PICK par : Linkage(h, par) /\ Held(h, par, R, L) BY DEF Sound
<1>2. CASE hits = {} BY <1>2 DEF Named
<1>3. CASE hits # {}
  <2>1. h[p].child # NULL BY <1>3 DEF Kids
  <2>2. h[p].child \in Items BY <1>1, <2>1, Basics DEF Linkage
  <2>3. kids = List(h, h[p].child) BY <2>1 DEF Kids
  <2>4. kids \in Seq(Items) BY <1>1, <2>2, <2>3, ChainFrom DEF Chain
  <2> HIDE DEF kids
  <2>5. hits \in SUBSET Nat BY <2>4
  <2> HIDE DEF hits
  <2>6. \E k \in hits : \A j \in hits : k <= j BY <1>3, <2>5, LeastOf
  <2> DEFINE first == CHOOSE k \in hits : \A j \in hits : k <= j
  <2>7. first \in hits BY <2>6
  <2>8. Named(h, p, key) = kids[first] BY <1>3 DEF Named, hits, kids
  <2> HIDE DEF first
  <2>9. first \in DOMAIN kids BY <2>7 DEF hits
  <2> QED BY <2>8, <2>9 DEF Members, kids
<1> QED BY <1>2, <1>3

(* What a call can name in an array or object is a member of it.           *)
LEMMA NamesMembers ==
  ASSUME Inv, NEW p \in Owners
  PROVE  p \in Items /\ IsList(heap, p) /\ CanName(p) \subseteq Members(heap, p)
<1>1. p \in Items /\ IsList(heap, p) BY DEF Owners, IsOwner, IsList
<1>2. \A key \in Keys :
        Named(heap, p, key) # NULL => Named(heap, p, key) \in Members(heap, p)
  BY <1>1, NamedMember DEF Inv
<1>3. CanName(p) \subseteq Members(heap, p)
  <2> HIDE DEF Inv
  <2>1. CASE heap[p].kind = "Array" BY <2>1 DEF CanName
  <2>2. CASE heap[p].kind # "Array"
    <3>1. CanName(p) = {Named(heap, p, key) : key \in Keys} \ {NULL} BY <2>2 DEF CanName
    <3> QED BY <1>2, <3>1
  <2> QED BY <2>1, <2>2
<1> QED BY <1>1, <1>3

(* A new key is no change of the links.                                    *)
LEMMA KeySet ==
  ASSUME NEW h, NEW R, NEW L, Sound(h, R, L), NEW i \in Items, NEW key \in Keys \union {NULL},
         NEW const \in BOOLEAN
  PROVE  /\ Sound(WithKey(h, i, key, const), R, L)
         /\ \A n \in Items : /\ WithKey(h, i, key, const)[n].kind = h[n].kind
                             /\ WithKey(h, i, key, const)[n].ref = h[n].ref
                             /\ WithKey(h, i, key, const)[n].child = h[n].child
                             /\ Below(WithKey(h, i, key, const), n) = Below(h, n)
         /\ ForestOf(WithKey(h, i, key, const)) = ForestOf(h)
<1> DEFINE g == WithKey(h, i, key, const)
<1>1. h \in Heaps BY SoundHeap
<1>2. g = [h EXCEPT ![i] = [h[i] EXCEPT !.string = key, !.const = const]] BY DEF WithKey
<1>3. [h[i] EXCEPT !.string = key, !.const = const] \in Struct BY <1>1 DEF Heaps, Struct
<1>4. g \in Heaps BY <1>1, <1>2, <1>3 DEF Heaps
<1>5. \A n \in Items : /\ g[n].kind = h[n].kind /\ g[n].ref = h[n].ref
                       /\ g[n].next = h[n].next /\ g[n].prev = h[n].prev
                       /\ g[n].child = h[n].child
  BY <1>1, <1>2 DEF Heaps, Struct
<1> HIDE DEF g
<1>6. Sound(g, R, L) /\ ForestOf(g) = ForestOf(h) BY <1>4, <1>5, SoundSame
<1>7. ASSUME NEW n \in Items PROVE Below(g, n) = Below(h, n)
  <2>1. {n} \in SUBSET Items /\ FALSE \in BOOLEAN OBVIOUS
  <2> QED BY <1>1, <1>4, <1>5, <2>1, SameReach DEF Below
<1> QED BY <1>5, <1>6, <1>7 DEF g

(* A fresh node for the caller leaves the lists as they are.               *)
LEMMA FreshSound ==
  ASSUME Inv, NEW n \in Unused, NEW g \in Heaps, \A m \in Items : m # n => g[m] = heap[m],
         g[n].next = NULL, g[n].kind # "FREE",
         g[n].child \in Items => heap[g[n].child].kind # "FREE",
         IsList(g, n) \/ g[n].kind \notin Containers => g[n].child = NULL
  PROVE  /\ Sound(g, roots \union {n}, lost)
         /\ ~IsList(g, n) => Sound(g, roots, lost \union {n})
         /\ n \in Items /\ n \notin roots /\ ForestOf(g) = ForestOf(heap)
         /\ \A p \in Owners : p \in Items /\ p \notin Below(g, n) /\ IsList(g, p)
<1>1. n \in Items /\ heap[n].kind = "FREE" BY DEF Unused, Live
<1>2. \A p \in Owners : p \in Items /\ p # n /\ IsList(g, p)
  BY <1>1 DEF Owners, IsOwner, IsList, Containers
<1>3. /\ Sound(g, roots \union {n}, lost)
      /\ ~IsList(g, n) => Sound(g, roots, lost \union {n})
      /\ n \notin roots /\ ForestOf(g) = ForestOf(heap)
  BY <1>1, SoundFresh DEF Inv
<1>4. g[n].ref \/ g[n].child = NULL BY <1>1 DEF IsList
<1>5. Below(g, n) = {n} BY <1>1, <1>4, NothingBelow
<1> QED BY <1>1, <1>2, <1>3, <1>5

(* A new item.                                                             *)
LEMMA NewItem ==
  ASSUME Inv, NEW n \in Unused, NEW kind \in Containers \union Leaves
  PROVE  /\ Sound(New_Item(n, kind), roots \union {n}, lost)
         /\ n \in Items /\ n \notin roots /\ ForestOf(New_Item(n, kind)) = ForestOf(heap)
         /\ \A p \in Owners : /\ p \in Items /\ p \notin Below(New_Item(n, kind), n)
                               /\ IsList(New_Item(n, kind), p)
<1> DEFINE g == New_Item(n, kind)
<1>1. heap \in Heaps /\ n \in Items BY SoundHeap DEF Inv, Unused
<1> DEFINE m == [Zeroed EXCEPT !.kind = kind]
<1>2. /\ m \in Struct /\ m.kind = kind /\ m.next = NULL /\ m.child = NULL
      /\ kind \in {"Array", "Object", "Number", "String"}
  BY ItemsAssumption DEF Zeroed, Free, Struct, Nodes, Containers
<1> HIDE DEF m
<1>3. g = [heap EXCEPT ![n] = m] BY DEF New_Item, m
<1>4. g \in Heaps /\ g[n] = m /\ \A k \in Items : k # n => g[k] = heap[k]
  BY <1>1, <1>2, <1>3 DEF Heaps
<1>5. g[n].child \notin Items BY <1>2, <1>4, Basics
<1> HIDE DEF g, Inv
<1> QED BY <1>2, <1>4, <1>5, FreshSound DEF g

(* A new reference, to the items from c on.                                *)
LEMMA NewReference ==
  ASSUME Inv, NEW n \in Unused, NEW kind \in Containers, NEW c \in Live(heap)
  PROVE  LET g == [New_Item(n, kind) EXCEPT ![n].ref = TRUE, ![n].child = c]
         IN Sound(g, roots \union {n}, lost) /\ ForestOf(g) = ForestOf(heap)
<1> DEFINE g == [New_Item(n, kind) EXCEPT ![n].ref = TRUE, ![n].child = c]
<1>1. heap \in Heaps /\ n \in Items /\ c \in Items /\ heap[c].kind # "FREE" /\ c \in Nodes
  BY SoundHeap DEF Inv, Unused, Live, Nodes
<1> DEFINE z == [Zeroed EXCEPT !.kind = kind]
           m == [z EXCEPT !.ref = TRUE, !.child = c]
<1>2. z \in Struct BY DEF Zeroed, Free, Struct, Nodes, Containers
<1>3. z.kind = kind /\ z.next = NULL BY DEF Zeroed, Free
<1>4. /\ m \in Struct /\ m.kind = kind /\ m.next = NULL /\ m.child = c /\ m.ref = TRUE
      /\ kind \in {"Array", "Object"}
  <2> HIDE DEF z
  <2> QED BY <1>1, <1>2, <1>3 DEF Struct, Containers
<1>5. g = [heap EXCEPT ![n] = m]
  <2> DEFINE h == New_Item(n, kind)
  <2>1. h = [heap EXCEPT ![n] = z] BY DEF New_Item
  <2>2. h \in Heaps /\ h[n] = z BY <1>1, <1>2, <2>1 DEF Heaps
  <2>3. g = [h EXCEPT ![n] = [h[n] EXCEPT !.ref = TRUE, !.child = c]] OBVIOUS
  <2> HIDE DEF h, g
  <2>4. g = [h EXCEPT ![n] = m] BY <2>2, <2>3
  <2> HIDE DEF m, z
  <2> QED BY <1>1, <2>1, <2>4 DEF Heaps
<1> HIDE DEF m, g
<1>6. g \in Heaps /\ g[n] = m /\ \A k \in Items : k # n => g[k] = heap[k]
  BY <1>1, <1>4, <1>5 DEF Heaps
<1>7. ~IsList(g, n) /\ g[n].kind \in Containers BY <1>4, <1>6 DEF IsList
<1> HIDE DEF Inv
<1> QED BY <1>1, <1>4, <1>6, <1>7, FreshSound DEF g

(* A new reference to i.                                                   *)
LEMMA ReferenceTo ==
  ASSUME Inv, NEW r \in Unused, NEW i \in Live(heap)
  PROVE  LET g == Referring(heap, r, i)
         IN /\ Sound(g, roots \union {r}, lost) /\ Sound(g, roots, lost \union {r})
            /\ r \in Items /\ r \notin roots /\ ForestOf(g) = ForestOf(heap)
            /\ \A p \in Owners : p \in Items /\ p \notin Below(g, r) /\ IsList(g, p)
<1> DEFINE g == Referring(heap, r, i)
           m == [heap[i] EXCEPT !.string = NULL, !.ref = TRUE, !.next = NULL, !.prev = NULL,
                                !.of = i]
<1>1. heap \in Heaps /\ r \in Items /\ i \in Items /\ heap[i].kind # "FREE" /\ i \in Nodes
  BY SoundHeap DEF Inv, Unused, Live, Nodes
<1>2. heap[i] \in Struct /\ NULL \in Nodes BY <1>1 DEF Heaps, Nodes
<1>3. /\ m \in Struct /\ m.kind = heap[i].kind /\ m.next = NULL /\ m.child = heap[i].child
      /\ m.ref = TRUE
  BY <1>1, <1>2 DEF Struct
<1>4. g = [heap EXCEPT ![r] = m] BY DEF Referring
<1> HIDE DEF m, g
<1>5. g \in Heaps /\ g[r] = m /\ \A k \in Items : k # r => g[k] = heap[k]
  BY <1>1, <1>3, <1>4 DEF Heaps
<1>6. ~IsList(g, r) BY <1>3, <1>5 DEF IsList
<1>7. PICK par : Linkage(heap, par) BY DEF Inv, Sound
<1>8. ChildOK(heap, par, i) BY <1>1, <1>7 DEF Linkage
<1>9. g[r].child \in Items => heap[g[r].child].kind # "FREE"
  BY <1>3, <1>5, <1>8, Basics DEF ChildOK
<1>10. g[r].kind \notin Containers => g[r].child = NULL
  BY <1>3, <1>5, <1>8 DEF ChildOK
<1> HIDE DEF Inv
<1>11. g[r].next = NULL /\ g[r].kind # "FREE" BY <1>1, <1>3, <1>5
<1> QED BY <1>5, <1>6, <1>9, <1>10, <1>11, FreshSound DEF g

(* The calls that make an item or a reference keep the invariant.          *)
LEMMA CreationsKeep ==
  ASSUME Inv, NEW n \in Unused, Creations(n)
  PROVE  Inv'
<1> \A p \in Lists("Array") \union Lists("Object") : p \in Owners BY DEF Lists
<1> HIDE DEF Inv
<1>1. ASSUME NEW kind \in Containers \union Leaves, CreateItem(n, kind) PROVE Inv'
  BY <1>1, NewItem DEF CreateItem, Inv
<1>2. ASSUME NEW kind \in Containers, NEW c \in Live(heap), CreateReference(n, kind, c)
      PROVE  Inv'
  BY <1>2, NewReference DEF CreateReference, Inv
<1>3. ASSUME NEW o \in Owners, NEW key \in Keys, NEW kind \in Leaves,
             AddNewToObject(o, key, n, kind)
      PROVE  Inv'
  <2> DEFINE const == FALSE
             g == New_Item(n, kind)
             k == WithKey(g, n, key, const)
  <2> const \in BOOLEAN OBVIOUS
  <2> HIDE DEF const
  <2>1. /\ Sound(g, roots \union {n}, lost) /\ n \in Items /\ n \notin roots
        /\ o \in Items /\ o \notin Below(g, n) /\ IsList(g, o)
    BY NewItem
  <2> HIDE DEF g
  <2>2. /\ Sound(k, roots \union {n}, lost) /\ k[o].kind = g[o].kind /\ k[o].ref = g[o].ref
        /\ o \notin Below(k, n)
    BY <2>1, KeySet
  <2> HIDE DEF k
  <2>3. IsList(k, o) BY <2>1, <2>2 DEF IsList
  <2>4. Sound(add_item_to_array(k, o, n), (roots \union {n}) \ {n}, lost)
    BY <2>1, <2>2, <2>3, SoundAdded
  <2>5. (roots \union {n}) \ {n} = roots BY <2>1
  <2> QED BY <1>3, <2>4, <2>5 DEF AddNewToObject, Inv, k, g, const
<1>4. ASSUME NEW i \in Live(heap), NEW a \in Owners, AddItemReferenceToArray(a, n, i)
      PROVE  Inv'
  <2> DEFINE g == Referring(heap, n, i)
  <2>1. /\ Sound(g, roots \union {n}, lost) /\ n \in Items /\ n \notin roots
        /\ a \in Items /\ a \notin Below(g, n) /\ IsList(g, a)
    BY ReferenceTo
  <2> HIDE DEF g
  <2>2. Sound(add_item_to_array(g, a, n), (roots \union {n}) \ {n}, lost)
    BY <2>1, SoundAdded
  <2>3. (roots \union {n}) \ {n} = roots BY <2>1
  <2> QED BY <1>4, <2>2, <2>3 DEF AddItemReferenceToArray, Inv, g
<1>5. ASSUME NEW i \in Live(heap), NEW o \in Owners, NEW key \in Keys,
             AddItemReferenceToObject(o, key, n, i)
      PROVE  Inv'
  <2> DEFINE const == FALSE
             g == Referring(heap, n, i)
             k == WithKey(g, n, key, const)
  <2> const \in BOOLEAN OBVIOUS
  <2> HIDE DEF const
  <2>1. /\ Sound(g, roots \union {n}, lost) /\ n \in Items /\ n \notin roots
        /\ o \in Items /\ o \notin Below(g, n) /\ IsList(g, o)
    BY ReferenceTo
  <2> HIDE DEF g
  <2>2. /\ Sound(k, roots \union {n}, lost) /\ k[o].kind = g[o].kind /\ k[o].ref = g[o].ref
        /\ o \notin Below(k, n)
    BY <2>1, KeySet
  <2> HIDE DEF k
  <2>3. IsList(k, o) BY <2>1, <2>2 DEF IsList
  <2>4. Sound(add_item_to_array(k, o, n), (roots \union {n}) \ {n}, lost)
    BY <2>1, <2>2, <2>3, SoundAdded
  <2>5. (roots \union {n}) \ {n} = roots BY <2>1
  <2> QED BY <1>5, <2>4, <2>5 DEF AddItemReferenceToObject, Inv, k, g, const
<1>6. ASSUME NEW i \in Live(heap), AddItemReferenceFails(n, i) PROVE Inv'
  BY <1>6, ReferenceTo DEF AddItemReferenceFails, Inv
<1>7. ASSUME References(n) PROVE Inv'
  BY <1>2, <1>4, <1>5, <1>6, <1>7 DEF References
<1> QED BY <1>1, <1>3, <1>7 DEF Creations

(* The calls that put an item into an array or object keep the invariant.  *)
LEMMA AdditionsKeep ==
  ASSUME Inv, NEW p \in Owners, NEW i \in roots, Additions(p, i)
  PROVE  Inv'
<1>1. /\ heap \in Heaps /\ roots \subseteq Items /\ i \in Items /\ p \in Items
      /\ IsList(heap, p) /\ Sound(heap, roots, lost)
  BY SoundHeap, NamesMembers DEF Inv
<1>2. ASSUME MayAdd(p, i) PROVE p \notin Below(heap, i) BY <1>2 DEF MayAdd
<1> HIDE DEF Inv
<1>3. ASSUME AddItemToArray(p, i) PROVE Inv'
  BY <1>1, <1>2, <1>3, SoundAdded DEF AddItemToArray, Inv
<1>4. ASSUME NEW key \in Keys, NEW const \in BOOLEAN, AddItemToObject(p, key, i, const)
      PROVE  Inv'
  <2> DEFINE k == WithKey(heap, i, key, const)
  <2>1. p \notin Below(heap, i) BY <1>2, <1>4 DEF AddItemToObject
  <2>2. /\ Sound(k, roots, lost) /\ k[p].kind = heap[p].kind /\ k[p].ref = heap[p].ref
        /\ p \notin Below(k, i)
    BY <1>1, <2>1, KeySet
  <2> HIDE DEF k
  <2>3. IsList(k, p) BY <1>1, <2>2 DEF IsList
  <2>4. Sound(add_item_to_array(k, p, i), roots \ {i}, lost)
    BY <1>1, <2>1, <2>2, <2>3, SoundAdded
  <2> QED BY <1>4, <2>4 DEF AddItemToObject, Inv, k
<1>5. ASSUME NEW b \in Members(heap, p), InsertItemInArray(p, b, i) PROVE Inv'
  BY <1>1, <1>2, <1>5, SoundInserted DEF InsertItemInArray, Inv
<1>6. ASSUME NEW k, Sound(k, roots, lost), IsList(k, p), NEW x \in Members(k, p), p \notin Below(k, i),
             MayDelete(Below(Replaced(k, p, x, i), x)),
             \A n \in Items : /\ k[n].kind = heap[n].kind /\ k[n].ref = heap[n].ref
                              /\ k[n].child = heap[n].child
      PROVE  Sound(Freed(Replaced(k, p, x, i), x), roots \ {i}, lost)
  <2> DEFINE h == Replaced(k, p, x, i)
             S == Below(h, x)
  <2>1. /\ Sound(h, (roots \ {i}) \union {x}, lost) /\ SameBut(k, h, p)
        /\ x \in Items /\ x \notin roots
    BY <1>1, <1>6, SoundReplaced
  <2> HIDE DEF h
  <2>2. \A n \in Items : /\ h[n].kind = heap[n].kind /\ h[n].ref = heap[n].ref
                         /\ heap[n].ref => h[n].child = heap[n].child
    BY <1>1, <1>6, <2>1 DEF SameBut, IsList
  <2>3. S \in SUBSET Items
    <3>1. h \in Heaps BY <2>1, SoundHeap
    <3>2. {x} \in SUBSET Items BY <2>1
    <3>3. Reach(h, {x}, FALSE) \in SUBSET Items BY <3>1, <3>2, ReachClosed
    <3> QED BY <3>3 DEF Below
  <2>4. MayDelete(S) BY <1>6 DEF h
  <2> HIDE DEF S
  <2>5. \A r \in Items \ S : h[r].kind # "FREE" /\ h[r].ref => h[r].child \notin S
    BY <1>1, <2>2, <2>3, <2>4, NoReferenceLeft
  <2>6. Sound(Freed(h, x), ((roots \ {i}) \union {x}) \ {x}, lost)
    BY <2>1, <2>5, SoundFreed DEF S
  <2>7. ((roots \ {i}) \union {x}) \ {x} = roots \ {i} BY <2>1
  <2> QED BY <2>6, <2>7 DEF h
<1>7. ASSUME NEW x \in Members(heap, p), ReplaceItemInArray(p, x, i) PROVE Inv'
  <2>1. p \notin Below(heap, i) /\ MayDelete(Below(Replaced(heap, p, x, i), x))
    BY <1>2, <1>7 DEF ReplaceItemInArray
  <2>2. Sound(Freed(Replaced(heap, p, x, i), x), roots \ {i}, lost)
    BY <1>1, <1>6, <2>1
  <2> QED BY <1>7, <2>2 DEF ReplaceItemInArray, Released, Inv
<1>8. ASSUME NEW key \in Keys, ReplaceItemInObject(p, key, i) PROVE Inv'
  <2> DEFINE const == FALSE
             x == Named(heap, p, key)
             k == WithKey(heap, i, key, const)
  <2> const \in BOOLEAN OBVIOUS
  <2> HIDE DEF const
  <2>1. /\ Sound(k, roots, lost)
        /\ \A n \in Items : /\ k[n].kind = heap[n].kind /\ k[n].ref = heap[n].ref
                            /\ k[n].child = heap[n].child
        /\ Below(k, i) = Below(heap, i)
    BY <1>1, KeySet
  <2>2. p \notin Below(heap, i) BY <1>2, <1>8 DEF ReplaceItemInObject
  <2>3. CASE x = NULL BY <1>8, <2>1, <2>3 DEF ReplaceItemInObject, Inv, const
  <2>4. CASE x # NULL
    <3>1. x \in Members(heap, p) BY <1>1, <2>4, NamedMember
    <3>2. MayDelete(Below(Replaced(k, p, x, i), x)) /\ heap' = Freed(Replaced(k, p, x, i), x)
          /\ roots' = roots \ {i} /\ lost' = lost
      BY <1>8, <2>4 DEF ReplaceItemInObject, const
    <3>3. x \in Members(k, p) /\ IsList(k, p)
      <4> HIDE DEF x
      <4>1. k \in Heaps BY <2>1, SoundHeap
      <4>2. IsList(k, p) BY <1>1, <2>1 DEF IsList
      <4>3. PICK par : Linkage(heap, par) BY <1>1 DEF Sound
      <4>4. /\ \A n \in Items : k[n].next = heap[n].next /\ k[n].prev = heap[n].prev
        BY <1>1 DEF WithKey, Heaps, Struct
      <4> HIDE DEF k
      <4>5. Linkage(k, par) BY <2>1, <4>1, <4>3, <4>4, SameLinks
      <4>6. Members(k, p) = {n \in Items : par[n] = p} BY <1>1, <4>2, <4>5, ListOf
      <4>7. Members(heap, p) = {n \in Items : par[n] = p} BY <1>1, <4>3, ListOf
      <4> QED BY <3>1, <4>2, <4>6, <4>7
    <3> HIDE DEF k, x
    <3>4. Sound(Freed(Replaced(k, p, x, i), x), roots \ {i}, lost)
      BY <1>6, <2>1, <2>2, <3>2, <3>3
    <3> QED BY <3>2, <3>4 DEF Inv
  <2> QED BY <2>3, <2>4
<1> QED BY <1>3, <1>4, <1>5, <1>7, <1>8 DEF Additions

(* The calls that take items out keep the invariant.                       *)
LEMMA RemovalsKeep ==
  ASSUME Inv, NEW p \in Owners, NEW x \in CanName(p), DetachItem(p, x) \/ DeleteItem(p, x)
  PROVE  Inv'
<1> DEFINE h == Detached(heap, p, x)
           S == Below(h, x)
<1>1. /\ heap \in Heaps /\ p \in Items /\ IsList(heap, p) /\ x \in Members(heap, p)
      /\ Sound(heap, roots, lost)
  BY SoundHeap, NamesMembers DEF Inv
<1>2. Sound(h, roots \union {x}, lost) /\ SameBut(heap, h, p) /\ x \in Items /\ x \notin roots
  BY <1>1, SoundDetached
<1> HIDE DEF Inv
<1>3. CASE DetachItem(p, x) BY <1>2, <1>3 DEF DetachItem, Inv
<1>4. CASE DeleteItem(p, x)
  <2>1. MayDelete(S) /\ heap' = Freed(h, x) /\ roots' = roots /\ lost' = lost
    BY <1>4 DEF DeleteItem, Released
  <2> HIDE DEF h
  <2>2. S \in SUBSET Items
    <3>1. h \in Heaps BY <1>2, SoundHeap
    <3>2. {x} \in SUBSET Items BY <1>2
    <3>3. Reach(h, {x}, FALSE) \in SUBSET Items BY <3>1, <3>2, ReachClosed
    <3> QED BY <3>3 DEF Below
  <2>3. \A n \in Items : /\ h[n].kind = heap[n].kind /\ h[n].ref = heap[n].ref
                         /\ heap[n].ref => h[n].child = heap[n].child
    BY <1>1, <1>2 DEF SameBut, IsList
  <2> HIDE DEF S
  <2>4. \A r \in Items \ S : h[r].kind # "FREE" /\ h[r].ref => h[r].child \notin S
    BY <1>1, <2>1, <2>2, <2>3, NoReferenceLeft
  <2>5. Sound(Freed(h, x), (roots \union {x}) \ {x}, lost)
    BY <1>2, <2>4, SoundFreed DEF S
  <2>6. (roots \union {x}) \ {x} = roots BY <1>2
  <2> QED BY <2>1, <2>5, <2>6 DEF Inv
<1> QED BY <1>3, <1>4

(* The calls about an item of the caller alone keep the invariant.         *)
LEMMA RootCallsKeep ==
  ASSUME Inv, NEW x \in roots, Delete(x) \/ ReplaceItemFails(x)
  PROVE  Inv'
<1>1. heap \in Heaps /\ x \in Items /\ Sound(heap, roots, lost) BY SoundHeap DEF Inv
<1> HIDE DEF Inv
<1>2. CASE Delete(x)
  <2> DEFINE S == Below(heap, x)
  <2>1. MayDelete(S) /\ heap' = Freed(heap, x) /\ roots' = roots \ {x} /\ lost' = lost
    BY <1>2 DEF Delete, Released
  <2>2. S \in SUBSET Items
    <3>1. {x} \in SUBSET Items BY <1>1
    <3>2. Reach(heap, {x}, FALSE) \in SUBSET Items BY <1>1, <3>1, ReachClosed
    <3> QED BY <3>2 DEF Below
  <2> HIDE DEF S
  <2>3. \A r \in Items \ S : heap[r].kind # "FREE" /\ heap[r].ref => heap[r].child \notin S
    BY <1>1, <2>1, <2>2, NoReferenceLeft
  <2>4. Sound(Freed(heap, x), roots \ {x}, lost) BY <1>1, <2>3, SoundFreed DEF S
  <2> QED BY <2>1, <2>4 DEF Inv
<1>3. CASE ReplaceItemFails(x)
  <2> DEFINE g == [heap EXCEPT ![x].string = NULL]
  <2>1. heap' = g /\ roots' = roots /\ lost' = lost BY <1>3 DEF ReplaceItemFails
  <2>2. [heap[x] EXCEPT !.string = NULL] \in Struct BY <1>1 DEF Heaps, Struct
  <2>3. g = [heap EXCEPT ![x] = [heap[x] EXCEPT !.string = NULL]] OBVIOUS
  <2>4. g \in Heaps BY <1>1, <2>2, <2>3 DEF Heaps
  <2>5. \A n \in Items : /\ g[n].kind = heap[n].kind /\ g[n].ref = heap[n].ref
                         /\ g[n].next = heap[n].next /\ g[n].prev = heap[n].prev
                         /\ g[n].child = heap[n].child
    BY <1>1 DEF Heaps, Struct
  <2> HIDE DEF g
  <2>6. Sound(g, roots, lost) BY <1>1, <2>4, <2>5, SoundSame
  <2> QED BY <2>1, <2>6 DEF Inv
<1> QED BY <1>2, <1>3

(* A copy of one node is a fresh one, and no list is changed.              *)
LEMMA CopiedAlone ==
  ASSUME Inv, NEW x \in Live(heap), NEW f \in [{x} -> Unused]
  PROVE  /\ Sound(Copied(heap, f, x), roots \union {f[x]}, lost)
         /\ ForestOf(Copied(heap, f, x)) = ForestOf(heap)
<1>1. /\ heap \in Heaps /\ x \in Items /\ heap[x].kind # "FREE" /\ Sound(heap, roots, lost)
  BY SoundHeap DEF Inv, Live
<1> DEFINE n == f[x]
           g == Copied(heap, f, x)
           S == DOMAIN f
           src(k) == CHOOSE m \in S : f[m] = k
           to(m) == IF m \in S THEN f[m] ELSE NULL
           before(m) ==
             IF m = x THEN NULL
             ELSE IF \E q \in S : heap[q].child = m
                  THEN f[List(heap, m)[Len(List(heap, m))]]
                  ELSE f[CHOOSE q \in S \ {x} : heap[q].next = m]
           copy(m) == [heap[m] EXCEPT !.ref = FALSE, !.of = NULL, !.child = to(@),
                                      !.prev = before(m), !.next = IF m = x THEN NULL ELSE to(@)]
<1>2. g = [k \in Items |-> IF \E m \in S : f[m] = k THEN copy(src(k)) ELSE heap[k]]
  BY Zenon DEF Copied
<1>3. S = {x} /\ n \in Unused /\ n \in Items BY DEF Unused
<1>4. heap[x].child # x
  <2>1. PICK par : Linkage(heap, par) BY <1>1 DEF Sound
  <2> QED BY <1>1, <2>1, Basics DEF Linkage, ChildOK
<1>5. heap[x] \in Struct /\ NULL \in Nodes BY <1>1 DEF Heaps, Nodes
<1> DEFINE m == [heap[x] EXCEPT !.ref = FALSE, !.of = NULL, !.child = NULL, !.prev = NULL,
                                !.next = NULL]
<1>6. copy(x) = m
  <2>1. to(heap[x].child) = NULL BY <1>3, <1>4
  <2>2. before(x) = NULL OBVIOUS
  <2> HIDE DEF to, before, S
  <2> QED BY <2>1, <2>2
<1>7. m \in Struct /\ m.kind = heap[x].kind /\ m.next = NULL /\ m.child = NULL
  BY <1>5 DEF Struct
<1> HIDE DEF m, copy, to, before
<1>8. src(n) = x BY <1>3
<1>9. g[n] = m
  <2>1. \E k \in S : f[k] = n BY <1>3
  <2> HIDE DEF S, src
  <2> QED BY <1>2, <1>3, <1>6, <1>8, <2>1
<1>10. \A k \in Items : k # n => g[k] = heap[k] BY <1>2, <1>3
<1>11. g \in Heaps
  <2>1. g = [k \in Items |-> g[k]] BY <1>2
  <2>2. \A k \in Items : g[k] \in Struct
    <3> HIDE DEF g, n
    <3> QED BY <1>1, <1>7, <1>9, <1>10 DEF Heaps
  <2> HIDE DEF g
  <2> QED BY <2>1, <2>2 DEF Heaps
<1> HIDE DEF g, n, S, src, Inv
<1>12. g[n].child \notin Items BY <1>7, <1>9, Basics
<1>13. Sound(g, roots \union {n}, lost) /\ ForestOf(g) = ForestOf(heap)
  BY <1>1, <1>3, <1>7, <1>9, <1>10, <1>11, <1>12, FreshSound
<1> QED BY <1>13 DEF g, n

(* A copy keeps the invariant, of an item with all below it or without.    *)
LEMMA DuplicateKeeps ==
  ASSUME Inv, NEW x \in Live(heap), NEW recurse \in BOOLEAN, Duplicate(x, recurse)
  PROVE  Inv'
<1>1. /\ heap \in Heaps /\ x \in Items /\ heap[x].kind # "FREE" /\ Sound(heap, roots, lost)
      /\ lost' = lost
  BY SoundHeap DEF Inv, Live, Duplicate
<1>2. CASE recurse
  <2>1. IsTree(heap, x) BY <1>2 DEF Duplicate
  <2>2. PICK f \in [Nest(heap, x) -> Items \ Live(heap)] :
          Injective(f) /\ heap' = Copied(heap, f, x) /\ roots' = roots \union {f[x]}
    BY <1>2 DEF Duplicate, Unused
  <2>3. Sound(Copied(heap, f, x), roots \union {f[x]}, lost)
    BY <1>1, <2>1, <2>2, SoundCopied
  <2> QED BY <1>1, <2>2, <2>3 DEF Inv
<1>3. CASE ~recurse
  <2>1. PICK f \in [{x} -> Unused] : heap' = Copied(heap, f, x) /\ roots' = roots \union {f[x]}
    BY <1>3 DEF Duplicate
  <2>2. Sound(Copied(heap, f, x), roots \union {f[x]}, lost) BY CopiedAlone
  <2> QED BY <1>1, <2>1, <2>2 DEF Inv
<1> QED BY <1>2, <1>3

(* In the beginning all nodes are free and in no list.                     *)
LEMMA InitSound == ItemsInit => Inv
<1> SUFFICES ASSUME ItemsInit PROVE Inv OBVIOUS
<1> DEFINE par == [n \in Items |-> NULL]
<1>1. \A n \in Items : /\ heap[n] = Free /\ heap[n].kind = "FREE" /\ heap[n].ref = FALSE
                       /\ heap[n].next = NULL /\ heap[n].child = NULL
  BY DEF ItemsInit, Free
<1>2. Free \in Struct BY DEF Free, Struct, Nodes
<1>3. heap \in Heaps BY <1>2 DEF ItemsInit, Heaps
<1>4. par \in Parents BY DEF Parents, Nodes
<1>5. \A p \in Items : ChildOK(heap, par, p) BY <1>1 DEF ChildOK, IsList, Containers
<1>6. NoCycle(heap, par) BY DEF NoCycle
<1>7. Linkage(heap, par) BY <1>1, <1>3, <1>4, <1>5, <1>6 DEF Linkage
<1>8. Grounded(par) BY Basics DEF Grounded
<1>9. Held(heap, par, roots, lost) BY <1>1, <1>8 DEF ItemsInit, Held
<1> HIDE DEF par
<1> QED BY <1>7, <1>9 DEF Inv, Sound

(* No call breaks the invariant.                                           *)
LEMMA CallsKeep == Inv /\ [Call]_itemVars => Inv'
<1> SUFFICES ASSUME Inv, [Call]_itemVars PROVE Inv' OBVIOUS
<1>1. CASE \E n \in Unused : Creations(n) BY <1>1, CreationsKeep
<1>2. CASE \E p \in Owners, i \in roots : Additions(p, i) BY <1>2, AdditionsKeep
<1>3. CASE \E p \in Owners : \E x \in CanName(p) : DetachItem(p, x) \/ DeleteItem(p, x)
  BY <1>3, RemovalsKeep
<1>4. CASE \E x \in roots : Delete(x) \/ ReplaceItemFails(x) BY <1>4, RootCallsKeep
<1>5. CASE \E x \in Live(heap) \ lost, recurse \in BOOLEAN : Duplicate(x, recurse)
  BY <1>5, DuplicateKeeps
<1>6. CASE UNCHANGED itemVars BY <1>6 DEF itemVars, Inv
<1> QED BY <1>1, <1>2, <1>3, <1>4, <1>5, <1>6 DEF Call

-----------------------------------------------------------------------------
(* The strings: each belongs to one node, and no other is allocated.       *)

SameStrings(h, g, n) ==
  (OwnsString(g[n]) <=> OwnsString(h[n])) /\ (OwnsKey(g[n]) <=> OwnsKey(h[n]))

Worth(m) == (IF OwnsString(m) THEN 1 ELSE 0) + (IF OwnsKey(m) THEN 1 ELSE 0)

(* s strings are allocated in h, and what is free has no key.              *)
Tally(h, s) ==
  s = Strings(h, Items) /\ \A n \in Items : h[n].kind = "FREE" => ~OwnsKey(h[n])

Counted == Tally(heap, strings)

(* The strings of two sets of nodes.                                       *)
LEMMA StringsBoth ==
  ASSUME NEW h, NEW S \in SUBSET Items, NEW T \in SUBSET Items, S \intersect T = {}
  PROVE  /\ Strings(h, S) \in Nat /\ Strings(h, T) \in Nat
         /\ Strings(h, S \union T) = Strings(h, S) + Strings(h, T)
<1>1. ASSUME NEW P, P \subseteq Items
      PROVE  /\ IsFiniteSet(P \intersect S) /\ IsFiniteSet(P \intersect T)
             /\ Cardinality(P \intersect S) \in Nat /\ Cardinality(P \intersect T) \in Nat
             /\ Cardinality(P \intersect (S \union T))
                  = Cardinality(P \intersect S) + Cardinality(P \intersect T)
  <2> DEFINE A == P \intersect S
             B == P \intersect T
  <2>1. A \in SUBSET Items /\ B \in SUBSET Items /\ A \intersect B = {}
        /\ P \intersect (S \union T) = A \union B
    OBVIOUS
  <2> HIDE DEF A, B
  <2>2. IsFiniteSet(A) /\ IsFiniteSet(B) BY <2>1, FS_Subset, Basics
  <2>3. Cardinality(A) \in Nat /\ Cardinality(B) \in Nat BY <2>2, FS_CardinalityType
  <2>4. Cardinality(A \intersect B) = 0 BY <2>1, FS_EmptySet
  <2>5. Cardinality(A \union B) = Cardinality(A) + Cardinality(B)
    <3>1. Cardinality(A \union B) = Cardinality(A) + Cardinality(B) - Cardinality(A \intersect B)
      BY <2>2, FS_Union
    <3> QED BY <2>3, <2>4, <3>1
  <2> QED BY <2>1, <2>2, <2>3, <2>5 DEF A, B
<1> DEFINE P == {n \in Items : OwnsString(h[n])}
           Q == {n \in Items : OwnsKey(h[n])}
<1>2. \A U \in SUBSET Items :
        Strings(h, U) = Cardinality(P \intersect U) + Cardinality(Q \intersect U)
  <2> TAKE U \in SUBSET Items
  <2>1. {n \in U : OwnsString(h[n])} = P \intersect U
        /\ {n \in U : OwnsKey(h[n])} = Q \intersect U
    OBVIOUS
  <2> HIDE DEF P, Q
  <2> QED BY <2>1 DEF Strings
<1>3. P \subseteq Items /\ Q \subseteq Items OBVIOUS
<1> HIDE DEF P, Q
<1>4. S \union T \in SUBSET Items OBVIOUS
<1> DEFINE s(C) == Cardinality(C \intersect S)
           t(C) == Cardinality(C \intersect T)
           b(C) == Cardinality(C \intersect (S \union T))
<1>5. \A C \in {P, Q} : s(C) \in Nat /\ t(C) \in Nat /\ b(C) = s(C) + t(C) BY <1>1, <1>3
<1>6. /\ Strings(h, S) = s(P) + s(Q) /\ Strings(h, T) = t(P) + t(Q)
      /\ Strings(h, S \union T) = b(P) + b(Q)
  BY <1>2, <1>4
<1> HIDE DEF s, t, b
<1> QED BY <1>5, <1>6

(* Those of a part of the nodes and of the others.                         *)
LEMMA StringsOfAll ==
  ASSUME NEW B \in SUBSET Items
  PROVE  \A h : /\ Strings(h, B) \in Nat /\ Strings(h, Items \ B) \in Nat
               /\ Strings(h, Items) = Strings(h, B) + Strings(h, Items \ B)
<1> TAKE h
<1> DEFINE C == Items \ B
<1>1. B \in SUBSET Items /\ C \in SUBSET Items /\ B \intersect C = {} /\ B \union C = Items
  OBVIOUS
<1> HIDE DEF C
<1>2. /\ Strings(h, B) \in Nat /\ Strings(h, C) \in Nat
      /\ Strings(h, B \union C) = Strings(h, B) + Strings(h, C)
  BY <1>1, StringsBoth
<1> QED BY <1>1, <1>2 DEF C

(* They are counted by what the nodes own.                                 *)
LEMMA StringsSame ==
  ASSUME NEW h, NEW g, NEW S, \A n \in S : SameStrings(h, g, n)
  PROVE  Strings(g, S) = Strings(h, S)
<1>1. /\ {n \in S : OwnsString(g[n])} = {n \in S : OwnsString(h[n])}
      /\ {n \in S : OwnsKey(g[n])} = {n \in S : OwnsKey(h[n])}
  BY DEF SameStrings
<1> QED BY <1>1, Zenon DEF Strings

(* A node that owns none adds none.                                        *)
LEMMA StringsNone ==
  ASSUME NEW h, NEW S, \A n \in S : ~OwnsString(h[n]) /\ ~OwnsKey(h[n])
  PROVE  Strings(h, S) = 0
<1>1. {n \in S : OwnsString(h[n])} = {} /\ {n \in S : OwnsKey(h[n])} = {} OBVIOUS
<1>2. Cardinality({}) = 0 BY FS_EmptySet
<1>3. Strings(h, S) = Cardinality({}) + Cardinality({}) BY <1>1, Zenon DEF Strings
<1> QED BY <1>2, <1>3

(* The strings of one node.                                                *)
LEMMA StringsOne ==
  ASSUME NEW h, NEW n
  PROVE  Strings(h, {n}) = Worth(h[n])
<1>1. ASSUME NEW A, A = {} \/ A = {n} PROVE Cardinality(A) = IF A = {} THEN 0 ELSE 1
  <2>1. Cardinality({}) = 0 /\ Cardinality({n}) = 1 BY FS_EmptySet, FS_Singleton
  <2> QED BY <1>1, <2>1
<1> DEFINE P == {m \in {n} : OwnsString(h[m])}
           Q == {m \in {n} : OwnsKey(h[m])}
<1>2. /\ P = {} \/ P = {n}
      /\ Q = {} \/ Q = {n}
      /\ P = {} <=> ~OwnsString(h[n])
      /\ Q = {} <=> ~OwnsKey(h[n])
  OBVIOUS
<1>3. Strings(h, {n}) = Cardinality(P) + Cardinality(Q) BY DEF Strings
<1> HIDE DEF P, Q
<1>4. /\ Cardinality(P) = IF OwnsString(h[n]) THEN 1 ELSE 0
      /\ Cardinality(Q) = IF OwnsKey(h[n]) THEN 1 ELSE 0
  BY <1>1, <1>2
<1> QED BY <1>3, <1>4 DEF Worth

(* One node changes: all other strings stay.                               *)
LEMMA StringsChange ==
  ASSUME NEW h, NEW g, NEW n \in Items, \A m \in Items : m # n => SameStrings(h, g, m)
  PROVE  /\ Strings(g, Items) = Strings(h, Items) - Worth(h[n]) + Worth(g[n])
         /\ Strings(g, Items) \in Nat /\ Strings(h, Items) \in Nat
<1> DEFINE S == Items \ {n}
           T == {n}
<1>1. S \in SUBSET Items /\ T \in SUBSET Items /\ S \intersect T = {} /\ S \union T = Items
  OBVIOUS
<1>2. Strings(g, S) = Strings(h, S) BY StringsSame
<1>3. Strings(g, T) = Worth(g[n]) /\ Strings(h, T) = Worth(h[n]) BY StringsOne
<1> HIDE DEF S, T
<1>4. \A k \in {g, h} : /\ Strings(k, S) \in Nat /\ Strings(k, T) \in Nat
                        /\ Strings(k, Items) = Strings(k, S) + Strings(k, T)
  BY <1>1, StringsBoth
<1> QED BY <1>2, <1>3, <1>4

(* From h to g only links change.                                          *)
Relinked(h, g) ==
  g \in Heaps /\ \A n \in Items : SameStrings(h, g, n) /\ g[n].kind = h[n].kind

(* One link is set, or none if there is no node.                           *)
LEMMA LinkStrings ==
  ASSUME NEW h, NEW g, Relinked(h, g), NEW n \in Nodes, NEW v \in Nodes
  PROVE  /\ Relinked(h, [g EXCEPT ![n].next = v])
         /\ Relinked(h, [g EXCEPT ![n].prev = v])
         /\ Relinked(h, [g EXCEPT ![n].child = v])
<1>1. g \in Heaps BY DEF Relinked
<1>2. CASE n = NULL
  <2>1. /\ [g EXCEPT ![n].next = v] = g /\ [g EXCEPT ![n].prev = v] = g
        /\ [g EXCEPT ![n].child = v] = g
    BY <1>1, <1>2, Basics DEF Heaps
  <2> QED BY <2>1
<1>3. CASE n # NULL
  <2>1. n \in Items BY <1>3, Basics
  <2> DEFINE a == [g EXCEPT ![n].next = v]
             b == [g EXCEPT ![n].prev = v]
             c == [g EXCEPT ![n].child = v]
  <2>2. a \in Heaps /\ b \in Heaps /\ c \in Heaps BY <1>1, <2>1, LinkSet
  <2>3. \A k \in {a, b, c} : \A m \in Items :
          /\ k[m].kind = g[m].kind /\ k[m].ref = g[m].ref
          /\ k[m].string = g[m].string /\ k[m].const = g[m].const
    BY <1>1, <2>1 DEF Heaps, Struct
  <2> HIDE DEF a, b, c
  <2>4. \A k \in {a, b, c} : Relinked(h, k)
    BY <2>2, <2>3 DEF Relinked, SameStrings, OwnsString, OwnsKey
  <2> QED BY <2>4 DEF a, b, c
<1> QED BY <1>2, <1>3

(* The steps that set links alone.                                         *)
LEMMA StepsRelink ==
  ASSUME NEW h \in Heaps, NEW p \in Items, NEW x \in Items, NEW i \in Items
  PROVE  /\ Relinked(h, add_item_to_array(h, p, i))
         /\ Relinked(h, Inserted(h, p, x, i))
         /\ Relinked(h, Detached(h, p, x))
         /\ Relinked(h, Replaced(h, p, x, i))
<1>1. Relinked(h, h) BY DEF Relinked, SameStrings
<1>2. /\ NULL \in Nodes /\ \A n \in Items : n \in Nodes
      /\ \A g : Relinked(h, g) => \A n \in Items : /\ g[n].next \in Nodes /\ g[n].prev \in Nodes
                                                   /\ g[n].child \in Nodes
  BY Basics DEF Nodes, Relinked
<1>3. \A n \in Nodes : n # NULL => n \in Items BY Basics
<1>4. Relinked(h, add_item_to_array(h, p, i))
  <2> DEFINE c == h[p].child
             h1 == [h EXCEPT ![p].child = i]
             h2 == [h1 EXCEPT ![i].prev = i]
             h3 == [h2 EXCEPT ![i].next = NULL]
             last == h[c].prev
             k1 == [h EXCEPT ![last].next = i]
             k2 == [k1 EXCEPT ![i].prev = last]
             k3 == [k2 EXCEPT ![c].prev = i]
  <2>1. add_item_to_array(h, p, i) = IF c = NULL THEN h3 ELSE IF last = NULL THEN h ELSE k3
    BY DEF add_item_to_array, suffix_object
  <2>2. c \in Nodes /\ (c # NULL => last \in Nodes) BY <1>1, <1>2, <1>3
  <2>3. Relinked(h, h1) BY <1>1, <1>2, LinkStrings
  <2> HIDE DEF h1
  <2>4. Relinked(h, h2) BY <2>3, <1>2, LinkStrings
  <2> HIDE DEF h2
  <2>5. Relinked(h, h3) BY <2>4, <1>2, LinkStrings
  <2> HIDE DEF h3, last
  <2>6. ASSUME c # NULL PROVE Relinked(h, k3)
    <3>1. Relinked(h, k1) BY <1>1, <1>2, <2>2, <2>6, LinkStrings
    <3> HIDE DEF k1
    <3>2. Relinked(h, k2) BY <3>1, <1>2, <2>2, <2>6, LinkStrings
    <3> HIDE DEF k2
    <3> QED BY <3>2, <1>2, <2>2, LinkStrings
  <2> QED BY <1>1, <2>1, <2>5, <2>6
<1>5. Relinked(h, Inserted(h, p, x, i))
  <2> DEFINE h1 == [h EXCEPT ![i].next = x]
             h2 == [h1 EXCEPT ![i].prev = h[x].prev]
             h3 == [h2 EXCEPT ![x].prev = i]
             h4 == [h3 EXCEPT ![p].child = i]
             h5 == [h3 EXCEPT ![h[x].prev].next = i]
  <2>1. Inserted(h, p, x, i) = IF x = h[p].child THEN h4 ELSE h5 BY DEF Inserted
  <2>2. h[x].prev \in Nodes BY <1>1, <1>2
  <2>3. Relinked(h, h1) BY <1>1, <1>2, LinkStrings
  <2> HIDE DEF h1
  <2>4. Relinked(h, h2) BY <2>2, <2>3, <1>2, LinkStrings
  <2> HIDE DEF h2
  <2>5. Relinked(h, h3) BY <2>4, <1>2, LinkStrings
  <2> HIDE DEF h3
  <2>6. Relinked(h, h4) /\ Relinked(h, h5) BY <1>2, <2>2, <2>5, LinkStrings
  <2> QED BY <2>1, <2>6
<1>6. Relinked(h, Detached(h, p, x))
  <2> DEFINE first == x = h[p].child
             last == h[x].next = NULL
             h1 == IF first THEN h ELSE [h EXCEPT ![h[x].prev].next = h[x].next]
             h2 == IF last THEN h1 ELSE [h1 EXCEPT ![h[x].next].prev = h[x].prev]
             h3 == IF first THEN [h2 EXCEPT ![p].child = h[x].next]
                   ELSE IF last THEN [h2 EXCEPT ![h[p].child].prev = h[x].prev]
                   ELSE h2
             h4 == [h3 EXCEPT ![x].prev = NULL]
             h5 == [h4 EXCEPT ![x].next = NULL]
  <2>1. Detached(h, p, x) = h5 BY DEF Detached
  <2>2. h[x].prev \in Nodes /\ h[x].next \in Nodes /\ h[p].child \in Nodes BY <1>1, <1>2
  <2> HIDE DEF first, last
  <2>3. Relinked(h, h1) BY <1>1, <1>2, <2>2, LinkStrings
  <2> HIDE DEF h1
  <2>4. Relinked(h, h2) BY <2>2, <2>3, LinkStrings
  <2> HIDE DEF h2
  <2>5. Relinked(h, h3) BY <1>2, <2>2, <2>4, LinkStrings
  <2> HIDE DEF h3
  <2>6. Relinked(h, h4) BY <1>2, <2>5, LinkStrings
  <2> HIDE DEF h4
  <2>7. Relinked(h, h5) BY <1>2, <2>6, LinkStrings
  <2> QED BY <2>1, <2>7
<1>7. Relinked(h, Replaced(h, p, x, i))
  <2> DEFINE first == x = h[p].child
             last == h[x].next = NULL
             h0 == [h EXCEPT ![i].next = h[x].next]
             h1 == [h0 EXCEPT ![i].prev = h[x].prev]
             h2 == IF last THEN h1 ELSE [h1 EXCEPT ![h[x].next].prev = i]
             a1 == [h2 EXCEPT ![i].prev = i]
             a2 == [a1 EXCEPT ![p].child = i]
             b1 == [h2 EXCEPT ![p].child = i]
             c1 == [h2 EXCEPT ![h[x].prev].next = i]
             c2 == [c1 EXCEPT ![h[p].child].prev = i]
             h3 == IF first THEN IF h2[x].prev = x THEN a2 ELSE b1
                   ELSE IF last THEN c2 ELSE c1
             h4 == [h3 EXCEPT ![x].next = NULL]
             h5 == [h4 EXCEPT ![x].prev = NULL]
  <2>1. Replaced(h, p, x, i) = h5 BY DEF Replaced
  <2>2. h[x].prev \in Nodes /\ h[x].next \in Nodes /\ h[p].child \in Nodes BY <1>1, <1>2
  <2> HIDE DEF first, last
  <2>3. Relinked(h, h0) BY <1>1, <1>2, <2>2, LinkStrings
  <2> HIDE DEF h0
  <2>4. Relinked(h, h1) BY <1>2, <2>2, <2>3, LinkStrings
  <2> HIDE DEF h1
  <2>5. Relinked(h, h2) BY <1>2, <2>2, <2>4, LinkStrings
  <2> HIDE DEF h2
  <2>6. Relinked(h, a1) /\ Relinked(h, b1) /\ Relinked(h, c1) BY <1>2, <2>2, <2>5, LinkStrings
  <2> HIDE DEF a1, b1, c1
  <2>7. Relinked(h, a2) /\ Relinked(h, c2) BY <1>2, <2>2, <2>6, LinkStrings
  <2> HIDE DEF a2, c2
  <2>8. Relinked(h, h3) BY <2>6, <2>7
  <2> HIDE DEF h3
  <2>9. Relinked(h, h4) BY <1>2, <2>8, LinkStrings
  <2> HIDE DEF h4
  <2>10. Relinked(h, h5) BY <1>2, <2>9, LinkStrings
  <2> QED BY <2>1, <2>10
<1> QED BY <1>4, <1>5, <1>6, <1>7

(* New links are no matter for the strings.                                *)
LEMMA TallyRelinked ==
  ASSUME NEW h, NEW s, Tally(h, s), NEW g, Relinked(h, g)
  PROVE  Tally(g, s)
<1>1. Strings(g, Items) = Strings(h, Items) BY StringsSame DEF Relinked
<1> QED BY <1>1 DEF Tally, Relinked, SameStrings

(* One node is changed.                                                    *)
LEMMA TallyChanged ==
  ASSUME NEW h, NEW s, Tally(h, s), NEW n \in Items, NEW g,
         \A m \in Items : m # n => g[m] = h[m], g[n].kind # "FREE",
         NEW d, d = Worth(g[n]) - Worth(h[n])
  PROVE  Tally(g, s + d)
<1>1. \A m \in Items : m # n => SameStrings(h, g, m) BY DEF SameStrings
<1>2. /\ Strings(g, Items) = Strings(h, Items) - Worth(h[n]) + Worth(g[n])
      /\ Strings(g, Items) \in Nat /\ Strings(h, Items) \in Nat
  BY <1>1, StringsChange
<1>3. Worth(g[n]) \in Nat /\ Worth(h[n]) \in Nat BY DEF Worth
<1>4. Strings(g, Items) = s + d BY <1>2, <1>3 DEF Tally
<1> QED BY <1>4 DEF Tally

(* A node gets into use.                                                   *)
LEMMA TallyNew ==
  ASSUME NEW h, NEW s, Tally(h, s), NEW n \in Items, h[n].kind = "FREE", NEW g,
         \A m \in Items : m # n => g[m] = h[m], g[n].kind # "FREE"
  PROVE  Tally(g, s + Worth(g[n]))
<1>1. Worth(h[n]) = 0 BY DEF Tally, Worth, OwnsString
<1>2. Worth(g[n]) \in Nat BY DEF Worth
<1>3. Worth(g[n]) = Worth(g[n]) - Worth(h[n]) BY <1>1, <1>2
<1> QED BY <1>3, TallyChanged

(* A node in use gets a key, and loses that it had.                        *)
LEMMA TallyKey ==
  ASSUME NEW h \in Heaps, NEW s, Tally(h, s), NEW i \in Items, h[i].kind # "FREE",
         NEW key, NEW const
  PROVE  Tally(WithKey(h, i, key, const),
               s + ((IF key # NULL /\ ~const THEN 1 ELSE 0) - (IF OwnsKey(h[i]) THEN 1 ELSE 0)))
<1> DEFINE g == WithKey(h, i, key, const)
<1>1. /\ \A m \in Items : m # i => g[m] = h[m]
      /\ g[i].kind = h[i].kind /\ g[i].ref = h[i].ref /\ g[i].string = key /\ g[i].const = const
  BY DEF WithKey, Heaps, Struct
<1> HIDE DEF g
<1>2. (IF key # NULL /\ ~const THEN 1 ELSE 0) - (IF OwnsKey(h[i]) THEN 1 ELSE 0)
        = Worth(g[i]) - Worth(h[i])
  BY <1>1 DEF Worth, OwnsString, OwnsKey
<1> QED BY <1>1, <1>2, TallyChanged DEF g

(* Nodes are freed, and their strings.                                     *)
LEMMA TallyFreed ==
  ASSUME NEW h, NEW s, Tally(h, s), NEW x, NEW B \in SUBSET Items, B = Below(h, x)
  PROVE  Tally(Freed(h, x), s - Strings(h, B))
<1> DEFINE g == Freed(h, x)
           C == Items \ B
<1>1. \A n \in Items : g[n] = IF n \in B THEN Free ELSE h[n] BY DEF Freed
<1> HIDE DEF g
<1>2. Free.kind = "FREE" /\ ~OwnsKey(Free) /\ ~OwnsString(Free)
  BY DEF Free, OwnsKey, OwnsString
<1>3. B \in SUBSET Items /\ C \in SUBSET Items OBVIOUS
<1>4. Strings(g, C) = Strings(h, C)
  <2>1. \A n \in C : SameStrings(h, g, n) BY <1>1 DEF SameStrings
  <2> HIDE DEF C
  <2> QED BY <2>1, StringsSame
<1>5. Strings(g, B) = 0
  <2>1. \A n \in B : ~OwnsString(g[n]) /\ ~OwnsKey(g[n]) BY <1>1, <1>2
  <2> QED BY <2>1, StringsNone
<1> HIDE DEF C
<1>6. \A k : /\ Strings(k, B) \in Nat /\ Strings(k, C) \in Nat
            /\ Strings(k, Items) = Strings(k, B) + Strings(k, C)
  BY StringsOfAll DEF C
<1>7. Strings(g, Items) = s - Strings(h, B) BY <1>4, <1>5, <1>6 DEF Tally
<1> QED BY <1>1, <1>2, <1>7 DEF Tally, g

(* Nodes that were free get into use.                                      *)
LEMMA TallyMore ==
  ASSUME NEW h, NEW s, Tally(h, s), NEW F \in SUBSET Items, \A n \in F : h[n].kind = "FREE",
         NEW g, \A n \in Items \ F : g[n] = h[n], \A n \in F : g[n].kind # "FREE"
  PROVE  Tally(g, s + Strings(g, F))
<1> DEFINE C == Items \ F
<1>1. F \in SUBSET Items /\ C \in SUBSET Items /\ F \intersect C = {} /\ F \union C = Items
  OBVIOUS
<1>2. Strings(g, C) = Strings(h, C)
  <2>1. \A n \in C : SameStrings(h, g, n) BY DEF SameStrings
  <2> HIDE DEF C
  <2> QED BY <2>1, StringsSame
<1>3. Strings(h, F) = 0
  <2>1. \A n \in F : ~OwnsString(h[n]) /\ ~OwnsKey(h[n]) BY DEF Tally, OwnsString
  <2> QED BY <2>1, StringsNone
<1> HIDE DEF C
<1>4. \A k \in {g, h} : /\ Strings(k, F) \in Nat /\ Strings(k, C) \in Nat
                        /\ Strings(k, Items) = Strings(k, F) + Strings(k, C)
  BY <1>1, StringsBoth
<1>5. Strings(g, Items) = s + Strings(g, F) BY <1>2, <1>3, <1>4 DEF Tally
<1>6. \A n \in Items : g[n].kind = "FREE" => ~OwnsKey(g[n]) BY DEF Tally
<1> QED BY <1>5, <1>6 DEF Tally

(* The strings of the new item, and of the new reference.                  *)
LEMMA TallyItem ==
  ASSUME Inv, Counted, NEW n \in Unused, NEW kind \in Containers \union Leaves
  PROVE  /\ New_Item(n, kind) \in Heaps /\ New_Item(n, kind)[n].kind # "FREE"
         /\ ~OwnsKey(New_Item(n, kind)[n]) /\ n \in Items
         /\ Tally(New_Item(n, kind), strings + IF kind = "String" THEN 1 ELSE 0)
<1> DEFINE g == New_Item(n, kind)
           m == [Zeroed EXCEPT !.kind = kind]
<1>1. heap \in Heaps /\ n \in Items /\ heap[n].kind = "FREE"
  BY SoundHeap DEF Inv, Unused, Live
<1>2. g \in Heaps BY NewItem, SoundHeap
<1>3. /\ m.kind = kind /\ m.ref = FALSE /\ m.string = NULL /\ kind # "FREE"
  BY ItemsAssumption DEF Zeroed, Free, Containers
<1>4. g[n] = m /\ \A k \in Items : k # n => g[k] = heap[k]
  BY <1>1 DEF New_Item, Heaps
<1> HIDE DEF m
<1>5. Worth(g[n]) = (IF kind = "String" THEN 1 ELSE 0) /\ ~OwnsKey(g[n])
  BY <1>3, <1>4 DEF Worth, OwnsString, OwnsKey
<1> HIDE DEF g
<1>6. Tally(g, strings + Worth(g[n])) BY <1>1, <1>3, <1>4, TallyNew DEF Counted
<1> QED BY <1>1, <1>2, <1>3, <1>4, <1>5, <1>6 DEF g

(* A reference owns no string, and no key before it has one.               *)
LEMMA TallyReference ==
  ASSUME Inv, Counted, NEW r \in Unused, NEW i \in Live(heap)
  PROVE  LET g == Referring(heap, r, i)
         IN /\ g \in Heaps /\ g[r].kind # "FREE" /\ ~OwnsKey(g[r]) /\ r \in Items
            /\ Tally(g, strings)
<1> DEFINE g == Referring(heap, r, i)
<1>1. heap \in Heaps /\ r \in Items /\ heap[r].kind = "FREE" /\ i \in Items
      /\ heap[i].kind # "FREE"
  BY SoundHeap DEF Inv, Unused, Live
<1>2. g \in Heaps BY ReferenceTo, SoundHeap
<1>3. /\ g[r].kind = heap[i].kind /\ g[r].ref = TRUE /\ g[r].string = NULL
      /\ \A k \in Items : k # r => g[k] = heap[k]
  BY <1>1 DEF Referring, Heaps, Struct
<1> HIDE DEF g
<1>4. Worth(g[r]) = 0 /\ ~OwnsKey(g[r]) BY <1>3 DEF Worth, OwnsString, OwnsKey
<1>5. Tally(g, strings + Worth(g[r])) BY <1>1, <1>3, TallyNew DEF Counted
<1>6. strings \in Nat
  <2>1. {} \in SUBSET Items /\ Items \in SUBSET Items /\ Items \intersect {} = {} OBVIOUS
  <2>2. Strings(heap, Items) \in Nat BY <2>1, StringsBoth
  <2> QED BY <2>2 DEF Counted, Tally
<1>7. strings + Worth(g[r]) = strings BY <1>4, <1>6
<1> QED BY <1>1, <1>2, <1>3, <1>4, <1>5, <1>7 DEF g

(* The calls that make an item or a reference keep the count.              *)
LEMMA CreationsCount ==
  ASSUME Inv, Counted, NEW n \in Unused, Creations(n)
  PROVE  Counted'
<1> \A p \in Lists("Array") \union Lists("Object") : p \in Items
  BY DEF Lists, Owners
<1>0. strings \in Nat BY StringsOfAll DEF Counted, Tally
<1> HIDE DEF Inv, Counted
<1>1. ASSUME NEW g \in Heaps, NEW s \in Nat, Tally(g, s), n \in Items, NEW p \in Items
      PROVE  Tally(add_item_to_array(g, p, n), s)
  BY <1>1, StepsRelink, TallyRelinked
<1>2. ASSUME NEW g \in Heaps, NEW s \in Nat, Tally(g, s), n \in Items, g[n].kind # "FREE",
             ~OwnsKey(g[n]), NEW key \in Keys, NEW p \in Items
      PROVE  Tally(add_item_to_array(WithKey(g, n, key, FALSE), p, n), s + 1)
  <2> DEFINE const == FALSE
             k == WithKey(g, n, key, const)
  <2>1. const \in BOOLEAN /\ key # NULL /\ ~const BY ItemsAssumption
  <2> HIDE DEF const
  <2>2. Tally(k, s + (1 - 0)) BY <1>2, <2>1, TallyKey
  <2>3. k \in Heaps
    <3>1. k = [g EXCEPT ![n] = [g[n] EXCEPT !.string = key, !.const = const]] BY DEF WithKey
    <3>2. [g[n] EXCEPT !.string = key, !.const = const] \in Struct
      BY <1>2, <2>1 DEF Heaps, Struct
    <3> HIDE DEF k
    <3> QED BY <3>1, <3>2 DEF Heaps
  <2>4. s + (1 - 0) = s + 1 /\ s + 1 \in Nat OBVIOUS
  <2> HIDE DEF k
  <2> QED BY <1>1, <1>2, <2>2, <2>3, <2>4 DEF k, const
<1>3. ASSUME NEW kind \in Containers \union Leaves, CreateItem(n, kind) PROVE Counted'
  <2>1. Tally(New_Item(n, kind), strings + IF kind = "String" THEN 1 ELSE 0) BY TallyItem
  <2>2. strings + (IF kind = "String" THEN 1 ELSE 0) = strings' BY <1>0, <1>3 DEF CreateItem
  <2> QED BY <1>3, <2>1, <2>2 DEF CreateItem, Counted
<1>4. ASSUME NEW kind \in Containers, NEW c \in Live(heap), CreateReference(n, kind, c)
      PROVE  Counted'
  <2> DEFINE g == New_Item(n, kind)
             k == [g EXCEPT ![n].ref = TRUE, ![n].child = c]
  <2>1. kind \in Containers \union Leaves /\ kind # "String" BY DEF Containers
  <2>2. g \in Heaps /\ n \in Items /\ Tally(g, strings + 0) BY <2>1, TallyItem
  <2>3. g[n].kind = kind
    <3>1. heap \in Heaps BY SoundHeap DEF Inv
    <3> QED BY <2>2, <3>1 DEF New_Item, Zeroed, Free, Heaps
  <2> HIDE DEF g
  <2>4. \A m \in Items : SameStrings(g, k, m) /\ k[m].kind = g[m].kind
    <3>1. \A m \in Items : /\ k[m].kind = g[m].kind /\ k[m].string = g[m].string
                           /\ k[m].const = g[m].const
                           /\ (m # n => k[m].ref = g[m].ref)
      BY <2>2 DEF Heaps, Struct
    <3> HIDE DEF k
    <3> QED BY <2>1, <2>3, <3>1 DEF SameStrings, OwnsString, OwnsKey
  <2>5. k \in Heaps
    <3>1. Sound(k, roots \union {n}, lost) BY NewReference DEF g
    <3> QED BY <3>1, SoundHeap
  <2> HIDE DEF k
  <2>6. Relinked(g, k) BY <2>4, <2>5 DEF Relinked
  <2>7. Tally(k, strings + 0) BY <2>2, <2>6, TallyRelinked
  <2>8. strings + 0 = strings BY <1>0
  <2> QED BY <1>4, <2>7, <2>8 DEF CreateReference, Counted, k, g
<1>5. ASSUME NEW o \in Items, NEW key \in Keys, NEW kind \in Leaves,
             AddNewToObject(o, key, n, kind)
      PROVE  Counted'
  <2> DEFINE g == New_Item(n, kind)
             s == strings + IF kind = "String" THEN 1 ELSE 0
  <2>1. /\ g \in Heaps /\ n \in Items /\ g[n].kind # "FREE" /\ ~OwnsKey(g[n]) /\ Tally(g, s)
    BY TallyItem
  <2>2. s \in Nat /\ strings' = s + 1 BY <1>0, <1>5 DEF AddNewToObject
  <2> HIDE DEF g, s
  <2>3. Tally(add_item_to_array(WithKey(g, n, key, FALSE), o, n), s + 1)
    BY <1>2, <2>1, <2>2
  <2> QED BY <1>5, <2>2, <2>3 DEF AddNewToObject, Counted, g
<1>6. ASSUME NEW i \in Live(heap), NEW a \in Items, AddItemReferenceToArray(a, n, i)
      PROVE  Counted'
  <2> DEFINE g == Referring(heap, n, i)
  <2>1. g \in Heaps /\ n \in Items /\ Tally(g, strings) BY TallyReference
  <2> HIDE DEF g
  <2>2. Tally(add_item_to_array(g, a, n), strings) BY <1>0, <1>1, <2>1
  <2> QED BY <1>6, <2>2 DEF AddItemReferenceToArray, Counted, g
<1>7. ASSUME NEW i \in Live(heap), NEW o \in Items, NEW key \in Keys,
             AddItemReferenceToObject(o, key, n, i)
      PROVE  Counted'
  <2> DEFINE g == Referring(heap, n, i)
  <2>1. /\ g \in Heaps /\ n \in Items /\ g[n].kind # "FREE" /\ ~OwnsKey(g[n])
        /\ Tally(g, strings)
    BY TallyReference
  <2> HIDE DEF g
  <2>2. Tally(add_item_to_array(WithKey(g, n, key, FALSE), o, n), strings + 1)
    BY <1>0, <1>2, <2>1
  <2> QED BY <1>7, <2>2 DEF AddItemReferenceToObject, Counted, g
<1>8. ASSUME NEW i \in Live(heap), AddItemReferenceFails(n, i) PROVE Counted'
  BY <1>8, TallyReference DEF AddItemReferenceFails, Counted
<1>9. ASSUME References(n) PROVE Counted'
  BY <1>4, <1>6, <1>7, <1>8, <1>9 DEF References
<1> QED BY <1>3, <1>5, <1>9 DEF Creations

(* What is below a node is a set of nodes.                                 *)
LEMMA BelowItems ==
  ASSUME NEW h \in Heaps, NEW x \in Items
  PROVE  Below(h, x) \in SUBSET Items
<1>1. {x} \in SUBSET Items /\ FALSE \in BOOLEAN OBVIOUS
<1> QED BY <1>1, ReachClosed DEF Below

(* The calls that put an item into an array or object keep the count.      *)
LEMMA AdditionsCount ==
  ASSUME Inv, Counted, NEW p \in Owners, NEW i \in roots, Additions(p, i)
  PROVE  Counted'
<1>1. /\ heap \in Heaps /\ i \in Items /\ p \in Items /\ heap[i].kind # "FREE"
      /\ IsList(heap, p) /\ Sound(heap, roots, lost) /\ Members(heap, p) \subseteq Items
      /\ \A key \in Keys : Named(heap, p, key) # NULL => Named(heap, p, key) \in Members(heap, p)
  <2>1. PICK par : Linkage(heap, par) /\ Held(heap, par, roots, lost) BY DEF Inv, Sound
  <2>2. /\ heap \in Heaps /\ i \in Items /\ p \in Items /\ IsList(heap, p)
        /\ Sound(heap, roots, lost)
    BY SoundHeap, NamesMembers DEF Inv
  <2>3. heap[i].kind # "FREE" BY <2>1, <2>2 DEF Held
  <2>4. Members(heap, p) \subseteq Items BY <2>1, <2>2, ListOf
  <2> HIDE DEF Inv
  <2> QED BY <2>2, <2>3, <2>4, NamedMember
<1>2. strings \in Nat /\ Tally(heap, strings) BY StringsOfAll DEF Counted, Tally
<1>3. ASSUME NEW key \in Keys, NEW const \in BOOLEAN
      PROVE  /\ WithKey(heap, i, key, const) \in Heaps
             /\ Tally(WithKey(heap, i, key, const), strings - KeyFreed(i) + KeyCopied(const))
  <2> DEFINE d == (IF key # NULL /\ ~const THEN 1 ELSE 0) - (IF OwnsKey(heap[i]) THEN 1 ELSE 0)
  <2>1. WithKey(heap, i, key, const) \in Heaps BY <1>1, KeySet, SoundHeap
  <2>2. Tally(WithKey(heap, i, key, const), strings + d) BY <1>1, <1>2, TallyKey
  <2>3. key # NULL BY ItemsAssumption
  <2>4. strings + d = strings - KeyFreed(i) + KeyCopied(const)
    BY <1>2, <2>3 DEF KeyFreed, KeyCopied
  <2> QED BY <2>1, <2>2, <2>4
<1> HIDE DEF Inv, Counted
<1>4. ASSUME NEW h \in Heaps, NEW s, Tally(h, s), NEW x \in Items
      PROVE  /\ Tally(add_item_to_array(h, p, i), s)
             /\ Tally(Inserted(h, p, x, i), s)
             /\ LET g == Replaced(h, p, x, i)
                IN Tally(Freed(g, x), s - Strings(g, Below(g, x)))
  <2> DEFINE g == Replaced(h, p, x, i)
  <2>1. /\ Relinked(h, add_item_to_array(h, p, i)) /\ Relinked(h, Inserted(h, p, x, i))
        /\ Relinked(h, g)
    BY <1>1, StepsRelink
  <2> HIDE DEF g
  <2>2. /\ Tally(add_item_to_array(h, p, i), s) /\ Tally(Inserted(h, p, x, i), s)
        /\ Tally(g, s) /\ g \in Heaps
    BY <1>4, <2>1, TallyRelinked DEF Relinked
  <2>3. Below(g, x) \in SUBSET Items BY <2>2, BelowItems
  <2>4. Tally(Freed(g, x), s - Strings(g, Below(g, x))) BY <2>2, <2>3, TallyFreed
  <2> QED BY <2>2, <2>4 DEF g
<1>5. ASSUME AddItemToArray(p, i) PROVE Counted'
  BY <1>1, <1>2, <1>4, <1>5 DEF AddItemToArray, Counted
<1>6. ASSUME NEW key \in Keys, NEW const \in BOOLEAN, AddItemToObject(p, key, i, const)
      PROVE  Counted'
  BY <1>1, <1>3, <1>4, <1>6 DEF AddItemToObject, Counted
<1>7. ASSUME NEW b \in Members(heap, p), InsertItemInArray(p, b, i) PROVE Counted'
  BY <1>1, <1>2, <1>4, <1>7 DEF InsertItemInArray, Counted
<1>8. ASSUME NEW x \in Members(heap, p), ReplaceItemInArray(p, x, i) PROVE Counted'
  BY <1>1, <1>2, <1>4, <1>8 DEF ReplaceItemInArray, Released, Counted
<1>9. ASSUME NEW key \in Keys, ReplaceItemInObject(p, key, i) PROVE Counted'
  <2> DEFINE x == Named(heap, p, key)
             k == WithKey(heap, i, key, FALSE)
             s == strings - KeyFreed(i) + 1
             g == Replaced(k, p, x, i)
  <2>1. k \in Heaps /\ Tally(k, s) BY <1>3 DEF KeyCopied
  <2>2. CASE x = NULL BY <1>9, <2>1, <2>2 DEF ReplaceItemInObject, Counted
  <2>3. CASE x # NULL
    <3> DEFINE t == Strings(g, Below(g, x))
    <3>1. heap' = Freed(g, x) /\ strings' = (strings - KeyFreed(i)) + (1 - t)
      BY <1>9, <2>3, Zenon DEF ReplaceItemInObject
    <3>2. x \in Items BY <1>1, <2>3
    <3> HIDE DEF x, k
    <3>4. t \in Nat
      <4>1. Relinked(k, g) BY <1>1, <2>1, <3>2, StepsRelink
      <4> HIDE DEF g
      <4>2. Below(g, x) \in SUBSET Items BY <3>2, <4>1, BelowItems DEF Relinked
      <4> QED BY <4>2, StringsOfAll
    <3>5. strings' = s - t
      <4> HIDE DEF t
      <4> QED BY <1>2, <3>1, <3>4 DEF KeyFreed
    <3> HIDE DEF s
    <3>3. Tally(Freed(g, x), s - Strings(g, Below(g, x))) BY <1>4, <2>1, <3>2
    <3> QED BY <3>1, <3>3, <3>5 DEF Counted
  <2> QED BY <2>2, <2>3
<1> QED BY <1>5, <1>6, <1>7, <1>8, <1>9 DEF Additions

(* The calls that take items out keep the count.                           *)
LEMMA RemovalsCount ==
  ASSUME Inv, Counted, NEW p \in Owners, NEW x \in CanName(p),
         DetachItem(p, x) \/ DeleteItem(p, x)
  PROVE  Counted'
<1> DEFINE h == Detached(heap, p, x)
<1>1. /\ heap \in Heaps /\ p \in Items /\ IsList(heap, p) /\ x \in Members(heap, p)
      /\ Sound(heap, roots, lost)
  BY SoundHeap, NamesMembers DEF Inv
<1>2. x \in Items BY <1>1, SoundDetached
<1>3. Relinked(heap, h) BY <1>1, <1>2, StepsRelink
<1> HIDE DEF h, Inv
<1>4. Tally(h, strings) /\ h \in Heaps BY <1>3, TallyRelinked DEF Relinked, Counted
<1>5. CASE DetachItem(p, x) BY <1>4, <1>5 DEF DetachItem, Counted, h
<1>6. CASE DeleteItem(p, x)
  <2>1. heap' = Freed(h, x) /\ strings' = strings - Strings(h, Below(h, x))
    BY <1>6 DEF DeleteItem, Released, h
  <2>2. Tally(Freed(h, x), strings - Strings(h, Below(h, x)))
    BY <1>2, <1>4, BelowItems, TallyFreed
  <2> QED BY <2>1, <2>2 DEF Counted
<1> QED BY <1>5, <1>6

(* The calls about an item of the caller alone keep the count.             *)
LEMMA RootCallsCount ==
  ASSUME Inv, Counted, NEW x \in roots, Delete(x) \/ ReplaceItemFails(x)
  PROVE  Counted'
<1>1. heap \in Heaps /\ x \in Items /\ heap[x].kind # "FREE"
  <2>1. PICK par : Held(heap, par, roots, lost) BY DEF Inv, Sound
  <2>2. heap \in Heaps /\ x \in Items BY SoundHeap DEF Inv
  <2> QED BY <2>1, <2>2 DEF Held
<1>2. strings \in Nat /\ Tally(heap, strings) BY StringsOfAll DEF Counted, Tally
<1> HIDE DEF Inv
<1>3. CASE Delete(x)
  <2>1. heap' = Freed(heap, x) /\ strings' = strings - Strings(heap, Below(heap, x))
    BY <1>3 DEF Delete, Released
  <2>2. Tally(Freed(heap, x), strings - Strings(heap, Below(heap, x)))
    BY <1>1, <1>2, BelowItems, TallyFreed
  <2> QED BY <2>1, <2>2 DEF Counted
<1>4. CASE ReplaceItemFails(x)
  <2> DEFINE g == [heap EXCEPT ![x].string = NULL]
             d == Worth(g[x]) - Worth(heap[x])
  <2>1. heap' = g /\ strings' = strings - KeyFreed(x) BY <1>4 DEF ReplaceItemFails
  <2>2. /\ \A m \in Items : m # x => g[m] = heap[m]
        /\ g[x].kind = heap[x].kind /\ g[x].ref = heap[x].ref /\ g[x].string = NULL
    BY <1>1 DEF Heaps, Struct
  <2> HIDE DEF g
  <2>3. d = 0 - KeyFreed(x) BY <2>2 DEF Worth, OwnsString, OwnsKey, KeyFreed
  <2>4. Tally(g, strings + d) BY <1>1, <1>2, <2>2, TallyChanged
  <2> HIDE DEF d
  <2>5. strings + d = strings - KeyFreed(x) BY <1>2, <2>3 DEF KeyFreed
  <2> QED BY <2>1, <2>4, <2>5 DEF Counted
<1> QED BY <1>3, <1>4

(* f leads from the nodes of S, which are in use, to those of F.           *)
CopyOf(h, S, f, F) ==
  f \in [S -> Items] /\ F = {f[m] : m \in S} /\ \A m \in S : h[m].kind # "FREE"

(* Copies are in use, and all other nodes as they were.                    *)
LEMMA CopiesOf ==
  ASSUME NEW h, NEW S, NEW x, NEW f, NEW F, CopyOf(h, S, f, F)
  PROVE  LET g == Copied(h, f, x)
         IN /\ \A n \in Items \ F : g[n] = h[n]
            /\ \A n \in F : g[n].kind # "FREE"
<1> DEFINE g == Copied(h, f, x)
           D == DOMAIN f
           src(n) == CHOOSE m \in D : f[m] = n
           to(m) == IF m \in D THEN f[m] ELSE NULL
           before(m) ==
             IF m = x THEN NULL
             ELSE IF \E p \in D : h[p].child = m
                  THEN f[List(h, m)[Len(List(h, m))]]
                  ELSE f[CHOOSE p \in D \ {x} : h[p].next = m]
           copy(m) == [h[m] EXCEPT !.ref = FALSE, !.of = NULL, !.child = to(@), !.prev = before(m),
                                   !.next = IF m = x THEN NULL ELSE to(@)]
<1>0. f \in [S -> Items] /\ F = {f[m] : m \in S} /\ \A m \in S : h[m].kind # "FREE"
  BY DEF CopyOf
<1>1. D = S BY <1>0
<1>2. g = [n \in Items |-> IF \E m \in D : f[m] = n THEN copy(src(n)) ELSE h[n]]
  BY Zenon DEF Copied
<1> HIDE DEF g, D
<1>3. ASSUME NEW n \in Items \ F PROVE g[n] = h[n]
  <2>1. ~\E m \in D : f[m] = n BY <1>0, <1>1
  <2> HIDE DEF src, copy
  <2> QED BY <1>2, <2>1
<1>4. ASSUME NEW n \in F PROVE g[n].kind # "FREE"
  <2>1. src(n) \in S /\ src(n) \in D /\ f[src(n)] = n BY <1>0, <1>1, <1>4
  <2> HIDE DEF src, copy
  <2>2. n \in Items /\ g[n] = copy(src(n)) BY <1>0, <1>2, <2>1
  <2>3. \A m : copy(m).kind = h[m].kind
    <3> HIDE DEF to, before
    <3> QED BY DEF copy
  <2> QED BY <1>0, <2>1, <2>2, <2>3
<1> QED BY <1>3, <1>4 DEF g

(* A copy keeps the count.                                                 *)
LEMMA DuplicateCounts ==
  ASSUME Inv, Counted, NEW x \in Live(heap), NEW recurse \in BOOLEAN, Duplicate(x, recurse)
  PROVE  Counted'
<1> DEFINE S == IF recurse THEN Nest(heap, x) ELSE {x}
<1>1. x \in Items /\ heap[x].kind # "FREE" BY DEF Live
<1>2. \A m \in S : heap[m].kind # "FREE"
  <2>1. CASE recurse
    <3>1. IsTree(heap, x) BY <2>1 DEF Duplicate
    <3>2. PICK par : Linkage(heap, par) BY DEF Inv, Sound
    <3>3. \A m \in Nest(heap, x) : heap[m].kind # "FREE" BY <1>1, <3>1, <3>2, TreeOwners
    <3> QED BY <2>1, <3>3
  <2>2. CASE ~recurse BY <1>1, <2>2
  <2> QED BY <2>1, <2>2
<1>3. PICK f \in [S -> Unused] :
        heap' = Copied(heap, f, x) /\ strings' = strings + Strings(heap', {f[m] : m \in S})
  BY DEF Duplicate
<1> HIDE DEF S, Inv
<1> DEFINE F == {f[m] : m \in S}
<1>4. f \in [S -> Items] /\ F \in SUBSET Items /\ \A n \in F : heap[n].kind = "FREE"
  BY DEF Unused, Live
<1> HIDE DEF F
<1>5. /\ \A n \in Items \ F : heap'[n] = heap[n]
      /\ \A n \in F : heap'[n].kind # "FREE"
  <2> DEFINE g == Copied(heap, f, x)
  <2>1. CopyOf(heap, S, f, F) BY <1>2, <1>4 DEF F, CopyOf
  <2>2. /\ \A n \in Items \ F : g[n] = heap[n]
        /\ \A n \in F : g[n].kind # "FREE"
    BY <2>1, CopiesOf
  <2> HIDE DEF g
  <2>3. heap' = g BY <1>3 DEF g
  <2> QED BY <2>2, <2>3
<1>6. Tally(heap', strings + Strings(heap', F)) BY <1>4, <1>5, TallyMore DEF Counted
<1> QED BY <1>3, <1>6 DEF Counted, F

(* No call breaks the count.                                               *)
LEMMA CallsCount == Inv /\ Counted /\ [Call]_itemVars => Counted'
<1> SUFFICES ASSUME Inv, Counted, [Call]_itemVars PROVE Counted' OBVIOUS
<1>1. CASE \E n \in Unused : Creations(n) BY <1>1, CreationsCount
<1>2. CASE \E p \in Owners, i \in roots : Additions(p, i) BY <1>2, AdditionsCount
<1>3. CASE \E p \in Owners : \E x \in CanName(p) : DetachItem(p, x) \/ DeleteItem(p, x)
  BY <1>3, RemovalsCount
<1>4. CASE \E x \in roots : Delete(x) \/ ReplaceItemFails(x) BY <1>4, RootCallsCount
<1>5. CASE \E x \in Live(heap) \ lost, recurse \in BOOLEAN : Duplicate(x, recurse)
  BY <1>5, DuplicateCounts
<1>6. CASE UNCHANGED itemVars BY <1>6 DEF itemVars, Counted
<1> QED BY <1>1, <1>2, <1>3, <1>4, <1>5, <1>6 DEF Call

(* In the beginning there are none.                                        *)
LEMMA InitCounted == ItemsInit => Counted
<1> SUFFICES ASSUME ItemsInit PROVE Counted OBVIOUS
<1>1. \A n \in Items : ~OwnsString(heap[n]) /\ ~OwnsKey(heap[n])
  BY DEF ItemsInit, Free, OwnsString, OwnsKey
<1>2. Strings(heap, Items) = 0 BY <1>1, StringsNone
<1> QED BY <1>1, <1>2 DEF Counted, Tally, ItemsInit

-----------------------------------------------------------------------------
(* Ownership                                                               *)

(* h has the links of v, but for some lists that are not hung up yet: they *)
(* begin with nodes of S.  What has no parent is of S, or lost: of L.      *)
Hung(h, v, par, S, L) ==
  /\ \A n \in Items : /\ h[n].kind = "FREE" <=> v[n].kind = "FREE"
                      /\ h[n].next = v[n].next /\ h[n].ref = v[n].ref
                      /\ h[n].child = v[n].child \/ (h[n].child = NULL /\ v[n].child \in S)
  /\ S \subseteq Live(v) /\ L \subseteq Live(v)
  /\ \A n \in Live(v) : par[n] = NULL => n \in S \union L
  /\ \A n \in L : par[n] = NULL /\ ~IsList(v, n)

(* Then what is in use is below the nodes of S, or lost.                   *)
LEMMA Covered ==
  ASSUME NEW h \in Heaps, NEW v, NEW par, Linkage(v, par), Grounded(par), NEW S, NEW L,
         Hung(h, v, par, S, L)
  PROVE  /\ Live(h) = (UNION {Below(h, x) : x \in S}) \union L
         /\ Reach(h, Live(h), TRUE) \subseteq Live(h)
<1> DEFINE V == Live(v)
           C == (UNION {Below(h, x) : x \in S}) \union L
<1>1. V \in SUBSET Items /\ V = Live(h) BY DEF Live, Hung
<1>2. v \in Heaps BY DEF Linkage
<1>3. S \in SUBSET Items /\ S \subseteq V /\ L \subseteq V BY <1>1 DEF Hung
<1>4. ASSUME NEW n \in V, NEW deep \in BOOLEAN
      PROVE  Links(h, n, deep) \ {NULL} \subseteq V
  <2>1. Links(v, n, TRUE) \ {NULL} \subseteq Live(v) BY LiveLinks
  <2>2. /\ v[n].next # NULL => v[n].next \in V
        /\ v[n].child # NULL => v[n].child \in V
    BY <2>1 DEF Links
  <2>3. n \in Items BY <1>1
  <2>4. h[n].next = v[n].next /\ (h[n].child = v[n].child \/ h[n].child = NULL)
    BY <2>3 DEF Hung
  <2> HIDE DEF V
  <2> QED BY <2>2, <2>4 DEF Links
<1>5. ASSUME NEW x \in S
      PROVE  /\ Below(h, x) \subseteq V /\ x \in Below(h, x)
             /\ \A n \in Below(h, x) : /\ h[n].next # NULL => h[n].next \in Below(h, x)
                                       /\ ~h[n].ref /\ h[n].child # NULL =>
                                            h[n].child \in Below(h, x)
  <2> DEFINE X == {x}
             B == Reach(h, X, FALSE)
  <2>1. X \in SUBSET Items /\ X \subseteq V /\ FALSE \in BOOLEAN BY <1>3
  <2> HIDE DEF X, V
  <2>2. B \subseteq V BY <1>1, <1>4, <2>1, ReachLeast
  <2>3. X \subseteq B /\ \A n \in B : Links(h, n, FALSE) \ {NULL} \subseteq B
    BY <2>1, ReachClosed
  <2> HIDE DEF B
  <2>4. \A n \in B : /\ h[n].next # NULL => h[n].next \in B
                     /\ ~h[n].ref /\ h[n].child # NULL => h[n].child \in B
    BY <2>3 DEF Links
  <2>5. B = Below(h, x) BY DEF B, X, Below
  <2> QED BY <2>2, <2>3, <2>4, <2>5 DEF X
<1> HIDE DEF V
<1>6. C \subseteq V BY <1>3, <1>5
<1>7. ASSUME NEW n \in C
      PROVE  /\ v[n].next # NULL => v[n].next \in C
             /\ IsList(v, n) /\ v[n].child # NULL => v[n].child \in C
  <2>1. n \in Items BY <1>1, <1>6
  <2>2. /\ h[n].next = v[n].next /\ h[n].ref = v[n].ref
        /\ h[n].child = v[n].child \/ (h[n].child = NULL /\ v[n].child \in S)
    BY <2>1 DEF Hung
  <2>3. CASE n \in L
    <3>1. par[n] = NULL /\ ~IsList(v, n) BY <2>3 DEF Hung
    <3>2. v[n].next = NULL BY <2>1, <3>1 DEF Linkage
    <3> QED BY <3>1, <3>2
  <2>4. CASE n \notin L
    <3>1. PICK x \in S : n \in Below(h, x) BY <2>4
    <3>2. \A m \in Below(h, x) : m \in C OBVIOUS
    <3>3. \A m \in S : m \in C BY <1>5
    <3> HIDE DEF C
    <3>4. v[n].next # NULL => v[n].next \in C BY <1>5, <2>2, <3>1, <3>2
    <3>5. ASSUME IsList(v, n), v[n].child # NULL PROVE v[n].child \in C
      <4>1. ~h[n].ref BY <2>2, <3>5 DEF IsList
      <4>2. CASE h[n].child = v[n].child BY <1>5, <3>1, <3>2, <3>5, <4>1, <4>2
      <4>3. CASE v[n].child \in S BY <3>3, <4>3
      <4> QED BY <2>2, <4>2, <4>3
    <3> QED BY <3>4, <3>5
  <2> QED BY <2>3, <2>4
<1>8. \A n \in Items : v[n].kind # "FREE" /\ par[n] = NULL => n \in C
  <2>1. \A n \in S \union L : n \in C BY <1>5
  <2> QED BY <2>1 DEF Hung, Live
<1>9. C \in SUBSET Items BY <1>1, <1>6
<1> HIDE DEF C
<1>10. Live(v) \subseteq C
  <2>1. \A n \in C : v[n].next # NULL => v[n].next \in C BY <1>7
  <2>2. \A n \in C : IsList(v, n) /\ v[n].child # NULL => v[n].child \in C BY <1>7
  <2> QED BY <1>8, <1>9, <2>1, <2>2, AllCovered
<1>11. Live(h) = C BY <1>1, <1>6, <1>10 DEF V
<1>12. Reach(h, V, TRUE) \subseteq V
  <2>1. V \subseteq V /\ TRUE \in BOOLEAN OBVIOUS
  <2>2. \A n \in V : Links(h, n, TRUE) \ {NULL} \subseteq V BY <1>4
  <2> QED BY <1>1, <2>1, <2>2, ReachLeast
<1> QED BY <1>1, <1>11, <1>12 DEF C

(* The strings are those of the nodes in use.                              *)
LEMMA CountedLive == Counted => strings \in Nat /\ strings = Strings(heap, Live(heap))
<1> SUFFICES ASSUME Counted PROVE strings \in Nat /\ strings = Strings(heap, Live(heap)) OBVIOUS
<1> DEFINE B == Live(heap)
<1>1. B \in SUBSET Items BY DEF Live
<1>2. \A n \in Items \ B : ~OwnsString(heap[n]) /\ ~OwnsKey(heap[n])
  BY DEF Counted, Tally, Live, OwnsString
<1> HIDE DEF B
<1>3. /\ Strings(heap, B) \in Nat /\ Strings(heap, Items \ B) \in Nat
      /\ Strings(heap, Items) = Strings(heap, B) + Strings(heap, Items \ B)
  BY <1>1, StringsOfAll
<1>4. Strings(heap, Items \ B) = 0 BY <1>2, StringsNone
<1>5. strings = Strings(heap, B) /\ strings \in Nat BY <1>3, <1>4 DEF Counted, Tally
<1> QED BY <1>5 DEF B

(* Between the calls the nodes in use are those of the caller, with what   *)
(* is below them, and the lost ones.                                       *)
LEMMA SoundOwned == Inv /\ Counted => OwnedBy(roots)
<1> SUFFICES ASSUME Inv, Counted PROVE OwnedBy(roots) OBVIOUS
<1>1. PICK par : Linkage(heap, par) /\ Held(heap, par, roots, lost) BY DEF Inv, Sound
<1>2. heap \in Heaps /\ Grounded(par) BY <1>1 DEF Linkage, Held
<1>3. Hung(heap, heap, par, roots, lost)
  <2>1. \A n \in Items : n \in roots \union lost <=> n \in Live(heap) /\ par[n] = NULL
    BY <1>1 DEF Held, Live
  <2>2. roots \subseteq Items /\ lost \subseteq Items /\ \A y \in lost : ~IsList(heap, y)
    BY <1>1 DEF Held
  <2>3. Live(heap) \subseteq Items BY DEF Live
  <2> QED BY <2>1, <2>2, <2>3 DEF Hung
<1>4. /\ Live(heap) = (UNION {Below(heap, x) : x \in roots}) \union lost
      /\ Reach(heap, Live(heap), TRUE) \subseteq Live(heap)
  BY <1>1, <1>2, <1>3, Covered
<1>5. strings = Strings(heap, Live(heap)) BY CountedLive
<1> QED BY <1>4, <1>5 DEF OwnedBy

(* The lists of a sound heap.                                              *)
LEMMA SoundLists == Inv => ListsLinked
<1> SUFFICES ASSUME Inv PROVE ListsLinked OBVIOUS
<1>1. PICK par : Linkage(heap, par) /\ Held(heap, par, roots, lost) BY DEF Inv, Sound
<1>2. ASSUME NEW p \in Owners
      PROVE  /\ p \in Items /\ p # NULL /\ Members(heap, p) = {n \in Items : par[n] = p}
             /\ Linked(heap, p) /\ Len(Kids(heap, p)) <= MaxItems
  <2>1. p \in Items /\ IsList(heap, p) BY DEF Owners, IsOwner, IsList
  <2> QED BY <1>1, <2>1, ListOf, Basics
<1>3. \A x \in roots : x \in Items /\ par[x] = NULL BY <1>1 DEF Held
<1>4. \A x \in roots : heap[x].next = NULL BY <1>1, <1>3 DEF Linkage
<1>5. \A p, q \in Owners : p # q => Members(heap, p) \intersect Members(heap, q) = {}
  BY <1>2
<1>6. \A p \in Owners : Members(heap, p) \intersect roots = {} BY <1>2, <1>3
<1> QED BY <1>2, <1>4, <1>5, <1>6 DEF ListsLinked

(* For the items of any heap: whatever the calls, each array and object    *)
(* has a list that ends and can be walked both ways, no item is in two of  *)
(* them, and none that the caller holds is in one.                         *)
THEOREM ListsStayLinked == ItemsSpec => []ListsLinked
<1>1. ItemsInit => Inv BY InitSound
<1>2. Inv /\ [Call]_itemVars => Inv' BY CallsKeep
<1>3. Inv => ListsLinked BY SoundLists
<1> QED BY <1>1, <1>2, <1>3, PTL DEF ItemsSpec

=============================================================================
