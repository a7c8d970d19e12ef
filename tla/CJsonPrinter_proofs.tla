------------------------- MODULE CJsonPrinter_proofs -------------------------
(***************************************************************************)
(* The parser and the printer of cJSON, with the calls of CJson, for a     *)
(* text of any length, any nesting limit and any strings.                  *)
(*                                                                         *)
(* The heap of a parser under way is described by what it will be once the *)
(* lists of the arrays and objects under way are hung up: that one is sound*)
(* (Built).  What the parser knows of the text is TInv; what the printer   *)
(* has written is in its buffer by BInv, with the length of a string, that *)
(* one loop counts and another one writes, found by induction.             *)
(*                                                                         *)
(* At the end: the whole implements JsonTree.                              *)
(***************************************************************************)
EXTENDS CJson_proofs, CJsonPrinter

-----------------------------------------------------------------------------
(* The parser                                                              *)

StackFrame == [item : Items, kind : Containers, head : Nodes, tail : Nodes]

(* The kind of a node is set.                                              *)
WithKind(h, n, kind) == [h EXCEPT ![n].kind = kind]

(* h is what the parser has built of the document of item d, with the      *)
(* lists of st still to be hung up; v is what it will be with them.        *)
FrameOK(h, v, st, d, k) ==
  /\ st[k].item = IF k = 1 THEN d ELSE st[k - 1].tail
  /\ h[st[k].item].kind = "Invalid" /\ h[st[k].item].child = NULL
  /\ v[st[k].item].kind = st[k].kind /\ v[st[k].item].child = st[k].head
  /\ st[k].head # NULL => v[st[k].head].prev = st[k].tail
  /\ k < Len(st) => st[k].head # NULL

Resembles(h, v, st) ==
  \A n \in Items :
    /\ v[n].next = h[n].next /\ v[n].ref = h[n].ref
    /\ v[n].kind = "FREE" <=> h[n].kind = "FREE"
    /\ h[n].kind # "FREE" => ~h[n].ref
    /\ (\A k \in 1 .. Len(st) : n # st[k].item) => v[n].kind = h[n].kind /\ v[n].child = h[n].child
    /\ (\A k \in 1 .. Len(st) : n # st[k].head) => v[n].prev = h[n].prev

Built(h, v, st, d) ==
  /\ h \in Heaps /\ d \in Items /\ st \in Seq(StackFrame) /\ Sound(v, {d}, {})
  /\ Resembles(h, v, st)
  /\ \A k \in 1 .. Len(st) : FrameOK(h, v, st, d, k)
  /\ \A j, k \in 1 .. Len(st) : st[j].item = st[k].item => j = k

(* The arrays and objects under way are nested, each in the list of the    *)
(* one before.                                                             *)
Parented(v, st, par) ==
  \A k \in 1 .. Len(st) :
    /\ st[k].item \in Items /\ IsList(v, st[k].item)
    /\ par[st[k].item] = IF k = 1 THEN NULL ELSE st[k - 1].item
    /\ IF st[k].head = NULL THEN \A n \in Items : par[n] # st[k].item
       ELSE /\ st[k].head \in Items /\ par[st[k].head] = st[k].item
            /\ st[k].tail \in Items /\ par[st[k].tail] = st[k].item

(* There are parents for them.                                             *)
LEMMA BuiltParents ==
  ASSUME NEW h, NEW v, NEW st, NEW d, Built(h, v, st, d)
  PROVE  \E par : Linkage(v, par) /\ Held(v, par, {d}, {}) /\ Parented(v, st, par)
<1>1. PICK par : Linkage(v, par) /\ Held(v, par, {d}, {}) BY DEF Built, Sound
<1> DEFINE N == Len(st)
<1>2. N \in Nat /\ \A k \in 1 .. N : st[k] \in StackFrame BY DEF Built
<1> HIDE DEF N
<1>3. ASSUME NEW k \in 1 .. N
      PROVE  /\ st[k].item \in Items /\ IsList(v, st[k].item)
             /\ IF st[k].head = NULL THEN \A n \in Items : par[n] # st[k].item
                ELSE /\ st[k].head \in Items /\ par[st[k].head] = st[k].item
                     /\ st[k].tail \in Items /\ par[st[k].tail] = st[k].item
  <2>1. st[k] \in StackFrame /\ FrameOK(h, v, st, d, k) BY <1>2 DEF Built, N
  <2>2. /\ st[k].item \in Items /\ st[k].kind \in Containers /\ st[k].head \in Nodes
        /\ h[st[k].item].kind = "Invalid" /\ v[st[k].item].kind = st[k].kind
        /\ v[st[k].item].child = st[k].head
        /\ st[k].head # NULL => v[st[k].head].prev = st[k].tail
    BY <2>1 DEF FrameOK, StackFrame
  <2>3. IsList(v, st[k].item)
    <3>1. ~h[st[k].item].ref /\ v[st[k].item].ref = h[st[k].item].ref
      BY <2>2 DEF Built, Resembles
    <3> QED BY <2>2, <3>1 DEF IsList
  <2>4. ChildOK(v, par, st[k].item) BY <1>1, <2>2 DEF Linkage
  <2>5. CASE st[k].head = NULL BY <2>2, <2>3, <2>4, <2>5 DEF ChildOK
  <2>6. CASE st[k].head # NULL
    <3>1. st[k].head \in Items /\ par[st[k].head] = st[k].item
      BY <2>2, <2>3, <2>4, <2>6, Basics DEF ChildOK
    <3>2. MemberOK(v, par, st[k].head) BY <1>1, <2>2, <3>1, Basics DEF Linkage
    <3>3. st[k].tail # NULL /\ par[st[k].tail] = st[k].item
      BY <2>2, <2>6, <3>1, <3>2 DEF MemberOK
    <3>4. st[k].tail \in Items BY <2>1, <3>3, Basics DEF StackFrame
    <3> QED BY <2>2, <2>3, <2>6, <3>1, <3>3, <3>4
  <2> QED BY <2>2, <2>3, <2>5, <2>6
<1>4. ASSUME NEW k \in 1 .. N
      PROVE  par[st[k].item] = IF k = 1 THEN NULL ELSE st[k - 1].item
  <2>1. FrameOK(h, v, st, d, k) BY DEF Built, N
  <2>2. CASE k = 1
    <3>1. st[k].item = d BY <2>1, <2>2 DEF FrameOK
    <3>2. d \in Items BY DEF Built
    <3> QED BY <1>1, <2>2, <3>1, <3>2 DEF Held
  <2>3. CASE k # 1
    <3>1. k - 1 \in 1 .. N /\ k - 1 < N BY <1>2, <2>3
    <3>2. st[k].item = st[k - 1].tail BY <2>1, <2>3 DEF FrameOK
    <3>3. FrameOK(h, v, st, d, k - 1) BY <3>1 DEF Built, N
    <3>4. st[k - 1].head # NULL BY <3>1, <3>3 DEF FrameOK, N
    <3>5. par[st[k - 1].tail] = st[k - 1].item BY <1>3, <3>1, <3>4
    <3> QED BY <2>3, <3>2, <3>5
  <2> QED BY <2>2, <2>3
<1> QED BY <1>1, <1>3, <1>4 DEF N, Parented

(* The kind of a node without a list.                                      *)
LEMMA KindSet ==
  ASSUME NEW h, NEW R, Sound(h, R, {}), NEW n \in Items, h[n].kind # "FREE",
         h[n].kind \notin Containers, NEW kind \in Containers \union {"Number", "String", "Invalid"}
  PROVE  Sound(WithKind(h, n, kind), R, {})
<1> DEFINE g == WithKind(h, n, kind)
<1>1. PICK par : Linkage(h, par) /\ Held(h, par, R, {}) BY DEF Sound
<1>2. /\ h \in Heaps /\ par \in Parents /\ NULL \notin Items
      /\ \A m \in Nodes : m # NULL => m \in Items
      /\ \A m \in Items : /\ h[m].next \in Nodes /\ h[m].prev \in Nodes /\ h[m].child \in Nodes
                          /\ par[m] \in Nodes
  BY <1>1, Basics DEF Linkage
<1>3. g \in Heaps
  <2>1. [h[n] EXCEPT !.kind = kind] \in Struct BY <1>2 DEF Heaps, Struct
  <2>2. g = [h EXCEPT ![n] = [h[n] EXCEPT !.kind = kind]] BY DEF WithKind
  <2> HIDE DEF g
  <2> QED BY <1>2, <2>1, <2>2 DEF Heaps
<1>4. \A m \in Items : /\ g[m].kind = IF m = n THEN kind ELSE h[m].kind
                       /\ g[m].ref = h[m].ref /\ g[m].next = h[m].next /\ g[m].prev = h[m].prev
                       /\ g[m].child = h[m].child
  BY <1>2 DEF WithKind, Heaps, Struct
<1> HIDE DEF g
<1>5. kind # "FREE" BY DEF Containers
<1>6. \A m \in Items : par[m] # n
  <2> SUFFICES ASSUME NEW m \in Items, par[m] = n PROVE FALSE OBVIOUS
  <2>1. MemberOK(h, par, m) BY <1>1, <1>2 DEF Linkage
  <2> QED BY <2>1 DEF MemberOK, IsList
<1>7. ASSUME NEW m \in Items, par[m] # NULL PROVE MemberOK(g, par, m)
  <2>1. MemberOK(h, par, m) /\ par[m] \in Items /\ par[m] # n BY <1>1, <1>2, <1>6, <1>7 DEF Linkage
  <2>2. /\ h[m].prev \in Items
        /\ h[m].next # NULL => h[m].next \in Items
    BY <1>2, <2>1 DEF MemberOK
  <2> QED BY <1>4, <1>5, <2>1, <2>2 DEF MemberOK, IsList
<1>8. ASSUME NEW m \in Items, par[m] = NULL PROVE g[m].next = NULL BY <1>1, <1>4, <1>8 DEF Linkage
<1>9. ASSUME NEW p \in Items PROVE ChildOK(g, par, p)
  <2>1. ChildOK(h, par, p) /\ (h[p].child # NULL => h[p].child \in Items)
    BY <1>1, <1>2 DEF Linkage
  <2>2. CASE p = n
    <3>1. g[p].child = NULL BY <1>4, <2>1, <2>2 DEF ChildOK
    <3> QED BY <1>6, <2>2, <3>1 DEF ChildOK
  <2>3. CASE p # n BY <1>4, <1>5, <2>1, <2>3 DEF ChildOK, IsList
  <2> QED BY <2>2, <2>3
<1>10. NoCycle(g, par)
  <2> SUFFICES ASSUME NEW T \in SUBSET Items,
                      \A m \in T : par[m] # NULL /\ m # g[par[m]].child /\ g[m].prev \in T
               PROVE  T = {}
    BY DEF NoCycle
  <2>1. \A m \in T : par[m] # NULL /\ m # h[par[m]].child /\ h[m].prev \in T
    BY <1>2, <1>4
  <2> QED BY <1>1, <2>1 DEF Linkage, NoCycle
<1>11. Linkage(g, par) BY <1>2, <1>3, <1>7, <1>8, <1>9, <1>10 DEF Linkage
<1>12. Held(g, par, R, {}) BY <1>1, <1>4, <1>5 DEF Held
<1> QED BY <1>11, <1>12 DEF Sound, g

(* What the parser fills in is not yet an array or object under way.       *)
LEMMA NotUnderWay ==
  ASSUME NEW h, NEW v, NEW st, NEW d, Built(h, v, st, d), NEW c \in Items, v[c].kind = "Invalid"
  PROVE  /\ \A k \in 1 .. Len(st) : /\ st[k].item \in Items /\ c # st[k].item
                                    /\ st[k].head # NULL => st[k].head \in Items
         /\ c \in Nodes /\ h \in Heaps /\ v \in Heaps /\ Sound(v, {d}, {})
<1>1. h \in Heaps /\ v \in Heaps /\ Sound(v, {d}, {}) /\ c \in Nodes
  BY SoundHeap DEF Built, Nodes
<1>2. ASSUME NEW k \in 1 .. Len(st)
      PROVE  /\ st[k].item \in Items /\ c # st[k].item
             /\ st[k].head # NULL => st[k].head \in Items
  <2>1. FrameOK(h, v, st, d, k) /\ st[k] \in StackFrame BY DEF Built
  <2>2. /\ st[k].kind # "Invalid" /\ st[k].item \in Items
        /\ st[k].head # NULL => st[k].head \in Items
    BY <2>1, Basics DEF StackFrame, Containers
  <2> QED BY <2>1, <2>2 DEF FrameOK
<1> QED BY <1>1, <1>2

(* A scalar, or an empty array or object: the kind of a node is known.     *)
LEMMA BuiltFill ==
  ASSUME NEW h, NEW v, NEW st, NEW d, Built(h, v, st, d), NEW c \in Items,
         h[c].kind = "Invalid", v[c].kind = "Invalid",
         NEW kind \in Containers \union {"Number", "String"}
  PROVE  Built(WithKind(h, c, kind), WithKind(v, c, kind), st, d)
<1> DEFINE g == WithKind(h, c, kind)
           w == WithKind(v, c, kind)
<1>1. /\ \A k \in 1 .. Len(st) : /\ st[k].item \in Items /\ c # st[k].item
                                 /\ st[k].head # NULL => st[k].head \in Items
      /\ h \in Heaps /\ v \in Heaps /\ Sound(v, {d}, {})
  BY NotUnderWay
<1>2. kind \in Containers \union {"Number", "String", "Invalid"} /\ kind # "FREE"
  BY DEF Containers
<1>3. Sound(w, {d}, {}) BY <1>1, <1>2, KindSet DEF Containers
<1>4. g \in Heaps
  <2>1. [h[c] EXCEPT !.kind = kind] \in Struct BY <1>1, <1>2 DEF Heaps, Struct
  <2>2. g = [h EXCEPT ![c] = [h[c] EXCEPT !.kind = kind]] BY DEF WithKind
  <2> HIDE DEF g
  <2> QED BY <1>1, <2>1, <2>2 DEF Heaps
<1>5. \A m \in Items : /\ g[m].kind = IF m = c THEN kind ELSE h[m].kind
                       /\ g[m].ref = h[m].ref /\ g[m].next = h[m].next /\ g[m].prev = h[m].prev
                       /\ g[m].child = h[m].child
  BY <1>1 DEF WithKind, Heaps, Struct
<1>6. \A m \in Items : /\ w[m].kind = IF m = c THEN kind ELSE v[m].kind
                       /\ w[m].ref = v[m].ref /\ w[m].next = v[m].next /\ w[m].prev = v[m].prev
                       /\ w[m].child = v[m].child
  BY <1>1 DEF WithKind, Heaps, Struct
<1> HIDE DEF g, w
<1>7. Resembles(g, w, st)
  <2> SUFFICES ASSUME NEW n \in Items
               PROVE  /\ w[n].next = g[n].next /\ w[n].ref = g[n].ref
                      /\ w[n].kind = "FREE" <=> g[n].kind = "FREE"
                      /\ g[n].kind # "FREE" => ~g[n].ref
                      /\ (\A k \in 1 .. Len(st) : n # st[k].item) =>
                           w[n].kind = g[n].kind /\ w[n].child = g[n].child
                      /\ (\A k \in 1 .. Len(st) : n # st[k].head) => w[n].prev = g[n].prev
    BY DEF Resembles
  <2>1. /\ v[n].next = h[n].next /\ v[n].ref = h[n].ref
        /\ v[n].kind = "FREE" <=> h[n].kind = "FREE"
        /\ h[n].kind # "FREE" => ~h[n].ref
        /\ (\A k \in 1 .. Len(st) : n # st[k].item) => v[n].kind = h[n].kind /\ v[n].child = h[n].child
        /\ (\A k \in 1 .. Len(st) : n # st[k].head) => v[n].prev = h[n].prev
    BY DEF Built, Resembles
  <2> QED BY <1>2, <1>5, <1>6, <2>1
<1>8. ASSUME NEW k \in 1 .. Len(st) PROVE FrameOK(g, w, st, d, k)
  <2>1. FrameOK(h, v, st, d, k) BY DEF Built
  <2>2. /\ st[k].item \in Items /\ c # st[k].item
        /\ st[k].head # NULL => st[k].head \in Items
    BY <1>1
  <2> QED BY <1>5, <1>6, <2>1, <2>2 DEF FrameOK
<1> QED BY <1>3, <1>4, <1>7, <1>8 DEF Built, g, w

(* The node that the parser is to fill in is the last of those it has      *)
(* added.                                                                  *)
Awaited(st, d, c) ==
  IF st = <<>> THEN c = d ELSE st[Len(st)].head # NULL /\ c = st[Len(st)].tail

(* The first character of an array or object that is not empty.            *)
LEMMA BuiltOpen ==
  ASSUME NEW h, NEW v, NEW st, NEW d, Built(h, v, st, d), NEW c \in Items,
         h[c].kind = "Invalid", v[c].kind = "Invalid", NEW kind \in Containers,
         Awaited(st, d, c),
         NEW f, f = [item |-> c, kind |-> kind, head |-> NULL, tail |-> NULL]
  PROVE  Built(h, WithKind(v, c, kind), Append(st, f), d)
<1> DEFINE w == WithKind(v, c, kind)
           s == Append(st, f)
           N == Len(st)
<1>1. /\ \A k \in 1 .. N : /\ st[k].item \in Items /\ c # st[k].item
                           /\ st[k].head # NULL => st[k].head \in Items
      /\ h \in Heaps /\ v \in Heaps /\ Sound(v, {d}, {}) /\ c \in Nodes
  BY NotUnderWay
<1>2. Sound(w, {d}, {}) BY <1>1, KindSet DEF Containers
<1>3. \A m \in Items : /\ w[m].kind = IF m = c THEN kind ELSE v[m].kind
                       /\ w[m].ref = v[m].ref /\ w[m].next = v[m].next /\ w[m].prev = v[m].prev
                       /\ w[m].child = v[m].child
  BY <1>1 DEF WithKind, Heaps, Struct
<1> HIDE DEF w
<1>4. f \in StackFrame BY <1>1 DEF StackFrame, Nodes
<1>5. st \in Seq(StackFrame) /\ N \in Nat BY DEF Built
<1>6. /\ s \in Seq(StackFrame) /\ Len(s) = N + 1 /\ s[N + 1] = f
      /\ \A k \in 1 .. N : s[k] = st[k]
  BY <1>4, <1>5
<1>7. N # 0 => st # <<>> /\ N \in 1 .. N BY <1>5
<1>8. N = 0 => st = <<>> BY <1>5
<1> HIDE DEF s, N
<1>9. f.item = c /\ f.kind = kind /\ f.head = NULL /\ f.tail = NULL OBVIOUS
<1>10. h[c].child = NULL /\ v[c].child = NULL
  <2>1. PICK par : Linkage(v, par) BY <1>1 DEF Sound
  <2>2. ChildOK(v, par, c) BY <2>1 DEF Linkage
  <2>3. v[c].child = NULL BY <2>2 DEF ChildOK, Containers
  <2>4. v[c].child = h[c].child BY <1>1 DEF Built, Resembles, N
  <2> QED BY <2>3, <2>4
<1>11. Resembles(h, w, s)
  <2> SUFFICES ASSUME NEW n \in Items
               PROVE  /\ w[n].next = h[n].next /\ w[n].ref = h[n].ref
                      /\ w[n].kind = "FREE" <=> h[n].kind = "FREE"
                      /\ h[n].kind # "FREE" => ~h[n].ref
                      /\ (\A k \in 1 .. Len(s) : n # s[k].item) =>
                           w[n].kind = h[n].kind /\ w[n].child = h[n].child
                      /\ (\A k \in 1 .. Len(s) : n # s[k].head) => w[n].prev = h[n].prev
    BY DEF Resembles
  <2>1. /\ v[n].next = h[n].next /\ v[n].ref = h[n].ref
        /\ v[n].kind = "FREE" <=> h[n].kind = "FREE"
        /\ h[n].kind # "FREE" => ~h[n].ref
        /\ (\A k \in 1 .. N : n # st[k].item) => v[n].kind = h[n].kind /\ v[n].child = h[n].child
        /\ (\A k \in 1 .. N : n # st[k].head) => v[n].prev = h[n].prev
    BY DEF Built, Resembles, N
  <2>2. (\A k \in 1 .. Len(s) : n # s[k].item) => n # c /\ \A k \in 1 .. N : n # st[k].item
    <3>1. N + 1 \in 1 .. Len(s) /\ \A k \in 1 .. N : k \in 1 .. Len(s) BY <1>5, <1>6
    <3> QED BY <1>6, <1>9, <3>1
  <2>3. (\A k \in 1 .. Len(s) : n # s[k].head) => \A k \in 1 .. N : n # st[k].head
    <3>1. \A k \in 1 .. N : k \in 1 .. Len(s) BY <1>5, <1>6
    <3> QED BY <1>6, <3>1
  <2>4. kind # "FREE" BY DEF Containers
  <2> QED BY <1>3, <2>1, <2>2, <2>3, <2>4
<1>12. ASSUME NEW k \in 1 .. Len(s) PROVE FrameOK(h, w, s, d, k)
  <2>1. CASE k \in 1 .. N
    <3>1. FrameOK(h, v, st, d, k) BY <2>1 DEF Built, N
    <3>2. /\ st[k].item \in Items /\ c # st[k].item
          /\ st[k].head # NULL => st[k].head \in Items
      BY <1>1, <2>1
    <3>3. s[k] = st[k] /\ (k # 1 => s[k - 1] = st[k - 1]) BY <1>5, <1>6, <2>1
    <3>4. st[k].head # NULL
      <4>1. CASE k < N BY <3>1, <4>1 DEF FrameOK, N
      <4>2. CASE k = N BY <1>5, <1>7, <2>1, <4>2 DEF N, Awaited
      <4> QED BY <1>5, <2>1, <4>1, <4>2
    <3> QED BY <1>3, <3>1, <3>2, <3>3, <3>4 DEF FrameOK
  <2>2. CASE k = N + 1
    <3>1. s[k] = f /\ ~(k < Len(s)) BY <1>5, <1>6, <2>2
    <3>2. c = IF k = 1 THEN d ELSE s[k - 1].tail BY <1>5, <1>6, <1>7, <1>8, <2>2 DEF N, Awaited
    <3> QED BY <1>3, <1>9, <1>10, <3>1, <3>2 DEF FrameOK
  <2> QED BY <1>5, <1>6, <2>1, <2>2
<1>13. ASSUME NEW j \in 1 .. Len(s), NEW k \in 1 .. Len(s), s[j].item = s[k].item PROVE j = k
  <2>1. \A a, b \in 1 .. N : st[a].item = st[b].item => a = b BY DEF Built, N
  <2>2. \A a \in 1 .. N : s[a].item # c BY <1>1, <1>6
  <2>3. s[N + 1].item = c BY <1>6, <1>9
  <2> QED BY <1>5, <1>6, <1>13, <2>1, <2>2, <2>3
<1>14. d \in Items BY DEF Built
<1> QED BY <1>1, <1>2, <1>6, <1>11, <1>12, <1>13, <1>14 DEF Built, w, s

(* What is no link does not matter.                                        *)
LEMMA BuiltSame ==
  ASSUME NEW h, NEW v, NEW st, NEW d, Built(h, v, st, d), NEW g \in Heaps,
         \A n \in Items : /\ g[n].kind = h[n].kind /\ g[n].ref = h[n].ref
                          /\ g[n].next = h[n].next /\ g[n].prev = h[n].prev
                          /\ g[n].child = h[n].child
  PROVE  Built(g, v, st, d)
<1>1. Resembles(g, v, st) BY DEF Built, Resembles
<1>2. ASSUME NEW k \in 1 .. Len(st) PROVE FrameOK(g, v, st, d, k)
  <2>1. FrameOK(h, v, st, d, k) /\ st[k] \in StackFrame BY DEF Built
  <2> QED BY <2>1 DEF FrameOK, StackFrame
<1> QED BY <1>1, <1>2 DEF Built

(* With no array or object under way, the document is complete.            *)
LEMMA BuiltDone ==
  ASSUME NEW h, NEW v, NEW d, Built(h, v, <<>>, d)
  PROVE  Sound(h, {d}, {}) /\ \A n \in Items : h[n].kind # "FREE" => ~h[n].ref
<1> DEFINE st == <<>>
<1>1. 1 .. Len(st) = {} OBVIOUS
<1>2. h \in Heaps /\ Sound(v, {d}, {}) /\ Resembles(h, v, st) BY DEF Built
<1> HIDE DEF st
<1>3. \A n \in Items : /\ h[n].kind = v[n].kind /\ h[n].ref = v[n].ref
                       /\ h[n].next = v[n].next /\ h[n].prev = v[n].prev
                       /\ h[n].child = v[n].child /\ (h[n].kind # "FREE" => ~h[n].ref)
  BY <1>1, <1>2 DEF Resembles
<1> QED BY <1>2, <1>3, SoundSame

(* All of a stack but its last entry.                                      *)
LEMMA ShorterStack ==
  ASSUME NEW st \in Seq(StackFrame), st # <<>>
  PROVE  LET s == SubSeq(st, 1, Len(st) - 1)
         IN /\ s \in Seq(StackFrame) /\ Len(s) = Len(st) - 1 /\ Len(st) \in 1 .. Len(st)
            /\ \A k \in 1 .. Len(st) - 1 : s[k] = st[k] /\ k \in 1 .. Len(st)
<1> DEFINE s == SubSeq(st, 1, Len(st) - 1)
           N == Len(st)
           F == StackFrame
<1>1. N \in Nat /\ N >= 1 /\ st \in Seq(F) OBVIOUS
<1>2. \A k \in 1 .. N : st[k] \in F BY <1>1
<1> HIDE DEF F
<1>3. s = [k \in 1 .. N - 1 |-> st[k]] BY <1>1
<1>7. N - 1 \in Nat BY <1>1
<1> HIDE DEF s, N
<1>4. Len(s) = N - 1 /\ \A k \in 1 .. N - 1 : s[k] = st[k] /\ k \in 1 .. N
  BY <1>1, <1>3, <1>7
<1>5. s \in [1 .. N - 1 -> F] BY <1>1, <1>2, <1>3
<1>6. s \in Seq(F) BY <1>5, <1>7
<1>8. N \in 1 .. N BY <1>1
<1> QED BY <1>1, <1>4, <1>6, <1>8 DEF F, s, N

(* The end of an array or object: its list is hung up.                     *)
LEMMA BuiltClose ==
  ASSUME NEW h, NEW v, NEW st, NEW d, Built(h, v, st, d), st # <<>>,
         NEW f, f = st[Len(st)], f.head # NULL
  PROVE  Built([h EXCEPT ![f.head].prev = f.tail, ![f.item].kind = f.kind,
                         ![f.item].child = f.head],
               v, SubSeq(st, 1, Len(st) - 1), d)
<1> DEFINE g == [h EXCEPT ![f.head].prev = f.tail, ![f.item].kind = f.kind,
                          ![f.item].child = f.head]
           s == SubSeq(st, 1, Len(st) - 1)
           N == Len(st)
<1>1. st \in Seq(StackFrame) /\ N \in Nat /\ N \in 1 .. N BY DEF Built
<1>2. /\ s \in Seq(StackFrame) /\ Len(s) = N - 1
      /\ \A k \in 1 .. N - 1 : s[k] = st[k] /\ k \in 1 .. N
  BY <1>1, ShorterStack
<1>3. /\ h \in Heaps /\ f.item \in Items /\ f.head \in Items /\ f.tail \in Nodes
      /\ f.kind \in Containers
  <2>1. f \in StackFrame BY <1>1
  <2> QED BY <2>1, Basics DEF Built, StackFrame
<1>4. /\ v[f.item].kind = f.kind /\ v[f.item].child = f.head /\ v[f.head].prev = f.tail
      /\ h[f.item].kind = "Invalid"
  BY <1>1 DEF Built, FrameOK
<1> HIDE DEF s, N
<1>5. g \in Heaps
  <2> DEFINE h1 == [h EXCEPT ![f.head].prev = f.tail]
             h2 == [h1 EXCEPT ![f.item].kind = f.kind]
  <2>1. h1 \in Heaps BY <1>3, LinkSet
  <2> HIDE DEF h1
  <2>2. h2 \in Heaps
    <3>1. [h1[f.item] EXCEPT !.kind = f.kind] \in Struct
      BY <1>3, <2>1 DEF Heaps, Struct
    <3>2. h2 = [h1 EXCEPT ![f.item] = [h1[f.item] EXCEPT !.kind = f.kind]] OBVIOUS
    <3> HIDE DEF h2
    <3> QED BY <1>3, <2>1, <3>1, <3>2 DEF Heaps
  <2>3. g = [h2 EXCEPT ![f.item].child = f.head] BY DEF h1
  <2>4. f.head \in Nodes BY <1>3 DEF Nodes
  <2> HIDE DEF h2, g
  <2> QED BY <1>3, <2>2, <2>3, <2>4, LinkSet
<1>6. \A n \in Items : /\ g[n].next = h[n].next /\ g[n].ref = h[n].ref
                       /\ g[n].prev = IF n = f.head THEN f.tail ELSE h[n].prev
                       /\ g[n].kind = IF n = f.item THEN f.kind ELSE h[n].kind
                       /\ g[n].child = IF n = f.item THEN f.head ELSE h[n].child
  BY <1>3 DEF Heaps, Struct
<1> HIDE DEF g
<1>7. Resembles(g, v, s)
  <2> SUFFICES ASSUME NEW n \in Items
               PROVE  /\ v[n].next = g[n].next /\ v[n].ref = g[n].ref
                      /\ v[n].kind = "FREE" <=> g[n].kind = "FREE"
                      /\ g[n].kind # "FREE" => ~g[n].ref
                      /\ (\A k \in 1 .. Len(s) : n # s[k].item) =>
                           v[n].kind = g[n].kind /\ v[n].child = g[n].child
                      /\ (\A k \in 1 .. Len(s) : n # s[k].head) => v[n].prev = g[n].prev
    BY DEF Resembles
  <2>1. /\ v[n].next = h[n].next /\ v[n].ref = h[n].ref
        /\ v[n].kind = "FREE" <=> h[n].kind = "FREE"
        /\ h[n].kind # "FREE" => ~h[n].ref
        /\ (\A k \in 1 .. N : n # st[k].item) => v[n].kind = h[n].kind /\ v[n].child = h[n].child
        /\ (\A k \in 1 .. N : n # st[k].head) => v[n].prev = h[n].prev
    BY DEF Built, Resembles, N
  <2>2. (\A k \in 1 .. Len(s) : n # s[k].item) /\ n # f.item => \A k \in 1 .. N : n # st[k].item
    BY <1>1, <1>2 DEF N
  <2>3. (\A k \in 1 .. Len(s) : n # s[k].head) /\ n # f.head => \A k \in 1 .. N : n # st[k].head
    BY <1>1, <1>2 DEF N
  <2>4. f.kind # "FREE" BY <1>3 DEF Containers
  <2> QED BY <1>4, <1>6, <2>1, <2>2, <2>3, <2>4
<1>8. \A j, k \in 1 .. N : st[j].item = st[k].item => j = k BY DEF Built, N
<1>9. ASSUME NEW k \in 1 .. Len(s) PROVE FrameOK(g, v, s, d, k)
  <2>1. k \in 1 .. N /\ k # N /\ k < N BY <1>1, <1>2
  <2>2. FrameOK(h, v, st, d, k) BY <2>1 DEF Built, N
  <2>3. s[k] = st[k] /\ (k # 1 => s[k - 1] = st[k - 1]) BY <1>1, <1>2
  <2>4. st[k].item # f.item BY <1>1, <1>8, <2>1 DEF N
  <2>5. st[k] \in StackFrame BY <1>1, <2>1 DEF N
  <2>7. st[k].item \in Items /\ st[k].head \in Nodes BY <2>5 DEF StackFrame
  <2>6. st[k].head # NULL BY <2>1, <2>2 DEF FrameOK, N
  <2> QED BY <1>6, <2>2, <2>3, <2>4, <2>6, <2>7, Basics DEF FrameOK
<1>10. \A j, k \in 1 .. Len(s) : s[j].item = s[k].item => j = k BY <1>1, <1>2, <1>8
<1>11. d \in Items /\ Sound(v, {d}, {}) BY DEF Built
<1> QED BY <1>2, <1>5, <1>7, <1>9, <1>10, <1>11 DEF Built, g, s

(* The node that the parser adds for the next element, which it links to   *)
(* the one before.                                                         *)
Fresh == [Zeroed EXCEPT !.kind = "Invalid"]
WithFresh(h, n) == [h EXCEPT ![n] = Fresh]
Elongated(h, f, n) ==
  IF f.head = NULL THEN WithFresh(h, n) ELSE suffix_object(WithFresh(h, n), f.tail, n)
LongerTop(f, n) == [f EXCEPT !.head = IF @ = NULL THEN n ELSE @, !.tail = n]
LongerStack(st, n) == [st EXCEPT ![Len(st)] = LongerTop(st[Len(st)], n)]

(* A new node without links.                                               *)
LEMMA FreshNode ==
  ASSUME NEW h \in Heaps, NEW n \in Items
  PROVE  /\ WithFresh(h, n) \in Heaps /\ WithFresh(h, n)[n] = Fresh
         /\ \A m \in Items : m # n => WithFresh(h, n)[m] = h[m]
         /\ Fresh \in Struct /\ Fresh.kind = "Invalid" /\ ~Fresh.ref /\ ~Fresh.const
         /\ Fresh.next = NULL /\ Fresh.prev = NULL /\ Fresh.child = NULL /\ Fresh.string = NULL
<1>2. /\ Fresh \in Struct /\ Fresh.kind = "Invalid" /\ ~Fresh.ref /\ ~Fresh.const
      /\ Fresh.next = NULL /\ Fresh.prev = NULL /\ Fresh.child = NULL /\ Fresh.string = NULL
  BY DEF Fresh, Zeroed, Free, Struct, Nodes, Containers
<1>3. /\ WithFresh(h, n) \in Heaps /\ WithFresh(h, n)[n] = Fresh
      /\ \A m \in Items : m # n => WithFresh(h, n)[m] = h[m]
  BY <1>2 DEF WithFresh, Heaps
<1> QED BY <1>2, <1>3

(* It is one more node without a parent.                                   *)
LEMMA SoundFreshNode ==
  ASSUME NEW h, NEW R, NEW L, Sound(h, R, L), NEW n \in Items, h[n].kind = "FREE"
  PROVE  Sound(WithFresh(h, n), R \union {n}, L) /\ n \notin R
<1>1. PICK par : Linkage(h, par) /\ Held(h, par, R, L) BY DEF Sound
<1> DEFINE g == WithFresh(h, n)
<1>2. /\ g \in Heaps /\ \A m \in Items : m # n => g[m] = h[m]
      /\ g[n].next = NULL /\ g[n].kind = "Invalid" /\ g[n].child = NULL
  BY SoundHeap, FreshNode
<1>3. g[n].child \notin Items BY <1>2, Basics
<1> HIDE DEF g
<1>4. Linkage(g, par) /\ par[n] = NULL BY <1>1, <1>2, <1>3, FreshLinks
<1>5. n \notin R /\ n \notin L BY <1>1 DEF Held
<1>6. \A y \in L : ~IsList(g, y) BY <1>1, <1>2, <1>5 DEF Held, IsList
<1>7. \A m \in Items : m \in (R \union {n}) \union L <=> g[m].kind # "FREE" /\ par[m] = NULL
  BY <1>1, <1>2, <1>4, <1>5 DEF Held
<1>8. Held(g, par, R \union {n}, L) BY <1>1, <1>5, <1>6, <1>7 DEF Held
<1> QED BY <1>4, <1>5, <1>8 DEF Sound, g

(* What changes with it.                                                   *)
Elongation(h, f, n, g) ==
  /\ g \in Heaps
  /\ \A m \in Items :
       /\ g[m].kind = IF m = n THEN "Invalid" ELSE h[m].kind
       /\ g[m].ref = IF m = n THEN FALSE ELSE h[m].ref
       /\ g[m].next = IF m = n THEN NULL
                      ELSE IF f.head # NULL /\ m = f.tail THEN n ELSE h[m].next
       /\ g[m].prev = IF m = n THEN IF f.head = NULL THEN NULL ELSE f.tail ELSE h[m].prev
       /\ g[m].child = IF m = n THEN NULL ELSE h[m].child
  /\ \A m \in Items : SameStrings(WithFresh(h, n), g, m)
  /\ g[n].string = NULL /\ ~g[n].const

(* A new node is the last of its list, or the only one.                    *)
LEMMA ElongatedEffect ==
  ASSUME NEW h \in Heaps, NEW n \in Items, NEW f, f.head # NULL => f.tail \in Items /\ f.tail # n
  PROVE  Elongation(h, f, n, Elongated(h, f, n))
<1> DEFINE e == WithFresh(h, n)
           g == Elongated(h, f, n)
<1>1. /\ e \in Heaps /\ e[n] = Fresh /\ \A m \in Items : m # n => e[m] = h[m]
      /\ Fresh.kind = "Invalid" /\ Fresh.ref = FALSE /\ ~Fresh.const
      /\ Fresh.next = NULL /\ Fresh.prev = NULL /\ Fresh.child = NULL /\ Fresh.string = NULL
  BY FreshNode
<1>2. n \in Nodes BY DEF Nodes
<1>3. CASE f.head = NULL
  <2>1. g = e BY <1>3 DEF Elongated
  <2> HIDE DEF g, e
  <2>2. \A m \in Items : SameStrings(e, g, m) BY <2>1 DEF SameStrings
  <2> QED BY <1>1, <1>3, <2>1, <2>2 DEF g, e, Elongation
<1>4. CASE f.head # NULL
  <2> DEFINE e1 == [e EXCEPT ![f.tail].next = n]
  <2>1. g = [e1 EXCEPT ![n].prev = f.tail] BY <1>4 DEF Elongated, suffix_object
  <2> HIDE DEF g, e
  <2>2. e1 \in Heaps BY <1>1, <1>2, <1>4, LinkSet
  <2>3. \A m \in Items : /\ e1[m].kind = e[m].kind /\ e1[m].ref = e[m].ref
                         /\ e1[m].next = IF m = f.tail THEN n ELSE e[m].next
                         /\ e1[m].prev = e[m].prev /\ e1[m].child = e[m].child
                         /\ e1[m].string = e[m].string /\ e1[m].const = e[m].const
    BY <1>1, <1>4 DEF Heaps, Struct
  <2> HIDE DEF e1
  <2>4. f.tail \in Nodes BY <1>4 DEF Nodes
  <2>5. g \in Heaps BY <2>1, <2>2, <2>4, LinkSet
  <2>6. \A m \in Items : /\ g[m].kind = e1[m].kind /\ g[m].ref = e1[m].ref
                         /\ g[m].next = e1[m].next
                         /\ g[m].prev = IF m = n THEN f.tail ELSE e1[m].prev
                         /\ g[m].child = e1[m].child
                         /\ g[m].string = e1[m].string /\ g[m].const = e1[m].const
    BY <2>1, <2>2 DEF Heaps, Struct
  <2>7. \A m \in Items : SameStrings(e, g, m)
    BY <2>3, <2>6 DEF SameStrings, OwnsString, OwnsKey
  <2>8. g[n].string = NULL /\ ~g[n].const BY <1>1, <2>3, <2>6
  <2>9. ASSUME NEW m \in Items
        PROVE  /\ g[m].kind = IF m = n THEN "Invalid" ELSE h[m].kind
               /\ g[m].ref = IF m = n THEN FALSE ELSE h[m].ref
               /\ g[m].child = IF m = n THEN NULL ELSE h[m].child
    <3>1. g[m].kind = e[m].kind /\ g[m].ref = e[m].ref /\ g[m].child = e[m].child
      BY <2>3, <2>6
    <3>2. CASE m = n BY <1>1, <3>1, <3>2
    <3>3. CASE m # n BY <1>1, <3>1, <3>3
    <3> QED BY <3>2, <3>3
  <2>10. ASSUME NEW m \in Items
         PROVE  /\ g[m].next = IF m = n THEN NULL ELSE IF m = f.tail THEN n ELSE h[m].next
                /\ g[m].prev = IF m = n THEN f.tail ELSE h[m].prev
    <3>1. e[m].next = IF m = n THEN NULL ELSE h[m].next BY <1>1
    <3>2. m # n => e[m].prev = h[m].prev BY <1>1
    <3>3. f.tail # n BY <1>4
    <3> QED BY <2>3, <2>6, <3>1, <3>2, <3>3
  <2> QED BY <1>4, <2>5, <2>7, <2>8, <2>9, <2>10 DEF g, e, Elongation
<1> QED BY <1>3, <1>4 DEF g, e

(* The stack then.                                                         *)
LEMMA LongerStackOf ==
  ASSUME NEW st \in Seq(StackFrame), st # <<>>, NEW n \in Items
  PROVE  LET s == LongerStack(st, n)
         IN /\ s \in Seq(StackFrame) /\ Len(s) = Len(st) /\ Len(st) \in Nat /\ Len(st) \in 1 .. Len(st)
            /\ \A k \in 1 .. Len(st) :
                 /\ st[k] \in StackFrame /\ s[k].item = st[k].item /\ s[k].kind = st[k].kind
                 /\ s[k].head = IF k = Len(st) /\ st[k].head = NULL THEN n ELSE st[k].head
                 /\ s[k].tail = IF k = Len(st) THEN n ELSE st[k].tail
<1> DEFINE N == Len(st)
           f == st[N]
           t == LongerTop(f, n)
           s == LongerStack(st, n)
<1>1. N \in Nat /\ N \in 1 .. N /\ \A k \in 1 .. N : st[k] \in StackFrame OBVIOUS
<1>2. f \in StackFrame BY <1>1
<1> HIDE DEF f
<1>3. /\ t \in StackFrame /\ t.item = f.item /\ t.kind = f.kind
      /\ t.head = (IF f.head = NULL THEN n ELSE f.head) /\ t.tail = n
  BY <1>2 DEF LongerTop, StackFrame, Nodes
<1> HIDE DEF t
<1>4. s = [st EXCEPT ![N] = t] BY DEF LongerStack, f, t
<1> HIDE DEF s
<1> DEFINE F == StackFrame
<1>5. st \in Seq(F) /\ t \in F BY <1>3
<1> HIDE DEF F
<1>6. s \in Seq(F) /\ Len(s) = N /\ \A k \in 1 .. N : s[k] = IF k = N THEN t ELSE st[k]
  BY <1>1, <1>4, <1>5
<1> HIDE DEF N
<1>7. ASSUME NEW k \in 1 .. N
      PROVE  /\ s[k].item = st[k].item /\ s[k].kind = st[k].kind
             /\ s[k].head = IF k = N /\ st[k].head = NULL THEN n ELSE st[k].head
             /\ s[k].tail = IF k = N THEN n ELSE st[k].tail
  <2>1. CASE k = N
    <3>1. st[k] = f BY <2>1 DEF f
    <3> QED BY <1>3, <1>6, <2>1, <3>1
  <2>2. CASE k # N BY <1>6, <2>2
  <2> QED BY <2>1, <2>2
<1> QED BY <1>1, <1>6, <1>7 DEF F, N, s

(* The next element of an array or object: what its list will be has it    *)
(* added.                                                                  *)
LEMMA BuiltElement ==
  ASSUME NEW h, NEW v, NEW st, NEW d, Built(h, v, st, d), st # <<>>, NEW n \in Items,
         h[n].kind = "FREE"
  PROVE  \E w : /\ Built(Elongated(h, st[Len(st)], n), w, LongerStack(st, n), d)
               /\ w[n].kind = "Invalid"
<1> DEFINE N == Len(st)
           f == st[N]
           s == LongerStack(st, n)
           g == Elongated(h, f, n)
           u == WithFresh(v, n)
           w == add_item_to_array(u, f.item, n)
<1>1. /\ h \in Heaps /\ v \in Heaps /\ d \in Items /\ st \in Seq(StackFrame) /\ Sound(v, {d}, {})
      /\ Resembles(h, v, st)
      /\ \A k \in 1 .. N : FrameOK(h, v, st, d, k)
      /\ \A j, k \in 1 .. N : st[j].item = st[k].item => j = k
  BY SoundHeap DEF Built
<1>2. /\ s \in Seq(StackFrame) /\ Len(s) = N /\ N \in Nat /\ N \in 1 .. N
      /\ \A k \in 1 .. N :
           /\ st[k] \in StackFrame /\ s[k].item = st[k].item /\ s[k].kind = st[k].kind
           /\ s[k].head = IF k = N /\ st[k].head = NULL THEN n ELSE st[k].head
           /\ s[k].tail = IF k = N THEN n ELSE st[k].tail
  BY <1>1, LongerStackOf
<1>3. PICK par : Linkage(v, par) /\ Held(v, par, {d}, {}) /\ Parented(v, st, par)
  BY BuiltParents
<1>4. st[N] = f OBVIOUS
<1> HIDE DEF N, f, s, g, u, w
<1>5. v[n].kind = "FREE" BY <1>1 DEF Resembles
<1>6. \A i \in Items : par[i] # NULL => v[i].kind # "FREE"
  BY <1>3 DEF Linkage, MemberOK
<1>7. ASSUME NEW k \in 1 .. N
      PROVE  /\ st[k].item \in Items /\ st[k].item # n /\ IsList(v, st[k].item)
             /\ st[k].head # NULL => /\ st[k].head \in Items /\ st[k].head # n
                                     /\ st[k].tail \in Items /\ st[k].tail # n
                                     /\ par[st[k].head] = st[k].item
  <2>1. st[k].item \in Items BY <1>3 DEF Parented, N
  <2>2. IsList(v, st[k].item) BY <1>3 DEF Parented, N
  <2>3. st[k].item # n BY <1>5, <2>2 DEF IsList, Containers
  <2>4. st[k].item # NULL BY <2>1, Basics
  <2>5. ASSUME st[k].head # NULL
        PROVE  /\ st[k].head \in Items /\ par[st[k].head] = st[k].item
               /\ st[k].tail \in Items /\ par[st[k].tail] = st[k].item
    BY <1>3, <2>5 DEF Parented, N
  <2> QED BY <1>5, <1>6, <2>1, <2>2, <2>3, <2>4, <2>5
<1>8. /\ f.item \in Items /\ f.item # n /\ IsList(v, f.item)
      /\ f.head # NULL => f.head \in Items /\ f.head # n /\ f.tail \in Items /\ f.tail # n
      /\ v[f.item].child = f.head /\ (f.head # NULL => v[f.head].prev = f.tail)
  <2>1. FrameOK(h, v, st, d, N) BY <1>1, <1>2
  <2> QED BY <1>2, <1>4, <1>7, <2>1 DEF FrameOK
<1>9. /\ u \in Heaps /\ u[n] = Fresh /\ \A m \in Items : m # n => u[m] = v[m]
      /\ Fresh.kind = "Invalid" /\ Fresh.ref = FALSE
      /\ Fresh.next = NULL /\ Fresh.prev = NULL /\ Fresh.child = NULL
  BY <1>1, FreshNode DEF u
<1>10. Sound(w, {d}, {})
  <2> DEFINE R == {d}
             L == {}
  <2>1. Sound(v, R, L) BY <1>1
  <2> HIDE DEF R, L
  <2>2. Sound(u, R \union {n}, L) /\ n \notin R
    BY <1>1, <1>5, <2>1, SoundFreshNode DEF u
  <2>3. IsList(u, f.item) BY <1>8, <1>9 DEF IsList
  <2>4. f.item \notin Below(u, n)
    <3>1. Below(u, n) = {n} BY <1>9, NothingBelow
    <3> QED BY <1>8, <3>1
  <2>5. Sound(w, (R \union {n}) \ {n}, L)
    <3>1. n \in R \union {n} OBVIOUS
    <3> QED BY <1>8, <2>2, <2>3, <2>4, <3>1, SoundAdded DEF w
  <2>6. (R \union {n}) \ {n} = R BY <2>2
  <2> QED BY <2>5, <2>6 DEF R, L
<1>11. \A x \in Items :
         /\ w[x].kind = u[x].kind /\ w[x].ref = u[x].ref
         /\ w[x].next = IF f.head = NULL THEN IF x = n THEN NULL ELSE u[x].next
                        ELSE IF x = f.tail THEN n ELSE u[x].next
         /\ w[x].prev = IF x = n THEN IF f.head = NULL THEN n ELSE f.tail
                        ELSE IF x = f.head THEN n ELSE u[x].prev
         /\ w[x].child = IF x = f.item /\ f.head = NULL THEN n ELSE u[x].child
  <2> DEFINE c == u[f.item].child
  <2>1. c = f.head /\ (c # NULL => u[c].prev = f.tail) BY <1>8, <1>9
  <2> HIDE DEF c
  <2>2. c # n BY <1>8, <2>1, Basics
  <2>3. c # NULL => c \in Items /\ u[c].prev \in Items /\ u[c].prev # n BY <1>8, <2>1
  <2>4. c = u[f.item].child BY DEF c
  <2>5. \A x \in Items :
          /\ w[x].kind = u[x].kind /\ w[x].ref = u[x].ref
          /\ w[x].next = IF c = NULL THEN IF x = n THEN NULL ELSE u[x].next
                         ELSE IF x = u[c].prev THEN n ELSE u[x].next
          /\ w[x].prev = IF x = n THEN IF c = NULL THEN n ELSE u[c].prev
                         ELSE IF x = c THEN n ELSE u[x].prev
          /\ w[x].child = IF x = f.item /\ c = NULL THEN n ELSE u[x].child
    BY <1>8, <1>9, <2>2, <2>3, <2>4, AddEffect DEF w
  <2> QED BY <2>1, <2>5
<1>12. /\ g \in Heaps
       /\ \A m \in Items :
            /\ g[m].kind = IF m = n THEN "Invalid" ELSE h[m].kind
            /\ g[m].ref = IF m = n THEN FALSE ELSE h[m].ref
            /\ g[m].next = IF m = n THEN NULL
                           ELSE IF f.head # NULL /\ m = f.tail THEN n ELSE h[m].next
            /\ g[m].prev = IF m = n THEN IF f.head = NULL THEN NULL ELSE f.tail
                           ELSE h[m].prev
            /\ g[m].child = IF m = n THEN NULL ELSE h[m].child
  <2>1. h \in Heaps BY <1>1
  <2>2. f.head # NULL => f.tail \in Items /\ f.tail # n BY <1>8
  <2>3. Elongation(h, f, n, g) BY <2>1, <2>2, ElongatedEffect DEF g
  <2> QED BY <2>3 DEF Elongation
<1>13. ASSUME NEW x \in Items
       PROVE  /\ w[x].kind = IF x = n THEN "Invalid" ELSE v[x].kind
              /\ w[x].ref = IF x = n THEN FALSE ELSE v[x].ref
              /\ w[x].next = IF x = n THEN NULL
                             ELSE IF f.head # NULL /\ x = f.tail THEN n ELSE v[x].next
              /\ w[x].prev = IF x = n THEN IF f.head = NULL THEN n ELSE f.tail
                             ELSE IF x = f.head THEN n ELSE v[x].prev
              /\ w[x].child = IF x = n THEN NULL
                              ELSE IF x = f.item /\ f.head = NULL THEN n ELSE v[x].child
  <2>1. CASE x = n BY <1>8, <1>9, <1>11, <2>1
  <2>2. CASE x # n
    <3>1. u[x] = v[x] BY <1>9, <2>2
    <3> QED BY <1>11, <2>2, <3>1
  <2> QED BY <2>1, <2>2
<1>14. Resembles(g, w, s)
  <2> SUFFICES ASSUME NEW x \in Items
               PROVE  /\ w[x].next = g[x].next /\ w[x].ref = g[x].ref
                      /\ w[x].kind = "FREE" <=> g[x].kind = "FREE"
                      /\ g[x].kind # "FREE" => ~g[x].ref
                      /\ (\A k \in 1 .. Len(s) : x # s[k].item) =>
                           w[x].kind = g[x].kind /\ w[x].child = g[x].child
                      /\ (\A k \in 1 .. Len(s) : x # s[k].head) => w[x].prev = g[x].prev
    BY DEF Resembles
  <2>1. /\ v[x].next = h[x].next /\ v[x].ref = h[x].ref
        /\ v[x].kind = "FREE" <=> h[x].kind = "FREE"
        /\ h[x].kind # "FREE" => ~h[x].ref
        /\ (\A k \in 1 .. N : x # st[k].item) => v[x].kind = h[x].kind /\ v[x].child = h[x].child
        /\ (\A k \in 1 .. N : x # st[k].head) => v[x].prev = h[x].prev
    BY <1>1 DEF Resembles, N
  <2>2. w[x].next = g[x].next /\ w[x].ref = g[x].ref
    <3>1. g[x].next = IF x = n THEN NULL
                      ELSE IF f.head # NULL /\ x = f.tail THEN n ELSE h[x].next
      BY <1>12
    <3>2. w[x].next = IF x = n THEN NULL
                      ELSE IF f.head # NULL /\ x = f.tail THEN n ELSE v[x].next
      BY <1>13
    <3>3. g[x].ref = (IF x = n THEN FALSE ELSE h[x].ref) BY <1>12
    <3>4. w[x].ref = (IF x = n THEN FALSE ELSE v[x].ref) BY <1>13
    <3> QED BY <2>1, <3>1, <3>2, <3>3, <3>4
  <2>3. w[x].kind = "FREE" <=> g[x].kind = "FREE" BY <1>12, <1>13, <2>1
  <2>4. g[x].kind # "FREE" => ~g[x].ref BY <1>12, <2>1
  <2>5. ASSUME \A k \in 1 .. Len(s) : x # s[k].item
        PROVE  w[x].kind = g[x].kind /\ w[x].child = g[x].child
    <3>1. (\A k \in 1 .. N : x # st[k].item) /\ x # f.item BY <1>2, <1>4, <2>5
    <3> QED BY <1>12, <1>13, <2>1, <3>1
  <2>6. ASSUME \A k \in 1 .. Len(s) : x # s[k].head PROVE w[x].prev = g[x].prev
    <3>1. \A k \in 1 .. N : x # s[k].head BY <1>2, <2>6
    <3>2. CASE f.head = NULL
      <4>1. x # n BY <1>2, <1>4, <3>1, <3>2
      <4>2. x # f.head BY <3>2, Basics
      <4>3. \A k \in 1 .. N : x # st[k].head BY <1>2, <1>4, <3>1, <4>2
      <4> QED BY <1>12, <1>13, <2>1, <4>1, <4>2, <4>3
    <3>3. CASE f.head # NULL
      <4>1. \A k \in 1 .. N : x # st[k].head BY <1>2, <1>4, <3>1, <3>3
      <4>2. x # f.head BY <1>2, <1>4, <4>1
      <4> QED BY <1>12, <1>13, <2>1, <3>3, <4>1, <4>2
    <3> QED BY <3>2, <3>3
  <2> QED BY <2>2, <2>3, <2>4, <2>5, <2>6
<1>15. ASSUME NEW k \in 1 .. N PROVE FrameOK(g, w, s, d, k)
  <2>1. FrameOK(h, v, st, d, k) BY <1>1
  <2>2. /\ st[k].item = IF k = 1 THEN d ELSE st[k - 1].tail
        /\ h[st[k].item].kind = "Invalid" /\ h[st[k].item].child = NULL
        /\ v[st[k].item].kind = st[k].kind /\ v[st[k].item].child = st[k].head
        /\ st[k].head # NULL => v[st[k].head].prev = st[k].tail
        /\ k < N => st[k].head # NULL
    BY <2>1 DEF FrameOK, N
  <2>3. /\ st[k].item \in Items /\ st[k].item # n
        /\ st[k].head # NULL => st[k].head \in Items /\ st[k].head # n /\ par[st[k].head] = st[k].item
    BY <1>7
  <2>4. s[k].item = IF k = 1 THEN d ELSE s[k - 1].tail
    <3>1. k # 1 => k - 1 \in 1 .. N /\ k - 1 # N BY <1>2
    <3> QED BY <1>2, <2>2, <3>1
  <2>5. g[s[k].item].kind = "Invalid" /\ g[s[k].item].child = NULL
    <3>1. s[k].item = st[k].item BY <1>2
    <3>2. g[st[k].item].kind = h[st[k].item].kind BY <1>12, <2>3
    <3>3. g[st[k].item].child = h[st[k].item].child BY <1>12, <2>3
    <3> QED BY <2>2, <3>1, <3>2, <3>3
  <2>6. CASE k = N
    <3>1. st[k] = f BY <1>4, <2>6
    <3>2. /\ s[k].item = f.item /\ s[k].kind = f.kind /\ s[k].tail = n
          /\ s[k].head = IF f.head = NULL THEN n ELSE f.head
      BY <1>2, <2>6, <3>1
    <3>3. w[f.item].kind = f.kind BY <1>8, <1>13, <2>2, <3>1
    <3>4. w[f.item].child = s[k].head BY <1>8, <1>13, <3>2
    <3>5. w[s[k].head].prev = n BY <1>8, <1>13, <3>2
    <3>6. ~(k < Len(s)) BY <1>2, <2>6
    <3> QED BY <2>4, <2>5, <3>2, <3>3, <3>4, <3>5, <3>6 DEF FrameOK
  <2>7. CASE k # N
    <3>1. s[k].item = st[k].item /\ s[k].kind = st[k].kind /\ s[k].head = st[k].head
          /\ s[k].tail = st[k].tail
      BY <1>2, <2>7
    <3>2. st[k].item # f.item BY <1>1, <1>2, <1>4, <2>7
    <3>3. st[k].head # NULL => st[k].head # f.head
      <4>1. f.head # NULL => par[f.head] = f.item BY <1>2, <1>4, <1>7
      <4> QED BY <2>3, <3>2, <4>1
    <3>4. w[st[k].item].kind = st[k].kind /\ w[st[k].item].child = st[k].head
      BY <1>13, <2>2, <2>3, <3>2
    <3>5. st[k].head # NULL => w[st[k].head].prev = st[k].tail
      BY <1>13, <2>2, <2>3, <3>3
    <3>6. k < Len(s) => st[k].head # NULL BY <1>2, <2>2
    <3> QED BY <2>4, <2>5, <3>1, <3>4, <3>5, <3>6 DEF FrameOK
  <2> QED BY <2>6, <2>7
<1>16. \A j, k \in 1 .. N : s[j].item = s[k].item => j = k BY <1>1, <1>2
<1>17. w[n].kind = "Invalid" BY <1>13
<1>18. Built(g, w, s, d) BY <1>1, <1>2, <1>10, <1>12, <1>14, <1>15, <1>16 DEF Built
<1> QED BY <1>17, <1>18 DEF f, g, s, N

(* A failure in an array or object: what the parser has of its list is     *)
(* freed.                                                                  *)
Unwound(h, f) == IF f.head = NULL THEN h ELSE Freed(h, f.head)
UnderTop(h, f) == IF f.head = NULL THEN {} ELSE Below(h, f.head)

(* That is all that hangs on the item of that array or object, and none of *)
(* the arrays and objects under way.                                       *)
LEMMA UnderTopOf ==
  ASSUME NEW h, NEW v, NEW st, NEW d, Built(h, v, st, d), st # <<>>, NEW par,
         Linkage(v, par), Parented(v, st, par), NEW p, p = st[Len(st)].item,
         NEW B, B = UnderTop(h, st[Len(st)])
  PROVE  /\ B \in SUBSET Items
         /\ \A k \in 1 .. Len(st) : st[k].item \notin B
         /\ \A n \in B : par[n] \in B \union {p} /\ par[n] # NULL
         /\ \A n \in B, k \in 1 .. Len(st) - 1 : par[n] # st[k].item
         /\ \A n \in Items : par[n] \in B \union {p} => n \in B
<1> DEFINE N == Len(st)
           f == st[N]
           SI == {st[k].item : k \in 1 .. N}
           Y == {n \in Items : n \notin SI /\ par[n] # NULL /\ (par[n] = p \/ par[n] \notin SI)}
<1>1. N \in Nat /\ N \in 1 .. N BY DEF Built
<1>2. /\ h \in Heaps /\ v \in Heaps /\ par \in Parents /\ NULL \notin Items
      /\ \A m \in Nodes : m # NULL => m \in Items
      /\ \A m \in Items : /\ h[m].next \in Nodes /\ h[m].child \in Nodes
                          /\ v[m].next \in Nodes /\ v[m].child \in Nodes /\ par[m] \in Nodes
  BY Basics DEF Linkage, Built
<1>3. /\ \A m \in Items : IF par[m] = NULL THEN v[m].next = NULL ELSE MemberOK(v, par, m)
      /\ \A q \in Items : ChildOK(v, par, q)
  BY DEF Linkage
<1>4. f.item = p /\ B = UnderTop(h, f) OBVIOUS
<1>5. \A j, k \in 1 .. N : st[j].item = st[k].item => j = k BY DEF Built
<1>6. \A k \in 1 .. N :
        /\ st[k].item \in Items /\ IsList(v, st[k].item)
        /\ par[st[k].item] = IF k = 1 THEN NULL ELSE st[k - 1].item
  BY DEF Parented
<1>7. /\ f.head = NULL => \A n \in Items : par[n] # p
      /\ f.head # NULL => f.head \in Items /\ par[f.head] = p
      /\ v[p].child = f.head
  <2>1. FrameOK(h, v, st, d, N) BY <1>1 DEF Built
  <2> QED BY <1>1, <2>1 DEF Parented, FrameOK
<1>8. \A n \in Items :
        /\ v[n].next = h[n].next /\ v[n].ref = h[n].ref
        /\ n \notin SI => v[n].kind = h[n].kind /\ v[n].child = h[n].child
  BY DEF Built, Resembles
<1> HIDE DEF N, f
<1>9. p \in SI /\ p \in Items /\ p # NULL /\ IsList(v, p) /\ SI \subseteq Items
  BY <1>1, <1>2, <1>4, <1>6 DEF f
<1>10. ASSUME NEW i \in SI
       PROVE  par[i] = NULL \/ (par[i] \in SI /\ par[i] # p)
  <2>1. PICK k \in 1 .. N : i = st[k].item OBVIOUS
  <2>2. CASE k = 1 BY <1>6, <2>1, <2>2
  <2>3. CASE k # 1
    <3>1. k - 1 \in 1 .. N /\ k - 1 # N BY <1>1, <2>3
    <3>2. par[i] = st[k - 1].item BY <1>6, <2>1, <2>3
    <3>3. st[k - 1].item # st[N].item BY <1>1, <1>5, <3>1
    <3> QED BY <1>4, <3>1, <3>2, <3>3 DEF f
  <2> QED BY <2>2, <2>3
<1>11. \A k \in 1 .. N : st[k].item \in SI OBVIOUS
<1>12. \A k \in 1 .. N - 1 : st[k].item \in SI /\ st[k].item # p
  <2>1. \A k \in 1 .. N - 1 : k \in 1 .. N /\ k # N BY <1>1
  <2> QED BY <1>1, <1>4, <1>5, <2>1 DEF f
<1> HIDE DEF SI
<1>13. ASSUME NEW n \in Items, n \notin SI, ~h[n].ref, h[n].child # NULL
       PROVE  h[n].child \in Items /\ par[h[n].child] = n
  <2>1. v[n].child = h[n].child /\ v[n].ref = h[n].ref BY <1>8, <1>13
  <2>2. ChildOK(v, par, n) BY <1>3
  <2>3. IsList(v, n) BY <1>13, <2>1, <2>2 DEF ChildOK, IsList
  <2> QED BY <1>2, <1>13, <2>1, <2>2, <2>3 DEF ChildOK
<1>14. ASSUME NEW n \in Items, par[n] # NULL, h[n].next # NULL
       PROVE  h[n].next \in Items /\ par[h[n].next] = par[n]
  BY <1>2, <1>3, <1>8, <1>14 DEF MemberOK
<1>15. CASE f.head = NULL
  <2>1. B = {} BY <1>4, <1>15 DEF UnderTop
  <2> QED BY <1>7, <1>15, <2>1
<1>16. CASE f.head # NULL
  <2> DEFINE X == {f.head}
  <2>1. X \in SUBSET Items /\ FALSE \in BOOLEAN BY <1>7, <1>16
  <2>2. B = Reach(h, X, FALSE) BY <1>4, <1>16 DEF UnderTop, Below
  <2>3. X \subseteq Y
    <3>1. f.head \notin SI BY <1>7, <1>9, <1>10, <1>16
    <3> QED BY <1>7, <1>9, <1>16, <3>1
  <2> HIDE DEF X
  <2>4. ASSUME NEW n \in Y PROVE Links(h, n, FALSE) \ {NULL} \subseteq Y
    <3>1. h[n].next # NULL => h[n].next \in Y
      <4> SUFFICES ASSUME h[n].next # NULL PROVE h[n].next \in Y OBVIOUS
      <4>1. h[n].next \in Items /\ par[h[n].next] = par[n] BY <1>14
      <4>2. h[n].next \notin SI BY <1>10, <4>1
      <4> QED BY <4>1, <4>2
    <3>2. ~h[n].ref /\ h[n].child # NULL => h[n].child \in Y
      <4> SUFFICES ASSUME ~h[n].ref, h[n].child # NULL PROVE h[n].child \in Y OBVIOUS
      <4>1. h[n].child \in Items /\ par[h[n].child] = n BY <1>13
      <4>2. n # NULL /\ n \notin SI BY <1>2
      <4>3. h[n].child \notin SI BY <1>10, <4>1, <4>2
      <4> QED BY <4>1, <4>2, <4>3
    <3> HIDE DEF Y
    <3> QED BY <3>1, <3>2 DEF Links
  <2>5. B \subseteq Y
    <3>1. Y \in SUBSET Items OBVIOUS
    <3> HIDE DEF Y
    <3> QED BY <1>2, <2>1, <2>2, <2>3, <2>4, <3>1, ReachLeast
  <2>6. \A n \in B : n \in Items /\ n \notin SI /\ par[n] # NULL /\ (par[n] = p \/ par[n] \notin SI)
    BY <2>5
  <2> HIDE DEF Y
  <2>7. X \subseteq B /\ B \in SUBSET Items /\ \A n \in B : Links(h, n, FALSE) \ {NULL} \subseteq B
    BY <1>2, <2>1, <2>2, ReachClosed
  <2>8. f.head \in B BY <2>7 DEF X
  <2>9. \A n \in B : /\ h[n].next # NULL => h[n].next \in B
                     /\ ~h[n].ref /\ h[n].child # NULL => h[n].child \in B
    BY <2>7 DEF Links
  <2>10. \A n \in B : par[n] \in B \union {p}
    <3> DEFINE Z == {m \in B : par[m] \in B \union {p}}
    <3>1. X \subseteq Z BY <1>7, <1>16, <2>8 DEF X
    <3>2. ASSUME NEW n \in Z PROVE Links(h, n, FALSE) \ {NULL} \subseteq Z
      <4>1. n \in B /\ n \in Items /\ n \notin SI /\ par[n] # NULL BY <2>6
      <4>2. h[n].next # NULL => h[n].next \in Z BY <1>14, <2>9, <4>1
      <4>3. ~h[n].ref /\ h[n].child # NULL => h[n].child \in Z BY <1>13, <2>9, <4>1
      <4> HIDE DEF Z
      <4> QED BY <4>2, <4>3 DEF Links
    <3>3. Z \in SUBSET Items BY <2>7
    <3> HIDE DEF Z
    <3>4. B \subseteq Z BY <1>2, <2>1, <2>2, <3>1, <3>2, <3>3, ReachLeast
    <3> QED BY <3>4 DEF Z
  <2>11. \A n \in B : v[n].next # NULL => v[n].next \in B BY <1>8, <2>6, <2>9
  <2>12. ASSUME NEW q \in B \union {p}, IsList(v, q)
         PROVE  \A n \in Items : par[n] = q => n \in B
    <3>1. q \in Items BY <1>9, <2>7
    <3>2. v[q].child # NULL => v[q].child \in B
      <4>1. CASE q = p BY <1>7, <2>8, <4>1
      <4>2. CASE q \in B
        <5>1. q \notin SI BY <2>6, <4>2
        <5>2. v[q].child = h[q].child /\ v[q].ref = h[q].ref BY <1>8, <3>1, <5>1
        <5> QED BY <2>9, <2>12, <4>2, <5>2 DEF IsList
      <4> QED BY <4>1, <4>2
    <3> QED BY <2>7, <2>11, <2>12, <3>1, <3>2, WholeList
  <2>13. ASSUME NEW n \in Items, par[n] \in B \union {p} PROVE n \in B
    <3>1. par[n] # NULL BY <1>2, <1>9, <2>7, <2>13
    <3>2. IsList(v, par[n]) BY <1>3, <3>1 DEF MemberOK
    <3> QED BY <2>12, <2>13, <3>2
  <2>14. \A k \in 1 .. N : st[k].item \notin B BY <1>11, <2>6
  <2>15. \A n \in B, k \in 1 .. N - 1 : par[n] # st[k].item BY <1>12, <2>6
  <2> QED BY <2>6, <2>7, <2>10, <2>13, <2>14, <2>15 DEF N
<1> QED BY <1>15, <1>16

(* So the list under way is cut off, and what is left is what the parser   *)
(* would have built without that array or object.                          *)
LEMMA BuiltUnwind ==
  ASSUME NEW h, NEW v, NEW st, NEW d, Built(h, v, st, d), st # <<>>
  PROVE  \E w : Built(Unwound(h, st[Len(st)]), w, SubSeq(st, 1, Len(st) - 1), d)
<1> DEFINE N == Len(st)
           f == st[N]
           p == f.item
           B == UnderTop(h, f)
           g == Unwound(h, f)
           s == SubSeq(st, 1, N - 1)
           w == [n \in Items |-> IF n \in B THEN Free
                                 ELSE IF n = p THEN [v[n] EXCEPT !.kind = "Invalid", !.child = NULL]
                                 ELSE v[n]]
<1>1. /\ h \in Heaps /\ v \in Heaps /\ d \in Items /\ st \in Seq(StackFrame) /\ Sound(v, {d}, {})
      /\ Resembles(h, v, st) /\ N \in Nat /\ N \in 1 .. N
      /\ \A k \in 1 .. N : FrameOK(h, v, st, d, k)
      /\ \A j, k \in 1 .. N : st[j].item = st[k].item => j = k
  BY SoundHeap DEF Built
<1>2. /\ s \in Seq(StackFrame) /\ Len(s) = N - 1
      /\ \A k \in 1 .. N - 1 : s[k] = st[k] /\ k \in 1 .. N
  BY <1>1, ShorterStack
<1>3. PICK par : Linkage(v, par) /\ Held(v, par, {d}, {}) /\ Parented(v, st, par)
  BY BuiltParents
<1>4. /\ B \in SUBSET Items
      /\ \A k \in 1 .. N : st[k].item \notin B
      /\ \A n \in B : par[n] \in B \union {p} /\ par[n] # NULL
      /\ \A n \in B, k \in 1 .. N - 1 : par[n] # st[k].item
      /\ \A n \in Items : par[n] \in B \union {p} => n \in B
  BY <1>3, UnderTopOf
<1>5. f.head # NULL => f.head \in Items /\ par[f.head] = p BY <1>1, <1>3 DEF Parented
<1>6. p \in Items /\ IsList(v, p) BY <1>1, <1>3 DEF Parented
<1>7. h[p].kind = "Invalid" /\ h[p].child = NULL /\ p \notin B
  BY <1>1, <1>4 DEF FrameOK
<1> HIDE DEF B, w
<1>8. /\ Free \in Struct /\ Free.kind = "FREE" /\ Free.next = NULL
  BY DEF Free, Struct, Nodes
<1>9. g \in Heaps /\ \A n \in Items : g[n] = IF n \in B THEN Free ELSE h[n]
  <2>1. CASE f.head = NULL
    <3>1. g = h /\ B = {} BY <2>1 DEF Unwound, UnderTop, B
    <3> QED BY <1>1, <3>1
  <2>2. CASE f.head # NULL
    <3>1. g = [n \in Items |-> IF n \in B THEN Free ELSE h[n]]
      BY <2>2 DEF Unwound, UnderTop, B, Freed
    <3> HIDE DEF g
    <3> QED BY <1>1, <1>8, <3>1 DEF Heaps
  <2> QED BY <2>1, <2>2
<1>10. /\ w \in Heaps /\ \A n \in B : w[n] = Free
       /\ \A n \in Items : n \notin B /\ n # p => w[n] = v[n]
       /\ w[p].kind = "Invalid" /\ w[p].child = NULL /\ w[p].next = v[p].next
       /\ w[p].prev = v[p].prev /\ w[p].ref = v[p].ref
  <2> DEFINE m == [v[p] EXCEPT !.kind = "Invalid", !.child = NULL]
  <2>1. /\ m \in Struct /\ m.kind = "Invalid" /\ m.child = NULL /\ m.next = v[p].next
        /\ m.prev = v[p].prev /\ m.ref = v[p].ref
    <3> DEFINE r == v[p]
    <3>1. r \in Struct BY <1>1, <1>6 DEF Heaps
    <3> HIDE DEF r, p
    <3> DEFINE m1 == [r EXCEPT !.kind = "Invalid"]
    <3>2. /\ m1 \in Struct /\ m1.kind = "Invalid" /\ m1.next = r.next
          /\ m1.prev = r.prev /\ m1.ref = r.ref
      BY <3>1 DEF Struct
    <3>3. m = [m1 EXCEPT !.child = NULL] BY DEF r
    <3> HIDE DEF m1, m
    <3>4. /\ m \in Struct /\ m.kind = m1.kind /\ m.child = NULL /\ m.next = m1.next
          /\ m.prev = m1.prev /\ m.ref = m1.ref
      BY <3>2, <3>3 DEF Struct, Nodes
    <3> QED BY <3>2, <3>4 DEF r
  <2>2. \A n \in Items : w[n] = IF n \in B THEN Free ELSE IF n = p THEN m ELSE v[n]
    BY DEF w
  <2>3. w = [n \in Items |-> IF n \in B THEN Free ELSE IF n = p THEN m ELSE v[n]]
    BY DEF w
  <2> HIDE DEF m, p
  <2>4. w \in Heaps BY <1>1, <1>8, <2>1, <2>3 DEF Heaps
  <2> QED BY <1>4, <1>6, <1>7, <2>1, <2>2, <2>4
<1> HIDE DEF N, f, p, g, s
<1>11. \A k \in 1 .. N :
         /\ st[k].item \in Items /\ st[k].item \notin B
         /\ k # N => k \in 1 .. N - 1 /\ st[k].item # p
  BY <1>1, <1>3, <1>4 DEF Parented, p, f, N
<1>12. \A n \in Items :
         /\ v[n].next = h[n].next /\ v[n].ref = h[n].ref
         /\ v[n].kind = "FREE" <=> h[n].kind = "FREE"
         /\ h[n].kind # "FREE" => ~h[n].ref
         /\ (\A k \in 1 .. N : n # st[k].item) => v[n].kind = h[n].kind /\ v[n].child = h[n].child
         /\ (\A k \in 1 .. N : n # st[k].head) => v[n].prev = h[n].prev
  BY <1>1 DEF Resembles, N
<1>13. Sound(w, {d}, {})
  <2> DEFINE P == {p}
             own == [n \in Items |-> IF n \in B THEN NULL ELSE par[n]]
  <2>1. P \in SUBSET Items BY <1>6
  <2>2. Cut(v, par, B, P, w)
    <3>1. \A n \in Items : par[n] \in B \union P => n \in B BY <1>4
    <3>2. \A n \in B : par[n] \in B \union P \union {NULL} BY <1>4
    <3>3. \A r \in Items \ (B \union P) : v[r].kind # "FREE" /\ v[r].ref => v[r].child \notin B
      BY <1>12
    <3>4. \A n \in Items \ (B \union P) : w[n] = v[n] BY <1>10
    <3>5. \A q \in P \ B : /\ w[q].kind # "FREE" /\ w[q].child = NULL
                           /\ w[q].next = v[q].next /\ w[q].prev = v[q].prev
      BY <1>10
    <3> QED BY <1>10, <3>1, <3>2, <3>3, <3>4, <3>5 DEF Cut
  <2> HIDE DEF P
  <2>3. Linkage(w, own)
    <3>1. B \in SUBSET Items /\ w \in Heaps BY <1>4, <1>10
    <3> QED BY <1>3, <2>1, <2>2, <3>1, CutLinks
  <2>4. \A n \in Items : own[n] = IF n \in B THEN NULL ELSE par[n] OBVIOUS
  <2> HIDE DEF own
  <2>5. Grounded(own)
    <3>1. Grounded(par) BY <1>3 DEF Held
    <3>2. \A n \in Items : own[n] \in {par[n], NULL} BY <2>4
    <3> QED BY <3>1, <3>2, GroundedLess
  <2>6. d \notin B
    <3>1. 1 \in 1 .. N BY <1>1
    <3>2. FrameOK(h, v, st, d, 1) BY <1>1, <3>1
    <3>3. st[1].item = d BY <3>2 DEF FrameOK
    <3> QED BY <1>11, <3>1, <3>3
  <2>7. \A n \in Items : n \in {d} <=> v[n].kind # "FREE" /\ par[n] = NULL BY <1>3 DEF Held
  <2>8. v[p].kind # "FREE" BY <1>6 DEF IsList, Containers
  <2>9. \A n \in Items : n \in {d} <=> w[n].kind # "FREE" /\ own[n] = NULL
    <3> SUFFICES ASSUME NEW n \in Items
                 PROVE  n \in {d} <=> w[n].kind # "FREE" /\ own[n] = NULL
      OBVIOUS
    <3>1. CASE n \in B BY <1>8, <1>10, <2>6, <3>1
    <3>2. CASE n \notin B
      <4>1. w[n].kind # "FREE" <=> v[n].kind # "FREE" BY <1>10, <2>8, <3>2
      <4> QED BY <2>4, <2>7, <3>2, <4>1
    <3> QED BY <3>1, <3>2
  <2> DEFINE R == {d}
             L == {}
  <2>10. R \subseteq Items /\ L \subseteq Items /\ R \intersect L = {} BY <1>1
  <2>11. \A n \in Items : n \in R \union L <=> w[n].kind # "FREE" /\ own[n] = NULL BY <2>9
  <2>12. \A y \in L : ~IsList(w, y) OBVIOUS
  <2> HIDE DEF R, L
  <2>13. Held(w, own, R, L) BY <2>5, <2>10, <2>11, <2>12 DEF Held
  <2> QED BY <2>3, <2>13 DEF Sound, R, L
<1>14. Resembles(g, w, s)
  <2> SUFFICES ASSUME NEW x \in Items
               PROVE  /\ w[x].next = g[x].next /\ w[x].ref = g[x].ref
                      /\ w[x].kind = "FREE" <=> g[x].kind = "FREE"
                      /\ g[x].kind # "FREE" => ~g[x].ref
                      /\ (\A k \in 1 .. Len(s) : x # s[k].item) =>
                           w[x].kind = g[x].kind /\ w[x].child = g[x].child
                      /\ (\A k \in 1 .. Len(s) : x # s[k].head) => w[x].prev = g[x].prev
    BY DEF Resembles
  <2>1. CASE x \in B BY <1>8, <1>9, <1>10, <2>1
  <2>2. CASE x \notin B
    <3>1. g[x] = h[x] BY <1>9, <2>2
    <3>2. w[x].next = v[x].next /\ w[x].prev = v[x].prev /\ w[x].ref = v[x].ref BY <1>10, <2>2
    <3>3. w[x].kind = "FREE" <=> h[x].kind = "FREE"
      <4>1. CASE x = p BY <1>7, <1>10, <4>1
      <4>2. CASE x # p BY <1>10, <1>12, <2>2, <4>2
      <4> QED BY <4>1, <4>2
    <3>4. ASSUME \A k \in 1 .. Len(s) : x # s[k].item
          PROVE  w[x].kind = h[x].kind /\ w[x].child = h[x].child
      <4>1. CASE x = p BY <1>7, <1>10, <4>1
      <4>2. CASE x # p
        <5>1. st[N].item = p BY DEF p, f
        <5>2. \A k \in 1 .. N : k # N => x # st[k].item BY <1>2, <1>11, <3>4
        <5>3. \A k \in 1 .. N : x # st[k].item BY <4>2, <5>1, <5>2
        <5> QED BY <1>10, <1>12, <2>2, <4>2, <5>3
      <4> QED BY <4>1, <4>2
    <3>5. ASSUME \A k \in 1 .. Len(s) : x # s[k].head PROVE v[x].prev = h[x].prev
      <4>1. x # st[N].head
        <5>1. st[N].head = f.head BY DEF f
        <5>2. x # NULL BY Basics
        <5>3. f.head # NULL => f.head \in B BY <1>4, <1>5
        <5> QED BY <2>2, <5>1, <5>2, <5>3
      <4>2. \A k \in 1 .. N : k # N => x # st[k].head BY <1>2, <1>11, <3>5
      <4>3. \A k \in 1 .. N : x # st[k].head BY <4>1, <4>2
      <4> QED BY <1>12, <4>3
    <3> QED BY <1>12, <3>1, <3>2, <3>3, <3>4, <3>5
  <2> QED BY <2>1, <2>2
<1>15. ASSUME NEW k \in 1 .. Len(s) PROVE FrameOK(g, w, s, d, k)
  <2>1. k \in 1 .. N - 1 /\ k \in 1 .. N /\ k # N /\ k < N BY <1>1, <1>2
  <2>2. FrameOK(h, v, st, d, k) BY <1>1, <2>1
  <2>3. /\ st[k].item = IF k = 1 THEN d ELSE st[k - 1].tail
        /\ h[st[k].item].kind = "Invalid" /\ h[st[k].item].child = NULL
        /\ v[st[k].item].kind = st[k].kind /\ v[st[k].item].child = st[k].head
        /\ st[k].head # NULL => v[st[k].head].prev = st[k].tail
        /\ st[k].head # NULL
    BY <2>1, <2>2 DEF FrameOK, N
  <2>4. s[k] = st[k] /\ (k # 1 => s[k - 1] = st[k - 1])
    <3>1. k # 1 => k - 1 \in 1 .. N - 1 BY <1>1, <2>1
    <3> QED BY <1>2, <2>1, <3>1
  <2>5. st[k].item \in Items /\ st[k].item \notin B /\ st[k].item # p BY <1>11, <2>1
  <2>6. st[k].head \in Items /\ par[st[k].head] = st[k].item
    BY <1>3, <2>1, <2>3 DEF Parented, N
  <2>7. st[k].head \notin B BY <1>4, <2>1, <2>6
  <2>8. g[st[k].item] = h[st[k].item] /\ w[st[k].item] = v[st[k].item] BY <1>9, <1>10, <2>5
  <2>9. w[st[k].head].prev = v[st[k].head].prev BY <1>10, <2>6, <2>7
  <2> QED BY <2>3, <2>4, <2>8, <2>9 DEF FrameOK
<1>16. \A j, k \in 1 .. Len(s) : s[j].item = s[k].item => j = k BY <1>1, <1>2
<1>17. Built(g, w, s, d) BY <1>1, <1>2, <1>9, <1>13, <1>14, <1>15, <1>16 DEF Built
<1> QED BY <1>17 DEF g, s, f, N

(* What the parser has built when it is at one of its places, with c to be *)
(* filled in: before it has a value it is no more than a node of its list. *)
Filling(at, h, v, st, d, c) ==
  /\ at \in {"start", "value", "name", "colon", "valued"} => c \in Items /\ Awaited(st, d, c)
  /\ at \in {"start", "value", "name", "colon"} => h[c].kind = "Invalid" /\ v[c].kind = "Invalid"
  /\ at = "name" => h[c].string = NULL /\ ~h[c].const
  /\ at = "start" => st = <<>>
  /\ at \in {"name", "colon", "element"} => st # <<>>

Parsing(at, h, st, d, c) == \E v : Built(h, v, st, d) /\ Filling(at, h, v, st, d, c)

(* A value begins, or the parser fails, with nothing changed.              *)
LEMMA ParsingOn ==
  ASSUME NEW at, NEW h, NEW st, NEW d, NEW c, Parsing(at, h, st, d, c)
  PROVE  /\ Parsing("fail", h, st, d, c)
         /\ at \in {"start", "colon"} => Parsing("value", h, st, d, c)
         /\ at = "valued" /\ st # <<>> => Parsing("element", h, st, d, c)
<1>1. PICK v : Built(h, v, st, d) /\ Filling(at, h, v, st, d, c) BY DEF Parsing
<1>2. Filling("fail", h, v, st, d, c) BY DEF Filling
<1>3. at \in {"start", "colon"} => Filling("value", h, v, st, d, c) BY <1>1 DEF Filling
<1>4. at = "valued" /\ st # <<>> => Filling("element", h, v, st, d, c) BY <1>1 DEF Filling
<1> QED BY <1>1, <1>2, <1>3, <1>4 DEF Parsing

(* No strings are allocated or freed.                                      *)
LEMMA TallySame ==
  ASSUME NEW h, NEW s, Tally(h, s), NEW g,
         \A n \in Items : SameStrings(h, g, n) /\ (g[n].kind = "FREE" => h[n].kind = "FREE")
  PROVE  Tally(g, s)
<1>1. Strings(g, Items) = Strings(h, Items) BY StringsSame
<1> QED BY <1>1 DEF Tally, SameStrings

(* A scalar, or an empty array or object.                                  *)
LEMMA ParsingFill ==
  ASSUME NEW h, NEW st, NEW d, NEW c, Parsing("value", h, st, d, c), NEW s, Tally(h, s),
         NEW kind \in Containers \union {"Number", "String"}
  PROVE  /\ Parsing("valued", WithKind(h, c, kind), st, d, c)
         /\ Tally(WithKind(h, c, kind), s + IF kind = "String" THEN 1 ELSE 0)
<1> DEFINE g == WithKind(h, c, kind)
<1>1. PICK v : Built(h, v, st, d) /\ Filling("value", h, v, st, d, c) BY DEF Parsing
<1>2. c \in Items /\ Awaited(st, d, c) /\ h[c].kind = "Invalid" /\ v[c].kind = "Invalid"
  BY <1>1 DEF Filling
<1>3. Built(g, WithKind(v, c, kind), st, d) BY <1>1, <1>2, BuiltFill
<1>4. Filling("valued", g, WithKind(v, c, kind), st, d, c) BY <1>2 DEF Filling
<1>5. Parsing("valued", g, st, d, c) BY <1>3, <1>4 DEF Parsing
<1>6. h \in Heaps /\ ~h[c].ref BY <1>1, <1>2 DEF Built, Resembles
<1>7. /\ \A m \in Items : m # c => g[m] = h[m]
      /\ g[c].kind = kind /\ g[c].ref = h[c].ref /\ g[c].string = h[c].string
      /\ g[c].const = h[c].const
  BY <1>2, <1>6 DEF WithKind, Heaps, Struct
<1> HIDE DEF g
<1>8. kind # "FREE" BY DEF Containers
<1>9. OwnsKey(g[c]) <=> OwnsKey(h[c]) BY <1>7 DEF OwnsKey
<1>10. ~OwnsString(h[c]) /\ (OwnsString(g[c]) <=> kind = "String")
  BY <1>2, <1>6, <1>7 DEF OwnsString
<1> DEFINE e == IF kind = "String" THEN 1 ELSE 0
<1>11. e = Worth(g[c]) - Worth(h[c]) BY <1>9, <1>10 DEF Worth
<1> HIDE DEF e
<1>12. Tally(g, s + e) BY <1>2, <1>7, <1>8, <1>11, TallyChanged
<1> QED BY <1>5, <1>12 DEF g, e

(* An array or object that is not empty is opened.                         *)
LEMMA ParsingOpen ==
  ASSUME NEW h, NEW st, NEW d, NEW c, Parsing("value", h, st, d, c), NEW kind \in Containers
  PROVE  Parsing("element", h,
                 Append(st, [item |-> c, kind |-> kind, head |-> NULL, tail |-> NULL]), d, c)
<1> DEFINE f == [item |-> c, kind |-> kind, head |-> NULL, tail |-> NULL]
<1>1. PICK v : Built(h, v, st, d) /\ Filling("value", h, v, st, d, c) BY DEF Parsing
<1>2. c \in Items /\ Awaited(st, d, c) /\ h[c].kind = "Invalid" /\ v[c].kind = "Invalid"
  BY <1>1 DEF Filling
<1>3. Built(h, WithKind(v, c, kind), Append(st, f), d) BY <1>1, <1>2, BuiltOpen
<1> HIDE DEF f
<1>4. Append(st, f) # <<>>
  <2>1. st \in Seq(StackFrame) BY <1>1 DEF Built
  <2> QED BY <2>1
<1>5. Filling("element", h, WithKind(v, c, kind), Append(st, f), d, c) BY <1>4 DEF Filling
<1> QED BY <1>3, <1>5 DEF Parsing, f

(* The next element.                                                       *)
LEMMA ParsingElement ==
  ASSUME NEW h, NEW st, NEW d, NEW c, Parsing("element", h, st, d, c), NEW s, Tally(h, s),
         NEW n \in Items, h[n].kind = "FREE", NEW at \in {"value", "name"}
  PROVE  /\ Parsing(at, Elongated(h, st[Len(st)], n), LongerStack(st, n), d, n)
         /\ Tally(Elongated(h, st[Len(st)], n), s)
<1> DEFINE g == Elongated(h, st[Len(st)], n)
           t == LongerStack(st, n)
           f == st[Len(st)]
<1>1. PICK v : Built(h, v, st, d) /\ Filling("element", h, v, st, d, c) BY DEF Parsing
<1>2. st # <<>> BY <1>1 DEF Filling
<1>3. PICK w : Built(g, w, t, d) /\ w[n].kind = "Invalid" BY <1>1, <1>2, BuiltElement
<1>4. h \in Heaps /\ st \in Seq(StackFrame) BY <1>1 DEF Built
<1>5. f.head # NULL => f.tail \in Items /\ f.tail # n
  <2>1. PICK par : Linkage(v, par) /\ Parented(v, st, par) BY <1>1, BuiltParents
  <2>2. Len(st) \in 1 .. Len(st) BY <1>2, <1>4
  <2>3. f.head # NULL => f.tail \in Items /\ par[f.tail] = f.item /\ f.item \in Items
    BY <2>1, <2>2 DEF Parented
  <2>4. v[n].kind = "FREE" BY <1>1 DEF Built, Resembles
  <2>5. par[n] = NULL BY <2>1, <2>4 DEF Linkage, MemberOK
  <2> QED BY <2>3, <2>5, Basics
<1> HIDE DEF f
<1>6. Elongation(h, f, n, g) BY <1>4, <1>5, ElongatedEffect DEF f
<1>7. /\ Len(t) = Len(st) /\ Len(st) \in 1 .. Len(st) /\ Len(st) \in Nat
      /\ t[Len(st)].tail = n /\ t[Len(st)].head # NULL
  <2>1. LET s1 == LongerStack(st, n)
        IN /\ s1 \in Seq(StackFrame) /\ Len(s1) = Len(st) /\ Len(st) \in Nat /\ Len(st) \in 1 .. Len(st)
           /\ \A k \in 1 .. Len(st) :
                /\ st[k] \in StackFrame /\ s1[k].item = st[k].item /\ s1[k].kind = st[k].kind
                /\ s1[k].head = IF k = Len(st) /\ st[k].head = NULL THEN n ELSE st[k].head
                /\ s1[k].tail = IF k = Len(st) THEN n ELSE st[k].tail
    BY <1>2, <1>4, LongerStackOf
  <2> HIDE DEF t
  <2> QED BY <2>1, Basics DEF t
<1> HIDE DEF g, t
<1>8. t # <<>> /\ Awaited(t, d, n)
  <2>1. t # <<>>
    <3>1. t \in Seq(StackFrame) BY <1>3 DEF Built
    <3> QED BY <1>7, <3>1
  <2> QED BY <1>7, <2>1 DEF Awaited
<1>9. g[n].kind = "Invalid" /\ g[n].string = NULL /\ ~g[n].const BY <1>6 DEF Elongation
<1>10. Filling(at, g, w, t, d, n) BY <1>3, <1>8, <1>9 DEF Filling
<1>11. Parsing(at, g, t, d, n) BY <1>3, <1>10 DEF Parsing
<1> DEFINE e == WithFresh(h, n)
<1>12. /\ \A m \in Items : m # n => e[m] = h[m]
       /\ e[n].kind = "Invalid" /\ e[n].string = NULL
  BY <1>4, FreshNode
<1> HIDE DEF e
<1>13. Worth(e[n]) = 0 BY <1>12 DEF Worth, OwnsString, OwnsKey
<1>14. Tally(e, s + Worth(e[n])) BY <1>12, TallyNew
<1>15. s \in Nat
  <2>1. Items \in SUBSET Items OBVIOUS
  <2>2. Strings(h, Items) \in Nat BY <2>1, StringsOfAll
  <2> QED BY <2>2 DEF Tally
<1>16. Tally(e, s) BY <1>13, <1>14, <1>15
<1>17. \A m \in Items : SameStrings(e, g, m) /\ (g[m].kind = "FREE" => e[m].kind = "FREE")
  BY <1>6, <1>12 DEF Elongation, e
<1>18. Tally(g, s) BY <1>16, <1>17, TallySame
<1> QED BY <1>11, <1>18 DEF g, t, f

(* The name of a member.                                                   *)
LEMMA ParsingName ==
  ASSUME NEW h, NEW st, NEW d, NEW c, Parsing("name", h, st, d, c), NEW s, Tally(h, s),
         NEW key \in Keys
  PROVE  /\ Parsing("colon", [h EXCEPT ![c].string = key], st, d, c)
         /\ Tally([h EXCEPT ![c].string = key], s + 1)
<1> DEFINE g == [h EXCEPT ![c].string = key]
<1>1. PICK v : Built(h, v, st, d) /\ Filling("name", h, v, st, d, c) BY DEF Parsing
<1>2. /\ c \in Items /\ Awaited(st, d, c) /\ h[c].kind = "Invalid" /\ v[c].kind = "Invalid"
      /\ h[c].string = NULL /\ ~h[c].const /\ st # <<>>
  BY <1>1 DEF Filling
<1>3. h \in Heaps BY <1>1 DEF Built
<1>4. [h[c] EXCEPT !.string = key] \in Struct BY <1>2, <1>3 DEF Heaps, Struct
<1>5. g \in Heaps
  <2>1. g = [h EXCEPT ![c] = [h[c] EXCEPT !.string = key]] OBVIOUS
  <2> HIDE DEF g
  <2> QED BY <1>2, <1>3, <1>4, <2>1 DEF Heaps
<1>6. \A n \in Items : /\ g[n].kind = h[n].kind /\ g[n].ref = h[n].ref
                       /\ g[n].next = h[n].next /\ g[n].prev = h[n].prev
                       /\ g[n].child = h[n].child
                       /\ g[n].string = (IF n = c THEN key ELSE h[n].string)
                       /\ g[n].const = h[n].const
  BY <1>2, <1>3 DEF Heaps, Struct
<1>7. \A n \in Items : n # c => g[n] = h[n] BY <1>3 DEF Heaps
<1> HIDE DEF g
<1>8. Built(g, v, st, d) BY <1>1, <1>5, <1>6, BuiltSame
<1>9. Filling("colon", g, v, st, d, c) BY <1>2, <1>6 DEF Filling
<1>10. Parsing("colon", g, st, d, c) BY <1>8, <1>9 DEF Parsing
<1>11. key # NULL BY ItemsAssumption
<1>12. ~OwnsKey(h[c]) /\ OwnsKey(g[c]) BY <1>2, <1>6, <1>11 DEF OwnsKey
<1>13. OwnsString(g[c]) <=> OwnsString(h[c]) BY <1>2, <1>6 DEF OwnsString
<1>14. 1 = Worth(g[c]) - Worth(h[c]) BY <1>12, <1>13 DEF Worth
<1>15. g[c].kind # "FREE" BY <1>2, <1>6
<1>16. Tally(g, s + 1) BY <1>2, <1>7, <1>14, <1>15, TallyChanged
<1> QED BY <1>10, <1>16 DEF g

(* The end of an array or object, which the parser goes back to.           *)
Hangs(h, f) == [h EXCEPT ![f.head].prev = f.tail, ![f.item].kind = f.kind, ![f.item].child = f.head]

(* The list that is hung up is the one that was built.                     *)
LEMMA ParsingClose ==
  ASSUME NEW h, NEW st, NEW d, NEW c, Parsing("valued", h, st, d, c), NEW s, Tally(h, s), st # <<>>
  PROVE  /\ Parsing("valued", Hangs(h, st[Len(st)]), SubSeq(st, 1, Len(st) - 1), d,
                    st[Len(st)].item)
         /\ Tally(Hangs(h, st[Len(st)]), s)
<1> DEFINE N == Len(st)
           f == st[N]
           t == SubSeq(st, 1, N - 1)
           g == Hangs(h, f)
<1>1. PICK v : Built(h, v, st, d) /\ Filling("valued", h, v, st, d, c) BY DEF Parsing
<1>2. f.head # NULL BY <1>1 DEF Filling, Awaited
<1>3. Built(g, v, t, d) BY <1>1, <1>2, BuiltClose DEF Hangs
<1>4. /\ h \in Heaps /\ st \in Seq(StackFrame) /\ N \in Nat /\ N \in 1 .. N
      /\ \A k \in 1 .. N : FrameOK(h, v, st, d, k)
  BY <1>1 DEF Built
<1>5. /\ t \in Seq(StackFrame) /\ Len(t) = N - 1
      /\ \A k \in 1 .. N - 1 : t[k] = st[k] /\ k \in 1 .. N
  BY <1>4, ShorterStack
<1>6. /\ f.item \in Items /\ f.head \in Items /\ f.kind \in Containers
      /\ h[f.item].kind = "Invalid"
      /\ f.item = IF N = 1 THEN d ELSE st[N - 1].tail
  <2>1. f \in StackFrame BY <1>4
  <2>2. FrameOK(h, v, st, d, N) BY <1>4
  <2> QED BY <1>2, <2>1, <2>2, Basics DEF StackFrame, FrameOK
<1>7. N # 1 => N - 1 \in 1 .. N - 1 /\ st[N - 1].head # NULL
  <2> SUFFICES ASSUME N # 1 PROVE N - 1 \in 1 .. N - 1 /\ st[N - 1].head # NULL OBVIOUS
  <2>3. N \in Nat /\ N \in 1 .. N BY <1>4
  <2> HIDE DEF N
  <2>1. N - 1 \in 1 .. N - 1 /\ N - 1 \in 1 .. N /\ N - 1 < N BY <2>3
  <2>2. FrameOK(h, v, st, d, N - 1) BY <1>4, <2>1
  <2> QED BY <2>1, <2>2 DEF FrameOK, N
<1>8. \A n \in Items : /\ g[n].ref = h[n].ref /\ g[n].string = h[n].string
                       /\ g[n].const = h[n].const
                       /\ g[n].kind = IF n = f.item THEN f.kind ELSE h[n].kind
  BY <1>4, <1>6 DEF Hangs, Heaps, Struct
<1> HIDE DEF N, f, t, g
<1>9. Awaited(t, d, f.item)
  <2>1. CASE N = 1
    <3>1. t = <<>> BY <1>5, <2>1
    <3> QED BY <1>6, <2>1, <3>1 DEF Awaited
  <2>2. CASE N # 1
    <3>1. Len(t) = N - 1 /\ t[N - 1] = st[N - 1] BY <1>5, <1>7, <2>2
    <3>2. t # <<>> BY <1>4, <1>5, <1>7, <2>2
    <3> QED BY <1>6, <1>7, <2>2, <3>1, <3>2 DEF Awaited
  <2> QED BY <2>1, <2>2
<1>10. Filling("valued", g, v, t, d, f.item) BY <1>6, <1>9 DEF Filling
<1>11. Parsing("valued", g, t, d, f.item) BY <1>3, <1>10 DEF Parsing
<1>12. f.kind # "String" /\ f.kind # "FREE" BY <1>6 DEF Containers
<1>13. \A n \in Items : SameStrings(h, g, n) /\ (g[n].kind = "FREE" => h[n].kind = "FREE")
  BY <1>6, <1>8, <1>12 DEF SameStrings, OwnsString, OwnsKey
<1>14. Tally(g, s) BY <1>13, TallySame
<1> QED BY <1>11, <1>14 DEF g, t, f, N

(* After a failure, the innermost list under way is freed.                 *)
LEMMA ParsingUnwind ==
  ASSUME NEW h, NEW st, NEW d, NEW c, Parsing("fail", h, st, d, c), NEW s, Tally(h, s), st # <<>>
  PROVE  /\ Parsing("fail", Unwound(h, st[Len(st)]), SubSeq(st, 1, Len(st) - 1), d, c)
         /\ Tally(Unwound(h, st[Len(st)]),
                  IF st[Len(st)].head = NULL THEN s
                  ELSE s - Strings(h, Below(h, st[Len(st)].head)))
<1> DEFINE f == st[Len(st)]
<1>1. PICK v : Built(h, v, st, d) BY DEF Parsing
<1>2. PICK w : Built(Unwound(h, f), w, SubSeq(st, 1, Len(st) - 1), d) BY <1>1, BuiltUnwind
<1>3. Filling("fail", Unwound(h, f), w, SubSeq(st, 1, Len(st) - 1), d, c) BY DEF Filling
<1>4. Parsing("fail", Unwound(h, f), SubSeq(st, 1, Len(st) - 1), d, c)
  BY <1>2, <1>3 DEF Parsing
<1>5. h \in Heaps /\ (f.head # NULL => f.head \in Items)
  <2>1. PICK par : Parented(v, st, par) BY <1>1, BuiltParents
  <2>2. Len(st) \in 1 .. Len(st) BY <1>1 DEF Built
  <2> QED BY <1>1, <2>1, <2>2 DEF Built, Parented
<1> HIDE DEF f
<1>6. CASE f.head = NULL BY <1>4, <1>6 DEF Unwound, f
<1>7. CASE f.head # NULL
  <2> DEFINE B == Below(h, f.head)
  <2>1. B \in SUBSET Items BY <1>5, <1>7, BelowItems
  <2> HIDE DEF B
  <2>2. Tally(Freed(h, f.head), s - Strings(h, B)) BY <2>1, TallyFreed DEF B
  <2> QED BY <1>4, <1>7, <2>2 DEF Unwound, B, f
<1> QED BY <1>6, <1>7

(* The document is an item of the caller's once it is complete.            *)
LEMMA ParsingDone ==
  ASSUME NEW at, NEW h, NEW d, NEW c, Parsing(at, h, <<>>, d, c)
  PROVE  /\ Sound(h, {d}, {}) /\ Sound(Freed(h, d), {}, {})
         /\ h \in Heaps /\ d \in Items
<1>1. PICK v : Built(h, v, <<>>, d) BY DEF Parsing
<1>2. Sound(h, {d}, {}) /\ \A n \in Items : h[n].kind # "FREE" => ~h[n].ref BY <1>1, BuiltDone
<1> DEFINE R == {d}
           L == {}
<1>3. d \in R /\ Sound(h, R, L) /\ R \ {d} = L BY <1>2
<1> HIDE DEF R, L
<1>4. \A r \in Items \ Below(h, d) : h[r].kind # "FREE" /\ h[r].ref => h[r].child \notin Below(h, d)
  BY <1>2
<1>5. Sound(Freed(h, d), R \ {d}, L) BY <1>3, <1>4, SoundFreed
<1>6. h \in Heaps /\ d \in Items BY <1>1 DEF Built
<1> QED BY <1>2, <1>3, <1>5, <1>6 DEF L

(* The parser begins.                                                      *)
LEMMA ParsingBegins ==
  ASSUME Inv, Counted, Live(heap) = {}, NEW n \in Items
  PROVE  /\ roots = {} /\ lost = {}
         /\ Parsing("start", New_Item(n, "Invalid"), <<>>, n, n)
         /\ Tally(New_Item(n, "Invalid"), strings)
<1> DEFINE g == New_Item(n, "Invalid")
           st == <<>>
           R == {n}
           L == {}
<1>1. PICK par : Linkage(heap, par) /\ Held(heap, par, roots, lost) BY DEF Inv, Sound
<1>2. \A m \in Items : heap[m].kind = "FREE" BY DEF Live
<1>3. roots = L /\ lost = L
  <2>1. \A m \in roots \union lost : m \in Items /\ heap[m].kind # "FREE" BY <1>1 DEF Held
  <2> QED BY <1>2, <2>1
<1>4. heap \in Heaps BY <1>1 DEF Linkage
<1>5. g = WithFresh(heap, n) BY DEF New_Item, WithFresh, Fresh
<1> HIDE DEF g
<1>6. Sound(g, R, L)
  <2>1. heap[n].kind = "FREE" /\ Sound(heap, roots, lost) BY <1>2 DEF Inv
  <2>2. Sound(g, roots \union {n}, lost) BY <1>5, <2>1, SoundFreshNode
  <2>3. roots \union {n} = R /\ lost = L BY <1>3
  <2> HIDE DEF R, L
  <2> QED BY <2>2, <2>3
<1>7. /\ g \in Heaps /\ g[n].kind = "Invalid" /\ ~g[n].ref /\ g[n].string = NULL
      /\ \A m \in Items : m # n => g[m] = heap[m]
  BY <1>4, <1>5, FreshNode
<1>8. st \in Seq(StackFrame) /\ Len(st) = 0 /\ 1 .. Len(st) = {} /\ st = <<>> OBVIOUS
<1> HIDE DEF st, R, L
<1>9. Resembles(g, g, st) BY <1>2, <1>7 DEF Resembles
<1>10. Built(g, g, st, n) BY <1>6, <1>7, <1>8, <1>9 DEF Built, R, L
<1>11. Filling("start", g, g, st, n, n) BY <1>7, <1>8 DEF Filling, Awaited
<1>12. Parsing("start", g, st, n, n) BY <1>10, <1>11 DEF Parsing
<1>13. Worth(g[n]) = 0 BY <1>7 DEF Worth, OwnsString, OwnsKey
<1>14. Tally(g, strings + Worth(g[n])) BY <1>2, <1>7, TallyNew DEF Counted
<1>15. strings \in Nat BY CountedLive
<1>16. Tally(g, strings) BY <1>13, <1>14, <1>15
<1> QED BY <1>3, <1>8, <1>12, <1>16 DEF g, L

(* Between the calls all items are the caller's.  While the parser runs,   *)
(* they are what it has built of the document.                             *)
Quiet == {"idle", "failed", "parsed"}

PInv ==
  /\ Counted
  /\ IF pc \in Quiet THEN stack = <<>> /\ Inv
     ELSE roots = {} /\ lost = {} /\ Parsing(pc, heap, stack, doc, cur)

(* The parser looks at the text, and goes on or fails.                     *)
LEMMA LooksKeep ==
  ASSUME PInv, pc \notin Quiet, UNCHANGED <<itemVars, stack, cur, doc>>,
         \/ pc' = pc \/ pc' = "fail"
         \/ pc \in {"start", "colon"} /\ pc' = "value"
         \/ pc = "valued" /\ stack # <<>> /\ pc' = "element"
  PROVE  PInv'
<1>1. /\ heap' = heap /\ strings' = strings /\ roots' = roots /\ lost' = lost
      /\ stack' = stack /\ cur' = cur /\ doc' = doc
  BY DEF itemVars
<1>2. Counted /\ roots = {} /\ lost = {} /\ Parsing(pc, heap, stack, doc, cur) BY DEF PInv
<1>3. Counted' BY <1>1, <1>2 DEF Counted
<1>4. Parsing(pc', heap, stack, doc, cur) BY <1>2, ParsingOn
<1>5. pc' \notin Quiet BY DEF Quiet
<1> QED BY <1>1, <1>2, <1>3, <1>4, <1>5 DEF PInv

(* The steps that only look.                                               *)
LEMMA LookingKeeps ==
  ASSUME PInv, Supply \/ Start \/ StringFails \/ ValueFails \/ ElementFails \/ NameFails \/ Colon
               \/ Comma \/ ElementEndsBadly
  PROVE  PInv'
<1>1. pc \notin Quiet /\ UNCHANGED <<itemVars, stack, cur, doc>>
  BY DEF Supply, Start, StringFails, ValueFails, ElementFails, NameFails, Colon, Comma,
         ElementEndsBadly, Quiet, To, Fail
<1>2. \/ pc' = pc \/ pc' = "fail"
      \/ pc \in {"start", "colon"} /\ pc' = "value"
      \/ pc = "valued" /\ stack # <<>> /\ pc' = "element"
  BY DEF Supply, Start, StringFails, ValueFails, ElementFails, NameFails, Colon, Comma,
         ElementEndsBadly, To, Fail
<1> QED BY <1>1, <1>2, LooksKeep

(* A value is known.                                                       *)
LEMMA FillKeeps ==
  ASSUME PInv, pc = "value", NEW kind \in Containers \union {"Number", "String"}, Fill(kind),
         strings' = IF kind = "String" THEN strings + 1 ELSE strings, pc' = "valued",
         UNCHANGED <<roots, lost, stack, cur, doc>>
  PROVE  PInv'
<1>1. pc \notin Quiet /\ pc' \notin Quiet BY DEF Quiet
<1>2. Counted /\ roots = {} /\ lost = {} /\ Parsing("value", heap, stack, doc, cur)
  BY <1>1 DEF PInv
<1>3. heap' = WithKind(heap, cur, kind) BY DEF Fill, WithKind
<1> DEFINE e == IF kind = "String" THEN 1 ELSE 0
<1>4. Parsing("valued", WithKind(heap, cur, kind), stack, doc, cur)
  BY <1>2, ParsingFill DEF Counted
<1>5. Tally(WithKind(heap, cur, kind), strings + e) BY <1>2, ParsingFill DEF Counted
<1>6. strings' = strings + e
  <2>1. strings \in Nat BY <1>2, CountedLive
  <2> QED BY <2>1
<1> HIDE DEF e
<1>7. Counted' BY <1>3, <1>5, <1>6 DEF Counted
<1> QED BY <1>1, <1>2, <1>3, <1>4, <1>7 DEF PInv

(* A value, or what begins with it.                                        *)
LEMMA ValuesKeep ==
  ASSUME PInv, Scalar \/ parse_string \/ \E kind \in Containers : Open(kind)
  PROVE  PInv'
<1>1. CASE Scalar
  BY <1>1, FillKeeps DEF Scalar, To
<1>2. CASE parse_string
  BY <1>2, FillKeeps DEF parse_string, To
<1>3. ASSUME NEW kind \in Containers, Open(kind) PROVE PInv'
  <2> DEFINE f == [item |-> cur, kind |-> kind, head |-> NULL, tail |-> NULL]
  <2>1. pc = "value" /\ pc \notin Quiet /\ UNCHANGED <<strings, roots, lost, cur>>
    BY <1>3 DEF Open, Quiet
  <2>2. \/ pc' = "fail" /\ UNCHANGED <<heap, stack, doc>>
        \/ Fill(kind) /\ pc' = "valued" /\ UNCHANGED <<stack, doc>>
        \/ stack' = Append(stack, f) /\ pc' = "element" /\ UNCHANGED <<heap, doc>>
    BY <1>3 DEF Open, To, Fail
  <2>3. CASE pc' = "fail" /\ UNCHANGED <<heap, stack, doc>>
    BY <2>1, <2>3, LooksKeep DEF itemVars
  <2>4. CASE Fill(kind) /\ pc' = "valued" /\ UNCHANGED <<stack, doc>>
    <3>1. kind # "String" BY DEF Containers
    <3> QED BY <2>1, <2>4, <3>1, FillKeeps
  <2>5. CASE stack' = Append(stack, f) /\ pc' = "element" /\ UNCHANGED <<heap, doc>>
    <3>1. Counted /\ roots = {} /\ lost = {} /\ Parsing("value", heap, stack, doc, cur)
      BY <2>1 DEF PInv
    <3>2. Parsing("element", heap, Append(stack, f), doc, cur) BY <3>1, ParsingOpen
    <3> HIDE DEF f
    <3>3. pc' \notin Quiet BY <2>5 DEF Quiet
    <3>4. Counted' BY <2>1, <2>5, <3>1 DEF Counted
    <3> QED BY <2>1, <2>5, <3>1, <3>2, <3>3, <3>4 DEF PInv
  <2> QED BY <2>2, <2>3, <2>4, <2>5
<1> QED BY <1>1, <1>2, <1>3

(* The next element is added to the list under way.                        *)
LEMMA ElementKeeps ==
  ASSUME PInv, Element
  PROVE  PInv'
<1> DEFINE f == stack[Len(stack)]
<1>1. PICK n \in Unused :
        /\ heap' = LET h == New_Item(n, "Invalid")
                   IN IF Top.head = NULL THEN h ELSE suffix_object(h, Top.tail, n)
        /\ stack' = [stack EXCEPT ![Len(stack)].head = IF @ = NULL THEN n ELSE @,
                                  ![Len(stack)].tail = n]
        /\ cur' = n
  BY DEF Element
<1>2. /\ pc = "element" /\ pc' \in {"value", "name"} /\ UNCHANGED <<strings, roots, lost, doc>>
  BY DEF Element, To
<1>3. Counted /\ roots = {} /\ lost = {} /\ Parsing("element", heap, stack, doc, cur)
  BY <1>2 DEF PInv, Quiet
<1>4. n \in Items /\ heap[n].kind = "FREE" BY DEF Unused, Live
<1>5. New_Item(n, "Invalid") = WithFresh(heap, n) BY DEF New_Item, WithFresh, Fresh
<1>6. heap' = Elongated(heap, f, n)
  <2>1. heap' = IF f.head = NULL THEN New_Item(n, "Invalid")
                ELSE suffix_object(New_Item(n, "Invalid"), f.tail, n)
    BY <1>1 DEF Top
  <2> HIDE DEF f
  <2> QED BY <1>5, <2>1 DEF Elongated
<1>7. stack' = LongerStack(stack, n)
  <2>1. PICK v : Built(heap, v, stack, doc) /\ Filling("element", heap, v, stack, doc, cur)
    BY <1>3 DEF Parsing
  <2>2. stack \in Seq(StackFrame) /\ stack # <<>> BY <2>1 DEF Built, Filling
  <2>3. Len(stack) \in DOMAIN stack /\ f \in StackFrame BY <2>2
  <2> DEFINE N == Len(stack)
             hd == IF f.head = NULL THEN n ELSE f.head
             s1 == [stack EXCEPT ![N] = [f EXCEPT !.head = hd]]
  <2>4. stack' = [s1 EXCEPT ![N] = [s1[N] EXCEPT !.tail = n]] BY <1>1
  <2>5. s1[N] = [f EXCEPT !.head = hd] BY <2>3
  <2>6. LongerTop(f, n) = [[f EXCEPT !.head = hd] EXCEPT !.tail = n] BY DEF LongerTop
  <2>7. LongerStack(stack, n) = [stack EXCEPT ![N] = LongerTop(f, n)] BY DEF LongerStack
  <2> HIDE DEF f, hd
  <2> DEFINE a == [f EXCEPT !.head = hd]
             b == [a EXCEPT !.tail = n]
  <2>8. s1 = [stack EXCEPT ![N] = a] OBVIOUS
  <2>9. stack' = [s1 EXCEPT ![N] = b] BY <2>4, <2>5
  <2> HIDE DEF a, b
  <2>10. [s1 EXCEPT ![N] = b] = [stack EXCEPT ![N] = b] BY <2>8
  <2> QED BY <2>6, <2>7, <2>9, <2>10 DEF a, b
<1> HIDE DEF f
<1>8. /\ Parsing(pc', Elongated(heap, f, n), LongerStack(stack, n), doc, n)
      /\ Tally(Elongated(heap, f, n), strings)
  BY <1>2, <1>3, <1>4, ParsingElement DEF Counted, f
<1>9. pc' \notin Quiet BY <1>2 DEF Quiet
<1>10. Counted' BY <1>2, <1>6, <1>8 DEF Counted
<1>11. Parsing(pc', heap', stack', doc', cur') BY <1>1, <1>2, <1>6, <1>7, <1>8
<1> QED BY <1>2, <1>3, <1>9, <1>10, <1>11 DEF PInv

(* A name is moved to the element.                                         *)
LEMMA NameKeeps ==
  ASSUME PInv, Name
  PROVE  PInv'
<1>1. PICK key \in Keys : heap' = [heap EXCEPT ![cur].string = key] BY DEF Name
<1>2. /\ pc = "name" /\ pc' = "colon" /\ strings' = strings + 1
      /\ UNCHANGED <<roots, lost, stack, cur, doc>>
  BY DEF Name, To
<1>3. Counted /\ roots = {} /\ lost = {} /\ Parsing("name", heap, stack, doc, cur)
  BY <1>2 DEF PInv, Quiet
<1>4. Parsing("colon", heap', stack, doc, cur) /\ Tally(heap', strings + 1)
  BY <1>1, <1>3, ParsingName DEF Counted
<1>5. pc' \notin Quiet BY <1>2 DEF Quiet
<1>6. Counted' BY <1>2, <1>4 DEF Counted
<1> QED BY <1>2, <1>3, <1>4, <1>5, <1>6 DEF PInv

(* A list is hung up.                                                      *)
LEMMA CloseKeeps ==
  ASSUME PInv, Close
  PROVE  PInv'
<1> DEFINE f == stack[Len(stack)]
<1>1. /\ pc = "valued" /\ pc' = "valued" /\ stack # <<>>
      /\ heap' = Hangs(heap, f) /\ cur' = f.item
      /\ stack' = SubSeq(stack, 1, Len(stack) - 1)
      /\ UNCHANGED <<strings, roots, lost, doc>>
  BY DEF Close, To, Top, Hangs
<1>2. Counted /\ roots = {} /\ lost = {} /\ Parsing("valued", heap, stack, doc, cur)
  BY <1>1 DEF PInv, Quiet
<1>3. /\ Parsing("valued", Hangs(heap, f), SubSeq(stack, 1, Len(stack) - 1), doc, f.item)
      /\ Tally(Hangs(heap, f), strings)
  BY <1>1, <1>2, ParsingClose DEF Counted
<1> HIDE DEF f
<1>4. pc' \notin Quiet BY <1>1 DEF Quiet
<1>5. Counted' BY <1>1, <1>3 DEF Counted
<1> QED BY <1>1, <1>2, <1>3, <1>4, <1>5 DEF PInv

(* A list under way is deleted.                                            *)
LEMMA UnwindKeeps ==
  ASSUME PInv, Unwind
  PROVE  PInv'
<1> DEFINE f == stack[Len(stack)]
<1>1. /\ pc = "fail" /\ pc' = "fail" /\ stack # <<>>
      /\ IF f.head = NULL THEN UNCHANGED <<heap, strings>> ELSE Released(heap, f.head)
      /\ stack' = SubSeq(stack, 1, Len(stack) - 1)
      /\ UNCHANGED <<roots, lost, cur, doc>>
  BY DEF Unwind, Top
<1>2. Counted /\ roots = {} /\ lost = {} /\ Parsing("fail", heap, stack, doc, cur)
  BY <1>1 DEF PInv, Quiet
<1> DEFINE s == IF f.head = NULL THEN strings ELSE strings - Strings(heap, Below(heap, f.head))
<1>3. heap' = Unwound(heap, f) /\ strings' = s BY <1>1 DEF Unwound, Released
<1>4. /\ Parsing("fail", Unwound(heap, f), SubSeq(stack, 1, Len(stack) - 1), doc, cur)
      /\ Tally(Unwound(heap, f), s)
  BY <1>1, <1>2, ParsingUnwind DEF Counted
<1> HIDE DEF f, s
<1>5. pc' \notin Quiet BY <1>1 DEF Quiet
<1>6. Counted' BY <1>3, <1>4 DEF Counted
<1>7. Parsing(pc', heap', stack', doc', cur') BY <1>1, <1>3, <1>4
<1> QED BY <1>1, <1>2, <1>5, <1>6, <1>7 DEF PInv

(* The parser begins, and returns.                                         *)
LEMMA ReturnsKeep ==
  ASSUME PInv, Begin \/ ReturnNull \/ ReturnItem \/ Returned
  PROVE  PInv'
<1>1. CASE Begin
  <2>1. pc = "idle" /\ Live(heap) = {} /\ pc' = "start" /\ UNCHANGED <<strings, roots, lost, stack>>
    BY <1>1 DEF Begin
  <2>2. PICK n \in Items : heap' = New_Item(n, "Invalid") /\ cur' = n /\ doc' = n
    BY <1>1 DEF Begin
  <2>3. Counted /\ Inv /\ stack = <<>> BY <2>1 DEF PInv, Quiet
  <2>4. /\ roots = {} /\ lost = {} /\ Parsing("start", New_Item(n, "Invalid"), <<>>, n, n)
        /\ Tally(New_Item(n, "Invalid"), strings)
    BY <2>1, <2>3, ParsingBegins
  <2>5. pc' \notin Quiet BY <2>1 DEF Quiet
  <2>6. Counted' BY <2>1, <2>2, <2>4 DEF Counted
  <2>7. Parsing(pc', heap', stack', doc', cur') BY <2>1, <2>2, <2>3, <2>4
  <2> QED BY <2>1, <2>4, <2>5, <2>6, <2>7 DEF PInv
<1>2. CASE ReturnNull
  <2>1. /\ pc = "fail" /\ stack = <<>> /\ pc' = "failed" /\ UNCHANGED <<roots, lost, stack>>
        /\ Released(heap, doc)
    BY <1>2 DEF ReturnNull
  <2>2. Counted /\ roots = {} /\ lost = {} /\ Parsing("fail", heap, <<>>, doc, cur)
    BY <2>1 DEF PInv, Quiet
  <2>3. Sound(Freed(heap, doc), {}, {}) /\ heap \in Heaps /\ doc \in Items BY <2>2, ParsingDone
  <2>4. heap' = Freed(heap, doc) BY <2>1 DEF Released
  <2>5. Inv' BY <2>1, <2>2, <2>3, <2>4 DEF Inv
  <2>6. Counted'
    <3> DEFINE B == Below(heap, doc)
    <3>1. B \in SUBSET Items BY <2>3, BelowItems
    <3>2. strings' = strings - Strings(heap, B) BY <2>1 DEF Released
    <3> HIDE DEF B
    <3>3. Tally(Freed(heap, doc), strings - Strings(heap, B)) BY <2>2, <3>1, TallyFreed DEF B, Counted
    <3> QED BY <2>4, <3>2, <3>3 DEF Counted
  <2> QED BY <2>1, <2>5, <2>6 DEF PInv, Quiet
<1>3. CASE ReturnItem
  <2>1. /\ pc = "valued" /\ stack = <<>> /\ pc' = "parsed" /\ UNCHANGED <<heap, strings, lost, stack>>
        /\ roots' = roots \union {doc}
    BY <1>3 DEF ReturnItem
  <2>2. Counted /\ roots = {} /\ lost = {} /\ Parsing("valued", heap, <<>>, doc, cur)
    BY <2>1 DEF PInv, Quiet
  <2>3. Sound(heap, {doc}, {}) BY <2>2, ParsingDone
  <2>4. roots' = {doc} BY <2>1, <2>2
  <2>5. Inv' BY <2>1, <2>2, <2>3, <2>4 DEF Inv
  <2>6. Counted' BY <2>1, <2>2 DEF Counted
  <2> QED BY <2>1, <2>5, <2>6 DEF PInv, Quiet
<1>4. CASE Returned
  <2>1. pc \in {"failed", "parsed"} /\ pc' = "idle" /\ UNCHANGED <<heap, strings, roots, lost, stack>>
    BY <1>4 DEF Returned, itemVars
  <2>2. Counted /\ Inv /\ stack = <<>> BY <2>1 DEF PInv, Quiet
  <2>3. Inv' /\ Counted' BY <2>1, <2>2 DEF Inv, Counted
  <2> QED BY <2>1, <2>2, <2>3 DEF PInv, Quiet
<1> QED BY <1>1, <1>2, <1>3, <1>4

(* The calls between them.                                                 *)
LEMMA CallOnItemsKeeps ==
  ASSUME PInv, CallOnItems
  PROVE  PInv'
<1>1. pc = "idle" /\ pc' = pc /\ stack' = stack BY DEF CallOnItems, parseVars
<1>2. Counted /\ Inv /\ stack = <<>> BY <1>1 DEF PInv, Quiet
<1>3. Inv' /\ Counted'
  <2>1. Call \/ \E x \in roots : Delete(x) BY DEF CallOnItems
  <2>2. CASE Call BY <1>2, <2>2, CallsKeep, CallsCount
  <2>3. CASE \E x \in roots : Delete(x)
    BY <1>2, <2>3, RootCallsKeep, RootCallsCount
  <2> QED BY <2>1, <2>2, <2>3
<1> QED BY <1>1, <1>2, <1>3 DEF PInv, Quiet

(* No step breaks the invariant.                                           *)
LEMMA StepsKeep == PInv /\ [Next]_vars => PInv'
<1> SUFFICES ASSUME PInv, [Next]_vars PROVE PInv' OBVIOUS
<1>1. CASE Supply BY <1>1, LookingKeeps
<1>2. CASE Parse
  <2>1. CASE Begin \/ ReturnNull \/ ReturnItem \/ Returned BY <2>1, ReturnsKeep
  <2>2. CASE Start \/ StringFails \/ ValueFails \/ ElementFails \/ NameFails \/ Colon
             \/ Comma \/ ElementEndsBadly
    BY <2>2, LookingKeeps
  <2>3. CASE Scalar \/ parse_string \/ \E kind \in Containers : Open(kind)
    BY <2>3, ValuesKeep
  <2>4. CASE Element BY <2>4, ElementKeeps
  <2>5. CASE Name BY <2>5, NameKeeps
  <2>6. CASE Close BY <2>6, CloseKeeps
  <2>7. CASE Unwind BY <2>7, UnwindKeeps
  <2> QED BY <1>2, <2>1, <2>2, <2>3, <2>4, <2>5, <2>6, <2>7 DEF Parse
<1>3. CASE CallOnItems BY <1>3, CallOnItemsKeeps
<1>4. CASE UNCHANGED vars
  <2>1. UNCHANGED <<heap, strings, roots, lost, pc, stack, doc, cur>>
    BY <1>4 DEF vars, itemVars, parseVars
  <2> QED BY <2>1 DEF PInv, Counted, Inv
<1> QED BY <1>1, <1>2, <1>3, <1>4 DEF Next

(* In the beginning there are no items.                                    *)
LEMMA InitPInv == ParserInit => PInv
<1> SUFFICES ASSUME ParserInit PROVE PInv OBVIOUS
<1>1. Inv /\ Counted BY InitSound, InitCounted DEF ParserInit
<1> QED BY <1>1 DEF ParserInit, PInv, Quiet

-----------------------------------------------------------------------------
(* Whose the nodes are, at every moment                                    *)

(* The first nodes of the lists under way.                                 *)
Heads(st) == {st[k].head : k \in DOMAIN st} \ {NULL}

(* While the parser runs, what is in use is below the item of the document *)
(* and below the lists that are not hung up yet.                           *)
LEMMA BuiltHung ==
  ASSUME NEW h, NEW v, NEW st, NEW d, Built(h, v, st, d),
         NEW par, Linkage(v, par), Held(v, par, {d}, {}), Parented(v, st, par)
  PROVE  Hung(h, v, par, {d} \union Heads(st), {})
<1> DEFINE S == {d} \union Heads(st)
           N == Len(st)
<1>1. N \in Nat /\ DOMAIN st = 1 .. N /\ d \in Items BY DEF Built
<1> HIDE DEF N
<1>2. \A n \in Items : n = d <=> v[n].kind # "FREE" /\ par[n] = NULL BY DEF Held
<1>3. \A x \in S : x = d \/ \E k \in 1 .. N : st[k].head # NULL /\ x = st[k].head
  BY <1>1 DEF Heads
<1>4. ASSUME NEW k \in 1 .. N, st[k].head # NULL
      PROVE  st[k].head \in S /\ st[k].head \in Live(v)
  <2>1. st[k].head \in S BY <1>1, <1>4 DEF Heads
  <2>2. st[k].head \in Items /\ par[st[k].head] = st[k].item /\ st[k].item \in Items
    BY <1>4 DEF Parented, N
  <2>3. par[st[k].head] # NULL BY <2>2, Basics
  <2>4. MemberOK(v, par, st[k].head) BY <2>2, <2>3 DEF Linkage
  <2>5. v[st[k].head].kind # "FREE" BY <2>4 DEF MemberOK
  <2> QED BY <2>1, <2>2, <2>5 DEF Live
<1>5. d \in S /\ d \in Live(v)
  <2>1. v[d].kind # "FREE" BY <1>1, <1>2
  <2> QED BY <1>1, <2>1 DEF Live
<1> HIDE DEF S
<1>6. S \subseteq Live(v) BY <1>3, <1>4, <1>5
<1>7. \A n \in Live(v) : par[n] = NULL => n \in S \union {} BY <1>2, <1>5 DEF Live
<1>8. ASSUME NEW n \in Items
      PROVE  /\ h[n].kind = "FREE" <=> v[n].kind = "FREE"
             /\ h[n].next = v[n].next /\ h[n].ref = v[n].ref
             /\ h[n].child = v[n].child \/ (h[n].child = NULL /\ v[n].child \in S)
  <2>1. /\ v[n].next = h[n].next /\ v[n].ref = h[n].ref
        /\ v[n].kind = "FREE" <=> h[n].kind = "FREE"
        /\ (\A k \in 1 .. N : n # st[k].item) => v[n].child = h[n].child
    BY DEF Built, Resembles, N
  <2>2. CASE \A k \in 1 .. N : n # st[k].item BY <2>1, <2>2
  <2>3. CASE \E k \in 1 .. N : n = st[k].item
    <3>1. PICK k \in 1 .. N : n = st[k].item BY <2>3
    <3>2. FrameOK(h, v, st, d, k) BY DEF Built, N
    <3>3. h[n].child = NULL /\ v[n].child = st[k].head BY <3>1, <3>2 DEF FrameOK
    <3>4. st[k].head = NULL \/ st[k].head \in S BY <1>4
    <3> QED BY <2>1, <3>3, <3>4
  <2> QED BY <2>1, <2>2, <2>3
<1> QED BY <1>6, <1>7, <1>8 DEF Hung, S

(* The invariant says whose the nodes are.                                 *)
LEMMA AllOwned == PInv => MemoryOwned
<1> SUFFICES ASSUME PInv PROVE MemoryOwned OBVIOUS
<1>1. Counted BY DEF PInv
<1>2. CASE pc \in Quiet
  <2>1. Inv /\ stack = <<>> BY <1>2 DEF PInv
  <2>2. DOMAIN stack = {} BY <2>1
  <2>3. UnderWay = {} BY <1>2, <2>2 DEF UnderWay, Quiet
  <2>4. OwnedBy(roots) BY <1>1, <2>1, SoundOwned
  <2>5. roots \union UnderWay = roots BY <2>3
  <2> QED BY <2>4, <2>5 DEF MemoryOwned
<1>3. CASE pc \notin Quiet
  <2>1. roots = {} /\ lost = {} /\ Parsing(pc, heap, stack, doc, cur) BY <1>3 DEF PInv
  <2>2. PICK v : Built(heap, v, stack, doc) BY <2>1 DEF Parsing
  <2>3. PICK par : Linkage(v, par) /\ Held(v, par, {doc}, {}) /\ Parented(v, stack, par)
    BY <2>2, BuiltParents
  <2> DEFINE S == {doc} \union Heads(stack)
  <2>4. Hung(heap, v, par, S, {}) BY <2>2, <2>3, BuiltHung
  <2>5. roots \union UnderWay = S BY <1>3, <2>1 DEF UnderWay, Heads, Quiet
  <2>6. heap \in Heaps /\ Grounded(par) BY <2>2, <2>3 DEF Built, Held
  <2> HIDE DEF S
  <2>7. /\ Live(heap) = (UNION {Below(heap, x) : x \in S}) \union {}
        /\ Reach(heap, Live(heap), TRUE) \subseteq Live(heap)
    BY <2>3, <2>4, <2>6, Covered
  <2>8. strings = Strings(heap, Live(heap)) BY <1>1, CountedLive
  <2>9. OwnedBy(S) BY <2>1, <2>7, <2>8 DEF OwnedBy
  <2> QED BY <2>5, <2>9 DEF MemoryOwned
<1> QED BY <1>2, <1>3

(* On every way through the parser and the calls, memory runs out where it *)
(* may: the nodes in use are those of the caller and of the lists under    *)
(* way, with what is below them, and those known to be lost; and each      *)
(* string allocated belongs to one of them.                                *)
THEOREM MemoryStaysOwned == Spec => []MemoryOwned
<1>1. ParserInit => PInv BY InitPInv
<1>2. PInv /\ [Next]_vars => PInv' BY StepsKeep
<1>3. PInv => MemoryOwned BY AllOwned
<1> QED BY <1>1, <1>2, <1>3, PTL DEF Spec

(* A list is found along next.                                             *)
LEMMA SameList ==
  ASSUME NEW h \in Heaps, NEW v \in Heaps, \A n \in Items : h[n].next = v[n].next, NEW x \in Nodes
  PROVE  List(h, x) = List(v, x)
<1>1. Onward(h) = Onward(v) BY DEF Onward, Nodes
<1>2. Along(h, x) = Along(v, x) BY <1>1 DEF Along
<1> DEFINE L(at) == [k \in 1 .. Cardinality({j \in 1 .. MaxItems + 1 : at[j] # NULL}) |-> at[k]]
<1>3. List(h, x) = L(Along(h, x)) BY ListAt
<1>4. List(v, x) = L(Along(v, x)) BY ListAt
<1> HIDE DEF L
<1> QED BY <1>2, <1>3, <1>4

(* The lists that are hung up have their nodes already as they will be.    *)
LEMMA ListsBuilt ==
  ASSUME NEW h, NEW v, NEW st, NEW d, Built(h, v, st, d),
         NEW par, Linkage(v, par), Parented(v, st, par), NEW p \in Items, IsList(h, p)
  PROVE  /\ Members(h, p) = {n \in Items : par[n] = p}
         /\ Linked(h, p) /\ Len(Kids(h, p)) <= MaxItems
<1> DEFINE N == Len(st)
           kids == Kids(v, p)
<1>1. h \in Heaps /\ v \in Heaps BY DEF Built, Linkage
<1>2. \A k \in 1 .. N : p # st[k].item
  <2> SUFFICES ASSUME NEW k \in 1 .. N PROVE p # st[k].item OBVIOUS
  <2>1. h[st[k].item].kind = "Invalid" BY DEF Built, FrameOK
  <2> QED BY <2>1 DEF IsList, Containers
<1>3. \A n \in Items : h[n].next = v[n].next BY DEF Built, Resembles
<1>4. IsList(v, p) /\ v[p].child = h[p].child /\ h[p].child \in Nodes
  <2>1. v[p].kind = h[p].kind /\ v[p].ref = h[p].ref /\ v[p].child = h[p].child
    BY <1>2 DEF Built, Resembles
  <2> QED BY <1>1, <2>1, Basics DEF IsList
<1>5. Kids(h, p) = kids
  <2>1. List(h, h[p].child) = List(v, h[p].child) BY <1>1, <1>3, <1>4, SameList
  <2> QED BY <1>4, <2>1 DEF Kids
<1>6. /\ Members(v, p) = {n \in Items : par[n] = p} /\ Linked(v, p) /\ Len(kids) <= MaxItems
  BY <1>4, ListOf
<1> HIDE DEF kids
<1>7. Members(h, p) = Members(v, p) BY <1>5 DEF Members, kids
<1>8. \A k \in DOMAIN kids : kids[k] \in Items /\ h[kids[k]].prev = v[kids[k]].prev
  <2> SUFFICES ASSUME NEW k \in DOMAIN kids
               PROVE  kids[k] \in Items /\ h[kids[k]].prev = v[kids[k]].prev
    OBVIOUS
  <2>1. kids[k] \in Members(v, p) BY DEF Members, kids
  <2>2. kids[k] \in Items /\ par[kids[k]] = p BY <1>6, <2>1
  <2>3. \A j \in 1 .. N : kids[k] # st[j].head
    <3> SUFFICES ASSUME NEW j \in 1 .. N, kids[k] = st[j].head PROVE FALSE OBVIOUS
    <3>1. st[j].head # NULL BY <2>2, Basics
    <3>2. par[st[j].head] = st[j].item BY <3>1 DEF Parented
    <3> QED BY <1>2, <2>2, <3>2
  <2>4. v[kids[k]].prev = h[kids[k]].prev BY <2>2, <2>3 DEF Built, Resembles
  <2> QED BY <2>2, <2>4
<1>9. Linked(h, p)
  <2>1. \A k \in DOMAIN kids :
          v[kids[k]].prev = IF k = 1 THEN kids[Len(kids)] ELSE kids[k - 1]
    BY <1>6 DEF Linked, kids
  <2> QED BY <1>5, <1>8, <2>1 DEF Linked
<1> QED BY <1>5, <1>6, <1>7, <1>9

(* The invariant says what the lists are.                                  *)
LEMMA AllLinked == PInv => ListsLinked
<1> SUFFICES ASSUME PInv PROVE ListsLinked OBVIOUS
<1>1. CASE pc \in Quiet BY <1>1, SoundLists DEF PInv
<1>2. CASE pc \notin Quiet
  <2>1. roots = {} /\ Parsing(pc, heap, stack, doc, cur) BY <1>2 DEF PInv
  <2>2. PICK v : Built(heap, v, stack, doc) BY <2>1 DEF Parsing
  <2>3. PICK par : Linkage(v, par) /\ Parented(v, stack, par) BY <2>2, BuiltParents
  <2>4. ASSUME NEW p \in Owners
        PROVE  /\ Members(heap, p) = {n \in Items : par[n] = p}
               /\ Linked(heap, p) /\ Len(Kids(heap, p)) <= MaxItems
    <3>1. p \in Items /\ IsList(heap, p) BY DEF Owners, IsOwner, IsList
    <3> QED BY <2>2, <2>3, <3>1, ListsBuilt
  <2>5. \A p, q \in Owners : p # q => Members(heap, p) \intersect Members(heap, q) = {}
    BY <2>4
  <2> QED BY <2>1, <2>4, <2>5 DEF ListsLinked
<1> QED BY <1>1, <1>2

(* The lists that the parser builds node by node are no exception: what an *)
(* array or object has is a list all along, and no item is in two.         *)
THEOREM ListsLinkedAsParsed == Spec => []ListsLinked
<1>1. ParserInit => PInv BY InitPInv
<1>2. PInv /\ [Next]_vars => PInv' BY StepsKeep
<1>3. PInv => ListsLinked BY AllLinked
<1> QED BY <1>1, <1>2, <1>3, PTL DEF Spec

-----------------------------------------------------------------------------
(* Places in the text                                                      *)

Places ==
  {"idle", "start", "value", "element", "name", "colon", "valued", "fail", "failed", "parsed"}

(* The parser never leaves what it knows of the text, and does not reach   *)
(* its end before an element begins.                                       *)
TInv ==
  /\ pc \in Places /\ closed \in BOOLEAN
  /\ text \in Seq(Chars) /\ Len(text) <= MaxText
  /\ offset \in 0 .. Len(text) /\ position \in 0 .. MaxText
  /\ closed => text # <<>>
  /\ pc \notin {"idle", "start"} => text # <<>>
  /\ pc \in {"element", "name"} => offset < Len(text)
  /\ Len(stack) \in 0 .. CJSON_NESTING_LIMIT

(* The first of a set of places, from one place on.                        *)
LEMMA FirstIn ==
  ASSUME NEW S, NEW m \in Nat, NEW l \in Nat, m < l, l \in S
  PROVE  \E k \in m .. l : k \in S /\ \A j \in m .. k - 1 : j \notin S
<1> DEFINE T == S \intersect (m .. l)
<1>1. T \in SUBSET Nat /\ l \in T OBVIOUS
<1> HIDE DEF T
<1>2. PICK k \in T : \A j \in T : k <= j BY <1>1, LeastOf
<1>3. k \in S /\ k \in m .. l BY <1>2 DEF T
<1>4. \A j \in m .. k - 1 : j \notin S
  <2> SUFFICES ASSUME NEW j \in m .. k - 1, j \in S PROVE FALSE OBVIOUS
  <2>1. j \in m .. l /\ j < k BY <1>3
  <2>2. j \in T BY <2>1 DEF T
  <2>3. k <= j BY <1>2, <2>2
  <2> QED BY <1>3, <2>1, <2>3
<1> QED BY <1>3, <1>4

(* Behind the white space there is a character, but at the very end.       *)
LEMMA SkipsTo ==
  ASSUME text \in Seq(Chars), NEW o \in Nat
  PROVE  IF o < Len(text) THEN Skip(o) \in o .. Len(text) - 1 ELSE Skip(o) = o
<1> DEFINE L == Len(text)
           P(k) == At(k) # "_" /\ \A j \in o .. k - 1 : At(j) = "_"
           p == CHOOSE k \in o .. L : P(k)
           S == {k \in Nat : At(k) # "_"}
<1>1. L \in Nat OBVIOUS
<1>2. L \in S
  <2>1. ~(Len(text) < Len(text)) BY <1>1
  <2>2. At(Len(text)) = "end" BY <2>1, Zenon DEF At
  <2> HIDE DEF At
  <2> QED BY <1>1, <2>2
<1>3. Skip(o) = IF o >= L THEN o ELSE IF p = L THEN p - 1 ELSE p BY Zenon DEF Skip
<1>4. ASSUME o < L PROVE \E k \in o .. L : P(k)
  <2> HIDE DEF S, L
  <2>1. PICK k \in o .. L : k \in S /\ \A j \in o .. k - 1 : j \notin S
    BY <1>1, <1>2, <1>4, FirstIn
  <2>2. \A j \in o .. k - 1 : j \in Nat BY <1>1
  <2>3. At(k) # "_" /\ \A j \in o .. k - 1 : At(j) = "_" BY Zenon, <2>1, <2>2 DEF S
  <2> QED BY Zenon, <2>1, <2>3
<1> HIDE DEF L, P
<1>5. o < L => p \in o .. L BY <1>4, Zenon
<1> HIDE DEF p
<1>6. IF o < L THEN Skip(o) \in o .. L - 1 ELSE Skip(o) = o BY <1>1, <1>3, <1>5
<1> QED BY <1>6 DEF L

(* Behind a place of the text the parser stays in it.                      *)
LEMMA SkipStays ==
  ASSUME text \in Seq(Chars), NEW o \in Nat
  PROVE  /\ Len(text) \in Nat
         /\ o <= Len(text) => Skip(o) \in o .. Len(text)
         /\ o < Len(text) => Skip(o) \in o .. Len(text) - 1
         /\ o >= Len(text) => Skip(o) = o
         /\ At(o) # "end" => o < Len(text)
<1>1. IF o < Len(text) THEN Skip(o) \in o .. Len(text) - 1 ELSE Skip(o) = o BY SkipsTo
<1>2. Len(text) \in Nat OBVIOUS
<1>3. At(o) # "end" => o < Len(text) BY <1>2 DEF At
<1> HIDE DEF Skip, At
<1> QED BY <1>1, <1>2, <1>3

(* A step to another place of the same text.                               *)
LEMMA TextKept ==
  ASSUME TInv, text # <<>>, pc' \in Places \ {"idle", "start"}, offset' \in 0 .. Len(text),
         pc' \in {"element", "name"} => offset' < Len(text),
         UNCHANGED <<text, closed>>, position' \in 0 .. MaxText,
         Len(stack') \in 0 .. CJSON_NESTING_LIMIT
  PROVE  TInv'
BY DEF TInv

(* The text goes on, or ends here.                                         *)
LEMMA SupplyKeepsText ==
  ASSUME TInv, Supply
  PROVE  TInv'
<1>1. /\ UNCHANGED <<pc, offset, stack, position>>
      /\ \/ Len(text) < MaxText /\ UNCHANGED closed /\ \E c \in Chars : text' = Append(text, c)
         \/ text # <<>> /\ closed' = TRUE /\ UNCHANGED text
  BY DEF Supply
<1>2. CASE Len(text) < MaxText /\ UNCHANGED closed /\ \E c \in Chars : text' = Append(text, c)
  <2>1. PICK c \in Chars : text' = Append(text, c) BY <1>2
  <2>2. text \in Seq(Chars) /\ MaxText \in Nat BY ParserAssumption DEF TInv
  <2> DEFINE C == Chars
  <2>3. c \in C /\ text \in Seq(C) BY <2>2
  <2> HIDE DEF C
  <2>4. text' \in Seq(C) /\ Len(text') = Len(text) + 1 /\ Len(text) \in Nat BY <2>1, <2>3
  <2>5. text' # <<>> /\ Len(text') <= MaxText BY <1>2, <2>2, <2>4
  <2>6. offset' \in 0 .. Len(text') BY <1>1, <2>4 DEF TInv
  <2>7. pc' \in {"element", "name"} => offset' < Len(text')
    BY <1>1, <2>4 DEF TInv
  <2> QED BY <1>1, <1>2, <2>4, <2>5, <2>6, <2>7 DEF TInv, C
<1>3. CASE text # <<>> /\ closed' = TRUE /\ UNCHANGED text BY <1>1, <1>3 DEF TInv
<1> QED BY <1>1, <1>2, <1>3

(* The parser begins when it knows some of the text.                       *)
LEMMA StartKeepsText ==
  ASSUME TInv, Begin \/ Start
  PROVE  TInv'
<1>1. CASE Begin BY <1>1 DEF TInv, Begin, textVars, Places
<1>2. CASE Start
  <2>1. /\ pc = "start" /\ Known /\ pc' = "value" /\ offset' = Skip(0)
        /\ UNCHANGED <<text, closed, position, stack>>
    BY <1>2 DEF Start, To, textVars
  <2>2. text # <<>>
    <3> SUFFICES ASSUME text = <<>> PROVE FALSE OBVIOUS
    <3>1. closed = FALSE BY DEF TInv
    <3>2. Cardinality({k \in offset + 1 .. Len(text) : text[k] # "_"}) >= 2
      BY <2>1, <3>1 DEF Known
    <3>3. offset = 0 /\ Len(text) = 0 BY DEF TInv
    <3> DEFINE ahead == {k \in offset + 1 .. Len(text) : text[k] # "_"}
    <3>4. ahead = {} BY <3>3
    <3> HIDE DEF ahead
    <3>5. Cardinality(ahead) = 0 BY <3>4, FS_EmptySet
    <3>6. Cardinality(ahead) >= 2 BY <3>2 DEF ahead
    <3> QED BY <3>5, <3>6
  <2>3. Skip(0) \in 0 .. Len(text) BY SkipStays DEF TInv
  <2>4. pc' \in Places \ {"idle", "start"} /\ pc' \notin {"element", "name"} BY <2>1 DEF Places
  <2>5. position' \in 0 .. MaxText /\ Len(stack') \in 0 .. CJSON_NESTING_LIMIT
    BY <2>1 DEF TInv
  <2> QED BY <2>1, <2>2, <2>3, <2>4, <2>5, TextKept
<1> QED BY <1>1, <1>2

(* What the parser knows while it runs.                                    *)
LEMMA Running ==
  ASSUME TInv, pc \notin {"idle", "start", "failed", "parsed"}
  PROVE  /\ text # <<>> /\ text \in Seq(Chars) /\ Len(text) \in Nat /\ offset \in Nat
         /\ offset <= Len(text) /\ offset + 1 \in Nat /\ position \in 0 .. MaxText
         /\ Len(stack) \in 0 .. CJSON_NESTING_LIMIT
BY DEF TInv

(* A value, its opening bracket and a name are read.                       *)
LEMMA ReadingKeepsText ==
  ASSUME TInv, \/ Scalar \/ parse_string \/ StringFails \/ ValueFails \/ Name \/ NameFails
               \/ Colon \/ Comma \/ ElementEndsBadly \/ ElementFails
  PROVE  TInv'
<1>1. pc \notin {"idle", "start", "failed", "parsed"}
  BY DEF Scalar, parse_string, StringFails, ValueFails, Name, NameFails, Colon, Comma,
         ElementEndsBadly, ElementFails
<1>2. UNCHANGED <<text, closed, position, stack>>
  BY DEF Scalar, parse_string, StringFails, ValueFails, Name, NameFails, Colon, Comma,
         ElementEndsBadly, ElementFails, To, Fail, textVars
<1> DEFINE L == Len(text)
<1>3. /\ text # <<>> /\ text \in Seq(Chars) /\ L \in Nat /\ offset \in Nat /\ offset <= L
      /\ offset + 1 \in Nat /\ position \in 0 .. MaxText
      /\ Len(stack) \in 0 .. CJSON_NESTING_LIMIT
  BY <1>1, Running
<1>4. \A o \in Nat : /\ o <= L => Skip(o) \in o .. L
                     /\ o < L => Skip(o) \in o .. L - 1
                     /\ At(o) # "end" => o < L
  BY <1>3, SkipStays
<1> HIDE DEF L
<1>5. /\ offset' \in 0 .. L
      /\ pc' \in Places \ {"idle", "start"}
      /\ pc' \in {"element", "name"} => offset' < L
  <2>1. CASE Scalar \/ parse_string
    <3>1. At(offset) # "end" /\ offset' = offset + 1 /\ pc' = "valued"
      BY <2>1 DEF Scalar, parse_string, To
    <3>2. offset < L BY <1>3, <1>4, <3>1
    <3>3. offset' \in 0 .. L BY <1>3, <3>1, <3>2
    <3> QED BY <3>1, <3>3 DEF Places
  <2>2. CASE StringFails
    <3>1. At(offset) # "end" /\ offset' = offset + 1 /\ pc' = "fail"
      BY <2>2 DEF StringFails, Fail
    <3>2. offset < L BY <1>3, <1>4, <3>1
    <3>3. offset' \in 0 .. L BY <1>3, <3>1, <3>2
    <3> QED BY <3>1, <3>3 DEF Places
  <2>3. CASE ValueFails \/ ElementFails
    <3>1. offset' = offset /\ pc' = "fail" BY <2>3 DEF ValueFails, ElementFails, Fail
    <3>2. offset' \in 0 .. L BY <1>3, <3>1
    <3> QED BY <3>1, <3>2 DEF Places
  <2>4. CASE Name
    <3> DEFINE o == Skip(offset + 1)
    <3>1. At(o) # "end" /\ offset' = o + 1 /\ pc' = "colon" /\ pc = "name"
      BY <2>4 DEF Name, To
    <3>2. offset < L BY <3>1 DEF TInv, L
    <3>3. o \in Nat /\ o <= L BY <1>3, <1>4, <3>2
    <3> HIDE DEF o
    <3>4. o < L BY <1>4, <3>1, <3>3
    <3>5. offset' \in 0 .. L BY <1>3, <3>1, <3>3, <3>4
    <3> QED BY <3>1, <3>5 DEF Places
  <2>5. CASE NameFails
    <3> DEFINE o == Skip(offset + 1)
    <3>1. pc' = "fail" /\ IF offset + 1 >= L THEN offset' = offset ELSE offset' = o + 1
      BY <2>5 DEF NameFails, Fail, L
    <3>2. offset + 1 < L => o \in offset + 1 .. L - 1 BY <1>3, <1>4
    <3> HIDE DEF o
    <3>3. offset' \in 0 .. L BY <1>3, <3>1, <3>2
    <3> QED BY <3>1, <3>3 DEF Places
  <2>6. CASE Colon
    <3> DEFINE o == Skip(offset)
    <3>1. \/ At(o) = ":" /\ offset' = Skip(o + 1) /\ pc' = "value"
          \/ offset' = o /\ pc' = "fail"
      BY <2>6 DEF Colon, To, Fail
    <3>2. o \in offset .. L BY <1>3, <1>4
    <3> HIDE DEF o
    <3>3. o \in Nat /\ o + 1 \in Nat /\ o <= L BY <1>3, <3>2
    <3>4. ASSUME At(o) = ":" PROVE Skip(o + 1) \in 0 .. L
      <4>1. o < L BY <1>4, <3>3, <3>4
      <4>2. Skip(o + 1) \in o + 1 .. L BY <1>3, <1>4, <3>3, <4>1
      <4> QED BY <1>3, <3>3, <4>2
    <3>5. offset' \in 0 .. L BY <1>3, <3>1, <3>3, <3>4
    <3> QED BY <3>1, <3>5 DEF Places
  <2>7. CASE Comma \/ ElementEndsBadly
    <3> DEFINE o == Skip(offset)
    <3>1. \/ At(o) # "end" /\ offset' = o /\ pc' = "element"
          \/ offset' = o /\ pc' = "fail"
      BY <2>7 DEF Comma, ElementEndsBadly, To, Fail
    <3>2. o \in offset .. L BY <1>3, <1>4
    <3> HIDE DEF o
    <3>3. o \in Nat /\ o <= L BY <1>3, <3>2
    <3>4. At(o) # "end" => o < L BY <1>4, <3>3
    <3>5. offset' \in 0 .. L BY <1>3, <3>1, <3>3
    <3> QED BY <3>1, <3>4, <3>5 DEF Places
  <2> QED BY <2>1, <2>2, <2>3, <2>4, <2>5, <2>6, <2>7
<1>6. position' \in 0 .. MaxText /\ Len(stack') \in 0 .. CJSON_NESTING_LIMIT BY <1>2, <1>3
<1> QED BY <1>2, <1>3, <1>5, <1>6, TextKept DEF L

(* An array or object begins, where there is room for it.                  *)
LEMMA OpenKeepsText ==
  ASSUME TInv, stack \in Seq(StackFrame), NEW kind \in Containers, Open(kind)
  PROVE  TInv'
<1> DEFINE L == Len(text)
           o == Skip(offset + 1)
           N == Len(stack)
<1>1. pc = "value" /\ At(offset) = Opening(kind) BY DEF Open
<1>2. UNCHANGED <<text, closed, position>> BY DEF Open, To, Fail, textVars
<1>3. /\ text # <<>> /\ text \in Seq(Chars) /\ L \in Nat /\ offset \in Nat /\ offset <= L
      /\ offset + 1 \in Nat /\ position \in 0 .. MaxText /\ N \in 0 .. CJSON_NESTING_LIMIT
  BY <1>1, Running
<1>4. offset < L
  <2>1. At(offset) # "end" BY <1>1 DEF Opening
  <2> QED BY <1>3, <2>1, SkipStays
<1>5. o \in Nat /\ offset + 1 <= o /\ o <= L
  <2>1. o \in offset + 1 .. L BY <1>3, <1>4, SkipStays
  <2> QED BY <1>3, <2>1
<1>6. At(o) # "end" => o < L BY <1>3, <1>5, SkipStays
<1>7. \/ /\ pc' = "fail" /\ offset' \in {offset, o - 1} /\ stack' = stack
      \/ /\ pc' = "valued" /\ offset' = o + 1 /\ At(o) # "end" /\ stack' = stack
      \/ /\ pc' = "element" /\ offset' = o - 1 /\ At(o) # "end" /\ N < CJSON_NESTING_LIMIT
         /\ stack' = Append(stack, [item |-> cur, kind |-> kind, head |-> NULL, tail |-> NULL])
  <2>1. Closing(kind) # "end" BY DEF Closing
  <2>2. CJSON_NESTING_LIMIT \in Nat BY ParserAssumption
  <2>3. CASE N >= CJSON_NESTING_LIMIT BY <2>3 DEF Open, Fail
  <2>4. CASE N < CJSON_NESTING_LIMIT
    <3>1. ~(N >= CJSON_NESTING_LIMIT) BY <1>3, <2>2, <2>4
    <3> QED BY <2>1, <2>4, <3>1, Zenon DEF Open, Fail, To
  <2> QED BY <1>3, <2>2, <2>3, <2>4
<1>8. N \in Nat /\ Len(Append(stack, [item |-> cur, kind |-> kind, head |-> NULL, tail |-> NULL]))
                     = N + 1
  OBVIOUS
<1> HIDE DEF L, o, N
<1>9. Len(stack') \in 0 .. CJSON_NESTING_LIMIT
  <2>1. CASE stack' = stack BY <1>3, <2>1 DEF N
  <2>2. CASE stack' # stack
    <3>1. Len(stack') = N + 1 /\ N < CJSON_NESTING_LIMIT BY <1>7, <1>8, <2>2
    <3> QED BY <1>8, <3>1, ParserAssumption
  <2> QED BY <2>1, <2>2
<1>10. offset' \in 0 .. L BY <1>3, <1>5, <1>6, <1>7
<1>11. pc' \in {"element", "name"} => offset' < L BY <1>3, <1>5, <1>6, <1>7
<1>12. pc' \in Places \ {"idle", "start"} BY <1>7 DEF Places
<1> QED BY <1>2, <1>3, <1>9, <1>10, <1>11, <1>12, TextKept DEF L

(* The stack of the invariant.                                             *)
LEMMA StackKnown == PInv => stack \in Seq(StackFrame)
<1>1. CASE pc \in Quiet BY <1>1 DEF PInv
<1>2. CASE pc \notin Quiet BY <1>2 DEF PInv, Parsing, Built
<1> QED BY <1>1, <1>2

(* An element begins, or the last one of a list is complete.               *)
LEMMA ListsKeepText ==
  ASSUME TInv, stack \in Seq(StackFrame), Element \/ Close \/ Unwind
  PROVE  TInv'
<1> DEFINE L == Len(text)
           N == Len(stack)
<1>1. pc \in {"element", "valued", "fail"} BY DEF Element, Close, Unwind
<1>2. UNCHANGED <<text, closed, position>> BY DEF Element, Close, Unwind, To, textVars
<1>3. /\ text # <<>> /\ text \in Seq(Chars) /\ L \in Nat /\ offset \in Nat /\ offset <= L
      /\ offset + 1 \in Nat /\ position \in 0 .. MaxText /\ N \in 0 .. CJSON_NESTING_LIMIT
  BY <1>1, Running
<1>4. CASE Element
  <2> DEFINE o == Skip(offset + 1)
  <2>1. /\ pc = "element"
        /\ (pc' = "value" /\ offset' = o) \/ (pc' = "name" /\ offset' = offset)
    <3>1. To("value", o) \/ To("name", offset) BY <1>4 DEF Element
    <3>2. pc = "element" BY <1>4 DEF Element
    <3> HIDE DEF o, L, N
    <3> QED BY Zenon, <3>1, <3>2 DEF To
  <2>2. offset < L BY <2>1 DEF TInv
  <2>3. o \in offset + 1 .. L BY <1>3, <2>2, SkipStays
  <2>4. Len(stack') = N
    <3>1. PICK n : stack' = [stack EXCEPT ![Len(stack)].head = IF @ = NULL THEN n ELSE @,
                                          ![Len(stack)].tail = n]
      BY <1>4 DEF Element
    <3> QED BY <3>1
  <2> HIDE DEF o, L, N
  <2>5. offset' \in 0 .. L /\ (pc' \in {"element", "name"} => offset' < L)
    BY <1>3, <2>1, <2>2, <2>3
  <2>6. pc' \in Places \ {"idle", "start"} BY <2>1 DEF Places
  <2> QED BY <1>2, <1>3, <2>4, <2>5, <2>6, TextKept DEF L
<1>5. CASE Close \/ Unwind
  <2>1. stack # <<>> /\ stack' = SubSeq(stack, 1, N - 1) BY <1>5 DEF Close, Unwind
  <2>2. Len(stack') \in 0 .. CJSON_NESTING_LIMIT
    <3>1. N \in Nat /\ N # 0 BY <2>1
    <3>2. Len(stack') = N - 1 BY <2>1, ShorterStack
    <3> HIDE DEF N
    <3> QED BY <1>3, <3>1, <3>2, ParserAssumption
  <2>3. /\ offset' \in 0 .. L
        /\ pc' \in {"valued", "fail"}
    <3>1. CASE Close
      <4> DEFINE o == Skip(offset)
      <4>1. At(o) = Closing(Top.kind) /\ offset' = o + 1 /\ pc' = "valued"
        BY <3>1 DEF Close, To
      <4>2. At(o) # "end" BY <4>1 DEF Closing
      <4>3. o \in offset .. L BY <1>3, SkipStays
      <4> HIDE DEF o
      <4>4. o \in Nat BY <1>3, <4>3
      <4>5. o < L BY <1>3, <4>2, <4>4, SkipStays
      <4> HIDE DEF L
      <4> QED BY <1>3, <4>1, <4>4, <4>5
    <3>2. CASE Unwind BY <1>3, <3>2 DEF Unwind
    <3> QED BY <1>5, <3>1, <3>2
  <2>4. pc' \in Places \ {"idle", "start"} /\ pc' \notin {"element", "name"} BY <2>3 DEF Places
  <2> HIDE DEF L, N
  <2> QED BY <1>2, <1>3, <2>2, <2>3, <2>4, TextKept DEF L
<1> QED BY <1>4, <1>5

(* The call returns, and the caller goes on.                               *)
LEMMA ReturnsKeepText ==
  ASSUME TInv, ReturnNull \/ ReturnItem \/ Returned
  PROVE  TInv'
<1>1. CASE ReturnNull
  <2>1. /\ pc = "fail" /\ pc' = "failed" /\ UNCHANGED <<text, closed, offset, stack>>
        /\ position' = IF offset < Len(text) THEN offset ELSE Len(text) - 1
    BY <1>1 DEF ReturnNull, textVars
  <2>2. /\ text # <<>> /\ text \in Seq(Chars) /\ Len(text) \in Nat /\ offset \in Nat
        /\ offset <= Len(text) /\ Len(stack) \in 0 .. CJSON_NESTING_LIMIT
    BY <2>1, Running
  <2>3. Len(text) # 0 BY <2>2
  <2>4. MaxText \in Nat /\ Len(text) <= MaxText BY ParserAssumption DEF TInv
  <2> DEFINE L == Len(text)
  <2> HIDE DEF L
  <2>5. L \in Nat /\ L # 0 /\ offset <= L /\ L <= MaxText
        /\ position' = IF offset < L THEN offset ELSE L - 1
    BY <2>1, <2>2, <2>3, <2>4 DEF L
  <2>6. position' \in 0 .. MaxText BY <2>2, <2>4, <2>5
  <2>7. offset' \in 0 .. Len(text) BY <2>1, <2>2
  <2>8. pc' \in Places \ {"idle", "start"} /\ pc' \notin {"element", "name"} BY <2>1 DEF Places
  <2> QED BY <2>1, <2>2, <2>6, <2>7, <2>8, TextKept
<1>2. CASE ReturnItem
  <2>1. pc = "valued" /\ pc' = "parsed" /\ UNCHANGED <<text, closed, offset, stack, position>>
    BY <1>2 DEF ReturnItem, textVars
  <2>2. text # <<>> BY <2>1 DEF TInv
  <2>3. pc' \in Places \ {"idle", "start"} /\ pc' \notin {"element", "name"} BY <2>1 DEF Places
  <2>4. /\ offset' \in 0 .. Len(text) /\ position' \in 0 .. MaxText
        /\ Len(stack') \in 0 .. CJSON_NESTING_LIMIT
    BY <2>1 DEF TInv
  <2> QED BY <2>1, <2>2, <2>3, <2>4, TextKept
<1>3. CASE Returned
  <2>1. /\ pc' = "idle" /\ text' = <<>> /\ closed' = FALSE /\ offset' = 0 /\ position' = 0
        /\ stack' = stack
    BY <1>3 DEF Returned
  <2> DEFINE C == Chars
  <2> HIDE DEF C
  <2>2. text' \in Seq(C) /\ Len(text') = 0 BY <2>1
  <2>3. pc' \in Places /\ pc' \notin {"element", "name"} BY <2>1 DEF Places
  <2>4. Len(stack') \in 0 .. CJSON_NESTING_LIMIT BY <2>1 DEF TInv
  <2>5. offset' \in 0 .. Len(text') /\ position' \in 0 .. MaxText /\ Len(text') <= MaxText
    BY <2>1, <2>2, ParserAssumption
  <2>6. closed' \in BOOLEAN /\ ~closed' /\ pc' = "idle" BY <2>1
  <2> QED BY Zenon, <2>2, <2>3, <2>4, <2>5, <2>6 DEF TInv, C
<1> QED BY <1>1, <1>2, <1>3

(* No step leaves the text.                                                *)
LEMMA StepsKeepText == PInv /\ TInv /\ [Next]_vars => TInv'
<1> SUFFICES ASSUME PInv, TInv, [Next]_vars PROVE TInv' OBVIOUS
<1>1. stack \in Seq(StackFrame) BY StackKnown
<1>2. CASE Supply BY <1>2, SupplyKeepsText
<1>3. CASE Parse
  <2>1. CASE Begin \/ Start BY <2>1, StartKeepsText
  <2>2. CASE Scalar \/ parse_string \/ StringFails \/ ValueFails \/ Name \/ NameFails
             \/ Colon \/ Comma \/ ElementEndsBadly \/ ElementFails
    BY <2>2, ReadingKeepsText
  <2>3. CASE \E kind \in Containers : Open(kind) BY <1>1, <2>3, OpenKeepsText
  <2>4. CASE Element \/ Close \/ Unwind BY <1>1, <2>4, ListsKeepText
  <2>5. CASE ReturnNull \/ ReturnItem \/ Returned BY <2>5, ReturnsKeepText
  <2> QED BY <1>3, <2>1, <2>2, <2>3, <2>4, <2>5 DEF Parse
<1>4. CASE CallOnItems \/ UNCHANGED vars
  <2>1. UNCHANGED <<pc, text, closed, offset, position, stack>>
    BY <1>4 DEF CallOnItems, vars, parseVars, textVars
  <2> QED BY <2>1 DEF TInv
<1> QED BY <1>2, <1>3, <1>4 DEF Next

(* No text is known in the beginning.                                      *)
LEMMA InitText == ParserInit => TInv
<1> SUFFICES ASSUME ParserInit PROVE TInv OBVIOUS
<1> DEFINE C == Chars
<1> HIDE DEF C
<1>1. text = <<>> /\ stack = <<>> /\ pc = "idle" /\ closed = FALSE /\ offset = 0 /\ position = 0
  BY DEF ParserInit
<1>2. text \in Seq(C) /\ Len(text) = 0 /\ Len(stack) = 0 BY <1>1
<1>3. pc \in Places /\ pc \notin {"element", "name"} BY <1>1 DEF Places
<1>4. /\ offset \in 0 .. Len(text) /\ position \in 0 .. MaxText /\ Len(text) <= MaxText
      /\ Len(stack) \in 0 .. CJSON_NESTING_LIMIT
  BY <1>1, <1>2, ParserAssumption
<1>5. closed \in BOOLEAN /\ ~closed /\ pc = "idle" BY <1>1
<1> QED BY Zenon, <1>2, <1>3, <1>4, <1>5 DEF TInv, C

(* The nodes of a heap are items as ItemsOK has them, and frames are of    *)
(* such nodes.                                                             *)
LEMMA AllTyped == PInv /\ TInv => TypeOK
<1> SUFFICES ASSUME PInv, TInv PROVE TypeOK OBVIOUS
<1>1. heap \in Heaps /\ roots \subseteq Items /\ lost \subseteq Items
  <2>1. CASE pc \in Quiet BY <2>1, SoundHeap DEF PInv, Inv
  <2>2. CASE pc \notin Quiet BY <2>2 DEF PInv, Parsing, Built
  <2> QED BY <2>1, <2>2
<1>2. strings \in Nat BY CountedLive DEF PInv
<1>3. \A n \in Items : ItemOK(heap[n])
  <2> SUFFICES ASSUME NEW n \in Items PROVE ItemOK(heap[n]) OBVIOUS
  <2>1. heap[n] \in Struct BY <1>1 DEF Heaps
  <2> QED BY <2>1, Zenon DEF ItemOK, Struct, Nodes
<1>4. ItemsOK BY <1>1, <1>2, <1>3 DEF ItemsOK
<1>5. \A k \in DOMAIN stack :
        {stack[k].item, stack[k].head, stack[k].tail} \subseteq Items \union {NULL}
  <2> SUFFICES ASSUME NEW k \in DOMAIN stack
               PROVE  {stack[k].item, stack[k].head, stack[k].tail} \subseteq Items \union {NULL}
    OBVIOUS
  <2>1. stack \in Seq(StackFrame) BY StackKnown
  <2>2. stack[k] \in StackFrame BY <2>1
  <2> QED BY <2>2 DEF StackFrame, Nodes
<1>6. \A k \in DOMAIN text : text[k] \in Chars
  <2> DEFINE C == Chars
  <2>1. text \in Seq(C) BY DEF TInv
  <2> HIDE DEF C
  <2>2. \A k \in DOMAIN text : text[k] \in C BY <2>1
  <2> QED BY <2>2 DEF C
<1>7. pc \in Places /\ Len(stack) <= CJSON_NESTING_LIMIT BY ParserAssumption DEF TInv
<1>8. offset \in 0 .. Len(text) /\ position \in 0 .. MaxText /\ Len(text) <= MaxText BY DEF TInv
<1>9. ParserOK BY Zenon, <1>5, <1>6, <1>7, <1>8 DEF ParserOK, Places
<1> QED BY <1>4, <1>9 DEF TypeOK

(* Every item has the fields of one, no more strings are freed than were   *)
(* allocated, and the parser stays within the text, its bounds and the     *)
(* nesting limit.                                                          *)
THEOREM TypeCorrect == Spec => []TypeOK
<1>1. ParserInit => PInv /\ TInv BY InitPInv, InitText
<1>2. (PInv /\ TInv) /\ [Next]_vars => (PInv /\ TInv)' BY StepsKeep, StepsKeepText
<1>3. PInv /\ TInv => TypeOK BY AllTyped
<1> QED BY <1>1, <1>2, <1>3, PTL DEF Spec

(* The printer takes the items as they are.                                *)
LEMMA PrinterItems == PrinterSpec => Spec
<1>1. PrinterInit => ParserInit BY DEF PrinterInit
<1>2. [PrinterNext]_<<vars, printVars>> => [Next]_vars BY DEF PrinterNext
<1> QED BY <1>1, <1>2, PTL DEF PrinterSpec, Spec

(* And with the printer at work as well: what the run checks.              *)
THEOREM PrinterKeepsItems == PrinterSpec => [](TypeOK /\ ListsLinked /\ MemoryOwned)
BY PrinterItems, TypeCorrect, ListsLinkedAsParsed, MemoryStaysOwned, PTL

-----------------------------------------------------------------------------
(* The buffer of the printer                                               *)

(* A loop over a string, as a recursive function: on from x, by step[k] at *)
(* its k-th character.                                                     *)
Loops(b, D, x, step) ==
  \E f \in [0 .. b -> D] : f[0] = x /\ \A k \in 1 .. b : f[k] = step[k][f[k - 1]]

(* There is such a function.                                               *)
LEMMA LoopExists ==
  ASSUME NEW b \in Nat, NEW D, NEW x \in D, NEW step \in [1 .. b -> [D -> D]]
  PROVE  Loops(b, D, x, step)
<1> DEFINE Run(m, f) == f[0] = x /\ \A k \in 1 .. m : f[k] = step[k][f[k - 1]]
           G == {m \in Nat : m <= b => \E f \in [0 .. m -> D] : Run(m, f)}
<1>1. 0 \in G
  <2> DEFINE f == [k \in 0 .. 0 |-> x]
  <2>1. f \in [0 .. 0 -> D] /\ Run(0, f) OBVIOUS
  <2> QED BY <2>1
<1>2. ASSUME NEW m \in Nat, m \in G PROVE m + 1 \in G
  <2> SUFFICES ASSUME m + 1 <= b PROVE \E f \in [0 .. m + 1 -> D] : Run(m + 1, f) OBVIOUS
  <2>1. PICK g \in [0 .. m -> D] : Run(m, g) BY <1>2
  <2> DEFINE f == [k \in 0 .. m + 1 |-> IF k <= m THEN g[k] ELSE step[k][g[m]]]
  <2>2. m + 1 \in 1 .. b /\ g[m] \in D OBVIOUS
  <2>3. step[m + 1] \in [D -> D] BY <2>2
  <2>4. step[m + 1][g[m]] \in D BY <2>2, <2>3
  <2>5. f \in [0 .. m + 1 -> D] BY <2>4
  <2>6. \A k \in 0 .. m : f[k] = g[k] OBVIOUS
  <2>7. f[m + 1] = step[m + 1][g[m]] OBVIOUS
  <2>8. \A k \in 1 .. m + 1 : /\ k - 1 \in 0 .. m
                              /\ k \in 1 .. m \/ (k = m + 1 /\ k - 1 = m)
    OBVIOUS
  <2>9. 0 \in 0 .. m /\ m \in 0 .. m /\ \A k \in 1 .. m : k \in 0 .. m OBVIOUS
  <2> HIDE DEF f
  <2>10. Run(m + 1, f) BY <2>1, <2>6, <2>7, <2>8, <2>9
  <2> QED BY <2>5, <2>10
<1>3. b \in G BY <1>1, <1>2, AllNaturals
<1> QED BY <1>3 DEF Loops

(* The numbers up to the length of a string, by induction.                 *)
LEMMA UpTo ==
  ASSUME NEW b \in Nat, NEW G, 0 \in G, \A k \in 1 .. b : k - 1 \in G => k \in G
  PROVE  b \in G
<1> DEFINE H == {m \in Nat : m <= b => m \in G}
<1>1. 0 \in H OBVIOUS
<1>2. ASSUME NEW m \in Nat, m \in H PROVE m + 1 \in H
  <2> SUFFICES ASSUME m + 1 <= b PROVE m + 1 \in G OBVIOUS
  <2>1. m + 1 \in 1 .. b /\ (m + 1) - 1 = m /\ m \in G BY <1>2
  <2> QED BY <2>1
<1>3. b \in H BY <1>1, <1>2, AllNaturals
<1> QED BY <1>3

(* The characters of strings, and what is printed besides.                 *)
Byte ==
  STRING \union {Quote, Nul, "back", "u", "0", "1", "f", "7", "n", "l", "[", "]", "{", "}", ":",
                 ",", " ", "tab", "line"}

(* A character is written in one byte, and as many more as are counted.    *)
LEMMA EscapeLength ==
  ASSUME NEW c \in Byte
  PROVE  Escape(c) \in Seq(Byte) /\ Extra(c) \in Nat /\ Len(Escape(c)) = 1 + Extra(c)
<1>1. /\ "back" \in Byte /\ "u" \in Byte /\ "0" \in Byte /\ "1" \in Byte /\ "f" \in Byte
      /\ "quote" \in Byte
  BY Zenon DEF Byte, Quote
<1> HIDE DEF Byte
<1>2. CASE c = "quote"
  <2>1. Escape(c) = <<"back", "quote">> /\ Extra(c) = 1 BY <1>2 DEF Escape, Extra
  <2> QED BY <1>1, <2>1
<1>3. CASE c = "control"
  <2>1. Escape(c) = <<"back", "u", "0", "0", "1", "f">> /\ Extra(c) = 5
    BY <1>3 DEF Escape, Extra
  <2> QED BY <1>1, <2>1
<1>4. CASE c # "quote" /\ c # "control" BY <1>4 DEF Escape, Extra
<1> QED BY <1>2, <1>3, <1>4

(* The opening quote alone.                                                *)
LEMMA QuoteOnly == Quote \in Byte /\ <<Quote>> \in Seq(Byte) /\ Len(<<Quote>>) = 1
<1>1. Quote \in Byte BY Zenon DEF Byte
<1> HIDE DEF Byte
<1> QED BY <1>1

(* The length that is counted, and what is written so far, are found by    *)
(* such loops.                                                             *)
Counting(s) == [k \in 1 .. Len(s) |-> [n \in Nat |-> n + 1 + Extra(s[k])]]
Writing(s) == [k \in 1 .. Len(s) |-> [t \in Seq(Byte) |-> t \o Escape(s[k])]]

(* The first loop counts the bytes that the second one writes.             *)
LEMMA QuotedLength ==
  ASSUME NEW s \in Seq(Byte)
  PROVE  /\ output_length(s) \in Nat
         /\ Quoted(s) \in Seq(Byte) /\ Len(Quoted(s)) = output_length(s) + 2
<1> DEFINE N == Len(s)
           D == Seq(Byte)
           isCount(f) == f = [k \in 0 .. N |-> IF k = 0 THEN 0 ELSE f[k - 1] + 1 + Extra(s[k])]
           isOutput(f) ==
             f = [k \in 0 .. N |-> IF k = 0 THEN <<Quote>> ELSE f[k - 1] \o Escape(s[k])]
           count == CHOOSE f : isCount(f)
           output == CHOOSE f : isOutput(f)
<1>1. N \in Nat /\ \A k \in 1 .. N : s[k] \in Byte OBVIOUS
<1>2. output_length(s) = count[N] BY Zenon DEF output_length
<1>3. Quoted(s) = Append(output[N], Quote) BY Zenon DEF Quoted
<1> HIDE DEF N
<1>4. \A k \in 1 .. N : /\ Escape(s[k]) \in D /\ Extra(s[k]) \in Nat
                        /\ Len(Escape(s[k])) = 1 + Extra(s[k])
  BY <1>1, EscapeLength
<1>5. isCount(count)
  <2>1. Counting(s) \in [1 .. N -> [Nat -> Nat]] BY <1>4 DEF Counting, N
  <2>8. Loops(N, Nat, 0, Counting(s)) BY <1>1, <2>1, LoopExists
  <2>2. PICK f \in [0 .. N -> Nat] : f[0] = 0 /\ \A k \in 1 .. N : f[k] = Counting(s)[k][f[k - 1]]
    BY <2>8 DEF Loops
  <2>3. ASSUME NEW k \in 1 .. N PROVE f[k] = f[k - 1] + 1 + Extra(s[k])
    <3>1. k - 1 \in 0 .. N BY <1>1
    <3>2. f[k - 1] \in Nat BY <3>1
    <3>3. Counting(s)[k][f[k - 1]] = f[k - 1] + 1 + Extra(s[k]) BY <3>2 DEF Counting, N
    <3> QED BY <2>2, <3>3
  <2>4. \A k \in 0 .. N : k # 0 => k \in 1 .. N BY <1>1
  <2>5. f = [k \in 0 .. N |-> f[k]] OBVIOUS
  <2>6. \A k \in 0 .. N : f[k] = IF k = 0 THEN 0 ELSE f[k - 1] + 1 + Extra(s[k])
    BY <2>2, <2>3, <2>4
  <2>7. isCount(f) BY <2>5, <2>6
  <2> HIDE DEF isCount
  <2> QED BY <2>7, Zenon DEF count
<1>6. isOutput(output)
  <2>1. Writing(s) \in [1 .. N -> [D -> D]]
    <3>1. ASSUME NEW k \in 1 .. N PROVE [t \in D |-> t \o Escape(s[k])] \in [D -> D]
      BY <1>4
    <3>2. Writing(s) = [k \in 1 .. N |-> [t \in D |-> t \o Escape(s[k])]] BY DEF Writing, N
    <3> QED BY <3>1, <3>2
  <2>2. <<Quote>> \in D BY QuoteOnly
  <2> HIDE DEF D
  <2>9. Loops(N, D, <<Quote>>, Writing(s)) BY <1>1, <2>1, <2>2, LoopExists
  <2>3. PICK f \in [0 .. N -> D] :
          f[0] = <<Quote>> /\ \A k \in 1 .. N : f[k] = Writing(s)[k][f[k - 1]]
    BY <2>9 DEF Loops
  <2>4. ASSUME NEW k \in 1 .. N PROVE f[k] = f[k - 1] \o Escape(s[k])
    <3>1. k - 1 \in 0 .. N BY <1>1
    <3>2. f[k - 1] \in D BY <3>1
    <3>3. Writing(s)[k][f[k - 1]] = f[k - 1] \o Escape(s[k]) BY <3>2 DEF Writing, N, D
    <3> QED BY <2>3, <3>3
  <2>5. \A k \in 0 .. N : k # 0 => k \in 1 .. N BY <1>1
  <2>6. f = [k \in 0 .. N |-> f[k]] OBVIOUS
  <2>7. \A k \in 0 .. N : f[k] = IF k = 0 THEN <<Quote>> ELSE f[k - 1] \o Escape(s[k])
    BY <2>3, <2>4, <2>5
  <2>8. isOutput(f) BY <2>6, <2>7
  <2> HIDE DEF isOutput
  <2> QED BY <2>8, Zenon DEF output
<1> HIDE DEF count, output
<1> DEFINE G == {k \in 0 .. N : /\ count[k] \in Nat /\ output[k] \in D
                                /\ Len(output[k]) = count[k] + 1}
<1>7. 0 \in G
  <2>1. count[0] = 0 /\ output[0] = <<Quote>> BY <1>1, <1>5, <1>6
  <2> DEFINE q == <<Quote>>
  <2>2. q \in D /\ Len(q) = 1 BY QuoteOnly
  <2>3. output[0] = q BY <2>1
  <2> HIDE DEF D, q
  <2>4. output[0] \in D /\ Len(output[0]) = 1 BY Zenon, <2>2, <2>3
  <2>5. 0 \in 0 .. N /\ count[0] \in Nat /\ count[0] + 1 = 1 BY <1>1, <2>1
  <2>6. Len(output[0]) = count[0] + 1 BY Zenon, <2>4, <2>5
  <2> QED BY Zenon, <2>4, <2>5, <2>6
<1>8. ASSUME NEW k \in 1 .. N, k - 1 \in G PROVE k \in G
  <2>1. k \in 0 .. N /\ k # 0 BY <1>1
  <2>2. count[k] = count[k - 1] + 1 + Extra(s[k]) BY <1>5, <2>1
  <2>3. output[k] = output[k - 1] \o Escape(s[k]) BY <1>6, <2>1
  <2>4. count[k - 1] \in Nat /\ output[k - 1] \in D /\ Len(output[k - 1]) = count[k - 1] + 1
    BY <1>8
  <2> DEFINE t == output[k - 1]
             e == Escape(s[k])
  <2>5. t \in D /\ e \in D BY <1>4, <2>4
  <2> HIDE DEF t, e
  <2>6. t \o e \in D /\ Len(t \o e) = Len(t) + Len(e) BY <2>5
  <2>7. Len(e) = 1 + Extra(s[k]) /\ Extra(s[k]) \in Nat BY <1>4 DEF e
  <2>8. Len(t) = count[k - 1] + 1 BY <2>4 DEF t
  <2> DEFINE w == t \o e
  <2>9. output[k] = w /\ w \in D /\ Len(w) = Len(t) + Len(e) BY <2>3, <2>6 DEF t, e
  <2> HIDE DEF D, w
  <2>10. count[k] \in Nat /\ Len(output[k]) = count[k] + 1
    <3>1. Len(output[k]) = Len(w) BY Zenon, <2>9
    <3>2. Len(w) = (count[k - 1] + 1) + (1 + Extra(s[k])) BY Zenon, <2>7, <2>8, <2>9
    <3>3. /\ count[k] \in Nat
          /\ (count[k - 1] + 1) + (1 + Extra(s[k])) = count[k] + 1
      <4> DEFINE x == count[k - 1]
                 y == Extra(s[k])
      <4>1. x \in Nat /\ y \in Nat /\ count[k] = x + 1 + y BY <2>2, <2>4, <2>7
      <4> HIDE DEF x, y
      <4>2. count[k] \in Nat /\ (x + 1) + (1 + y) = count[k] + 1 BY <4>1
      <4> QED BY Zenon, <4>2 DEF x, y
    <3> QED BY Zenon, <3>1, <3>2, <3>3
  <2> QED BY <2>1, <2>9, <2>10
<1>9. N \in G
  <2> HIDE DEF G
  <2> QED BY <1>1, <1>7, <1>8, UpTo
<1>10. count[N] \in Nat /\ output[N] \in D /\ Len(output[N]) = count[N] + 1 BY <1>9
<1>11. Quote \in Byte BY QuoteOnly
<1> HIDE DEF G, Byte
<1>12. Append(output[N], Quote) \in D /\ Len(Append(output[N], Quote)) = count[N] + 2
  BY <1>10, <1>11
<1> QED BY <1>2, <1>3, <1>10, <1>12

(* Bytes up to the offset that follow one another, and the first Nul       *)
(* behind it.                                                              *)
Buffers == [bytes : Seq(Byte), length : Nat, offset : Nat]
Within(b) == b \in Buffers /\ b.offset <= Len(b.bytes) /\ Len(b.bytes) <= b.length
Terminated(b) == \E k \in b.offset + 1 .. Len(b.bytes) : b.bytes[k] = Nul

(* A piece that is written leaves what is before it, and lengthens what    *)
(* has been written at most by its own length.                             *)
LEMMA OverwrittenBy ==
  ASSUME NEW B, NEW bytes \in Seq(B), NEW o \in Nat, o <= Len(bytes), NEW s \in Seq(B)
  PROVE  LET r == Overwritten(bytes, o, s)
         IN /\ r \in Seq(B) /\ Len(r) \in Nat
            /\ Len(r) = IF o + Len(s) >= Len(bytes) THEN o + Len(s) ELSE Len(bytes)
            /\ \A k \in 1 .. Len(s) : r[o + k] = s[k]
<1> DEFINE N == Len(bytes)
           M == Len(s)
           p == SubSeq(bytes, 1, o)
           q == SubSeq(bytes, o + M + 1, N)
           ps == p \o s
           r == Overwritten(bytes, o, s)
<1>1. N \in Nat /\ M \in Nat OBVIOUS
<1>2. p \in Seq(B) /\ Len(p) = o BY <1>1
<1>3. q \in Seq(B) /\ Len(q) = IF o + M >= N THEN 0 ELSE N - (o + M) BY <1>1
<1> HIDE DEF p, q
<1>4. /\ ps \in Seq(B) /\ Len(ps) = o + M
      /\ \A k \in 1 .. M : ps[o + k] = s[k]
  BY <1>1, <1>2
<1>5. r = ps \o q BY DEF Overwritten, p, q
<1> HIDE DEF ps, r
<1> DEFINE w == ps \o q
<1>6. w \in Seq(B) /\ Len(w) = Len(ps) + Len(q) /\ \A k \in 1 .. Len(ps) : w[k] = ps[k]
  <2>1. ps \in Seq(B) /\ q \in Seq(B) BY <1>3, <1>4
  <2>2. Len(ps) \in Nat BY <2>1
  <2> QED BY <2>1, <2>2
<1>7. r = w BY <1>5
<1> HIDE DEF w, N, M
<1>8. r \in Seq(B) /\ Len(r) = Len(w) BY <1>6, <1>7
<1>9. Len(w) = IF o + M >= N THEN o + M ELSE N BY <1>1, <1>3, <1>4, <1>6
<1>10. \A k \in 1 .. M : r[o + k] = s[k]
  <2> SUFFICES ASSUME NEW k \in 1 .. M PROVE r[o + k] = s[k] OBVIOUS
  <2>1. o + k \in 1 .. Len(ps) BY <1>1, <1>4
  <2> QED BY <1>4, <1>6, <1>7, <2>1
<1>11. Len(r) \in Nat BY <1>1, <1>8, <1>9
<1> QED BY <1>8, <1>9, <1>10, <1>11 DEF N, M, r

(* The room that ensure makes.                                             *)
LEMMA EnsureRoom ==
  ASSUME Within(buf), NEW needed \in Nat, NEW b \in ensure(needed)
  PROVE  /\ Within(b) /\ b.offset = buf.offset /\ b.offset + needed + 1 <= b.length
         /\ noalloc => b.length = buf.length
<1>1. /\ buf \in Buffers /\ buf.bytes \in Seq(Byte) /\ buf.length \in Nat /\ buf.offset \in Nat
      /\ buf.offset <= Len(buf.bytes) /\ Len(buf.bytes) <= buf.length
  BY DEF Within, Buffers
<1>2. \/ ~Lacks(needed) /\ b = buf
      \/ Lacks(needed) /\ ~noalloc /\ b \in Longer(needed)
  BY Zenon DEF ensure
<1> HIDE DEF Byte
<1>3. CASE ~Lacks(needed) /\ b = buf
  <2>1. ~(buf.offset + needed + 1 > buf.length) BY <1>3 DEF Lacks
  <2>2. b.offset + needed + 1 <= b.length BY <1>1, <1>3, <2>1
  <2> QED BY <1>3, <2>2
<1>4. CASE Lacks(needed) /\ ~noalloc /\ b \in Longer(needed)
  <2> DEFINE o == buf.offset
             N == Len(buf.bytes)
             m == IF o < N THEN o + 1 ELSE N
             kept == SubSeq(buf.bytes, 1, m)
             l == 2 * (o + needed + 1)
  <2>1. PICK y \in {buf.bytes, kept} : b = [buf EXCEPT !.length = l, !.bytes = y]
    BY <1>4 DEF Longer
  <2>2. N \in Nat /\ o \in Nat /\ o <= N /\ m \in Nat /\ m <= N /\ o <= m BY <1>1
  <2>3. N < o + needed + 2
    <3>1. o + needed + 1 > buf.length BY <1>4 DEF Lacks
    <3> QED BY <1>1, <2>2, <3>1
  <2> HIDE DEF m
  <2>4. kept \in Seq(Byte) /\ Len(kept) = m BY <1>1, <2>2
  <2> HIDE DEF kept
  <2>5. y \in Seq(Byte) /\ Len(y) \in Nat /\ o <= Len(y) /\ Len(y) <= N
    BY <1>1, <2>1, <2>2, <2>4
  <2>6. l \in Nat BY <2>2
  <2>7. b \in Buffers /\ b.bytes = y /\ b.length = l /\ b.offset = o
    BY <1>1, <2>1, <2>5, <2>6 DEF Buffers
  <2> HIDE DEF N, o
  <2>8. Len(y) <= l /\ o + needed + 1 <= l BY <2>2, <2>3, <2>5
  <2> QED BY <1>4, <2>5, <2>7, <2>8 DEF Within, o
<1> QED BY <1>2, <1>3, <1>4

(* A piece fits if no more is written than was asked for, and is found     *)
(* again if it ends with a Nul that is not advanced over.                  *)
LEMMA PutFits ==
  ASSUME Within(buf), NEW needed \in Nat, NEW s \in Seq(Byte), NEW by \in Nat,
         Len(s) <= needed + 1, by <= Len(s), Put(needed, s, by)
  PROVE  /\ Within(buf') /\ UNCHANGED call
         /\ noalloc => buf'.length = buf.length
         /\ by < Len(s) /\ s[Len(s)] = Nul => Terminated(buf')
<1>1. PICK b \in ensure(needed) :
        buf' = [b EXCEPT !.bytes = Overwritten(@, b.offset, s), !.offset = @ + by]
  BY DEF Put
<1>2. UNCHANGED call BY DEF Put
<1>3. /\ Within(b) /\ b.offset + needed + 1 <= b.length
      /\ noalloc => b.length = buf.length
  BY EnsureRoom
<1> DEFINE o == b.offset
           r == Overwritten(b.bytes, o, s)
           N == Len(b.bytes)
           M == Len(s)
<1>4. /\ b \in Buffers /\ b.bytes \in Seq(Byte) /\ b.length \in Nat /\ o \in Nat
      /\ o <= N /\ N <= b.length /\ N \in Nat /\ M \in Nat
  BY <1>3 DEF Within, Buffers
<1> HIDE DEF Byte
<1>5. /\ r \in Seq(Byte) /\ Len(r) \in Nat
      /\ Len(r) = IF o + M >= N THEN o + M ELSE N
      /\ \A k \in 1 .. M : r[o + k] = s[k]
  BY <1>4, OverwrittenBy
<1> HIDE DEF r
<1>6. buf' = [b EXCEPT !.bytes = r, !.offset = o + by] BY <1>1 DEF r
<1>7. o + by \in Nat BY <1>4
<1>8. buf' \in Buffers /\ buf'.bytes = r /\ buf'.offset = o + by /\ buf'.length = b.length
  BY <1>4, <1>5, <1>6, <1>7 DEF Buffers
<1> HIDE DEF o, N, M
<1>9. o + by <= Len(r) /\ Len(r) <= b.length
  <2>1. o + needed + 1 <= b.length BY <1>3 DEF o
  <2>2. M <= needed + 1 /\ by <= M BY DEF M
  <2> QED BY <1>4, <1>5, <2>1, <2>2
<1>10. ASSUME by < M, s[M] = Nul PROVE Terminated(buf')
  <2>1. o + M \in o + by + 1 .. Len(r) BY <1>4, <1>5, <1>10
  <2>2. M \in 1 .. M BY <1>4, <1>10
  <2>3. r[o + M] = Nul BY <1>5, <1>10, <2>2
  <2> QED BY <1>8, <2>1, <2>3 DEF Terminated
<1>11. Within(buf') BY <1>8, <1>9 DEF Within
<1> QED BY <1>2, <1>3, <1>8, <1>10, <1>11 DEF M

(* The offset moves to the terminator.                                     *)
LEMMA ToTerminator ==
  ASSUME NEW b, Within(b), Terminated(b)
  PROVE  /\ Within(Advanced(b)) /\ Advanced(b).length = b.length /\ Advanced(b).bytes = b.bytes
         /\ Advanced(b).offset = b.offset + strlen(b.bytes, b.offset)
         /\ b.offset + strlen(b.bytes, b.offset) < Len(b.bytes)
         /\ b.bytes[b.offset + strlen(b.bytes, b.offset) + 1] = Nul
<1> DEFINE o == b.offset
           N == Len(b.bytes)
           E == {k \in o + 1 .. N : b.bytes[k] = Nul}
           P(k) == \A j \in E : k <= j
           z == CHOOSE k \in E : P(k)
           n == strlen(b.bytes, o)
<1>1. b \in Buffers /\ o \in Nat /\ N \in Nat /\ o <= N BY DEF Within, Buffers
<1>2. E # {} BY DEF Terminated
<1>3. \A k \in E : k \in o + 1 .. N /\ b.bytes[k] = Nul OBVIOUS
<1>4. n = IF E = {} THEN N + 1 - o ELSE z - 1 - o BY Zenon DEF strlen
<1> HIDE DEF E, N, n, o
<1>5. E \in SUBSET Nat BY <1>1, <1>3
<1>6. \E k \in E : P(k) BY <1>2, <1>5, LeastOf
<1>7. z \in E BY <1>6, Zenon
<1> HIDE DEF z
<1>8. n = z - 1 - o BY <1>2, <1>4
<1>9. z \in Nat /\ o + 1 <= z /\ z <= N /\ b.bytes[z] = Nul BY <1>1, <1>3, <1>7
<1>10. n \in Nat /\ o + n = z - 1 /\ o + n < N /\ o + n + 1 = z BY <1>1, <1>8, <1>9
<1>11. Advanced(b) = [b EXCEPT !.offset = o + n] BY Zenon DEF Advanced, o, n
<1>12. o + n \in Nat BY <1>1, <1>10
<1>13. /\ Advanced(b) \in Buffers /\ Advanced(b).offset = o + n
       /\ Advanced(b).length = b.length /\ Advanced(b).bytes = b.bytes
  BY <1>1, <1>11, <1>12 DEF Buffers
<1>14. o + n <= N BY <1>10, <1>12, <1>1
<1>15. Within(Advanced(b)) BY <1>13, <1>14 DEF Within, N
<1>16. b.bytes[o + n + 1] = Nul BY <1>9, <1>10
<1> QED BY <1>10, <1>13, <1>15, <1>16 DEF o, n, N

(* The invariant of the printer: what has been written is in the buffer,   *)
(* up to the offset and beyond only what is ended by a Nul; the depth is   *)
(* the number of arrays and objects under way.                             *)
Inside == {"indent", "key", "keyed", "colon", "comma", "close", "valued"}
Ending == {"keyed", "valued", "done", "printed"}

Under == depth = Len(frames) /\ depth \in Nat /\ \E S : frames \in Seq(S)

BInv ==
  /\ Within(buf) /\ (noalloc => buf.length <= call.length)
  /\ ppc \in Ending => Terminated(buf)
  /\ Under /\ (ppc \in Inside => frames # <<>>)
  /\ IF ppc = "rest" THEN call = NoCall ELSE call.length \in Nat /\ call.string \in Seq(Byte)

(* What the invariant says of a buffer is what is promised of it.          *)
LEMMA BufferKept == BInv => InBuffer
<1> SUFFICES ASSUME BInv PROVE InBuffer OBVIOUS
<1>1. Within(buf) /\ (noalloc => buf.length <= call.length) BY DEF BInv
<1>2. Len(buf.bytes) <= buf.length BY <1>1 DEF Within
<1>3. ASSUME ppc \in {"keyed", "valued", "done", "printed"}
      PROVE  buf.offset + strlen(buf.bytes, buf.offset) < Len(buf.bytes)
  <2>1. Terminated(buf) BY <1>3 DEF BInv, Ending
  <2> QED BY <1>1, <2>1, ToTerminator
<1> HIDE DEF noalloc
<1> QED BY Zenon, <1>1, <1>2, <1>3 DEF InBuffer

(* A step that writes a piece, in the same array or object.                *)
LEMMA PieceKeeps ==
  ASSUME BInv, ppc # "rest", NEW needed \in Nat, NEW s \in Seq(Byte), NEW by \in Nat,
         Len(s) <= needed + 1, by <= Len(s), Put(needed, s, by), Under',
         ppc' # "rest", ppc' \in Inside => frames' # <<>>,
         ppc' \in Ending => by < Len(s) /\ s[Len(s)] = Nul
  PROVE  BInv'
<1>1. Within(buf) /\ (noalloc => buf.length <= call.length) BY DEF BInv
<1>2. call.length \in Nat /\ call.string \in Seq(Byte) BY DEF BInv
<1>3. /\ Within(buf') /\ call' = call
      /\ noalloc => buf'.length = buf.length
      /\ by < Len(s) /\ s[Len(s)] = Nul => Terminated(buf')
  BY <1>1, PutFits
<1>4. noalloc' <=> noalloc BY <1>3 DEF noalloc
<1> HIDE DEF noalloc
<1>5. noalloc' => buf'.length <= call'.length BY <1>1, <1>3, <1>4
<1>6. ppc' \in Ending => Terminated(buf') BY <1>3
<1>7. call'.length \in Nat /\ call'.string \in Seq(Byte) BY <1>2, <1>3
<1>8. Within(buf)' /\ (ppc' \in Ending => Terminated(buf)') BY <1>3, <1>6 DEF Within, Terminated
<1> QED BY <1>5, <1>7, <1>8 DEF BInv

(* Nothing is written in no buffer.                                        *)
LEMMA EmptyBuffer == Within(NoBuffer)
<1> DEFINE B == Byte
<1> HIDE DEF B
<1>1. NoBuffer.bytes = <<>> /\ NoBuffer.length = 0 /\ NoBuffer.offset = 0 BY DEF NoBuffer
<1>2. <<>> \in Seq(B) /\ Len(<<>>) = 0 OBVIOUS
<1>3. NoBuffer \in [bytes : Seq(B), length : Nat, offset : Nat] BY <1>2 DEF NoBuffer
<1>4. NoBuffer \in Buffers BY <1>3 DEF Buffers, B
<1> QED BY <1>1, <1>2, <1>4 DEF Within

(* There is no room: the buffer is given up, unless it is the caller's.    *)
LEMMA ShortKeeps ==
  ASSUME BInv, ppc # "rest", NEW needed, Short(needed)
  PROVE  BInv'
<1>1. /\ ppc' = "fail" /\ UNCHANGED <<call, depth, frames>>
      /\ buf' = buf \/ buf' = NoBuffer
  BY DEF Short
<1>2. Within(buf) /\ Within(NoBuffer) BY EmptyBuffer DEF BInv
<1>3. call.length \in Nat /\ call.string \in Seq(Byte) BY DEF BInv
<1>4. Within(buf') BY <1>1, <1>2
<1>5. noalloc' <=> noalloc BY <1>1 DEF noalloc
<1> HIDE DEF noalloc
<1>6. noalloc' => buf'.length <= call'.length
  <2>1. CASE buf' = buf BY <1>1, <1>5, <2>1 DEF BInv
  <2>2. CASE buf' = NoBuffer
    <3>1. buf'.length = 0 BY <2>2 DEF NoBuffer
    <3> QED BY <1>1, <1>3, <3>1
  <2> QED BY <1>1, <2>1, <2>2
<1>7. Under' BY <1>1 DEF BInv, Under
<1>8. ppc' \notin Ending /\ ppc' \notin Inside /\ ppc' # "rest" BY <1>1 DEF Ending, Inside
<1>9. Within(buf)' BY <1>4 DEF Within
<1>10. call'.length \in Nat /\ call'.string \in Seq(Byte) BY <1>1, <1>3
<1> QED BY <1>6, <1>7, <1>8, <1>9, <1>10 DEF BInv

(* What a step leaves as it is.                                            *)
LEMMA SameUnder == ASSUME BInv, Here PROVE Under' /\ frames' = frames
BY DEF BInv, Under, Here

(* Strings: as long as they are counted.                                   *)
LEMMA StringKeeps ==
  ASSUME BInv, ppc # "rest", NEW s \in Seq(Byte), NEW to, to # "rest",
         to \in Inside => frames # <<>>, PrintString(s, to)
  PROVE  BInv'
<1>1. CASE Short(output_length(s) + 3) BY <1>1, ShortKeeps
<1>2. CASE Put(output_length(s) + 3, Quoted(s) \o <<Nul>>, 0) /\ ppc' = to /\ Here
  <2> DEFINE n == output_length(s)
             q == Quoted(s)
             B == Byte
             nul == Nul
             t == q \o <<nul>>
  <2>1. n \in Nat /\ q \in Seq(B) /\ Len(q) = n + 2 BY QuotedLength
  <2>2. nul \in B BY Zenon DEF Byte
  <2> HIDE DEF n, q, B, nul
  <2>3. t \in Seq(B) /\ Len(t) = n + 3 /\ t[n + 3] = nul BY <2>1, <2>2
  <2> HIDE DEF t
  <2>4. Len(t) <= (n + 3) + 1 /\ 0 <= Len(t) /\ 0 < Len(t) /\ n + 3 \in Nat /\ 0 \in Nat
        /\ t[Len(t)] = nul
    BY <2>1, <2>3
  <2>5. Put(n + 3, t, 0) BY <1>2 DEF n, t, q, nul
  <2>6. Under' /\ frames' = frames BY <1>2, SameUnder
  <2>7. ppc' # "rest" /\ (ppc' \in Inside => frames' # <<>>) BY <1>2, <2>6
  <2>8. t \in Seq(Byte) /\ t[Len(t)] = Nul BY <2>3, <2>4 DEF B, nul
  <2> QED BY <2>4, <2>5, <2>6, <2>7, <2>8, PieceKeeps
<1> QED BY <1>1, <1>2 DEF PrintString

(* The pieces, besides strings: what they are made of, and how long.       *)
LEMMA Literals ==
  {Nul, "7", "n", "u", "l", "[", "]", "{", "}", ":", ",", " ", "tab", "line"} \subseteq Byte
BY Zenon DEF Byte

(* Sequences of one byte.                                                  *)
LEMMA OneByte == ASSUME NEW B, NEW x \in B PROVE <<x>> \in Seq(B) /\ Len(<<x>>) = 1
OBVIOUS

(* And of two.                                                             *)
LEMMA TwoBytes ==
  ASSUME NEW B, NEW x \in B, NEW y \in B PROVE <<x, y>> \in Seq(B) /\ Len(<<x, y>>) = 2
OBVIOUS

(* A number or null.                                                       *)
LEMMA ScalarPiece ==
  LET s == ScalarText \o <<Nul>>
  IN /\ Len(ScalarText) \in Nat /\ Len(ScalarText) # 0
     /\ s \in Seq(Byte) /\ Len(s) = Len(ScalarText) + 1 /\ s[Len(s)] = Nul
<1> DEFINE B == Byte
           t == ScalarText
           nul == Nul
<1>1. "7" \in B /\ "n" \in B /\ "u" \in B /\ "l" \in B /\ nul \in B BY Literals
<1> HIDE DEF B, nul
<1>2. t \in Seq(B) /\ Len(t) \in Nat /\ Len(t) # 0
  <2> DEFINE a == <<"7">>
             b == <<"n", "u", "l", "l">>
  <2>1. a \in Seq(B) /\ Len(a) = 1 /\ b \in Seq(B) /\ Len(b) = 4 BY <1>1
  <2>2. t = a \/ t = b BY DEF ScalarText
  <2> HIDE DEF a, b, t
  <2>3. CASE t = a
    <3>1. t \in Seq(B) /\ Len(t) = 1 BY Zenon, <2>1, <2>3
    <3> QED BY <3>1
  <2>4. CASE t = b
    <3>1. t \in Seq(B) /\ Len(t) = 4 BY Zenon, <2>1, <2>4
    <3> QED BY <3>1
  <2> QED BY <2>2, <2>3, <2>4
<1> HIDE DEF t
<1> DEFINE s == t \o <<nul>>
<1>3. s \in Seq(B) /\ Len(s) = Len(t) + 1 /\ s[Len(t) + 1] = nul BY <1>1, <1>2
<1> HIDE DEF s
<1>4. s[Len(s)] = nul BY <1>3
<1> QED BY <1>2, <1>3, <1>4 DEF B, t, nul, s

(* Numbers and strings, and where the printer is after them.               *)
LEMMA ScalarsKeep ==
  ASSUME BInv, print_number \/ print_string
  PROVE  BInv'
<1>1. ppc = "value" BY DEF print_number, print_string, Value
<1>2. After # "rest" /\ (After \in Inside => frames # <<>>) BY DEF After, Inside
<1>3. CASE print_string
  <2>1. PrintString(call.string, After) BY <1>3 DEF print_string
  <2>2. call.string \in Seq(Byte) BY <1>1 DEF BInv
  <2> HIDE DEF After
  <2> QED BY <1>1, <1>2, <2>1, <2>2, StringKeeps
<1>4. CASE print_number
  <2> DEFINE n == Len(ScalarText)
             s == ScalarText \o <<Nul>>
             by == IF call.number THEN n ELSE 0
  <2>1. \/ Put(n + 1, s, by) /\ ppc' = After /\ Here
        \/ Short(n + 1)
    BY <1>4 DEF print_number
  <2>2. n \in Nat /\ s \in Seq(Byte) /\ Len(s) = n + 1 /\ s[Len(s)] = Nul BY ScalarPiece
  <2>3. by \in Nat /\ by <= n BY <2>2
  <2> HIDE DEF n, s, by, After
  <2>4. CASE Short(n + 1) BY <1>1, <2>4, ShortKeeps
  <2>5. CASE Put(n + 1, s, by) /\ ppc' = After /\ Here
    <3>1. n + 1 \in Nat /\ Len(s) <= (n + 1) + 1 /\ by <= Len(s) /\ by < Len(s)
      BY <2>2, <2>3
    <3>2. Under' /\ frames' = frames BY <2>5, SameUnder
    <3>3. ppc' # "rest" /\ (ppc' \in Inside => frames' # <<>>) BY <1>2, <2>5, <3>2
    <3> QED BY <1>1, <2>2, <2>3, <2>5, <3>1, <3>2, <3>3, PieceKeeps
  <2> QED BY <2>1, <2>4, <2>5
<1> QED BY <1>3, <1>4

(* Formatted or not.                                                       *)
LEMMA Either ==
  ASSUME NEW a, NEW b
  PROVE  \/ call.format /\ Fmt(a, b) = a
         \/ ~call.format /\ Fmt(a, b) = b
BY Zenon DEF Fmt

(* An array or object begins.                                              *)
LEMMA OpensKeeps ==
  ASSUME BInv, NEW kind, NEW needed \in Nat, NEW s \in Seq(Byte), NEW by \in Nat,
         Len(s) <= needed + 1, by <= Len(s), Opens(kind, needed, s, by)
  PROVE  BInv'
<1>1. ppc = "value" BY DEF Opens, Value
<1>2. CASE Short(needed) BY <1>1, <1>2, ShortKeeps
<1>3. CASE ~Short(needed)
  <2> DEFINE f == [item |-> Item, kid |-> heap[Item].child]
  <2>1. /\ Put(needed, s, by) /\ frames' = Append(frames, f) /\ depth' = depth + 1
        /\ ppc' = Child(kind, heap[Item].child)
    BY <1>3 DEF Opens
  <2> HIDE DEF f
  <2>2. PICK S : frames \in Seq(S) BY DEF BInv, Under
  <2>3. depth = Len(frames) /\ depth \in Nat BY DEF BInv, Under
  <2> DEFINE T == S \union {f}
  <2>4. frames \in Seq(T) /\ f \in T BY <2>2
  <2> HIDE DEF T
  <2>5. frames' \in Seq(T) /\ Len(frames') = Len(frames) + 1 BY <2>1, <2>4
  <2>6. depth' = Len(frames') /\ depth' \in Nat /\ frames' # <<>> BY <2>1, <2>3, <2>5
  <2>7. Under' BY <2>5, <2>6 DEF Under
  <2>8. ppc' \in {"close", "value", "indent", "key"} BY <2>1 DEF Child, Fmt
  <2>9. ppc' # "rest" /\ ppc' \notin Ending BY <2>8 DEF Ending
  <2> QED BY <1>1, <2>1, <2>6, <2>7, <2>9, PieceKeeps
<1> QED BY <1>2, <1>3

(* With its bracket, and the line that ends behind it.                     *)
LEMMA BracketsKeep ==
  ASSUME BInv, OpenArray \/ OpenObject
  PROVE  BInv'
<1> DEFINE B == Byte
<1>1. "[" \in B /\ "{" \in B /\ "line" \in B BY Literals
<1> HIDE DEF B
<1>2. CASE OpenArray
  <2> DEFINE s == <<"[">>
  <2>1. s \in Seq(B) /\ Len(s) = 1 BY Zenon, <1>1, OneByte
  <2>2. Opens("Array", 1, s, 1) BY <1>2 DEF OpenArray
  <2> HIDE DEF s
  <2>3. 1 \in Nat /\ Len(s) <= 1 + 1 /\ 1 <= Len(s) BY <2>1
  <2> QED BY <2>1, <2>2, <2>3, OpensKeeps DEF B
<1>3. CASE OpenObject
  <2> DEFINE a == <<"{", "line">>
             b == <<"{">>
             s == Fmt(a, b)
             n == Fmt(3, 2)
             by == Fmt(2, 1)
  <2>1. a \in Seq(B) /\ Len(a) = 2 BY Zenon, <1>1, TwoBytes
  <2>b. b \in Seq(B) /\ Len(b) = 1 BY Zenon, <1>1, OneByte
  <2>2. Opens("Object", n, s, by) BY <1>3 DEF OpenObject
  <2> HIDE DEF a, b
  <2>3. \/ call.format /\ s = a
        \/ ~call.format /\ s = b
    BY Either
  <2>4. \/ call.format /\ n = 3
        \/ ~call.format /\ n = 2
    BY Either
  <2>5. \/ call.format /\ by = 2
        \/ ~call.format /\ by = 1
    BY Either
  <2> HIDE DEF s, n, by
  <2>6. s \in Seq(B) /\ n \in Nat /\ by \in Nat /\ Len(s) <= n + 1 /\ by <= Len(s)
    <3>1. CASE call.format
      <4>1. s \in Seq(B) /\ Len(s) = 2 BY Zenon, <2>1, <2>3, <3>1
      <4> QED BY <2>4, <2>5, <3>1, <4>1
    <3>2. CASE ~call.format
      <4>1. s \in Seq(B) /\ Len(s) = 1 BY Zenon, <2>3, <2>b, <3>2
      <4> QED BY <2>4, <2>5, <3>2, <4>1
    <3> QED BY <3>1, <3>2
  <2> QED BY <2>2, <2>6, OpensKeeps DEF B
<1> QED BY <1>2, <1>3

(* Tabs, as many as are asked for.                                         *)
LEMMA TabPiece ==
  ASSUME NEW n \in Nat PROVE Tabs(n) \in Seq(Byte) /\ Len(Tabs(n)) = n
<1> DEFINE B == Byte
<1>1. "tab" \in B BY Literals
<1> HIDE DEF B
<1>2. Tabs(n) \in [1 .. n -> B] BY <1>1 DEF Tabs
<1>3. Tabs(n) \in Seq(B) BY <1>2
<1>4. Len(Tabs(n)) = n BY DEF Tabs
<1> QED BY <1>3, <1>4 DEF B

(* Before a key, at the key and behind it.                                 *)
LEMMA KeysKeep ==
  ASSUME BInv, Indent \/ PrintKey \/ PrintColon
  PROVE  BInv'
<1>1. ppc # "rest" /\ ppc \in Inside BY DEF Indent, PrintKey, PrintColon, Inside
<1>2. frames # <<>> /\ depth \in Nat /\ call.string \in Seq(Byte) BY <1>1 DEF BInv, Under
<1> DEFINE B == Byte
<1>3. CASE Indent
  <2> DEFINE s == Tabs(depth)
  <2>1. s \in Seq(Byte) /\ Len(s) = depth BY <1>2, TabPiece
  <2>2. (Put(depth, s, depth) /\ ppc' = "key" /\ Here) \/ Short(depth) BY <1>3 DEF Indent
  <2> HIDE DEF s
  <2>3. CASE Short(depth) BY <1>1, <2>3, ShortKeeps
  <2>4. CASE Put(depth, s, depth) /\ ppc' = "key" /\ Here
    <3>1. Under' /\ frames' = frames BY <2>4, SameUnder
    <3>2. Len(s) <= depth + 1 /\ depth <= Len(s) BY <1>2, <2>1
    <3>3. ppc' # "rest" /\ ppc' \notin Ending BY <2>4 DEF Ending
    <3> QED BY <1>1, <1>2, <2>1, <2>4, <3>1, <3>2, <3>3, PieceKeeps
  <2> QED BY <2>2, <2>3, <2>4
<1>4. CASE PrintKey
  <2> DEFINE s == IF heap[Frame.kid].string = NULL THEN <<>> ELSE call.string
  <2>1. PrintString(s, "keyed") BY <1>4 DEF PrintKey
  <2>2. s \in Seq(B)
    <3> HIDE DEF B
    <3>1. call.string \in Seq(B) BY <1>2 DEF B
    <3>2. <<>> \in Seq(B) OBVIOUS
    <3> QED BY <3>1, <3>2
  <2>3. "keyed" # "rest" OBVIOUS
  <2> HIDE DEF s
  <2> QED BY <1>1, <1>2, <2>1, <2>2, <2>3, StringKeeps
<1>5. CASE PrintColon
  <2> DEFINE a == <<":", "tab">>
             b == <<":">>
             s == Fmt(a, b)
             n == Fmt(2, 1)
  <2>1. a \in Seq(B) /\ Len(a) = 2 /\ b \in Seq(B) /\ Len(b) = 1
    <3>1. ":" \in B /\ "tab" \in B BY Literals
    <3> HIDE DEF B
    <3>2. a \in Seq(B) /\ Len(a) = 2 BY Zenon, <3>1, TwoBytes
    <3>3. b \in Seq(B) /\ Len(b) = 1 BY Zenon, <3>1, OneByte
    <3> QED BY <3>2, <3>3
  <2>2. (Put(n, s, n) /\ ppc' = "value" /\ Here) \/ Short(n) BY <1>5 DEF PrintColon
  <2> HIDE DEF a, b, B
  <2>3. \/ call.format /\ s = a
        \/ ~call.format /\ s = b
    BY Either
  <2>4. \/ call.format /\ n = 2
        \/ ~call.format /\ n = 1
    BY Either
  <2> HIDE DEF s, n
  <2>5. s \in Seq(B) /\ n \in Nat /\ Len(s) = n
    <3>1. CASE call.format
      <4>1. s \in Seq(B) /\ Len(s) = 2 BY Zenon, <2>1, <2>3, <3>1
      <4> QED BY <2>4, <3>1, <4>1
    <3>2. CASE ~call.format
      <4>1. s \in Seq(B) /\ Len(s) = 1 BY Zenon, <2>1, <2>3, <3>2
      <4> QED BY <2>4, <3>2, <4>1
    <3> QED BY <3>1, <3>2
  <2>6. CASE Short(n) BY <1>1, <2>6, ShortKeeps
  <2>7. CASE Put(n, s, n) /\ ppc' = "value" /\ Here
    <3>1. Under' /\ frames' = frames BY <2>7, SameUnder
    <3>2. Len(s) <= n + 1 /\ n <= Len(s) BY <2>5
    <3>3. ppc' # "rest" /\ ppc' \notin Ending /\ ppc' \notin Inside BY <2>7 DEF Ending, Inside
    <3>4. s \in Seq(Byte) BY <2>5 DEF B
    <3> QED BY <1>1, <2>5, <2>7, <3>1, <3>2, <3>3, <3>4, PieceKeeps
  <2> QED BY <2>2, <2>6, <2>7
<1> QED BY <1>3, <1>4, <1>5


(* The offset moves on behind a key or a value.                            *)
LEMMA OffsetKeeps ==
  ASSUME BInv, UpdateOffset
  PROVE  BInv'
<1>1. /\ ppc \in {"keyed", "valued"} /\ buf' = Advanced(buf)
      /\ ppc' \in {"colon", "close", "comma"} /\ UNCHANGED <<call, depth, frames>>
  BY DEF UpdateOffset
<1>2. ppc \in Ending /\ ppc \in Inside /\ ppc # "rest" BY <1>1 DEF Ending, Inside
<1>3. Within(buf) /\ Terminated(buf) /\ Under /\ frames # <<>> BY <1>2 DEF BInv
<1>4. Within(buf') /\ buf'.length = buf.length BY <1>1, <1>3, ToTerminator
<1>5. noalloc' <=> noalloc BY <1>1 DEF noalloc
<1> HIDE DEF noalloc
<1>6. noalloc' => buf'.length <= call'.length BY <1>1, <1>4, <1>5 DEF BInv
<1>7. Under' /\ frames' # <<>> BY <1>1, <1>3 DEF Under
<1>8. ppc' \notin Ending /\ ppc' # "rest" BY <1>1 DEF Ending
<1>9. call'.length \in Nat /\ call'.string \in Seq(Byte) BY <1>1, <1>2 DEF BInv
<1>10. Within(buf)' BY <1>4 DEF Within
<1> QED BY <1>6, <1>7, <1>8, <1>9, <1>10 DEF BInv

(* Sequences of bytes, with a Nul behind them.                             *)
LEMMA WithNul ==
  ASSUME NEW B, Nul \in B, NEW s \in Seq(B)
  PROVE  LET t == s \o <<Nul>>
         IN t \in Seq(B) /\ Len(s) \in Nat /\ Len(t) = Len(s) + 1
<1> DEFINE nul == Nul
<1>1. nul \in B OBVIOUS
<1> HIDE DEF nul
<1>2. Len(s) \in Nat /\ s \o <<nul>> \in Seq(B) /\ Len(s \o <<nul>>) = Len(s) + 1 BY <1>1
<1> QED BY <1>2 DEF nul

(* What is written behind a value: a comma or none, then a blank or the    *)
(* end of the line or neither.                                             *)
LEMMA CommaPiece ==
  ASSUME NEW last, NEW array
  PROVE  (IF array THEN <<",">> \o Fmt(<<" ">>, <<>>)
          ELSE (IF last THEN <<>> ELSE <<",">>) \o Fmt(<<"line">>, <<>>)) \in Seq(Byte)
<1> DEFINE B == Byte
           c == <<",">>
           e == <<>>
           x == Fmt(<<" ">>, <<>>)
           y == Fmt(<<"line">>, <<>>)
           z == IF last THEN e ELSE c
<1>1. "," \in B /\ " " \in B /\ "line" \in B BY Literals
<1> HIDE DEF B
<1>2. c \in Seq(B) BY Zenon, <1>1, OneByte
<1>3. e \in Seq(B) OBVIOUS
<1>4. <<" ">> \in Seq(B) BY Zenon, <1>1, OneByte
<1>5. <<"line">> \in Seq(B) BY Zenon, <1>1, OneByte
<1>6. x \in Seq(B) BY Zenon, <1>3, <1>4 DEF Fmt
<1>7. y \in Seq(B) BY Zenon, <1>3, <1>5 DEF Fmt
<1>8. z \in Seq(B) BY Zenon, <1>2, <1>3
<1> DEFINE s == IF array THEN c \o x ELSE z \o y
<1>9. s \in Seq(B)
  <2> HIDE DEF c, x, y, z
  <2>1. c \o x \in Seq(B) BY <1>2, <1>6
  <2>2. z \o y \in Seq(B) BY <1>7, <1>8
  <2> QED BY Zenon, <2>1, <2>2
<1> QED BY Zenon, <1>9 DEF B

(* Behind a value the next child is come to.                               *)
LEMMA CommaKeeps ==
  ASSUME BInv, PrintComma
  PROVE  BInv'
<1> DEFINE next == Following(Frame.kid)
           kind == heap[Frame.item].kind
           s == IF kind = "Array" THEN <<",">> \o Fmt(<<" ">>, <<>>)
                ELSE (IF next = NULL THEN <<>> ELSE <<",">>) \o Fmt(<<"line">>, <<>>)
           n == Len(s)
           t == s \o <<Nul>>
<1>1. /\ ppc = "comma"
      /\ \/ /\ Put(n + 1, t, n)
            /\ frames' = [frames EXCEPT ![Len(frames)].kid = next]
            /\ ppc' = Child(kind, next)
            /\ depth' = depth
         \/ Short(n + 1)
  BY Zenon DEF PrintComma
<1>2. ppc # "rest" /\ ppc \in Inside BY <1>1 DEF Inside
<1>3. s \in Seq(Byte) BY Zenon, CommaPiece
<1>4. Nul \in Byte BY Literals
<1> HIDE DEF s
<1>5. t \in Seq(Byte) /\ n \in Nat /\ Len(t) = n + 1 BY <1>3, <1>4, WithNul
<1> HIDE DEF t, n, kind, next
<1>6. CASE Short(n + 1) BY <1>2, <1>6, ShortKeeps
<1>7. CASE Put(n + 1, t, n) /\ frames' = [frames EXCEPT ![Len(frames)].kid = next]
           /\ ppc' = Child(kind, next) /\ depth' = depth
  <2>1. PICK S : frames \in Seq(S) BY DEF BInv, Under
  <2>2. depth = Len(frames) /\ depth \in Nat /\ frames # <<>> BY <1>2 DEF BInv, Under
  <2> DEFINE f == [Frame EXCEPT !.kid = next]
             T == S \union {f}
  <2>3. frames' = [frames EXCEPT ![Len(frames)] = f] BY <1>7 DEF Frame
  <2>4. frames \in Seq(T) /\ f \in T BY <2>1
  <2> HIDE DEF f, T
  <2>5. frames' \in Seq(T) /\ Len(frames') = Len(frames) BY <2>2, <2>3, <2>4
  <2>6. Under' BY <1>7, <2>2, <2>5 DEF Under
  <2>7. Len(frames) # 0 BY <2>1, <2>2
  <2>8. frames' # <<>> BY <2>5, <2>7
  <2>9. ppc' \in {"close", "value", "indent", "key"} BY <1>7 DEF Child, Fmt
  <2>10. ppc' # "rest" /\ ppc' \notin Ending BY <2>9 DEF Ending
  <2>11. n + 1 \in Nat /\ Len(t) <= (n + 1) + 1 /\ n <= Len(t) BY <1>5
  <2> QED BY <1>2, <1>5, <1>7, <2>6, <2>8, <2>10, <2>11, PieceKeeps
<1> QED BY <1>1, <1>6, <1>7


(* What ends an array or object: tabs before the brace.                    *)
LEMMA ClosePiece ==
  ASSUME NEW d \in Nat, d # 0, NEW object \in BOOLEAN
  PROVE  LET needed == IF object THEN Fmt(d + 1, 2) ELSE 2
             s == IF object THEN Fmt(Tabs(d - 1), <<>>) \o <<"}", Nul>> ELSE <<"]", Nul>>
         IN /\ s \in Seq(Byte) /\ needed \in Nat /\ Len(s) \in Nat /\ s[Len(s)] = Nul
            /\ 0 < Len(s) /\ Len(s) <= needed + 1
<1> DEFINE B == Byte
           nul == Nul
           brace == "}"
           bracket == "]"
           tabs == Tabs(d - 1)
           e == <<>>
           pre == Fmt(tabs, e)
           needed == IF object THEN Fmt(d + 1, 2) ELSE 2
           n == Fmt(d + 1, 2)
           s == IF object THEN pre \o <<brace, nul>> ELSE <<bracket, nul>>
<1>1. brace \in B /\ bracket \in B /\ nul \in B BY Literals
<1>2. tabs \in Seq(B) /\ Len(tabs) = d - 1 BY TabPiece
<1>3. e \in Seq(B) /\ Len(e) = 0 OBVIOUS
<1> HIDE DEF B, tabs, e, nul, brace, bracket
<1>4. \/ call.format /\ pre = tabs
      \/ ~call.format /\ pre = e
  BY Either
<1>5. \/ call.format /\ n = d + 1
      \/ ~call.format /\ n = 2
  BY Either
<1> HIDE DEF pre, n
<1>6. pre \in Seq(B) /\ n \in Nat /\ Len(pre) \in Nat /\ Len(pre) + 2 <= n + 1
  <2>1. CASE call.format
    <3>1. pre \in Seq(B) /\ Len(pre) = d - 1 BY Zenon, <1>2, <1>4, <2>1
    <3> QED BY <1>5, <2>1, <3>1
  <2>2. CASE ~call.format
    <3>1. pre \in Seq(B) /\ Len(pre) = 0 BY Zenon, <1>3, <1>4, <2>2
    <3> QED BY <1>5, <2>2, <3>1
  <2> QED BY <2>1, <2>2
<1>7. CASE object
  <2> DEFINE w == pre \o <<brace, nul>>
  <2>1. w \in Seq(B) /\ Len(w) = Len(pre) + 2 /\ w[Len(pre) + 2] = nul BY <1>1, <1>6
  <2> HIDE DEF w
  <2>2. Len(w) \in Nat /\ w[Len(w)] = nul /\ 0 < Len(w) /\ Len(w) <= n + 1 BY <1>6, <2>1
  <2>3. s = w /\ needed = n BY <1>7 DEF w, n
  <2> HIDE DEF s, needed
  <2> QED BY Zenon, <1>6, <2>1, <2>2, <2>3 DEF s, needed, B, nul, pre, tabs, e, brace, bracket
<1>8. CASE ~object
  <2> DEFINE w == <<bracket, nul>>
  <2>1. w \in Seq(B) /\ Len(w) = 2 /\ w[2] = nul BY <1>1
  <2> HIDE DEF w
  <2>2. Len(w) \in Nat /\ w[Len(w)] = nul /\ 0 < Len(w) /\ Len(w) <= 2 + 1 /\ 2 \in Nat BY <2>1
  <2>3. s = w /\ needed = 2 BY <1>8 DEF w
  <2> HIDE DEF s, needed
  <2> QED BY Zenon, <2>1, <2>2, <2>3 DEF s, needed, B, nul, pre, tabs, e, brace, bracket
<1> QED BY <1>7, <1>8

(* The array or object is at its end.                                      *)
LEMMA ClosingKeeps ==
  ASSUME BInv, PrintClose
  PROVE  BInv'
<1> DEFINE object == heap[Frame.item].kind = "Object"
           needed == IF object THEN Fmt(depth + 1, 2) ELSE 2
           s == IF object THEN Fmt(Tabs(depth - 1), <<>>) \o <<"}", Nul>> ELSE <<"]", Nul>>
<1>1. /\ ppc = "close"
      /\ \/ /\ Put(needed, s, 0)
            /\ frames' = Front(frames) /\ depth' = depth - 1
            /\ ppc' = IF Len(frames) = 1 THEN "done" ELSE "valued"
         \/ Short(needed)
  BY Zenon DEF PrintClose
<1>2. ppc # "rest" /\ ppc \in Inside BY <1>1 DEF Inside
<1>3. depth = Len(frames) /\ depth \in Nat /\ frames # <<>> BY <1>2 DEF BInv, Under
<1>4. PICK S : frames \in Seq(S) BY DEF BInv, Under
<1>5. depth # 0 BY <1>3, <1>4
<1>6. object \in BOOLEAN OBVIOUS
<1>7. /\ s \in Seq(Byte) /\ needed \in Nat /\ Len(s) \in Nat /\ s[Len(s)] = Nul
      /\ 0 < Len(s) /\ Len(s) <= needed + 1
  BY Zenon, <1>3, <1>5, <1>6, ClosePiece
<1> HIDE DEF s, needed
<1>8. CASE Short(needed) BY <1>2, <1>8, ShortKeeps
<1>9. CASE Put(needed, s, 0) /\ frames' = Front(frames) /\ depth' = depth - 1
           /\ ppc' = IF Len(frames) = 1 THEN "done" ELSE "valued"
  <2>1. frames' \in Seq(S) /\ Len(frames') = depth - 1
    <3>1. frames' = SubSeq(frames, 1, Len(frames) - 1) BY <1>9 DEF Front
    <3> QED BY <1>3, <1>4, <1>5, <3>1
  <2>2. depth' = Len(frames') /\ depth' \in Nat BY <1>3, <1>5, <1>9, <2>1
  <2>3. Under' BY <2>1, <2>2 DEF Under
  <2>4. ppc' # "rest" BY <1>9
  <2>5. ASSUME ppc' \in Inside PROVE frames' # <<>>
    <3>1. Len(frames) # 1 BY <1>9, <2>5 DEF Inside
    <3>2. Len(frames') # 0 BY <1>3, <1>5, <2>1, <3>1
    <3> DEFINE e == <<>>
    <3>3. Len(e) = 0 OBVIOUS
    <3> HIDE DEF e
    <3>4. frames' # e BY Zenon, <3>2, <3>3
    <3> QED BY <3>4 DEF e
  <2>6. 0 \in Nat /\ 0 <= Len(s) BY <1>7
  <2> QED BY <1>2, <1>7, <1>9, <2>3, <2>4, <2>5, <2>6, PieceKeeps
<1> QED BY <1>1, <1>8, <1>9

(* print cuts off what follows the terminator.                             *)
LEMMA CutOff ==
  ASSUME Within(buf), Terminated(buf)
  PROVE  LET b == Advanced(buf)
             r == [b EXCEPT !.length = b.offset + 1, !.bytes = SubSeq(@, 1, b.offset + 1)]
         IN Within(r) /\ Terminated(r)
<1> DEFINE b == Advanced(buf)
           o == b.offset
           y == SubSeq(b.bytes, 1, o + 1)
           r == [b EXCEPT !.length = o + 1, !.bytes = y]
<1>1. Within(b) /\ o < Len(b.bytes) /\ b.bytes[o + 1] = Nul BY ToTerminator
<1> HIDE DEF b
<1>2. b \in Buffers /\ b.bytes \in Seq(Byte) /\ o \in Nat /\ Len(b.bytes) \in Nat
  BY <1>1 DEF Within, Buffers
<1> HIDE DEF Byte
<1>3. y \in Seq(Byte) /\ Len(y) = o + 1 /\ y[o + 1] = Nul BY <1>1, <1>2
<1> HIDE DEF y
<1>4. o + 1 \in Nat BY <1>2
<1>5. r \in Buffers /\ r.bytes = y /\ r.length = o + 1 /\ r.offset = o
  BY <1>2, <1>3, <1>4 DEF Buffers
<1> HIDE DEF r
<1>6. o <= o + 1 /\ o + 1 <= o + 1 BY <1>2
<1>7. Within(r) BY <1>3, <1>5, <1>6 DEF Within
<1>8. o + 1 \in o + 1 .. o + 1 BY <1>4
<1>9. Terminated(r) BY <1>3, <1>5, <1>8 DEF Terminated
<1> QED BY <1>7, <1>9 DEF r, y, b

(* The text is returned.                                                   *)
LEMMA TextReturned ==
  ASSUME BInv, Returns
  PROVE  BInv'
<1>1. /\ ppc = "done" /\ ppc' = "printed" /\ UNCHANGED <<call, depth, frames>>
      /\ buf' = IF call.way = "Print"
                THEN LET b == Advanced(buf)
                     IN [b EXCEPT !.length = b.offset + 1, !.bytes = SubSeq(@, 1, b.offset + 1)]
                ELSE buf
  BY DEF Returns
<1>2. Within(buf) /\ Terminated(buf) /\ Under BY <1>1 DEF BInv, Ending
<1>3. Within(buf') /\ Terminated(buf') /\ (call.way # "Print" => buf' = buf)
  BY <1>1, <1>2, CutOff
<1>4. noalloc' => call.way # "Print" /\ noalloc BY <1>1 DEF noalloc
<1> HIDE DEF noalloc
<1>5. noalloc' => buf'.length <= call'.length BY <1>1, <1>3, <1>4 DEF BInv
<1>6. Under' BY <1>1, <1>2 DEF Under
<1>7. ppc' \notin Inside /\ ppc' # "rest" BY <1>1 DEF Inside
<1>8. call'.length \in Nat /\ call'.string \in Seq(Byte) BY <1>1 DEF BInv
<1>9. Within(buf)' /\ Terminated(buf)' BY <1>3 DEF Within, Terminated
<1> QED BY <1>5, <1>6, <1>7, <1>8, <1>9 DEF BInv

(* There is no memory to return it in, or the buffer is freed.             *)
LEMMA FailuresKeep ==
  ASSUME BInv, ReturnFails \/ PrintFails
  PROVE  BInv'
<1>1. /\ ppc \in {"done", "fail"} /\ ppc' \in {"fail", "null"}
      /\ UNCHANGED <<call, depth, frames>>
  BY DEF ReturnFails, PrintFails
<1>2. ppc # "rest" /\ Within(buf) /\ Under BY <1>1 DEF BInv
<1>3. Within(buf') /\ (noalloc => buf' = NoBuffer)
  <2>1. CASE ReturnFails
    <3>1. ppc = "done" /\ call.way = "Print" /\ buf' = Advanced(buf) BY <2>1 DEF ReturnFails
    <3>2. Terminated(buf) BY <3>1 DEF BInv, Ending
    <3>3. ~noalloc BY <3>1 DEF noalloc
    <3> QED BY <1>2, <3>1, <3>2, <3>3, ToTerminator
  <2>2. CASE PrintFails
    <3>1. buf' = NoBuffer BY <2>2 DEF PrintFails
    <3> QED BY <3>1, EmptyBuffer
  <2> QED BY <2>1, <2>2
<1>4. call'.length \in Nat /\ call'.string \in Seq(Byte) BY <1>1, <1>2 DEF BInv
<1>5. noalloc' <=> noalloc BY <1>1 DEF noalloc
<1> HIDE DEF noalloc
<1>6. noalloc' => buf'.length <= call'.length
  <2> SUFFICES ASSUME noalloc PROVE buf'.length <= call'.length BY <1>5
  <2>1. buf'.length = 0 BY <1>3 DEF NoBuffer
  <2> QED BY <1>4, <2>1
<1>7. Under' BY <1>1, <1>2 DEF Under
<1>8. ppc' \notin Inside /\ ppc' \notin Ending /\ ppc' # "rest" BY <1>1 DEF Inside, Ending
<1>9. Within(buf)' BY <1>3 DEF Within
<1> QED BY <1>4, <1>6, <1>7, <1>8, <1>9 DEF BInv

(* No text is being printed.                                               *)
LEMMA NoneUnder ==
  ASSUME NEW d, NEW f, d = 0, f = <<>> PROVE d = Len(f) /\ d \in Nat /\ \E S : f \in Seq(S)
<1>1. f \in Seq({}) BY DEF Seq
<1> QED BY <1>1

(* Nothing has been written in a new buffer.                               *)
LEMMA NoneWithin ==
  ASSUME NEW length \in Nat PROVE Within([NoBuffer EXCEPT !.length = length])
<1> DEFINE B == Byte
           r == [NoBuffer EXCEPT !.length = length]
           e == <<>>
<1> HIDE DEF B
<1>1. r = [bytes |-> e, length |-> length, offset |-> 0] BY DEF NoBuffer
<1>2. e \in Seq(B) /\ Len(e) = 0 OBVIOUS
<1> HIDE DEF e, r
<1>3. r \in [bytes : Seq(B), length : Nat, offset : Nat] BY <1>1, <1>2
<1>4. r.bytes = e /\ r.length = length /\ r.offset = 0 BY <1>1
<1>5. r \in Buffers BY <1>3 DEF Buffers, B
<1>6. Within(r) BY <1>2, <1>4, <1>5 DEF Within
<1> QED BY <1>6 DEF r

(* A call begins with nothing written.                                     *)
LEMMA CallKeeps ==
  ASSUME BInv, PrintCall
  PROVE  BInv'
<1>1. PICK x \in roots : cJSON_Print(x) \/ cJSON_PrintBuffered(x) \/ cJSON_PrintPreallocated(x)
  BY DEF PrintCall
<1>2. \E way : \E length \in Nat : Begins(way, x, length)
  BY <1>1, PrinterAssumption DEF cJSON_Print, cJSON_PrintBuffered, cJSON_PrintPreallocated
<1>3. PICK way : \E length \in Nat : Begins(way, x, length) BY <1>2
<1>l. PICK length \in Nat : Begins(way, x, length) BY <1>3
<1>4. PICK format \in BOOLEAN, look \in Looks :
        call' = [way |-> way, item |-> x, format |-> format, length |-> length,
                 number |-> look.number, string |-> look.string]
  BY <1>l DEF Begins
<1>5. /\ buf' = [NoBuffer EXCEPT !.length = length] /\ ppc' = "value"
      /\ UNCHANGED <<depth, frames>>
  BY <1>l DEF Begins
<1>6. call'.length = length /\ call'.string \in Seq(Byte)
  <2>1. look.string \in Seq(STRING) BY PrinterAssumption DEF Looks
  <2>2. STRING \subseteq Byte BY DEF Byte
  <2> DEFINE S == STRING
  <2>3. look.string \in Seq(S) /\ S \subseteq Byte BY <2>1, <2>2
  <2> HIDE DEF Byte, S
  <2>4. look.string \in Seq(Byte) BY <2>3
  <2> QED BY <1>4, <2>4
<1>7. Within(buf') /\ buf'.length = length BY <1>5, NoneWithin DEF NoBuffer
<1>8. noalloc' => buf'.length <= call'.length BY <1>6, <1>7
<1>9. Under' BY <1>5 DEF BInv, Under
<1>10. ppc' \notin Inside /\ ppc' \notin Ending /\ ppc' # "rest" BY <1>5 DEF Inside, Ending
<1>11. Within(buf)' BY <1>7 DEF Within
<1> HIDE DEF noalloc
<1> QED BY <1>6, <1>8, <1>9, <1>10, <1>11 DEF BInv

(* The caller is done with the text.                                       *)
LEMMA PrintedKeeps ==
  ASSUME BInv, Printed
  PROVE  BInv'
<1>1. /\ ppc' = "rest" /\ call' = NoCall /\ buf' = NoBuffer
      /\ depth' = 0 /\ frames' = <<>>
  BY DEF Printed
<1>2. Within(buf)' BY <1>1, EmptyBuffer DEF Within
<1>3. ~noalloc' BY <1>1 DEF noalloc, NoCall
<1> HIDE DEF noalloc
<1>4. Under' BY <1>1, NoneUnder DEF Under
<1>5. ppc' \notin Inside /\ ppc' \notin Ending BY <1>1 DEF Inside, Ending
<1> QED BY <1>1, <1>2, <1>3, <1>4, <1>5 DEF BInv

(* Nothing is being printed in the beginning.                              *)
LEMMA InitBuffer == PrinterInit => BInv
<1> SUFFICES ASSUME PrinterInit PROVE BInv OBVIOUS
<1>1. ppc = "rest" /\ call = NoCall /\ buf = NoBuffer /\ depth = 0 /\ frames = <<>>
  BY DEF PrinterInit
<1>2. Within(buf) BY <1>1, EmptyBuffer
<1>3. ~noalloc BY <1>1 DEF noalloc, NoCall
<1> HIDE DEF noalloc
<1>4. Under BY <1>1, NoneUnder DEF Under
<1>5. ppc \notin Inside /\ ppc \notin Ending BY <1>1 DEF Inside, Ending
<1> QED BY <1>1, <1>2, <1>3, <1>4, <1>5 DEF BInv

(* Every step of the printer keeps what has been written in the buffer.    *)
LEMMA PrinterKeeps == BInv /\ [PrinterNext]_<<vars, printVars>> => BInv'
<1> SUFFICES ASSUME BInv, [PrinterNext]_<<vars, printVars>> PROVE BInv' OBVIOUS
<1>1. CASE UNCHANGED printVars
  <2>1. UNCHANGED <<ppc, call, buf, depth, frames>> BY <1>1 DEF printVars
  <2> QED BY <2>1 DEF BInv, Within, Terminated, Under, noalloc
<1>2. CASE PrintCall BY <1>2, CallKeeps
<1>3. CASE Prints
  <2>1. CASE print_number \/ print_string BY <2>1, ScalarsKeep
  <2>2. CASE OpenArray \/ OpenObject BY <2>2, BracketsKeep
  <2>3. CASE Indent \/ PrintKey \/ PrintColon BY <2>3, KeysKeep
  <2>4. CASE UpdateOffset BY <2>4, OffsetKeeps
  <2>5. CASE PrintComma BY <2>5, CommaKeeps
  <2>6. CASE PrintClose BY <2>6, ClosingKeeps
  <2>7. CASE Returns BY <2>7, TextReturned
  <2>8. CASE ReturnFails \/ PrintFails BY <2>8, FailuresKeep
  <2>9. CASE Printed BY <2>9, PrintedKeeps
  <2> QED BY <1>3, <2>1, <2>2, <2>3, <2>4, <2>5, <2>6, <2>7, <2>8, <2>9 DEF Prints
<1> QED BY <1>1, <1>2, <1>3 DEF PrinterNext, vars, printVars

(* No piece is written past the end of the buffer, whatever is printed and *)
(* however short the buffer that the caller gives; and a terminator is     *)
(* where the printer looks for one.                                        *)
THEOREM PrintedInBuffer == PrinterSpec => []InBuffer
<1>1. PrinterInit => BInv BY InitBuffer
<1>2. BInv /\ [PrinterNext]_<<vars, printVars>> => BInv' BY PrinterKeeps
<1>3. BInv => InBuffer BY BufferKept
<1> QED BY <1>1, <1>2, <1>3, PTL DEF PrinterSpec


-----------------------------------------------------------------------------
(* The buffers allocated                                                   *)

(* There is a buffer while a text is printed, unless it is the caller's;   *)
(* where printing fails it may have been freed already.                    *)
BlockInv ==
  /\ ppc \notin {"rest", "null", "fail"} => blocks = IF noalloc THEN 0 ELSE 1
  /\ ppc = "fail" => blocks \in {0, 1} /\ (noalloc => blocks = 0)
  /\ ppc \in {"null", "rest"} => blocks = 0

(* A step that prints goes on with the same buffer, or fails.              *)
Going ==
  /\ UNCHANGED call /\ ppc \notin {"rest", "null", "fail"}
  /\ \/ UNCHANGED blocks /\ ppc' \notin {"rest", "null"}
     \/ ~noalloc /\ blocks' = blocks - 1 /\ ppc' = "fail"

(* So do all but the last steps.                                           *)
LEMMA PrintingGoes ==
  ASSUME \/ print_number \/ print_string \/ OpenArray \/ OpenObject \/ Indent \/ PrintKey
         \/ UpdateOffset \/ PrintColon \/ PrintComma \/ PrintClose \/ Returns \/ ReturnFails
  PROVE  Going
<1>1. ASSUME NEW needed, Short(needed)
      PROVE  /\ UNCHANGED call /\ ppc' = "fail"
             /\ UNCHANGED blocks \/ (~noalloc /\ blocks' = blocks - 1)
  BY Zenon, <1>1 DEF Short
<1>2. ASSUME NEW needed, NEW s, NEW by, Put(needed, s, by) PROVE UNCHANGED <<call, blocks>>
  BY <1>2 DEF Put
<1> HIDE DEF noalloc
<1>3. ASSUME NEW kind, NEW kid PROVE Child(kind, kid) \notin {"rest", "null"}
  BY DEF Child, Fmt
<1>4. After \notin {"rest", "null"} BY DEF After
<1>5. CASE print_number
  <2>1. ppc = "value" BY <1>5 DEF print_number, Value
  <2> QED BY <1>1, <1>2, <1>4, <1>5, <2>1 DEF print_number, Going
<1>6. CASE print_string
  <2>1. ppc = "value" BY <1>6 DEF print_string, Value
  <2> QED BY <1>1, <1>2, <1>4, <1>6, <2>1 DEF print_string, PrintString, Going
<1>7. CASE OpenArray \/ OpenObject
  <2>1. \E kind, needed, s, by : Opens(kind, needed, s, by)
    BY Zenon, <1>7 DEF OpenArray, OpenObject
  <2>3. PICK kind, needed, s, by : Opens(kind, needed, s, by) BY <2>1
  <2>2. ppc = "value" BY <2>3 DEF Opens, Value
  <2> QED BY <1>1, <1>2, <1>3, <2>2, <2>3 DEF Opens, Going
<1>8. CASE Indent BY <1>1, <1>2, <1>8 DEF Indent, Going
<1>9. CASE PrintKey BY <1>1, <1>2, <1>9 DEF PrintKey, PrintString, Going
<1>10. CASE UpdateOffset BY <1>10 DEF UpdateOffset, Going
<1>11. CASE PrintColon
  <2>1. PICK n, s : (Put(n, s, n) /\ ppc' = "value") \/ Short(n)
    BY Zenon, <1>11 DEF PrintColon
  <2>2. ppc = "colon" BY <1>11 DEF PrintColon
  <2> QED BY <1>1, <1>2, <2>1, <2>2 DEF Going
<1>12. CASE PrintComma
  <2>1. ppc = "comma" BY <1>12 DEF PrintComma
  <2> DEFINE next == Following(Frame.kid)
             kind == heap[Frame.item].kind
             s == IF kind = "Array" THEN <<",">> \o Fmt(<<" ">>, <<>>)
                  ELSE (IF next = NULL THEN <<>> ELSE <<",">>) \o Fmt(<<"line">>, <<>>)
  <2>2. \/ Put(Len(s) + 1, s \o <<Nul>>, Len(s)) /\ ppc' = Child(kind, next)
        \/ Short(Len(s) + 1)
    BY Zenon, <1>12 DEF PrintComma
  <2> HIDE DEF next, kind, s
  <2> QED BY <1>1, <1>2, <1>3, <2>1, <2>2 DEF Going
<1>13. CASE PrintClose
  <2>1. ppc = "close" BY <1>13 DEF PrintClose
  <2>2. PICK needed, s : (Put(needed, s, 0) /\ ppc' \in {"done", "valued"}) \/ Short(needed)
    <3>1. ASSUME NEW needed, NEW s, Put(needed, s, 0) /\ ppc' \in {"done", "valued"}
          PROVE  \E n, t : (Put(n, t, 0) /\ ppc' \in {"done", "valued"}) \/ Short(n)
      BY Zenon, <3>1
    <3> DEFINE l == IF Len(frames) = 1 THEN "done" ELSE "valued"
    <3>2. l \in {"done", "valued"} OBVIOUS
    <3>3. \E n, t : (Put(n, t, 0) /\ ppc' = l) \/ Short(n) BY Zenon, <1>13 DEF PrintClose
    <3> QED BY Zenon, <3>2, <3>3
  <2> QED BY <1>1, <1>2, <2>1, <2>2 DEF Going
<1>14. CASE Returns \/ ReturnFails BY <1>14 DEF Returns, ReturnFails, Going
<1> QED BY <1>5, <1>6, <1>7, <1>8, <1>9, <1>10, <1>11, <1>12, <1>13, <1>14

(* Every step of the printer keeps count.                                  *)
LEMMA BlocksKept == BlockInv /\ [PrinterNext]_<<vars, printVars>> => BlockInv'
<1> SUFFICES ASSUME BlockInv, [PrinterNext]_<<vars, printVars>> PROVE BlockInv' OBVIOUS
<1>1. CASE UNCHANGED printVars BY <1>1 DEF printVars, BlockInv, noalloc
<1>2. CASE Going
  <2>1. noalloc' <=> noalloc BY <1>2 DEF Going, noalloc
  <2> HIDE DEF noalloc
  <2> QED BY <1>2, <2>1 DEF Going, BlockInv
<1>3. CASE PrintCall
  <2>1. PICK way, x, length : Begins(way, x, length)
    BY Zenon, <1>3 DEF PrintCall, cJSON_Print, cJSON_PrintBuffered, cJSON_PrintPreallocated
  <2>2. call'.way = way /\ ppc' = "value" BY <2>1 DEF Begins
  <2>3. blocks' = IF way = "PrintPreallocated" THEN 0 ELSE 1 BY <2>1 DEF Begins
  <2> QED BY <2>2, <2>3 DEF BlockInv, noalloc
<1>4. CASE PrintFails
  <2>1. ppc = "fail" /\ ppc' = "null" /\ blocks' = IF noalloc \/ blocks = 0 THEN blocks ELSE blocks - 1
    BY <1>4 DEF PrintFails
  <2> HIDE DEF noalloc
  <2> QED BY <2>1 DEF BlockInv
<1>5. CASE Printed BY <1>5 DEF Printed, BlockInv
<1> QED BY <1>1, <1>2, <1>3, <1>4, <1>5, PrintingGoes DEF PrinterNext, Prints, vars, printVars

(* Of the buffers allocated on the way only the one with the text remains, *)
(* and none if printing failed, whatever is printed and wherever memory    *)
(* runs out.                                                               *)
THEOREM TextAloneLeft == PrinterSpec => []OnlyTextLeft
<1>1. PrinterInit => BlockInv BY DEF PrinterInit, BlockInv
<1>2. BlockInv /\ [PrinterNext]_<<vars, printVars>> => BlockInv' BY BlocksKept
<1>3. BlockInv => OnlyTextLeft BY DEF BlockInv, OnlyTextLeft
<1> QED BY <1>1, <1>2, <1>3, PTL DEF PrinterSpec

-----------------------------------------------------------------------------
(* The refinement: the calls and the parser change the lists as JsonTree   *)
(* says.                                                                   *)

(* What the caller sees of a heap h where the nodes L are lost, while the  *)
(* parser is at that place.                                                *)
Seen(h, L, at) ==
  [n \in Items |-> IF (h[n].kind \in Containers /\ ~h[n].ref /\ n \notin L)
                        /\ at \in {"idle", "parsed"} THEN Kids(h, n) ELSE <<>>]

(* The lists of the tree.                                                  *)
Forest == [n \in Items |-> IF Visible(n) THEN Kids(heap, n) ELSE <<>>]

(* They are what is seen, before a step and after it.                      *)
LEMMA SeenNow == Forest = Seen(heap, lost, pc) /\ Forest' = Seen(heap', lost', pc')
<1>1. Forest = Seen(heap, lost, pc) BY DEF Forest, Seen, Visible, IsOwner
<1>2. Forest' = Seen(heap', lost', pc') BY DEF Forest, Seen, Visible, IsOwner
<1> QED BY <1>1, <1>2

(* Between the calls they are those of all arrays and objects.             *)
LEMMA SeenAll ==
  ASSUME NEW h, NEW R, NEW L, Sound(h, R, L), NEW at \in {"idle", "parsed"}
  PROVE  Seen(h, L, at) = ForestOf(h)
<1>1. \A n \in Items : n \in L => ~IsList(h, n) BY DEF Sound, Held
<1>2. \A n \in Items : (h[n].kind \in Containers /\ ~h[n].ref /\ n \notin L) <=> IsList(h, n)
  BY <1>1 DEF IsList
<1> QED BY <1>2 DEF Seen, ForestOf

NoLists == [n \in Items |-> <<>>]

(* Nothing is seen of what is parsed, before it is returned.               *)
LEMMA SeenNone ==
  ASSUME NEW h, NEW L, NEW at, at \notin {"idle", "parsed"}
  PROVE  Seen(h, L, at) = NoLists
BY DEF Seen, NoLists

UsedIn(f, R) == R \union UNION {ToSet(f[n]) : n \in Items}

(* What JsonTree calls used, and below a node.                             *)
LEMMA TreeUsed == Tree!Used = UsedIn(Forest, roots)
BY DEF Tree!Used, Tree!Listed, Forest, UsedIn, Tree!ToSet, ToSet

LEMMA TreeBelow ==
  ASSUME NEW x
  PROVE  Tree!Below(x) = BelowIn(Forest, x)
<1>1. \A S \in SUBSET Items : Tree!Listed(S) \subseteq S <=> ListsWithin(Forest, S)
  <2> SUFFICES ASSUME NEW S \in SUBSET Items
               PROVE  Tree!Listed(S) \subseteq S <=> ListsWithin(Forest, S)
    OBVIOUS
  <2>1. Tree!Listed(S) = UNION {ToSet(Forest[n]) : n \in S}
    BY DEF Tree!Listed, Forest, Tree!ToSet, ToSet
  <2> QED BY <2>1 DEF ListsWithin
<1> QED BY <1>1 DEF Tree!Below, BelowIn

(* Each of the steps of the tree, by what becomes of the lists.            *)
LEMMA Creates ==
  ASSUME NEW x \in Items, x \notin UsedIn(Forest, roots), roots' = roots \union {x},
         \A n \in UsedIn(Forest, roots) : Forest'[n] = Forest[n],
         \A n \in Items :
           ToSet(Forest'[n]) \intersect (UsedIn(Forest, roots) \ ToSet(Forest[n])) = {}
  PROVE  Tree!Step
<1>1. x \in Items \ roots BY DEF UsedIn
<1>2. /\ x \notin Tree!Used
      /\ \A n \in Tree!Used : Forest'[n] = Forest[n]
      /\ \A n \in Items : ToSet(Forest'[n]) \intersect (Tree!Used \ ToSet(Forest[n])) = {}
  BY TreeUsed
<1>3. Tree!Create
  <2> DEFINE used == Tree!Used
  <2>1. /\ x \notin used /\ \A n \in used : Forest'[n] = Forest[n]
        /\ \A n \in Items : ToSet(Forest'[n]) \intersect (used \ ToSet(Forest[n])) = {}
    BY <1>2
  <2> HIDE DEF used
  <2> QED BY <1>1, <2>1, Zenon DEF Tree!Create, Forest, Tree!ToSet, ToSet, used
<1> QED BY <1>3 DEF Tree!Step

(* An item made for it goes to the end of a list.                          *)
LEMMA Grows ==
  ASSUME NEW a \in Items, NEW i \in Items, i \notin UsedIn(Forest, roots),
         a \in UsedIn(Forest, roots), Forest' = Appended(Forest, a, i), roots' = roots
  PROVE  Tree!Step
<1>1. i \notin Tree!Used /\ a \in Tree!Used BY TreeUsed
<1>2. Tree!Grow(a, i) BY <1>1, Zenon DEF Tree!Grow, Forest, Appended
<1> QED BY <1>2 DEF Tree!Step

(* An item that is held goes into a list.                                  *)
LEMMA Inserts ==
  ASSUME NEW a \in Items, NEW i \in roots, i \in Items, a \notin BelowIn(Forest, i),
         NEW p \in 1 .. Len(Forest[a]) + 1, Forest' = InsertedAt(Forest, a, p, i),
         roots' = roots \ {i}
  PROVE  Tree!Step
<1>1. a \notin Tree!Below(i) BY TreeBelow
<1>2. Tree!Insert(a, i, p) BY <1>1, Zenon DEF Tree!Insert, Tree!InsertAt, InsertAt, Forest, InsertedAt
<1> QED BY <1>2 DEF Tree!Step, Forest

(* An item is taken out of a list.                                         *)
LEMMA TakesOut ==
  ASSUME NEW a \in Items, NEW p \in DOMAIN Forest[a], Forest' = RemovedAt(Forest, a, p),
         roots' = roots \union {Forest[a][p]}
  PROVE  Tree!Step
<1>1. Tree!TakeOut(a, p) BY Zenon DEF Tree!TakeOut, Tree!RemoveAt, RemoveAt, Forest, RemovedAt
<1> QED BY <1>1 DEF Tree!Step, Forest

(* An item that is held is released.                                       *)
LEMMA Releases ==
  ASSUME NEW x \in roots, x \in Items, roots' = roots \ {x},
         Forest' = Without(Forest, BelowIn(Forest, x))
  PROVE  Tree!Step
<1>1. Forest' = Without(Forest, Tree!Below(x)) BY TreeBelow
<1>2. Tree!Release(x)
  <2> DEFINE below == Tree!Below(x)
  <2>1. Forest' = Without(Forest, below) BY <1>1
  <2> HIDE DEF below
  <2> QED BY <2>1, Zenon DEF Tree!Release, Forest, Without, below
<1> QED BY <1>2 DEF Tree!Step

(* An item is taken out and released.                                      *)
LEMMA RemovesReleases ==
  ASSUME NEW a \in Items, NEW p \in DOMAIN Forest[a], roots' = roots,
         Forest' = Without(RemovedAt(Forest, a, p), BelowIn(Forest, Forest[a][p]))
  PROVE  Tree!Step
<1> DEFINE x == Forest[a][p]
<1>1. BelowIn(Forest, x) = Tree!Below(x) BY TreeBelow
<1>2. Tree!RemoveAndRelease(a, p)
  <2> DEFINE below == Tree!Below(x)
             l == RemoveAt(Forest[a], p)
  <2>1. Forest' = Without([Forest EXCEPT ![a] = l], below) BY <1>1 DEF RemovedAt
  <2>2. Forest = [n \in Items |-> Forest[n]] BY DEF Forest
  <2> HIDE DEF below, l
  <2>3. Forest' = [n \in Items |-> IF n \in below THEN <<>> ELSE IF n = a THEN l ELSE Forest[n]]
    BY <2>1, <2>2 DEF Without
  <2> QED BY <2>3, Zenon DEF Tree!RemoveAndRelease, Tree!RemoveAt, RemoveAt, Forest, below, l
<1> QED BY <1>2 DEF Tree!Step, Forest

(* An item is released, and one that was held is in its place.             *)
LEMMA Exchanges ==
  ASSUME NEW a \in Items, NEW p \in DOMAIN Forest[a], NEW i \in roots, i \in Items,
         roots' = roots \ {i}, a \notin BelowIn(Forest, i),
         Forest' = Without(ReplacedAt(Forest, a, p, i), BelowIn(Forest, Forest[a][p]))
  PROVE  Tree!Step
<1> DEFINE x == Forest[a][p]
<1>1. BelowIn(Forest, x) = Tree!Below(x) /\ a \notin Tree!Below(i) BY TreeBelow
<1>2. Tree!Exchange(a, p, i)
  <2> DEFINE below == Tree!Below(x)
             l == ReplaceAt(Forest[a], p, i)
  <2>1. Forest' = Without([Forest EXCEPT ![a] = l], below) BY <1>1 DEF ReplacedAt
  <2>2. Forest = [n \in Items |-> Forest[n]] BY DEF Forest
  <2> HIDE DEF below, l
  <2>3. Forest' = [n \in Items |-> IF n \in below THEN <<>> ELSE IF n = a THEN l ELSE Forest[n]]
    BY <2>1, <2>2 DEF Without
  <2> QED BY <1>1, <2>3, Zenon DEF Tree!Exchange, Tree!ReplaceAt, ReplaceAt, Forest, below, l
<1> QED BY <1>2 DEF Tree!Step, Forest

(* Used is what is in use and not lost.                                    *)
LEMMA UsedNodes ==
  ASSUME NEW h, NEW R, NEW L, Sound(h, R, L)
  PROVE  UsedIn(ForestOf(h), R) = Live(h) \ L
<1>1. PICK par : Linkage(h, par) /\ Held(h, par, R, L) BY DEF Sound
<1> DEFINE F == ForestOf(h)
<1>2. \A m \in Items : ToSet(F[m]) = {n \in Items : par[n] = m} BY <1>1, ForestMembers
<1> HIDE DEF F
<1>3. \A n \in Items : par[n] # NULL => par[n] \in Items /\ h[n].kind # "FREE"
  BY <1>1, Basics DEF Linkage, MemberOK
<1>4. UsedIn(F, R) = R \union {n \in Items : par[n] \in Items} BY <1>2 DEF UsedIn
<1>5. NULL \notin Items /\ R \subseteq Items /\ L \subseteq Items /\ R \intersect L = {}
      /\ \A n \in Items : n \in R \union L <=> h[n].kind # "FREE" /\ par[n] = NULL
  BY <1>1, Basics DEF Held
<1> QED BY <1>3, <1>4, <1>5 DEF Live, F

(* A call, between two others.                                             *)
Calling == Inv /\ Inv' /\ pc = "idle" /\ pc' = "idle"

(* What is seen at a call is all lists; what the caller has is in them.    *)
LEMMA CallForest ==
  ASSUME Calling
  PROVE  /\ Forest = ForestOf(heap) /\ Forest' = ForestOf(heap')
         /\ UsedIn(Forest, roots) = Live(heap) \ lost /\ roots \subseteq Items
         /\ \A p \in Owners : /\ p \in Items /\ IsList(heap, p) /\ p \in Live(heap) \ lost
                              /\ Forest[p] = Kids(heap, p) /\ DOMAIN Forest[p] = 1 .. Len(Forest[p])
                              /\ Forest[p] \in Seq(Items)
<1>1. pc \in {"idle", "parsed"} /\ pc' \in {"idle", "parsed"} BY DEF Calling
<1>2. Sound(heap, roots, lost) /\ Sound(heap', roots', lost') BY DEF Calling, Inv
<1>3. Forest = ForestOf(heap) BY <1>1, <1>2, SeenNow, SeenAll
<1>4. Forest' = ForestOf(heap') BY <1>1, <1>2, SeenNow, SeenAll
<1>5. UsedIn(Forest, roots) = Live(heap) \ lost BY <1>2, <1>3, UsedNodes
<1>6. roots \subseteq Items BY <1>2, SoundHeap
<1>7. PICK par : Linkage(heap, par) BY <1>2 DEF Sound
<1>8. ASSUME NEW p \in Owners
      PROVE  /\ p \in Items /\ IsList(heap, p) /\ p \in Live(heap) \ lost
             /\ Forest[p] = Kids(heap, p) /\ DOMAIN Forest[p] = 1 .. Len(Forest[p])
             /\ Forest[p] \in Seq(Items)
  <2>1. p \in Items /\ IsList(heap, p) /\ p \in Live(heap) \ lost
    BY DEF Owners, IsOwner, IsList, Live, Containers
  <2>2. Forest[p] = Kids(heap, p) BY <1>3, <2>1 DEF ForestOf
  <2>3. ForestOf(heap)[p] \in Seq(Items) BY <1>7, <2>1, ForestMembers
  <2>4. Forest[p] \in Seq(Items) BY <1>3, <2>3
  <2> QED BY <2>1, <2>2, <2>4
<1> QED BY <1>3, <1>4, <1>5, <1>6, <1>8

(* A node that was free becomes an item of the caller.                     *)
LEMMA FreshCreates ==
  ASSUME Calling, NEW n \in Unused, ForestOf(heap') = ForestOf(heap), roots' = roots \union {n}
  PROVE  Tree!Step
<1>1. n \in Items /\ n \notin Live(heap) BY DEF Unused
<1>2. Forest' = Forest /\ n \notin UsedIn(Forest, roots) BY <1>1, CallForest
<1>3. \A m \in Items : ToSet(Forest'[m]) \intersect (UsedIn(Forest, roots) \ ToSet(Forest[m])) = {}
  BY <1>2
<1>4. \A m \in UsedIn(Forest, roots) : Forest'[m] = Forest[m] BY <1>2
<1> QED BY <1>1, <1>2, <1>3, <1>4, Creates

(* A node that was free goes to the end of a list.                         *)
LEMMA FreshGrows ==
  ASSUME Calling, NEW n \in Unused, NEW k, ForestOf(k) = ForestOf(heap), NEW a \in Owners,
         ForestOf(heap') = Appended(ForestOf(k), a, n), roots' = roots
  PROVE  Tree!Step
<1>1. n \in Items /\ n \notin Live(heap) BY DEF Unused
<1>2. n \notin UsedIn(Forest, roots) /\ a \in UsedIn(Forest, roots) /\ a \in Items
  BY <1>1, CallForest
<1>3. Forest' = Appended(Forest, a, n) BY CallForest
<1> QED BY <1>1, <1>2, <1>3, Grows

NoStep == Forest' = Forest /\ roots' = roots

(* The calls that make an item or a reference.                             *)
LEMMA CreationsStep ==
  ASSUME Calling, NEW n \in Unused, Creations(n)
  PROVE  Tree!Step \/ NoStep
<1> \A p \in Lists("Array") \union Lists("Object") : p \in Owners BY DEF Lists
<1>0. Inv BY DEF Calling
<1> HIDE DEF Inv, Calling
<1>1. ASSUME NEW kind \in Containers \union Leaves, CreateItem(n, kind) PROVE Tree!Step
  <2>1. heap' = New_Item(n, kind) /\ roots' = roots \union {n} BY <1>1 DEF CreateItem
  <2>2. ForestOf(New_Item(n, kind)) = ForestOf(heap) BY <1>0, NewItem
  <2> QED BY <2>1, <2>2, FreshCreates
<1>2. ASSUME NEW kind \in Containers, NEW c \in Live(heap), CreateReference(n, kind, c)
      PROVE  Tree!Step
  <2> DEFINE g == [New_Item(n, kind) EXCEPT ![n].ref = TRUE, ![n].child = c]
  <2>1. heap' = g /\ roots' = roots \union {n} BY <1>2 DEF CreateReference
  <2>2. ForestOf(g) = ForestOf(heap) BY <1>0, NewReference
  <2> HIDE DEF g
  <2> QED BY <2>1, <2>2, FreshCreates
<1>3. ASSUME NEW o \in Owners, NEW g, Sound(g, roots \union {n}, lost), n \notin roots,
             o \in Items, o \notin Below(g, n), IsList(g, o), ForestOf(g) = ForestOf(heap),
             heap' = add_item_to_array(g, o, n), roots' = roots
      PROVE  Tree!Step
  <2>1. ForestOf(heap') = Appended(ForestOf(g), o, n) BY <1>3, SoundAdded
  <2> QED BY <1>3, <2>1, FreshGrows
<1>4. ASSUME NEW o \in Owners, NEW key \in Keys, NEW g, Sound(g, roots \union {n}, lost),
             n \notin roots, n \in Items, o \in Items, o \notin Below(g, n), IsList(g, o),
             ForestOf(g) = ForestOf(heap), roots' = roots,
             heap' = add_item_to_array(WithKey(g, n, key, FALSE), o, n)
      PROVE  Tree!Step
  <2> DEFINE const == FALSE
             k == WithKey(g, n, key, const)
  <2> const \in BOOLEAN OBVIOUS
  <2>1. heap' = add_item_to_array(k, o, n) BY <1>4
  <2> HIDE DEF const
  <2>2. /\ Sound(k, roots \union {n}, lost) /\ k[o].kind = g[o].kind /\ k[o].ref = g[o].ref
        /\ o \notin Below(k, n) /\ ForestOf(k) = ForestOf(heap)
    BY <1>4, KeySet
  <2> HIDE DEF k
  <2>3. IsList(k, o) BY <1>4, <2>2 DEF IsList
  <2> QED BY <1>3, <1>4, <2>1, <2>2, <2>3
<1>5. ASSUME NEW o \in Owners, NEW key \in Keys, NEW kind \in Leaves,
             AddNewToObject(o, key, n, kind)
      PROVE  Tree!Step
  <2> DEFINE g == New_Item(n, kind)
  <2>1. /\ Sound(g, roots \union {n}, lost) /\ n \in Items /\ n \notin roots
        /\ o \in Items /\ o \notin Below(g, n) /\ IsList(g, o) /\ ForestOf(g) = ForestOf(heap)
    BY <1>0, NewItem
  <2>2. heap' = add_item_to_array(WithKey(g, n, key, FALSE), o, n) /\ roots' = roots
    BY <1>5 DEF AddNewToObject
  <2> HIDE DEF g
  <2> QED BY <1>4, <2>1, <2>2
<1>6. ASSUME NEW i \in Live(heap), NEW a \in Owners, AddItemReferenceToArray(a, n, i)
      PROVE  Tree!Step
  <2> DEFINE g == Referring(heap, n, i)
  <2>1. /\ Sound(g, roots \union {n}, lost) /\ n \in Items /\ n \notin roots
        /\ a \in Items /\ a \notin Below(g, n) /\ IsList(g, a) /\ ForestOf(g) = ForestOf(heap)
    BY <1>0, ReferenceTo
  <2>2. heap' = add_item_to_array(g, a, n) /\ roots' = roots BY <1>6 DEF AddItemReferenceToArray
  <2> HIDE DEF g
  <2> QED BY <1>3, <2>1, <2>2
<1>7. ASSUME NEW i \in Live(heap), NEW o \in Owners, NEW key \in Keys,
             AddItemReferenceToObject(o, key, n, i)
      PROVE  Tree!Step
  <2> DEFINE g == Referring(heap, n, i)
  <2>1. /\ Sound(g, roots \union {n}, lost) /\ n \in Items /\ n \notin roots
        /\ o \in Items /\ o \notin Below(g, n) /\ IsList(g, o) /\ ForestOf(g) = ForestOf(heap)
    BY <1>0, ReferenceTo
  <2>2. heap' = add_item_to_array(WithKey(g, n, key, FALSE), o, n) /\ roots' = roots
    BY <1>7 DEF AddItemReferenceToObject
  <2> HIDE DEF g
  <2> QED BY <1>4, <2>1, <2>2
<1>8. ASSUME NEW i \in Live(heap), AddItemReferenceFails(n, i) PROVE NoStep
  <2>1. heap' = Referring(heap, n, i) /\ roots' = roots BY <1>8 DEF AddItemReferenceFails
  <2>2. ForestOf(Referring(heap, n, i)) = ForestOf(heap) BY <1>0, ReferenceTo
  <2> QED BY <2>1, <2>2, CallForest DEF NoStep
<1>9. ASSUME References(n) PROVE Tree!Step \/ NoStep
  BY <1>2, <1>6, <1>7, <1>8, <1>9 DEF References
<1> QED BY <1>1, <1>5, <1>9 DEF Creations

(* What is added at the end is inserted behind the last item.              *)
LEMMA AppendedLast ==
  ASSUME NEW S, NEW f, NEW a, NEW i \in S, f[a] \in Seq(S)
  PROVE  Appended(f, a, i) = InsertedAt(f, a, Len(f[a]) + 1, i) /\ Len(f[a]) + 1 \in 1 .. Len(f[a]) + 1
<1> DEFINE s == f[a]
           t == InsertAt(s, Len(s) + 1, i)
           u == Append(s, i)
<1>1. s \in Seq(S) /\ Len(s) \in Nat OBVIOUS
<1> HIDE DEF s
<1>2. Len(s) + 1 \in 1 .. Len(s) + 1 BY <1>1
<1>3. /\ t \in Seq(S) /\ Len(t) = Len(s) + 1
      /\ \A k \in 1 .. Len(s) + 1 :
           t[k] = IF k < Len(s) + 1 THEN s[k] ELSE IF k = Len(s) + 1 THEN i ELSE s[k - 1]
  BY <1>1, <1>2, Inserting
<1>4. /\ u \in Seq(S) /\ Len(u) = Len(s) + 1 /\ u[Len(s) + 1] = i
      /\ \A k \in 1 .. Len(s) : u[k] = s[k]
  BY <1>1, AppendProperties
<1> HIDE DEF t, u
<1>5. t = u
  <2>1. \A k \in 1 .. Len(s) + 1 : t[k] = u[k] BY <1>1, <1>3, <1>4
  <2> QED BY <1>1, <1>3, <1>4, <2>1, SeqEqual
<1> QED BY <1>2, <1>5 DEF Appended, InsertedAt, s, t, u

(* What is released leaves no list behind, and no other list is changed.   *)
LEMMA ReleasedLists ==
  ASSUME heap \in Heaps, NEW h, NEW R, NEW L, Sound(h, R, L), NEW x \in R, MayDelete(Below(h, x)),
         \A n \in Items : /\ h[n].kind = heap[n].kind /\ h[n].ref = heap[n].ref
                          /\ heap[n].ref => h[n].child = heap[n].child
  PROVE  ForestOf(Freed(h, x)) = Without(ForestOf(h), Below(h, x))
<1> DEFINE S == Below(h, x)
<1>1. S = BelowIn(ForestOf(h), x) BY SoundBelow
<1>2. S \in SUBSET Items BY <1>1 DEF BelowIn
<1>3. MayDelete(S) OBVIOUS
<1> HIDE DEF S
<1>4. \A r \in Items \ S : h[r].kind # "FREE" /\ h[r].ref => h[r].child \notin S
  BY <1>2, <1>3, NoReferenceLeft
<1> QED BY <1>4, SoundFreed DEF S

(* The calls that put an item into an array or object.                     *)
LEMMA AdditionsStep ==
  ASSUME Calling, NEW p \in Owners, NEW i \in roots, Additions(p, i)
  PROVE  Tree!Step \/ NoStep
<1>1. /\ heap \in Heaps /\ i \in Items /\ p \in Items /\ IsList(heap, p)
      /\ Sound(heap, roots, lost)
  BY SoundHeap, NamesMembers DEF Inv, Calling
<1>2. /\ Forest = ForestOf(heap) /\ Forest' = ForestOf(heap')
      /\ Forest[p] = Kids(heap, p) /\ DOMAIN Forest[p] = 1 .. Len(Forest[p]) /\ Forest[p] \in Seq(Items)
  BY CallForest
<1>3. ASSUME MayAdd(p, i) PROVE p \notin Below(heap, i) /\ p \notin BelowIn(Forest, i)
  BY <1>1, <1>2, <1>3, SoundBelow DEF MayAdd
<1> HIDE DEF Calling
<1>4. ASSUME MayAdd(p, i), NEW k, Sound(k, roots, lost), IsList(k, p), p \notin Below(k, i),
             ForestOf(k) = Forest, heap' = add_item_to_array(k, p, i), roots' = roots \ {i}
      PROVE  Tree!Step
  <2>1. ForestOf(heap') = Appended(ForestOf(k), p, i) BY <1>1, <1>4, SoundAdded
  <2>2. Forest' = Appended(Forest, p, i) BY <1>2, <1>4, <2>1
  <2>3. /\ Appended(Forest, p, i) = InsertedAt(Forest, p, Len(Forest[p]) + 1, i)
        /\ Len(Forest[p]) + 1 \in 1 .. Len(Forest[p]) + 1
    BY <1>1, <1>2, AppendedLast
  <2> QED BY <1>1, <1>3, <1>4, <2>2, <2>3, Inserts
<1>5. ASSUME AddItemToArray(p, i) PROVE Tree!Step
  <2>1. MayAdd(p, i) /\ heap' = add_item_to_array(heap, p, i) /\ roots' = roots \ {i}
    BY <1>5 DEF AddItemToArray
  <2> QED BY <1>1, <1>2, <1>3, <1>4, <2>1
<1>6. ASSUME NEW key \in Keys, NEW const \in BOOLEAN, AddItemToObject(p, key, i, const)
      PROVE  Tree!Step
  <2> DEFINE k == WithKey(heap, i, key, const)
  <2>1. MayAdd(p, i) /\ heap' = add_item_to_array(k, p, i) /\ roots' = roots \ {i}
    BY <1>6 DEF AddItemToObject
  <2>2. /\ Sound(k, roots, lost) /\ k[p].kind = heap[p].kind /\ k[p].ref = heap[p].ref
        /\ Below(k, i) = Below(heap, i) /\ ForestOf(k) = ForestOf(heap)
    BY <1>1, KeySet
  <2> HIDE DEF k
  <2>3. IsList(k, p) BY <1>1, <2>2 DEF IsList
  <2> QED BY <1>2, <1>3, <1>4, <2>1, <2>2, <2>3
<1>7. ASSUME NEW b \in Members(heap, p), InsertItemInArray(p, b, i) PROVE Tree!Step
  <2>1. MayAdd(p, i) /\ heap' = Inserted(heap, p, b, i) /\ roots' = roots \ {i}
    BY <1>7 DEF InsertItemInArray
  <2>2. PICK k \in 1 .. Len(Kids(heap, p)) : ForestOf(heap') = InsertedAt(ForestOf(heap), p, k, i)
    BY <1>1, <1>3, <2>1, SoundInserted
  <2>3. Forest' = InsertedAt(Forest, p, k, i) /\ k \in 1 .. Len(Forest[p]) + 1 BY <1>2, <2>2
  <2> QED BY <1>1, <1>3, <2>1, <2>3, Inserts
<1>8. ASSUME MayAdd(p, i), NEW k, Sound(k, roots, lost), IsList(k, p), NEW x \in Members(k, p),
             p \notin Below(k, i), ForestOf(k) = Forest, roots' = roots \ {i},
             MayDelete(Below(Replaced(k, p, x, i), x)), heap' = Freed(Replaced(k, p, x, i), x),
             \A n \in Items : /\ k[n].kind = heap[n].kind /\ k[n].ref = heap[n].ref
                              /\ k[n].child = heap[n].child
      PROVE  Tree!Step
  <2> DEFINE h == Replaced(k, p, x, i)
             S == Below(h, x)
  <2>1. /\ Sound(h, (roots \ {i}) \union {x}, lost) /\ SameBut(k, h, p)
        /\ x \in Items /\ x \notin roots /\ S = BelowIn(ForestOf(k), x)
        /\ \E m \in 1 .. Len(Kids(k, p)) :
             x = Kids(k, p)[m] /\ ForestOf(h) = ReplacedAt(ForestOf(k), p, m, i)
    BY <1>1, <1>8, SoundReplaced
  <2>0. heap' = Freed(h, x) BY <1>8
  <2> HIDE DEF h
  <2>2. \A n \in Items : /\ h[n].kind = heap[n].kind /\ h[n].ref = heap[n].ref
                         /\ heap[n].ref => h[n].child = heap[n].child
    BY <1>1, <1>8, <2>1 DEF SameBut, IsList
  <2>3. MayDelete(Below(h, x)) BY <1>8 DEF h
  <2> DEFINE R == (roots \ {i}) \union {x}
  <2>4. x \in R /\ Sound(h, R, lost) BY <2>1
  <2> HIDE DEF R, S
  <2>5. ForestOf(Freed(h, x)) = Without(ForestOf(h), Below(h, x))
    BY <1>1, <2>2, <2>3, <2>4, ReleasedLists
  <2>6. ForestOf(Freed(h, x)) = Without(ForestOf(h), S) BY <2>5 DEF S
  <2>7. PICK m \in 1 .. Len(Kids(k, p)) :
          x = Kids(k, p)[m] /\ ForestOf(h) = ReplacedAt(ForestOf(k), p, m, i)
    BY <2>1
  <2>8. Kids(k, p) = Forest[p] BY <1>1, <1>8 DEF ForestOf
  <2>9. m \in DOMAIN Forest[p] /\ x = Forest[p][m] BY <1>2, <2>7, <2>8
  <2>10. Forest' = Without(ReplacedAt(Forest, p, m, i), BelowIn(Forest, Forest[p][m]))
    BY <1>2, <1>8, <2>0, <2>1, <2>6, <2>7, <2>9
  <2> QED BY <1>1, <1>3, <1>8, <2>9, <2>10, Exchanges
<1>9. ASSUME NEW x \in Members(heap, p), ReplaceItemInArray(p, x, i) PROVE Tree!Step
  <2>1. /\ MayAdd(p, i) /\ MayDelete(Below(Replaced(heap, p, x, i), x))
        /\ heap' = Freed(Replaced(heap, p, x, i), x) /\ roots' = roots \ {i}
    BY <1>9 DEF ReplaceItemInArray, Released
  <2> QED BY <1>1, <1>2, <1>3, <1>8, <2>1
<1>10. ASSUME NEW key \in Keys, ReplaceItemInObject(p, key, i) PROVE Tree!Step \/ NoStep
  <2> DEFINE const == FALSE
             x == Named(heap, p, key)
             k == WithKey(heap, i, key, const)
  <2> const \in BOOLEAN OBVIOUS
  <2> HIDE DEF const
  <2>1. /\ Sound(k, roots, lost)
        /\ \A n \in Items : /\ k[n].kind = heap[n].kind /\ k[n].ref = heap[n].ref
                            /\ k[n].child = heap[n].child
        /\ Below(k, i) = Below(heap, i) /\ ForestOf(k) = ForestOf(heap)
    BY <1>1, KeySet
  <2>2. MayAdd(p, i) BY <1>10 DEF ReplaceItemInObject
  <2>3. CASE x = NULL
    <3>1. heap' = k /\ roots' = roots BY <1>10, <2>3 DEF ReplaceItemInObject, const
    <3> QED BY <1>2, <2>1, <3>1 DEF NoStep
  <2>4. CASE x # NULL
    <3>1. x \in Members(heap, p) BY <1>1, <2>4, NamedMember
    <3>2. MayDelete(Below(Replaced(k, p, x, i), x)) /\ heap' = Freed(Replaced(k, p, x, i), x)
          /\ roots' = roots \ {i}
      BY <1>10, <2>4 DEF ReplaceItemInObject, const
    <3> HIDE DEF k, x
    <3>3. IsList(k, p) BY <1>1, <2>1 DEF IsList
    <3>4. Kids(k, p) = Kids(heap, p)
      <4>1. ForestOf(k)[p] = Kids(k, p) BY <1>1, <3>3 DEF ForestOf
      <4>2. ForestOf(heap)[p] = Kids(heap, p) BY <1>1 DEF ForestOf
      <4> QED BY <2>1, <4>1, <4>2
    <3>5. x \in Members(k, p) BY <3>1, <3>4 DEF Members
    <3> QED BY <1>2, <1>3, <1>8, <2>1, <2>2, <3>2, <3>3, <3>5
  <2> QED BY <2>3, <2>4
<1> QED BY <1>5, <1>6, <1>7, <1>9, <1>10 DEF Additions

(* The calls that take an item out of an array or object.                  *)
LEMMA RemovalsStep ==
  ASSUME Calling, NEW p \in Owners, NEW x \in CanName(p), DetachItem(p, x) \/ DeleteItem(p, x)
  PROVE  Tree!Step
<1> DEFINE h == Detached(heap, p, x)
           R == roots \union {x}
<1>1. /\ heap \in Heaps /\ p \in Items /\ IsList(heap, p) /\ x \in Members(heap, p)
      /\ Sound(heap, roots, lost)
  BY SoundHeap, NamesMembers DEF Inv, Calling
<1>2. /\ Sound(h, R, lost) /\ SameBut(heap, h, p) /\ Below(h, x) = BelowIn(ForestOf(heap), x)
      /\ \E k \in 1 .. Len(Kids(heap, p)) :
           x = Kids(heap, p)[k] /\ ForestOf(h) = RemovedAt(ForestOf(heap), p, k)
  BY <1>1, SoundDetached
<1>3. /\ Forest = ForestOf(heap) /\ Forest' = ForestOf(heap')
      /\ Forest[p] = Kids(heap, p) /\ DOMAIN Forest[p] = 1 .. Len(Forest[p])
  BY CallForest
<1> HIDE DEF Calling, h
<1>4. PICK k \in DOMAIN Forest[p] : x = Forest[p][k] /\ ForestOf(h) = RemovedAt(Forest, p, k)
  BY <1>2, <1>3
<1>5. CASE DetachItem(p, x)
  <2>1. heap' = h /\ roots' = R BY <1>5 DEF DetachItem, h
  <2> QED BY <1>1, <1>3, <1>4, <2>1, TakesOut
<1>6. CASE DeleteItem(p, x)
  <2>1. MayDelete(Below(h, x)) /\ heap' = Freed(h, x) /\ roots' = roots
    BY <1>6 DEF DeleteItem, Released, h
  <2>2. \A n \in Items : /\ h[n].kind = heap[n].kind /\ h[n].ref = heap[n].ref
                         /\ heap[n].ref => h[n].child = heap[n].child
    BY <1>1, <1>2 DEF SameBut, IsList
  <2>3. x \in R OBVIOUS
  <2> HIDE DEF R
  <2>4. ForestOf(Freed(h, x)) = Without(ForestOf(h), Below(h, x))
    BY <1>1, <1>2, <2>1, <2>2, <2>3, ReleasedLists
  <2>5. Forest' = Without(RemovedAt(Forest, p, k), BelowIn(Forest, Forest[p][k]))
    BY <1>2, <1>3, <1>4, <2>1, <2>4
  <2> QED BY <1>1, <2>1, <2>5, RemovesReleases
<1> QED BY <1>5, <1>6

(* The calls about an item of the caller alone.                            *)
LEMMA RootCallsStep ==
  ASSUME Calling, NEW x \in roots, Delete(x) \/ ReplaceItemFails(x)
  PROVE  Tree!Step \/ NoStep
<1>1. heap \in Heaps /\ x \in Items /\ Sound(heap, roots, lost) BY SoundHeap DEF Inv, Calling
<1>2. Forest = ForestOf(heap) /\ Forest' = ForestOf(heap') BY CallForest
<1> HIDE DEF Calling
<1>3. CASE Delete(x)
  <2>1. MayDelete(Below(heap, x)) /\ heap' = Freed(heap, x) /\ roots' = roots \ {x}
    BY <1>3 DEF Delete, Released
  <2>2. ForestOf(Freed(heap, x)) = Without(ForestOf(heap), Below(heap, x))
    BY <1>1, <2>1, ReleasedLists
  <2>3. Below(heap, x) = BelowIn(ForestOf(heap), x) BY <1>1, SoundBelow
  <2> QED BY <1>1, <1>2, <2>1, <2>2, <2>3, Releases
<1>4. CASE ReplaceItemFails(x)
  <2> DEFINE g == [heap EXCEPT ![x].string = NULL]
  <2>1. heap' = g /\ roots' = roots BY <1>4 DEF ReplaceItemFails
  <2>2. [heap[x] EXCEPT !.string = NULL] \in Struct BY <1>1 DEF Heaps, Struct
  <2>3. g = [heap EXCEPT ![x] = [heap[x] EXCEPT !.string = NULL]] OBVIOUS
  <2>4. g \in Heaps BY <1>1, <2>2, <2>3 DEF Heaps
  <2>5. \A n \in Items : /\ g[n].kind = heap[n].kind /\ g[n].ref = heap[n].ref
                         /\ g[n].next = heap[n].next /\ g[n].prev = heap[n].prev
                         /\ g[n].child = heap[n].child
    BY <1>1 DEF Heaps, Struct
  <2> HIDE DEF g
  <2>6. ForestOf(g) = ForestOf(heap) BY <1>1, <2>4, <2>5, SoundSame
  <2> QED BY <1>2, <2>1, <2>6 DEF NoStep
<1> QED BY <1>3, <1>4

(* A copy is a new tree.                                                   *)
LEMMA DuplicateStep ==
  ASSUME Calling, NEW x \in Live(heap), NEW recurse \in BOOLEAN, Duplicate(x, recurse)
  PROVE  Tree!Step
<1>1. x \in Items /\ heap[x].kind # "FREE" /\ Sound(heap, roots, lost) /\ Inv
  BY DEF Inv, Live, Calling
<1>2. /\ Forest = ForestOf(heap) /\ Forest' = ForestOf(heap')
      /\ UsedIn(Forest, roots) = Live(heap) \ lost
  BY CallForest
<1> HIDE DEF Calling
<1>3. CASE recurse
  <2>1. IsTree(heap, x) BY <1>3 DEF Duplicate
  <2>2. PICK f \in [Nest(heap, x) -> Items \ Live(heap)] :
          Injective(f) /\ heap' = Copied(heap, f, x) /\ roots' = roots \union {f[x]}
    BY <1>3 DEF Duplicate, Unused
  <2>3. \A n \in Items : CopiedList(heap, Copied(heap, f, x), n)
    BY <1>1, <2>1, <2>2, SoundCopied
  <2> DEFINE y == f[x]
  <2>4. y \in Items /\ y \notin Live(heap)
    <3>1. x \in Nest(heap, x) BY DEF Nest
    <3> QED BY <2>2, <3>1
  <2> HIDE DEF y
  <2> DEFINE U == UsedIn(Forest, roots)
  <2>5. U \subseteq Live(heap) /\ U \subseteq Items BY <1>2 DEF Live
  <2>6. \A n \in Items :
          /\ n \in Live(heap) => Forest'[n] = Forest[n]
          /\ n \notin Live(heap) => ToSet(Forest'[n]) \intersect Live(heap) = {}
    BY <1>2, <2>2, <2>3 DEF CopiedList
  <2>7. roots' = roots \union {y} BY <2>2 DEF y
  <2>8. \A n \in U : Forest'[n] = Forest[n] BY <2>5, <2>6
  <2>9. \A n \in Items : ToSet(Forest'[n]) \intersect (U \ ToSet(Forest[n])) = {}
    BY <2>5, <2>6
  <2>10. y \notin U BY <2>4, <2>5
  <2> QED BY <2>4, <2>7, <2>8, <2>9, <2>10, Creates
<1>4. CASE ~recurse
  <2>1. PICK f \in [{x} -> Unused] : heap' = Copied(heap, f, x) /\ roots' = roots \union {f[x]}
    BY <1>4 DEF Duplicate
  <2>2. ForestOf(heap') = ForestOf(heap) BY <1>1, <2>1, CopiedAlone
  <2>3. f[x] \in Unused OBVIOUS
  <2> QED BY <2>1, <2>2, <2>3, FreshCreates
<1> QED BY <1>3, <1>4

(* Each call is a step of the tree, or changes nothing of it.              *)
LEMMA CallStep == Calling /\ Call => Tree!Step \/ NoStep
<1> SUFFICES ASSUME Calling, Call PROVE Tree!Step \/ NoStep OBVIOUS
<1> HIDE DEF Calling
<1>1. CASE \E n \in Unused : Creations(n) BY <1>1, CreationsStep
<1>2. CASE \E p \in Owners, i \in roots : Additions(p, i) BY <1>2, AdditionsStep
<1>3. CASE \E p \in Owners : \E x \in CanName(p) : DetachItem(p, x) \/ DeleteItem(p, x)
  BY <1>3, RemovalsStep
<1>4. CASE \E x \in roots : Delete(x) \/ ReplaceItemFails(x) BY <1>4, RootCallsStep
<1>5. CASE \E x \in Live(heap) \ lost, recurse \in BOOLEAN : Duplicate(x, recurse)
  BY <1>5, DuplicateStep
<1> QED BY <1>1, <1>2, <1>3, <1>4, <1>5 DEF Call

(* Without an item of the caller there are no items, and no lists.         *)
LEMMA NothingHeld ==
  ASSUME NEW h, Sound(h, {}, {})
  PROVE  Live(h) = {} /\ ForestOf(h) = NoLists
<1>1. PICK par : Linkage(h, par) /\ Held(h, par, {}, {}) BY DEF Sound
<1>2. Live(h) = {}
  <2> SUFFICES ASSUME Live(h) # {} PROVE FALSE OBVIOUS
  <2>1. Live(h) \in SUBSET Items BY DEF Live
  <2>2. Grounded(par) BY <1>1 DEF Held
  <2>3. PICK n \in Live(h) : par[n] \notin Live(h) BY <2>1, <2>2 DEF Grounded
  <2>4. n \in Items /\ h[n].kind # "FREE" BY DEF Live
  <2>5. par[n] # NULL BY <1>1, <2>4 DEF Held
  <2>6. par[n] \in Items /\ h[par[n]].kind # "FREE"
    <3>1. MemberOK(h, par, n) BY <1>1, <2>4, <2>5 DEF Linkage
    <3>2. IsList(h, par[n]) BY <3>1 DEF MemberOK
    <3>3. par[n] \in Items BY <1>1, <2>4, <2>5, Basics DEF Linkage
    <3> QED BY <3>2, <3>3 DEF IsList, Containers
  <2> QED BY <2>3, <2>6 DEF Live
<1>3. \A n \in Items : ~IsList(h, n) BY <1>2 DEF IsList, Live, Containers
<1> QED BY <1>2, <1>3 DEF ForestOf, NoLists

(* What failed has left nothing behind.                                    *)
RInv == pc = "failed" => roots = {} /\ lost = {}

(* The steps of the parser until it returns.                               *)
LEMMA Meanwhile ==
  ASSUME \/ Supply \/ Start \/ Scalar \/ parse_string \/ StringFails \/ ValueFails
         \/ \E kind \in Containers : Open(kind)
         \/ Element \/ ElementFails \/ Name \/ NameFails \/ Colon
         \/ Comma \/ Close \/ ElementEndsBadly \/ Unwind
  PROVE  pc \notin Quiet /\ pc' \notin Quiet /\ roots' = roots
<1>1. CASE Supply BY <1>1 DEF Supply, itemVars, Quiet
<1>2. CASE Start \/ Scalar \/ parse_string \/ StringFails \/ ValueFails
  BY <1>2 DEF Start, Scalar, parse_string, StringFails, ValueFails, itemVars, Quiet, To, Fail
<1>3. ASSUME NEW kind \in Containers, Open(kind)
      PROVE  pc \notin Quiet /\ pc' \notin Quiet /\ roots' = roots
  <2>1. pc = "value" /\ pc' \in {"fail", "valued", "element"} /\ roots' = roots
    BY <1>3, Zenon DEF Open, To, Fail
  <2> QED BY <2>1 DEF Quiet
<1>4. CASE Element
  <2>1. pc = "element" /\ pc' \in {"value", "name"} /\ roots' = roots
    BY <1>4, Zenon DEF Element, To
  <2> QED BY <2>1 DEF Quiet
<1>5. CASE Name \/ NameFails \/ ElementFails
  <2>1. pc \in {"name", "element"} /\ pc' \in {"colon", "fail"} /\ roots' = roots
    BY <1>5, Zenon DEF Name, NameFails, ElementFails, itemVars, To, Fail
  <2> QED BY <2>1 DEF Quiet
<1>6. CASE Colon \/ Comma \/ ElementEndsBadly
  <2>1. pc \in {"colon", "valued"} /\ pc' \in {"value", "element", "fail"} /\ roots' = roots
    BY <1>6, Zenon DEF Colon, Comma, ElementEndsBadly, itemVars, To, Fail
  <2> QED BY <2>1 DEF Quiet
<1>7. CASE Close
  <2>1. pc = "valued" /\ pc' = "valued" /\ roots' = roots BY <1>7, Zenon DEF Close, To
  <2> QED BY <2>1 DEF Quiet
<1>8. CASE Unwind BY <1>8 DEF Unwind, Quiet
<1> QED BY <1>1, <1>2, <1>3, <1>4, <1>5, <1>6, <1>7, <1>8

(* They are not seen.                                                      *)
LEMMA MeanwhileNone ==
  ASSUME pc \notin Quiet, pc' \notin Quiet, roots' = roots
  PROVE  NoStep /\ RInv'
<1>1. pc \notin {"idle", "parsed"} /\ pc' \notin {"idle", "parsed"} /\ pc' # "failed" BY DEF Quiet
<1>2. Forest = NoLists BY <1>1, SeenNow, SeenNone
<1>3. Forest' = NoLists BY <1>1, SeenNow, SeenNone
<1> QED BY <1>1, <1>2, <1>3 DEF NoStep, RInv

(* The document is a new tree when the parser returns it, and not before.  *)
LEMMA ReturnsStep ==
  ASSUME PInv, RInv, Begin \/ ReturnNull \/ ReturnItem \/ Returned
  PROVE  (Tree!Step \/ NoStep) /\ RInv'
<1>0. PInv' BY ReturnsKeep
<1>1. CASE Begin
  <2>1. pc = "idle" /\ Live(heap) = {} /\ pc' = "start" /\ UNCHANGED <<roots, lost>>
    BY <1>1 DEF Begin
  <2>2. Forest' = NoLists
    <3>1. pc' \notin {"idle", "parsed"} BY <2>1
    <3> QED BY <3>1, SeenNow, SeenNone
  <2>3. Forest = NoLists
    <3>1. \A n \in Items : heap[n].kind = "FREE" BY <2>1 DEF Live
    <3> QED BY <3>1 DEF Forest, NoLists, Visible, IsOwner, Containers
  <2> QED BY <2>1, <2>2, <2>3 DEF NoStep, RInv
<1>2. CASE ReturnNull
  <2>1. pc = "fail" /\ pc' = "failed" /\ UNCHANGED <<roots, lost>> BY <1>2 DEF ReturnNull
  <2>2. roots = {} /\ lost = {} BY <2>1 DEF PInv, Quiet
  <2>3. Forest = NoLists
    <3>1. pc \notin {"idle", "parsed"} BY <2>1
    <3> QED BY <3>1, SeenNow, SeenNone
  <2>4. Forest' = NoLists
    <3>1. pc' \notin {"idle", "parsed"} BY <2>1
    <3> QED BY <3>1, SeenNow, SeenNone
  <2> QED BY <2>1, <2>2, <2>3, <2>4 DEF NoStep, RInv
<1>3. CASE ReturnItem
  <2>1. pc = "valued" /\ stack = <<>> /\ pc' = "parsed" /\ roots' = roots \union {doc}
    BY <1>3 DEF ReturnItem
  <2>2. roots = {} /\ Parsing("valued", heap, <<>>, doc, cur) BY <2>1 DEF PInv, Quiet
  <2>3. doc \in Items BY <2>2, ParsingDone
  <2>4. Forest = NoLists
    <3>1. pc \notin {"idle", "parsed"} BY <2>1
    <3> QED BY <3>1, SeenNow, SeenNone
  <2>5. \A n \in Items : ToSet(Forest[n]) = {} BY <2>4 DEF NoLists, ToSet
  <2>6. UsedIn(Forest, roots) = {} BY <2>2, <2>5 DEF UsedIn
  <2>7. Tree!Step BY <2>1, <2>3, <2>6, Creates
  <2> QED BY <2>1, <2>7 DEF RInv
<1>4. CASE Returned
  <2>1. pc \in {"failed", "parsed"} /\ pc' = "idle" /\ UNCHANGED <<heap, roots, lost>>
    BY <1>4 DEF Returned, itemVars
  <2>2. Sound(heap, roots, lost) BY <2>1 DEF PInv, Quiet, Inv
  <2>3. Forest' = ForestOf(heap) BY <2>1, <2>2, SeenNow, SeenAll
  <2>4. CASE pc = "parsed"
    <3>1. Forest = ForestOf(heap) BY <2>2, <2>4, SeenNow, SeenAll
    <3> QED BY <2>1, <2>3, <3>1 DEF NoStep, RInv
  <2>5. CASE pc = "failed"
    <3>1. Sound(heap, {}, {}) BY <2>2, <2>5 DEF RInv
    <3>2. ForestOf(heap) = NoLists BY <3>1, NothingHeld
    <3>3. pc \notin {"idle", "parsed"} BY <2>5
    <3>4. Forest = NoLists BY <3>3, SeenNow, SeenNone
    <3> QED BY <2>1, <2>3, <3>2, <3>4 DEF NoStep, RInv
  <2> QED BY <2>1, <2>4, <2>5
<1> QED BY <1>1, <1>2, <1>3, <1>4

(* Each step is one of the tree, or changes nothing of it.                 *)
LEMMA EachStep == PInv /\ RInv /\ [Next]_vars => (Tree!Step \/ NoStep) /\ RInv'
<1> SUFFICES ASSUME PInv, RInv, [Next]_vars PROVE (Tree!Step \/ NoStep) /\ RInv' OBVIOUS
<1>1. CASE Begin \/ ReturnNull \/ ReturnItem \/ Returned BY <1>1, ReturnsStep
<1>2. CASE \/ Supply \/ Start \/ Scalar \/ parse_string \/ StringFails \/ ValueFails
           \/ \E kind \in Containers : Open(kind)
           \/ Element \/ ElementFails \/ Name \/ NameFails \/ Colon
           \/ Comma \/ Close \/ ElementEndsBadly \/ Unwind
  BY <1>2, Meanwhile, MeanwhileNone
<1>3. CASE CallOnItems
  <2>1. pc = "idle" /\ pc' = "idle" BY <1>3 DEF CallOnItems, parseVars
  <2>2. Inv BY <2>1 DEF PInv, Quiet
  <2>3. PInv' BY <1>3, CallOnItemsKeeps
  <2>4. Inv' BY <2>1, <2>3 DEF PInv, Quiet
  <2>5. Calling BY <2>1, <2>2, <2>4 DEF Calling
  <2>6. Call \/ \E x \in roots : Delete(x) BY <1>3 DEF CallOnItems
  <2>7. Tree!Step \/ NoStep BY <2>5, <2>6, CallStep, RootCallsStep
  <2> QED BY <2>1, <2>7 DEF RInv
<1>4. CASE UNCHANGED vars
  <2>1. UNCHANGED <<heap, roots, lost, pc>> BY <1>4 DEF vars, itemVars, parseVars
  <2>2. Forest' = Forest BY <2>1, SeenNow
  <2> QED BY <2>1, <2>2 DEF NoStep, RInv
<1> QED BY <1>1, <1>2, <1>3, <1>4, Zenon DEF Next, Parse

(* Items are ordered trees, whatever the caller does: the parser, the      *)
(* calls and the failures in them all implement JsonTree, where an item is *)
(* held or stands at one place of one list, and goes with all below it.    *)
THEOREM ItemsStayTrees == Spec => ItemsAreTrees
<1>1. ParserInit => Tree!Init /\ PInv /\ RInv
  <2> SUFFICES ASSUME ParserInit PROVE Tree!Init /\ PInv /\ RInv OBVIOUS
  <2>1. pc = "idle" /\ roots = {} /\ \A n \in Items : heap[n].kind = "FREE"
    BY DEF ParserInit, ItemsInit, Free
  <2>2. Forest = NoLists BY <2>1 DEF Forest, NoLists, Visible, IsOwner, Containers
  <2>3. Tree!Init BY <2>1, <2>2 DEF Tree!Init, Forest, NoLists
  <2> QED BY <2>1, <2>3, InitPInv DEF RInv
<1>2. PInv /\ RInv /\ [Next]_vars => PInv' /\ RInv' BY StepsKeep, EachStep
<1>3. PInv /\ RInv /\ [Next]_vars => [Tree!Next]_(Tree!treeVars)
  <2> SUFFICES ASSUME PInv, RInv, [Next]_vars PROVE [Tree!Next]_(Tree!treeVars) OBVIOUS
  <2>1. Tree!Step \/ NoStep BY EachStep
  <2>2. CASE NoStep BY <2>2 DEF NoStep, Tree!treeVars, Forest
  <2>3. CASE Tree!Step BY <2>3 DEF Tree!Next
  <2> QED BY <2>1, <2>2, <2>3
<1> QED BY <1>1, <1>2, <1>3, PTL DEF Spec, ItemsAreTrees, Tree!Spec

(* So does the specification with the printer, which only reads items.     *)
THEOREM PrinterKeepsTrees == PrinterSpec => ItemsAreTrees
BY PrinterItems, ItemsStayTrees

=============================================================================
