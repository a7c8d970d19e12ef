-------------------------- MODULE BufferRace_proofs --------------------------
(***************************************************************************)
(* Proofs about BufferRace, for every size of the buffer and of the step   *)
(* and any number of operations: how far the index and the counter can     *)
(* drift without the lock, and that no element comes to stand twice.       *)
(*                                                                         *)
(* Drift.  Each operation stores the index once, from the value it has     *)
(* loaded.  What others have stored since is lost, but these overlap it.   *)
(* So the index, and every copy of it that a thread still holds, is behind *)
(* by no more than the additions that have overlapped another operation    *)
(* and stored, and ahead by no more than such moves.                       *)
(*                                                                         *)
(* Elements.  Each addition stores its element once.  A move that has come *)
(* to slot i shows an element twice only in a slot s below i and, not yet  *)
(* overwritten, in s + P.                                                  *)
(*                                                                         *)
(* Alone.  An operation that meets no other takes the window of            *)
(* SlidingWindow apart in an order that Between follows, and has put it    *)
(* together again as WAdd or WSlide when it ends.                          *)
(***************************************************************************)
EXTENDS BufferRace, SequenceTheorems, TLAPS

AdderPlaces == {"rest", "index", "store", "advance", "advanced", "count", "counted"}
MoverPlaces == {"rest", "shift", "shifted", "retreat"}

(* What has been loaded of the counter, and from a slot.                   *)
Held ==
  /\ pc[e] = "shifted" => i < K - P /\ reg[e] \in 0 .. adds
  /\ \A a \in Adders : pc[a] = "counted" => reg[a] \in Nat

Types ==
  /\ data \in [Slots -> 0 .. MaxAdds] /\ write_idx \in Int /\ counter \in Nat
  /\ pc \in [Threads -> AdderPlaces \union MoverPlaces]
  /\ \A a \in Adders : pc[a] \in AdderPlaces
  /\ pc[e] \in MoverPlaces
  /\ reg \in [Threads -> Int] /\ element \in [Adders -> 0 .. MaxAdds] /\ i \in 0 .. K
  /\ adds \in 0 .. MaxAdds /\ slices \in Nat /\ overAdds \in Nat /\ overSlices \in Nat
  /\ overlaps \subseteq Underway
  /\ Held

(* Operations under way at the same time overlap.                          *)
OverlapInv ==
  \A t, u \in Threads : t # u /\ pc[t] # "rest" /\ pc[u] # "rest" => t \in overlaps

-----------------------------------------------------------------------------
(* Drift                                                                   *)

(* Additions and moves under way that have not stored the index, and       *)
(* overlapped additions that have but are not over.                        *)
Pending(a) == IF pc[a] \in {"index", "store", "advance", "advanced"} THEN 1 ELSE 0
Stored(a) == IF pc[a] \in {"count", "counted"} /\ a \in overlaps THEN 1 ELSE 0
Begun(a) == IF pc[a] # "rest" THEN 1 ELSE 0
Moving == IF pc[e] # "rest" THEN 1 ELSE 0

Advances == adds - Pending("messages") - Pending("stalls")
Retreats == slices - Moving
Overlapped == overAdds + Stored("messages") + Stored("stalls")
Counted == adds - Begun("messages") - Begun("stalls")

Near(x) ==
  /\ Advances - P * Retreats - Overlapped <= x
  /\ x <= Advances - P * Retreats + P * overSlices

DriftInv ==
  /\ Near(write_idx)
  /\ \A a \in Adders : pc[a] = "advanced" => Near(reg[a])
  /\ pc[e] = "retreat" => Near(reg[e])

CountNear(x) == Counted + 1 - overAdds <= x /\ x <= Counted + 1

CountInv ==
  /\ CountNear(counter)
  /\ \A a \in Adders : pc[a] = "counted" => CountNear(reg[a])

-----------------------------------------------------------------------------
(* Elements                                                                *)

(* Not stored yet, and hence nowhere.                                      *)
Fresh(a) == pc[a] \in {"index", "store"}

FreshInv ==
  /\ \A s \in Slots : data[s] <= adds
  /\ \A a \in Adders : element[a] <= adds
  /\ \A a \in Adders : Fresh(a) =>
       /\ element[a] # Empty /\ \A s \in Slots : data[s] # element[a]
       /\ pc[e] = "shifted" => reg[e] # element[a]
       /\ \A b \in Adders : Fresh(b) /\ element[b] = element[a] => b = a

Moved == pc[e] \in {"shift", "shifted"}

OnceInv ==
  /\ pc[e] = "shifted" =>
       \A s \in Slots : reg[e] # Empty /\ data[s] = reg[e] => s = i + P
  /\ \A s, u \in Slots : data[s] # Empty /\ data[s] = data[u] /\ s < u =>
       Moved /\ u = s + P /\ s < i /\ i <= u

IInv == Types /\ OverlapInv /\ DriftInv /\ CountInv /\ FreshInv /\ OnceInv

-----------------------------------------------------------------------------
LEMMA Assumed == K \in Nat /\ P \in Nat /\ MaxAdds \in Nat /\ MaxSlices \in Nat /\ P <= K
  BY RaceAssumption DEF RaceAssumption

(* One thread goes from one place to another, the others stay.             *)
LEMMA PcStep ==
  ASSUME Types, NEW t \in Threads, NEW from, NEW to \in AdderPlaces \union MoverPlaces,
         Goes(t, from, to), t \in Adders => to \in AdderPlaces, t = e => to \in MoverPlaces
  PROVE  /\ pc[t] = from /\ pc'[t] = to /\ \A u \in Threads : u # t => pc'[u] = pc[u]
         /\ pc' \in [Threads -> AdderPlaces \union MoverPlaces]
         /\ \A a \in Adders : pc'[a] \in AdderPlaces
         /\ pc'[e] \in MoverPlaces
<1>1. /\ pc[t] = from /\ pc'[t] = to /\ \A u \in Threads : u # t => pc'[u] = pc[u]
      /\ pc' \in [Threads -> AdderPlaces \union MoverPlaces]
  BY DEF Goes, Types
<1>2. \A a \in Adders : a \in Threads /\ (a # t \/ t \in Adders)
  BY DEF Threads
<1>3. e \in Threads
  BY DEF Threads, e
<1> QED BY <1>1, <1>2, <1>3 DEF Types

LEMMA Members ==
  /\ e \in Threads /\ e \notin Adders
  /\ \A a \in Adders : a \in Threads /\ a # e
  BY DEF Threads, Adders, e

LEMMA RegStep ==
  ASSUME Types, NEW t \in Threads, NEW v \in Int, Loads(t, v)
  PROVE  /\ reg'[t] = v /\ \A u \in Threads : u # t => reg'[u] = reg[u]
         /\ reg' \in [Threads -> Int]
  BY DEF Loads, Types

LEMMA StoreStep ==
  ASSUME Types, NEW s \in Int, NEW v \in 0 .. MaxAdds, Store(s, v)
  PROVE  /\ data' \in [Slots -> 0 .. MaxAdds]
         /\ \A x \in Slots : data'[x] = IF x = s THEN v ELSE data[x]
  BY DEF Store, Types

LEMMA LoadType ==
  ASSUME Types, NEW s \in Int
  PROVE  Load(s) \in Int
<1>1. CASE s \in Slots
  BY <1>1 DEF Load, Types
<1>2. CASE s \notin Slots
  <2>1. Outside \in Int
    BY DEF Outside
  <2> QED BY <1>2, <2>1 DEF Load
<1> QED BY <1>1, <1>2

LEMMA InitInv == Init => IInv
<1> SUFFICES ASSUME Init PROVE IInv
  OBVIOUS
<1>1. Types
  BY Assumed, Members
  DEF Init, Types, Held, AdderPlaces, MoverPlaces, Slots, Empty, Underway, Threads
<1>2. OverlapInv /\ FreshInv /\ OnceInv
  BY Assumed, Members DEF Init, OverlapInv, FreshInv, Fresh, OnceInv, Slots, Empty
<1>3. /\ Advances = 0 /\ Retreats = 0 /\ Overlapped = 0 /\ Counted = 0
  <2>1. \A a \in Adders : Pending(a) = 0 /\ Stored(a) = 0 /\ Begun(a) = 0
    BY Members DEF Init, Pending, Stored, Begun
  <2>2. Moving = 0
    BY Members DEF Init, Moving
  <2> QED
    BY <2>1, <2>2 DEF Init, Adders, Advances, Retreats, Overlapped, Counted
<1>4. DriftInv /\ CountInv
  BY <1>3, Assumed, Members DEF Init, DriftInv, CountInv, Near, CountNear
<1> QED BY <1>1, <1>2, <1>4 DEF IInv

-----------------------------------------------------------------------------
(* Types, and operations that overlap                                      *)

LEMMA BeginsStep ==
  ASSUME Types, OverlapInv, NEW t \in Threads, NEW to \in AdderPlaces \union MoverPlaces,
         to # "rest", Goes(t, "rest", to), Begins(t), pc'[t] = to,
         \A u \in Threads : u # t => pc'[u] = pc[u]
  PROVE  overlaps' \subseteq Underway' /\ OverlapInv'
<1>1. overlaps' = (overlaps \ {t}) \union (IF Underway = {} THEN {} ELSE Underway \union {t})
  BY DEF Begins
<1>2. Underway' = Underway \union {t} /\ pc[t] = "rest"
  BY DEF Underway, Goes
<1>3. overlaps' \subseteq Underway'
  BY <1>1, <1>2 DEF Types
<1>4. ASSUME NEW x \in Threads, NEW y \in Threads, x # y, pc'[x] # "rest", pc'[y] # "rest"
      PROVE  x \in overlaps'
  <2>1. x \in Underway' /\ y \in Underway'
    BY <1>4 DEF Underway
  <2>2. Underway # {}
    BY <1>2, <1>4, <2>1
  <2> QED BY <1>1, <1>2, <2>1, <2>2
<1> QED BY <1>3, <1>4 DEF OverlapInv

LEMMA EndsStep ==
  ASSUME Types, OverlapInv, NEW t \in Threads, pc'[t] = "rest",
         overlaps' = overlaps \ {t}, \A u \in Threads : u # t => pc'[u] = pc[u]
  PROVE  overlaps' \subseteq Underway' /\ OverlapInv'
<1>1. overlaps' \subseteq Underway'
  BY DEF Types, Underway
<1>2. OverlapInv'
  BY DEF OverlapInv
<1> QED BY <1>1, <1>2

LEMMA StaysStep ==
  ASSUME Types, OverlapInv, NEW t \in Threads, pc[t] # "rest", pc'[t] # "rest",
         overlaps' = overlaps, \A u \in Threads : u # t => pc'[u] = pc[u]
  PROVE  overlaps' \subseteq Underway' /\ OverlapInv'
<1>1. overlaps' \subseteq Underway'
  BY DEF Types, Underway
<1>2. OverlapInv'
  BY DEF OverlapInv
<1> QED BY <1>1, <1>2

LEMMA AddHeld ==
  ASSUME Types, NEW a \in Adders, i' = i, adds' \in Int, adds <= adds',
         \A u \in Threads : u # a => pc'[u] = pc[u] /\ reg'[u] = reg[u],
         pc'[a] = "counted" => reg'[a] \in Nat
  PROVE  Held'
<1>1. pc'[e] = pc[e] /\ reg'[e] = reg[e]
  BY Members
<1>2. pc'[e] = "shifted" => i' < K - P /\ reg'[e] \in 0 .. adds'
  BY <1>1 DEF Types, Held
<1>3. \A b \in Adders : pc'[b] = "counted" => reg'[b] \in Nat
  BY Members DEF Types, Held
<1> QED BY <1>2, <1>3 DEF Held, e

LEMMA AddTypes ==
  ASSUME Types, OverlapInv, NEW a \in Adders, Add(a)
  PROVE  Types' /\ OverlapInv'
<1> USE Members
<1>0. \A x \in AdderPlaces : x \in AdderPlaces \union MoverPlaces
  OBVIOUS
<1>1. CASE AddBegins(a)
  <2>1. Goes(a, "rest", "index") /\ Begins(a) /\ reg' = reg
        /\ UNCHANGED <<data, write_idx, counter, i, slices, overAdds, overSlices>>
    BY <1>1 DEF AddBegins, Types, historyVars, bufVars
  <2>2. /\ pc[a] = "rest" /\ pc'[a] = "index" /\ \A u \in Threads : u # a => pc'[u] = pc[u]
        /\ pc' \in [Threads -> AdderPlaces \union MoverPlaces]
        /\ \A b \in Adders : pc'[b] \in AdderPlaces
        /\ pc'[e] \in MoverPlaces
    <3>1. "index" \in AdderPlaces
      BY DEF AdderPlaces
    <3> QED BY <1>0, <2>1, <3>1, PcStep
  <2>3. overlaps' \subseteq Underway' /\ OverlapInv'
    <3>1. "index" \in AdderPlaces \union MoverPlaces
      BY DEF AdderPlaces
    <3> QED BY <2>1, <2>2, <3>1, BeginsStep
  <2>5. adds' \in 0 .. MaxAdds /\ element' \in [Adders -> 0 .. MaxAdds] /\ i' = i /\ adds <= adds'
    BY <1>1, Assumed DEF AddBegins, Types
  <2>6. Held'
    BY <2>1, <2>2, <2>5, AddHeld DEF Types
  <2> QED BY <2>1, <2>2, <2>3, <2>6, <2>5 DEF Types
<1>2. CASE LoadIndex(a)
  <2>1. Goes(a, "index", "store") /\ Loads(a, write_idx) /\ write_idx \in Int
        /\ UNCHANGED <<data, write_idx, counter, element, i, adds, slices,
                       overAdds, overSlices, overlaps>>
    BY <1>2 DEF LoadIndex, Types, historyVars, bufVars
  <2>2. /\ pc[a] = "index" /\ pc'[a] = "store" /\ \A u \in Threads : u # a => pc'[u] = pc[u]
        /\ pc' \in [Threads -> AdderPlaces \union MoverPlaces]
        /\ \A b \in Adders : pc'[b] \in AdderPlaces
        /\ pc'[e] \in MoverPlaces
    <3>1. "store" \in AdderPlaces
      BY DEF AdderPlaces
    <3> QED BY <1>0, <2>1, <3>1, PcStep
  <2>3. overlaps' \subseteq Underway' /\ OverlapInv'
    BY <2>1, <2>2, StaysStep
  <2>4. reg' \in [Threads -> Int] /\ \A u \in Threads : u # a => reg'[u] = reg[u]
    BY <2>1, RegStep
  <2>6. Held'
    BY <2>1, <2>2, <2>4, AddHeld DEF Types
  <2> QED BY <2>1, <2>2, <2>3, <2>6, <2>4 DEF Types
<1>3. CASE StoreElement(a)
  <2>1. Goes(a, "store", "advance") /\ Store(reg[a], element[a]) /\ reg[a] \in Int
        /\ element[a] \in 0 .. MaxAdds /\ reg' = reg
        /\ UNCHANGED <<write_idx, counter, element, i, adds, slices,
                       overAdds, overSlices, overlaps>>
    BY <1>3 DEF StoreElement, Types, historyVars, bufVars
  <2>2. /\ pc[a] = "store" /\ pc'[a] = "advance" /\ \A u \in Threads : u # a => pc'[u] = pc[u]
        /\ pc' \in [Threads -> AdderPlaces \union MoverPlaces]
        /\ \A b \in Adders : pc'[b] \in AdderPlaces
        /\ pc'[e] \in MoverPlaces
    <3>1. "advance" \in AdderPlaces
      BY DEF AdderPlaces
    <3> QED BY <1>0, <2>1, <3>1, PcStep
  <2>3. overlaps' \subseteq Underway' /\ OverlapInv'
    BY <2>1, <2>2, StaysStep
  <2>5. data' \in [Slots -> 0 .. MaxAdds]
    BY <2>1, StoreStep
  <2>6. Held'
    BY <2>1, <2>2, AddHeld DEF Types
  <2> QED BY <2>1, <2>2, <2>3, <2>6, <2>5 DEF Types
<1>4. CASE LoadToAdvance(a)
  <2>1. Goes(a, "advance", "advanced") /\ Loads(a, write_idx) /\ write_idx \in Int
        /\ UNCHANGED <<data, write_idx, counter, element, i, adds, slices,
                       overAdds, overSlices, overlaps>>
    BY <1>4 DEF LoadToAdvance, Types, historyVars, bufVars
  <2>2. /\ pc[a] = "advance" /\ pc'[a] = "advanced" /\ \A u \in Threads : u # a => pc'[u] = pc[u]
        /\ pc' \in [Threads -> AdderPlaces \union MoverPlaces]
        /\ \A b \in Adders : pc'[b] \in AdderPlaces
        /\ pc'[e] \in MoverPlaces
    <3>1. "advanced" \in AdderPlaces
      BY DEF AdderPlaces
    <3> QED BY <1>0, <2>1, <3>1, PcStep
  <2>3. overlaps' \subseteq Underway' /\ OverlapInv'
    BY <2>1, <2>2, StaysStep
  <2>4. reg' \in [Threads -> Int] /\ \A u \in Threads : u # a => reg'[u] = reg[u]
    BY <2>1, RegStep
  <2>6. Held'
    BY <2>1, <2>2, <2>4, AddHeld DEF Types
  <2> QED BY <2>1, <2>2, <2>3, <2>6, <2>4 DEF Types
<1>5. CASE Advance(a)
  <2>1. Goes(a, "advanced", "count") /\ write_idx' \in Int /\ reg' = reg
        /\ UNCHANGED <<data, counter, element, i, adds, slices,
                       overAdds, overSlices, overlaps>>
    BY <1>5 DEF Advance, Types, historyVars, bufVars
  <2>2. /\ pc[a] = "advanced" /\ pc'[a] = "count" /\ \A u \in Threads : u # a => pc'[u] = pc[u]
        /\ pc' \in [Threads -> AdderPlaces \union MoverPlaces]
        /\ \A b \in Adders : pc'[b] \in AdderPlaces
        /\ pc'[e] \in MoverPlaces
    <3>1. "count" \in AdderPlaces
      BY DEF AdderPlaces
    <3> QED BY <1>0, <2>1, <3>1, PcStep
  <2>3. overlaps' \subseteq Underway' /\ OverlapInv'
    BY <2>1, <2>2, StaysStep
  <2>6. Held'
    BY <2>1, <2>2, AddHeld DEF Types
  <2> QED BY <2>1, <2>2, <2>3, <2>6 DEF Types
<1>6. CASE LoadToCount(a)
  <2>1. Goes(a, "count", "counted") /\ Loads(a, counter) /\ counter \in Nat /\ counter \in Int
        /\ UNCHANGED <<data, write_idx, counter, element, i, adds, slices,
                       overAdds, overSlices, overlaps>>
    BY <1>6 DEF LoadToCount, Types, historyVars, bufVars
  <2>2. /\ pc[a] = "count" /\ pc'[a] = "counted" /\ \A u \in Threads : u # a => pc'[u] = pc[u]
        /\ pc' \in [Threads -> AdderPlaces \union MoverPlaces]
        /\ \A b \in Adders : pc'[b] \in AdderPlaces
        /\ pc'[e] \in MoverPlaces
    <3>1. "counted" \in AdderPlaces
      BY DEF AdderPlaces
    <3> QED BY <1>0, <2>1, <3>1, PcStep
  <2>3. overlaps' \subseteq Underway' /\ OverlapInv'
    BY <2>1, <2>2, StaysStep
  <2>4. reg' \in [Threads -> Int] /\ \A u \in Threads : u # a => reg'[u] = reg[u]
    BY <2>1, RegStep
  <2>6. Held'
    <3>1. reg'[a] \in Nat
      BY <2>1, RegStep
    <3> QED BY <2>1, <2>2, <2>4, <3>1, AddHeld DEF Types
  <2> QED BY <2>1, <2>2, <2>3, <2>6, <2>4 DEF Types
<1>7. CASE AddEnds(a)
  <2>1. Goes(a, "counted", "rest") /\ overlaps' = overlaps \ {a} /\ reg' = reg
        /\ UNCHANGED <<data, write_idx, element, i, adds, slices, overSlices>>
    BY <1>7 DEF AddEnds, Types, historyVars, bufVars
  <2>2. /\ pc[a] = "counted" /\ pc'[a] = "rest" /\ \A u \in Threads : u # a => pc'[u] = pc[u]
        /\ pc' \in [Threads -> AdderPlaces \union MoverPlaces]
        /\ \A b \in Adders : pc'[b] \in AdderPlaces
        /\ pc'[e] \in MoverPlaces
    <3>1. "rest" \in AdderPlaces
      BY DEF AdderPlaces
    <3> QED BY <1>0, <2>1, <3>1, PcStep
  <2>3. overlaps' \subseteq Underway' /\ OverlapInv'
    BY <2>1, <2>2, EndsStep
  <2>5. counter' \in Nat /\ overAdds' \in Nat
    BY <1>7, <2>2 DEF AddEnds, Types, Held, Over
  <2>6. Held'
    BY <2>1, <2>2, AddHeld DEF Types
  <2> QED BY <2>1, <2>2, <2>3, <2>6, <2>5 DEF Types
<1> QED BY <1>1, <1>2, <1>3, <1>4, <1>5, <1>6, <1>7 DEF Add

LEMMA SliceHeld ==
  ASSUME Types, UNCHANGED adds, \A a \in Adders : pc'[a] = pc[a] /\ reg'[a] = reg[a],
         pc'[e] = "shifted" => i' < K - P /\ reg'[e] \in 0 .. adds
  PROVE  Held'
<1>1. \A b \in Adders : pc'[b] = "counted" => reg'[b] \in Nat
  BY DEF Types, Held
<1> QED BY <1>1 DEF Held, e

LEMMA SliceTypes ==
  ASSUME Types, OverlapInv, \A s \in Slots : data[s] <= adds, Slice
  PROVE  Types' /\ OverlapInv'
<1> USE Members
<1>0. \A x \in MoverPlaces : x \in AdderPlaces \union MoverPlaces
  OBVIOUS
<1>1. CASE SliceBegins
  <2>1. Goes(e, "rest", "shift") /\ Begins(e) /\ reg' = reg /\ i' = 0
        /\ UNCHANGED <<data, write_idx, counter, element, adds, overAdds, overSlices>>
    BY <1>1 DEF SliceBegins, Types, historyVars, bufVars
  <2>2. /\ pc[e] = "rest" /\ pc'[e] = "shift" /\ \A u \in Threads : u # e => pc'[u] = pc[u]
        /\ pc' \in [Threads -> AdderPlaces \union MoverPlaces]
        /\ \A b \in Adders : pc'[b] \in AdderPlaces
        /\ pc'[e] \in MoverPlaces
    <3>1. "shift" \in MoverPlaces
      BY DEF MoverPlaces
    <3> QED BY <1>0, <2>1, <3>1, PcStep
  <2>3. overlaps' \subseteq Underway' /\ OverlapInv'
    <3>1. "shift" \in AdderPlaces \union MoverPlaces
      BY DEF MoverPlaces
    <3> QED BY <2>1, <2>2, <3>1, BeginsStep
  <2>5. i' \in 0 .. K /\ slices' \in Nat
    BY <1>1, Assumed DEF SliceBegins, Types
  <2>6. Held'
    BY <2>1, <2>2, SliceHeld
  <2> QED BY <2>1, <2>2, <2>3, <2>6, <2>5 DEF Types
<1>2. CASE LoadSlot
  <2>1. Goes(e, "shift", "shifted") /\ Loads(e, Load(i + P)) /\ i < K - P
        /\ UNCHANGED <<data, write_idx, counter, element, i, adds, slices,
                       overAdds, overSlices, overlaps>>
    BY <1>2 DEF LoadSlot, Types, historyVars, bufVars
  <2>2. /\ pc[e] = "shift" /\ pc'[e] = "shifted" /\ \A u \in Threads : u # e => pc'[u] = pc[u]
        /\ pc' \in [Threads -> AdderPlaces \union MoverPlaces]
        /\ \A b \in Adders : pc'[b] \in AdderPlaces
        /\ pc'[e] \in MoverPlaces
    <3>1. "shifted" \in MoverPlaces
      BY DEF MoverPlaces
    <3> QED BY <1>0, <2>1, <3>1, PcStep
  <2>3. overlaps' \subseteq Underway' /\ OverlapInv'
    BY <2>1, <2>2, StaysStep
  <2>4. /\ reg' \in [Threads -> Int] /\ \A u \in Threads : u # e => reg'[u] = reg[u]
        /\ reg'[e] \in 0 .. adds
    <3>1. i + P \in Int /\ i + P \in Slots
      BY <2>1, Assumed DEF Types, Slots
    <3>2. Load(i + P) \in Int /\ Load(i + P) = data[i + P]
      BY <3>1, LoadType DEF Load
    <3> QED BY <2>1, <3>1, <3>2, RegStep DEF Types
  <2>6. Held'
    BY <2>1, <2>2, <2>4, SliceHeld
  <2> QED BY <2>1, <2>2, <2>3, <2>6, <2>4 DEF Types
<1>3. CASE StoreSlot
  <2>1. Goes(e, "shifted", "shift") /\ Store(i, reg[e]) /\ i' = i + 1 /\ reg' = reg
        /\ UNCHANGED <<write_idx, counter, element, adds, slices,
                       overAdds, overSlices, overlaps>>
    BY <1>3 DEF StoreSlot, Types, historyVars, bufVars
  <2>2. /\ pc[e] = "shifted" /\ pc'[e] = "shift" /\ \A u \in Threads : u # e => pc'[u] = pc[u]
        /\ pc' \in [Threads -> AdderPlaces \union MoverPlaces]
        /\ \A b \in Adders : pc'[b] \in AdderPlaces
        /\ pc'[e] \in MoverPlaces
    <3>1. "shift" \in MoverPlaces
      BY DEF MoverPlaces
    <3> QED BY <1>0, <2>1, <3>1, PcStep
  <2>3. overlaps' \subseteq Underway' /\ OverlapInv'
    BY <2>1, <2>2, StaysStep
  <2>5. data' \in [Slots -> 0 .. MaxAdds] /\ i' \in 0 .. K
    BY <2>1, <2>2, StoreStep, Assumed DEF Types, Held
  <2>6. Held'
    BY <2>1, <2>2, SliceHeld
  <2> QED BY <2>1, <2>2, <2>3, <2>6, <2>5 DEF Types
<1>4. CASE ClearSlot
  <2>1. Goes(e, "shift", "shift") /\ Store(i, Empty) /\ i' = i + 1 /\ i < K /\ reg' = reg
        /\ UNCHANGED <<write_idx, counter, element, adds, slices,
                       overAdds, overSlices, overlaps>>
    BY <1>4 DEF ClearSlot, Types, historyVars, bufVars
  <2>2. /\ pc[e] = "shift" /\ pc'[e] = "shift" /\ \A u \in Threads : u # e => pc'[u] = pc[u]
        /\ pc' \in [Threads -> AdderPlaces \union MoverPlaces]
        /\ \A b \in Adders : pc'[b] \in AdderPlaces
        /\ pc'[e] \in MoverPlaces
    <3>1. "shift" \in MoverPlaces
      BY DEF MoverPlaces
    <3> QED BY <1>0, <2>1, <3>1, PcStep
  <2>3. overlaps' \subseteq Underway' /\ OverlapInv'
    BY <2>1, <2>2, StaysStep
  <2>5. data' \in [Slots -> 0 .. MaxAdds] /\ i' \in 0 .. K
    BY <2>1, StoreStep, Assumed DEF Types, Empty
  <2>6. Held'
    BY <2>1, <2>2, SliceHeld
  <2> QED BY <2>1, <2>2, <2>3, <2>6, <2>5 DEF Types
<1>5. CASE LoadToRetreat
  <2>1. Goes(e, "shift", "retreat") /\ Loads(e, write_idx) /\ write_idx \in Int
        /\ UNCHANGED <<data, write_idx, counter, element, i, adds, slices,
                       overAdds, overSlices, overlaps>>
    BY <1>5 DEF LoadToRetreat, Types, historyVars, bufVars
  <2>2. /\ pc[e] = "shift" /\ pc'[e] = "retreat" /\ \A u \in Threads : u # e => pc'[u] = pc[u]
        /\ pc' \in [Threads -> AdderPlaces \union MoverPlaces]
        /\ \A b \in Adders : pc'[b] \in AdderPlaces
        /\ pc'[e] \in MoverPlaces
    <3>1. "retreat" \in MoverPlaces
      BY DEF MoverPlaces
    <3> QED BY <1>0, <2>1, <3>1, PcStep
  <2>3. overlaps' \subseteq Underway' /\ OverlapInv'
    BY <2>1, <2>2, StaysStep
  <2>4. reg' \in [Threads -> Int] /\ \A u \in Threads : u # e => reg'[u] = reg[u]
    BY <2>1, RegStep
  <2>6. Held'
    BY <2>1, <2>2, <2>4, SliceHeld
  <2> QED BY <2>1, <2>2, <2>3, <2>6, <2>4 DEF Types
<1>6. CASE SliceEnds
  <2>1. Goes(e, "retreat", "rest") /\ overlaps' = overlaps \ {e} /\ reg' = reg
        /\ UNCHANGED <<data, counter, element, i, adds, slices, overAdds>>
    BY <1>6 DEF SliceEnds, Types, historyVars, bufVars
  <2>2. /\ pc[e] = "retreat" /\ pc'[e] = "rest" /\ \A u \in Threads : u # e => pc'[u] = pc[u]
        /\ pc' \in [Threads -> AdderPlaces \union MoverPlaces]
        /\ \A b \in Adders : pc'[b] \in AdderPlaces
        /\ pc'[e] \in MoverPlaces
    <3>1. "rest" \in MoverPlaces
      BY DEF MoverPlaces
    <3> QED BY <1>0, <2>1, <3>1, PcStep
  <2>3. overlaps' \subseteq Underway' /\ OverlapInv'
    BY <2>1, <2>2, EndsStep
  <2>5. write_idx' \in Int /\ overSlices' \in Nat
    BY <1>6, Assumed DEF SliceEnds, Types, Over
  <2>6. Held'
    BY <2>1, <2>2, SliceHeld
  <2> QED BY <2>1, <2>2, <2>3, <2>6, <2>5 DEF Types
<1> QED BY <1>1, <1>2, <1>3, <1>4, <1>5, <1>6 DEF Slice

-----------------------------------------------------------------------------
(* Drift                                                                   *)

(* Of the two threads that add, one takes the step.                        *)
LEMMA TwoAdders == /\ "messages" \in Adders /\ "stalls" \in Adders
                /\ \A a \in Adders : a = "messages" \/ a = "stalls"
  BY DEF Adders

LEMMA StepOfP == \A x \in Int : P * x \in Int /\ P * (x + 1) = P * x + P
  BY Assumed

LEMMA SumsType ==
  ASSUME Types
  PROVE  /\ {Advances, Retreats, Overlapped, Counted} \subseteq Int
         /\ \A a \in Adders : {Pending(a), Stored(a), Begun(a)} \subseteq {0, 1}
         /\ Moving \in {0, 1}
  BY DEF Types, Advances, Retreats, Overlapped, Counted, Pending, Stored, Begun, Moving

(* What is near before a step of an addition is near after it.             *)
LEMMA NearStays ==
  ASSUME Types, Types', NEW x \in Int, Near(x), UNCHANGED <<Retreats, overSlices>>,
         Advances' - Overlapped' <= Advances - Overlapped, Advances' >= Advances
  PROVE  Near(x)'
<1>1. /\ {Advances, Retreats, Overlapped, overSlices} \subseteq Int
      /\ {Advances', Overlapped'} \subseteq Int
  BY SumsType DEF Types, Advances, Overlapped, Pending, Stored
<1>2. P * Retreats \in Int /\ P * overSlices \in Int
  BY <1>1, StepOfP
<1> QED BY <1>1, <1>2 DEF Near

LEMMA NearAdvances ==
  ASSUME Types, Types', NEW x \in Int, NEW y \in Int, Near(x), y = x + 1,
         UNCHANGED <<Retreats, overSlices>>,
         Overlapped' >= Overlapped, Advances' = Advances + 1
  PROVE  Near(y)'
<1>1. /\ {Advances, Retreats, Overlapped, overSlices} \subseteq Int
      /\ {Advances', Overlapped'} \subseteq Int
  BY SumsType DEF Types, Advances, Overlapped, Pending, Stored
<1>2. P * Retreats \in Int /\ P * overSlices \in Int
  BY <1>1, StepOfP
<1> QED BY <1>1, <1>2 DEF Near

LEMMA AddOthers ==
  ASSUME Types, NEW a \in Adders, Add(a)
  PROVE  /\ \A u \in Threads : u # a => pc'[u] = pc[u] /\ reg'[u] = reg[u]
         /\ \A b \in Adders : b # a => element'[b] = element[b]
         /\ \A u \in overlaps : u # a => u \in overlaps'
         /\ UNCHANGED <<i, slices, overSlices>>
<1> USE Members DEF historyVars, bufVars, Goes, Loads, Types
<1>1. CASE AddBegins(a)
  BY <1>1 DEF AddBegins, Begins
<1>2. CASE LoadIndex(a)
  BY <1>2 DEF LoadIndex
<1>3. CASE StoreElement(a)
  BY <1>3 DEF StoreElement
<1>4. CASE LoadToAdvance(a)
  BY <1>4 DEF LoadToAdvance
<1>5. CASE Advance(a)
  BY <1>5 DEF Advance
<1>6. CASE LoadToCount(a)
  BY <1>6 DEF LoadToCount
<1>7. CASE AddEnds(a)
  BY <1>7 DEF AddEnds
<1> QED BY <1>1, <1>2, <1>3, <1>4, <1>5, <1>6, <1>7 DEF Add

(* How an addition's step changes the sums.                                *)
LEMMA AddSums ==
  ASSUME Types, Types', NEW a \in Adders, Add(a)
  PROVE  /\ Retreats' = Retreats /\ overSlices' = overSlices
         /\ {Advances', Overlapped', Counted'} \subseteq Int
         /\ Advances' - Advances = (adds' - adds) - (Pending(a)' - Pending(a))
         /\ Overlapped' - Overlapped >= (overAdds' - overAdds) + (Stored(a)' - Stored(a))
         /\ Counted' - Counted = (adds' - adds) - (Begun(a)' - Begun(a))
<1>1. PICK b \in Adders : /\ b # a
                          /\ Advances = adds - Pending(a) - Pending(b)
                          /\ Overlapped = overAdds + Stored(a) + Stored(b)
                          /\ Counted = adds - Begun(a) - Begun(b)
                          /\ Advances' = adds' - Pending(a)' - Pending(b)'
                          /\ Overlapped' = overAdds' + Stored(a)' + Stored(b)'
                          /\ Counted' = adds' - Begun(a)' - Begun(b)'
  <2> USE SumsType DEF Advances, Overlapped, Counted
  <2>0. /\ \A c \in Adders : /\ {Pending(c), Stored(c), Begun(c)} \subseteq Int
                             /\ {Pending(c)', Stored(c)', Begun(c)'} \subseteq Int
        /\ {adds, adds', overAdds, overAdds'} \subseteq Int
    BY DEF Types, Pending, Stored, Begun
  <2>1. CASE a = "messages"
    BY <2>0, <2>1, TwoAdders
  <2>2. CASE a = "stalls"
    BY <2>0, <2>2, TwoAdders
  <2> QED BY <2>1, <2>2, TwoAdders
<1>2. /\ pc'[b] = pc[b] /\ pc'[e] = pc[e] /\ (b \in overlaps => b \in overlaps')
      /\ slices' = slices /\ overSlices' = overSlices
  BY <1>1, AddOthers, Members
<1>3. /\ Pending(b)' = Pending(b) /\ Stored(b)' >= Stored(b) /\ Begun(b)' = Begun(b)
      /\ Retreats' = Retreats
  BY <1>2 DEF Pending, Stored, Begun, Retreats, Moving
<1>4. /\ \A c \in {a, b} : /\ {Pending(c), Stored(c), Begun(c)} \subseteq Int
                           /\ {Pending(c)', Stored(c)', Begun(c)'} \subseteq Int
      /\ {adds, adds', overAdds, overAdds'} \subseteq Int
  BY DEF Types, Pending, Stored, Begun
<1> HIDE DEF Advances, Overlapped, Counted
<1> QED BY <1>1, <1>2, <1>3, <1>4

(* The copies of the index that others hold stay near.                     *)
LEMMA DriftOfOthers ==
  ASSUME Types, DriftInv, NEW t \in Threads,
         \A u \in Threads : u # t => pc'[u] = pc[u] /\ reg'[u] = reg[u],
         \A x \in Int : Near(x) => Near(x)',
         Near(write_idx)',
         t \in Adders /\ pc'[t] = "advanced" => Near(reg[t])',
         t = e /\ pc'[e] = "retreat" => Near(reg[e])'
  PROVE  DriftInv'
<1>0. \A u \in Threads : reg[u] \in Int
  BY DEF Types
<1>1. ASSUME NEW u \in Threads, u # t, Near(reg[u])
      PROVE  Near(reg[u])'
  <2>1. PICK x \in Int : x = reg[u]
    BY <1>0
  <2>2. Near(x)
    BY <1>1, <2>1
  <2>3. Near(x)'
    BY <2>2
  <2> QED BY <1>1, <2>1, <2>3 DEF Near
<1>2. \A b \in Adders : pc'[b] = "advanced" => Near(reg[b])'
  BY <1>1, Members DEF DriftInv
<1>3. pc'[e] = "retreat" => Near(reg[e])'
  BY <1>1, Members DEF DriftInv
<1> QED BY <1>2, <1>3 DEF DriftInv, e

LEMMA AddDrift ==
  ASSUME Types, Types', OverlapInv, DriftInv, NEW a \in Adders, Add(a)
  PROVE  DriftInv'
<1> USE Members DEF historyVars, bufVars
<1>0. /\ {Advances, Overlapped, Advances', Overlapped', adds, adds', overAdds,
       overAdds'} \subseteq Int
      /\ {Pending(a), Pending(a)', Stored(a), Stored(a)'} \subseteq Int
  BY SumsType, AddSums DEF Types, Pending, Stored
<1>i. write_idx \in Int /\ \A u \in Threads : reg[u] \in Int
  BY DEF Types
<1>a. Near(write_idx)
  BY DEF DriftInv
<1>1. ASSUME UNCHANGED write_idx, Pending(a)' - Pending(a) = adds' - adds,
             (overAdds' - overAdds) + (Stored(a)' - Stored(a)) >= 0,
             pc'[a] = "advanced" => reg'[a] = write_idx
      PROVE  DriftInv'
  <2>1. Advances' - Overlapped' <= Advances - Overlapped /\ Advances' >= Advances
    BY <1>0, <1>1, AddSums
  <2>2. \A x \in Int : Near(x) => Near(x)'
    BY <2>1, AddSums, NearStays
  <2>3. PICK x \in Int : x = write_idx
    BY <1>i
  <2>4. Near(x)'
    BY <1>a, <2>2, <2>3
  <2>5. Near(write_idx)' /\ (pc'[a] = "advanced" => Near(reg[a])')
    BY <1>1, <2>3, <2>4 DEF Near
  <2> QED BY <2>2, <2>5, AddOthers, DriftOfOthers
<1>2. CASE AddBegins(a)
  <2>1. Goes(a, "rest", "index") /\ UNCHANGED <<write_idx, overAdds>> /\ adds' = adds + 1
    BY <1>2 DEF AddBegins
  <2>2. /\ Pending(a) = 0 /\ Pending(a)' = 1 /\ Stored(a) = 0 /\ Stored(a)' = 0
        /\ pc'[a] = "index"
    BY <2>1 DEF Goes, Pending, Stored, Types
  <2> QED BY <1>0, <1>1, <2>1, <2>2
<1>3. CASE LoadIndex(a) \/ StoreElement(a) \/ LoadToAdvance(a) \/ LoadToCount(a)
  <2>1. /\ UNCHANGED <<write_idx, overAdds, adds, overlaps>> /\ a \in Threads
        /\ \/ pc[a] = "index" /\ pc'[a] = "store"
           \/ pc[a] = "store" /\ pc'[a] = "advance"
           \/ pc[a] = "advance" /\ pc'[a] = "advanced" /\ reg'[a] = write_idx
           \/ pc[a] = "count" /\ pc'[a] = "counted"
    BY <1>3 DEF LoadIndex, StoreElement, LoadToAdvance, LoadToCount, Goes, Loads, Types
  <2>2. Pending(a)' = Pending(a) /\ Stored(a)' = Stored(a)
    BY <2>1 DEF Pending, Stored
  <2> QED BY <1>0, <1>1, <2>1, <2>2
<1>4. CASE AddEnds(a)
  <2>1. /\ UNCHANGED <<write_idx, adds>> /\ overAdds' = overAdds + Over(a)
        /\ pc[a] = "counted" /\ pc'[a] = "rest"
    BY <1>4 DEF AddEnds, Goes, Types
  <2>2. Pending(a)' = Pending(a) /\ Stored(a)' = 0 /\ Stored(a) = Over(a)
    BY <2>1 DEF Pending, Stored, Over
  <2> QED BY <1>0, <1>1, <2>1, <2>2
<1>5. CASE Advance(a)
  <2>1. /\ UNCHANGED <<adds, overAdds, overlaps>> /\ write_idx' = reg[a] + 1
        /\ pc[a] = "advanced" /\ pc'[a] = "count"
    BY <1>5 DEF Advance, Goes, Types
  <2>2. /\ Pending(a) = 1 /\ Pending(a)' = 0 /\ Stored(a) = 0
        /\ Stored(a)' = IF a \in overlaps THEN 1 ELSE 0
    BY <2>1 DEF Pending, Stored
  <2>3. Advances' = Advances + 1 /\ Overlapped' >= Overlapped
    BY <1>0, <2>1, <2>2, AddSums
  <2>4. Near(write_idx)'
    <3>1. PICK x \in Int, y \in Int : x = reg[a] /\ y = x + 1
      BY <1>i
    <3>2. Near(x)
      BY <2>1, <3>1 DEF DriftInv
    <3>3. Near(y)'
      BY <2>3, <3>1, <3>2, AddSums, NearAdvances
    <3> QED BY <2>1, <3>1, <3>3 DEF Near
  <2>5. CASE a \in overlaps
    <3>1. Advances' - Overlapped' <= Advances - Overlapped /\ Advances' >= Advances
      BY <1>0, <2>1, <2>2, <2>3, <2>5, AddSums
    <3>2. \A x \in Int : Near(x) => Near(x)'
      BY <3>1, AddSums, NearStays
    <3> QED BY <2>1, <2>4, <3>2, AddOthers, DriftOfOthers
  <2>6. CASE a \notin overlaps
    <3>1. \A u \in Threads : u # a => pc[u] = "rest" /\ pc'[u] = "rest"
      BY <2>1, <2>6, AddOthers DEF OverlapInv
    <3> QED BY <2>1, <2>4, <3>1 DEF DriftInv, e
  <2> QED BY <2>5, <2>6
<1> QED BY <1>2, <1>3, <1>4, <1>5 DEF Add

LEMMA SliceOthers ==
  ASSUME Types, Slice
  PROVE  /\ \A u \in Threads : u # e => pc'[u] = pc[u] /\ reg'[u] = reg[u]
         /\ \A u \in overlaps : u # e => u \in overlaps'
         /\ UNCHANGED <<adds, element, overAdds, counter>>
<1> USE Members DEF historyVars, bufVars, Goes, Loads, Types
<1>1. CASE SliceBegins
  BY <1>1 DEF SliceBegins, Begins
<1>2. CASE LoadSlot
  BY <1>2 DEF LoadSlot
<1>3. CASE StoreSlot
  BY <1>3 DEF StoreSlot
<1>4. CASE ClearSlot
  BY <1>4 DEF ClearSlot
<1>5. CASE LoadToRetreat
  BY <1>5 DEF LoadToRetreat
<1>6. CASE SliceEnds
  BY <1>6 DEF SliceEnds
<1> QED BY <1>1, <1>2, <1>3, <1>4, <1>5, <1>6 DEF Slice

LEMMA SliceSums ==
  ASSUME Types, Types', Slice
  PROVE  /\ Advances' = Advances /\ Counted' = Counted /\ Overlapped' >= Overlapped
         /\ {Advances, Overlapped, Overlapped', Counted} \subseteq Int
<1>1. \A a \in Adders : /\ Pending(a)' = Pending(a) /\ Begun(a)' = Begun(a)
                        /\ Stored(a)' >= Stored(a)
                        /\ {Stored(a), Stored(a)'} \subseteq Int
  BY SliceOthers, Members DEF Pending, Begun, Stored
<1>2. Advances' = Advances /\ Counted' = Counted
  BY <1>1, SliceOthers, TwoAdders DEF Advances, Counted
<1>3. /\ Overlapped = overAdds + Stored("messages") + Stored("stalls")
      /\ Overlapped' = overAdds + Stored("messages")' + Stored("stalls")'
      /\ overAdds \in Int
  BY SliceOthers DEF Overlapped, Types
<1>4. Overlapped' >= Overlapped /\ Overlapped' \in Int
  BY <1>1, <1>3, TwoAdders
<1> QED BY <1>2, <1>4, SumsType

LEMMA SliceDrift ==
  ASSUME Types, Types', OverlapInv, DriftInv, Slice
  PROVE  DriftInv'
<1> USE Members DEF historyVars, bufVars
<1>i. write_idx \in Int /\ \A u \in Threads : reg[u] \in Int
  BY DEF Types
<1>a. Near(write_idx)
  BY DEF DriftInv
<1>1. ASSUME UNCHANGED <<write_idx, overSlices>>, Retreats' = Retreats,
             pc'[e] = "retreat" => reg'[e] = write_idx
      PROVE  DriftInv'
  <2>1. Advances' - Overlapped' <= Advances - Overlapped /\ Advances' >= Advances
    BY SliceSums
  <2>2. \A x \in Int : Near(x) => Near(x)'
    BY <1>1, <2>1, NearStays
  <2>3. PICK x \in Int : x = write_idx
    BY <1>i
  <2>4. Near(x)'
    BY <1>a, <2>2, <2>3
  <2>5. Near(write_idx)' /\ (pc'[e] = "retreat" => Near(reg[e])')
    BY <1>1, <2>3, <2>4 DEF Near
  <2> QED BY <2>2, <2>5, SliceOthers, DriftOfOthers
<1>2. CASE SliceBegins
  <2>1. /\ UNCHANGED <<write_idx, overSlices>> /\ slices' = slices + 1
        /\ pc[e] = "rest" /\ pc'[e] = "shift" /\ slices \in Int
    BY <1>2 DEF SliceBegins, Goes, Types
  <2>2. Retreats' = Retreats
    BY <2>1 DEF Retreats, Moving
  <2> QED BY <1>1, <2>1, <2>2
<1>3. CASE LoadSlot \/ StoreSlot \/ ClearSlot \/ LoadToRetreat
  <2>1. /\ UNCHANGED <<write_idx, overSlices, slices>>
        /\ pc[e] # "rest" /\ pc'[e] # "rest" /\ (pc'[e] = "retreat" => reg'[e] = write_idx)
    BY <1>3 DEF LoadSlot, StoreSlot, ClearSlot, LoadToRetreat, Goes, Loads, Types
  <2>2. Retreats' = Retreats
    BY <2>1 DEF Retreats, Moving
  <2> QED BY <1>1, <2>1, <2>2
<1>4. CASE SliceEnds
  <2>1. /\ UNCHANGED slices /\ write_idx' = reg[e] - P
        /\ pc[e] = "retreat" /\ pc'[e] = "rest" /\ overSlices' = overSlices + Over(e)
    BY <1>4 DEF SliceEnds, Goes, Types
  <2>2. Retreats' = Retreats + 1 /\ Retreats \in Int
    BY <2>1 DEF Retreats, Moving, Types
  <2>3. /\ Advances' = Advances /\ Overlapped' >= Overlapped
        /\ {Advances, Overlapped, Overlapped', overSlices, overSlices'} \subseteq Int
    BY SliceSums DEF Types
  <2>4. /\ P \in Nat /\ {P * Retreats, P * Retreats', P * overSlices, P * overSlices'} \subseteq Int
        /\ P * Retreats' = P * Retreats + P
        /\ P * overSlices' = IF e \in overlaps THEN P * overSlices + P ELSE P * overSlices
    <3>1. overSlices' = IF e \in overlaps THEN overSlices + 1 ELSE overSlices
      BY <2>1, <2>3 DEF Over
    <3>2. P * Retreats' = P * (Retreats + 1)
          /\ P * overSlices' = P * (IF e \in overlaps THEN overSlices + 1 ELSE overSlices)
      BY <2>2, <3>1
    <3>3. P * Retreats' = P * Retreats + P /\ P * Retreats \in Int
      BY <2>2, <3>2, StepOfP
    <3>4. P * overSlices \in Int
          /\ P * overSlices' = IF e \in overlaps THEN P * overSlices + P ELSE P * overSlices
      BY <2>3, <3>2, StepOfP
    <3> QED BY <3>3, <3>4, Assumed
  <2>5. Near(write_idx)'
    <3>1. PICK x \in Int : x = reg[e] /\ Near(x)
      BY <1>i, <2>1 DEF DriftInv
    <3>2. /\ Advances - P * Retreats - Overlapped <= x
          /\ x <= Advances - P * Retreats + P * overSlices
      BY <3>1 DEF Near
    <3>3. /\ Advances' - P * Retreats' - Overlapped' <= x - P
          /\ x - P <= Advances' - P * Retreats' + P * overSlices'
      BY <2>3, <2>4, <3>2
    <3> QED BY <2>1, <3>1, <3>3 DEF Near
  <2>6. CASE e \in overlaps
    <3>1. ASSUME NEW x \in Int, Near(x)
          PROVE  Near(x)'
      <4>1. /\ Advances - P * Retreats - Overlapped <= x
            /\ x <= Advances - P * Retreats + P * overSlices
        BY <3>1 DEF Near
      <4>2. /\ Advances' - P * Retreats' - Overlapped' <= x
            /\ x <= Advances' - P * Retreats' + P * overSlices'
        BY <2>3, <2>4, <2>6, <4>1
      <4> QED BY <4>2 DEF Near
    <3> QED BY <2>1, <2>5, <3>1, SliceOthers, DriftOfOthers
  <2>7. CASE e \notin overlaps
    <3>1. \A u \in Threads : u # e => pc[u] = "rest" /\ pc'[u] = "rest"
      BY <2>1, <2>7, SliceOthers DEF OverlapInv
    <3> QED BY <2>1, <2>5, <3>1 DEF DriftInv, e
  <2> QED BY <2>6, <2>7
<1> QED BY <1>2, <1>3, <1>4 DEF Slice

LEMMA AddCount ==
  ASSUME Types, Types', OverlapInv, CountInv, NEW a \in Adders, Add(a)
  PROVE  CountInv'
<1> USE Members DEF historyVars, bufVars
<1>0. /\ {Counted, Counted', adds, adds', overAdds, overAdds', counter} \subseteq Int
      /\ {Begun(a), Begun(a)'} \subseteq Int /\ \A u \in Threads : reg[u] \in Int
  BY SumsType, AddSums DEF Types, Begun
<1>1. ASSUME UNCHANGED <<counter, overAdds>>, Begun(a)' - Begun(a) = adds' - adds,
             pc'[a] = "counted" => reg'[a] = counter
      PROVE  CountInv'
  <2>1. Counted' = Counted
    BY <1>0, <1>1, AddSums
  <2> QED BY <1>1, <2>1, AddOthers DEF CountInv, CountNear
<1>2. CASE AddBegins(a)
  <2>1. /\ pc[a] = "rest" /\ pc'[a] = "index" /\ UNCHANGED <<counter, overAdds>>
        /\ adds' = adds + 1
    BY <1>2 DEF AddBegins, Goes, Types
  <2>2. Begun(a) = 0 /\ Begun(a)' = 1
    BY <2>1 DEF Begun
  <2> QED BY <1>0, <1>1, <2>1, <2>2
<1>3. CASE LoadIndex(a) \/ StoreElement(a) \/ LoadToAdvance(a) \/ Advance(a) \/ LoadToCount(a)
  <2>1. /\ pc[a] # "rest" /\ pc'[a] # "rest" /\ UNCHANGED <<counter, overAdds, adds>>
        /\ pc'[a] = "counted" => reg'[a] = counter
    BY <1>3
    DEF LoadIndex, StoreElement, LoadToAdvance, Advance, LoadToCount, Goes, Loads, Types
  <2>2. Begun(a) = 1 /\ Begun(a)' = 1
    BY <2>1 DEF Begun
  <2> QED BY <1>0, <1>1, <2>1, <2>2
<1>4. CASE AddEnds(a)
  <2>1. /\ pc[a] = "counted" /\ pc'[a] = "rest" /\ UNCHANGED adds
        /\ counter' = reg[a] + 1 /\ overAdds' = overAdds + Over(a)
    BY <1>4 DEF AddEnds, Goes, Types
  <2>2. Begun(a) = 1 /\ Begun(a)' = 0
    BY <2>1 DEF Begun
  <2>3. Counted' = Counted + 1
    BY <1>0, <2>1, <2>2, AddSums
  <2>4. Over(a) \in {0, 1}
    BY DEF Over
  <2>5. CountNear(counter)'
    BY <1>0, <2>1, <2>3, <2>4 DEF CountInv, CountNear
  <2>6. ASSUME NEW b \in Adders, pc'[b] = "counted"
        PROVE  CountNear(reg[b])'
    <3>1. b # a /\ pc[b] = "counted" /\ reg'[b] = reg[b]
      BY <2>1, <2>6, AddOthers
    <3>2. Over(a) = 1
      BY <2>1, <3>1 DEF OverlapInv, Over
    <3>3. CountNear(reg[b])
      BY <3>1 DEF CountInv
    <3> QED BY <1>0, <2>1, <2>3, <3>1, <3>2, <3>3 DEF CountNear
  <2> QED BY <2>5, <2>6 DEF CountInv
<1> QED BY <1>2, <1>3, <1>4 DEF Add

LEMMA SliceCount ==
  ASSUME Types, Types', CountInv, Slice
  PROVE  CountInv'
<1>1. /\ Counted' = Counted /\ UNCHANGED <<overAdds, counter>>
      /\ \A a \in Adders : pc'[a] = pc[a] /\ reg'[a] = reg[a]
  BY SliceSums, SliceOthers, Members
<1> QED BY <1>1 DEF CountInv, CountNear

-----------------------------------------------------------------------------
(* Elements                                                                *)

LEMMA DataType ==
  ASSUME Types
  PROVE  /\ \A s \in Slots : s \in Int /\ data[s] \in Int
         /\ \A a \in Adders : element[a] \in Int
         /\ adds \in Nat /\ P \in Nat /\ i \in Int
         /\ pc[e] = "shifted" => reg[e] \in Int /\ reg[e] <= adds /\ i < K - P
  BY Assumed DEF Types, Held, Slots

LEMMA AddElems ==
  ASSUME Types, Types', FreshInv, OnceInv, NEW a \in Adders, Add(a)
  PROVE  FreshInv' /\ OnceInv'
<1> USE Members, DataType DEF historyVars, bufVars
<1>0. /\ pc'[e] = pc[e] /\ reg'[e] = reg[e] /\ UNCHANGED i
      /\ \A b \in Adders : b # a => pc'[b] = pc[b] /\ element'[b] = element[b]
  BY AddOthers
<1>1. CASE AddBegins(a)
  <2>1. /\ UNCHANGED data /\ adds' = adds + 1 /\ element'[a] = adds + 1
        /\ pc[a] = "rest" /\ pc'[a] = "index"
    BY <1>1 DEF AddBegins, Goes, Types
  <2>2. FreshInv'
    <3>1. \A s \in Slots : data'[s] <= adds /\ data'[s] <= adds'
      BY <2>1 DEF FreshInv
    <3>2. \A b \in Adders : element'[b] <= adds' /\ (b # a => element'[b] <= adds)
      BY <1>0, <2>1 DEF FreshInv
    <3>3. ASSUME NEW b \in Adders, Fresh(b)'
          PROVE  /\ element'[b] # Empty /\ \A s \in Slots : data'[s] # element'[b]
                 /\ pc'[e] = "shifted" => reg'[e] # element'[b]
                 /\ \A c \in Adders : Fresh(c)' /\ element'[c] = element'[b] => c = b
      <4>1. CASE b = a
        BY <1>0, <2>1, <3>1, <3>2, <4>1 DEF Empty
      <4>2. CASE b # a
        <5>1. Fresh(b)
          BY <1>0, <3>3, <4>2 DEF Fresh
        <5>2. \A c \in Adders : c # a /\ Fresh(c)' => Fresh(c) /\ element'[c] = element[c]
          BY <1>0 DEF Fresh
        <5>3. element'[a] # element'[b]
          BY <2>1, <3>2, <4>2
        <5> QED BY <1>0, <2>1, <4>2, <5>1, <5>2, <5>3 DEF FreshInv
      <4> QED BY <4>1, <4>2
    <3> QED BY <3>1, <3>2, <3>3 DEF FreshInv
  <2>3. OnceInv'
    BY <1>0, <2>1 DEF OnceInv, Moved
  <2> QED BY <2>2, <2>3
<1>2. CASE StoreElement(a)
  <2>1. /\ UNCHANGED <<adds, element>> /\ Store(reg[a], element[a])
        /\ pc[a] = "store" /\ pc'[a] = "advance"
    BY <1>2 DEF StoreElement, Goes, Types
  <2>2. \A x \in Slots : data'[x] = IF x = reg[a] THEN element[a] ELSE data[x]
    BY <2>1 DEF Store
  <2>3. /\ element[a] # Empty /\ \A s \in Slots : data[s] # element[a]
        /\ pc[e] = "shifted" => reg[e] # element[a]
        /\ \A b \in Adders : Fresh(b) /\ element[b] = element[a] => b = a
    BY <2>1 DEF FreshInv, Fresh
  <2>4. \A b \in Adders : Fresh(b)' => b # a /\ Fresh(b)
    BY <1>0, <2>1 DEF Fresh
  <2>5. FreshInv'
    <3>1. \A s \in Slots : data'[s] <= adds'
      BY <2>1, <2>2 DEF FreshInv
    <3>2. \A b \in Adders : Fresh(b)' => \A s \in Slots : data'[s] # element'[b]
      BY <2>1, <2>2, <2>3, <2>4 DEF FreshInv
    <3> QED BY <1>0, <2>1, <2>4, <3>1, <3>2 DEF FreshInv
  <2>6. OnceInv'
    <3>1. pc[e] = "shifted" => \A s \in Slots : reg[e] # Empty /\ data'[s] = reg[e] => s = i + P
      BY <2>2, <2>3 DEF OnceInv
    <3>2. \A s, u \in Slots : data'[s] # Empty /\ data'[s] = data'[u] /\ s < u =>
            data[s] # Empty /\ data[s] = data[u]
      BY <2>2, <2>3
    <3> QED BY <1>0, <3>1, <3>2 DEF OnceInv, Moved
  <2> QED BY <2>5, <2>6
<1>3. CASE LoadIndex(a) \/ LoadToAdvance(a) \/ Advance(a) \/ LoadToCount(a) \/ AddEnds(a)
  <2>1. /\ UNCHANGED <<data, adds, element>>
        /\ \/ pc[a] = "index"
           \/ pc'[a] \notin {"index", "store"}
    BY <1>3 DEF LoadIndex, LoadToAdvance, Advance, LoadToCount, AddEnds, Goes, Types
  <2>2. \A b \in Adders : Fresh(b)' => Fresh(b)
    BY <1>0, <2>1 DEF Fresh
  <2>3. FreshInv'
    BY <1>0, <2>1, <2>2 DEF FreshInv
  <2>4. OnceInv'
    BY <1>0, <2>1 DEF OnceInv, Moved
  <2> QED BY <2>3, <2>4
<1> QED BY <1>1, <1>2, <1>3 DEF Add

LEMMA SliceElems ==
  ASSUME Types, Types', FreshInv, OnceInv, Slice
  PROVE  FreshInv' /\ OnceInv'
<1> USE Members, DataType DEF historyVars, bufVars
<1>0. /\ UNCHANGED <<adds, element>>
      /\ \A b \in Adders : pc'[b] = pc[b]
  BY SliceOthers
<1>f. \A b \in Adders : Fresh(b)' <=> Fresh(b)
  BY <1>0 DEF Fresh
<1>1. CASE SliceBegins \/ LoadToRetreat \/ SliceEnds
  <2>1. /\ UNCHANGED data /\ pc'[e] # "shifted"
        /\ pc[e] \in {"rest", "retreat"} \/ i = K
    BY <1>1 DEF SliceBegins, LoadToRetreat, SliceEnds, Goes, Types
  <2>2. FreshInv'
    BY <1>0, <1>f, <2>1 DEF FreshInv
  <2>3. \A s, u \in Slots : data[s] # Empty /\ data[s] = data[u] => ~(s < u)
    BY <2>1 DEF OnceInv, Moved, Slots
  <2> QED BY <2>1, <2>2, <2>3 DEF OnceInv
<1>2. CASE LoadSlot
  <2>1. /\ UNCHANGED <<data, i>> /\ i < K - P /\ pc[e] = "shift" /\ pc'[e] = "shifted"
        /\ reg'[e] = Load(i + P)
    BY <1>2 DEF LoadSlot, Goes, Loads, Types
  <2>2. i + P \in Slots /\ reg'[e] = data[i + P]
    BY <2>1, Assumed DEF Types, Slots, Load
  <2>3. FreshInv'
    BY <1>0, <1>f, <2>1, <2>2 DEF FreshInv
  <2>4. ASSUME NEW s \in Slots, data[i + P] # Empty, data[s] = data[i + P]
        PROVE  s = i + P
    <3>1. CASE s < i + P
      BY <2>2, <2>4, <3>1 DEF OnceInv
    <3>2. CASE i + P < s
      BY <2>2, <2>4, <3>2 DEF OnceInv
    <3> QED BY <2>2, <3>1, <3>2
  <2>5. OnceInv'
    BY <2>1, <2>2, <2>4 DEF OnceInv, Moved
  <2> QED BY <2>3, <2>5
<1>3. CASE StoreSlot
  <2>1. /\ pc[e] = "shifted" /\ pc'[e] = "shift" /\ i' = i + 1 /\ Store(i, reg[e])
    BY <1>3 DEF StoreSlot, Goes, Types
  <2>2. \A x \in Slots : data'[x] = IF x = i THEN reg[e] ELSE data[x]
    BY <2>1 DEF Store
  <2>3. FreshInv'
    BY <1>0, <1>f, <2>1, <2>2 DEF FreshInv
  <2>4. ASSUME NEW s \in Slots, NEW u \in Slots,
               data'[s] # Empty, data'[s] = data'[u], s < u
        PROVE  u = s + P /\ s < i + 1 /\ i + 1 <= u
    <3>1. CASE s = i
      BY <2>1, <2>2, <2>4, <3>1 DEF OnceInv
    <3>2. CASE u = i
      BY <2>1, <2>2, <2>4, <3>2 DEF OnceInv
    <3>3. CASE s # i /\ u # i
      BY <2>2, <2>4, <3>3 DEF OnceInv
    <3> QED BY <3>1, <3>2, <3>3
  <2>5. OnceInv'
    BY <2>1, <2>4 DEF OnceInv, Moved
  <2> QED BY <2>3, <2>5
<1>4. CASE ClearSlot
  <2>1. /\ pc[e] = "shift" /\ pc'[e] = "shift" /\ i' = i + 1 /\ Store(i, Empty)
    BY <1>4 DEF ClearSlot, Goes, Types
  <2>2. \A x \in Slots : data'[x] = IF x = i THEN Empty ELSE data[x]
    BY <2>1 DEF Store
  <2>3. FreshInv'
    <3>1. Empty <= adds
      BY DEF Empty
    <3> QED BY <1>0, <1>f, <2>1, <2>2, <3>1 DEF FreshInv
  <2>4. ASSUME NEW s \in Slots, NEW u \in Slots,
               data'[s] # Empty, data'[s] = data'[u], s < u
        PROVE  u = s + P /\ s < i + 1 /\ i + 1 <= u
    <3>1. s # i /\ u # i /\ data'[s] = data[s] /\ data'[u] = data[u]
      BY <2>2, <2>4
    <3>2. data[s] # Empty /\ data[s] = data[u]
      BY <2>4, <3>1
    <3>3. u = s + P /\ s < i /\ i <= u
      BY <2>4, <3>2 DEF OnceInv
    <3> QED BY <3>1, <3>3
  <2>5. OnceInv'
    BY <2>1, <2>4 DEF OnceInv, Moved
  <2> QED BY <2>3, <2>5
<1> QED BY <1>1, <1>2, <1>3, <1>4 DEF Slice

-----------------------------------------------------------------------------
(* Operations that meet no other                                           *)

Alone == overAdds + overSlices = 0 /\ overlaps = {}

WindowInv ==
  /\ window \in Seq(0 .. MaxAdds) /\ debt \in Nat /\ (debt > 0 => window = <<>>)
  /\ \A j \in 1 .. Len(window) : j > K => window[j] = Empty

Shows(s) == IF s < Len(window) THEN window[s + 1] ELSE Empty
Ahead == Len(window) - debt

AfterStore == {"advance", "advanced", "count", "counted"}
AfterAdvance == {"count", "counted"}

(* How far an addition or a move has taken the window apart.               *)
Between ==
  /\ \A a \in Adders : pc[a] \in AfterStore =>
       \A s \in Slots : data[s] = IF s = Ahead THEN element[a] ELSE Shows(s)
  /\ pc[e] # "rest" =>
       \A s \in Slots : data[s] = IF s >= i THEN Shows(s)
                                  ELSE IF s < K - P THEN Shows(s + P) ELSE Empty
  /\ (\A a \in Adders : pc[a] \notin AfterStore) /\ pc[e] = "rest" =>
       \A s \in Slots : data[s] = Shows(s)
  /\ \A a \in Adders : pc[a] \in AfterAdvance => write_idx = Ahead + 1
  /\ (\A a \in Adders : pc[a] \notin AfterAdvance) => write_idx = Ahead
  /\ \A a \in Adders : pc[a] \in {"store", "advanced"} => reg[a] = Ahead
  /\ pc[e] = "shifted" => reg[e] = Shows(i + P)
  /\ pc[e] = "retreat" => i = K /\ reg[e] = Ahead

AloneInv == WindowInv /\ (Alone => Between)

(* Who is under way alone has met nobody before.                           *)
LEMMA AloneBefore ==
  ASSUME Types, Types', Next, Alone'
  PROVE  Alone
<1> USE Members DEF historyVars, bufVars
<1>0. overAdds \in Nat /\ overSlices \in Nat /\ overAdds' \in Nat /\ overSlices' \in Nat
  BY DEF Types
<1>1. ASSUME NEW a \in Adders, Add(a)
      PROVE  Alone
  <2>1. CASE AddBegins(a)
    <3>1. overlaps \subseteq Underway /\ a \notin Underway
      BY <2>1 DEF AddBegins, Goes, Types, Underway
    <3> QED BY <2>1, <3>1, <1>0 DEF AddBegins, Begins, Alone
  <2>2. CASE AddEnds(a)
    BY <1>0, <2>2 DEF AddEnds, Over, Alone
  <2>3. CASE LoadIndex(a) \/ StoreElement(a) \/ LoadToAdvance(a) \/ Advance(a) \/ LoadToCount(a)
    BY <2>3 DEF LoadIndex, StoreElement, LoadToAdvance, Advance, LoadToCount, Alone
  <2> QED BY <1>1, <2>1, <2>2, <2>3 DEF Add
<1>2. CASE Slice
  <2>1. CASE SliceBegins
    <3>1. overlaps \subseteq Underway /\ e \notin Underway
      BY <2>1 DEF SliceBegins, Goes, Types, Underway
    <3> QED BY <2>1, <3>1, <1>0 DEF SliceBegins, Begins, Alone
  <2>2. CASE SliceEnds
    BY <1>0, <2>2 DEF SliceEnds, Over, Alone
  <2>3. CASE LoadSlot \/ StoreSlot \/ ClearSlot \/ LoadToRetreat
    BY <2>3 DEF LoadSlot, StoreSlot, ClearSlot, LoadToRetreat, Alone
  <2> QED BY <1>2, <2>1, <2>2, <2>3 DEF Slice
<1> QED BY <1>1, <1>2 DEF Next

(* Then the others are at rest, and stay so.                               *)
LEMMA OthersRest ==
  ASSUME Types, OverlapInv, OverlapInv', Alone, Alone', NEW t \in Threads,
         \A u \in Threads : u # t => pc'[u] = pc[u], pc[t] # "rest" \/ pc'[t] # "rest"
  PROVE  \A u \in Threads : u # t => pc[u] = "rest" /\ pc'[u] = "rest"
<1> SUFFICES ASSUME NEW u \in Threads, u # t PROVE pc[u] = "rest"
  OBVIOUS
<1>1. CASE pc[t] # "rest"
  BY <1>1 DEF OverlapInv, Alone
<1>2. CASE pc'[t] # "rest"
  BY <1>2 DEF OverlapInv, Alone
<1> QED BY <1>1, <1>2

(* The window after an addition and after a move.                          *)
LEMMA WindowAfterAdd ==
  ASSUME Types, WindowInv, NEW a \in Adders, Window!WAdd(element[a])
  PROVE  /\ WindowInv' /\ Ahead' = Ahead + 1 /\ Ahead \in Int
         /\ \A s \in Slots : Shows(s)' = IF s = Ahead THEN element[a] ELSE Shows(s)
<1>0. element[a] \in 0 .. MaxAdds /\ 0 \in 0 .. MaxAdds /\ Len(window) \in Nat
  BY Assumed, DataType DEF Types, WindowInv
<1>1. CASE debt > 0
  <2>1. window = <<>> /\ window' = window /\ debt' = debt - 1
    BY <1>1 DEF WindowInv, Window!WAdd
  <2> QED BY <1>0, <1>1, <2>1 DEF WindowInv, Ahead, Shows, Slots
<1>2. CASE debt = 0
  <2> DEFINE x == IF Len(window) < K THEN element[a] ELSE 0
  <2>1. window' = Append(window, x) /\ debt' = 0
    BY <1>2 DEF Window!WAdd, Window!Hole
  <2>2. x \in 0 .. MaxAdds
    BY <1>0
  <2>3. /\ window' \in Seq(0 .. MaxAdds) /\ Len(window') = Len(window) + 1
        /\ \A j \in 1 .. Len(window) : window'[j] = window[j]
        /\ window'[Len(window) + 1] = x
    BY <2>1, <2>2 DEF WindowInv
  <2>4. ASSUME NEW s \in Slots
        PROVE  Shows(s)' = IF s = Ahead THEN element[a] ELSE Shows(s)
    <3>1. s \in Int /\ 0 <= s /\ s < K
      BY Assumed DEF Slots
    <3>2. Ahead = Len(window)
      BY <1>0, <1>2 DEF Ahead
    <3> QED BY <1>0, <2>3, <3>1, <3>2 DEF Shows
  <2>5. \A j \in 1 .. Len(window') : j > K => window'[j] = Empty
    <3> SUFFICES ASSUME NEW j \in 1 .. Len(window'), j > K PROVE window'[j] = Empty
      OBVIOUS
    <3>1. CASE j \in 1 .. Len(window)
      BY <2>3, <3>1 DEF WindowInv
    <3>2. CASE j = Len(window) + 1
      BY <1>0, <2>3, <3>2, Assumed DEF Empty
    <3> QED BY <1>0, <2>3, <3>1, <3>2
  <2> QED BY <1>0, <1>2, <2>1, <2>3, <2>4, <2>5 DEF WindowInv, Ahead
<1> QED BY <1>1, <1>2 DEF WindowInv

LEMMA WindowAfterSlide ==
  ASSUME WindowInv, Window!WSlide
  PROVE  /\ WindowInv' /\ Ahead' = Ahead - P /\ Ahead \in Int
         /\ \A s \in Nat : Shows(s)' = Shows(s + P)
<1>0. Len(window) \in Nat /\ P \in Nat
  BY Assumed DEF WindowInv
<1>1. CASE P <= Len(window)
  <2>1. window' = SubSeq(window, P + 1, Len(window)) /\ debt' = debt
    BY <1>0, <1>1 DEF Window!WSlide
  <2>2. /\ window' \in Seq(0 .. MaxAdds) /\ Len(window') = Len(window) - P
        /\ \A j \in 1 .. Len(window) - P : window'[j] = window[j + P]
    <3>1. /\ P + 1 \in Int /\ Len(window) \in Int
          /\ \A j \in P + 1 .. Len(window) : window[j] \in 0 .. MaxAdds
      <4> SUFFICES ASSUME NEW j \in P + 1 .. Len(window) PROVE window[j] \in 0 .. MaxAdds
        BY <1>0
      <4>1. j \in 1 .. Len(window)
        BY <1>0
      <4> QED BY <4>1, ElementOfSeq DEF WindowInv
    <3> DEFINE cut == SubSeq(window, P + 1, Len(window))
    <3>2. /\ cut \in Seq(0 .. MaxAdds)
          /\ Len(cut) = IF P + 1 <= Len(window) THEN Len(window) - (P + 1) + 1 ELSE 0
          /\ \A j \in 1 .. Len(window) - (P + 1) + 1 : cut[j] = window[P + 1 + j - 1]
      BY <3>1, SubSeqProperties
    <3> HIDE DEF cut
    <3>3. /\ \A j \in 1 .. Len(window) - P : cut[j] = window[j + P]
          /\ Len(cut) = Len(window) - P
      BY <1>0, <1>1, <3>2
    <3> QED BY <2>1, <3>2, <3>3 DEF cut
  <2>3. debt > 0 => window' = <<>>
    <3>1. debt > 0 => Len(window) = 0
      BY DEF WindowInv
    <3>2. debt > 0 => Len(window') = 0
      <4>1. Len(window') = Len(window) - P
        BY <2>2
      <4> QED BY <1>0, <1>1, <3>1, <4>1
    <3> QED BY <2>2, <3>2, EmptySeq
  <2>4. \A j \in 1 .. Len(window') : j > K => window'[j] = Empty
    <3> SUFFICES ASSUME NEW j \in 1 .. Len(window'), j > K PROVE window'[j] = Empty
      OBVIOUS
    <3>1. j \in 1 .. Len(window) - P /\ j + P \in 1 .. Len(window) /\ j + P > K
      BY <1>0, <1>1, <2>2, Assumed
    <3>2. window'[j] = window[j + P]
      BY <2>2, <3>1
    <3> QED BY <3>1, <3>2 DEF WindowInv
  <2>5. ASSUME NEW s \in Nat PROVE Shows(s)' = Shows(s + P)
    <3>1. CASE s < Len(window) - P
      <4>1. s + 1 \in 1 .. Len(window) - P /\ (s + 1) + P = (s + P) + 1 /\ s + P < Len(window)
        BY <1>0, <1>1, <3>1
      <4>2. window'[s + 1] = window[(s + P) + 1]
        BY <2>2, <4>1
      <4> QED BY <2>2, <3>1, <4>1, <4>2 DEF Shows
    <3>2. CASE ~(s < Len(window) - P)
      <4>1. ~(s + P < Len(window))
        BY <1>0, <1>1, <3>2
      <4> QED BY <2>2, <3>2, <4>1 DEF Shows
    <3> QED BY <3>1, <3>2
  <2>6. Ahead' = Ahead - P /\ Ahead \in Int
    BY <1>0, <1>1, <2>1, <2>2 DEF WindowInv, Ahead
  <2> QED BY <2>1, <2>2, <2>3, <2>4, <2>5, <2>6 DEF WindowInv
<1>2. CASE Len(window) < P
  <2>1. window' = <<>> /\ debt' = debt + (P - Len(window))
    BY <1>0, <1>2 DEF Window!WSlide
  <2> QED BY <1>0, <1>2, <2>1 DEF WindowInv, Ahead, Shows
<1> QED BY <1>0, <1>1, <1>2

LEMMA AddAlone ==
  ASSUME Types, Types', OverlapInv, OverlapInv', AloneInv, NEW a \in Adders, Add(a)
  PROVE  AloneInv'
<1> USE Members, DataType DEF historyVars, bufVars
<1>1. WindowInv'
  <2>1. CASE AddEnds(a)
    BY <2>1, WindowAfterAdd DEF AddEnds, AloneInv
  <2>2. CASE ~AddEnds(a)
    <3>1. UNCHANGED <<window, debt>>
      BY <2>2 DEF Add, AddBegins, LoadIndex, StoreElement, LoadToAdvance, Advance, LoadToCount
    <3> QED BY <3>1 DEF AloneInv, WindowInv
  <2> QED BY <2>1, <2>2
<1>2. ASSUME Alone' PROVE Between'
  <2>1. Alone
    BY <1>2, AloneBefore DEF Next
  <2>2. Between /\ WindowInv
    BY <2>1 DEF AloneInv
  <2>3. /\ \A u \in Threads : u # a => pc'[u] = pc[u] /\ reg'[u] = reg[u]
        /\ \A b \in Adders : b # a => element'[b] = element[b]
        /\ UNCHANGED i
    BY AddOthers
  <2>4. \A u \in Threads : u # a => pc[u] = "rest" /\ pc'[u] = "rest"
    <3>1. pc[a] # "rest" \/ pc'[a] # "rest"
      BY DEF Add, AddBegins, LoadIndex, StoreElement, LoadToAdvance, Advance, LoadToCount, AddEnds,
             Goes, Types
    <3> QED BY <1>2, <2>1, <2>3, <3>1, OthersRest
  <2> USE DEF AfterStore, AfterAdvance
  <2>5. CASE AddBegins(a) \/ LoadIndex(a) \/ LoadToAdvance(a) \/ LoadToCount(a)
    <3>1. /\ UNCHANGED <<data, write_idx, window, debt>>
          /\ \/ pc[a] = "rest" /\ pc'[a] = "index"
             \/ /\ pc[a] = "index" /\ pc'[a] = "store" /\ reg'[a] = write_idx
                /\ UNCHANGED element
             \/ /\ pc[a] = "advance" /\ pc'[a] = "advanced" /\ reg'[a] = write_idx
                /\ UNCHANGED element
             \/ pc[a] = "count" /\ pc'[a] = "counted" /\ UNCHANGED element
      BY <2>5 DEF AddBegins, LoadIndex, LoadToAdvance, LoadToCount, Goes, Loads, Types
    <3>2. Ahead' = Ahead /\ \A s \in Slots : Shows(s)' = Shows(s)
      BY <3>1 DEF Ahead, Shows
    <3> QED BY <2>2, <2>3, <2>4, <3>1, <3>2 DEF Between
  <2>6. CASE StoreElement(a)
    <3>1. /\ UNCHANGED <<write_idx, window, debt, element>> /\ pc[a] = "store" /\ pc'[a] = "advance"
          /\ \A s \in Slots : data'[s] = IF s = reg[a] THEN element[a] ELSE data[s]
      BY <2>6 DEF StoreElement, Store, Goes, Types
    <3>2. Ahead' = Ahead /\ \A s \in Slots : Shows(s)' = Shows(s)
      BY <3>1 DEF Ahead, Shows
    <3> QED BY <2>2, <2>3, <2>4, <3>1, <3>2 DEF Between
  <2>7. CASE Advance(a)
    <3>1. /\ UNCHANGED <<data, window, debt, element>> /\ pc[a] = "advanced" /\ pc'[a] = "count"
          /\ write_idx' = reg[a] + 1
      BY <2>7 DEF Advance, Goes, Types
    <3>2. Ahead' = Ahead /\ \A s \in Slots : Shows(s)' = Shows(s)
      BY <3>1 DEF Ahead, Shows
    <3> QED BY <2>2, <2>3, <2>4, <3>1, <3>2 DEF Between
  <2>8. CASE AddEnds(a)
    <3>1. /\ UNCHANGED <<data, write_idx, element>> /\ pc[a] = "counted" /\ pc'[a] = "rest"
          /\ Window!WAdd(element[a])
      BY <2>8 DEF AddEnds, Goes, Types
    <3>2. /\ Ahead' = Ahead + 1
          /\ \A s \in Slots : Shows(s)' = IF s = Ahead THEN element[a] ELSE Shows(s)
      BY <2>2, <3>1, WindowAfterAdd
    <3> QED BY <2>2, <2>3, <2>4, <3>1, <3>2 DEF Between
  <2> QED BY <2>5, <2>6, <2>7, <2>8 DEF Add
<1> QED BY <1>1, <1>2 DEF AloneInv

LEMMA SliceAlone ==
  ASSUME Types, Types', OverlapInv, OverlapInv', AloneInv, Slice
  PROVE  AloneInv'
<1> USE Members, DataType DEF historyVars, bufVars
<1>1. WindowInv'
  <2>1. CASE SliceEnds
    BY <2>1, WindowAfterSlide DEF SliceEnds, AloneInv
  <2>2. CASE ~SliceEnds
    <3>1. UNCHANGED <<window, debt>>
      BY <2>2 DEF Slice, SliceBegins, LoadSlot, StoreSlot, ClearSlot, LoadToRetreat
    <3> QED BY <3>1 DEF AloneInv, WindowInv
  <2> QED BY <2>1, <2>2
<1>2. ASSUME Alone' PROVE Between'
  <2>1. Alone
    BY <1>2, AloneBefore DEF Next
  <2>2. Between /\ WindowInv
    BY <2>1 DEF AloneInv
  <2>3. \A u \in Threads : u # e => pc'[u] = pc[u] /\ reg'[u] = reg[u]
    BY SliceOthers
  <2>4. \A a \in Adders : pc[a] = "rest" /\ pc'[a] = "rest"
    <3>1. pc[e] # "rest" \/ pc'[e] # "rest"
      BY DEF Slice, SliceBegins, LoadSlot, StoreSlot, ClearSlot, LoadToRetreat, SliceEnds, Goes, Types
    <3> QED BY <1>2, <2>1, <2>3, <3>1, OthersRest
  <2> USE DEF AfterStore, AfterAdvance
  <2>s. \A s \in Slots : s \in Nat /\ s < K
    BY Assumed DEF Slots
  <2>5. write_idx = Ahead
    BY <2>2, <2>4 DEF Between
  <2>6. CASE SliceBegins
    <3>1. /\ UNCHANGED <<data, write_idx, window, debt>> /\ pc[e] = "rest" /\ pc'[e] = "shift"
          /\ i' = 0
      BY <2>6 DEF SliceBegins, Goes, Types
    <3>2. Ahead' = Ahead /\ \A s \in Slots : Shows(s)' = Shows(s)
      BY <3>1 DEF Ahead, Shows
    <3> QED BY <2>2, <2>4, <2>5, <2>s, <3>1, <3>2 DEF Between
  <2>7. CASE LoadSlot
    <3>1. /\ UNCHANGED <<data, write_idx, window, debt, i>> /\ pc[e] = "shift" /\ pc'[e] = "shifted"
          /\ i < K - P /\ reg'[e] = Load(i + P)
      BY <2>7 DEF LoadSlot, Goes, Loads, Types
    <3>2. i + P \in Slots /\ reg'[e] = data[i + P]
      BY <3>1, Assumed DEF Slots, Load, Types
    <3>3. /\ Ahead' = Ahead /\ \A s \in Slots : Shows(s)' = Shows(s) /\ Shows(s + P)' = Shows(s + P)
          /\ Shows(i + P)' = Shows(i + P)
      BY <3>1 DEF Ahead, Shows
    <3>4. data[i + P] = Shows(i + P)
      BY <2>2, <3>1, <3>2, Assumed DEF Between
    <3> QED BY <2>2, <2>4, <2>5, <2>s, <3>1, <3>2, <3>3, <3>4 DEF Between
  <2>8. CASE StoreSlot \/ ClearSlot
    <3>1. /\ UNCHANGED <<write_idx, window, debt>> /\ pc'[e] = "shift" /\ i' = i + 1
          /\ \/ pc[e] = "shifted" /\ \A s \in Slots : data'[s] = IF s = i THEN reg[e] ELSE data[s]
             \/ /\ pc[e] = "shift" /\ i >= K - P
                /\ \A s \in Slots : data'[s] = IF s = i THEN Empty ELSE data[s]
      BY <2>8 DEF StoreSlot, ClearSlot, Store, Goes, Types
    <3>2. Ahead' = Ahead /\ \A s \in Slots : Shows(s)' = Shows(s) /\ Shows(s + P)' = Shows(s + P)
      BY <3>1 DEF Ahead, Shows
    <3>3. \A s \in Slots : data'[s] = IF s >= i' THEN Shows(s)
                                      ELSE IF s < K - P THEN Shows(s + P) ELSE Empty
      BY <2>2, <2>s, <3>1, Assumed DEF Between
    <3> QED BY <2>4, <2>5, <3>1, <3>2, <3>3 DEF Between
  <2>9. CASE LoadToRetreat
    <3>1. /\ UNCHANGED <<data, write_idx, window, debt, i>> /\ pc[e] = "shift" /\ pc'[e] = "retreat"
          /\ i = K /\ reg'[e] = write_idx
      BY <2>9 DEF LoadToRetreat, Goes, Loads, Types
    <3>2. Ahead' = Ahead /\ \A s \in Slots : Shows(s)' = Shows(s) /\ Shows(s + P)' = Shows(s + P)
      BY <3>1 DEF Ahead, Shows
    <3> QED BY <2>2, <2>4, <2>5, <3>1, <3>2 DEF Between
  <2>10. CASE SliceEnds
    <3>1. /\ UNCHANGED <<data, i>> /\ pc[e] = "retreat" /\ pc'[e] = "rest"
          /\ write_idx' = reg[e] - P /\ Window!WSlide
      BY <2>10 DEF SliceEnds, Goes, Types
    <3>2. Ahead' = Ahead - P /\ \A s \in Slots : Shows(s)' = Shows(s + P)
      BY <2>2, <2>s, <3>1, WindowAfterSlide
    <3>3. write_idx' = Ahead'
      BY <2>2, <3>1, <3>2 DEF Between
    <3>4. \A s \in Slots : data'[s] = Shows(s)'
      <4>1. \A s \in Slots : data[s] = IF s < K - P THEN Shows(s + P) ELSE Empty
        BY <2>2, <2>s, <3>1, Assumed DEF Between
      <4>2. ASSUME NEW s \in Slots, s >= K - P PROVE Shows(s + P) = Empty
        <5>1. s + P \in Nat /\ s + P >= K
          BY <2>s, <4>2, Assumed
        <5>2. s + P < Len(window) => (s + P) + 1 \in 1 .. Len(window) /\ (s + P) + 1 > K
          BY <2>2, <5>1, Assumed DEF WindowInv
        <5> QED BY <2>2, <5>2 DEF WindowInv, Shows
      <4> QED BY <2>s, <3>1, <3>2, <4>1, <4>2, Assumed
    <3> QED BY <2>4, <3>1, <3>3, <3>4 DEF Between
  <2> QED BY <2>6, <2>7, <2>8, <2>9, <2>10 DEF Slice
<1> QED BY <1>1, <1>2 DEF AloneInv

LEMMA InitAlone == Init => AloneInv
<1> SUFFICES ASSUME Init PROVE AloneInv
  OBVIOUS
<1>1. window = <<>> /\ debt = 0
  BY DEF Init, Window!WInit
<1>2. WindowInv
  BY <1>1 DEF WindowInv
<1>3. \A s \in Slots : s \in Nat /\ Shows(s) = Empty /\ data[s] = Empty
  BY <1>1, Assumed DEF Init, Shows, Slots
<1>4. Ahead = 0 /\ write_idx = 0
  BY <1>1 DEF Init, Ahead
<1>5. \A t \in Threads : pc[t] = "rest"
  BY DEF Init
<1> QED BY <1>2, <1>3, <1>4, <1>5, Members DEF AloneInv, Between, AfterStore, AfterAdvance

-----------------------------------------------------------------------------
(* Theorems                                                                *)

LEMMA InvStep == IInv /\ AloneInv /\ [Next]_vars => (IInv /\ AloneInv)'
<1> SUFFICES ASSUME IInv, AloneInv, [Next]_vars PROVE IInv' /\ AloneInv'
  OBVIOUS
<1> USE DEF IInv
<1>1. CASE \E a \in Adders : Add(a)
  <2>1. PICK a \in Adders : Add(a)
    BY <1>1
  <2>2. Types' /\ OverlapInv'
    BY <2>1, AddTypes
  <2> QED BY <2>1, <2>2, AddDrift, AddCount, AddElems, AddAlone
<1>2. CASE Slice
  <2>1. \A s \in Slots : data[s] <= adds
    BY DEF FreshInv
  <2>2. Types' /\ OverlapInv'
    BY <1>2, <2>1, SliceTypes
  <2> QED BY <1>2, <2>2, SliceDrift, SliceCount, SliceElems, SliceAlone
<1>3. CASE UNCHANGED vars
  <2> USE <1>3 DEF vars, bufVars, historyVars
  <2>1. Types' /\ OverlapInv'
    BY DEF Types, Held, OverlapInv, Underway
  <2>2. /\ UNCHANGED <<Advances, Retreats, Overlapped, Counted>>
    BY DEF Advances, Retreats, Overlapped, Counted, Pending, Stored, Begun, Moving
  <2>3. DriftInv' /\ CountInv'
    BY <2>2 DEF DriftInv, CountInv, Near, CountNear
  <2>4. FreshInv' /\ OnceInv'
    BY DEF FreshInv, OnceInv, Fresh, Moved
  <2>5. AloneInv'
    BY DEF AloneInv, WindowInv, Alone, Between, Ahead, Shows
  <2> QED BY <2>1, <2>3, <2>4, <2>5
<1> QED BY <1>1, <1>2, <1>3 DEF Next

(* The invariant, from which the theorems below follow.                    *)
THEOREM Invariance == Spec => [](IInv /\ AloneInv)
  BY InitInv, InitAlone, InvStep, PTL DEF Spec

(* The buffer's fields and the threads' places keep their types without    *)
(* the lock: slice_buffer never shifts what lies beyond slot K - 1, and    *)
(* only elements that were added, or none, come to stand in the slots.     *)
THEOREM TypeCorrect == Spec => []TypeOK
<1>1. IInv => TypeOK
  BY DEF IInv, Types, TypeOK, AdderPlaces, MoverPlaces
<1> QED BY <1>1, Invariance, PTL

(* Whatever the interleaving of add_element and slice_buffer, write_idx is *)
(* wrong by no more than the overlapped additions below and P slots for    *)
(* each overlapped move above, and the counter by the former.              *)
THEOREM DriftIsBounded == Spec => []DriftBounded
<1>1. IInv => DriftBounded
  <2> SUFFICES ASSUME IInv, AtRest PROVE DriftBounded
    BY DEF DriftBounded
  <2>1. \A t \in Threads : pc[t] = "rest"
    BY DEF AtRest, Underway
  <2>2. /\ \A a \in Adders : Pending(a) = 0 /\ Stored(a) = 0 /\ Begun(a) = 0
        /\ Moving = 0
    BY <2>1, Members DEF Pending, Stored, Begun, Moving
  <2>3. /\ {adds, slices, overAdds, overSlices, write_idx, counter} \subseteq Int
    BY DEF IInv, Types
  <2>4. Advances = adds /\ Retreats = slices /\ Overlapped = overAdds /\ Counted = adds
    BY <2>2, <2>3, TwoAdders DEF Advances, Retreats, Overlapped, Counted
  <2>5. P * slices \in Int /\ P * overSlices \in Int
    BY <2>3, StepOfP
  <2>6. Near(write_idx) /\ CountNear(counter)
    BY DEF IInv, DriftInv, CountInv
  <2> QED BY <2>3, <2>4, <2>5, <2>6 DEF DriftBounded, Near, CountNear
<1> QED BY <1>1, Invariance, PTL

(* However the stores of add_element fall between those of slice_buffer,   *)
(* no element stands in two slots when no move is under way, for every     *)
(* size of the buffer and of the step.                                     *)
THEOREM NeverTwice == Spec => []OncePerElement
<1>1. IInv => OncePerElement
  <2> SUFFICES ASSUME IInv, pc[e] = "rest",
                      NEW s \in Slots, NEW u \in Slots, data[s] # Empty, data[s] = data[u]
               PROVE  s = u
    BY DEF OncePerElement
  <2>1. ~(s < u) /\ ~(u < s)
    BY DEF IInv, OnceInv, Moved
  <2> QED BY <2>1, Assumed DEF Slots
<1> QED BY <1>1, Invariance, PTL

(* add_element and slice_buffer are the operations of SlidingWindow as     *)
(* long as nobody is let in between their loads and stores: with every     *)
(* size of the buffer and of the step, also when the array overflows and   *)
(* when more is cut than has arrived.                                      *)
THEOREM AloneAsWindow == Spec => []AloneIsWindow
<1>1. IInv /\ AloneInv => AloneIsWindow
  <2> SUFFICES ASSUME IInv, AloneInv, AtRest, overAdds + overSlices = 0
               PROVE  /\ write_idx = Len(window) - debt
                      /\ \A s \in Slots : data[s] = IF s < Len(window) THEN window[s + 1] ELSE Empty
    BY DEF AloneIsWindow
  <2>1. \A t \in Threads : pc[t] = "rest"
    BY DEF AtRest, Underway
  <2>2. overlaps = {}
    BY DEF AtRest, IInv, Types
  <2>3. Between
    BY <2>2 DEF AloneInv, Alone
  <2> QED BY <2>1, <2>3, Members DEF Between, AfterStore, AfterAdvance, Ahead, Shows
<1> QED BY <1>1, Invariance, PTL

=============================================================================
