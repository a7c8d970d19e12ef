----------------------------- MODULE BufferRace -----------------------------
(***************************************************************************)
(* add_element and slice_buffer of buffer.c as the threads run them: the   *)
(* lock is commented out (buffer.c:32,40), so the loads and stores of the  *)
(* thread of the messages, of the stall timer and of the evaluation timer  *)
(* interleave.  The Makefile does not optimize: an int or a float is       *)
(* loaded or stored at once, each time the source names it.                *)
(*                                                                         *)
(* Each element is the number of its addition, so that it can be told from *)
(* the others.  A store outside the slots changes none, as in              *)
(* SlidingBuffer.  The window of SlidingWindow goes along as what the      *)
(* operations would do one after the other.                                *)
(***************************************************************************)
EXTENDS Integers, FiniteSets, Sequences

CONSTANTS
  K,          (* slots                        *)
  P,          (* the window step              *)
  MaxAdds,    (* bound: additions             *)
  MaxSlices   (* bound: moves of the window   *)

ASSUME RaceAssumption == {K, P, MaxAdds, MaxSlices} \subseteq Nat /\ P <= K

VARIABLES
  data, write_idx, counter,  (* struct buffer                              *)
  pc,        (* where each thread is                                       *)
  reg,       (* what it has loaded                                         *)
  element,   (* the argument of add_element                                *)
  i,         (* of the loops of slice_buffer                               *)
  adds, slices,   (* operations begun (count against the bounds)           *)
  overlaps,  (* the threads whose operation has overlapped another's       *)
  overAdds, overSlices,   (* operations that have overlapped (history)     *)
  window, debt   (* the operations one after the other (history)           *)

bufVars == <<data, write_idx, counter>>
historyVars == <<adds, slices, overlaps, overAdds, overSlices, window, debt>>
vars == <<bufVars, pc, reg, element, i, historyVars>>

Adders == {"messages", "stalls"}
Threads == Adders \union {"evaluations"}
Slots == 0 .. K - 1
Empty == 0
Outside == -1    (* what a load outside the slots returns *)

Window == INSTANCE SlidingWindow WITH Elements <- 0 .. MaxAdds

Init ==
  /\ data = [s \in Slots |-> Empty] /\ write_idx = 0 /\ counter = 1
  /\ pc = [t \in Threads |-> "rest"] /\ reg = [t \in Threads |-> 0]
  /\ element = [t \in Adders |-> Empty] /\ i = 0
  /\ adds = 0 /\ slices = 0
  /\ overlaps = {} /\ overAdds = 0 /\ overSlices = 0
  /\ Window!WInit

Load(s) == IF s \in Slots THEN data[s] ELSE Outside
Store(s, value) == data' = [x \in Slots |-> IF x = s THEN value ELSE data[x]]

Goes(t, from, to) == pc[t] = from /\ pc' = [pc EXCEPT ![t] = to]
Loads(t, value) == reg' = [reg EXCEPT ![t] = value]

(* An operation of t begins: it overlaps those under way.                  *)
Underway == {t \in Threads : pc[t] # "rest"}
Begins(t) ==
  overlaps' = (overlaps \ {t}) \union (IF Underway = {} THEN {} ELSE Underway \union {t})
Over(t) == IF t \in overlaps THEN 1 ELSE 0

-----------------------------------------------------------------------------
(* add_element                                                             *)

AddBegins(a) ==
  /\ Goes(a, "rest", "index") /\ adds < MaxAdds /\ Begins(a)
  /\ adds' = adds + 1 /\ element' = [element EXCEPT ![a] = adds + 1]
  /\ UNCHANGED <<bufVars, reg, i, slices, overAdds, overSlices, window, debt>>

LoadIndex(a) ==
  /\ Goes(a, "index", "store") /\ Loads(a, write_idx)
  /\ UNCHANGED <<bufVars, element, i, historyVars>>

(* a mutant: the slot before, as is_still_stalling reads                   *)
StoreElementBelow(a) ==
  /\ Goes(a, "store", "advance") /\ Store(reg[a] - 1, element[a])
  /\ UNCHANGED <<write_idx, counter, reg, element, i, historyVars>>

StoreElement(a) ==
  /\ Goes(a, "store", "advance") /\ Store(reg[a], element[a])
  /\ UNCHANGED <<write_idx, counter, reg, element, i, historyVars>>

LoadToAdvance(a) ==
  /\ Goes(a, "advance", "advanced") /\ Loads(a, write_idx)
  /\ UNCHANGED <<bufVars, element, i, historyVars>>

Advance(a) ==
  /\ Goes(a, "advanced", "count") /\ write_idx' = reg[a] + 1
  /\ UNCHANGED <<data, counter, reg, element, i, historyVars>>

LoadToCount(a) ==
  /\ Goes(a, "count", "counted") /\ Loads(a, counter)
  /\ UNCHANGED <<bufVars, element, i, historyVars>>

AddEnds(a) ==
  /\ Goes(a, "counted", "rest") /\ counter' = reg[a] + 1
  /\ Window!WAdd(element[a])
  /\ overAdds' = overAdds + Over(a) /\ overlaps' = overlaps \ {a}
  /\ UNCHANGED <<data, write_idx, reg, element, i, adds, slices, overSlices>>

-----------------------------------------------------------------------------
(* slice_buffer(buffer, K, P) of the evaluation timer                      *)

e == "evaluations"

SliceBegins ==
  /\ Goes(e, "rest", "shift") /\ slices < MaxSlices /\ Begins(e)
  /\ slices' = slices + 1 /\ i' = 0
  /\ UNCHANGED <<bufVars, reg, element, adds, overAdds, overSlices, window, debt>>

(* a mutant: one slot too many is shifted                                  *)
LoadSlotInclusive ==
  /\ Goes(e, "shift", "shifted") /\ i <= K - P /\ Loads(e, Load(i + P))
  /\ UNCHANGED <<bufVars, element, i, historyVars>>

LoadSlot ==
  /\ Goes(e, "shift", "shifted") /\ i < K - P /\ Loads(e, Load(i + P))
  /\ UNCHANGED <<bufVars, element, i, historyVars>>

StoreSlot ==
  /\ Goes(e, "shifted", "shift") /\ Store(i, reg[e]) /\ i' = i + 1
  /\ UNCHANGED <<write_idx, counter, reg, element, historyVars>>

(* a mutant: the first of the vacated slots is left                        *)
ClearSlotBehind ==
  /\ Goes(e, "shift", "shift") /\ i >= K - P /\ i < K
  /\ IF i = K - P THEN UNCHANGED data ELSE Store(i, Empty)
  /\ i' = i + 1
  /\ UNCHANGED <<write_idx, counter, reg, element, historyVars>>

ClearSlot ==
  /\ Goes(e, "shift", "shift") /\ i >= K - P /\ i < K
  /\ Store(i, Empty) /\ i' = i + 1
  /\ UNCHANGED <<write_idx, counter, reg, element, historyVars>>

LoadToRetreat ==
  /\ Goes(e, "shift", "retreat") /\ i = K /\ Loads(e, write_idx)
  /\ UNCHANGED <<bufVars, element, i, historyVars>>

(* a mutant: one less                                                      *)
SliceEndsShort ==
  /\ Goes(e, "retreat", "rest") /\ write_idx' = reg[e] - P + 1
  /\ Window!WSlide
  /\ overSlices' = overSlices + Over(e) /\ overlaps' = overlaps \ {e}
  /\ UNCHANGED <<data, counter, reg, element, i, adds, slices, overAdds>>

SliceEnds ==
  /\ Goes(e, "retreat", "rest") /\ write_idx' = reg[e] - P
  /\ Window!WSlide
  /\ overSlices' = overSlices + Over(e) /\ overlaps' = overlaps \ {e}
  /\ UNCHANGED <<data, counter, reg, element, i, adds, slices, overAdds>>

Add(a) ==
  \/ AddBegins(a) \/ LoadIndex(a) \/ StoreElement(a)
  \/ LoadToAdvance(a) \/ Advance(a) \/ LoadToCount(a) \/ AddEnds(a)

Slice ==
  SliceBegins \/ LoadSlot \/ StoreSlot \/ ClearSlot \/ LoadToRetreat \/ SliceEnds

Next == Slice \/ \E a \in Adders : Add(a)

Spec == Init /\ [][Next]_vars

-----------------------------------------------------------------------------
(* Properties                                                              *)

TypeOK ==
  /\ data \in [Slots -> 0 .. MaxAdds] /\ write_idx \in Int /\ counter \in Nat
  /\ pc \in [Threads -> {"rest", "index", "store", "advance", "advanced", "count", "counted",
                         "shift", "shifted", "retreat"}]
  /\ reg \in [Threads -> Int] /\ element \in [Adders -> 0 .. MaxAdds] /\ i \in 0 .. K
  /\ {adds, slices, overAdds, overSlices} \subseteq Nat /\ overlaps \subseteq Underway

AtRest == Underway = {}

(* What the missing lock costs write_idx and the counter: only operations  *)
(* that overlapped another are lost from them, each once.  The index never *)
(* falls behind by more than the additions among them nor runs ahead by    *)
(* more than the moves among them, P slots each.                           *)
DriftBounded ==
  AtRest =>
    /\ write_idx - (adds - P * slices) \in -overAdds .. P * overSlices
    /\ counter \in 1 + adds - overAdds .. 1 + adds

(* However the stores of an addition fall between those of a move of the   *)
(* window, no element is ever shown twice.                                 *)
OncePerElement ==
  pc[e] = "rest" =>
    \A s, u \in Slots : data[s] # Empty /\ data[s] = data[u] => s = u

(* Operations that do not overlap leave the window of SlidingWindow, whose *)
(* slots they take apart and put together again in between.                *)
AloneIsWindow ==
  AtRest /\ overAdds + overSlices = 0 =>
    /\ write_idx = Len(window) - debt
    /\ \A s \in Slots : data[s] = IF s < Len(window) THEN window[s + 1] ELSE Empty

=============================================================================
