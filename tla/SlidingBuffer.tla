---------------------------- MODULE SlidingBuffer ----------------------------
(***************************************************************************)
(* struct buffer of buffer.h and the operations of buffer.c that change    *)
(* it.  Each operation is one step here.                                   *)
(*                                                                         *)
(* An element is a float in the code; the model keeps the integers among   *)
(* them: a segment number, a score, -1 for a stall and 0 for an empty      *)
(* slot.  write_idx is a plain int that nothing checks, so it may leave    *)
(* the array on either side.  A store outside the array changes no slot;   *)
(* what else it may hit is described where the bounds on write_idx are     *)
(* chosen (MCQoEServer).                                                   *)
(***************************************************************************)
EXTENDS Integers, Sequences

CONSTANTS
  K,         (* struct buffer's K: number of slots (1000 in main.c)  *)
  P,         (* the window step, argument slice of slice_buffer      *)
  Elements   (* the elements the callers add                         *)

ASSUME BufferAssumption ==
  /\ K \in Nat
  /\ P \in Nat
  /\ P <= K
  /\ Elements \subseteq Int
  /\ 0 \in Elements

VARIABLES
  data,       (* the slots                                           *)
  write_idx,  (* where the next element goes                         *)
  counter     (* the "logical counter", starts at 1                  *)

bufVars == <<data, write_idx, counter>>

Slots == 0 .. K - 1

Empty == 0

(* create_buffer: calloc leaves every slot at 0.                           *)
BufInit ==
  /\ data = [i \in Slots |-> Empty]
  /\ write_idx = 0
  /\ counter = 1

(* add_element with the index that is_still_stalling uses (a mutant).      *)
AddElementBelow(element) ==
  /\ data' = [i \in Slots |-> IF i = write_idx - 1 THEN element ELSE data[i]]
  /\ write_idx' = write_idx + 1
  /\ counter' = counter + 1

(* add_element, with its early return for an element below -1.             *)
AddElement(element) ==
  IF element < -1
    THEN UNCHANGED bufVars
    ELSE /\ data' = [i \in Slots |-> IF i = write_idx THEN element ELSE data[i]]
         /\ write_idx' = write_idx + 1
         /\ counter' = counter + 1

(* slice_buffer as a caller that forgets to clear the vacated slots would  *)
(* have it (a mutant).                                                     *)
SliceKeepsTail ==
  /\ data' = [i \in Slots |-> IF i < K - P THEN data[i + P] ELSE data[i]]
  /\ write_idx' = write_idx - P
  /\ UNCHANGED counter

(* slice_buffer with its shift one short (a mutant).                       *)
SliceShiftsShort ==
  /\ data' = [i \in Slots |-> IF i < K - P THEN data[i + P - 1] ELSE Empty]
  /\ write_idx' = write_idx - P
  /\ UNCHANGED counter

(* slice_buffer(buffer, K, P): shift, clear the last P slots, move         *)
(* write_idx back, whatever it is.                                         *)
SliceBuffer ==
  /\ data' = [i \in Slots |-> IF i < K - P THEN data[i + P] ELSE Empty]
  /\ write_idx' = write_idx - P
  /\ UNCHANGED counter

BufNext == SliceBuffer \/ \E e \in Elements : AddElement(e)

BufSpec == BufInit /\ [][BufNext]_bufVars

-----------------------------------------------------------------------------
(* Refinement of the abstract window.                                      *)

Filled == IF write_idx > 0 THEN write_idx ELSE 0

windowBar == [i \in 1 .. Filled |-> IF i <= K THEN data[i - 1] ELSE Empty]
debtBar   == IF write_idx < 0 THEN -write_idx ELSE 0

Window == INSTANCE SlidingWindow WITH window <- windowBar, debt <- debtBar

BufTypeOK ==
  /\ data \in [Slots -> Elements]
  /\ write_idx \in Int
  /\ counter \in Nat

(* No slot at or beyond write_idx holds anything, so a reader that walks   *)
(* past the newest element finds empty slots and never the remains of      *)
(* elements that were sliced away.                                         *)
EmptyBeyondWriteIdx == \A i \in Slots : i >= write_idx => data[i] = Empty

(* Whatever the order of additions and slides, the array shows exactly the *)
(* abstract window: the code's shifting keeps every element that is in the *)
(* window, in order, and nothing else.                                     *)
BufferIsWindow == Window!WInit /\ [][Window!WNext]_(Window!winVars)
=============================================================================
