---------------------------- MODULE SlidingWindow ----------------------------
(***************************************************************************)
(* What buffer.c promises to its callers, with the array forgotten: a      *)
(* queue of elements that grows at the back and that is cut by P elements  *)
(* at the front.                                                           *)
(*                                                                         *)
(* The C code cuts P elements whether the queue holds them or not.  What   *)
(* it then promises is made explicit here as a debt: the elements that     *)
(* were cut before they arrived, which the queue swallows when they do.    *)
(* At the other end, an element that arrives when the array is full is not *)
(* kept: a hole, which reads as an empty slot, takes its place.            *)
(***************************************************************************)
EXTENDS Integers, Sequences

CONSTANTS
  K,         (* capacity of the array                                *)
  P,         (* how many elements one slide cuts                     *)
  Elements   (* what a slot may hold                                 *)

VARIABLES
  window,    (* the elements in the buffer, oldest first             *)
  debt       (* how many future elements are already cut             *)

winVars == <<window, debt>>

Hole == 0

WInit == window = <<>> /\ debt = 0

(* add_element: swallowed while there is a debt, a hole beyond capacity.   *)
WAdd(e) ==
  \/ /\ debt > 0
     /\ debt' = debt - 1
     /\ UNCHANGED window
  \/ /\ debt = 0
     /\ window' = Append(window, IF Len(window) < K THEN e ELSE Hole)
     /\ UNCHANGED debt

(* slice_buffer: cut P elements, on credit when there are fewer.           *)
WSlide ==
  \/ /\ P <= Len(window)
     /\ window' = SubSeq(window, P + 1, Len(window))
     /\ UNCHANGED debt
  \/ /\ Len(window) < P
     /\ window' = <<>>
     /\ debt' = debt + (P - Len(window))

WNext == WSlide \/ \E e \in Elements : WAdd(e)

WSpec == WInit /\ [][WNext]_winVars
=============================================================================
