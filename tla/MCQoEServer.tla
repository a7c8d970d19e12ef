----------------------------- MODULE MCQoEServer -----------------------------
(***************************************************************************)
(* Instances of QoEServer for TLC.                                         *)
(*                                                                         *)
(* SlidingBuffer lets a store outside the array change nothing.  That is   *)
(* what it does as long as write_idx stays near the array: with the layout *)
(* of the heap that create_buffer and create_evaluation_data leave (glibc, *)
(* 64 bits), the 13 floats below data[0] are the allocator's and unused    *)
(* members of struct buffer, and below them lies write_idx itself; the 4   *)
(* above data[K-1] are the allocator's, and above them lies eval_data->N.  *)
(* The bounds of every instance keep write_idx inside that room.           *)
(***************************************************************************)
EXTENDS QoEServer

RoomBelow == 13
RoomAbove == 4

ASSUME HeapAssumption ==
  /\ P * MaxTicks <= RoomBelow
  /\ MaxMsgs + MaxTicks <= K + RoomAbove

(* Two segment numbers: 3, which is N, and one that no float is.           *)
MCSegNums == {3, Exact + 1}
MCTwoStepElements == {-1, 0, 3, Exact}
MCOneStepElements == {0, 1, 3}

(* An evaluator that works or fails in any way, and the one of this commit *)
(* in two-step mode.                                                       *)
MCAnswers == {3, NoJson, Silent, NoScore}
MCRejected == {NoJson, Silent}
=============================================================================
