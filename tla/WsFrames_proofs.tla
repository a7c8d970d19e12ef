-------------------------- MODULE WsFrames_proofs --------------------------
(***************************************************************************)
(* Proofs about WsFrames, for every limit on frames and messages and every *)
(* number of frames: a message that is delivered has room for its          *)
(* terminator, and once the server closes one message more is delivered at *)
(* most until the socket is shut.                                          *)
(*                                                                         *)
(* Between the frames of a message as many bytes are allocated as it has;  *)
(* the one for the terminator comes with its last frame.  While the server *)
(* closes, the frame being read may still be a data frame, but only the    *)
(* one whose head came before: after its message none but a close frame is *)
(* accepted, as long as the state is CLOSING.                              *)
(*                                                                         *)
(* What is allocated stays within the limit, so that the length of a frame *)
(* that comes whole does not wrap; one that wraps leads to Overrun, after  *)
(* which no frame is read.                                                 *)
(*                                                                         *)
(* What is told, answered and freed is counted by positions in what has    *)
(* been read: a message by its final frame, an answer by its ping, so that *)
(* each new frame adds one to a number or to a block of bytes and leaves   *)
(* the earlier ones alone.                                                 *)
(***************************************************************************)
EXTENDS WsFrames, FiniteSetTheorems, TLAPS

Frames == [opcode : Data \union Control, is_fin : BOOLEAN, payload : Payloads]

Answers == [opcode : Control, payload : Payloads \union {PROTERR, <<"NORMAL">>}]
Given == [type : {"TXT", "BIN"}, msg : Payloads]

Closed == {"handshake", "onclose", "ended", "close", "do_close"}
Reading == {"head", "body", "answer"}

Types ==
  /\ frame \in Frames /\ read \in Seq(Frames)
  /\ out \in Seq(Answers) /\ delivered \in Seq(Given)

(* Where the thread is tells what frame and what message are under way.    *)
FlowInv ==
  /\ pc = "handshake" => frame_type = "NONE"
  /\ pc = "body" => Len(read) < MaxFrames
  /\ pc = "answer" => frame.opcode \in Control
  /\ pc \in Reading => frame_type # "CLSE"
  /\ pc = "body" /\ frame.opcode \in Data => frame_type \in {"TXT", "BIN"}
  /\ pc = "deliver" => frame_type \in {"TXT", "BIN"}

Whole == IF msg_data = <<>> THEN 0 ELSE Len(msg_data) + 1

RoomInv ==
  /\ pc \in Closed => msg_data = <<>> /\ cap = 0
  /\ pc \in Reading => cap = Len(msg_data) /\ cap <= MAX_FRAME_LENGTH
  /\ pc = "deliver" => cap = Whole

(* The one late message leaves nothing to be read but a close frame.       *)
LateInv ==
  server # "shut" =>
    /\ state # "CLOSED"
    /\ \/ late = 0
       \/ /\ late = 1 /\ state = "CLOSING" /\ pc \notin {"handshake", "deliver"}
          /\ pc \in {"body", "answer"} => frame.opcode = "CLSE"

IInv == TypeOK /\ Types /\ FlowInv /\ RoomInv /\ LateInv

-----------------------------------------------------------------------------
LEMMA Assumed ==
  /\ MaxLen \in Nat /\ MaxControl \in Nat /\ MaxFrames \in Nat /\ MAX_FRAME_LENGTH \in Nat
  /\ Width \in Nat /\ MAX_FRAME_LENGTH + MaxLen < Width
  BY FramesAssumption DEF FramesAssumption

LEMMA EmptyPayload == <<>> \in Payloads
  BY DEF Payloads

LEMMA NoFrameType == NoFrame \in Frames
  BY EmptyPayload DEF NoFrame, Frames, Control

(* The bytes of a frame, and of a message that they are put behind.        *)
LEMMA BytesType ==
  ASSUME NEW n \in Nat, n <= MaxLen + MaxControl, Len(read) \in Nat, Len(read) < MaxFrames
  PROVE  Bytes(n) \in Payloads /\ Len(Bytes(n)) = n
<1>1. \A i \in 1 .. n : <<Len(read) + 1, i>> \in (1 .. MaxFrames) \X (1 .. MaxLen + MaxControl)
  BY Assumed
<1>2. Bytes(n) \in [1 .. n -> (1 .. MaxFrames) \X (1 .. MaxLen + MaxControl)]
  BY <1>1 DEF Bytes
<1> QED BY <1>2 DEF Payloads

LEMMA JoinedType ==
  ASSUME NEW s \in Payloads, NEW t \in Payloads
  PROVE  s \o t \in Payloads /\ Len(s \o t) = Len(s) + Len(t) /\ Len(s) \in Nat /\ Len(t) \in Nat
  BY DEF Payloads

(* Numbers of the width of a length: one that fits is itself, a sum of two *)
(* that does not has lost Width once.                                      *)
LEMMA Narrow ==
  ASSUME NEW n \in Nat, n < Width
  PROVE  n % Width = n
  BY Assumed

LEMMA Wrapped ==
  ASSUME NEW n \in Nat, Width <= n, n < Width + Width
  PROVE  n % Width = n - Width
  BY Assumed

(* A frame that comes whole leaves the message within the limit.           *)
LEMMA WithinLimit ==
  ASSUME NEW n \in Nat, DataFits(n), Len(msg_data) \in Nat, Len(msg_data) <= MAX_FRAME_LENGTH
  PROVE  Len(msg_data) + n <= MAX_FRAME_LENGTH
<1>1. Len(msg_data) + n \in Nat /\ Len(msg_data) + n < Width
  BY Assumed DEF DataFits
<1> QED BY <1>1, Narrow DEF DataFits, WithMore

(* What Room allocates: the message so far, and the terminator of a        *)
(* message that is complete and not empty.                                 *)
LEMMA RoomFits ==
  ASSUME NEW n \in Nat, NEW t \in Payloads, Len(t) = n, n <= MaxLen,
         msg_data \in Payloads, cap = Len(msg_data), frame.is_fin \in BOOLEAN,
         Len(msg_data) + n <= MAX_FRAME_LENGTH
  PROVE  Room(n) = IF ~frame.is_fin THEN Len(msg_data \o t)
                   ELSE IF msg_data \o t = <<>> THEN 0 ELSE Len(msg_data \o t) + 1
<1>1. /\ msg_data \o t \in Payloads /\ Len(msg_data \o t) = Len(msg_data) + n
      /\ Len(msg_data) \in Nat
  BY JoinedType
<1>2. /\ msg_data = <<>> <=> Len(msg_data) = 0
      /\ msg_data \o t = <<>> <=> Len(msg_data) + n = 0
  <2>1. \A s \in Payloads : s = <<>> <=> Len(s) = 0
    BY DEF Payloads
  <2> QED BY <1>1, <2>1
<1>3. CASE n > 0
  <2>1. /\ Len(msg_data) + n + Terminator \in Nat
        /\ Len(msg_data) + n + Terminator < Width
    BY <1>1, <1>3, Assumed DEF Terminator
  <2>2. Room(n) = Len(msg_data) + n + Terminator
    BY <1>3, <2>1, Narrow DEF Room
  <2> QED BY <1>1, <1>2, <1>3, <2>2 DEF Terminator
<1>4. CASE n = 0
  BY <1>1, <1>2, <1>4 DEF Room
<1> QED BY <1>3, <1>4

(* Where the sum of the lengths wraps, the block shrinks to no more than   *)
(* the message had, and what is written keeps its type.                    *)
LEMMA Overwritten ==
  ASSUME NEW n \in 0 .. (Width - 1), Overrun(n), msg_data \in Payloads,
         cap = Len(msg_data), cap <= MAX_FRAME_LENGTH, frame.is_fin \in BOOLEAN,
         Len(read) \in Nat, Len(read) < MaxFrames
  PROVE  cap' \in 0 .. MAX_FRAME_LENGTH + 1 /\ msg_data' \in Payloads
<1>1. /\ n \in Nat /\ Len(msg_data) \in Nat /\ Terminator \in {0, 1}
      /\ Width <= Len(msg_data) + n /\ Len(msg_data) > 0
  BY Assumed DEF Overrun, Terminator, Payloads
<1>2. cap' = Len(msg_data) + n + Terminator - Width
  <2> DEFINE sum == Len(msg_data) + n + Terminator
  <2>1. sum \in Nat /\ Width <= sum /\ sum < Width + Width
    BY <1>1, Assumed
  <2>2. cap' = sum % Width
    BY DEF Overrun
  <2> HIDE DEF sum
  <2>3. cap' = sum - Width
    BY <2>1, <2>2, Wrapped
  <2> QED BY <1>1, <2>3, Assumed DEF sum
<1>3. cap' \in 0 .. MAX_FRAME_LENGTH + 1
  BY <1>1, <1>2, Assumed
<1>4. <<Len(read) + 1, 1>> \in (1 .. MaxFrames) \X (1 .. MaxLen + MaxControl)
  <2>1. msg_data[1] \in (1 .. MaxFrames) \X (1 .. MaxLen + MaxControl)
    BY <1>1 DEF Payloads
  <2>2. 1 <= MaxLen + MaxControl
    BY <2>1, Assumed
  <2> QED BY <2>2, Assumed
<1>5. msg_data' \in Payloads
  BY <1>4 DEF Overrun, Payloads
<1> QED BY <1>3, <1>5

-----------------------------------------------------------------------------
(* What TypeOK says of frames and answers follows from Types.               *)
LEMMA TypesOfFrames ==
  ASSUME Types
  PROVE  /\ FrameOK(frame) /\ \A k \in DOMAIN read : FrameOK(read[k])
         /\ \A k \in DOMAIN out : out[k].opcode \in Control
         /\ \A k \in DOMAIN delivered : delivered[k].type \in {"TXT", "BIN"}
<1>1. \A f \in Frames : FrameOK(f)
  BY DEF Frames, FrameOK
<1>2. \A k \in DOMAIN read : read[k] \in Frames
  BY DEF Types
<1>3. \A k \in DOMAIN out : out[k] \in Answers
  BY DEF Types
<1>4. \A k \in DOMAIN delivered : delivered[k] \in Given
  BY DEF Types
<1> QED BY <1>1, <1>2, <1>3, <1>4 DEF Types, Answers, Given

LEMMA InitInv == Init => IInv
<1> SUFFICES ASSUME Init PROVE IInv
  OBVIOUS
<1>1. Types
  BY NoFrameType DEF Init, Types
<1>2. TypeOK
  <2>1. /\ FrameOK(frame) /\ \A k \in DOMAIN read : FrameOK(read[k])
        /\ \A k \in DOMAIN out : out[k].opcode \in Control
        /\ \A k \in DOMAIN delivered : delivered[k].type \in {"TXT", "BIN"}
    BY <1>1, TypesOfFrames
  <2>2. /\ msg_data \in Payloads
        /\ cap \in 0 .. MAX_FRAME_LENGTH + 1 /\ Len(read) <= MaxFrames
    BY EmptyPayload, Assumed DEF Init
  <2> QED BY <2>1, <2>2 DEF Init, TypeOK, Places, States
<1>3. FlowInv /\ RoomInv /\ LateInv
  BY DEF Init, FlowInv, RoomInv, LateInv, Closed, Reading
<1> QED BY <1>1, <1>2, <1>3 DEF IInv

-----------------------------------------------------------------------------
(* Steps that leave the frame, the histories and the answers alone: only    *)
(* where the thread is and what it has of the message can change.           *)
LEMMA QuietStep ==
  ASSUME IInv, UNCHANGED <<frame, server, histVars>>,
         pc' \in Places, state' \in States, gone' \in BOOLEAN,
         frame_type' \in {"NONE", "TXT", "BIN", "CLSE"},
         \/ UNCHANGED <<msg_data, cap>>
         \/ msg_data' = <<>> /\ cap' = 0,
         lost' \in Nat
  PROVE  TypeOK' /\ Types'
<1>1. Types'
  BY DEF IInv, Types, histVars
<1>2. /\ FrameOK(frame)' /\ (\A k \in DOMAIN read : FrameOK(read[k]))'
      /\ (\A k \in DOMAIN out : out[k].opcode \in Control)'
      /\ (\A k \in DOMAIN delivered : delivered[k].type \in {"TXT", "BIN"})'
  BY TypesOfFrames, UNCHANGED <<frame, histVars>> DEF IInv, histVars, FrameOK
<1>3. msg_data' \in Payloads /\ cap' \in 0 .. MAX_FRAME_LENGTH + 1
  BY EmptyPayload, Assumed DEF IInv, TypeOK
<1>4. Len(read)' <= MaxFrames /\ late' \in Nat
      /\ server' \in {"idle", "sent", "timer", "done", "shut"}
  BY DEF IInv, TypeOK, histVars
<1> QED BY <1>1, <1>2, <1>3, <1>4 DEF TypeOK

LEMMA Step == IInv /\ [Next]_vars => IInv'
<1> SUFFICES ASSUME IInv, [Next]_vars PROVE IInv'
  OBVIOUS
<1> USE DEF msgVars, histVars, Places, States
<1>1. CASE HandshakeDone
  <2>1. TypeOK' /\ Types'
    BY <1>1, QuietStep DEF HandshakeDone, IInv, TypeOK
  <2>2. FlowInv' /\ RoomInv' /\ LateInv'
    BY <1>1, Assumed DEF HandshakeDone, IInv, FlowInv, RoomInv, LateInv, Closed, Reading
  <2> QED BY <2>1, <2>2 DEF IInv
<1>2. CASE HandshakeFails
  <2>1. TypeOK' /\ Types'
    BY <1>2, QuietStep DEF HandshakeFails, IInv, TypeOK
  <2>2. FlowInv' /\ RoomInv' /\ LateInv'
    BY <1>2 DEF HandshakeFails, IInv, FlowInv, RoomInv, LateInv, Closed, Reading
  <2> QED BY <2>1, <2>2 DEF IInv
<1>3. CASE EndsBetween
  <2>1. TypeOK' /\ Types'
    BY <1>3, QuietStep DEF EndsBetween, IInv, TypeOK
  <2>2. FlowInv' /\ RoomInv' /\ LateInv'
    BY <1>3 DEF EndsBetween, IInv, FlowInv, RoomInv, LateInv, Closed, Reading
  <2> QED BY <2>1, <2>2 DEF IInv
<1>4. CASE HeadRefused \/ BodyFails \/ PongFails \/ OverrunEnds \/ Crash
  <2>1. TypeOK' /\ Types'
    BY <1>4, QuietStep
    DEF HeadRefused, BodyFails, PongFails, OverrunEnds, Crash, Abort, IInv, TypeOK
  <2>2. FlowInv' /\ RoomInv' /\ LateInv'
    BY <1>4
    DEF HeadRefused, BodyFails, PongFails, OverrunEnds, Crash, Abort, IInv, FlowInv, RoomInv,
        LateInv, Closed, Reading
  <2> QED BY <2>1, <2>2 DEF IInv
<1>5. ASSUME NEW op \in Data \union Control, NEW fin \in BOOLEAN, HeadAccepted(op, fin)
      PROVE  IInv'
  <2>1. frame' \in Frames
    BY <1>5, EmptyPayload DEF HeadAccepted, Frames
  <2>2. Types'
    BY <1>5, <2>1 DEF HeadAccepted, IInv, Types
  <2>3. TypeOK'
    <3>1. /\ FrameOK(frame)' /\ (\A k \in DOMAIN read : FrameOK(read[k]))'
      BY <1>5, <2>1, TypesOfFrames DEF HeadAccepted, IInv, Frames, FrameOK
    <3> QED BY <1>5, <3>1 DEF HeadAccepted, IInv, TypeOK
  <2>4. FlowInv'
    <3>1. op \in Data /\ op \notin {"TXT", "BIN"} => frame_type # "NONE"
      BY <1>5 DEF HeadAccepted, Unexpected, Data, Control
    <3>2. frame_type \in {"NONE", "TXT", "BIN"} /\ Len(read) < MaxFrames /\ frame'.opcode = op
      BY <1>5, Assumed DEF HeadAccepted, IInv, TypeOK, FlowInv, Reading
    <3> QED BY <1>5, <3>1, <3>2 DEF HeadAccepted, FlowInv, Reading
  <2>5. RoomInv' /\ LateInv'
    BY <1>5 DEF HeadAccepted, IInv, RoomInv, LateInv, Closed, Reading
  <2> QED BY <2>2, <2>3, <2>4, <2>5 DEF IInv
<1>6. ASSUME NEW n \in 0 .. (MaxLen + MaxControl), Body(n) PROVE IInv'
  <2> DEFINE b == Bytes(n)
  <2>1. n \in Nat /\ n <= MaxLen + MaxControl /\ Len(read) \in Nat /\ Len(read) < MaxFrames
    BY <1>6, Assumed DEF Body, IInv, FlowInv, Types
  <2>2. b \in Payloads /\ Len(b) = n
    BY <2>1, BytesType
  <2> HIDE DEF b
  <2>3. frame' = [frame EXCEPT !.payload = b] /\ read' = Append(read, frame')
    BY <1>6 DEF Body, b
  <2>4. frame' \in Frames /\ frame'.opcode = frame.opcode /\ frame'.is_fin = frame.is_fin
    BY <2>2, <2>3 DEF IInv, Types, Frames
  <2>5. /\ read' \in Seq(Frames) /\ Len(read') = Len(read) + 1
    BY <2>3, <2>4 DEF IInv, Types
  <2>6. Types'
    BY <1>6, <2>4, <2>5 DEF Body, IInv, Types
  <2>7. /\ FrameOK(frame)' /\ (\A k \in DOMAIN read : FrameOK(read[k]))'
    <3>1. \A f \in Frames : FrameOK(f)
      BY DEF Frames, FrameOK
    <3>2. \A k \in DOMAIN read' : read'[k] \in Frames
      BY <2>5
    <3> QED BY <2>4, <3>1, <3>2 DEF FrameOK
  <2>8. CASE frame.opcode \in Control
    <3>1. UNCHANGED <<msg_data, cap, state, gone, frame_type, lost, server, delivered, out, late>>
          /\ pc' = "answer" /\ pc = "body"
      BY <1>6, <2>8 DEF Body
    <3>2. TypeOK'
      BY <2>1, <2>5, <2>7, <3>1, Assumed DEF IInv, TypeOK
    <3>3. FlowInv' /\ RoomInv' /\ LateInv'
      BY <2>4, <2>8, <3>1 DEF IInv, FlowInv, RoomInv, LateInv, Closed, Reading
    <3> QED BY <2>6, <3>2, <3>3 DEF IInv
  <2>9. CASE frame.opcode \notin Control
    <3>1. /\ pc = "body" /\ msg_data' = msg_data \o b /\ cap' = Room(n)
          /\ pc' = IF frame.is_fin THEN "deliver" ELSE "head"
          /\ UNCHANGED <<state, gone, frame_type, lost, server, delivered, out, late>>
      BY <1>6, <2>9 DEF Body, b
    <3>2. /\ msg_data \in Payloads /\ cap = Len(msg_data) /\ frame.is_fin \in BOOLEAN
          /\ Len(msg_data) <= MAX_FRAME_LENGTH
      BY <3>1 DEF IInv, TypeOK, RoomInv, Reading, Types, Frames
    <3>3. /\ msg_data' \in Payloads /\ Len(msg_data') = Len(msg_data) + n
          /\ Len(msg_data) \in Nat /\ Len(msg_data') \in Nat
      BY <2>1, <2>2, <3>1, <3>2, JoinedType
    <3>4. n <= MaxLen /\ Len(msg_data') <= MAX_FRAME_LENGTH
      <4>1. DataFits(n)
        BY <1>6, <2>9 DEF Body
      <4> QED BY <2>1, <3>2, <3>3, <4>1, WithinLimit DEF DataFits
    <3>5. cap' = IF ~frame.is_fin THEN Len(msg_data')
                 ELSE IF msg_data' = <<>> THEN 0 ELSE Len(msg_data') + 1
      BY <2>1, <2>2, <3>1, <3>2, <3>3, <3>4, RoomFits
    <3>6. cap' \in 0 .. MAX_FRAME_LENGTH + 1
      BY <3>3, <3>4, <3>5, Assumed
    <3>7. TypeOK'
      BY <2>1, <2>5, <2>7, <3>1, <3>3, <3>5, <3>6, Assumed DEF IInv, TypeOK
    <3>8. frame.opcode \in Data
      BY <2>9 DEF IInv, Types, Frames
    <3>9. FlowInv'
      BY <3>1, <3>2, <3>8 DEF IInv, FlowInv, Reading
    <3>10. RoomInv'
      BY <3>1, <3>2, <3>4, <3>5 DEF RoomInv, Whole, Closed, Reading
    <3>11. LateInv'
      <4>1. "CLSE" \notin Data
        BY DEF Data
      <4> QED BY <3>1, <3>8, <4>1 DEF IInv, LateInv
    <3> QED BY <2>6, <3>7, <3>9, <3>10, <3>11 DEF IInv
  <2> QED BY <2>8, <2>9
<1>7. CASE Pong
  <2>1. frame.payload \in Payloads
    BY DEF IInv, Types, Frames
  <2>2. out' \in Seq(Answers)
    <3>1. [opcode |-> "PONG", payload |-> frame.payload] \in Answers
      BY <2>1 DEF Answers, Control
    <3> QED BY <1>7, <3>1 DEF Pong, SendFrame, IInv, Types
  <2>3. Types'
    BY <1>7, <2>2 DEF Pong, IInv, Types
  <2>4. TypeOK'
    <3>1. (\A k \in DOMAIN out : out[k].opcode \in Control)'
      <4>1. \A k \in DOMAIN out' : out'[k] \in Answers
        BY <2>2
      <4> QED BY <4>1 DEF Answers
    <3> QED BY <1>7, <3>1 DEF Pong, IInv, TypeOK, FrameOK
  <2>5. FlowInv' /\ RoomInv' /\ LateInv'
    BY <1>7 DEF Pong, IInv, FlowInv, RoomInv, LateInv, Closed, Reading
  <2> QED BY <2>3, <2>4, <2>5 DEF IInv
<1>8. CASE TakePong
  <2>1. TypeOK' /\ Types'
    BY <1>8, QuietStep DEF TakePong, IInv, TypeOK
  <2>2. FlowInv' /\ RoomInv' /\ LateInv'
    BY <1>8 DEF TakePong, IInv, FlowInv, RoomInv, LateInv, Closed, Reading
  <2> QED BY <2>1, <2>2 DEF IInv
<1>9. CASE TakeClose
  <2>1. TypeOK' /\ Types'
    BY <1>9, QuietStep DEF TakeClose, IInv, TypeOK
  <2>2. FlowInv' /\ RoomInv' /\ LateInv'
    BY <1>9 DEF TakeClose, IInv, FlowInv, RoomInv, LateInv, Closed, Reading
  <2> QED BY <2>1, <2>2 DEF IInv
<1>10. CASE OnMessage
  <2>1. frame_type \in {"TXT", "BIN"} /\ msg_data \in Payloads
    BY <1>10 DEF OnMessage, IInv, FlowInv, TypeOK
  <2>2. delivered' \in Seq(Given)
    <3>1. [type |-> frame_type, msg |-> msg_data] \in Given
      BY <2>1 DEF Given
    <3> QED BY <1>10, <3>1 DEF OnMessage, IInv, Types
  <2>3. Types'
    BY <1>10, <2>2 DEF OnMessage, IInv, Types
  <2>4. /\ late' \in Nat
        /\ server # "shut" => late' = 0 \/ (late' = 1 /\ state = "CLOSING")
    BY <1>10 DEF OnMessage, IInv, LateInv, TypeOK
  <2>5. TypeOK'
    <3>1. (\A k \in DOMAIN delivered : delivered[k].type \in {"TXT", "BIN"})'
      <4>1. \A k \in DOMAIN delivered' : delivered'[k] \in Given
        BY <2>2
      <4> QED BY <4>1 DEF Given
    <3>2. msg_data' \in Payloads /\ cap' \in 0 .. MAX_FRAME_LENGTH + 1
      BY <1>10, EmptyPayload, Assumed DEF OnMessage
    <3> QED BY <1>10, <2>4, <3>1, <3>2 DEF OnMessage, IInv, TypeOK, FrameOK
  <2>6. FlowInv' /\ RoomInv' /\ LateInv'
    BY <1>10, <2>4, Assumed DEF OnMessage, IInv, FlowInv, RoomInv, LateInv, Closed, Reading
  <2> QED BY <2>3, <2>5, <2>6 DEF IInv
<1>11. CASE NoAnswer \/ Answer \/ DoCloseFails \/ OnClose \/ NothingMore
  <2>1. TypeOK' /\ Types'
    BY <1>11, QuietStep DEF NoAnswer, Answer, DoCloseFails, OnClose, NothingMore, IInv, TypeOK
  <2>2. FlowInv' /\ RoomInv' /\ LateInv'
    BY <1>11
    DEF NoAnswer, Answer, DoCloseFails, OnClose, NothingMore, IInv, FlowInv, RoomInv, LateInv,
        Closed, Reading, Whole
  <2> QED BY <2>1, <2>2 DEF IInv
<1>12. CASE DoClose \/ ServerSendsClose
  <2>1. frame.payload \in Payloads
    BY DEF IInv, Types, Frames
  <2>2. out' \in Seq(Answers)
    <3>1. \A x \in {frame.payload, PROTERR, <<"NORMAL">>} :
            [opcode |-> "CLSE", payload |-> x] \in Answers
      BY <2>1 DEF Answers, Control
    <3>2. PICK x \in {frame.payload, PROTERR, <<"NORMAL">>} : SendFrame("CLSE", x)
      BY <1>12 DEF DoClose, ServerSendsClose
    <3> QED BY <3>1, <3>2 DEF SendFrame, IInv, Types
  <2>3. Types'
    BY <1>12, <2>2 DEF DoClose, ServerSendsClose, IInv, Types
  <2>4. TypeOK'
    <3>1. (\A k \in DOMAIN out : out[k].opcode \in Control)'
      <4>1. \A k \in DOMAIN out' : out'[k] \in Answers
        BY <2>2
      <4> QED BY <4>1 DEF Answers
    <3> QED BY <1>12, <3>1 DEF DoClose, ServerSendsClose, IInv, TypeOK, FrameOK
  <2>5. FlowInv' /\ RoomInv' /\ LateInv'
    BY <1>12
    DEF DoClose, ServerSendsClose, IInv, FlowInv, RoomInv, LateInv, Closed, Reading, Whole
  <2> QED BY <2>3, <2>4, <2>5 DEF IInv
<1>13. CASE ServerMarksClosing \/ ServerShuts
  <2>1. Types' /\ TypeOK'
    BY <1>13 DEF ServerMarksClosing, ServerShuts, IInv, Types, TypeOK, FrameOK
  <2>2. FlowInv' /\ RoomInv' /\ LateInv'
    BY <1>13
    DEF ServerMarksClosing, ServerShuts, IInv, FlowInv, RoomInv, LateInv, Closed, Reading, Whole
  <2> QED BY <2>1, <2>2 DEF IInv
<1>14. ASSUME NEW n \in 0 .. (Width - 1), Overrun(n) PROVE IInv'
  <2>1. /\ pc = "body" /\ pc' = "overrun"
        /\ UNCHANGED <<state, gone, frame, frame_type, lost, server, read, delivered, out, late>>
    BY <1>14 DEF Overrun
  <2>2. cap' \in 0 .. MAX_FRAME_LENGTH + 1 /\ msg_data' \in Payloads
    <3>1. /\ msg_data \in Payloads /\ cap = Len(msg_data) /\ cap <= MAX_FRAME_LENGTH
          /\ frame.is_fin \in BOOLEAN /\ Len(read) \in Nat /\ Len(read) < MaxFrames
      BY <2>1 DEF IInv, TypeOK, RoomInv, Reading, Types, Frames, FlowInv
    <3> QED BY <1>14, <3>1, Overwritten
  <2>3. Types' /\ TypeOK'
    BY <2>1, <2>2 DEF IInv, Types, TypeOK, FrameOK
  <2>4. FlowInv' /\ RoomInv' /\ LateInv'
    BY <2>1 DEF IInv, FlowInv, RoomInv, LateInv, Closed, Reading
  <2> QED BY <2>3, <2>4 DEF IInv
<1>15. CASE UNCHANGED vars
  BY <1>15 DEF vars, IInv, TypeOK, Types, FlowInv, RoomInv, LateInv, Whole, FrameOK
<1> QED
  BY <1>1, <1>2, <1>3, <1>4, <1>5, <1>6, <1>7, <1>8, <1>9, <1>10, <1>11, <1>12, <1>13, <1>14,
     <1>15
  DEF Next, Thread, Reads

-----------------------------------------------------------------------------
(* The invariant holds throughout.                                         *)
THEOREM Invariance == Spec => []IInv
<1>1. Init => IInv
  BY InitInv
<1>2. IInv /\ [Next]_vars => IInv'
  BY Step
<1> QED BY <1>1, <1>2, PTL DEF Spec

(* What a client thread has read, put together and sent keeps its type,    *)
(* and what is allocated for a message stays within one byte of the limit, *)
(* wrapped lengths included.                                               *)
THEOREM TypeCorrect == Spec => []TypeOK
<1>1. IInv => TypeOK
  BY DEF IInv
<1> QED BY <1>1, Invariance, PTL

(* However a message is cut into frames, and whatever comes between them,  *)
(* it has room for the terminator that onmessage relies on, and lies in    *)
(* its block before, unless a sum of lengths has wrapped.                  *)
THEOREM TerminatorsFit == Spec => []TerminatorFits
<1>1. IInv => TerminatorFits
  <2> SUFFICES ASSUME IInv PROVE TerminatorFits
    OBVIOUS
  <2>1. Len(msg_data) \in Nat /\ (msg_data = <<>> => Len(msg_data) = 0)
    BY DEF IInv, TypeOK, Payloads
  <2>2. pc \in Closed \union Reading \union {"deliver", "overrun", "crashed"}
    BY DEF IInv, TypeOK, Places, Closed, Reading
  <2>3. CASE pc \in Closed \union Reading
    BY <2>1, <2>3 DEF IInv, RoomInv, TerminatorFits, Closed, Reading
  <2>4. CASE pc = "deliver"
    BY <2>1, <2>4 DEF IInv, RoomInv, Whole, TerminatorFits
  <2> QED BY <2>2, <2>3, <2>4 DEF TerminatorFits
<1> QED BY <1>1, Invariance, PTL

(* Once the server has begun to close a connection, and until its timeout  *)
(* or a ping has shut the socket, one message more is delivered at most.   *)
THEOREM OneLateMessage == Spec => []AtMostOneLate
<1>1. IInv => AtMostOneLate
  BY DEF IInv, LateInv, AtMostOneLate
<1> QED BY <1>1, Invariance, PTL

-----------------------------------------------------------------------------
(* Frames in their order                                                   *)

LEMMA AppendIndices ==
  ASSUME NEW S, NEW s \in Seq(S), NEW x \in S
  PROVE  /\ Len(s) \in Nat /\ DOMAIN s = 1 .. Len(s) /\ DOMAIN s \subseteq Nat
         /\ Len(Append(s, x)) = Len(s) + 1
         /\ DOMAIN Append(s, x) = DOMAIN s \union {Len(s) + 1}
         /\ Append(s, x)[Len(s) + 1] = x
         /\ \A k \in DOMAIN s : Append(s, x)[k] = s[k] /\ k < Len(s) + 1
         /\ Len(s) + 1 \notin DOMAIN s
  OBVIOUS

LEMMA SomeOf ==
  ASSUME NEW S, NEW s \in Seq(S), NEW A \in SUBSET (DOMAIN s)
  PROVE  IsFiniteSet(A) /\ A \subseteq Nat
<1>1. DOMAIN s = 1 .. Len(s) /\ Len(s) \in Nat /\ DOMAIN s \subseteq Nat
  OBVIOUS
<1>2. IsFiniteSet(1 .. Len(s))
  BY <1>1, FS_Interval
<1> QED BY <1>1, <1>2, FS_Subset

(* A new last member leaves the numbers of the others as they are.         *)
LEMMA NumbersKept ==
  ASSUME NEW A \in SUBSET Nat, IsFiniteSet(A), NEW n \in Nat, \A j \in A : j < n
  PROVE  /\ Cardinality(A \union {n}) = Cardinality(A) + 1 /\ Cardinality(A) \in Nat
         /\ Number(A \union {n}, n) = Cardinality(A) + 1
         /\ \A k \in A : /\ Number(A \union {n}, k) = Number(A, k)
                         /\ Number(A, k) \in 1 .. Cardinality(A)
<1>1. n \notin A
  OBVIOUS
<1>2. Cardinality(A \union {n}) = Cardinality(A) + 1 /\ Cardinality(A) \in Nat
  BY <1>1, FS_AddElement, FS_CardinalityType
<1>3. {j \in A \union {n} : j <= n} = A \union {n}
  <2>1. \A j \in A \union {n} : j <= n
    OBVIOUS
  <2> QED BY <2>1
<1>4. ASSUME NEW k \in A
      PROVE  /\ Number(A \union {n}, k) = Number(A, k)
             /\ Number(A, k) \in 1 .. Cardinality(A)
  <2>1. {j \in A \union {n} : j <= k} = {j \in A : j <= k}
    OBVIOUS
  <2>2. {j \in A : j <= k} \subseteq A /\ {k} \subseteq {j \in A : j <= k}
    OBVIOUS
  <2>3. /\ IsFiniteSet({j \in A : j <= k}) /\ Cardinality({j \in A : j <= k}) <= Cardinality(A)
    BY <2>2, FS_Subset
  <2>4. Cardinality({k}) <= Cardinality({j \in A : j <= k}) /\ Cardinality({k}) = 1
    BY <2>2, <2>3, FS_Subset, FS_Singleton
  <2>5. Cardinality({j \in A : j <= k}) \in Nat
    BY <2>3, FS_CardinalityType
  <2> QED BY <1>2, <2>1, <2>3, <2>4, <2>5, SMTT(20) DEF Number
<1> QED BY <1>2, <1>3, <1>4 DEF Number

LEMMA FramesAppended ==
  ASSUME NEW S, NEW s \in Seq(S), NEW x \in S, NEW op
  PROVE  /\ FramesWith(Append(s, x), op) =
              IF x.opcode = op THEN FramesWith(s, op) \union {Len(s) + 1} ELSE FramesWith(s, op)
         /\ IsFiniteSet(FramesWith(s, op)) /\ FramesWith(s, op) \subseteq Nat
         /\ FramesWith(s, op) \subseteq DOMAIN s
         /\ \A k \in FramesWith(s, op) : k < Len(s) + 1 /\ Append(s, x)[k] = s[k]
<1>1. FramesWith(s, op) \in SUBSET (DOMAIN s)
  BY DEF FramesWith
<1>2. IsFiniteSet(FramesWith(s, op)) /\ FramesWith(s, op) \subseteq Nat
  BY <1>1, SomeOf
<1>3. FramesWith(Append(s, x), op) =
        IF x.opcode = op THEN FramesWith(s, op) \union {Len(s) + 1} ELSE FramesWith(s, op)
  BY AppendIndices DEF FramesWith
<1> QED BY <1>1, <1>2, <1>3, AppendIndices

-----------------------------------------------------------------------------
(* Pings and pongs: as many of the one as of the other, but for the ping   *)
(* that is about to be answered.                                           *)

Pings == FramesWith(read, "PING")
Pongs == FramesWith(out, "PONG")

Balanced == {"handshake", "head", "body", "deliver"}

AnswerInv ==
  /\ \A k \in Pongs : \E j \in Pings :
       Number(Pings, j) = Number(Pongs, k) /\ out[k].payload = read[j].payload
  /\ pc \in Balanced => Cardinality(Pongs) = Cardinality(Pings)
  /\ pc = "answer" =>
       /\ read # <<>> /\ frame = read[Len(read)]
       /\ Cardinality(Pings) =
            IF frame.opcode = "PING" THEN Cardinality(Pongs) + 1 ELSE Cardinality(Pongs)
  /\ server = "idle" =>
       \A k \in FramesWith(out, "CLSE") : k = Len(out) /\ pc \in {"onclose", "ended"}

LEMMA AnswerInit == Init => AnswerInv
<1> SUFFICES ASSUME Init PROVE AnswerInv
  OBVIOUS
<1>1. Pings = {} /\ Pongs = {} /\ FramesWith(out, "CLSE") = {} /\ pc = "handshake"
  BY DEF Init, Pings, Pongs, FramesWith
<1> QED BY <1>1 DEF AnswerInv

LEMMA AnswerQuiet ==
  ASSUME AnswerInv, UNCHANGED <<read, out>>, server' = "idle" => server = "idle",
         pc \in {"onclose", "ended"} => pc' \in {"onclose", "ended"},
         pc' = "answer" => pc = "answer" /\ UNCHANGED frame,
         pc' \in Balanced => pc \in Balanced \/ (pc = "answer" /\ frame.opcode # "PING")
  PROVE  AnswerInv'
  BY DEF AnswerInv, Pings, Pongs

LEMMA AnswerStep == IInv /\ AnswerInv /\ [Next]_vars => AnswerInv'
<1> SUFFICES ASSUME IInv, AnswerInv, [Next]_vars PROVE AnswerInv'
  OBVIOUS
<1> USE DEF msgVars, histVars, Balanced
<1>0. read \in Seq(Frames) /\ out \in Seq(Answers) /\ frame \in Frames
  BY DEF IInv, Types
<1>1. CASE \/ HandshakeDone \/ HandshakeFails \/ EndsBetween \/ HeadRefused \/ BodyFails
           \/ TakePong \/ TakeClose \/ OnMessage \/ NoAnswer \/ Answer \/ DoCloseFails \/ OnClose
           \/ PongFails \/ OverrunEnds \/ Crash \/ NothingMore \/ ServerMarksClosing \/ ServerShuts
           \/ UNCHANGED vars
  BY <1>1, AnswerQuiet
  DEF HandshakeDone, HandshakeFails, EndsBetween, HeadRefused, BodyFails, TakePong, TakeClose,
      OnMessage, NoAnswer, Answer, DoCloseFails, OnClose, PongFails, OverrunEnds, Crash,
      NothingMore, ServerMarksClosing, ServerShuts, Abort, vars
<1>2. ASSUME NEW op \in Data \union Control, NEW fin \in BOOLEAN, HeadAccepted(op, fin)
      PROVE  AnswerInv'
  BY <1>2, AnswerQuiet DEF HeadAccepted
<1>3. ASSUME NEW n \in 0 .. (MaxLen + MaxControl), Body(n) PROVE AnswerInv'
  <2>1. /\ pc = "body" /\ read' = Append(read, frame') /\ UNCHANGED <<out, server>>
        /\ frame' = [frame EXCEPT !.payload = Bytes(n)]
        /\ pc' \in {"answer", "head", "deliver"} /\ (pc' = "answer" <=> frame.opcode \in Control)
    BY <1>3 DEF Body
  <2>2. frame' \in Frames /\ frame'.opcode = frame.opcode
    <3>1. Len(read) \in Nat /\ Len(read) < MaxFrames /\ n \in Nat /\ n <= MaxLen + MaxControl
      BY <1>0, <2>1, Assumed DEF IInv, FlowInv
    <3>2. Bytes(n) \in Payloads
      BY <3>1, BytesType
    <3> QED BY <1>0, <2>1, <3>2 DEF Frames
  <2> DEFINE K == Len(read) + 1
  <2>3. /\ Pings' = IF frame.opcode = "PING" THEN Pings \union {K} ELSE Pings
        /\ IsFiniteSet(Pings) /\ Pings \subseteq Nat /\ Pings \subseteq DOMAIN read
        /\ \A k \in Pings : k < K /\ read'[k] = read[k]
    <3>1. \A f \in Frames :
            /\ FramesWith(Append(read, f), "PING") =
                 IF f.opcode = "PING" THEN FramesWith(read, "PING") \union {K}
                 ELSE FramesWith(read, "PING")
            /\ IsFiniteSet(FramesWith(read, "PING")) /\ FramesWith(read, "PING") \subseteq Nat
            /\ FramesWith(read, "PING") \subseteq DOMAIN read
            /\ \A k \in FramesWith(read, "PING") : k < K /\ Append(read, f)[k] = read[k]
      BY <1>0, FramesAppended
    <3> QED BY <2>1, <2>2, <3>1 DEF Pings
  <2>4. K \in Nat /\ Len(read') = K /\ read'[K] = frame' /\ read' # <<>>
    BY <1>0, <2>1, <2>2, AppendIndices
  <2>5. /\ Cardinality(Pings') =
             IF frame.opcode = "PING" THEN Cardinality(Pings) + 1 ELSE Cardinality(Pings)
        /\ \A j \in Pings : Number(Pings', j) = Number(Pings, j)
    <3>1. /\ Cardinality(Pings \union {K}) = Cardinality(Pings) + 1
          /\ \A j \in Pings : Number(Pings \union {K}, j) = Number(Pings, j)
      BY <2>3, <2>4, NumbersKept
    <3> HIDE DEF K, Pings
    <3> QED BY <2>3, <3>1
  <2>6. UNCHANGED Pongs /\ UNCHANGED FramesWith(out, "CLSE")
    BY <2>1 DEF Pongs
  <2> HIDE DEF K
  <2>7. ASSUME NEW k \in Pongs
        PROVE  \E j \in Pings' : Number(Pings', j) = Number(Pongs, k)
                                 /\ out[k].payload = read'[j].payload
    <3>1. PICK j \in Pings : Number(Pings, j) = Number(Pongs, k) /\ out[k].payload = read[j].payload
      BY DEF AnswerInv
    <3> QED BY <2>3, <2>5, <3>1
  <2>8. frame.opcode = "PING" => frame.opcode \in Control
    BY DEF Control
  <2> QED BY <2>1, <2>2, <2>4, <2>5, <2>6, <2>7, <2>8 DEF AnswerInv
<1>4. CASE Pong
  <2> DEFINE a == [opcode |-> "PONG", payload |-> frame.payload]
             K == Len(out) + 1
  <2>1. /\ pc = "answer" /\ frame.opcode = "PING" /\ pc' = "head" /\ out' = Append(out, a)
        /\ UNCHANGED <<read, server>>
    BY <1>4 DEF Pong, SendFrame
  <2>2. a \in Answers
    BY <1>0 DEF Answers, Frames, Control
  <2>3. /\ Pongs' = Pongs \union {K} /\ IsFiniteSet(Pongs) /\ Pongs \subseteq Nat
        /\ \A k \in Pongs : k < K /\ out'[k] = out[k]
        /\ FramesWith(out', "CLSE") = FramesWith(out, "CLSE")
    BY <1>0, <2>1, <2>2, FramesAppended DEF Pongs
  <2>4. K \in Nat /\ out'[K] = a
    BY <1>0, <2>1, <2>2, AppendIndices
  <2>5. /\ Cardinality(Pongs') = Cardinality(Pongs) + 1 /\ Cardinality(Pongs) \in Nat
        /\ Number(Pongs', K) = Cardinality(Pongs) + 1
        /\ \A k \in Pongs : Number(Pongs', k) = Number(Pongs, k)
    <3> HIDE DEF K, Pongs
    <3> QED BY <2>3, <2>4, NumbersKept
  <2>6. /\ read # <<>> /\ frame = read[Len(read)] /\ Cardinality(Pings) = Cardinality(Pongs) + 1
    BY <2>1 DEF AnswerInv
  <2>7. Len(read) \in Pings /\ Number(Pings, Len(read)) = Cardinality(Pings)
    <3>1. Len(read) \in DOMAIN read /\ \A j \in DOMAIN read : j <= Len(read)
      BY <1>0, <2>6
    <3>2. {j \in Pings : j <= Len(read)} = Pings
      BY <3>1 DEF Pings, FramesWith
    <3> QED BY <2>1, <2>6, <3>1, <3>2 DEF Pings, FramesWith, Number
  <2>8. UNCHANGED Pings
    BY <2>1 DEF Pings
  <2>9. ASSUME NEW k \in Pongs'
        PROVE  \E j \in Pings : Number(Pings, j) = Number(Pongs', k)
                                /\ out'[k].payload = read[j].payload
    <3>1. CASE k = K
      BY <2>4, <2>5, <2>6, <2>7, <3>1
    <3>2. CASE k # K
      <4>1. k \in Pongs
        BY <2>3, <3>2
      <4> QED BY <2>3, <2>5, <4>1 DEF AnswerInv
    <3> QED BY <3>1, <3>2
  <2>10. server' = "idle" => FramesWith(out', "CLSE") = {}
    BY <2>1, <2>3 DEF AnswerInv
  <2> HIDE DEF K, a
  <2> QED BY <2>1, <2>5, <2>6, <2>8, <2>9, <2>10 DEF AnswerInv
<1>5. CASE DoClose \/ ServerSendsClose
  <2>1. PICK x \in Payloads \union {PROTERR, <<"NORMAL">>} : SendFrame("CLSE", x)
    BY <1>0, <1>5 DEF DoClose, ServerSendsClose, Frames
  <2> DEFINE a == [opcode |-> "CLSE", payload |-> x]
  <2>2. a \in Answers /\ out' = Append(out, a)
    BY <2>1 DEF Answers, Control, SendFrame
  <2>3. /\ Pongs' = Pongs /\ Pongs \subseteq DOMAIN out
        /\ \A k \in Pongs : out'[k] = out[k]
        /\ FramesWith(out', "CLSE") = FramesWith(out, "CLSE") \union {Len(out) + 1}
    BY <1>0, <2>2, FramesAppended DEF Pongs
  <2>4. UNCHANGED Pings /\ UNCHANGED <<read, frame>> /\ (pc' = pc \/ pc' = "onclose")
    BY <1>5 DEF DoClose, ServerSendsClose, Pings
  <2>5. server' = "idle" => /\ server = "idle" /\ pc = "do_close" /\ pc' = "onclose"
    BY <1>5 DEF DoClose, ServerSendsClose
  <2>6. server' = "idle" => FramesWith(out', "CLSE") = {Len(out')}
    <3>1. Len(out') = Len(out) + 1
      BY <1>0, <2>2, AppendIndices
    <3> QED BY <2>3, <2>5, <3>1 DEF AnswerInv
  <2> HIDE DEF a
  <2> QED BY <2>3, <2>4, <2>5, <2>6 DEF AnswerInv
<1>6. ASSUME NEW n \in 0 .. (Width - 1), Overrun(n) PROVE AnswerInv'
  BY <1>6, AnswerQuiet DEF Overrun
<1> QED BY <1>1, <1>2, <1>3, <1>4, <1>5, <1>6 DEF Next, Thread, Reads

(* Whatever the peer sends and whenever either side closes: the k-th pong  *)
(* answers the k-th ping with its bytes, no ping is left out, and the      *)
(* thread's own close frame is the last thing that is sent.                *)
THEOREM PingsAnswered == Spec => []AnswersInOrder
<1>1. AnswerInv => AnswersInOrder
  BY DEF AnswerInv, AnswersInOrder, Pings, Pongs, Balanced
<1> QED BY <1>1, AnswerInit, AnswerStep, Invariance, PTL DEF Spec

-----------------------------------------------------------------------------
(* The data frames, and what they leave in memory                          *)

LEMMA DataAppended ==
  ASSUME NEW s \in Seq(Frames), NEW x \in Frames
  PROVE  /\ DataFrames(Append(s, x)) =
              IF x.opcode \in Data THEN DataFrames(s) \union {Len(s) + 1} ELSE DataFrames(s)
         /\ Finals(Append(s, x)) =
              IF x.opcode \in Data /\ x.is_fin THEN Finals(s) \union {Len(s) + 1} ELSE Finals(s)
         /\ Finals(s) \subseteq DataFrames(s) /\ IsFiniteSet(Finals(s))
         /\ DataFrames(s) \subseteq DOMAIN s /\ DataFrames(s) \subseteq Nat
         /\ \A k \in DataFrames(s) : k < Len(s) + 1 /\ k # Len(s) + 1 /\ Append(s, x)[k] = s[k]
         /\ Append(s, x)[Len(s) + 1] = x /\ Len(s) + 1 \in Nat
<1> DEFINE K == Len(s) + 1
<1>1. /\ DOMAIN Append(s, x) = DOMAIN s \union {K} /\ Append(s, x)[K] = x /\ K \notin DOMAIN s
      /\ \A k \in DOMAIN s : Append(s, x)[k] = s[k] /\ k < K
      /\ DOMAIN s \subseteq Nat /\ K \in Nat
  BY AppendIndices
<1> HIDE DEF K
<1>2. DataFrames(Append(s, x)) = IF x.opcode \in Data THEN DataFrames(s) \union {K} ELSE DataFrames(s)
  BY <1>1 DEF DataFrames
<1>3. Finals(Append(s, x)) =
        IF x.opcode \in Data /\ x.is_fin THEN Finals(s) \union {K} ELSE Finals(s)
  BY <1>1, <1>2 DEF DataFrames, Finals
<1>4. Finals(s) \subseteq DataFrames(s) /\ DataFrames(s) \in SUBSET (DOMAIN s)
  BY DEF DataFrames, Finals
<1>5. IsFiniteSet(Finals(s))
  BY <1>4, SomeOf
<1> QED BY <1>1, <1>2, <1>3, <1>4, <1>5 DEF K

(* The frame that Body completes.                                          *)
LEMMA BodyFrame ==
  ASSUME IInv, NEW n \in 0 .. (MaxLen + MaxControl), Body(n)
  PROVE  /\ read \in Seq(Frames) /\ frame' \in Frames /\ read' = Append(read, frame')
         /\ frame'.opcode = frame.opcode /\ frame'.is_fin = frame.is_fin
         /\ frame'.payload = Bytes(n) /\ Bytes(n) \in Payloads /\ Len(Bytes(n)) = n
         /\ n \in Nat /\ Len(read) \in Nat
<1>1. frame \in Frames /\ read \in Seq(Frames)
  BY DEF IInv, Types
<1>2. frame' = [frame EXCEPT !.payload = Bytes(n)] /\ read' = Append(read, frame') /\ pc = "body"
  BY DEF Body
<1>3. Len(read) \in Nat /\ Len(read) < MaxFrames /\ n \in Nat /\ n <= MaxLen + MaxControl
  BY <1>1, <1>2, Assumed DEF IInv, FlowInv
<1>4. Bytes(n) \in Payloads /\ Len(Bytes(n)) = n
  BY <1>3, BytesType
<1> QED BY <1>1, <1>2, <1>3, <1>4 DEF Frames

(* The last data frame ends no message: one is under way.                  *)
Unfinished ==
  \E k \in DataFrames(read) \ Finals(read) : \A j \in DataFrames(read) : j <= k

FreedInv ==
  /\ pc \notin {"onclose", "ended"} => lost = 0
  /\ pc = "handshake" => read = <<>>
  /\ pc \in Reading /\ msg_data # <<>> => Unfinished
  /\ lost > 0 => lost = 1 /\ (read # <<>> => gone /\ Unfinished)

LEMMA FreedStep == IInv /\ FreedInv /\ [Next]_vars => FreedInv'
<1> SUFFICES ASSUME IInv, FreedInv, [Next]_vars PROVE FreedInv'
  OBVIOUS
<1> USE DEF msgVars, histVars, Reading
<1>1. UNCHANGED read => UNCHANGED Unfinished
  BY DEF Unfinished
<1>2. CASE HandshakeFails
  BY <1>2 DEF HandshakeFails, FreedInv
<1>3. CASE EndsBetween
  <2>1. cap > 0 => msg_data # <<>>
    BY <1>3 DEF EndsBetween, IInv, RoomInv
  <2>2. lost = 0 /\ gone /\ (cap > 0 => Unfinished)
    BY <1>3, <2>1 DEF EndsBetween, FreedInv
  <2>3. cap > 0 \/ lost' = 0
    BY <1>3, <2>2 DEF EndsBetween
  <2>4. lost' \in {0, 1} /\ pc' = "onclose" /\ UNCHANGED <<read, gone>>
    BY <1>3, <2>2 DEF EndsBetween
  <2> QED BY <1>1, <2>2, <2>3, <2>4 DEF FreedInv
<1>4. ASSUME NEW n \in 0 .. (MaxLen + MaxControl), Body(n) PROVE FreedInv'
  <2>1. /\ pc = "body" /\ UNCHANGED <<lost, gone>> /\ pc' \in {"answer", "head", "deliver"}
        /\ pc' = "answer" => frame.opcode \in Control /\ UNCHANGED msg_data
        /\ pc' = "head" => frame.opcode \notin Control /\ ~frame.is_fin
    BY <1>4 DEF Body
  <2>2. lost = 0
    BY <2>1 DEF FreedInv
  <2>3. /\ read \in Seq(Frames) /\ frame' \in Frames /\ read' = Append(read, frame')
        /\ frame'.opcode = frame.opcode /\ frame'.is_fin = frame.is_fin
        /\ frame.opcode \in Control <=> frame.opcode \notin Data
    BY <1>4, BodyFrame DEF Frames, Data, Control
  <2> DEFINE K == Len(read) + 1
  <2>4. /\ DataFrames(read') =
             IF frame.opcode \in Data THEN DataFrames(read) \union {K} ELSE DataFrames(read)
        /\ Finals(read') =
             IF frame.opcode \in Data /\ frame.is_fin THEN Finals(read) \union {K}
             ELSE Finals(read)
        /\ Finals(read) \subseteq DataFrames(read) /\ DataFrames(read) \subseteq Nat
        /\ \A k \in DataFrames(read) : k < K /\ k # K
        /\ K \in Nat
    <3>1. \A f \in Frames :
            /\ DataFrames(Append(read, f)) =
                 IF f.opcode \in Data THEN DataFrames(read) \union {K} ELSE DataFrames(read)
            /\ Finals(Append(read, f)) =
                 IF f.opcode \in Data /\ f.is_fin THEN Finals(read) \union {K} ELSE Finals(read)
            /\ Finals(read) \subseteq DataFrames(read) /\ DataFrames(read) \subseteq Nat
            /\ \A k \in DataFrames(read) : k < K /\ k # K
            /\ K \in Nat
      BY <2>3, DataAppended
    <3> QED BY <2>3, <3>1
  <2> HIDE DEF K
  <2>5. CASE pc' = "answer"
    <3>1. UNCHANGED <<DataFrames(read), Finals(read), msg_data>>
      BY <2>1, <2>3, <2>4, <2>5
    <3>2. UNCHANGED Unfinished
      BY <3>1 DEF Unfinished
    <3> QED BY <2>1, <2>2, <2>5, <3>1, <3>2 DEF FreedInv
  <2>6. CASE pc' = "head"
    <3>1. K \in DataFrames(read') \ Finals(read') /\ \A j \in DataFrames(read') : j <= K
      BY <2>1, <2>3, <2>4, <2>6
    <3>2. Unfinished'
      BY <3>1 DEF Unfinished
    <3> QED BY <2>1, <2>2, <2>6, <3>2 DEF FreedInv
  <2> QED BY <2>1, <2>2, <2>5, <2>6 DEF FreedInv
<1>5. ASSUME NEW op \in Data \union Control, NEW fin \in BOOLEAN, HeadAccepted(op, fin)
      PROVE  FreedInv'
  BY <1>1, <1>5 DEF HeadAccepted, FreedInv
<1>6. CASE \/ HandshakeDone \/ HeadRefused \/ BodyFails \/ TakePong \/ TakeClose \/ OnMessage
           \/ NoAnswer \/ Answer \/ DoCloseFails \/ OnClose \/ Pong \/ PongFails \/ DoClose
           \/ OverrunEnds \/ Crash \/ NothingMore \/ ServerSendsClose \/ ServerMarksClosing
           \/ ServerShuts \/ UNCHANGED vars
  <2>1. UNCHANGED <<read, lost>> /\ (gone => gone')
    BY <1>6
    DEF HandshakeDone, HeadRefused, BodyFails, TakePong, TakeClose, OnMessage, NoAnswer, Answer,
        DoCloseFails, OnClose, Pong, PongFails, DoClose, OverrunEnds, Crash, NothingMore,
        ServerSendsClose, ServerMarksClosing, ServerShuts, Abort, vars
  <2>2. /\ pc \in {"onclose", "ended"} => pc' \in {"onclose", "ended"}
        /\ pc' = "handshake" => pc = "handshake"
    BY <1>6
    DEF HandshakeDone, HeadRefused, BodyFails, TakePong, TakeClose, OnMessage, NoAnswer, Answer,
        DoCloseFails, OnClose, Pong, PongFails, DoClose, OverrunEnds, Crash, NothingMore,
        ServerSendsClose, ServerMarksClosing, ServerShuts, Abort, vars
  <2>3. pc' \in Reading /\ msg_data' # <<>> => pc \in Reading /\ msg_data # <<>>
    <3>1. pc = "handshake" => msg_data = <<>>
      BY DEF IInv, RoomInv, Closed
    <3> QED BY <1>6, <3>1
      DEF HandshakeDone, HeadRefused, BodyFails, TakePong, TakeClose, OnMessage, NoAnswer, Answer,
          DoCloseFails, OnClose, Pong, PongFails, DoClose, OverrunEnds, Crash, NothingMore,
          ServerSendsClose, ServerMarksClosing, ServerShuts, Abort, vars
  <2> QED BY <1>1, <2>1, <2>2, <2>3 DEF FreedInv
<1>7. ASSUME NEW n \in 0 .. (Width - 1), Overrun(n) PROVE FreedInv'
  BY <1>1, <1>7 DEF Overrun, FreedInv
<1> QED BY <1>2, <1>3, <1>4, <1>5, <1>6, <1>7 DEF Next, Thread, Reads

(* However a connection ends, the memory of its message is freed once,     *)
(* unless the peer leaves, or the server shuts the socket by a timeout or  *)
(* a ping, between two frames of a message.                                *)
THEOREM MemoryFreed == Spec => []BlocksFreed
<1>1. Init => FreedInv
  BY DEF Init, FreedInv
<1>2. IInv /\ FreedInv => BlocksFreed
  BY DEF IInv, TypeOK, RoomInv, Closed, FreedInv, Unfinished, BlocksFreed
<1> QED BY <1>1, <1>2, FreedStep, Invariance, PTL DEF Spec

-----------------------------------------------------------------------------
(* Messages: the bytes of the data frames behind the last final one are    *)
(* those of the message under way.                                         *)

Pending(frames) == {k \in DataFrames(frames) : \A l \in Finals(frames) : l < k}

Numbered(frames) ==
  \A k \in DOMAIN frames : \A i \in DOMAIN frames[k].payload : frames[k].payload[i] = <<k, i>>

LEMMA PartsAppended ==
  ASSUME NEW s \in Seq(Frames), NEW x \in Frames
  PROVE  LET K == Len(s) + 1
             t == Append(s, x)
         IN /\ \A e \in Finals(s) : Parts(t, e) = Parts(s, e) /\ Parts(s, e) \subseteq DOMAIN s
            /\ Pending(s) \subseteq DOMAIN s
            /\ x.opcode \notin Data => Pending(t) = Pending(s)
            /\ x.opcode \in Data /\ ~x.is_fin => Pending(t) = Pending(s) \union {K}
            /\ x.opcode \in Data /\ x.is_fin =>
                 Parts(t, K) = Pending(s) \union {K} /\ Pending(t) = {}
<1> DEFINE K == Len(s) + 1
           t == Append(s, x)
<1>1. /\ DataFrames(t) = IF x.opcode \in Data THEN DataFrames(s) \union {K} ELSE DataFrames(s)
      /\ Finals(t) = IF x.opcode \in Data /\ x.is_fin THEN Finals(s) \union {K} ELSE Finals(s)
      /\ Finals(s) \subseteq DataFrames(s) /\ DataFrames(s) \subseteq DOMAIN s
      /\ DataFrames(s) \subseteq Nat /\ \A k \in DataFrames(s) : k < K
      /\ K \in Nat
  BY DataAppended
<1> HIDE DEF K, t
<1>2. ASSUME NEW e \in Finals(s) PROVE Parts(t, e) = Parts(s, e)
  <2>1. e \in Nat /\ e < K /\ ~(K <= e)
    BY <1>1
  <2>2. \A k \in DataFrames(t) : k <= e => k \in DataFrames(s)
    BY <1>1, <2>1
  <2>3. \A l \in Finals(t) : l \in Finals(s) \/ e <= l
    BY <1>1, <2>1
  <2>4. DataFrames(s) \subseteq DataFrames(t) /\ Finals(s) \subseteq Finals(t)
    BY <1>1
  <2> QED BY <2>2, <2>3, <2>4 DEF Parts
<1>3. Pending(s) \subseteq DOMAIN s /\ \A e \in Finals(s) : Parts(s, e) \subseteq DOMAIN s
  BY <1>1 DEF Pending, Parts
<1>4. CASE x.opcode \notin Data
  BY <1>1, <1>2, <1>3, <1>4 DEF Pending, K, t
<1>5. CASE x.opcode \in Data /\ ~x.is_fin
  <2>1. \A l \in Finals(s) : l < K
    BY <1>1
  <2>2. Pending(t) = Pending(s) \union {K}
    BY <1>1, <1>5, <2>1 DEF Pending
  <2> QED BY <1>2, <1>3, <1>5, <2>2 DEF K, t
<1>6. CASE x.opcode \in Data /\ x.is_fin
  <2>1. /\ DataFrames(t) = DataFrames(s) \union {K} /\ Finals(t) = Finals(s) \union {K}
        /\ \A l \in Finals(s) : l < K /\ ~(K <= l)
        /\ \A k \in DataFrames(s) : k <= K /\ ~(K < k)
        /\ K <= K /\ ~(K < K)
    BY <1>1, <1>6
  <2>2. Pending(t) = {}
    BY <2>1 DEF Pending
  <2>3. Parts(t, K) = Pending(s) \union {K}
    BY <2>1 DEF Parts, Pending
  <2> QED BY <1>2, <1>3, <1>6, <2>2, <2>3 DEF K, t
<1> QED BY <1>4, <1>5, <1>6

(* A frame behind them leaves the bytes of earlier ones as they are.       *)
LEMMA BytesKept ==
  ASSUME NEW s \in Seq(Frames), NEW x \in Frames, NEW A \in SUBSET (DOMAIN s), NEW m, NEW type
  PROVE  /\ IsBytesOf(m, Append(s, x), A) <=> IsBytesOf(m, s, A)
         /\ FirstSays(Append(s, x), A, type) <=> FirstSays(s, A, type)
<1>1. \A k \in A : Append(s, x)[k] = s[k]
  BY AppendIndices
<1>2. {Range(Append(s, x)[k].payload) : k \in A} = {Range(s[k].payload) : k \in A}
  BY <1>1
<1> QED BY <1>1, <1>2 DEF IsBytesOf, FirstSays

LEMMA BytesGrow ==
  ASSUME NEW s \in Seq(Frames), NEW x \in Frames, NEW A \in SUBSET (DOMAIN s), NEW m \in Payloads,
         Numbered(s), IsBytesOf(m, s, A),
         \A i \in DOMAIN x.payload : x.payload[i] = <<Len(s) + 1, i>>
  PROVE  IsBytesOf(m \o x.payload, Append(s, x), A \union {Len(s) + 1})
<1> DEFINE K == Len(s) + 1
           b == x.payload
           L == Len(m)
           t == Append(s, x)
           c == m \o b
<1>1. /\ DOMAIN m = 1 .. L /\ L \in Nat /\ b \in Payloads /\ DOMAIN b = 1 .. Len(b)
      /\ Len(b) \in Nat /\ DOMAIN c = 1 .. (L + Len(b))
      /\ \A i \in 1 .. L : c[i] = m[i]
      /\ \A i \in DOMAIN c : i > L => i - L \in DOMAIN b /\ c[i] = b[i - L]
      /\ \A i \in DOMAIN b : L + i \in DOMAIN c /\ c[L + i] = b[i]
  <2>1. b \in Payloads
    BY DEF Frames
  <2>2. /\ L \in Nat /\ DOMAIN m = 1 .. L
        /\ Len(b) \in Nat /\ DOMAIN b = 1 .. Len(b)
    BY <2>1 DEF Payloads
  <2>3. /\ c \in Payloads /\ Len(c) = L + Len(b)
        /\ \A i \in 1 .. L + Len(b) : c[i] = IF i <= L THEN m[i] ELSE b[i - L]
    BY <2>1 DEF Payloads
  <2>4. DOMAIN c = 1 .. L + Len(b)
    BY <2>3 DEF Payloads
  <2> HIDE DEF b, L, c
  <2> QED BY <2>1, <2>2, <2>3, <2>4
<1>2. /\ \A k \in A : t[k] = s[k] /\ k < K /\ k \in Nat
      /\ t[K] = x /\ K \in Nat
  BY AppendIndices
<1>3. \A i \in DOMAIN b : b[i] = <<K, i>>
  OBVIOUS
<1> HIDE DEF K, b, L, t, c
<1>4. Range(c) = Range(m) \union Range(b)
  <2>1. \A i \in DOMAIN c : i \in 1 .. L \/ i > L
    BY <1>1
  <2>2. \A i \in DOMAIN c : c[i] \in Range(m) \union Range(b)
    BY <1>1, <2>1 DEF Range
  <2>3. \A i \in 1 .. L : i \in DOMAIN c
    BY <1>1
  <2>4. \A i \in DOMAIN m : m[i] \in Range(c)
    BY <1>1, <2>3 DEF Range
  <2>5. \A i \in DOMAIN b : b[i] \in Range(c)
    BY <1>1 DEF Range
  <2> QED BY <2>2, <2>4, <2>5 DEF Range
<1>5. UNION {Range(t[k].payload) : k \in A \union {K}} =
        (UNION {Range(s[k].payload) : k \in A}) \union Range(b)
  <2>1. {Range(t[k].payload) : k \in A \union {K}} =
          {Range(s[k].payload) : k \in A} \union {Range(b)}
    BY <1>2 DEF b
  <2> QED BY <2>1
<1>6. \A i \in DOMAIN m : m[i][1] < K
  <2> SUFFICES ASSUME NEW i \in DOMAIN m PROVE m[i][1] < K
    OBVIOUS
  <2>1. m[i] \in UNION {Range(s[k].payload) : k \in A}
    BY DEF IsBytesOf, Range
  <2>2. PICK k \in A : m[i] \in Range(s[k].payload)
    BY <2>1
  <2>3. PICK j \in DOMAIN s[k].payload : m[i] = s[k].payload[j]
    BY <2>2 DEF Range
  <2>4. m[i] = <<k, j>>
    BY <2>3 DEF Numbered
  <2> QED BY <1>2, <2>4
<1>7. ASSUME NEW i \in DOMAIN c, NEW j \in DOMAIN c, i < j
      PROVE  Before(c[i], c[j])
  <2>1. CASE j <= L
    <3>1. i \in DOMAIN m /\ j \in DOMAIN m /\ c[i] = m[i] /\ c[j] = m[j]
      BY <1>1, <1>7, <2>1
    <3> QED BY <1>7, <3>1 DEF IsBytesOf
  <2>2. CASE i <= L /\ j > L
    <3>1. i \in DOMAIN m /\ c[i] = m[i] /\ j - L \in DOMAIN b /\ c[j] = b[j - L]
      BY <1>1, <2>2
    <3>2. c[j] = <<K, j - L>> /\ c[i][1] < K
      BY <1>3, <1>6, <3>1
    <3> QED BY <3>2 DEF Before
  <2>3. CASE i > L
    <3>1. i - L \in DOMAIN b /\ c[i] = b[i - L] /\ j - L \in DOMAIN b /\ c[j] = b[j - L]
          /\ i - L < j - L
      BY <1>1, <1>7, <2>3
    <3>2. c[i] = <<K, i - L>> /\ c[j] = <<K, j - L>>
      BY <1>3, <3>1
    <3> QED BY <3>1, <3>2 DEF Before
  <2>4. i \in Int /\ j \in Int /\ L \in Int
    BY <1>1
  <2> QED BY <2>1, <2>2, <2>3, <2>4
<1>8. IsBytesOf(c, t, A \union {K})
  BY <1>4, <1>5, <1>7 DEF IsBytesOf
<1> QED BY <1>8 DEF c, t, K, b

LEMMA FirstGrows ==
  ASSUME NEW s \in Seq(Frames), NEW x \in Frames, NEW A \in SUBSET (DOMAIN s), NEW type,
         FirstSays(s, A, type) \/ (A = {} /\ x.opcode = type)
  PROVE  FirstSays(Append(s, x), A \union {Len(s) + 1}, type)
<1> DEFINE K == Len(s) + 1
<1>1. /\ \A k \in A : Append(s, x)[k] = s[k] /\ k <= K
      /\ Append(s, x)[K] = x /\ K <= K
  BY AppendIndices
<1> HIDE DEF K
<1>2. FirstSays(Append(s, x), A \union {K}, type)
  BY <1>1 DEF FirstSays
<1> QED BY <1>2 DEF K

(* What has been given to onmessage, when these frames have been read.     *)
Told(all, frames) ==
  /\ Len(all) = Cardinality(Finals(frames))
  /\ \A e \in Finals(frames) :
       LET m == all[Number(Finals(frames), e)]
       IN IsBytesOf(m.msg, frames, Parts(frames, e)) /\ FirstSays(frames, Parts(frames, e), m.type)

LEMMA ToldStays ==
  ASSUME NEW s \in Seq(Frames), NEW x \in Frames, NEW all, Told(all, s),
         ~(x.opcode \in Data /\ x.is_fin)
  PROVE  Told(all, Append(s, x))
<1>1. Finals(Append(s, x)) = Finals(s)
  BY DataAppended
<1>2. \A e \in Finals(s) : Parts(Append(s, x), e) = Parts(s, e) /\ Parts(s, e) \subseteq DOMAIN s
  BY PartsAppended
<1>3. ASSUME NEW e \in Finals(s), NEW m
      PROVE  /\ IsBytesOf(m.msg, Append(s, x), Parts(s, e)) <=> IsBytesOf(m.msg, s, Parts(s, e))
             /\ FirstSays(Append(s, x), Parts(s, e), m.type) <=> FirstSays(s, Parts(s, e), m.type)
  BY <1>2, BytesKept
<1> QED BY <1>1, <1>2, <1>3 DEF Told

LEMMA ToldGrows ==
  ASSUME NEW s \in Seq(Frames), NEW x \in Frames, NEW all \in Seq(Given), NEW m \in Given,
         Told(all, s), x.opcode \in Data /\ x.is_fin,
         IsBytesOf(m.msg, Append(s, x), Pending(s) \union {Len(s) + 1}),
         FirstSays(Append(s, x), Pending(s) \union {Len(s) + 1}, m.type)
  PROVE  Told(Append(all, m), Append(s, x))
<1> DEFINE K == Len(s) + 1
           t == Append(s, x)
           F == Finals(s)
           more == Append(all, m)
<1>1. /\ Finals(t) = F \union {K} /\ IsFiniteSet(F) /\ F \in SUBSET Nat
      /\ (\A e \in F : e < K) /\ K \in Nat
  BY DataAppended
<1>2. /\ \A e \in F : Parts(t, e) = Parts(s, e) /\ Parts(s, e) \subseteq DOMAIN s
      /\ Parts(t, K) = Pending(s) \union {K}
  BY PartsAppended
<1>3. /\ Cardinality(F \union {K}) = Cardinality(F) + 1 /\ Cardinality(F) \in Nat
      /\ Number(F \union {K}, K) = Cardinality(F) + 1
      /\ \A e \in F : /\ Number(F \union {K}, e) = Number(F, e)
                      /\ Number(F, e) \in 1 .. Cardinality(F)
  <2> HIDE DEF F, K
  <2> QED BY <1>1, NumbersKept
<1>4. /\ Len(all) = Cardinality(F) /\ Len(more) = Len(all) + 1 /\ more[Len(all) + 1] = m
      /\ \A k \in 1 .. Len(all) : more[k] = all[k]
  BY AppendIndices DEF Told
<1>5. ASSUME NEW e \in F, NEW y
      PROVE  /\ IsBytesOf(y.msg, t, Parts(s, e)) <=> IsBytesOf(y.msg, s, Parts(s, e))
             /\ FirstSays(t, Parts(s, e), y.type) <=> FirstSays(s, Parts(s, e), y.type)
  BY <1>2, BytesKept
<1> HIDE DEF K, t, F, more
<1>6. ASSUME NEW e \in Finals(t)
      PROVE  LET y == more[Number(Finals(t), e)]
             IN IsBytesOf(y.msg, t, Parts(t, e)) /\ FirstSays(t, Parts(t, e), y.type)
  <2>1. CASE e = K
    <3>1. more[Number(Finals(t), e)] = m
      BY <1>1, <1>3, <1>4, <2>1
    <3> QED BY <1>2, <2>1, <3>1 DEF K, t
  <2>2. CASE e \in F
    <3>1. more[Number(Finals(t), e)] = all[Number(F, e)]
      BY <1>1, <1>3, <1>4, <2>2
    <3>2. /\ IsBytesOf(all[Number(F, e)].msg, s, Parts(s, e))
          /\ FirstSays(s, Parts(s, e), all[Number(F, e)].type)
      BY <2>2 DEF Told, F
    <3> QED BY <1>2, <1>5, <2>2, <3>1, <3>2
  <2> QED BY <1>1, <2>1, <2>2
<1>7. Len(more) = Cardinality(Finals(t))
  BY <1>1, <1>3, <1>4
<1>8. Told(more, t)
  BY <1>6, <1>7 DEF Told
<1> QED BY <1>8 DEF more, t

Now == [type |-> frame_type, msg |-> msg_data]
All == IF pc = "deliver" THEN Append(delivered, Now) ELSE delivered

Starts == pc = "body" /\ frame.opcode \in {"TXT", "BIN"}

(* The message under way, and its type.                                    *)
UnderWay ==
  /\ pc \in Reading => IsBytesOf(msg_data, read, Pending(read))
  /\ pc \in Reading /\ ~Starts =>
       IF Pending(read) = {} THEN frame_type = "NONE"
       ELSE FirstSays(read, Pending(read), frame_type)
  /\ Starts => Pending(read) = {} /\ frame_type = frame.opcode
  /\ pc = "body" /\ frame.opcode = "CONT" => Pending(read) # {}
  /\ pc = "deliver" => Pending(read) = {}

MessageInv == Told(All, read) /\ Numbered(read) /\ UnderWay

LEMMA NoBytes ==
  ASSUME NEW s
  PROVE  IsBytesOf(<<>>, s, {})
<1>1. UNION {Range(s[k].payload) : k \in {}} = {}
  OBVIOUS
<1>2. Range(<<>>) = {}
  BY DEF Range
<1>3. DOMAIN <<>> = {}
  OBVIOUS
<1> QED BY <1>1, <1>2, <1>3 DEF IsBytesOf

LEMMA MessageInit == Init => MessageInv
<1> SUFFICES ASSUME Init PROVE MessageInv
  OBVIOUS
<1>1. read = <<>> /\ All = <<>> /\ Len(All) = 0 /\ pc = "handshake"
  BY DEF Init, All
<1>2. Finals(read) = {} /\ Numbered(read)
  BY <1>1 DEF Finals, DataFrames, Numbered
<1>3. Told(All, read)
  BY <1>1, <1>2, FS_EmptySet DEF Told
<1> QED BY <1>1, <1>2, <1>3 DEF MessageInv, UnderWay, Starts, Reading

LEMMA FirstIsData ==
  ASSUME NEW s, NEW type, FirstSays(s, Pending(s), type)
  PROVE  type \in Data /\ Pending(s) # {}
  BY DEF FirstSays, Pending, DataFrames

LEMMA BodyMessages ==
  ASSUME IInv, MessageInv, NEW n \in 0 .. (MaxLen + MaxControl), Body(n)
  PROVE  MessageInv'
<1> DEFINE K == Len(read) + 1
           P == Pending(read)
<1>1. /\ read \in Seq(Frames) /\ frame' \in Frames /\ read' = Append(read, frame')
      /\ frame'.opcode = frame.opcode /\ frame'.is_fin = frame.is_fin
      /\ frame'.payload = Bytes(n) /\ Bytes(n) \in Payloads /\ Len(Bytes(n)) = n
      /\ frame.opcode \in Control <=> frame.opcode \notin Data
  BY BodyFrame DEF Frames, Data, Control
<1>2. /\ pc = "body" /\ UNCHANGED <<delivered, frame_type>>
      /\ frame.opcode \in Control => pc' = "answer" /\ UNCHANGED msg_data
      /\ frame.opcode \notin Control => /\ msg_data' = msg_data \o Bytes(n)
                                        /\ pc' = IF frame.is_fin THEN "deliver" ELSE "head"
  BY DEF Body
<1>3. \A i \in DOMAIN frame'.payload : frame'.payload[i] = <<K, i>>
  BY <1>1 DEF Bytes
<1>4. Numbered(read')
  <2>1. /\ DOMAIN read' = DOMAIN read \union {K} /\ read'[K] = frame'
        /\ \A k \in DOMAIN read : read'[k] = read[k]
    BY <1>1, AppendIndices
  <2> QED BY <1>3, <2>1 DEF MessageInv, Numbered
<1>5. /\ P \in SUBSET (DOMAIN read) /\ msg_data \in Payloads /\ IsBytesOf(msg_data, read, P)
      /\ Told(delivered, read) /\ delivered \in Seq(Given) /\ Numbered(read)
      /\ frame_type \in {"NONE", "TXT", "BIN"}
  BY <1>1, <1>2, PartsAppended
  DEF MessageInv, UnderWay, All, IInv, TypeOK, Types, Reading, FlowInv
<1>6. /\ frame.opcode \notin Data => Pending(read') = P
      /\ frame.opcode \in Data /\ ~frame.is_fin => Pending(read') = P \union {K}
      /\ frame.opcode \in Data /\ frame.is_fin => Pending(read') = {}
  BY <1>1, PartsAppended
<1>7. frame.opcode \in Data =>
        /\ IsBytesOf(msg_data', read', P \union {K})
        /\ FirstSays(read', P \union {K}, frame_type)
  <2> SUFFICES ASSUME frame.opcode \in Data
               PROVE  /\ IsBytesOf(msg_data', read', P \union {K})
                      /\ FirstSays(read', P \union {K}, frame_type)
    OBVIOUS
  <2>1. IsBytesOf(msg_data \o frame'.payload, Append(read, frame'), P \union {K})
    BY <1>1, <1>3, <1>5, BytesGrow
  <2>2. FirstSays(read, P, frame_type) \/ (P = {} /\ frame'.opcode = frame_type)
    BY <1>1, <1>2 DEF MessageInv, UnderWay, Starts, Reading, Data
  <2>3. FirstSays(Append(read, frame'), P \union {K}, frame_type)
    BY <1>1, <1>5, <2>2, FirstGrows
  <2> QED BY <1>1, <1>2, <2>1, <2>3
<1> HIDE DEF K, P
<1>8. CASE frame.opcode \notin Data
  <2>1. Told(delivered, read')
    BY <1>1, <1>5, <1>8, ToldStays
  <2>2. /\ IsBytesOf(msg_data, read', P)
        /\ FirstSays(read', P, frame_type) <=> FirstSays(read, P, frame_type)
    BY <1>1, <1>5, BytesKept
  <2>3. IF P = {} THEN frame_type = "NONE" ELSE FirstSays(read, P, frame_type)
    BY <1>2, <1>8 DEF MessageInv, UnderWay, Starts, Reading, Data, P
  <2>4. UnderWay'
    BY <1>1, <1>2, <1>6, <1>8, <2>2, <2>3 DEF UnderWay, Starts
  <2>5. All' = delivered
    BY <1>1, <1>2, <1>8 DEF All
  <2> QED BY <1>4, <2>1, <2>4, <2>5 DEF MessageInv
<1>9. CASE frame.opcode \in Data /\ ~frame.is_fin
  <2>1. Told(delivered, read')
    BY <1>1, <1>5, <1>9, ToldStays
  <2>2. /\ pc' = "head" /\ Pending(read') = P \union {K} /\ P \union {K} # {}
    BY <1>1, <1>2, <1>6, <1>9
  <2>3. UnderWay'
    BY <1>2, <1>7, <1>9, <2>2 DEF UnderWay, Starts
  <2>4. All' = delivered
    BY <1>2, <2>2 DEF All
  <2> QED BY <1>4, <2>1, <2>3, <2>4 DEF MessageInv
<1>10. CASE frame.opcode \in Data /\ frame.is_fin
  <2>1. pc' = "deliver" /\ Pending(read') = {}
    BY <1>1, <1>2, <1>6, <1>10
  <2>2. UnderWay'
    BY <2>1 DEF UnderWay, Starts, Reading
  <2>3. Now' \in Given /\ Now'.msg = msg_data' /\ Now'.type = frame_type
    <3>1. frame_type \in {"TXT", "BIN"}
      BY <1>2, <1>10 DEF IInv, FlowInv
    <3>2. msg_data' \in Payloads
      BY <1>1, <1>2, <1>5, <1>10, JoinedType
    <3> QED BY <1>2, <3>1, <3>2 DEF Now, Given
  <2>4. Told(Append(delivered, Now'), Append(read, frame'))
    BY <1>1, <1>5, <1>7, <1>10, <2>3, ToldGrows DEF K, P
  <2>5. All' = Append(delivered, Now')
    BY <1>2, <2>1 DEF All
  <2> QED BY <1>1, <1>4, <2>2, <2>4, <2>5 DEF MessageInv
<1> QED BY <1>8, <1>9, <1>10 DEF P

LEMMA HeadMessages ==
  ASSUME IInv, MessageInv, NEW op \in Data \union Control, NEW fin \in BOOLEAN, HeadAccepted(op, fin)
  PROVE  MessageInv'
<1>1. /\ pc = "head" /\ pc' = "body" /\ UNCHANGED <<read, delivered, msg_data>>
      /\ frame'.opcode = op
      /\ frame_type' = IF op \in {"TXT", "BIN"} THEN op ELSE frame_type
      /\ op \in Data => (op = "CONT" <=> frame_type # "NONE")
  BY DEF HeadAccepted, Unexpected, Data, Control, histVars
<1>2. /\ IsBytesOf(msg_data, read, Pending(read))
      /\ IF Pending(read) = {} THEN frame_type = "NONE"
         ELSE FirstSays(read, Pending(read), frame_type)
  BY <1>1 DEF MessageInv, UnderWay, Starts, Reading
<1>3. frame_type = "NONE" => Pending(read) = {}
  BY <1>2, FirstIsData DEF Data
<1>4. UnderWay'
  BY <1>1, <1>2, <1>3 DEF UnderWay, Starts, Reading, Data, Control
<1>5. All' = All
  BY <1>1 DEF All
<1> QED BY <1>1, <1>4, <1>5 DEF MessageInv

(* Steps that neither read a frame nor give a message to onmessage.        *)
LEMMA QuietMessages ==
  ASSUME MessageInv, UNCHANGED <<read, delivered>>, pc # "deliver", pc' # "deliver",
         pc' \in Reading => /\ pc \in Reading /\ ~Starts /\ pc' # "body"
                            /\ UNCHANGED <<msg_data, frame_type>>
  PROVE  MessageInv'
<1>1. All' = All
  BY DEF All
<1>2. UnderWay'
  BY DEF MessageInv, UnderWay, Starts, Reading
<1> QED BY <1>1, <1>2 DEF MessageInv

LEMMA MessageStep == IInv /\ FreedInv /\ MessageInv /\ [Next]_vars => MessageInv'
<1> SUFFICES ASSUME IInv, FreedInv, MessageInv, [Next]_vars PROVE MessageInv'
  OBVIOUS
<1> USE DEF msgVars, histVars
<1>1. ASSUME NEW n \in 0 .. (MaxLen + MaxControl), Body(n) PROVE MessageInv'
  BY <1>1, BodyMessages
<1>2. ASSUME NEW op \in Data \union Control, NEW fin \in BOOLEAN, HeadAccepted(op, fin)
      PROVE  MessageInv'
  BY <1>2, HeadMessages
<1>3. CASE HandshakeDone
  <2>1. /\ read = <<>> /\ msg_data = <<>> /\ frame_type = "NONE" /\ pc = "handshake"
        /\ pc' = "head" /\ UNCHANGED <<read, delivered, msg_data, frame_type>>
    BY <1>3 DEF HandshakeDone, IInv, RoomInv, FlowInv, FreedInv, Closed
  <2>2. Pending(read) = {}
    BY <2>1 DEF Pending, DataFrames
  <2>3. UnderWay'
    BY <2>1, <2>2, NoBytes DEF UnderWay, Starts
  <2>4. All' = All
    BY <2>1 DEF All
  <2> QED BY <2>1, <2>3, <2>4 DEF MessageInv
<1>4. CASE OnMessage
  <2>1. /\ pc = "deliver" /\ pc' = "head" /\ delivered' = Append(delivered, Now)
        /\ frame_type' = "NONE" /\ msg_data' = <<>> /\ UNCHANGED read
    BY <1>4 DEF OnMessage, Now
  <2>2. All' = All
    BY <2>1 DEF All
  <2>3. Pending(read) = {}
    BY <2>1 DEF MessageInv, UnderWay
  <2>4. UnderWay'
    BY <2>1, <2>3, NoBytes DEF UnderWay, Starts
  <2> QED BY <2>1, <2>2, <2>4 DEF MessageInv
<1>5. CASE Pong \/ TakePong
  BY <1>5, QuietMessages DEF Pong, TakePong, Starts, Reading
<1>6. CASE \/ HandshakeFails \/ EndsBetween \/ HeadRefused \/ BodyFails \/ TakeClose \/ NoAnswer
           \/ Answer \/ DoClose \/ DoCloseFails \/ OnClose \/ PongFails \/ OverrunEnds \/ Crash
  BY <1>6, QuietMessages
  DEF HandshakeFails, EndsBetween, HeadRefused, BodyFails, TakeClose, NoAnswer, Answer, DoClose,
      DoCloseFails, OnClose, PongFails, OverrunEnds, Crash, Abort, Reading
<1>7. CASE NothingMore \/ ServerSendsClose \/ ServerMarksClosing \/ ServerShuts \/ UNCHANGED vars
  <2>1. UNCHANGED <<pc, read, delivered, frame, frame_type, msg_data>>
    BY <1>7 DEF NothingMore, ServerSendsClose, ServerMarksClosing, ServerShuts, vars
  <2> QED BY <2>1 DEF MessageInv, UnderWay, Starts, All, Now
<1>8. ASSUME NEW n \in 0 .. (Width - 1), Overrun(n) PROVE MessageInv'
  BY <1>8, QuietMessages DEF Overrun, Reading
<1> QED BY <1>1, <1>2, <1>3, <1>4, <1>5, <1>6, <1>7, <1>8 DEF Next, Thread, Reads

(* However the peer cuts its messages into frames, whatever it sends       *)
(* between them and whenever either side closes: onmessage has been given  *)
(* exactly the messages that were complete, in order and whole.            *)
THEOREM MessagesWhole == Spec => []WholeMessages
<1>1. Init => FreedInv
  BY DEF Init, FreedInv
<1>2. MessageInv => WholeMessages
  BY DEF MessageInv, Told, All, Now, WholeMessages
<1> QED BY <1>1, <1>2, MessageInit, MessageStep, FreedStep, Invariance, PTL DEF Spec

=============================================================================
