------------------------------ MODULE WsFrames ------------------------------
(***************************************************************************)
(* What one client thread of the WebSocket library reads and answers       *)
(* (ws.c, handshake.c): the handshake, then frames, which it puts together *)
(* to messages for onmessage.  WsConnection has the slots and the closing  *)
(* of sockets around it.                                                   *)
(*                                                                         *)
(* Byte i of the k-th frame is the pair <<k, i>>, so that where a byte of  *)
(* a message or of an answer came from can be told; masks are undone       *)
(* alike everywhere and left out.  The peer picks each frame when it is    *)
(* read.  Reads are cut where the thread looks at something shared: at the *)
(* state of the connection (head), and at its socket (answers).            *)
(*                                                                         *)
(* Lengths are numbers of 64 bits and so is their sum.  A frame whose      *)
(* length makes it wrap never comes whole; what the thread does up to the  *)
(* first byte of it is Overrun.                                            *)
(***************************************************************************)
EXTENDS Integers, Sequences, FiniteSets, Functions

CONSTANTS
  MaxLen,            (* bound: bytes of a data frame                     *)
  MaxControl,        (* bound: bytes of a control frame, 125 in the code *)
  MaxFrames,         (* bound: frames of the peer                        *)
  MAX_FRAME_LENGTH,  (* bytes of a whole message                         *)
  Width              (* values of a uint64_t                             *)

ASSUME FramesAssumption ==
  /\ MaxLen \in Nat /\ MaxFrames \in Nat
  /\ MAX_FRAME_LENGTH \in Nat /\ MaxControl \in Nat
  /\ Width \in Nat /\ MAX_FRAME_LENGTH + MaxLen < Width

VARIABLES
  pc,          (* the thread: ws_establishconnection                     *)
  state,       (* of the connection                                      *)
  gone,        (* nothing more can be read: the peer has left, or the    *)
               (* socket is shut and what was buffered of it used up     *)
  frame,       (* the frame being read: opcode, is_fin, payload          *)
  frame_type,  (* of the message under way                               *)
  msg_data,    (* what it has so far                                     *)
  cap,         (* bytes allocated for it, 0 if it is NULL                *)
  lost,        (* blocks that nothing points to any more                 *)
  server,      (* the other threads: ws_close_client, its close_timeout, *)
               (* ws_ping                                                *)
  read,        (* history: the frames read, of a close frame the status  *)
  delivered,   (* history: messages given to onmessage                   *)
  out,         (* history: control frames sent                           *)
  late         (* history: messages delivered on a connection that is    *)
               (* being closed, or is closed                             *)

msgVars == <<frame_type, msg_data, cap, lost>>
histVars == <<read, delivered, out, late>>
vars == <<pc, state, gone, frame, msgVars, server, histVars>>

Data == {"CONT", "TXT", "BIN"}
Control == {"CLSE", "PING", "PONG"}
NoFrame == [opcode |-> "PONG", is_fin |-> TRUE, payload |-> <<>>]

Init ==
  /\ pc = "handshake" /\ state = "CONNECTING" /\ gone = FALSE
  /\ frame = NoFrame /\ frame_type = "NONE"
  /\ msg_data = <<>> /\ cap = 0 /\ lost = 0
  /\ server = "idle"
  /\ read = <<>> /\ delivered = <<>> /\ out = <<>> /\ late = 0

-----------------------------------------------------------------------------
(* do_handshake with get_handshake_response: the request must come in one  *)
(* read, with an empty line and a key, and be answered.  Accept is the     *)
(* block of the encoded key, lost when there is no memory for the answer.  *)

HandshakeDone ==
  /\ pc = "handshake" /\ ~gone
  /\ pc' = "head" /\ state' = "OPEN"
  /\ UNCHANGED <<gone, frame, msgVars, server, histVars>>

HandshakeFails ==
  /\ pc = "handshake"
  /\ pc' = "ended"
  /\ lost' \in {0, 1}
  /\ UNCHANGED <<state, gone, frame, frame_type, msg_data, cap, server, histVars>>

-----------------------------------------------------------------------------
(* next_complete_frame                                                     *)

(* wfd->error: what there is of the message is freed.                      *)
Abort == pc' = "onclose" /\ msg_data' = <<>> /\ cap' = 0 /\ UNCHANGED lost

(* Between frames the function returns at once instead.                    *)
EndsBetweenIgnored ==   (* a mutant: reads on when a read returns 0 *)
  pc = "head" /\ gone /\ UNCHANGED vars

EndsBetween ==
  /\ pc = "head" /\ gone
  /\ pc' = "onclose" /\ msg_data' = <<>> /\ cap' = 0
  /\ lost' = IF cap > 0 THEN lost + 1 ELSE lost
  /\ UNCHANGED <<state, gone, frame, frame_type, server, histVars>>

Unexpected(op) == (op = "CONT") # (frame_type # "NONE") /\ op \notin Control

HeadAcceptedLate(op, fin) ==   (* a mutant: the state is not looked at *)
  /\ pc = "head" /\ ~gone
  /\ Len(read) < MaxFrames
  /\ ~Unexpected(op)
  /\ pc' = "body"
  /\ frame' = [opcode |-> op, is_fin |-> fin, payload |-> <<>>]
  /\ frame_type' = IF op \in {"TXT", "BIN"} THEN op ELSE frame_type
  /\ UNCHANGED <<state, gone, msg_data, cap, lost, server, histVars>>

(* The first byte of a frame.  The state is compared with CLOSING alone:   *)
(* what is buffered of a CLOSED connection is accepted again.              *)
HeadAccepted(op, fin) ==
  /\ pc = "head" /\ ~gone
  /\ Len(read) < MaxFrames
  /\ ~Unexpected(op)
  /\ state = "CLOSING" => op = "CLSE"
  /\ pc' = "body"
  /\ frame' = [opcode |-> op, is_fin |-> fin, payload |-> <<>>]
  /\ frame_type' = IF op \in {"TXT", "BIN"} THEN op ELSE frame_type
  /\ UNCHANGED <<state, gone, msg_data, cap, lost, server, histVars>>

(* An extension bit, no such opcode, a continuation of nothing, a message  *)
(* within a message, or anything but a close frame while it is CLOSING.    *)
HeadRefused ==
  /\ pc = "head" /\ ~gone
  /\ Abort
  /\ UNCHANGED <<state, gone, frame, frame_type, server, histVars>>

Bytes(n) == [i \in 1 .. n |-> <<Len(read) + 1, i>>]

ControlFits(n) == frame.is_fin /\ n <= MaxControl

(* The length of the message with n bytes more, as the code adds it.       *)
WithMore(n) == (Len(msg_data) + n) % Width

DataFitsAlone(n) ==   (* a mutant: the limit is on each frame *)
  n <= MaxLen /\ n <= MAX_FRAME_LENGTH

DataFits(n) == n <= MaxLen /\ WithMore(n) <= MAX_FRAME_LENGTH

(* A message is allocated as it grows, with one byte more in its last      *)
(* frame.                                                                  *)
Terminator == IF frame.is_fin THEN 1 ELSE 0

(* a mutant: no room for the terminator of a message that ends in a frame  *)
(* without bytes                                                           *)
RoomIfAny(n) ==
  IF n > 0 THEN (Len(msg_data) + n + Terminator) % Width ELSE cap

Room(n) ==
  IF n > 0 THEN (Len(msg_data) + n + Terminator) % Width
  ELSE IF frame.is_fin /\ msg_data # <<>> THEN Len(msg_data) + 1
  ELSE cap

(* read_single_frame up to its end, n bytes long.                          *)
Body(n) ==
  /\ pc = "body" /\ ~gone
  /\ IF frame.opcode \in Control THEN ControlFits(n) ELSE DataFits(n)
  /\ frame' = [frame EXCEPT !.payload = Bytes(n)]
  /\ read' = Append(read, frame')
  /\ IF frame.opcode \in Control
     THEN UNCHANGED <<msg_data, cap>> /\ pc' = "answer"
     ELSE /\ msg_data' = msg_data \o Bytes(n)
          /\ cap' = Room(n)
          /\ pc' = IF frame.is_fin THEN "deliver" ELSE "head"
  /\ UNCHANGED <<state, gone, frame_type, lost, server, delivered, out, late>>

(* Too long, cut short, or no memory.                                      *)
BodyFails ==
  /\ pc = "body"
  /\ Abort
  /\ UNCHANGED <<state, gone, frame, frame_type, server, histVars>>

(* A length that makes the sum wrap passes the limit, and the block shrinks *)
(* to less than the message has.  The first byte goes behind it, unless    *)
(* realloc to no bytes has freed it, which the code takes for no memory.   *)
Overrun(n) ==
  /\ pc = "body" /\ ~gone /\ frame.opcode \in Data
  /\ Len(msg_data) + n >= Width /\ WithMore(n) <= MAX_FRAME_LENGTH
  /\ cap' = (Len(msg_data) + n + Terminator) % Width
  /\ msg_data' = IF cap' = 0 THEN msg_data ELSE Append(msg_data, <<Len(read) + 1, 1>>)
  /\ pc' = "overrun"
  /\ UNCHANGED <<state, gone, frame, frame_type, lost, server, histVars>>

(* The read ends and the block is freed; or the damage shows first.        *)
OverrunEnds ==
  /\ pc = "overrun" /\ (gone \/ cap = 0)
  /\ Abort
  /\ UNCHANGED <<state, gone, frame, frame_type, server, histVars>>

Crash ==
  /\ pc = "overrun"
  /\ pc' = "crashed"
  /\ UNCHANGED <<state, gone, frame, msgVars, server, histVars>>

SendFrame(op, payload) == out' = Append(out, [opcode |-> op, payload |-> payload])

PongOfMessage ==   (* a mutant: answers with the message's bytes *)
  /\ pc = "answer" /\ frame.opcode = "PING"
  /\ SendFrame("PONG", msg_data)
  /\ pc' = "head"
  /\ UNCHANGED <<state, gone, frame, msgVars, server, read, delivered, late>>

Pong ==
  /\ pc = "answer" /\ frame.opcode = "PING"
  /\ SendFrame("PONG", frame.payload)
  /\ pc' = "head"
  /\ UNCHANGED <<state, gone, frame, msgVars, server, read, delivered, late>>

(* The socket does not take the pong.                                      *)
PongFails ==
  /\ pc = "answer" /\ frame.opcode = "PING"
  /\ Abort
  /\ UNCHANGED <<state, gone, frame, frame_type, server, histVars>>

TakePongAsLast ==   (* a mutant: is_fin of the pong is left set *)
  /\ pc = "answer" /\ frame.opcode = "PONG"
  /\ pc' = "deliver"
  /\ UNCHANGED <<state, gone, frame, msgVars, server, histVars>>

(* handle_pong_frame, as far as this thread goes on.                       *)
TakePong ==
  /\ pc = "answer" /\ frame.opcode = "PONG"
  /\ pc' = "head"
  /\ UNCHANGED <<state, gone, frame, msgVars, server, histVars>>

TakeCloseKeeps ==   (* a mutant: the message under way is not freed *)
  /\ pc = "answer" /\ frame.opcode = "CLSE"
  /\ frame_type' = "CLSE" /\ msg_data' = <<>> /\ cap' = 0
  /\ lost' = IF cap > 0 THEN lost + 1 ELSE lost
  /\ pc' = "close"
  /\ UNCHANGED <<state, gone, frame, server, histVars>>

(* handle_close_frame drops the message under way.                         *)
TakeClose ==
  /\ pc = "answer" /\ frame.opcode = "CLSE"
  /\ frame_type' = "CLSE" /\ msg_data' = <<>> /\ cap' = 0
  /\ pc' = "close"
  /\ UNCHANGED <<state, gone, frame, lost, server, histVars>>

-----------------------------------------------------------------------------
(* The loop of ws_establishconnection                                      *)

OnMessage ==
  /\ pc = "deliver"
  /\ delivered' = Append(delivered, [type |-> frame_type, msg |-> msg_data])
  /\ late' = IF state \in {"CLOSING", "CLOSED"} THEN late + 1 ELSE late
  /\ pc' = "head"
  /\ frame_type' = "NONE" /\ msg_data' = <<>> /\ cap' = 0
  /\ UNCHANGED <<state, gone, frame, lost, server, read, out>>

(* The close frame is answered unless the server has sent its own.  When   *)
(* the socket is shut the state cannot be set.                             *)
NoAnswer ==
  /\ pc = "close" /\ state = "CLOSING"
  /\ pc' = "onclose"
  /\ UNCHANGED <<state, gone, frame, msgVars, server, histVars>>

Answer ==
  /\ pc = "close" /\ state # "CLOSING"
  /\ pc' = "do_close"
  /\ state' \in IF state = "CLOSED" THEN {"CLOSING", "CLOSED"} ELSE {"CLOSING"}
  /\ UNCHANGED <<gone, frame, msgVars, server, histVars>>

(* do_close: 1002 for a status that is no status; what has a reason behind *)
(* it goes back unread.                                                    *)
PROTERR == <<"PROTERR">>

DoClose ==
  /\ pc = "do_close"
  /\ \E valid \in BOOLEAN :
       SendFrame("CLSE", IF Len(frame.payload) = 1 \/ (Len(frame.payload) = 2 /\ ~valid)
                         THEN PROTERR ELSE frame.payload)
  /\ pc' = "onclose"
  /\ UNCHANGED <<state, gone, frame, msgVars, server, read, delivered, late>>

DoCloseFails ==
  /\ pc = "do_close"
  /\ pc' = "onclose"
  /\ UNCHANGED <<state, gone, frame, msgVars, server, histVars>>

OnClose ==
  /\ pc = "onclose"
  /\ pc' = "ended"
  /\ UNCHANGED <<state, gone, frame, msgVars, server, histVars>>

-----------------------------------------------------------------------------
(* The peer, and the other threads while the process lives.  ws_close_client *)
(* sends the close frame, then marks the state and starts close_timeout.   *)

Alive == pc # "crashed"

NothingMore ==
  /\ Alive /\ ~gone /\ gone' = TRUE
  /\ UNCHANGED <<pc, state, frame, msgVars, server, histVars>>

ServerSendsClose ==
  /\ Alive /\ server = "idle" /\ state = "OPEN"
  /\ server' = "sent"
  /\ SendFrame("CLSE", <<"NORMAL">>)
  /\ UNCHANGED <<pc, state, gone, frame, msgVars, read, delivered, late>>

ServerMarksClosing ==
  /\ Alive /\ server = "sent"
  /\ IF state = "OPEN" THEN state' = "CLOSING" /\ server' = "timer"
     ELSE UNCHANGED state /\ server' = "done"
  /\ UNCHANGED <<pc, gone, frame, msgVars, histVars>>

(* close_client, by close_timeout or by a ping too many: the socket is     *)
(* shut, but the thread still has what is buffered of it.                  *)
ServerShuts ==
  /\ Alive /\ (server = "timer" \/ state = "OPEN")
  /\ state' = "CLOSED" /\ server' = "shut"
  /\ UNCHANGED <<pc, gone, frame, msgVars, histVars>>

-----------------------------------------------------------------------------
Reads ==
  \/ EndsBetween \/ HeadRefused \/ BodyFails
  \/ \E op \in Data \union Control, fin \in BOOLEAN : HeadAccepted(op, fin)
  \/ \E n \in 0 .. (MaxLen + MaxControl) : Body(n)
  \/ \E n \in 0 .. (Width - 1) : Overrun(n)
  \/ OverrunEnds \/ Crash

Thread ==
  \/ HandshakeDone \/ HandshakeFails
  \/ Reads
  \/ Pong \/ PongFails \/ TakePong \/ TakeClose
  \/ OnMessage \/ NoAnswer \/ Answer \/ DoClose \/ DoCloseFails \/ OnClose

Next == Thread \/ NothingMore \/ ServerSendsClose \/ ServerMarksClosing \/ ServerShuts

Spec == Init /\ [][Next]_vars

(* The thread is scheduled; a read ends when there is something to read or *)
(* nothing more can come, and what is buffered of a shut socket runs out.  *)
FairSpec ==
  /\ Spec
  /\ WF_vars(gone /\ Thread)
  /\ WF_vars(pc \notin {"handshake", "head", "body", "overrun"} /\ Thread)
  /\ WF_vars(state = "CLOSED" /\ NothingMore)

-----------------------------------------------------------------------------
(* Properties                                                              *)

Payloads == Seq((1 .. MaxFrames) \X (1 .. MaxLen + MaxControl))

FrameOK(f) == f.opcode \in Data \union Control /\ f.is_fin \in BOOLEAN /\ f.payload \in Payloads

Places ==
  {"handshake", "head", "body", "answer", "deliver", "close", "do_close", "onclose", "ended",
   "overrun", "crashed"}
States == {"CONNECTING", "OPEN", "CLOSING", "CLOSED"}

TypeOK ==
  /\ pc \in Places /\ state \in States /\ server \in {"idle", "sent", "timer", "done", "shut"}
  /\ gone \in BOOLEAN /\ FrameOK(frame)
  /\ frame_type \in {"NONE", "TXT", "BIN", "CLSE"}
  /\ msg_data \in Payloads
  /\ cap \in 0 .. MAX_FRAME_LENGTH + 1 /\ lost \in Nat /\ late \in Nat
  /\ Len(read) <= MaxFrames /\ \A k \in DOMAIN read : FrameOK(read[k])
  /\ \A k \in DOMAIN out : out[k].opcode \in Control
  /\ \A k \in DOMAIN delivered : delivered[k].type \in {"TXT", "BIN"}

(* The data frames of a sequence of frames, those that end a message, and  *)
(* the frames of the message that frame e ends.                            *)
DataFrames(frames) == {k \in DOMAIN frames : frames[k].opcode \in Data}
Finals(frames) == {k \in DataFrames(frames) : frames[k].is_fin}
Parts(frames, e) ==
  {k \in DataFrames(frames) : k <= e /\ \A l \in Finals(frames) : l < k \/ e <= l}

(* s is the bytes of the frames in K, all of them and in their order.      *)
Before(a, b) == a[1] < b[1] \/ (a[1] = b[1] /\ a[2] < b[2])

IsBytesOf(s, frames, K) ==
  /\ Range(s) = UNION {Range(frames[k].payload) : k \in K}
  /\ \A a, b \in DOMAIN s : a < b => Before(s[a], s[b])

(* The type of a message is what its first frame says.                     *)
FirstSays(frames, K, type) ==
  \E first \in K : frames[first].opcode = type /\ \A k \in K : first <= k

(* k is the number-th member of S.                                         *)
Number(S, k) == Cardinality({j \in S : j <= k})

(* onmessage is called with the messages the peer sent, whole, in order    *)
(* and once each, however pings, pongs and the frames of a message follow  *)
(* one another, and before the next frame is looked at.                    *)
WholeMessages ==
  LET all == IF pc = "deliver" THEN Append(delivered, [type |-> frame_type, msg |-> msg_data])
             ELSE delivered
  IN /\ Len(all) = Cardinality(Finals(read))
     /\ \A e \in Finals(read) :
          LET m == all[Number(Finals(read), e)]
          IN IsBytesOf(m.msg, read, Parts(read, e)) /\ FirstSays(read, Parts(read, e), m.type)

FramesWith(frames, op) == {k \in DOMAIN frames : frames[k].opcode = op}

(* Each ping is answered once, with its own bytes and in its turn, also in *)
(* the middle of a message.  When nobody else closes the connection, its   *)
(* close frame is the last thing sent.                                     *)
AnswersInOrder ==
  LET pings == FramesWith(read, "PING")
      pongs == FramesWith(out, "PONG")
  IN /\ \A k \in pongs : \E j \in pings :
          Number(pings, j) = Number(pongs, k) /\ out[k].payload = read[j].payload
     /\ pc \in {"head", "body", "deliver"} => Cardinality(pongs) = Cardinality(pings)
     /\ server = "idle" =>
          \A k \in FramesWith(out, "CLSE") : k = Len(out) /\ pc \in {"onclose", "ended"}

(* A message that onmessage is given has room for the terminator behind    *)
(* it (main.c reads it as a string), or is NULL if it has no bytes; and    *)
(* what has been read of a message lies within its block, however it is    *)
(* cut into frames.  Only a sum of lengths that has wrapped takes it out.  *)
TerminatorFits ==
  /\ pc = "deliver" => cap = IF msg_data = <<>> THEN 0 ELSE Len(msg_data) + 1
  /\ Len(msg_data) > cap => pc \in {"overrun", "crashed"}

(* What was allocated for a message is freed once however the connection   *)
(* ends, save when the peer leaves, or the server's own timeout or ping    *)
(* shuts the socket, between two frames of a message (or memory ran out in *)
(* the handshake).                                                         *)
BlocksFreed ==
  /\ pc \in {"onclose", "ended", "close", "do_close"} => cap = 0
  /\ lost > 0 =>
       /\ lost = 1 /\ pc \in {"onclose", "ended"}
       /\ read # <<>> =>
            /\ gone
            /\ \E k \in DataFrames(read) \ Finals(read) : \A j \in DataFrames(read) : j <= k

(* Once the server has begun to close, at most the message whose last      *)
(* frame was being read is still delivered, until the timeout (or a ping)  *)
(* shuts the socket: from then on the state is no longer compared with     *)
(* anything, and all that is buffered is delivered.                        *)
AtMostOneLate == server # "shut" => late <= 1

(* A thread that nothing more can come for, or whose socket another thread *)
(* has shut, comes to its end, unless it brings the process down.          *)
Ends == (gone \/ state = "CLOSED") ~> pc \in {"ended", "crashed"}

=============================================================================
