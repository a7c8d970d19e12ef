------------------------------ MODULE QoEServer ------------------------------
(***************************************************************************)
(* The measurement server: main.c with the parts of evaluation.c, timer.c  *)
(* and utils.c it runs, over the sliding buffer of buffer.c.               *)
(*                                                                         *)
(* Five threads share one buffer and a handful of flags, and no lock:      *)
(*   - the client thread of the WebSocket library, which runs onmessage;   *)
(*   - the signalling thread and the executing thread of the stall timer;  *)
(*   - the signalling thread and the executing thread of the evaluation    *)
(*     timer, the second of which runs eval_task.                          *)
(* cpc is where the client thread is in onmessage, pc where eval_task is.  *)
(*                                                                         *)
(* The server runs in one of two modes.  Two-step: the buffer holds        *)
(* segment numbers and eval_task hands the N first ones to the evaluator.  *)
(* One-step: onmessage has each segment evaluated as it arrives, the       *)
(* buffer holds the scores, and eval_task takes their mean.                *)
(*                                                                         *)
(* What the evaluator prints is a constant, Answers.  At this commit the   *)
(* two-step command line lacks a blank (evaluation.c:136-144) and the      *)
(* evaluator rejects it, so that only NoJson and Silent come back in       *)
(* two-step mode; the model is checked with those alone and with scores,   *)
(* which is the server with that blank in place.                           *)
(*                                                                         *)
(* Durations are in units of the segment duration d.  Not here: arrival    *)
(* times (only logged), and the unlocked buffer operations taken apart     *)
(* (each is one step).                                                     *)
(***************************************************************************)
EXTENDS SlidingBuffer, FiniteSetsExt

CONSTANTS
  N,         (* the window size                                      *)
  OneStep,   (* the mode                                             *)
  SegNums,   (* the segment numbers onmessage may read off a message *)
  Answers,   (* what the evaluator may print: a score, or one of     *)
             (* NoJson, Silent and NoScore                           *)
  MaxMsgs,   (* bound: messages                                      *)
  MaxTicks,  (* bound: periods of the two timers together            *)
  MaxConns,  (* bound: connections                                   *)
  MaxPipes   (* popen calls the file descriptor limit leaves room for *)

NoJson == 0      (* the evaluator printed something that is not JSON *)
Silent == -1     (* it printed nothing: fgets leaves path as it was  *)
NoScore == -2    (* it printed JSON that has no member O46           *)
Scores == {a \in Answers : a > 0}

(* An element that stands for a stall: lowest score or a sentinel.         *)
StallMark == IF OneStep THEN 1 ELSE -1

(* The buffer holds floats, which have 24 bits for a number: below 2^24,   *)
(* Exact, an int stays itself, above it the nearest multiple of a power of *)
(* two is stored (the even one of two as near).                            *)
Exact == 2^24
Powers == {1, 2, 4, 8, 16, 32, 64, 128}

Spacing(n) == Min({u \in Powers : n \div u < Exact})

AsFloat(n) ==
  LET u  == Spacing(n)
      up == \/ 2 * (n % u) > u
            \/ 2 * (n % u) = u /\ (n \div u) % 2 = 1
  IN  IF up THEN (n \div u + 1) * u ELSE (n \div u) * u

(* The largest int whose float converts back to an int (2^31 - 65).        *)
MaxSegNum == 64 * Exact + (64 * Exact - 65)

(* N, p and d are uint8_t in main; the buffer has 1000 slots.              *)
ASSUME ServerAssumption ==
  /\ N \in Nat /\ N <= K
  /\ OneStep \in BOOLEAN
  /\ SegNums \subseteq 0 .. MaxSegNum
  /\ Answers \subseteq Int /\ Answers # {}
  /\ \A a \in Answers : a >= NoScore
  /\ {MaxMsgs, MaxTicks, MaxConns, MaxPipes} \subseteq Nat
  /\ StallMark \in Elements
  /\ IF OneStep THEN Scores \subseteq Elements
                ELSE \A n \in SegNums : AsFloat(n) \in Elements

VARIABLES
  is_stalling, stall_counter,     (* globals of main.c               *)
  started, nf, tft, tfm,          (* struct evaluation_data          *)
  client,      (* id of the connected client, 0 when there is none   *)
  next_cid,    (* cid_generator of ws.c                              *)
  cpc, seg,    (* the client thread in onmessage, and segmentNumber  *)
  stall_sem, eval_sem,            (* the semaphores of the two timers *)
  pc,          (* the executing thread of the evaluation timer       *)
  seen,        (* the slots the scan has read so far, in order       *)
  stalls, stall_occurred,         (* locals of the scan              *)
  had,         (* write_idx when the scan began (never read)         *)
  segments,    (* numbers of the segment files on disk               *)
  path,        (* the score in the buffer the answer is read into    *)
  pipes,       (* popen streams, which nothing closes                *)
  alive,       (* the process runs                                   *)
  msgs, ticks  (* count against the bounds                           *)

flagVars  == <<is_stalling, stall_counter, started, nf>>
totalVars == <<tft, tfm>>
connVars  == <<client, next_cid>>
msgVars   == <<cpc, seg, msgs>>
timerVars == <<stall_sem, eval_sem, ticks>>
scanVars  == <<seen, stalls, stall_occurred, had>>
evalVars  == <<path, pipes>>
vars == <<bufVars, flagVars, totalVars, connVars, msgVars, timerVars, pc, scanVars,
          segments, evalVars, alive>>

Init ==
  /\ BufInit
  /\ is_stalling = FALSE /\ stall_counter = 0
  /\ started = FALSE /\ nf = 0 /\ tft = 0 /\ tfm = 0
  /\ client = 0 /\ next_cid = 1
  /\ cpc = "read" /\ seg = 0 /\ msgs = 0
  /\ stall_sem = 0 /\ eval_sem = 0 /\ ticks = 0
  /\ pc = "wait" /\ seen = <<>> /\ stalls = <<>> /\ stall_occurred = FALSE /\ had = 0
  /\ segments = {} /\ path = NoJson /\ pipes = 0 /\ alive = TRUE

-----------------------------------------------------------------------------
(* The connection, as main.c sees it: the library serves one client at a   *)
(* time, numbers every accepted connection, and a connection that does not *)
(* get through the handshake has used up a number all the same.            *)

Accept ==
  /\ client = 0 /\ next_cid <= MaxConns
  /\ next_cid' = next_cid + 1
  /\ client' \in {0, next_cid}
  /\ UNCHANGED <<bufVars, flagVars, totalVars, msgVars, timerVars, pc, scanVars,
                 segments, evalVars, alive>>

(* accept fails when the descriptors have run out, and the library exits.  *)
AcceptPanics ==
  /\ pipes = MaxPipes
  /\ alive' = FALSE
  /\ UNCHANGED <<bufVars, flagVars, totalVars, connVars, msgVars, timerVars, pc, scanVars,
                 segments, evalVars>>

(* onclose resets nothing: stalls and evaluations go on.                   *)
Disconnect ==
  /\ client # 0 /\ cpc = "read"
  /\ client' = 0
  /\ UNCHANGED <<bufVars, flagVars, totalVars, next_cid, msgVars, timerVars, pc, scanVars,
                 segments, evalVars, alive>>

-----------------------------------------------------------------------------
(* onmessage                                                               *)

Receive ==
  /\ client # 0 /\ cpc = "read" /\ msgs < MaxMsgs
  /\ msgs' = msgs + 1

(* The message "-1" (or a prefix of it, the empty message included).       *)
OnStall ==
  /\ Receive
  /\ AddElement(StallMark)
  /\ nf' = nf + 1
  /\ is_stalling' = TRUE
  /\ stall_counter' = stall_counter + 1
  /\ UNCHANGED <<started, totalVars, connVars, cpc, seg, timerVars, pc, scanVars,
                 segments, evalVars, alive>>

(* base64_decode returns NULL, say for a message whose base64 digits are   *)
(* no multiple of four, and memcpy reads the segment number through it.    *)
OnUndecodable ==
  /\ Receive
  /\ is_stalling' = FALSE
  /\ alive' = FALSE
  /\ UNCHANGED <<bufVars, stall_counter, started, nf, totalVars, connVars, cpc, seg,
                 timerVars, pc, scanVars, segments, evalVars>>

(* The number is the first four bytes of the message, of which the client  *)
(* need not have sent all: what follows them on the heap is then read, and *)
(* stored.                                                                 *)
OnSegment ==
  /\ Receive
  /\ seg' \in SegNums
  /\ is_stalling' = FALSE
  /\ cpc' = "store"
  /\ UNCHANGED <<bufVars, stall_counter, started, nf, totalVars, connVars, timerVars, pc,
                 scanVars, segments, evalVars, alive>>

(* A store that carries on where store_segment fails (a mutant).           *)
StoreIgnored ==
  /\ cpc = "store"
  /\ cpc' = IF OneStep THEN "score" ELSE "add"
  /\ UNCHANGED <<bufVars, flagVars, totalVars, connVars, seg, msgs, timerVars, pc, scanVars,
                 segments, evalVars, alive>>

(* The file cannot be opened: the segment is dropped.                      *)
StoreFails ==
  /\ cpc = "store"
  /\ cpc' = "read"
  /\ UNCHANGED <<bufVars, flagVars, totalVars, connVars, seg, msgs, timerVars, pc, scanVars,
                 segments, evalVars, alive>>

(* The segment is on disk; the one numbered N starts the evaluations.      *)
StoreSegment ==
  /\ cpc = "store"
  /\ segments' = segments \union {seg}
  /\ started' = (started \/ seg = N)
  /\ cpc' = IF OneStep THEN "score" ELSE "add"
  /\ UNCHANGED <<bufVars, is_stalling, stall_counter, nf, totalVars, connVars, seg, msgs,
                 timerVars, pc, scanVars, evalVars, alive>>

(* The parameter of add_element is a float.                                *)
AddSegment ==
  /\ cpc = "add"
  /\ AddElement(AsFloat(seg))
  /\ cpc' = "read"
  /\ UNCHANGED <<flagVars, totalVars, connVars, seg, msgs, timerVars, pc, scanVars,
                 segments, evalVars, alive>>

(* One popen of the evaluator, read to its end.  When the child prints     *)
(* nothing, path is an uninitialized local: the previous answer if its     *)
(* stack slot survived, else no JSON.                                      *)
Printed(answer) == IF answer = Silent THEN {path, NoJson} ELSE {answer}

RunEvaluator ==
  /\ pipes < MaxPipes
  /\ pipes' = pipes + 1
  /\ \E answer \in Answers : path' \in Printed(answer)

(* One-step mode: the segment's score goes into the buffer.                *)
ScoreSegment ==
  /\ cpc = "score"
  /\ RunEvaluator
  /\ path' \in Scores
  /\ AddElement(path')
  /\ cpc' = "read"
  /\ UNCHANGED <<flagVars, totalVars, connVars, seg, msgs, timerVars, pc, scanVars,
                 segments, alive>>

(* No process, no JSON, or no O46 in it: O46 is NULL and onmessage reads   *)
(* through it.                                                             *)
ScoreCrashes ==
  /\ cpc = "score"
  /\ \/ pipes = MaxPipes /\ UNCHANGED evalVars
     \/ RunEvaluator /\ path' \in {NoJson, NoScore}
  /\ alive' = FALSE
  /\ UNCHANGED <<bufVars, flagVars, totalVars, connVars, msgVars, timerVars, pc, scanVars,
                 segments>>

-----------------------------------------------------------------------------
(* The stall timer: one period of the signalling thread, one turn of the   *)
(* executing thread.                                                       *)

SignalStall ==
  /\ is_stalling /\ ticks < MaxTicks
  /\ ticks' = ticks + 1
  /\ stall_sem' = stall_sem + 1
  /\ UNCHANGED <<bufVars, flagVars, totalVars, connVars, msgVars, eval_sem, pc, scanVars,
                 segments, evalVars, alive>>

StallingTask ==
  /\ stall_sem > 0
  /\ stall_sem' = stall_sem - 1
  /\ AddElement(StallMark)
  /\ stall_counter' = stall_counter + 1
  /\ UNCHANGED <<is_stalling, started, nf, totalVars, connVars, msgVars, eval_sem, ticks, pc,
                 scanVars, segments, evalVars, alive>>

-----------------------------------------------------------------------------
(* The evaluation timer                                                    *)

SignalEval ==
  /\ started /\ ticks < MaxTicks
  /\ ticks' = ticks + 1
  /\ eval_sem' = eval_sem + 1
  /\ UNCHANGED <<bufVars, flagVars, totalVars, connVars, msgVars, stall_sem, pc, scanVars,
                 segments, evalVars, alive>>

(* An executing thread that does not wait on its semaphore (a mutant).     *)
EvalBeginUnasked ==
  /\ pc = "wait"
  /\ eval_sem' = eval_sem - 1
  /\ pc' = "scan"
  /\ had' = write_idx
  /\ UNCHANGED <<bufVars, flagVars, totalVars, connVars, msgVars, stall_sem, ticks,
                 seen, stalls, stall_occurred, segments, evalVars, alive>>

(* eval_task begins.                                                       *)
EvalBegin ==
  /\ pc = "wait" /\ eval_sem > 0
  /\ eval_sem' = eval_sem - 1
  /\ pc' = "scan"
  /\ had' = write_idx
  /\ UNCHANGED <<bufVars, flagVars, totalVars, connVars, msgVars, stall_sem, ticks,
                 seen, stalls, stall_occurred, segments, evalVars, alive>>

(* eval_task returns, and its locals are gone.                             *)
EvalReturns ==
  /\ pc' = "wait"
  /\ seen' = <<>> /\ stalls' = <<>> /\ stall_occurred' = FALSE /\ had' = 0

(* The scan of generate_evaluation_command reads one slot a step, while    *)
(* the other threads go on adding elements.                                *)
Slot == Len(seen)

ReadSlot ==
  /\ pc = "scan" /\ Slot < N
  /\ seen' = Append(seen, data[Slot])

scanUnchanged ==
  UNCHANGED <<bufVars, flagVars, connVars, msgVars, timerVars, pc, had, segments, evalVars,
              alive>>

ScanEmpty ==
  /\ ~OneStep /\ ReadSlot /\ data[Slot] = Empty
  /\ UNCHANGED <<stalls, stall_occurred, totalVars>>
  /\ scanUnchanged

(* A stall element opens a stall or prolongs the one that is open.         *)
ScanStall ==
  /\ ~OneStep /\ ReadSlot /\ data[Slot] = -1
  /\ stalls' = IF stall_occurred
                 THEN [stalls EXCEPT ![Len(stalls)].duration = @ + 1]
                 ELSE Append(stalls, [start |-> Slot + 1, duration |-> 1])
  /\ stall_occurred' = TRUE
  /\ UNCHANGED totalVars
  /\ scanUnchanged

(* add_stall_duration with an off-by-one (a mutant).                       *)
AddStallDurationAndOne(duration) ==
  /\ tft' = tft + duration
  /\ tfm' = IF duration + 1 > tfm THEN duration + 1 ELSE tfm

AddStallDuration(duration) ==
  /\ tft' = tft + duration
  /\ tfm' = IF duration > tfm THEN duration ELSE tfm

(* The scan of a caller that does not mark the stall as over (a mutant).   *)
ScanSegmentKeepsStall ==
  /\ ~OneStep /\ ReadSlot /\ data[Slot] \notin {Empty, -1}
  /\ IF stall_occurred THEN AddStallDuration(stalls[Len(stalls)].duration)
                       ELSE UNCHANGED totalVars
  /\ UNCHANGED <<stalls, stall_occurred>>
  /\ scanUnchanged

(* A segment ends the open stall, whose duration is only now accounted     *)
(* for: a stall that reaches the end of the window never is.               *)
ScanSegment ==
  /\ ~OneStep /\ ReadSlot /\ data[Slot] \notin {Empty, -1}
  /\ IF stall_occurred THEN AddStallDuration(stalls[Len(stalls)].duration)
                       ELSE UNCHANGED totalVars
  /\ stall_occurred' = FALSE
  /\ UNCHANGED stalls
  /\ scanUnchanged

Segments(slots) == {i \in DOMAIN slots : slots[i] > 0}

ScanDone ==
  /\ ~OneStep /\ pc = "scan" /\ Slot = N
  /\ pc' = IF Segments(seen) = {} THEN "verdict" ELSE "run"
  /\ UNCHANGED <<bufVars, flagVars, totalVars, connVars, msgVars, timerVars, scanVars,
                 segments, evalVars, alive>>

(* float_array_mean: the mean of the scores up to the first value below 1. *)
MeanAdd ==
  /\ OneStep /\ ReadSlot /\ data[Slot] >= 1
  /\ UNCHANGED <<stalls, stall_occurred, totalVars>>
  /\ scanUnchanged

MeanDoneAtOne ==    (* stops at the lowest score as well (a mutant) *)
  /\ OneStep /\ pc = "scan"
  /\ Slot = N \/ data[Slot] <= 1
  /\ pc' = "send"
  /\ UNCHANGED <<bufVars, flagVars, totalVars, connVars, msgVars, timerVars, scanVars,
                 segments, evalVars, alive>>

MeanDoneFullOnly == (* waits for a full window (a mutant)           *)
  /\ OneStep /\ pc = "scan"
  /\ Slot = N
  /\ pc' = "send"
  /\ UNCHANGED <<bufVars, flagVars, totalVars, connVars, msgVars, timerVars, scanVars,
                 segments, evalVars, alive>>

MeanDone ==
  /\ OneStep /\ pc = "scan"
  /\ Slot = N \/ data[Slot] < 1
  /\ pc' = "send"
  /\ UNCHANGED <<bufVars, flagVars, totalVars, connVars, msgVars, timerVars, scanVars,
                 segments, evalVars, alive>>

(* A verdict that waits for a stall to report (a mutant).                  *)
VerdictWaits ==
  /\ pc = "verdict" /\ is_stalling
  /\ pc' = "send_one"
  /\ UNCHANGED <<bufVars, flagVars, totalVars, connVars, msgVars, timerVars, scanVars,
                 segments, evalVars, alive>>

(* The window holds no segment.  Only if the player is stalling at this    *)
(* moment is that reported, as the lowest score.                           *)
Verdict ==
  /\ pc = "verdict"
  /\ pc' = IF is_stalling THEN "send_one" ELSE "slice"
  /\ UNCHANGED <<bufVars, flagVars, totalVars, connVars, msgVars, timerVars, scanVars,
                 segments, evalVars, alive>>

(* popen of the evaluator on the window, and the parse of what it printed. *)
Evaluate ==
  /\ pc = "run"
  /\ RunEvaluator
  /\ path' # NoJson
  /\ pc' = "send"
  /\ UNCHANGED <<bufVars, flagVars, totalVars, connVars, msgVars, timerVars, scanVars,
                 segments, alive>>

(* No process, or no JSON: eval_task returns and the window stays.         *)
EvaluateFails ==
  /\ pc = "run"
  /\ \/ pipes = MaxPipes /\ UNCHANGED evalVars
     \/ RunEvaluator /\ path' = NoJson
  /\ EvalReturns
  /\ UNCHANGED <<bufVars, flagVars, totalVars, connVars, msgVars, timerVars, segments, alive>>

(* A send whose failure nobody looks at (a mutant).                        *)
SendFailureIgnored ==
  /\ pc \in {"send", "send_one"}
  /\ pc' = "slice"
  /\ UNCHANGED <<bufVars, flagVars, totalVars, connVars, msgVars, timerVars, scanVars,
                 segments, evalVars, alive>>

(* The result is the evaluator's JSON and has no O46.                      *)
Unscored == pc = "send" /\ ~OneStep /\ path = NoScore

(* Results go to connection 1, whoever is connected, and a send to an open *)
(* connection may fail too.  (send_one is the lowest score of Verdict.)    *)
Send ==
  /\ pc \in {"send", "send_one"} /\ client = 1
  /\ ~Unscored
  /\ pc' = "slice"
  /\ UNCHANGED <<bufVars, flagVars, totalVars, connVars, msgVars, timerVars, scanVars,
                 segments, evalVars, alive>>

(* An answer without O46 is sent like any other, but then eval_task logs   *)
(* the value it has not.                                                   *)
SendCrashes ==
  /\ pc = "send" /\ client = 1
  /\ Unscored
  /\ alive' = FALSE
  /\ UNCHANGED <<bufVars, flagVars, totalVars, connVars, msgVars, timerVars, pc, scanVars,
                 segments, evalVars>>

SendFails ==
  /\ pc \in {"send", "send_one"}
  /\ EvalReturns
  /\ UNCHANGED <<bufVars, flagVars, totalVars, connVars, msgVars, timerVars, segments,
                 evalVars, alive>>

Slice ==
  /\ pc = "slice"
  /\ IF started THEN SliceBuffer ELSE UNCHANGED bufVars
  /\ EvalReturns
  /\ UNCHANGED <<flagVars, totalVars, connVars, msgVars, timerVars, segments, evalVars, alive>>

-----------------------------------------------------------------------------
Connection == Accept \/ AcceptPanics \/ Disconnect

ClientThread ==
  \/ StoreFails \/ StoreSegment \/ AddSegment
  \/ ScoreSegment \/ ScoreCrashes

EvalTask ==
  \/ EvalBegin
  \/ ScanEmpty \/ ScanStall \/ ScanSegment \/ ScanDone
  \/ MeanAdd \/ MeanDone
  \/ Verdict \/ Evaluate \/ EvaluateFails
  \/ Send \/ SendCrashes \/ SendFails \/ Slice

Next ==
  /\ alive
  /\ \/ Connection
     \/ OnStall \/ OnUndecodable \/ OnSegment \/ ClientThread
     \/ SignalStall \/ StallingTask
     \/ SignalEval \/ EvalTask

Spec == Init /\ [][Next]_vars

(* The environment owes nothing: no client need come, send or leave, and   *)
(* no timer period need pass.  The threads that have work to do are        *)
(* scheduled, and a process started by popen ends.                         *)
Fairness ==
  /\ WF_vars(alive /\ ClientThread)
  /\ WF_vars(alive /\ StallingTask)
  /\ WF_vars(alive /\ EvalTask)

FairSpec == Spec /\ Fairness

-----------------------------------------------------------------------------
(* Properties                                                              *)

FlagsOK ==
  /\ is_stalling \in BOOLEAN /\ started \in BOOLEAN
  /\ stall_counter \in Nat /\ nf \in Nat

TotalsOK == tft \in Nat /\ tfm \in Nat

ConnectionOK ==
  /\ next_cid \in 1 .. MaxConns + 1
  /\ client \in 0 .. next_cid - 1

MessageOK ==
  /\ cpc \in {"read", "store", IF OneStep THEN "score" ELSE "add"}
  /\ seg \in SegNums \union {0}
  /\ msgs \in 0 .. MaxMsgs

TimersOK == stall_sem \in Nat /\ eval_sem \in Nat /\ ticks \in 0 .. MaxTicks

Stall == [start : 1 .. N, duration : 1 .. N]

ScanOK ==
  /\ had \in Int
  /\ seen \in Seq(Elements) /\ Len(seen) <= N
  /\ stalls \in Seq(Stall)
  /\ stall_occurred \in BOOLEAN

EvaluatorOK == path \in Scores \union {NoJson, NoScore} /\ pipes \in 0 .. MaxPipes

TypeOK ==
  /\ BufTypeOK
  /\ FlagsOK /\ TotalsOK
  /\ ConnectionOK /\ MessageOK /\ TimersOK
  /\ pc \in {"wait", "scan", "verdict", "send_one", "run", "send", "slice"}
  /\ ScanOK
  /\ segments \subseteq SegNums \union {0}
  /\ EvaluatorOK
  /\ alive \in BOOLEAN

(* Two-step mode: a segment number that is in the buffer, or that the scan *)
(* has put on the evaluator's command line, is the float of the number of  *)
(* a file that was stored before, which below Exact is that number itself: *)
(* eval_task runs at any moment of onmessage and asks for no segment that  *)
(* did not come in.  The evaluations themselves start only once segment N  *)
(* is on disk.                                                             *)
FloatOfStored(e) == \E n \in segments : e = AsFloat(n)

EvaluatesOnlyStored ==
  /\ ~OneStep => /\ \A i \in Slots : data[i] > 0 => FloatOfStored(data[i])
                 /\ \A i \in DOMAIN seen : seen[i] > 0 => FloatOfStored(seen[i])
  /\ eval_sem > 0 \/ pc # "wait" => N \in segments

(* An evaluation reads, of the elements that were in the window when it    *)
(* began, every one, and they are still in their slots when it ends: what  *)
(* the other threads add meanwhile, through the long call to the           *)
(* evaluator, moves none of them, and no element stops the reading early:  *)
(* only an empty slot does, which an overflow of the array leaves behind.  *)
WindowIsRead ==
  pc # "wait" =>
    \A i \in 1 .. N : i <= had =>
      /\ i <= Len(seen) => seen[i] = data[i - 1]
      /\ \/ i <= Len(seen)
         \/ pc = "scan"
         \/ OneStep /\ \E h \in 1 .. i : data[h - 1] = Empty

(* The list of stalls of the scan against its definition: one entry per    *)
(* run of stall elements between two segments, with its first position     *)
(* (from 1) and its length.                                                *)
StallStarts ==
  {i \in DOMAIN seen : /\ seen[i] = -1
                       /\ \A h \in 1 .. i - 1 :
                            seen[h] = -1 => \E k \in h + 1 .. i - 1 : seen[k] > 0}

StallLength(i) ==
  Cardinality({k \in i .. Len(seen) : seen[k] = -1 /\ \A m \in i .. k : seen[m] <= 0})

StallsAreRuns ==
  ~OneStep =>
    /\ Len(stalls) = Cardinality(StallStarts)
    /\ \A i \in StallStarts : \E n \in DOMAIN stalls :
         stalls[n] = [start |-> i, duration |-> StallLength(i)]

(* The longest stall is no longer than all of them, and a stall that has   *)
(* been accounted for left room in the window for the segment that ended   *)
(* it.                                                                     *)
StallTotalsBounded ==
  /\ tfm <= tft
  /\ tfm > 0 => tfm < N

(* An evaluation that found segments reaches the slide only by a result    *)
(* that went out to connection 1: when the evaluator or the connection     *)
(* fails, the window stays for the next period.                            *)
AnsweredBeforeSliding ==
  [][pc # "slice" /\ pc' = "slice" /\ Segments(seen) # {}
       => client = 1 /\ pc = "send" /\ (OneStep \/ path \in Scores)]_vars

(* Consecutive windows overlap by N - P elements: after the slide the      *)
(* window begins with the elements this evaluation read, less the first P. *)
WindowsOverlap ==
  [][write_idx' < write_idx
       => \A i \in DOMAIN seen : P < i /\ i <= had => data'[i - P - 1] = seen[i]]_vars

(* Every message handler and every evaluation comes to its end, and a      *)
(* period of a timer is not forgotten: an evaluation asked for while       *)
(* another one runs is begun after it, a due stall element is added.       *)
Served ==
  /\ cpc # "read" ~> cpc = "read" \/ ~alive
  /\ pc # "wait" ~> pc = "wait" \/ ~alive
  /\ pc = "wait" /\ eval_sem > 0 ~> pc = "scan" \/ ~alive
  /\ stall_sem > 0 ~> stall_sem = 0 \/ ~alive

-----------------------------------------------------------------------------
(* What the repository says of the server and the code does not do.        *)

(* evaluation.h, of tft: "the total duration of stalls".  A stall is       *)
(* accounted for in every window it is seen in.                            *)
TftIsTotal == tft <= stall_counter

(* tests/window_test.py evaluates every segment in some window.  Here a    *)
(* segment may arrive in the window after the scan has read its slot and   *)
(* before the slide cuts it off.                                           *)
NoSegmentSkipped ==
  [][write_idx' < write_idx
       => \A i \in Slots : i < P /\ data[i] > 0
            => i < Len(seen) /\ seen[i + 1] = data[i]]_vars

(* main.c logs "The window is full of stalls" and reports the lowest score.*)
LowestMeansFullOfStalls == pc = "send_one" => \A i \in 1 .. N : seen[i] = -1
=============================================================================
