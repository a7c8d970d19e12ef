--------------------------- MODULE QoEServer_proofs ---------------------------
(***************************************************************************)
(* What SlidingBuffer guarantees for every K, P and set of elements:       *)
(* types, emptiness beyond write_idx, and the refinement of the abstract   *)
(* window of SlidingWindow; and what QoEServer, which runs on it, does for *)
(* every window, step, mode, set of segment numbers, evaluator and bound.  *)
(***************************************************************************)
EXTENDS QoEServer, SequenceTheorems, FiniteSetTheorems, TLAPS

-----------------------------------------------------------------------------
(* The sliding buffer: types                                               *)

(* create_buffer returns a buffer of the right type.                       *)
LEMMA BufInitTypeOK == BufInit => BufTypeOK
  BY BufferAssumption DEF BufInit, BufTypeOK, Slots, Empty

(* add_element keeps the type.                                             *)
LEMMA AddTypeOK ==
  ASSUME BufTypeOK, NEW e \in Elements, AddElement(e)
  PROVE  BufTypeOK'
  BY DEF BufTypeOK, AddElement, bufVars

(* slice_buffer keeps the type.                                            *)
LEMMA SliceTypeOK ==
  ASSUME BufTypeOK, SliceBuffer
  PROVE  BufTypeOK'
<1>1. data' \in [Slots -> Elements]
  <2>1. \A i \in Slots : i < K - P => i + P \in Slots
    BY BufferAssumption DEF Slots
  <2> QED BY <2>1, BufferAssumption DEF BufTypeOK, SliceBuffer, Empty
<1>2. write_idx' \in Int
  BY BufferAssumption DEF BufTypeOK, SliceBuffer
<1> QED BY <1>1, <1>2 DEF BufTypeOK, SliceBuffer

(* Every operation keeps the type.                                         *)
LEMMA BufStepTypeOK ==
  ASSUME BufTypeOK, [BufNext]_bufVars
  PROVE  BufTypeOK'
<1>1. CASE SliceBuffer BY <1>1, SliceTypeOK
<1>2. CASE \E e \in Elements : AddElement(e) BY <1>2, AddTypeOK
<1>3. CASE UNCHANGED bufVars BY <1>3 DEF BufTypeOK, bufVars
<1> QED BY <1>1, <1>2, <1>3 DEF BufNext

(* The slots always hold elements, and the indices stay integers.          *)
THEOREM BufTypeInvariant == BufSpec => []BufTypeOK
  BY BufInitTypeOK, BufStepTypeOK, PTL DEF BufSpec

-----------------------------------------------------------------------------
(* The sliding buffer: nothing is left beyond write_idx                    *)

(* A new buffer is empty.                                                  *)
LEMMA EmptyInit == BufInit => EmptyBeyondWriteIdx
  BY DEF BufInit, EmptyBeyondWriteIdx

(* No operation leaves anything at or beyond write_idx.                    *)
LEMMA EmptyStep ==
  ASSUME BufTypeOK, EmptyBeyondWriteIdx, [BufNext]_bufVars
  PROVE  EmptyBeyondWriteIdx'
<1>1. CASE SliceBuffer
  <2> SUFFICES ASSUME NEW i \in Slots, i >= write_idx - P, i < K - P
               PROVE  data[i + P] = Empty
    BY <1>1 DEF SliceBuffer, EmptyBeyondWriteIdx
  <2>1. i + P \in Slots /\ i + P >= write_idx
    BY BufferAssumption DEF Slots, BufTypeOK
  <2> QED BY <2>1 DEF EmptyBeyondWriteIdx
<1>2. CASE \E e \in Elements : AddElement(e)
  <2> PICK e \in Elements : AddElement(e) BY <1>2
  <2>1. CASE UNCHANGED bufVars BY <2>1 DEF EmptyBeyondWriteIdx, bufVars
  <2>2. CASE /\ data' = [i \in Slots |-> IF i = write_idx THEN e ELSE data[i]]
             /\ write_idx' = write_idx + 1
    BY <2>2, BufferAssumption DEF EmptyBeyondWriteIdx, BufTypeOK, Slots
  <2> QED BY <2>1, <2>2 DEF AddElement
<1>3. CASE UNCHANGED bufVars BY <1>3 DEF EmptyBeyondWriteIdx, bufVars
<1> QED BY <1>1, <1>2, <1>3 DEF BufNext

(* A reader beyond the newest element only ever finds empty slots.         *)
THEOREM EmptyBeyondInvariant == BufSpec => []EmptyBeyondWriteIdx
<1>1. BufTypeOK /\ EmptyBeyondWriteIdx /\ [BufNext]_bufVars => EmptyBeyondWriteIdx'
  BY EmptyStep
<1> QED BY <1>1, EmptyInit, BufTypeInvariant, PTL DEF BufSpec

-----------------------------------------------------------------------------
(* The sliding buffer: the refinement                                      *)

Bars ==
  /\ Filled \in Nat
  /\ windowBar \in Seq(Elements)
  /\ Len(windowBar) = Filled
  /\ \A i \in 1 .. Filled : windowBar[i] = IF i <= K THEN data[i - 1] ELSE Empty

(* The abstract window of an array is a sequence of elements, slot by      *)
(* slot.                                                                   *)
LEMMA BarTypes == BufTypeOK => Bars
<1> SUFFICES ASSUME BufTypeOK PROVE Bars OBVIOUS
<1>1. Filled \in Nat BY DEF BufTypeOK, Filled
<1>2. windowBar \in [1 .. Filled -> Elements]
  <2>1. \A i \in 1 .. Filled : i <= K => data[i - 1] \in Elements
    BY <1>1, BufferAssumption DEF BufTypeOK, Slots
  <2> QED BY <2>1, BufferAssumption DEF windowBar, Empty
<1>3. windowBar \in Seq(Elements) BY <1>1, <1>2, SeqDef
<1>4. Len(windowBar) = Filled
  <2>1. DOMAIN windowBar = 1 .. Filled /\ DOMAIN windowBar = 1 .. Len(windowBar)
    BY <1>2, <1>3, LenProperties
  <2>2. Len(windowBar) \in Nat BY <1>3, LenProperties
  <2> QED BY <1>1, <2>1, <2>2
<1> QED BY <1>1, <1>3, <1>4 DEF windowBar, Bars

(* The same of the next state.                                             *)
LEMMA BarTypesNext == BufTypeOK' => Bars'
  BY BarTypes, PTL

(* A new buffer is an empty window with no debt.                           *)
LEMMA BarInit == BufInit => Window!WInit
<1> SUFFICES ASSUME BufInit PROVE Window!WInit OBVIOUS
<1>1. Filled = 0 BY DEF BufInit, Filled
<1>2. windowBar = <<>>
  BY <1>1, BufInitTypeOK, BarTypes, EmptySeq DEF Bars
<1>3. debtBar = 0 BY DEF BufInit, debtBar
<1> QED BY <1>2, <1>3 DEF Window!WInit

(* slice_buffer is the abstract slide.                                     *)
LEMMA BarSlice ==
  ASSUME BufTypeOK, SliceBuffer
  PROVE  Window!WSlide
<1> USE DEF Bars
<1>1. Bars /\ Bars' BY SliceTypeOK, BarTypes, BarTypesNext
<1>2. P \in Nat /\ K \in Nat /\ P <= K /\ write_idx \in Int BY BufferAssumption DEF BufTypeOK
<1>3. write_idx' = write_idx - P BY DEF SliceBuffer
<1>4. CASE P <= Filled
  <2>1. Filled' = Filled - P /\ debtBar' = debtBar
    BY <1>2, <1>3, <1>4 DEF Filled, debtBar
  <2> DEFINE w == SubSeq(windowBar, P + 1, Len(windowBar))
  <2>2. \A i \in P + 1 .. Len(windowBar) : windowBar[i] \in Elements
    BY <1>2, <1>1, ElementOfSeq
  <2>3. /\ w \in Seq(Elements)
        /\ Len(w) = Filled - P
        /\ \A i \in 1 .. Filled - P : w[i] = windowBar[P + i]
    <3>1. /\ w \in Seq(Elements)
          /\ Len(w) = IF P + 1 <= Filled THEN Filled - (P + 1) + 1 ELSE 0
          /\ \A i \in 1 .. Filled - (P + 1) + 1 : w[i] = windowBar[P + 1 + i - 1]
      BY <1>2, <2>2, <1>1, SubSeqProperties
    <3> QED BY <3>1, <1>2, <1>4, <1>1
  <2>4. \A i \in 1 .. Filled' : w[i] = IF i <= K THEN data'[i - 1] ELSE Empty
    <3> SUFFICES ASSUME NEW i \in 1 .. Filled - P
                 PROVE  w[i] = IF i <= K THEN data'[i - 1] ELSE Empty
      BY <2>1
    <3>1. w[i] = IF P + i <= K THEN data[P + i - 1] ELSE Empty
      <4>1. w[i] = windowBar[P + i] BY <2>3
      <4>2. P + i \in 1 .. Filled BY <1>1, <1>2
      <4> HIDE DEF w
      <4>3. CASE P + i <= K
        <5>1. windowBar[P + i] = data[P + i - 1] BY <1>1, <1>2, <4>2, <4>3
        <5> QED BY <4>1, <4>3, <5>1
      <4>4. CASE ~(P + i <= K)
        <5>1. windowBar[P + i] = Empty BY <1>1, <4>2, <4>4
        <5> QED BY <4>1, <4>4, <5>1
      <4> QED BY <4>3, <4>4
    <3>2. CASE i <= K
      <4>1. i - 1 \in Slots BY <1>2, <3>2, <1>1 DEF Slots
      <4>2. data'[i - 1] = IF i - 1 < K - P THEN data[i - 1 + P] ELSE Empty
        BY <4>1 DEF SliceBuffer
      <4> QED BY <1>2, <3>1, <3>2, <4>2, <1>1
    <3>3. CASE i > K
      BY <1>2, <3>1, <3>3, <1>1
    <3> QED BY <1>2, <3>2, <3>3, <1>1
  <2>5. windowBar' = w
    <3>1. Len(w) = Filled' BY <2>1, <2>3
    <3>2. /\ windowBar' \in Seq(Elements) /\ Len(windowBar') = Filled'
          /\ \A i \in 1 .. Filled' : windowBar'[i] = IF i <= K THEN data'[i - 1] ELSE Empty
      BY <1>1
    <3> HIDE DEF w
    <3> QED BY <2>3, <2>4, <3>1, <3>2, SeqEqual
  <2> QED BY <1>4, <2>1, <2>5, <1>1 DEF Window!WSlide
<1>5. CASE Filled < P
  <2>1. Filled' = 0 /\ debtBar' = debtBar + (P - Filled)
    BY <1>2, <1>3, <1>5 DEF Filled, debtBar
  <2>2. windowBar' = <<>>
    BY <1>1, <2>1, EmptySeq
  <2> QED BY <1>5, <2>1, <2>2, <1>1 DEF Window!WSlide
<1> QED BY <1>2, <1>4, <1>5, <1>1

(* add_element is the abstract addition, or nothing.                       *)
LEMMA BarAdd ==
  ASSUME BufTypeOK, NEW e \in Elements, AddElement(e)
  PROVE  Window!WAdd(e) \/ UNCHANGED <<windowBar, debtBar>>
<1> USE DEF Bars
<1>1. Bars /\ Bars' BY AddTypeOK, BarTypes, BarTypesNext
<1>2. CASE UNCHANGED bufVars
  BY <1>2 DEF bufVars, windowBar, debtBar, Filled
<1>3. CASE /\ data' = [i \in Slots |-> IF i = write_idx THEN e ELSE data[i]]
           /\ write_idx' = write_idx + 1
  <2>1. CASE write_idx < 0
    <3>1. Filled = 0 /\ Filled' = 0 /\ debtBar > 0 /\ debtBar' = debtBar - 1
      BY <1>3, <2>1 DEF BufTypeOK, Filled, debtBar
    <3>2. windowBar = <<>> /\ windowBar' = <<>>
      BY <1>1, <3>1, EmptySeq
    <3> QED BY <3>1, <3>2 DEF Window!WAdd
  <2>2. CASE write_idx >= 0
    <3>1. /\ Filled = write_idx /\ Filled' = write_idx + 1
          /\ debtBar = 0 /\ debtBar' = 0 /\ write_idx \in Nat
      BY <1>3, <2>2 DEF BufTypeOK, Filled, debtBar
    <3> DEFINE x == IF Len(windowBar) < K THEN e ELSE Window!Hole
               w == Append(windowBar, x)
    <3>2. x \in Elements BY BufferAssumption DEF Window!Hole
    <3>3. /\ w \in Seq(Elements)
          /\ Len(w) = Filled'
          /\ \A i \in 1 .. Len(windowBar) : w[i] = windowBar[i]
          /\ w[Len(windowBar) + 1] = x
      BY <3>1, <3>2, <1>1, AppendProperties
    <3>4. ASSUME NEW i \in 1 .. Filled'
          PROVE  w[i] = IF i <= K THEN data'[i - 1] ELSE Empty
      <4>1. CASE i = write_idx + 1
        <5>1. w[i] = IF write_idx < K THEN e ELSE Empty
          BY <3>1, <3>3, <4>1, <1>1 DEF Window!Hole, Empty
        <5>2. i - 1 = write_idx /\ (i <= K <=> write_idx < K)
          BY <3>1, <4>1, BufferAssumption
        <5>3. CASE write_idx < K
          <6>1. write_idx \in Slots BY <3>1, <5>3, BufferAssumption DEF Slots
          <6>2. data'[write_idx] = e BY <1>3, <6>1
          <6> QED BY <5>1, <5>2, <5>3, <6>2
        <5>4. CASE ~(write_idx < K)
          BY <5>1, <5>2, <5>4
        <5> QED BY <5>3, <5>4
      <4>2. CASE i # write_idx + 1
        <5>1. i \in 1 .. Filled BY <3>1, <4>2
        <5>2. w[i] = IF i <= K THEN data[i - 1] ELSE Empty
          BY <3>3, <5>1, <1>1
        <5>3. i <= K => data'[i - 1] = data[i - 1]
          BY <1>3, <3>1, <5>1, BufferAssumption DEF Slots
        <5> QED BY <5>2, <5>3
      <4> QED BY <4>1, <4>2
    <3>5. windowBar' = w
      <4>1. /\ windowBar' \in Seq(Elements) /\ Len(windowBar') = Filled'
            /\ \A i \in 1 .. Filled' : windowBar'[i] = IF i <= K THEN data'[i - 1] ELSE Empty
        BY <1>1
      <4> HIDE DEF w
      <4> QED BY <3>3, <3>4, <4>1, SeqEqual
    <3> QED BY <3>1, <3>5 DEF Window!WAdd
  <2> QED BY <2>1, <2>2 DEF BufTypeOK
<1> QED BY <1>2, <1>3 DEF AddElement

(* Every operation is an abstract one, or nothing.                         *)
LEMMA BarStep ==
  ASSUME BufTypeOK, [BufNext]_bufVars
  PROVE  [Window!WNext]_(Window!winVars)
<1>1. CASE SliceBuffer BY <1>1, BarSlice DEF Window!WNext
<1>2. CASE \E e \in Elements : AddElement(e)
  BY <1>2, BarAdd DEF Window!WNext, Window!winVars
<1>3. CASE UNCHANGED bufVars
  BY <1>3 DEF bufVars, windowBar, debtBar, Filled, Window!winVars
<1> QED BY <1>1, <1>2, <1>3 DEF BufNext

(* Every behaviour of the array is a behaviour of the abstract window:     *)
(* shifting loses and reorders nothing, an index below the array is a      *)
(* debt, and an addition beyond it leaves a hole.                          *)
THEOREM BufferRefinesWindow == BufSpec => BufferIsWindow
<1>1. BufTypeOK /\ [BufNext]_bufVars => [Window!WNext]_(Window!winVars)
  BY BarStep
<1> QED BY <1>1, BarInit, BufTypeInvariant, PTL DEF BufSpec, BufferIsWindow

-----------------------------------------------------------------------------
(* Frame: who changes what.                                                *)

(* Connection and client steps leave the timers and eval_task alone.       *)
LEMMA ClientFrame ==
  ASSUME Connection \/ OnStall \/ OnUndecodable \/ OnSegment \/ ClientThread
  PROVE  /\ UNCHANGED <<totalVars, timerVars, pc, scanVars>>
         /\ OnStall \/ AddSegment \/ ScoreSegment \/ UNCHANGED bufVars
         /\ OnStall \/ OnUndecodable \/ OnSegment \/ StoreSegment \/ UNCHANGED flagVars
         /\ Accept \/ Disconnect \/ UNCHANGED connVars
         /\ ScoreSegment \/ ScoreCrashes \/ UNCHANGED evalVars
         /\ StoreSegment \/ UNCHANGED segments
         /\ Connection \/ OnStall \/ OnUndecodable \/ OnSegment \/ ClientThread
<1> USE DEF flagVars, connVars, evalVars, totalVars, timerVars, scanVars
<1>1. CASE Connection
  BY <1>1 DEF Connection, Accept, AcceptPanics, Disconnect
<1>2. CASE OnStall \/ OnUndecodable \/ OnSegment
  BY <1>2 DEF OnStall, OnUndecodable, OnSegment
<1>3. CASE ClientThread
  BY <1>3 DEF ClientThread, StoreFails, StoreSegment, AddSegment, ScoreSegment, ScoreCrashes
<1> QED BY <1>1, <1>2, <1>3

(* The timers change semaphores, and the buffer when a stall element is    *)
(* due.                                                                    *)
LEMMA TimerFrame ==
  ASSUME SignalStall \/ StallingTask \/ SignalEval
  PROVE  /\ UNCHANGED <<totalVars, connVars, msgVars, pc, scanVars, segments, evalVars, alive>>
         /\ StallingTask \/ UNCHANGED <<bufVars, flagVars>>
  BY DEF SignalStall, StallingTask, SignalEval, flagVars

Returns == EvaluateFails \/ SendFails \/ Slice
Reads == ScanEmpty \/ ScanStall \/ ScanSegment \/ MeanAdd

(* What eval_task can change, and in which of its steps.                   *)
LEMMA EvalFrame ==
  ASSUME EvalTask
  PROVE  /\ UNCHANGED <<flagVars, connVars, msgVars, segments>>
         /\ SendCrashes \/ UNCHANGED alive
         /\ Slice \/ UNCHANGED bufVars
         /\ ScanSegment \/ UNCHANGED totalVars
         /\ EvalBegin \/ UNCHANGED timerVars
         /\ Evaluate \/ EvaluateFails \/ UNCHANGED evalVars
         /\ EvalBegin \/ Reads \/ Returns \/ UNCHANGED scanVars
<1> USE DEF EvalTask, Reads, Returns, scanUnchanged
<1>1. CASE EvalBegin BY <1>1 DEF EvalBegin
<1>2. CASE Reads BY <1>2 DEF ScanEmpty, ScanStall, ScanSegment, MeanAdd
<1>3. CASE Returns BY <1>3 DEF EvaluateFails, SendFails, Slice
<1>4. CASE ScanDone \/ MeanDone \/ Verdict \/ Evaluate \/ Send \/ SendCrashes
  BY <1>4 DEF ScanDone, MeanDone, Verdict, Evaluate, Send, SendCrashes
<1> QED BY <1>1, <1>2, <1>3, <1>4

(* A step is a step of one thread.                                         *)
LEMMA NextCases ==
  ASSUME Next
  PROVE  \/ Connection \/ OnStall \/ OnUndecodable \/ OnSegment \/ ClientThread
         \/ SignalStall \/ StallingTask \/ SignalEval
         \/ EvalTask
  BY DEF Next

-----------------------------------------------------------------------------
(* Types.  That the list of stalls keeps its type depends on what the scan *)
(* knows of it: an open stall is the last one, and none is longer than the *)
(* part of the window that has been read.                                  *)

ScanInv ==
  /\ pc = "wait" => seen = <<>> /\ stalls = <<>> /\ ~stall_occurred
  /\ stall_occurred => Len(stalls) > 0
  /\ \A n \in 1 .. Len(stalls) : stalls[n].duration <= Len(seen)

TypeInv == TypeOK /\ ScanInv

(* The server starts in states of the right type.                          *)
LEMMA InitTypeInv == Init => TypeInv
<1> SUFFICES ASSUME Init PROVE TypeInv OBVIOUS
<1>1. BufTypeOK BY BufInitTypeOK DEF Init
<1>2. ScanOK /\ ScanInv
  <2>1. /\ seen \in Seq(Elements) /\ stalls \in Seq(Stall)
        /\ Len(seen) = 0 /\ Len(stalls) = 0
    BY EmptySeq DEF Init
  <2>2. ScanOK
    <3>1. N \in Nat BY ServerAssumption
    <3>2. had = 0 /\ stall_occurred = FALSE BY DEF Init
    <3>3. Len(seen) <= N /\ had \in Int BY <2>1, <3>1, <3>2
    <3>4. stall_occurred \in BOOLEAN BY <3>2
    <3> QED BY <2>1, <3>3, <3>4, Zenon DEF ScanOK
  <2>3. ScanInv BY <2>1 DEF Init, ScanInv
  <2> QED BY <2>2, <2>3
<1>3. FlagsOK /\ TotalsOK BY DEF Init, FlagsOK, TotalsOK
<1>4. ConnectionOK /\ MessageOK /\ TimersOK
  BY ServerAssumption DEF Init, ConnectionOK, MessageOK, TimersOK
<1>5. EvaluatorOK BY ServerAssumption DEF Init, EvaluatorOK
<1> QED BY <1>1, <1>2, <1>3, <1>4, <1>5 DEF Init, TypeInv, TypeOK

(* What the evaluator leaves in path has its type.                         *)
LEMMA RunEvaluatorOK ==
  ASSUME EvaluatorOK, RunEvaluator
  PROVE  EvaluatorOK'
<1>1. pipes' \in 0 .. MaxPipes
  BY ServerAssumption DEF EvaluatorOK, RunEvaluator
<1>2. PICK answer \in Answers : path' \in Printed(answer) BY DEF RunEvaluator
<1>3. CASE answer = Silent
  <2>1. path' \in Scores \union {NoJson, NoScore}
    BY <1>2, <1>3 DEF Printed, EvaluatorOK
  <2> QED BY <1>1, <2>1 DEF EvaluatorOK
<1>4. CASE answer # Silent
  <2>1. answer \in Int /\ answer >= -2 /\ answer # -1
    BY <1>4, ServerAssumption DEF Silent, NoScore
  <2>2. path' = answer BY <1>2, <1>4 DEF Printed
  <2>3. path' \in Scores \union {NoJson, NoScore}
    BY <2>1, <2>2 DEF Scores, NoJson, NoScore
  <2> QED BY <1>1, <2>3 DEF EvaluatorOK
<1> QED BY <1>3, <1>4

(* Exact is a number.                                                      *)
LEMMA ExactIsNat == Exact \in Nat /\ Exact > 0
  BY DEF Exact

(* An int below 2^24 is stored as it is.                                   *)
LEMMA SmallIsExact ==
  ASSUME NEW n \in 0 .. Exact - 1
  PROVE  AsFloat(n) = n
<1> DEFINE S == {u \in Powers : n \div u < Exact}
<1>1. n \in Nat /\ n < Exact BY ExactIsNat
<1>2. n \div 1 = n /\ n % 1 = 0 BY <1>1
<1>3. 1 \in S /\ \A u \in S : u \in Nat /\ 1 <= u BY <1>1, <1>2 DEF Powers
<1>4. Min(S) = 1
  <2> HIDE DEF S
  <2>1. \E u \in S : \A v \in S : u <= v BY <1>3
  <2>2. Min(S) \in S /\ \A v \in S : Min(S) <= v BY <2>1 DEF Min
  <2> QED BY <1>3, <2>2
<1>5. Spacing(n) = 1 BY <1>4 DEF Spacing
<1> QED BY <1>1, <1>2, <1>5 DEF AsFloat

(* What onmessage has read off a message may go into the buffer.           *)
LEMMA SegmentIsElement ==
  ASSUME MessageOK, ~OneStep
  PROVE  AsFloat(seg) \in Elements
<1>1. CASE seg \in SegNums BY <1>1, ServerAssumption
<1>2. CASE seg = 0
  <2>1. AsFloat(0) = 0 BY SmallIsExact, ExactIsNat
  <2> QED BY <1>2, <2>1, BufferAssumption
<1> QED BY <1>1, <1>2 DEF MessageOK

(* What is added to the buffer is an element, and the window slides only   *)
(* as a whole: every step of the server is a step of the buffer.           *)
LEMMA BufferStep ==
  ASSUME TypeInv, Next
  PROVE  [BufNext]_bufVars
<1>1. CASE OnStall \/ StallingTask
  BY <1>1, ServerAssumption DEF OnStall, StallingTask, BufNext
<1>2. CASE AddSegment
  <2>1. AsFloat(seg) \in Elements
    <3>1. ~OneStep
      BY <1>2, ServerAssumption DEF AddSegment, TypeInv, TypeOK, MessageOK
    <3> QED BY <3>1, SegmentIsElement DEF TypeInv, TypeOK
  <2> QED BY <1>2, <2>1 DEF AddSegment, BufNext
<1>3. CASE ScoreSegment
  <2>1. path' \in Elements
    <3>1. OneStep
      BY <1>3, ServerAssumption DEF ScoreSegment, TypeInv, TypeOK, MessageOK
    <3>2. path' \in Scores
      BY <1>3, RunEvaluatorOK DEF ScoreSegment, TypeInv, TypeOK, EvaluatorOK
    <3> QED BY <3>1, <3>2, ServerAssumption
  <2> QED BY <1>3, <2>1 DEF ScoreSegment, BufNext
<1>4. CASE Slice BY <1>4 DEF Slice, BufNext
<1> QED BY <1>1, <1>2, <1>3, <1>4, NextCases, ClientFrame, TimerFrame, EvalFrame

(* Connection and client steps preserve the types.                         *)
LEMMA ClientTypeInv ==
  ASSUME TypeInv, Connection \/ OnStall \/ OnUndecodable \/ OnSegment \/ ClientThread, BufTypeOK'
  PROVE  TypeInv'
<1> USE DEF TypeInv, TypeOK
<1>1. FlagsOK'
  <2> USE DEF FlagsOK
  <2>1. CASE OnStall BY <2>1 DEF OnStall
  <2>2. CASE OnUndecodable \/ OnSegment BY <2>2 DEF OnUndecodable, OnSegment
  <2>3. CASE StoreSegment BY <2>3 DEF StoreSegment
  <2>4. CASE UNCHANGED flagVars BY <2>4 DEF flagVars
  <2> QED BY <2>1, <2>2, <2>3, <2>4, ClientFrame
<1>2. ConnectionOK'
  BY ClientFrame, ServerAssumption DEF ConnectionOK, connVars, Accept, Disconnect
<1>3. MessageOK' /\ alive' \in BOOLEAN
  <2> USE ServerAssumption DEF MessageOK, msgVars
  <2>1. CASE Connection
    BY <2>1 DEF Connection, Accept, AcceptPanics, Disconnect
  <2>2. CASE OnStall \/ OnUndecodable
    <3>1. seg' = seg /\ cpc' = cpc /\ msgs' = msgs + 1 /\ msgs < MaxMsgs
      BY <2>2 DEF OnStall, OnUndecodable, Receive
    <3>2. alive' \in BOOLEAN BY <2>2 DEF OnStall, OnUndecodable
    <3>3. MessageOK' BY <3>1
    <3> QED BY <3>2, <3>3
  <2>3. CASE ClientThread
    BY <2>3 DEF ClientThread, StoreFails, StoreSegment, AddSegment, ScoreSegment, ScoreCrashes
  <2>4. CASE OnSegment
    <3>1. /\ seg' \in SegNums /\ cpc' = "store" /\ alive' = alive
          /\ msgs' = msgs + 1 /\ msgs < MaxMsgs
      BY <2>4 DEF OnSegment, Receive
    <3> QED BY <3>1
  <2> QED BY <2>1, <2>2, <2>3, <2>4
<1>4. EvaluatorOK'
  <2>1. CASE UNCHANGED evalVars BY <2>1 DEF EvaluatorOK, evalVars
  <2>2. CASE RunEvaluator BY <2>2, RunEvaluatorOK
  <2> QED BY <2>1, <2>2, ClientFrame DEF ScoreSegment, ScoreCrashes
<1>5. (segments \subseteq SegNums \union {0})'
  BY ClientFrame DEF StoreSegment, MessageOK
<1>6. TotalsOK' /\ TimersOK' /\ ScanOK' /\ ScanInv' /\ pc' = pc
  BY ClientFrame DEF TotalsOK, TimersOK, ScanOK, ScanInv, totalVars, timerVars, scanVars
<1> QED BY <1>1, <1>2, <1>3, <1>4, <1>5, <1>6

(* Timer steps preserve the types.                                         *)
LEMMA TimerTypeInv ==
  ASSUME TypeInv, SignalStall \/ StallingTask \/ SignalEval, BufTypeOK'
  PROVE  TypeInv'
<1> USE DEF TypeInv, TypeOK
<1>1. FlagsOK'
  BY TimerFrame DEF FlagsOK, flagVars, StallingTask
<1>2. TimersOK'
  BY ServerAssumption DEF TimersOK, SignalStall, StallingTask, SignalEval
<1>3. /\ TotalsOK' /\ ConnectionOK' /\ MessageOK' /\ ScanOK' /\ ScanInv' /\ EvaluatorOK'
      /\ UNCHANGED <<pc, segments, alive>>
  BY TimerFrame
     DEF TotalsOK, ConnectionOK, MessageOK, ScanOK, ScanInv, EvaluatorOK,
         totalVars, connVars, msgVars, scanVars, evalVars
<1> QED BY <1>1, <1>2, <1>3

(* One slot is read: seen grows by an element of the buffer.               *)
LEMMA ReadSlotSeen ==
  ASSUME TypeInv, ReadSlot
  PROVE  /\ Len(seen) \in Nat /\ Len(seen) < N /\ Len(seen) \in Slots
         /\ seen' \in Seq(Elements)
         /\ Len(seen') = Len(seen) + 1 /\ Len(seen') <= N
         /\ \A i \in 1 .. Len(seen) : seen'[i] = seen[i]
         /\ seen'[Len(seen) + 1] = data[Len(seen)]
<1>1. Len(seen) \in Nat /\ seen \in Seq(Elements)
  BY LenProperties DEF TypeInv, TypeOK, ScanOK
<1>2. Len(seen) < N /\ N \in Nat BY ServerAssumption DEF ReadSlot, Slot
<1>3. Len(seen) \in Slots BY <1>1, <1>2, ServerAssumption, BufferAssumption DEF Slots
<1>4. data[Len(seen)] \in Elements BY <1>3 DEF TypeInv, TypeOK, BufTypeOK
<1>5. seen' = Append(seen, data[Len(seen)]) BY DEF ReadSlot, Slot
<1> QED BY <1>1, <1>2, <1>3, <1>4, <1>5, AppendProperties

(* A stall element read: the list of stalls stays a list of stalls.        *)
LEMMA ScanStallOK ==
  ASSUME TypeInv, ScanStall
  PROVE  ScanOK' /\ ScanInv' /\ pc' # "wait"
<1>1. ReadSlot /\ pc' = "scan" /\ had' = had /\ stall_occurred' = TRUE
  BY DEF ScanStall, ReadSlot, scanUnchanged
<1>2. N \in Nat /\ stalls \in Seq(Stall) /\ Len(stalls) \in Nat /\ had \in Int
  BY ServerAssumption, LenProperties DEF TypeInv, TypeOK, ScanOK
<1>3. /\ stalls' \in Seq(Stall) /\ Len(stalls') > 0
      /\ \A n \in 1 .. Len(stalls') : stalls'[n].duration <= Len(seen')
  <2>1. CASE stall_occurred
    <3> DEFINE n == Len(stalls)
               s == [stalls[n] EXCEPT !.duration = stalls[n].duration + 1]
    <3>1. n \in 1 .. Len(stalls) BY <1>2, <2>1 DEF TypeInv, ScanInv
    <3>2. stalls[n] \in Stall /\ stalls[n].duration <= Len(seen)
      BY <1>2, <3>1, ElementOfSeq DEF TypeInv, ScanInv
    <3>3. s \in Stall /\ s.duration = stalls[n].duration + 1
      <4>1. stalls[n] \in [start : 1 .. N, duration : 1 .. N] BY <3>2 DEF Stall
      <4>2. stalls[n].duration \in 1 .. N /\ stalls[n].duration + 1 \in 1 .. N
        BY <1>1, <1>2, <3>2, <4>1, ReadSlotSeen
      <4> QED BY <4>1, <4>2 DEF Stall
    <3>4. stalls' = [stalls EXCEPT ![n] = s]
      BY <2>1 DEF ScanStall
    <3>5. /\ stalls' \in Seq(Stall) /\ Len(stalls') = Len(stalls)
          /\ \A m \in 1 .. Len(stalls) : stalls'[m] = IF m = n THEN s ELSE stalls[m]
      <4> HIDE DEF s
      <4> QED BY <1>2, <3>1, <3>3, <3>4, ExceptSeq
    <3>6. ASSUME NEW m \in 1 .. Len(stalls)
          PROVE  stalls'[m].duration <= Len(seen')
      <4>1. stalls[m] \in Stall /\ stalls[m].duration <= Len(seen)
        BY <1>2, ElementOfSeq DEF TypeInv, ScanInv
      <4>2. stalls[m].duration \in Nat BY <1>2, <4>1 DEF Stall
      <4>3. CASE m = n
        <5>1. stalls'[m].duration = stalls[m].duration + 1
          BY <3>3, <3>5, <4>3
        <5> QED BY <1>1, <4>1, <4>2, <5>1, ReadSlotSeen
      <4>4. CASE m # n BY <1>1, <3>5, <4>1, <4>2, <4>4, ReadSlotSeen
      <4> QED BY <4>3, <4>4
    <3> QED BY <3>1, <3>5, <3>6
  <2>2. CASE ~stall_occurred
    <3> DEFINE s == [start |-> Slot + 1, duration |-> 1]
    <3>1. s \in Stall /\ s.duration = 1
      BY <1>1, <1>2, ReadSlotSeen DEF Stall, Slot
    <3>2. stalls' = Append(stalls, s) BY <2>2 DEF ScanStall
    <3>3. /\ stalls' \in Seq(Stall) /\ Len(stalls') = Len(stalls) + 1
          /\ \A m \in 1 .. Len(stalls) : stalls'[m] = stalls[m]
          /\ stalls'[Len(stalls) + 1] = s
      <4> HIDE DEF s
      <4> QED BY <1>2, <3>1, <3>2, AppendProperties
    <3>4. ASSUME NEW m \in 1 .. Len(stalls')
          PROVE  stalls'[m].duration <= Len(seen')
      <4>1. CASE m = Len(stalls) + 1 BY <1>1, <3>1, <3>3, <4>1, ReadSlotSeen
      <4>2. CASE m # Len(stalls) + 1
        <5>1. m \in 1 .. Len(stalls) BY <1>2, <3>3, <4>2
        <5>2. stalls[m] \in Stall /\ stalls[m].duration <= Len(seen)
          BY <1>2, <5>1, ElementOfSeq DEF TypeInv, ScanInv
        <5>3. stalls[m].duration \in Nat BY <1>2, <5>2 DEF Stall
        <5> QED BY <1>1, <3>3, <5>1, <5>2, <5>3, ReadSlotSeen
      <4> QED BY <4>1, <4>2
    <3> QED BY <1>2, <3>3, <3>4
  <2> QED BY <2>1, <2>2 DEF TypeInv, TypeOK, ScanOK
<1>4. ScanOK' BY <1>1, <1>2, <1>3, ReadSlotSeen DEF ScanOK
<1>5. ScanInv' BY <1>1, <1>3 DEF ScanInv
<1> QED BY <1>1, <1>4, <1>5

(* The stall that a segment ends: it fits in what was read before it.      *)
LEMMA OpenStall ==
  ASSUME TypeInv, stall_occurred
  PROVE  /\ stalls[Len(stalls)] \in Stall
         /\ stalls[Len(stalls)].duration \in 1 .. Len(seen)
<1>1. /\ stalls \in Seq(Stall) /\ Len(stalls) \in Nat /\ Len(stalls) > 0
      /\ Len(seen) \in Nat /\ N \in Nat
  BY ServerAssumption, LenProperties DEF TypeInv, TypeOK, ScanOK, ScanInv
<1>2. stalls[Len(stalls)] \in Stall BY <1>1, ElementOfSeq
<1>3. stalls[Len(stalls)].duration \in 1 .. N BY <1>2 DEF Stall
<1>4. stalls[Len(stalls)].duration <= Len(seen) BY <1>1 DEF TypeInv, ScanInv
<1> QED BY <1>1, <1>2, <1>3, <1>4

(* Reading a slot preserves the types and what is known of the open stall. *)
LEMMA ReadsOK ==
  ASSUME TypeInv, Reads
  PROVE  ScanOK' /\ ScanInv' /\ pc' = "scan" /\ TotalsOK'
<1>1. CASE ScanStall
  <2>1. pc' = "scan" /\ TotalsOK'
    BY <1>1 DEF ScanStall, ReadSlot, scanUnchanged, TypeInv, TypeOK, TotalsOK, totalVars
  <2> QED BY <1>1, <2>1, ScanStallOK
<1>2. CASE ScanEmpty \/ ScanSegment \/ MeanAdd
  <2>1. /\ ReadSlot /\ pc' = "scan" /\ had' = had /\ stalls' = stalls
        /\ stall_occurred' \in BOOLEAN
        /\ stall_occurred' => stall_occurred
    <3>1. stall_occurred \in BOOLEAN BY DEF TypeInv, TypeOK, ScanOK
    <3>2. CASE ScanSegment
      <4>1. stall_occurred' = FALSE BY <3>2 DEF ScanSegment
      <4>2. ReadSlot /\ pc' = "scan" /\ had' = had /\ stalls' = stalls
        BY <3>2 DEF ScanSegment, ReadSlot, scanUnchanged
      <4> QED BY <4>1, <4>2
    <3>3. CASE ScanEmpty \/ MeanAdd
      <4>1. stall_occurred' = stall_occurred BY <3>3 DEF ScanEmpty, MeanAdd
      <4>2. ReadSlot /\ pc' = "scan" /\ had' = had /\ stalls' = stalls
        BY <3>3 DEF ScanEmpty, MeanAdd, ReadSlot, scanUnchanged
      <4> QED BY <3>1, <4>1, <4>2
    <3> QED BY <1>2, <3>2, <3>3
  <2>2. ScanOK'
    <3>1. /\ seen' \in Seq(Elements) /\ Len(seen') <= N /\ had' \in Int
          /\ stalls' \in Seq(Stall)
      BY <2>1, ReadSlotSeen DEF TypeInv, TypeOK, ScanOK
    <3> QED BY <2>1, <3>1, Zenon DEF ScanOK
  <2>3. \A n \in 1 .. Len(stalls) : stalls[n].duration <= Len(seen')
    <3> SUFFICES ASSUME NEW n \in 1 .. Len(stalls) PROVE stalls[n].duration <= Len(seen')
      OBVIOUS
    <3>1. stalls[n] \in Stall
      BY ElementOfSeq DEF TypeInv, TypeOK, ScanOK
    <3>2. stalls[n].duration \in Nat /\ stalls[n].duration <= Len(seen)
      BY <3>1, ServerAssumption DEF Stall, TypeInv, ScanInv
    <3> QED BY <2>1, <3>2, ReadSlotSeen
  <2>4. ScanInv' BY <2>1, <2>3 DEF TypeInv, ScanInv
  <2>5. TotalsOK'
    <3>1. CASE ScanSegment /\ stall_occurred
      <4>1. AddStallDuration(stalls[Len(stalls)].duration) BY <3>1 DEF ScanSegment
      <4>2. stalls[Len(stalls)].duration \in Nat
        BY <3>1, OpenStall, LenProperties DEF TypeInv, TypeOK, ScanOK
      <4> QED BY <4>1, <4>2 DEF AddStallDuration, TypeInv, TypeOK, TotalsOK
    <3>2. CASE UNCHANGED totalVars BY <3>2 DEF TypeInv, TypeOK, TotalsOK, totalVars
    <3> QED BY <1>2, <3>1, <3>2 DEF ScanEmpty, ScanSegment, MeanAdd
  <2> QED BY <2>1, <2>2, <2>4, <2>5
<1> QED BY <1>1, <1>2 DEF Reads

(* Steps of eval_task preserve the types.                                  *)
LEMMA EvalTypeInv ==
  ASSUME TypeInv, EvalTask, BufTypeOK'
  PROVE  TypeInv'
<1> USE DEF TypeInv, TypeOK
<1>1. FlagsOK' /\ ConnectionOK' /\ MessageOK' /\ UNCHANGED segments /\ alive' \in BOOLEAN
  BY EvalFrame
     DEF FlagsOK, ConnectionOK, MessageOK, flagVars, connVars, msgVars, SendCrashes
<1>2. TimersOK'
  BY EvalFrame DEF TimersOK, timerVars, EvalBegin
<1>3. EvaluatorOK'
  <2>1. CASE UNCHANGED evalVars BY <2>1 DEF EvaluatorOK, evalVars
  <2>2. CASE RunEvaluator BY <2>2, RunEvaluatorOK
  <2> QED BY <2>1, <2>2, EvalFrame DEF Evaluate, EvaluateFails
<1>4. TotalsOK'
  BY EvalFrame, ReadsOK DEF Reads, TotalsOK, totalVars
<1>5. ScanOK' /\ ScanInv' /\ (pc \in {"wait", "scan", "verdict", "send_one", "run", "send", "slice"})'
  <2>1. CASE Reads BY <2>1, ReadsOK
  <2>2. CASE Returns
    <3>1. /\ pc' = "wait" /\ seen' = <<>> /\ stalls' = <<>> /\ stall_occurred' = FALSE
          /\ had' = 0
      BY <2>2 DEF Returns, EvaluateFails, SendFails, Slice, EvalReturns
    <3>2. /\ seen' \in Seq(Elements) /\ Len(seen') = 0
          /\ stalls' \in Seq(Stall) /\ Len(stalls') = 0
      BY <3>1, EmptySeq
    <3>3. ScanOK'
      <4>1. Len(seen') <= N /\ had' \in Int BY <3>1, <3>2, ServerAssumption
      <4>2. stall_occurred' \in BOOLEAN BY <3>1
      <4> QED BY <3>2, <4>1, <4>2, Zenon DEF ScanOK
    <3>4. ScanInv' BY <3>1, <3>2 DEF ScanInv
    <3> QED BY <3>1, <3>3, <3>4
  <2>3. CASE EvalBegin
    <3>1. /\ pc' = "scan" /\ seen' = seen /\ stalls' = stalls
          /\ stall_occurred' = stall_occurred /\ had' = write_idx
      BY <2>3 DEF EvalBegin
    <3> QED BY <3>1 DEF ScanOK, ScanInv, BufTypeOK
  <2>4. CASE ScanDone \/ MeanDone \/ Verdict \/ Evaluate \/ Send \/ SendCrashes
    <3>1. /\ UNCHANGED scanVars
          /\ pc' \in {"verdict", "send_one", "run", "send", "slice"}
      BY <2>4 DEF ScanDone, MeanDone, Verdict, Evaluate, Send, SendCrashes
    <3> QED BY <3>1 DEF ScanOK, ScanInv, scanVars
  <2> QED BY <2>1, <2>2, <2>3, <2>4 DEF EvalTask, Reads, Returns
<1> QED BY <1>1, <1>2, <1>3, <1>4, <1>5

(* Every step preserves the types.                                         *)
LEMMA StepTypeInv ==
  ASSUME TypeInv, [Next]_vars
  PROVE  TypeInv'
<1>1. CASE Next
  <2>1. BufTypeOK' BY <1>1, BufferStep, BufStepTypeOK DEF TypeInv, TypeOK
  <2> QED BY <1>1, <2>1, NextCases, ClientTypeInv, TimerTypeInv, EvalTypeInv
<1>2. CASE UNCHANGED vars
  BY <1>2
     DEF vars, bufVars, flagVars, totalVars, connVars, msgVars, timerVars, scanVars, evalVars,
         TypeInv, TypeOK, ScanInv, BufTypeOK, FlagsOK, TotalsOK, ConnectionOK, MessageOK,
         TimersOK, ScanOK, EvaluatorOK
<1> QED BY <1>1, <1>2

(* The inductive type invariant: types, and what the scan knows of the     *)
(* list of stalls.                                                         *)
THEOREM TypeInvariant == Spec => []TypeInv
  BY InitTypeInv, StepTypeInv, PTL DEF Spec

(* Every variable keeps its type, whatever the bounds and the evaluator.   *)
THEOREM TypeCorrect == Spec => []TypeOK
<1>1. TypeInv => TypeOK BY DEF TypeInv
<1> QED BY <1>1, TypeInvariant, PTL

-----------------------------------------------------------------------------
(* The buffer inside the server                                            *)

(* The server's array is an abstract window all along, although three      *)
(* threads work on it.                                                     *)
THEOREM ServerBufferIsWindow == Spec => BufferIsWindow
<1>1. Init => Window!WInit BY BarInit DEF Init
<1>2. TypeInv /\ [Next]_vars => [Window!WNext]_(Window!winVars)
  <2> SUFFICES ASSUME TypeInv, [Next]_vars PROVE [BufNext]_bufVars
    BY BarStep DEF TypeInv, TypeOK
  <2>1. CASE Next BY <2>1, BufferStep
  <2>2. CASE UNCHANGED vars BY <2>2 DEF vars, bufVars
  <2> QED BY <2>1, <2>2
<1> QED BY <1>1, <1>2, TypeInvariant, PTL DEF Spec, BufferIsWindow

(* Nothing that was sliced away is left for a reader of the window.        *)
THEOREM ServerEmptyBeyond == Spec => []EmptyBeyondWriteIdx
<1>1. Init => EmptyBeyondWriteIdx BY EmptyInit DEF Init
<1>2. TypeInv /\ EmptyBeyondWriteIdx /\ [Next]_vars => EmptyBeyondWriteIdx'
  <2> SUFFICES ASSUME TypeInv, EmptyBeyondWriteIdx, [Next]_vars PROVE [BufNext]_bufVars
    BY EmptyStep DEF TypeInv, TypeOK
  <2>1. CASE Next BY <2>1, BufferStep
  <2>2. CASE UNCHANGED vars BY <2>2 DEF vars, bufVars
  <2> QED BY <2>1, <2>2
<1> QED BY <1>1, <1>2, TypeInvariant, PTL DEF Spec

(* An addition moves no element and changes no slot below write_idx.       *)
LEMMA AddKeepsOlder ==
  ASSUME BufTypeOK, NEW e \in Elements, AddElement(e)
  PROVE  /\ write_idx' >= write_idx
         /\ \A i \in Slots : i < write_idx => data'[i] = data[i]
         /\ \A i \in Slots : data'[i] = data[i] \/ data'[i] = e
<1>1. CASE UNCHANGED bufVars BY <1>1 DEF bufVars, BufTypeOK
<1>2. CASE /\ data' = [i \in Slots |-> IF i = write_idx THEN e ELSE data[i]]
           /\ write_idx' = write_idx + 1
  BY <1>2, BufferAssumption DEF BufTypeOK, Slots
<1> QED BY <1>1, <1>2 DEF AddElement

(* A slide fills every slot from the slot P above it, or with nothing.     *)
LEMMA SliceMovesElements ==
  ASSUME BufTypeOK, SliceBuffer
  PROVE  /\ write_idx' = write_idx - P
         /\ \A i \in Slots : data'[i] = Empty \/ (i + P \in Slots /\ data'[i] = data[i + P])
<1>1. \A i \in Slots : i < K - P => i + P \in Slots BY BufferAssumption DEF Slots
<1> QED BY <1>1 DEF SliceBuffer

(* What the threads other than eval_task do to the buffer: they add stall  *)
(* marks, and stored segments or scores.                                   *)
Added(e) ==
  \/ e = StallMark
  \/ ~OneStep /\ cpc = "add" /\ e = AsFloat(seg)
  \/ OneStep /\ e \in Scores

(* eval_task aside, the buffer only ever grows, by the elements of Added.  *)
LEMMA OthersAdd ==
  ASSUME TypeInv,
         \/ Connection \/ OnStall \/ OnUndecodable \/ OnSegment \/ ClientThread
         \/ SignalStall \/ StallingTask \/ SignalEval
  PROVE  \/ UNCHANGED bufVars
         \/ \E e \in Elements : Added(e) /\ AddElement(e)
<1>1. CASE OnStall \/ StallingTask
  BY <1>1, ServerAssumption DEF OnStall, StallingTask, Added
<1>2. CASE AddSegment
  <2>1. ~OneStep /\ cpc = "add"
    BY <1>2, ServerAssumption DEF AddSegment, TypeInv, TypeOK, MessageOK
  <2>2. AsFloat(seg) \in Elements BY <2>1, SegmentIsElement DEF TypeInv, TypeOK
  <2> QED BY <1>2, <2>1, <2>2 DEF AddSegment, Added
<1>3. CASE ScoreSegment
  <2>1. OneStep
    BY <1>3, ServerAssumption DEF ScoreSegment, TypeInv, TypeOK, MessageOK
  <2>2. path' \in Scores
    BY <1>3, RunEvaluatorOK DEF ScoreSegment, TypeInv, TypeOK, EvaluatorOK
  <2>3. path' \in Elements BY <2>1, <2>2, ServerAssumption
  <2> QED BY <1>3, <2>1, <2>2, <2>3 DEF ScoreSegment, Added
<1> QED BY <1>1, <1>2, <1>3, ClientFrame, TimerFrame

(* eval_task aside, no thread touches eval_task's own state.               *)
LEMMA OthersFrame ==
  ASSUME \/ Connection \/ OnStall \/ OnUndecodable \/ OnSegment \/ ClientThread
         \/ SignalStall \/ StallingTask \/ SignalEval
  PROVE  UNCHANGED <<totalVars, pc, scanVars>>
  BY ClientFrame, TimerFrame

-----------------------------------------------------------------------------
(* Stall totals                                                            *)

(* Every step preserves the bounds on the totals: only the end of a stall  *)
(* touches them.                                                           *)
LEMMA TotalsStep ==
  ASSUME TypeInv, StallTotalsBounded, [Next]_vars
  PROVE  StallTotalsBounded'
<1>1. CASE UNCHANGED totalVars BY <1>1 DEF StallTotalsBounded, totalVars
<1>2. CASE ScanSegment /\ stall_occurred
  <2> DEFINE d == stalls[Len(stalls)].duration
  <2>1. AddStallDuration(d) BY <1>2 DEF ScanSegment
  <2>2. d \in 1 .. Len(seen) BY <1>2, OpenStall
  <2>3. Len(seen) \in Nat /\ Len(seen) < N /\ N \in Nat
    BY <1>2, ReadSlotSeen, ServerAssumption DEF ScanSegment
  <2>4. tft \in Nat /\ tfm \in Nat BY DEF TypeInv, TypeOK, TotalsOK
  <2> HIDE DEF d
  <2> QED BY <2>1, <2>2, <2>3, <2>4 DEF AddStallDuration, StallTotalsBounded
<1>3. CASE ScanSegment /\ ~stall_occurred
  <2>1. UNCHANGED totalVars BY <1>3 DEF ScanSegment
  <2> QED BY <1>1, <2>1
<1>4. CASE UNCHANGED vars BY <1>1, <1>4 DEF vars
<1> QED BY <1>1, <1>2, <1>3, <1>4, NextCases, OthersFrame, EvalFrame

(* No window of N slots, however stalls and segments interleave with the   *)
(* scan, accounts for a stall of N or more, and the longest stall is never *)
(* longer than the total.                                                  *)
THEOREM TotalsBounded == Spec => []StallTotalsBounded
<1>1. Init => StallTotalsBounded BY DEF Init, StallTotalsBounded
<1>2. TypeInv /\ StallTotalsBounded /\ [Next]_vars => StallTotalsBounded'
  BY TotalsStep
<1> QED BY <1>1, <1>2, TypeInvariant, PTL DEF Spec

-----------------------------------------------------------------------------
(* What an evaluation reads.  WindowIsRead is not inductive: it needs that *)
(* the elements an evaluation has found are below write_idx, where no      *)
(* other thread writes, and why a one-step reading stopped.                *)

WindowInv ==
  /\ pc # "wait" => had <= write_idx
  /\ pc # "wait" => \A i \in 1 .. Len(seen) : i <= had => seen[i] = data[i - 1]
  /\ pc \notin {"wait", "scan"} =>
       \/ Len(seen) = N
       \/ OneStep /\ (Len(seen) < had => data[Len(seen)] = Empty)
  /\ OneStep => \A i \in Slots : data[i] >= 0

(* The indices of what was read are indices of the array.                  *)
LEMMA SeenSlots ==
  ASSUME TypeInv
  PROVE  /\ Len(seen) \in Nat /\ Len(seen) <= N /\ N \in Nat /\ had \in Int
         /\ write_idx \in Int
         /\ DOMAIN seen = 1 .. Len(seen)
         /\ \A i \in 1 .. N : i - 1 \in Slots
<1>1. \A i \in 1 .. N : i - 1 \in Slots
  BY ServerAssumption, BufferAssumption DEF Slots
<1> QED BY <1>1, ServerAssumption, LenProperties DEF TypeInv, TypeOK, ScanOK, BufTypeOK

(* Additions of other threads do not disturb a running evaluation.         *)
LEMMA WindowOthers ==
  ASSUME TypeInv, WindowInv, UNCHANGED <<pc, scanVars>>,
         UNCHANGED bufVars \/ \E e \in Elements : Added(e) /\ AddElement(e)
  PROVE  WindowInv'
<1>1. CASE UNCHANGED bufVars BY <1>1 DEF WindowInv, bufVars, scanVars
<1>2. CASE \E e \in Elements : Added(e) /\ AddElement(e)
  <2> PICK e \in Elements : Added(e) /\ AddElement(e) BY <1>2
  <2>1. /\ write_idx' >= write_idx
        /\ \A i \in Slots : i < write_idx => data'[i] = data[i]
        /\ \A i \in Slots : data'[i] = data[i] \/ data'[i] = e
    BY AddKeepsOlder DEF TypeInv, TypeOK
  <2>2. pc' = pc /\ seen' = seen /\ had' = had BY DEF scanVars
  <2>3. write_idx \in Int /\ write_idx' \in Int
    BY AddTypeOK DEF TypeInv, TypeOK, BufTypeOK
  <2>4. pc # "wait" => \A i \in 1 .. N : i <= had => data'[i - 1] = data[i - 1]
    BY <2>1, <2>3, SeenSlots DEF WindowInv
  <2>5. pc' # "wait" => had' <= write_idx'
    BY <2>1, <2>2, <2>3, SeenSlots DEF WindowInv
  <2>6. pc' # "wait" => \A i \in 1 .. Len(seen') : i <= had' => seen'[i] = data'[i - 1]
    BY <2>2, <2>4, SeenSlots DEF WindowInv
  <2>7. pc' \notin {"wait", "scan"} =>
          \/ Len(seen') = N
          \/ OneStep /\ (Len(seen') < had' => data'[Len(seen')] = Empty)
    <3> SUFFICES ASSUME pc \notin {"wait", "scan"}, Len(seen) # N, Len(seen) < had
                 PROVE  OneStep /\ data'[Len(seen)] = Empty
      BY <2>2 DEF WindowInv
    <3>1. OneStep /\ data[Len(seen)] = Empty BY DEF WindowInv
    <3>2. Len(seen) + 1 \in 1 .. N /\ Len(seen) + 1 <= had /\ (Len(seen) + 1) - 1 = Len(seen)
      BY SeenSlots
    <3>3. data'[(Len(seen) + 1) - 1] = data[(Len(seen) + 1) - 1]
      BY <2>4, <3>2
    <3> QED BY <3>1, <3>2, <3>3
  <2>8. OneStep => \A i \in Slots : data'[i] >= 0
    <3>1. OneStep => e >= 0
      <4>1. OneStep => StallMark = 1 BY DEF StallMark
      <4>2. \A a \in Scores : a \in Int /\ a > 0 BY ServerAssumption DEF Scores
      <4> QED BY <4>1, <4>2 DEF Added
    <3> QED BY <2>1, <3>1 DEF WindowInv
  <2> QED BY <2>5, <2>6, <2>7, <2>8 DEF WindowInv
<1> QED BY <1>1, <1>2

(* The steps of eval_task itself preserve WindowInv.                       *)
LEMMA WindowEval ==
  ASSUME TypeInv, WindowInv, EvalTask
  PROVE  WindowInv'
<1>1. CASE EvalBegin
  <2>1. /\ UNCHANGED bufVars /\ pc' = "scan" /\ had' = write_idx
        /\ seen' = <<>>
    BY <1>1 DEF EvalBegin, TypeInv, ScanInv
  <2>2. Len(seen') = 0 BY <2>1, EmptySeq
  <2> QED BY <2>1, <2>2, SeenSlots DEF WindowInv, bufVars
<1>2. CASE Reads
  <2>1. /\ UNCHANGED bufVars /\ pc = "scan" /\ pc' = "scan" /\ had' = had /\ ReadSlot
    BY <1>2 DEF Reads, ScanEmpty, ScanStall, ScanSegment, MeanAdd, ReadSlot, scanUnchanged
  <2>2. \A i \in 1 .. Len(seen') : i <= had => seen'[i] = data[i - 1]
    <3> SUFFICES ASSUME NEW i \in 1 .. Len(seen) + 1, i <= had
                 PROVE  seen'[i] = data[i - 1]
      BY <2>1, ReadSlotSeen
    <3>1. CASE i \in 1 .. Len(seen)
      BY <2>1, <3>1, ReadSlotSeen DEF WindowInv
    <3>2. CASE i = Len(seen) + 1
      BY <2>1, <3>2, ReadSlotSeen
    <3> QED BY <3>1, <3>2, SeenSlots
  <2> QED BY <2>1, <2>2 DEF WindowInv, bufVars
<1>3. CASE Returns
  <2>1. pc' = "wait"
    BY <1>3 DEF Returns, EvaluateFails, SendFails, Slice, EvalReturns
  <2>2. OneStep => \A i \in Slots : data'[i] >= 0
    <3>1. CASE UNCHANGED bufVars BY <3>1 DEF WindowInv, bufVars
    <3>2. CASE SliceBuffer
      BY <3>2, SliceMovesElements DEF TypeInv, TypeOK, WindowInv, Empty
    <3> QED BY <1>3, <3>1, <3>2 DEF Returns, EvaluateFails, SendFails, Slice
  <2> QED BY <2>1, <2>2 DEF WindowInv
<1>4. CASE ScanDone \/ MeanDone
  <2>1. /\ UNCHANGED <<bufVars, scanVars>>
        /\ pc = "scan" /\ pc' \in {"verdict", "run", "send"}
    BY <1>4 DEF ScanDone, MeanDone
  <2>2. \/ Len(seen) = N
        \/ OneStep /\ (Len(seen) < had => data[Len(seen)] = Empty)
    <3>1. CASE Len(seen) = N BY <3>1
    <3>2. CASE Len(seen) # N
      <4>1. OneStep /\ data[Len(seen)] < 1 BY <1>4, <3>2 DEF ScanDone, MeanDone, Slot
      <4>2. Len(seen) + 1 \in 1 .. N /\ (Len(seen) + 1) - 1 = Len(seen)
        BY <3>2, SeenSlots
      <4>3. Len(seen) \in Slots BY <4>2, SeenSlots
      <4>4. data[Len(seen)] >= 0 /\ data[Len(seen)] \in Int
        BY <4>1, <4>3, BufferAssumption DEF WindowInv, TypeInv, TypeOK, BufTypeOK
      <4> QED BY <4>1, <4>4 DEF Empty
    <3> QED BY <3>1, <3>2
  <2> QED BY <2>1, <2>2 DEF WindowInv, bufVars, scanVars
<1>5. CASE Verdict \/ Evaluate \/ Send \/ SendCrashes
  <2>1. /\ UNCHANGED <<bufVars, scanVars>>
        /\ pc \notin {"wait", "scan"} /\ pc' \notin {"wait", "scan"}
    BY <1>5 DEF Verdict, Evaluate, Send, SendCrashes
  <2> QED BY <2>1 DEF WindowInv, bufVars, scanVars
<1> QED BY <1>1, <1>2, <1>3, <1>4, <1>5 DEF EvalTask, Reads, Returns

(* The strengthening of WindowIsRead holds in every reachable state.       *)
THEOREM WindowInvariant == Spec => []WindowInv
<1>1. Init => WindowInv
  <2> SUFFICES ASSUME Init PROVE WindowInv OBVIOUS
  <2>1. pc = "wait" BY DEF Init
  <2>2. \A i \in Slots : data[i] = 0 BY DEF Init, BufInit, Empty
  <2> QED BY <2>1, <2>2 DEF WindowInv
<1>2. TypeInv /\ WindowInv /\ [Next]_vars => WindowInv'
  <2> SUFFICES ASSUME TypeInv, WindowInv, [Next]_vars PROVE WindowInv' OBVIOUS
  <2>1. CASE UNCHANGED vars
    BY <2>1 DEF vars, bufVars, scanVars, WindowInv
  <2>2. CASE Next
    BY <2>2, NextCases, OthersFrame, OthersAdd, WindowOthers, WindowEval
  <2> QED BY <2>1, <2>2
<1> QED BY <1>1, <1>2, TypeInvariant, PTL DEF Spec

(* An evaluation reads every element of the window it began with, however  *)
(* many elements arrive meanwhile.                                         *)
THEOREM EvaluationReadsWindow == Spec => []WindowIsRead
<1>1. TypeInv /\ WindowInv => WindowIsRead
  <2> SUFFICES ASSUME TypeInv, WindowInv, pc # "wait", NEW i \in 1 .. N, i <= had
               PROVE  /\ i <= Len(seen) => seen[i] = data[i - 1]
                      /\ \/ i <= Len(seen)
                         \/ pc = "scan"
                         \/ OneStep /\ \E h \in 1 .. i : data[h - 1] = Empty
    BY DEF WindowIsRead
  <2>1. i <= Len(seen) => seen[i] = data[i - 1] BY SeenSlots DEF WindowInv
  <2>2. ASSUME ~(i <= Len(seen)), pc # "scan"
        PROVE  OneStep /\ \E h \in 1 .. i : data[h - 1] = Empty
    <3>1. Len(seen) # N /\ Len(seen) < had BY <2>2, SeenSlots
    <3>2. OneStep /\ data[Len(seen)] = Empty BY <2>2, <3>1 DEF WindowInv
    <3>3. Len(seen) + 1 \in 1 .. i /\ (Len(seen) + 1) - 1 = Len(seen) BY <2>2, SeenSlots
    <3> QED BY <3>2, <3>3
  <2> QED BY <2>1, <2>2
<1> QED BY <1>1, TypeInvariant, WindowInvariant, PTL

(* Consecutive windows overlap as the window size and step say.            *)
THEOREM WindowsDoOverlap == Spec => WindowsOverlap
<1> DEFINE Overlap ==
      write_idx' < write_idx
        => \A i \in DOMAIN seen : P < i /\ i <= had => data'[i - P - 1] = seen[i]
<1>1. TypeInv /\ WindowInv /\ [Next]_vars => [Overlap]_vars
  <2> SUFFICES ASSUME TypeInv, WindowInv, Next, write_idx' < write_idx,
                      NEW i \in DOMAIN seen, P < i, i <= had
               PROVE  data'[i - P - 1] = seen[i]
    OBVIOUS
  <2>1. Slice
    <3>1. ~UNCHANGED bufVars BY SeenSlots DEF bufVars
    <3>2. CASE \E e \in Elements : AddElement(e)
      BY <3>2, AddKeepsOlder, SeenSlots, AddTypeOK DEF TypeInv, TypeOK, BufTypeOK
    <3> QED BY <3>1, <3>2, NextCases, OthersAdd, EvalFrame
  <2>2. SliceBuffer /\ pc = "slice" BY <2>1, SeenSlots DEF Slice, bufVars
  <2>3. i \in 1 .. Len(seen) /\ i \in 1 .. N BY SeenSlots
  <2>4. i - P - 1 \in Slots /\ i - P - 1 < K - P /\ (i - P - 1) + P = i - 1
    BY <2>3, SeenSlots, BufferAssumption DEF Slots
  <2>5. data'[i - P - 1] = data[i - 1] BY <2>2, <2>4 DEF SliceBuffer
  <2>6. seen[i] = data[i - 1] BY <2>2, <2>3 DEF WindowInv
  <2> QED BY <2>5, <2>6
<1> QED BY <1>1, TypeInvariant, WindowInvariant, PTL DEF Spec, WindowsOverlap

-----------------------------------------------------------------------------
(* What is evaluated was stored                                            *)

StoreInv ==
  /\ started => N \in segments
  /\ eval_sem > 0 \/ pc # "wait" => started
  /\ ~OneStep =>
       /\ cpc = "add" => seg \in segments
       /\ \A i \in Slots : data[i] > 0 => FloatOfStored(data[i])
       /\ \A i \in 1 .. Len(seen) : seen[i] > 0 => FloatOfStored(seen[i])

(* Evaluations are asked for only after segment N has been stored.         *)
LEMMA StartedStep ==
  ASSUME TypeInv, StoreInv, Next
  PROVE  /\ started' => N \in segments'
         /\ eval_sem' > 0 \/ pc' # "wait" => started'
         /\ segments \subseteq segments'
<1> USE DEF StoreInv
<1>1. CASE StoreSegment
  <2>1. UNCHANGED <<timerVars, pc>> BY <1>1 DEF StoreSegment
  <2> QED BY <1>1, <2>1 DEF StoreSegment, timerVars
<1>2. CASE SignalEval BY <1>2 DEF SignalEval, flagVars
<1>3. CASE EvalBegin
  BY <1>3 DEF EvalBegin, flagVars, TypeInv, TypeOK, TimersOK
<1>4. CASE started' = started /\ segments' = segments /\ eval_sem' = eval_sem /\ pc' = pc
  BY <1>4
<1>5. CASE OnStall \/ OnUndecodable \/ OnSegment \/ SignalStall \/ StallingTask
  BY <1>4, <1>5
     DEF OnStall, OnUndecodable, OnSegment, SignalStall, StallingTask, flagVars, timerVars
<1>6. CASE EvalTask /\ ~EvalBegin
  <2>1. started' = started /\ segments' = segments /\ eval_sem' = eval_sem
    BY <1>6, EvalFrame DEF flagVars, timerVars
  <2>2. pc # "wait"
    BY <1>6 DEF EvalTask, ScanEmpty, ScanStall, ScanSegment, ScanDone, MeanAdd, MeanDone,
                ReadSlot, Verdict, Evaluate, EvaluateFails, Send, SendCrashes, SendFails,
                Slice
  <2> QED BY <2>1, <2>2
<1>7. CASE (Connection \/ ClientThread) /\ ~StoreSegment
  <2>1. UNCHANGED <<timerVars, pc, segments>> BY <1>7, ClientFrame
  <2>2. started' = started
    BY <1>7
       DEF Connection, Accept, AcceptPanics, Disconnect, ClientThread, StoreFails, AddSegment,
           ScoreSegment, ScoreCrashes, flagVars
  <2> QED BY <1>4, <2>1, <2>2 DEF timerVars
<1> QED BY <1>1, <1>2, <1>3, <1>5, <1>6, <1>7, NextCases

(* Segment numbers reach the buffer, and from there the scan, only once    *)
(* stored.                                                                 *)
LEMMA StoredStep ==
  ASSUME TypeInv, StoreInv, Next, ~OneStep, segments \subseteq segments'
  PROVE  /\ cpc' = "add" => seg' \in segments'
         /\ \A i \in Slots : data'[i] > 0 => \E n \in segments' : data'[i] = AsFloat(n)
         /\ \A i \in 1 .. Len(seen') :
              seen'[i] > 0 => \E n \in segments' : seen'[i] = AsFloat(n)
<1>1. cpc' = "add" => seg' \in segments'
  <2>1. CASE UNCHANGED msgVars BY <2>1 DEF msgVars, StoreInv
  <2>2. CASE Connection
    BY <2>1, <2>2 DEF Connection, Accept, AcceptPanics, Disconnect
  <2>3. CASE OnStall \/ OnUndecodable BY <2>3 DEF OnStall, OnUndecodable, Receive, StoreInv
  <2>4. CASE OnSegment BY <2>4 DEF OnSegment
  <2>5. CASE ClientThread
    BY <2>5 DEF ClientThread, StoreFails, StoreSegment, AddSegment, ScoreSegment, ScoreCrashes,
                msgVars, StoreInv
  <2> QED BY <2>1, <2>2, <2>3, <2>4, <2>5, NextCases, TimerFrame, EvalFrame
<1>2. ASSUME NEW i \in Slots, data'[i] > 0
      PROVE  \E n \in segments' : data'[i] = AsFloat(n)
  <2>1. CASE UNCHANGED bufVars BY <1>2, <2>1 DEF bufVars, StoreInv, FloatOfStored
  <2>2. CASE \E e \in Elements : Added(e) /\ AddElement(e)
    <3> PICK e \in Elements : Added(e) /\ AddElement(e) BY <2>2
    <3>1. CASE data'[i] = data[i] BY <1>2, <3>1 DEF StoreInv, FloatOfStored
    <3>2. CASE data'[i] = e
      <4>1. e # StallMark BY <1>2, <3>2 DEF StallMark
      <4> QED BY <3>2, <4>1 DEF Added, StoreInv
    <3> QED BY <3>1, <3>2, AddKeepsOlder DEF TypeInv, TypeOK
  <2>3. CASE SliceBuffer
    BY <1>2, <2>3, SliceMovesElements DEF TypeInv, TypeOK, StoreInv, FloatOfStored, Empty
  <2> QED BY <2>1, <2>2, <2>3, NextCases, OthersAdd, EvalFrame DEF Slice
<1>3. ASSUME NEW i \in 1 .. Len(seen'), seen'[i] > 0
      PROVE  \E n \in segments' : seen'[i] = AsFloat(n)
  <2>1. CASE seen' = seen BY <1>3, <2>1 DEF StoreInv, FloatOfStored
  <2>2. CASE Reads
    <3>1. ReadSlot BY <2>2 DEF Reads, ScanEmpty, ScanStall, ScanSegment, MeanAdd
    <3>2. CASE i \in 1 .. Len(seen)
      BY <1>3, <3>1, <3>2, ReadSlotSeen DEF StoreInv, FloatOfStored
    <3>3. CASE i = Len(seen) + 1
      BY <1>3, <3>1, <3>3, ReadSlotSeen DEF StoreInv, FloatOfStored
    <3> QED BY <3>1, <3>2, <3>3, ReadSlotSeen
  <2>3. CASE Returns
    <3>1. seen' = <<>>
      BY <2>3 DEF Returns, EvaluateFails, SendFails, Slice, EvalReturns
    <3> QED BY <1>3, <3>1, EmptySeq
  <2>4. CASE EvalBegin BY <2>1, <2>4 DEF EvalBegin
  <2>5. CASE UNCHANGED scanVars BY <2>1, <2>5 DEF scanVars
  <2> QED BY <2>2, <2>3, <2>4, <2>5, NextCases, OthersFrame, EvalFrame
<1> QED BY <1>1, <1>2, <1>3

(* The strengthening of EvaluatesOnlyStored: it adds the flag started and  *)
(* the number onmessage is about to add.                                   *)
THEOREM StoreInvariant == Spec => []StoreInv
<1>1. Init => StoreInv
  <2> SUFFICES ASSUME Init PROVE StoreInv OBVIOUS
  <2>1. /\ started = FALSE /\ eval_sem = 0 /\ pc = "wait" /\ cpc = "read"
        /\ Len(seen) = 0
    BY EmptySeq DEF Init
  <2>2. \A i \in Slots : data[i] = 0 BY DEF Init, BufInit, Empty
  <2> QED BY <2>1, <2>2 DEF StoreInv
<1>2. TypeInv /\ StoreInv /\ [Next]_vars => StoreInv'
  <2> SUFFICES ASSUME TypeInv, StoreInv, [Next]_vars PROVE StoreInv' OBVIOUS
  <2>1. CASE UNCHANGED vars
    BY <2>1 DEF vars, bufVars, scanVars, flagVars, timerVars, msgVars, StoreInv,
                FloatOfStored
  <2>2. CASE Next
    BY <2>2, StartedStep, StoredStep DEF StoreInv, FloatOfStored
  <2> QED BY <2>1, <2>2
<1> QED BY <1>1, <1>2, TypeInvariant, PTL DEF Spec

(* The evaluator is only ever asked about numbers that are floats of the   *)
(* numbers of segments on disk.                                            *)
THEOREM OnlyStoredEvaluated == Spec => []EvaluatesOnlyStored
<1>1. TypeInv /\ StoreInv => EvaluatesOnlyStored
  BY SeenSlots DEF StoreInv, EvaluatesOnlyStored
<1> QED BY <1>1, TypeInvariant, StoreInvariant, PTL

(* As long as every segment number is below 2^24, the evaluator is only    *)
(* ever asked about segments that are on disk.                             *)
SmallOnlyStored ==
  (~OneStep /\ SegNums \subseteq 0 .. Exact - 1) =>
    \A i \in DOMAIN seen : seen[i] > 0 => seen[i] \in segments

THEOREM OnDiskEvaluated == Spec => []SmallOnlyStored
<1>1. TypeInv /\ EvaluatesOnlyStored => SmallOnlyStored
  <2> SUFFICES ASSUME TypeInv, EvaluatesOnlyStored, ~OneStep,
                      SegNums \subseteq 0 .. Exact - 1,
                      NEW i \in DOMAIN seen, seen[i] > 0
               PROVE  seen[i] \in segments
    BY DEF SmallOnlyStored
  <2>1. PICK n \in segments : seen[i] = AsFloat(n)
    BY DEF EvaluatesOnlyStored, FloatOfStored
  <2>2. n \in 0 .. Exact - 1 BY ExactIsNat DEF TypeInv, TypeOK
  <2> QED BY <2>1, <2>2, SmallIsExact
<1> QED BY <1>1, TypeInvariant, OnlyStoredEvaluated, PTL

-----------------------------------------------------------------------------
(* The slide waits for the answer                                          *)

AnswerInv ==
  /\ pc \in {"verdict", "send_one"} => Segments(seen) = {}
  /\ pc \in {"verdict", "send_one", "run"} => ~OneStep
  /\ pc = "send" => OneStep \/ path # NoJson      (* but maybe without O46 *)

(* A verdict has seen no segment, and a result about to be sent is a       *)
(* result.                                                                 *)
LEMMA AnswerStep ==
  ASSUME TypeInv, AnswerInv, [Next]_vars
  PROVE  AnswerInv'
<1> USE DEF AnswerInv
<1>1. CASE UNCHANGED vars BY <1>1 DEF vars, scanVars, evalVars, Segments
<1>2. CASE Connection \/ OnStall \/ OnUndecodable \/ OnSegment \/ ClientThread
  <2>1. pc' = pc /\ seen' = seen BY <1>2, ClientFrame DEF scanVars
  <2>2. OneStep \/ path' = path
    <3>1. cpc = "score" => OneStep BY DEF TypeInv, TypeOK, MessageOK
    <3> QED BY <1>2, <3>1, ClientFrame DEF ScoreSegment, ScoreCrashes, evalVars
  <2> QED BY <2>1, <2>2 DEF Segments
<1>3. CASE SignalStall \/ StallingTask \/ SignalEval
  BY <1>3, TimerFrame DEF scanVars, evalVars, Segments
<1>4. CASE EvalTask
  <2>1. CASE EvalBegin \/ Reads \/ Returns
    <3>1. pc' \in {"wait", "scan"}
      BY <2>1 DEF EvalBegin, Reads, ScanEmpty, ScanStall, ScanSegment, MeanAdd, ReadSlot,
                  scanUnchanged, Returns, EvaluateFails, SendFails, Slice, EvalReturns
    <3> QED BY <3>1
  <2>2. CASE ScanDone
    BY <2>2 DEF ScanDone, scanVars, Segments
  <2>3. CASE MeanDone BY <2>3 DEF MeanDone
  <2>4. CASE Verdict BY <2>4 DEF Verdict, scanVars, Segments
  <2>5. CASE Evaluate BY <2>5 DEF Evaluate
  <2>6. CASE Send \/ SendCrashes
    BY <2>6 DEF Send, SendCrashes, scanVars, evalVars, Segments
  <2> QED BY <1>4, <2>1, <2>2, <2>3, <2>4, <2>5, <2>6 DEF EvalTask, Reads, Returns
<1> QED BY <1>1, <1>2, <1>3, <1>4, NextCases

(* No element of a window leaves the buffer before the result of that      *)
(* window has gone out.                                                    *)
THEOREM SlideWaitsForAnswer == Spec => AnsweredBeforeSliding
<1> DEFINE Answered ==
      pc # "slice" /\ pc' = "slice" /\ Segments(seen) # {}
        => client = 1 /\ pc = "send" /\ (OneStep \/ path \in Scores)
<1>1. Init => AnswerInv BY DEF Init, AnswerInv
<1>2. TypeInv /\ AnswerInv /\ [Next]_vars => AnswerInv' BY AnswerStep
<1>3. TypeInv /\ AnswerInv /\ [Next]_vars => [Answered]_vars
  <2> SUFFICES ASSUME TypeInv, AnswerInv, Next, pc # "slice", pc' = "slice",
                      Segments(seen) # {}
               PROVE  client = 1 /\ pc = "send" /\ (OneStep \/ path \in Scores)
    OBVIOUS
  <2>1. EvalTask
    <3>1. pc' # pc OBVIOUS
    <3> QED BY <3>1, NextCases, OthersFrame
  <2>2. Send \/ Verdict
    BY <2>1 DEF EvalTask, EvalBegin, ScanEmpty, ScanStall, ScanSegment, ScanDone, MeanAdd,
                MeanDone, ReadSlot, scanUnchanged, Verdict, Evaluate, EvaluateFails, Send,
                SendCrashes, SendFails, Slice, EvalReturns
  <2>3. ~Verdict BY DEF Verdict, AnswerInv
  <2>4. path \in Scores \union {NoJson, NoScore} BY DEF TypeInv, TypeOK, EvaluatorOK
  <2> QED BY <2>2, <2>3, <2>4 DEF Send, Unscored, AnswerInv
<1> QED BY <1>1, <1>2, <1>3, TypeInvariant, PTL DEF Spec, AnsweredBeforeSliding
-----------------------------------------------------------------------------
(* The list of stalls.  StallsAreRuns says nothing of the flag             *)
(* stall_occurred, on which the scan decides between opening a stall and   *)
(* prolonging one: it is set exactly while the last run is not over, and   *)
(* that run is then the last entry of the list, so that the entry the scan *)
(* prolongs is the right one.                                              *)

NotOver(i) == \A k \in i .. Len(seen) : seen[k] <= 0

StallsInv ==
  /\ \A i \in Slots : data[i] >= -1
  /\ StallsAreRuns
  /\ ~OneStep /\ stall_occurred =>
       \E i \in StallStarts :
         NotOver(i) /\ stalls[Len(stalls)] = [start |-> i, duration |-> StallLength(i)]
  /\ ~OneStep /\ ~stall_occurred =>
       \A i \in DOMAIN seen : seen[i] = -1 => ~NotOver(i)

(* The positions StallLength counts.                                       *)
Run(i) == {k \in i .. Len(seen) : seen[k] = -1 /\ \A m \in i .. k : seen[m] <= 0}

(* What the scan has read are integers.                                    *)
LEMMA SeenInts ==
  ASSUME TypeInv
  PROVE  \A i \in 1 .. Len(seen) : seen[i] \in Int
  BY BufferAssumption, ElementOfSeq DEF TypeInv, TypeOK, ScanOK

(* Both sets that StallsAreRuns counts are finite.                         *)
LEMMA RunsFinite ==
  ASSUME TypeInv
  PROVE  /\ IsFiniteSet(StallStarts) /\ Cardinality(StallStarts) \in Nat
         /\ \A i \in StallStarts : IsFiniteSet(Run(i)) /\ Cardinality(Run(i)) \in Nat
<1>1. IsFiniteSet(1 .. Len(seen)) BY SeenSlots, FS_Interval
<1>2. StallStarts \in SUBSET (1 .. Len(seen)) BY SeenSlots DEF StallStarts
<1>3. ASSUME NEW i \in StallStarts PROVE Run(i) \in SUBSET (1 .. Len(seen))
  <2>1. i \in 1 .. Len(seen) BY <1>2
  <2> QED BY <2>1, SeenSlots DEF Run
<1>4. \A S \in SUBSET (1 .. Len(seen)) : IsFiniteSet(S) /\ Cardinality(S) \in Nat
  BY <1>1, FS_Subset, FS_CardinalityType
<1> QED BY <1>2, <1>3, <1>4

(* A new slot begins a run if it holds a stall and no run is under way.    *)
LEMMA StartsStep ==
  ASSUME TypeInv, ReadSlot
  PROVE  LET new == Len(seen) + 1
             begins == /\ seen'[new] = -1
                       /\ \A i \in 1 .. Len(seen) : seen[i] = -1 => ~NotOver(i)
         IN StallStarts' = IF begins THEN StallStarts \union {new} ELSE StallStarts
<1> DEFINE new == Len(seen) + 1
           begins == /\ seen'[new] = -1
                     /\ \A i \in 1 .. Len(seen) : seen[i] = -1 => ~NotOver(i)
           IsStart(i) == \A h \in 1 .. i - 1 :
                           seen[h] = -1 => \E k \in h + 1 .. i - 1 : seen[k] > 0
           IsStartNext(i) == \A h \in 1 .. i - 1 :
                               seen'[h] = -1 => \E k \in h + 1 .. i - 1 : seen'[k] > 0
<1>1. /\ Len(seen) \in Nat /\ DOMAIN seen = 1 .. Len(seen)
      /\ DOMAIN seen' = 1 .. new /\ new = Len(seen) + 1
      /\ \A i \in 1 .. Len(seen) : seen'[i] = seen[i] /\ seen[i] \in Int
  BY ReadSlotSeen, SeenSlots, LenProperties, BufferAssumption, ElementOfSeq
     DEF TypeInv, TypeOK, ScanOK
<1>2. ASSUME NEW i \in 1 .. Len(seen) PROVE IsStartNext(i) <=> IsStart(i)
  <2>1. \A k \in 1 .. i - 1 : seen'[k] = seen[k] BY <1>1
  <2>2. \A h \in 1 .. i - 1 : h + 1 .. i - 1 \subseteq 1 .. i - 1 BY <1>1
  <2> QED BY <2>1, <2>2
<1>3. IsStartNext(new) <=> \A i \in 1 .. Len(seen) : seen[i] = -1 => ~NotOver(i)
  <2>1. new - 1 = Len(seen) BY <1>1
  <2>2. ASSUME NEW h \in 1 .. Len(seen), seen[h] = -1
        PROVE  (\E k \in h + 1 .. Len(seen) : seen[k] > 0) <=> ~NotOver(h)
    BY <1>1, <2>2 DEF NotOver
  <2> HIDE DEF new
  <2>3. \A h \in 1 .. Len(seen) : h + 1 .. Len(seen) \subseteq 1 .. Len(seen) BY <1>1
  <2> QED BY <1>1, <2>1, <2>2, <2>3
<1>4. StallStarts = {i \in 1 .. Len(seen) : seen[i] = -1 /\ IsStart(i)}
  BY <1>1 DEF StallStarts
<1>5. StallStarts' = {i \in 1 .. new : seen'[i] = -1 /\ IsStartNext(i)}
  BY <1>1 DEF StallStarts
<1> HIDE DEF IsStart, IsStartNext
<1>6. 1 .. new = (1 .. Len(seen)) \union {new} BY <1>1
<1> HIDE DEF new
<1> QED BY <1>1, <1>2, <1>3, <1>4, <1>5, <1>6

(* A new slot prolongs the runs that are not over, if it holds a stall.    *)
LEMMA RunStep ==
  ASSUME TypeInv, ReadSlot, NEW i \in StallStarts
  PROVE  LET new == Len(seen) + 1
         IN Run(i)' = IF seen'[new] = -1 /\ NotOver(i) THEN Run(i) \union {new} ELSE Run(i)
<1> DEFINE new == Len(seen) + 1
<1>1. /\ Len(seen) \in Nat /\ Len(seen') = new /\ new = Len(seen) + 1 /\ new \in Nat
      /\ \A k \in 1 .. Len(seen) : seen'[k] = seen[k] /\ seen[k] \in Int
      /\ i \in 1 .. Len(seen)
  BY ReadSlotSeen, SeenSlots, LenProperties, BufferAssumption, ElementOfSeq
     DEF TypeInv, TypeOK, ScanOK, StallStarts
<1> HIDE DEF new
<1>2. ASSUME NEW k \in i .. Len(seen) PROVE k \in Run(i)' <=> k \in Run(i)
  <2>1. \A m \in i .. k : m \in 1 .. Len(seen) /\ seen'[m] = seen[m] BY <1>1
  <2>2. k \in i .. new /\ seen'[k] = seen[k] BY <1>1
  <2> QED BY <1>1, <2>1, <2>2 DEF Run
<1>3. new \in Run(i)' <=> seen'[new] = -1 /\ NotOver(i)
  <2>1. \A m \in i .. Len(seen) : m \in i .. new /\ seen'[m] = seen[m] BY <1>1
  <2>2. \A m \in i .. new : m = new \/ m \in i .. Len(seen) BY <1>1
  <2>3. new \in i .. new BY <1>1
  <2>4. seen'[new] = -1 => seen'[new] <= 0 OBVIOUS
  <2> QED BY <1>1, <2>1, <2>2, <2>3, <2>4 DEF Run, NotOver
<1>4. new \notin Run(i) /\ Run(i) \subseteq i .. Len(seen) BY <1>1 DEF Run
<1>5. Run(i)' \subseteq (i .. Len(seen)) \union {new} BY <1>1 DEF Run
<1> QED BY <1>2, <1>3, <1>4, <1>5 DEF new

(* How a slot changes the list of stalls: the entry of the run that it     *)
(* prolongs or begins, and no other.                                       *)
LEMMA ScanStallRuns ==
  ASSUME TypeInv, StallsInv, ScanStall
  PROVE  /\ Len(stalls') = Cardinality(StallStarts')
         /\ \A i \in StallStarts' : \E n \in DOMAIN stalls' :
              stalls'[n] = [start |-> i, duration |-> StallLength(i)']
         /\ \E i \in StallStarts' :
              /\ NotOver(i)'
              /\ stalls'[Len(stalls')] = [start |-> i, duration |-> StallLength(i)']
<1>0. PICK new \in Nat : new = Len(seen) + 1
  BY ReadSlotSeen DEF ScanStall
<1>1. /\ ReadSlot /\ ~OneStep /\ seen'[new] = -1
      /\ Len(seen') = new /\ new > 0 /\ new \notin StallStarts
  BY <1>0, ReadSlotSeen, SeenSlots DEF ScanStall, Slot, StallStarts
<1>2. /\ stalls \in Seq(Stall) /\ Len(stalls) \in Nat
      /\ DOMAIN stalls = 1 .. Len(stalls)
  BY LenProperties DEF TypeInv, TypeOK, ScanOK
<1>3. ASSUME NEW i \in StallStarts
      PROVE  /\ i \in 1 .. Len(seen) /\ seen[i] = -1 /\ seen'[i] = -1
             /\ StallLength(i) = Cardinality(Run(i))
             /\ StallLength(i)' = Cardinality(Run(i)')
             /\ StallLength(i)' = IF NotOver(i) THEN StallLength(i) + 1 ELSE StallLength(i)
             /\ StallLength(i) \in Nat
             /\ NotOver(i) => NotOver(i)'
  <2>1. i \in 1 .. Len(seen) /\ seen[i] = -1 /\ seen'[i] = -1
    BY <1>1, ReadSlotSeen, SeenSlots DEF StallStarts
  <2>2. StallLength(i) = Cardinality(Run(i)) /\ StallLength(i)' = Cardinality(Run(i)')
    BY DEF StallLength, Run
  <2>3. Run(i)' = IF NotOver(i) THEN Run(i) \union {new} ELSE Run(i)
    BY <1>0, <1>1, RunStep
  <2>4. new \notin Run(i) BY <1>0, SeenSlots DEF Run
  <2>5. IsFiniteSet(Run(i)) /\ Cardinality(Run(i)) \in Nat BY RunsFinite
  <2>6. Cardinality(Run(i) \union {new}) = Cardinality(Run(i)) + 1
    BY <2>4, <2>5, FS_AddElement
  <2>7. NotOver(i) => NotOver(i)'
    BY <1>0, <1>1, <2>1, ReadSlotSeen DEF NotOver
  <2> QED BY <2>1, <2>2, <2>3, <2>5, <2>6, <2>7
<1>4. CASE stall_occurred
  <2> DEFINE last == Len(stalls)
             s == [stalls[last] EXCEPT !.duration = stalls[last].duration + 1]
  <2>1. PICK i0 \in StallStarts :
               NotOver(i0) /\ stalls[last] = [start |-> i0, duration |-> StallLength(i0)]
    BY <1>1, <1>4 DEF StallsInv
  <2>2. last \in 1 .. Len(stalls) BY <1>2, <1>4 DEF TypeInv, ScanInv
  <2>3. s = [start |-> i0, duration |-> StallLength(i0)'] BY <1>3, <2>1
  <2>4. stalls[last] \in Stall BY <1>2, <2>2, ElementOfSeq
  <2>5. s \in Stall
    <3>1. s.start \in 1 .. N BY <2>4 DEF Stall
    <3>2. stalls[last].duration \in 1 .. N /\ stalls[last].duration <= Len(seen)
      BY <2>2, <2>4 DEF Stall, TypeInv, ScanInv
    <3>3. stalls[last].duration + 1 \in 1 .. N
      BY <1>1, <3>2, ReadSlotSeen, ServerAssumption, SMTT(20)
    <3> QED BY <2>4, <3>3 DEF Stall
  <2>6. stalls' = [stalls EXCEPT ![last] = s] BY <1>4 DEF ScanStall
  <2> HIDE DEF s
  <2>7. /\ stalls' \in Seq(Stall) /\ Len(stalls') = Len(stalls)
        /\ \A m \in 1 .. Len(stalls) : stalls'[m] = IF m = last THEN s ELSE stalls[m]
    BY <1>2, <2>2, <2>5, <2>6, ExceptSeq
  <2>8. StallStarts' = StallStarts
    <3>1. i0 \in 1 .. Len(seen) /\ seen[i0] = -1 /\ NotOver(i0) BY <1>3, <2>1
    <3> QED BY <1>0, <1>1, <3>1, StartsStep
  <2>9. ASSUME NEW i \in StallStarts, i # i0
        PROVE  ~NotOver(i)
    <3>1. /\ i \in 1 .. Len(seen) /\ i0 \in 1 .. Len(seen) /\ Len(seen) \in Nat
          /\ seen[i] = -1 /\ seen[i0] = -1
      BY <1>3, SeenSlots
    <3>2. CASE i < i0
      <4>1. \E k \in i + 1 .. i0 - 1 : seen[k] > 0
        BY <3>1, <3>2 DEF StallStarts
      <4> QED BY <3>1, <4>1, SeenInts DEF NotOver
    <3>3. CASE i0 < i
      <4>1. \E k \in i0 + 1 .. i - 1 : seen[k] > 0
        BY <3>1, <3>3 DEF StallStarts
      <4> QED BY <2>1, <3>1, <4>1, SeenInts DEF NotOver
    <3> QED BY <2>9, <3>1, <3>2, <3>3
  <2>10. ASSUME NEW i \in StallStarts
         PROVE  \E n \in 1 .. Len(stalls) :
                  stalls'[n] = [start |-> i, duration |-> StallLength(i)']
    <3>1. CASE i = i0 BY <2>2, <2>3, <2>7, <3>1
    <3>2. CASE i # i0
      <4>1. PICK n \in 1 .. Len(stalls) :
                   stalls[n] = [start |-> i, duration |-> StallLength(i)]
        BY <1>1, <1>2 DEF StallsInv, StallsAreRuns
      <4>2. n # last BY <2>1, <3>2, <4>1
      <4>3. StallLength(i)' = StallLength(i) BY <1>3, <2>9, <3>2
      <4> QED BY <2>7, <4>1, <4>2, <4>3
    <3> QED BY <3>1, <3>2
  <2>11. DOMAIN stalls' = 1 .. Len(stalls) BY <2>7, LenProperties
  <2>12. Len(stalls) = Cardinality(StallStarts) BY <1>1 DEF StallsInv, StallsAreRuns
  <2>13. NotOver(i0)' BY <1>3, <2>1
  <2>14. stalls'[Len(stalls')] = [start |-> i0, duration |-> StallLength(i0)']
    BY <2>2, <2>3, <2>7
  <2> QED BY <2>7, <2>8, <2>10, <2>11, <2>12, <2>13, <2>14
<1>5. CASE ~stall_occurred
  <2> DEFINE s == [start |-> new, duration |-> 1]
  <2>1. stalls' = Append(stalls, s) BY <1>0, <1>5 DEF ScanStall, Slot
  <2>2. s \in Stall
    BY <1>0, <1>1, ReadSlotSeen, ServerAssumption DEF Stall
  <2>3. /\ stalls' \in Seq(Stall) /\ Len(stalls') = Len(stalls) + 1
        /\ \A m \in 1 .. Len(stalls) : stalls'[m] = stalls[m]
        /\ stalls'[Len(stalls) + 1] = s
    <3> HIDE DEF s
    <3> QED BY <1>2, <2>1, <2>2, AppendProperties
  <2>4. DOMAIN stalls' = 1 .. Len(stalls) + 1 BY <2>3, LenProperties
  <2>5. \A i \in 1 .. Len(seen) : seen[i] = -1 => ~NotOver(i)
    BY <1>1, <1>5, SeenSlots DEF StallsInv
  <2>6. StallStarts' = StallStarts \union {new}
    BY <1>0, <1>1, <2>5, StartsStep
  <2>7. Cardinality(StallStarts') = Cardinality(StallStarts) + 1
    BY <1>1, <2>6, RunsFinite, FS_AddElement
  <2>8. StallLength(new)' = 1
    <3>1. StallLength(new)' = Cardinality(Run(new)') BY DEF StallLength, Run
    <3>2. Run(new)' = {new} BY <1>1 DEF Run
    <3> QED BY <3>1, <3>2, FS_Singleton
  <2>9. NotOver(new)' BY <1>1 DEF NotOver
  <2>10. ASSUME NEW i \in StallStarts
         PROVE  \E n \in 1 .. Len(stalls) :
                  stalls'[n] = [start |-> i, duration |-> StallLength(i)']
    <3>1. PICK n \in 1 .. Len(stalls) :
                 stalls[n] = [start |-> i, duration |-> StallLength(i)]
      BY <1>1, <1>2 DEF StallsInv, StallsAreRuns
    <3>2. StallLength(i)' = StallLength(i) BY <1>3, <2>5
    <3> QED BY <2>3, <3>1, <3>2
  <2>11. stalls'[Len(stalls')] = [start |-> new, duration |-> StallLength(new)']
    BY <2>3, <2>8
  <2>12. Len(stalls) = Cardinality(StallStarts) BY <1>1 DEF StallsInv, StallsAreRuns
  <2>13. Len(stalls) + 1 \in 1 .. Len(stalls) + 1 BY <1>2
  <2>14. ASSUME NEW i \in StallStarts'
         PROVE  \E n \in DOMAIN stalls' :
                  stalls'[n] = [start |-> i, duration |-> StallLength(i)']
    <3>1. CASE i = new BY <2>3, <2>4, <2>11, <2>13, <3>1
    <3>2. CASE i \in StallStarts
      <4>1. \A n \in 1 .. Len(stalls) : n \in DOMAIN stalls' BY <1>2, <2>4
      <4> QED BY <2>10, <3>2, <4>1
    <3> QED BY <2>6, <3>1, <3>2
  <2> QED BY <2>3, <2>6, <2>7, <2>9, <2>11, <2>12, <2>14
<1> QED BY <1>4, <1>5

(* A slot that holds no stall leaves the list alone; a segment ends every  *)
(* run.                                                                    *)
LEMMA ScanOtherRuns ==
  ASSUME TypeInv, StallsInv, ScanEmpty \/ ScanSegment
  PROVE  StallsInv'
<1>0. PICK new \in Nat : new = Len(seen) + 1
  BY ReadSlotSeen DEF ScanEmpty, ScanSegment
<1>1. /\ ReadSlot /\ ~OneStep /\ stalls' = stalls /\ UNCHANGED bufVars
      /\ Len(seen') = new /\ seen'[new] = data[Len(seen)] /\ seen'[new] # -1
      /\ data[Len(seen)] >= -1 /\ data[Len(seen)] \in Int
      /\ DOMAIN seen' = 1 .. new
  <2>1. ReadSlot /\ ~OneStep /\ stalls' = stalls /\ UNCHANGED bufVars
    BY DEF ScanEmpty, ScanSegment, scanUnchanged
  <2>2. data[Len(seen)] \notin {-1}
    BY DEF ScanEmpty, ScanSegment, Slot, Empty
  <2>3. Len(seen') = new /\ seen'[new] = data[Len(seen)] /\ Len(seen) \in Slots
    BY <1>0, <2>1, ReadSlotSeen
  <2>4. data[Len(seen)] \in Int
    BY <2>3, BufferAssumption DEF TypeInv, TypeOK, BufTypeOK
  <2>5. DOMAIN seen' = 1 .. new BY <2>1, <2>3, ReadSlotSeen, LenProperties
  <2> QED BY <2>1, <2>2, <2>3, <2>4, <2>5 DEF StallsInv
<1>2. StallStarts' = StallStarts BY <1>0, <1>1, StartsStep
<1>3. ASSUME NEW i \in StallStarts PROVE StallLength(i)' = StallLength(i)
  BY <1>0, <1>1, RunStep DEF StallLength, Run
<1>4. StallsAreRuns'
  <2>1. /\ Len(stalls) = Cardinality(StallStarts)
        /\ \A i \in StallStarts : \E n \in DOMAIN stalls :
             stalls[n] = [start |-> i, duration |-> StallLength(i)]
    BY <1>1 DEF StallsInv, StallsAreRuns
  <2>2. Len(stalls') = Cardinality(StallStarts') BY <1>1, <1>2, <2>1
  <2>3. \A i \in StallStarts' : \E n \in DOMAIN stalls' :
          stalls'[n] = [start |-> i, duration |-> StallLength(i)']
    BY <1>1, <1>2, <1>3, <2>1
  <2> QED BY <2>2, <2>3 DEF StallsAreRuns
<1>5. \A i \in Slots : data'[i] >= -1 BY <1>1 DEF StallsInv, bufVars
<1>6. \A k \in 1 .. Len(seen) : seen'[k] = seen[k] /\ seen[k] \in Int
  BY <1>1, ReadSlotSeen, SeenInts
<1>7. \A i \in 1 .. Len(seen) : ~NotOver(i) => ~NotOver(i)'
  BY <1>0, <1>1, <1>6, SeenSlots DEF NotOver
<1>8. CASE ScanEmpty
  <2>1. stall_occurred' = stall_occurred /\ seen'[new] = 0
    BY <1>1, <1>8 DEF ScanEmpty, Slot, Empty
  <2>2. \A i \in 1 .. Len(seen) : NotOver(i) => NotOver(i)'
    BY <1>0, <1>1, <1>6, <2>1, SeenSlots, SMTT(20) DEF NotOver
  <2>3. ASSUME stall_occurred'
        PROVE  \E i \in StallStarts' :
                 /\ NotOver(i)'
                 /\ stalls'[Len(stalls')] = [start |-> i, duration |-> StallLength(i)']
    <3>1. PICK i \in StallStarts :
                 NotOver(i) /\ stalls[Len(stalls)] = [start |-> i, duration |-> StallLength(i)]
      BY <1>1, <2>1, <2>3 DEF StallsInv
    <3>2. i \in 1 .. Len(seen) BY SeenSlots DEF StallStarts
    <3>3. NotOver(i)' BY <2>2, <3>1, <3>2
    <3>4. StallLength(i)' = StallLength(i) BY <1>3
    <3> QED BY <1>1, <1>2, <3>1, <3>3, <3>4
  <2>4. ASSUME ~stall_occurred', NEW i \in 1 .. new, seen'[i] = -1
        PROVE  ~NotOver(i)'
    <3>1. i \in 1 .. Len(seen) BY <1>0, <1>1, <2>4, SeenSlots
    <3>2. ~NotOver(i) BY <1>1, <1>6, <2>1, <2>4, <3>1, SeenSlots DEF StallsInv
    <3> QED BY <1>7, <3>1, <3>2
  <2> QED BY <1>1, <1>4, <1>5, <2>3, <2>4 DEF StallsInv
<1>9. CASE ScanSegment
  <2>1. stall_occurred' = FALSE /\ seen'[new] > 0
    BY <1>1, <1>9 DEF ScanSegment, Slot, Empty
  <2>2. ASSUME NEW i \in 1 .. new PROVE ~NotOver(i)'
    BY <1>0, <1>1, <2>1 DEF NotOver
  <2> QED BY <1>1, <1>4, <1>5, <2>1, <2>2 DEF StallsInv
<1> QED BY <1>8, <1>9

(* No slot ever holds an element below -1: add_element refuses it.         *)
LEMMA NoneBelow ==
  ASSUME TypeInv, [Next]_vars, \A i \in Slots : data[i] >= -1
  PROVE  \A i \in Slots : data'[i] >= -1
<1>1. CASE UNCHANGED bufVars BY <1>1 DEF bufVars
<1>2. CASE \E e \in Elements : AddElement(e)
  <2> PICK e \in Elements : AddElement(e) BY <1>2
  <2>1. CASE e >= -1
    BY <2>1, AddKeepsOlder DEF TypeInv, TypeOK
  <2>2. CASE ~(e >= -1)
    <3>1. UNCHANGED bufVars BY <2>2, BufferAssumption DEF AddElement
    <3> QED BY <1>1, <3>1
  <2> QED BY <2>1, <2>2
<1>3. CASE SliceBuffer BY <1>3, SliceMovesElements DEF TypeInv, TypeOK, Empty
<1>4. [BufNext]_bufVars
  <2>1. CASE UNCHANGED vars BY <2>1 DEF vars
  <2> QED BY <2>1, BufferStep
<1> QED BY <1>1, <1>2, <1>3, <1>4 DEF BufNext

(* eval_task has not read a slot yet.                                      *)
NothingRead ==
  /\ seen = <<>> /\ stalls = <<>> /\ stall_occurred = FALSE
  /\ \A i \in Slots : data[i] >= -1

(* An empty scan has no stalls.                                            *)
LEMMA EmptyScan == NothingRead => StallsInv
<1> SUFFICES ASSUME NothingRead PROVE StallsInv OBVIOUS
<1>1. Len(seen) = 0 /\ DOMAIN seen = {} /\ Len(stalls) = 0 BY EmptySeq DEF NothingRead
<1>2. StallStarts = {} BY <1>1 DEF StallStarts
<1>3. Cardinality(StallStarts) = 0 BY <1>2, FS_EmptySet
<1> QED BY <1>1, <1>2, <1>3 DEF StallsInv, StallsAreRuns, NothingRead

(* The same of the state after a step.                                     *)
LEMMA EmptyScanNext == NothingRead' => StallsInv'
  BY EmptyScan, PTL

(* Every step preserves StallsInv.                                         *)
LEMMA StallsStep ==
  ASSUME TypeInv, StallsInv, [Next]_vars
  PROVE  StallsInv'
<1>1. \A i \in Slots : data'[i] >= -1 BY NoneBelow DEF StallsInv
<1>2. CASE UNCHANGED <<seen, stalls, stall_occurred>>
  <2>1. StallStarts' = StallStarts BY <1>2 DEF StallStarts
  <2>2. \A i \in StallStarts : StallLength(i)' = StallLength(i) BY <1>2 DEF StallLength
  <2>3. \A i : NotOver(i)' <=> NotOver(i) BY <1>2 DEF NotOver
  <2>4. StallsAreRuns' BY <1>2, <2>1, <2>2 DEF StallsInv, StallsAreRuns
  <2> QED BY <1>1, <1>2, <2>1, <2>2, <2>3, <2>4 DEF StallsInv
<1>3. CASE ScanStall
  <2>1. stall_occurred' = TRUE BY <1>3 DEF ScanStall
  <2> QED BY <1>1, <1>3, <2>1, ScanStallRuns DEF StallsInv, StallsAreRuns
<1>4. CASE ScanEmpty \/ ScanSegment BY <1>4, ScanOtherRuns
<1>5. CASE MeanAdd BY <1>1, <1>5 DEF MeanAdd, StallsInv, StallsAreRuns
<1>6. CASE Returns
  <2>1. seen' = <<>> /\ stalls' = <<>> /\ stall_occurred' = FALSE
    BY <1>6 DEF Returns, EvaluateFails, SendFails, Slice, EvalReturns
  <2> QED BY <1>1, <2>1, EmptyScanNext DEF NothingRead
<1>7. CASE EvalBegin BY <1>2, <1>7 DEF EvalBegin
<1>8. CASE UNCHANGED scanVars BY <1>2, <1>8 DEF scanVars
<1>9. CASE UNCHANGED vars BY <1>8, <1>9 DEF vars
<1> QED
  BY <1>3, <1>4, <1>5, <1>6, <1>7, <1>8, <1>9, NextCases, OthersFrame, EvalFrame DEF Reads

(* The scan's list of stalls is exactly the runs of stall elements between *)
(* segments, however elements and slots interleave with it.                *)
THEOREM StallsListed == Spec => []StallsAreRuns
<1>1. Init => StallsInv
  <2> SUFFICES ASSUME Init PROVE StallsInv OBVIOUS
  <2>1. \A i \in Slots : data[i] >= -1 BY DEF Init, BufInit, Empty
  <2> QED BY <2>1, EmptyScan DEF Init, NothingRead
<1>2. TypeInv /\ StallsInv /\ [Next]_vars => StallsInv' BY StallsStep
<1>3. StallsInv => StallsAreRuns BY DEF StallsInv
<1> QED BY <1>1, <1>2, <1>3, TypeInvariant, PTL DEF Spec

=============================================================================
