---------------------------- MODULE Timers_proofs ----------------------------
(***************************************************************************)
(* Proofs about the timers (Timers.tla), for every segment duration, step  *)
(* of the window, evaluation time, latency and jitter that                 *)
(* TimersAssumption allows, and for stalls of every length.                *)
(***************************************************************************)
EXTENDS Timers, TLAPS

(* What is due of the executing thread, with a post to be taken after it,  *)
(* ends before the signalling thread may post again.                       *)
InTime(t) ==
  /\ sleep[t] <= Interval(t) /\ sleep[t] >= -Jitter
  /\ semaphore[t] <= 1
  /\ exec[t] = "task" => due[t] <= TaskTime(t)
  /\ exec[t] = "wait" => due[t] <= Latency
  /\ ~Active(t) => due[t] = Latency
  /\ semaphore[t] = 1 => (IF exec[t] = "task" THEN due[t] + Latency ELSE due[t]) < sleep[t]

(* The elements still to be added in a stall.                              *)
Pending == semaphore["stall"] + (IF exec["stall"] = "task" THEN 1 ELSE 0)

(* A stall element is added within Latency of its post, and the posts of a *)
(* stall come once a period.                                               *)
StallInTime ==
  /\ exec["stall"] = "task" => semaphore["stall"] = 0 /\ D - sleep["stall"] <= Latency
  /\ semaphore["stall"] = 1 => D - sleep["stall"] + due["stall"] <= Latency

StallCounted ==
  is_stalling =>
    /\ (timed + Pending) * D <= stalled + D + (IF sleep["stall"] > 0 THEN sleep["stall"] ELSE 0)
    /\ stalled <= (timed + Pending) * (D + Jitter) + D - sleep["stall"]

IInv ==
  /\ TypeOK
  /\ \A t \in Timer : InTime(t)
  /\ StallInTime
  /\ StallCounted


-----------------------------------------------------------------------------
LEMMA ConstantsOK ==
  /\ D \in Nat /\ P \in Nat /\ D > 0 /\ P > 0
  /\ {EvalTime, Latency, Jitter, MaxStall} \subseteq Nat
  /\ \A t \in Timer : /\ Interval(t) \in Nat /\ TaskTime(t) \in Nat /\ Interval(t) > 0
                      /\ TaskTime(t) + Latency < Interval(t)
  /\ Interval("stall") = D /\ TaskTime("stall") = 0
BY TimersAssumption DEF Timer, Interval, TaskTime

(* A number one larger counts D more.                                      *)
LEMMA OneMore ==
  ASSUME NEW n \in Int, NEW m \in Int
  PROVE  (n + 1) * m = n * m + m /\ n * m \in Int
<1>1. n * m \in Int
  OBVIOUS
<1>2. (n + 1) * m = n * m + 1 * m
  BY SMT
<1> QED
  BY <1>1, <1>2

LEMMA InitInv == Init => IInv
<1> SUFFICES ASSUME Init PROVE IInv
  OBVIOUS
<1>1. TypeOK
  <2>1. is_stalling \in BOOLEAN /\ started \in BOOLEAN /\ connected \in BOOLEAN
    BY DEF Init
  <2>2. /\ sleep = [t \in Timer |-> 0] /\ semaphore = [t \in Timer |-> 0]
        /\ exec = [t \in Timer |-> "wait"] /\ due = [t \in Timer |-> Latency]
        /\ stalled = 0 /\ timed = 0
    BY DEF Init
  <2>3. /\ sleep \in [Timer -> Int] /\ semaphore \in [Timer -> Nat]
        /\ exec \in [Timer -> {"wait", "task"}] /\ due \in [Timer -> Nat]
        /\ stalled \in Nat /\ timed \in Nat
    BY <2>2, ConstantsOK
  <2> QED
    BY <2>1, <2>3 DEF TypeOK
<1>2. ASSUME NEW t \in Timer PROVE InTime(t)
  <2>1. sleep[t] = 0 /\ semaphore[t] = 0 /\ exec[t] = "wait" /\ due[t] = Latency
    BY DEF Init
  <2>2. Interval(t) \in Nat /\ Latency \in Nat /\ Jitter \in Nat
    BY ConstantsOK
  <2> QED
    BY <2>1, <2>2 DEF InTime, Active
<1>3. semaphore["stall"] = 0 /\ exec["stall"] = "wait" /\ is_stalling = FALSE
  BY DEF Init, Timer
<1>4. StallInTime /\ StallCounted
  BY <1>3 DEF StallInTime, StallCounted
<1> QED
  BY <1>1, <1>2, <1>4 DEF IInv


-----------------------------------------------------------------------------
(* The client: a new stall is measured from 0, with the post that may be   *)
(* left of the one before.                                                 *)

LEMMA PendingBounded ==
  ASSUME IInv
  PROVE  /\ Pending \in Nat /\ Pending <= 1
         /\ Pending = 1 => sleep["stall"] > 0
         /\ sleep["stall"] \in Int /\ sleep["stall"] <= D /\ sleep["stall"] >= -Jitter
<1>1. "stall" \in Timer
  BY DEF Timer
<1>2. /\ sleep["stall"] \in Int /\ semaphore["stall"] \in Nat /\ due["stall"] \in Nat
      /\ exec["stall"] \in {"wait", "task"}
  BY <1>1 DEF IInv, TypeOK
<1>3. InTime("stall") /\ StallInTime
  BY <1>1 DEF IInv
<1>4. D \in Nat /\ Latency \in Nat /\ Latency < D /\ Jitter \in Nat
      /\ Interval("stall") = D
  BY ConstantsOK, TimersAssumption
<1> QED
  BY <1>2, <1>3, <1>4 DEF Pending, InTime, StallInTime

(* The counts of a stall that has just begun.                              *)
LEMMA StallBegins ==
  ASSUME IInv, stalled' = 0, timed' = 0, UNCHANGED threadVars
  PROVE  StallCounted'
<1>1. Pending' = Pending /\ sleep' = sleep
  BY DEF Pending, threadVars
<1>2. Pending \in Nat /\ Pending <= 1 /\ (Pending = 1 => sleep["stall"] > 0)
      /\ sleep["stall"] \in Int /\ sleep["stall"] <= D
  BY PendingBounded
<1>3. D \in Nat /\ Jitter \in Nat
  BY ConstantsOK
<1>4. CASE Pending = 0
  <2>1. (timed' + Pending') * D = 0 /\ (timed' + Pending') * (D + Jitter) = 0
    BY <1>1, <1>3, <1>4
  <2> QED
    BY <1>1, <1>2, <1>3, <2>1 DEF StallCounted
<1>5. CASE Pending = 1
  <2>1. (timed' + Pending') * D = D /\ (timed' + Pending') * (D + Jitter) = D + Jitter
    BY <1>1, <1>3, <1>5
  <2> QED
    BY <1>1, <1>2, <1>3, <1>5, <2>1 DEF StallCounted
<1> QED
  BY <1>2, <1>4, <1>5

LEMMA ClientInv ==
  ASSUME IInv, Accept \/ Disconnect \/ OnStall \/ OnSegment
  PROVE  IInv'
<1>1. UNCHANGED threadVars
  BY DEF Accept, Disconnect, OnStall, OnSegment
<1>2. TypeOK'
  <2>1. TypeOK
    BY DEF IInv
  <2>2. is_stalling' \in BOOLEAN /\ started' \in BOOLEAN /\ connected' \in BOOLEAN
    BY <2>1 DEF TypeOK, Accept, Disconnect, OnStall, OnSegment
  <2>a. UNCHANGED <<stalled, timed>> \/ (stalled' = 0 /\ timed' = 0)
    BY DEF Accept, Disconnect, OnStall, OnSegment, stallVars
  <2>b. stalled \in Nat /\ timed \in Nat
    BY <2>1 DEF TypeOK
  <2>3. stalled' \in Nat /\ timed' \in Nat
    BY <2>a, <2>b
  <2> QED
    BY <1>1, <2>1, <2>2, <2>3 DEF TypeOK, threadVars
<1>3. (\A t \in Timer : InTime(t))' /\ StallInTime'
  BY <1>1 DEF IInv, InTime, StallInTime, Active, threadVars
<1>4. StallCounted'
  <2>1. CASE UNCHANGED <<is_stalling, stallVars>>
    BY <1>1, <2>1 DEF IInv, StallCounted, Pending, threadVars, stallVars
  <2>2. CASE stalled' = 0 /\ timed' = 0
    BY <1>1, <2>2, StallBegins
  <2>3. CASE is_stalling /\ UNCHANGED stallVars
    BY <1>1, <2>3 DEF IInv, StallCounted, Pending, threadVars, stallVars
  <2> QED
    BY <2>1, <2>2, <2>3 DEF Accept, Disconnect, OnStall, OnSegment
<1> QED
  BY <1>2, <1>3, <1>4 DEF IInv


-----------------------------------------------------------------------------
(* The threads of a timer                                                  *)

LEMMA Types ==
  ASSUME IInv, NEW t \in Timer
  PROVE  /\ sleep[t] \in Int /\ semaphore[t] \in Nat /\ due[t] \in Nat
         /\ exec[t] \in {"wait", "task"}
         /\ Interval(t) \in Nat /\ TaskTime(t) \in Nat /\ Interval(t) > 0
         /\ TaskTime(t) + Latency < Interval(t) /\ Latency \in Nat /\ Jitter \in Nat
         /\ InTime(t)
<1>1. sleep[t] \in Int /\ semaphore[t] \in Nat /\ due[t] \in Nat /\ exec[t] \in {"wait", "task"}
  BY DEF IInv, TypeOK
<1> QED
  BY <1>1, ConstantsOK DEF IInv

(* A step of one timer leaves the other as it is.                          *)
LEMMA OtherTimer ==
  ASSUME IInv, NEW u \in Timer,
         sleep'[u] = sleep[u], semaphore'[u] = semaphore[u], exec'[u] = exec[u], due'[u] = due[u]
  PROVE  InTime(u)'
BY DEF IInv, InTime, Active

LEMMA OtherThanStall ==
  ASSUME IInv, UNCHANGED <<is_stalling, stalled, timed>>,
         sleep'["stall"] = sleep["stall"], semaphore'["stall"] = semaphore["stall"],
         exec'["stall"] = exec["stall"], due'["stall"] = due["stall"]
  PROVE  StallInTime' /\ StallCounted'
BY DEF IInv, StallInTime, StallCounted, Pending

LEMMA StallConstants ==
  /\ "stall" \in Timer /\ Interval("stall") = D /\ TaskTime("stall") = 0
  /\ D \in Nat /\ D > 0 /\ Latency \in Nat /\ Jitter \in Nat /\ Latency < D
BY ConstantsOK, TimersAssumption DEF Timer

LEMMA SignalInv ==
  ASSUME IInv, NEW t \in Timer, Signal(t)
  PROVE  IInv'
<1> DEFINE n == IF Condition(t) THEN semaphore[t] + 1 ELSE semaphore[t]
<1>1. /\ sleep[t] <= 0 /\ sleep' = [sleep EXCEPT ![t] = Interval(t)]
      /\ semaphore' = [semaphore EXCEPT ![t] = n]
      /\ UNCHANGED <<exec, due>> /\ UNCHANGED <<is_stalling, started, connected>>
      /\ UNCHANGED <<stalled, timed>>
  BY DEF Signal, stallVars
<1>2. TypeOK
  BY DEF IInv
<1>3. n \in Nat /\ (n = semaphore[t] \/ n = semaphore[t] + 1)
  BY Types
<1> HIDE DEF n
<1>4. /\ sleep' \in [Timer -> Int] /\ semaphore' \in [Timer -> Nat]
      /\ sleep'[t] = Interval(t) /\ semaphore'[t] = n
      /\ \A u \in Timer : u # t => sleep'[u] = sleep[u] /\ semaphore'[u] = semaphore[u]
  <2>1. sleep \in [Timer -> Int] /\ semaphore \in [Timer -> Nat] /\ Interval(t) \in Int
    BY <1>2, Types DEF TypeOK
  <2> QED
    BY <1>1, <1>3, <2>1
<1>5. TypeOK'
  BY <1>1, <1>2, <1>4 DEF TypeOK
<1>6. semaphore[t] = 0
  BY <1>1, Types DEF InTime
<1>7. InTime(t)'
  <2>1. exec'[t] = exec[t] /\ due'[t] = due[t]
    BY <1>1
  <2> QED
    BY <1>3, <1>4, <1>6, <2>1, Types DEF InTime, Active
<1>8. ASSUME NEW u \in Timer PROVE InTime(u)'
  <2>1. CASE u = t
    BY <2>1, <1>7
  <2>2. CASE u # t
    BY <2>2, <1>1, <1>4, OtherTimer
  <2> QED
    BY <2>1, <2>2
<1>9. StallInTime' /\ StallCounted'
  <2>1. CASE t # "stall"
    BY <2>1, <1>1, <1>4, StallConstants, OtherThanStall
  <2>2. CASE t = "stall"
    <3>1. exec["stall"] = "wait" /\ due["stall"] <= Latency
      BY <2>2, <1>1, <1>6, Types, StallConstants DEF IInv, StallInTime, InTime
    <3>2. StallInTime'
      BY <3>1, <2>2, <1>1, <1>4, <1>6, Types, StallConstants DEF StallInTime
    <3>3. Pending = 0 /\ Pending' = n /\ n \in {0, 1}
      BY <3>1, <2>2, <1>1, <1>3, <1>4, <1>6 DEF Pending
    <3>4. ASSUME is_stalling PROVE n = 1
      BY <3>4, <2>2, <1>6, Types DEF n, Condition
    <3>5. ASSUME is_stalling
          PROVE  /\ (timed + 1) * D <= stalled + D + D
                 /\ stalled <= (timed + 1) * (D + Jitter)
      <4>1. timed \in Nat /\ stalled \in Nat /\ sleep["stall"] \in Int
            /\ sleep["stall"] <= 0 /\ sleep["stall"] >= -Jitter
        BY <1>1, <1>2, <2>2, Types DEF TypeOK, InTime
      <4>2. timed * D <= stalled + D /\ stalled <= timed * (D + Jitter) + D - sleep["stall"]
        <5>1. timed + Pending = timed
          BY <3>3, <4>1
        <5> QED
          BY <5>1, <3>5, <4>1, StallConstants DEF IInv, StallCounted
      <4>3. D + Jitter \in Int /\ D \in Int /\ Jitter \in Int
        BY StallConstants
      <4>4. (timed + 1) * D = timed * D + D /\ timed * D \in Int
        BY <4>1, <4>3, OneMore
      <4>5. (timed + 1) * (D + Jitter) = timed * (D + Jitter) + (D + Jitter)
            /\ timed * (D + Jitter) \in Int
        BY <4>1, <4>3, OneMore
      <4> DEFINE a == timed * D
                 b == timed * (D + Jitter)
      <4> HIDE DEF a, b
      <4>6. a \in Int /\ b \in Int /\ a <= stalled + D /\ b >= stalled - D + sleep["stall"]
        BY <4>1, <4>2, <4>3, <4>4, <4>5 DEF a, b
      <4>7. a + D <= stalled + D + D /\ stalled <= b + (D + Jitter)
        BY <4>1, <4>3, <4>6
      <4> QED
        BY <4>4, <4>5, <4>7 DEF a, b
    <3>6. StallCounted'
      <4> SUFFICES ASSUME is_stalling'
                   PROVE  /\ (timed' + Pending') * D
                               <= stalled' + D + (IF sleep'["stall"] > 0 THEN sleep'["stall"] ELSE 0)
                          /\ stalled' <= (timed' + Pending') * (D + Jitter) + D - sleep'["stall"]
        BY DEF StallCounted
      <4>1. is_stalling
        BY <1>1
      <4>2. Pending' = 1 /\ timed' = timed /\ stalled' = stalled /\ sleep'["stall"] = D
        BY <4>1, <3>3, <3>4, <1>1, <1>4, <2>2, StallConstants
      <4>3. (timed + 1) * (D + Jitter) \in Int /\ stalled \in Nat
        BY <1>2, StallConstants DEF TypeOK
      <4> QED
        BY <4>1, <4>2, <4>3, <3>5, StallConstants
    <3> QED
      BY <3>2, <3>6
  <2> QED
    BY <2>1, <2>2
<1> QED
  BY <1>5, <1>8, <1>9 DEF IInv


LEMMA TakeInv ==
  ASSUME IInv, NEW t \in Timer, Take(t)
  PROVE  IInv'
<1>1. /\ exec[t] = "wait" /\ semaphore[t] > 0
      /\ semaphore' = [semaphore EXCEPT ![t] = @ - 1]
      /\ exec' = [exec EXCEPT ![t] = "task"] /\ due' = [due EXCEPT ![t] = TaskTime(t)]
      /\ UNCHANGED <<is_stalling, started, connected>> /\ UNCHANGED <<sleep, stalled, timed>>
  BY DEF Take, stallVars
<1>2. TypeOK
  BY DEF IInv
<1>3. semaphore[t] = 1
  BY <1>1, Types DEF InTime
<1>4. /\ semaphore' \in [Timer -> Nat] /\ exec' \in [Timer -> {"wait", "task"}]
      /\ due' \in [Timer -> Nat]
      /\ semaphore'[t] = 0 /\ exec'[t] = "task" /\ due'[t] = TaskTime(t)
      /\ \A u \in Timer : u # t => /\ semaphore'[u] = semaphore[u] /\ exec'[u] = exec[u]
                                   /\ due'[u] = due[u]
  <2>1. /\ semaphore \in [Timer -> Nat] /\ exec \in [Timer -> {"wait", "task"}]
        /\ due \in [Timer -> Nat] /\ TaskTime(t) \in Nat
    BY <1>2, Types DEF TypeOK
  <2> QED
    BY <1>1, <1>3, <2>1
<1>5. TypeOK'
  BY <1>1, <1>2, <1>4 DEF TypeOK
<1>6. InTime(t)'
  BY <1>1, <1>4, Types DEF InTime, Active
<1>7. ASSUME NEW u \in Timer PROVE InTime(u)'
  BY <1>1, <1>4, <1>6, OtherTimer
<1>8. StallInTime' /\ StallCounted'
  <2>1. CASE t # "stall"
    BY <2>1, <1>1, <1>4, StallConstants, OtherThanStall
  <2>2. CASE t = "stall"
    <3>1. Pending' = Pending
      BY <2>2, <1>1, <1>3, <1>4 DEF Pending
    <3>2. StallInTime'
      BY <2>2, <1>1, <1>3, <1>4, Types, StallConstants DEF IInv, StallInTime
    <3> QED
      BY <3>1, <3>2, <1>1 DEF IInv, StallCounted
  <2> QED
    BY <2>1, <2>2
<1> QED
  BY <1>5, <1>7, <1>8 DEF IInv

(* In a stall the element moves from the pending ones to the counted ones; *)
(* out of one it is behind the segment.                                    *)
LEMMA DoneInv ==
  ASSUME IInv, NEW t \in Timer, Done(t)
  PROVE  IInv'
<1>1. /\ exec[t] = "task" /\ exec' = [exec EXCEPT ![t] = "wait"]
      /\ due' = [due EXCEPT ![t] = Latency]
      /\ UNCHANGED <<is_stalling, started, connected>> /\ UNCHANGED <<sleep, semaphore, stalled>>
      /\ timed' = IF t = "stall" /\ is_stalling THEN timed + 1 ELSE timed
  BY DEF Done
<1>2. TypeOK
  BY DEF IInv
<1>3. timed' \in Nat /\ (is_stalling /\ t = "stall" => timed' = timed + 1)
      /\ (t # "stall" => timed' = timed)
  BY <1>1, <1>2 DEF TypeOK
<1>4. /\ exec' \in [Timer -> {"wait", "task"}] /\ due' \in [Timer -> Nat]
      /\ exec'[t] = "wait" /\ due'[t] = Latency
      /\ \A u \in Timer : u # t => exec'[u] = exec[u] /\ due'[u] = due[u]
  <2>1. exec \in [Timer -> {"wait", "task"}] /\ due \in [Timer -> Nat] /\ Latency \in Nat
    BY <1>2, Types DEF TypeOK
  <2> QED
    BY <1>1, <2>1
<1>5. TypeOK'
  BY <1>1, <1>2, <1>3, <1>4 DEF TypeOK
<1>6. InTime(t)'
  <2>1. sleep'[t] = sleep[t] /\ semaphore'[t] = semaphore[t]
    BY <1>1
  <2> QED
    BY <1>1, <1>4, <2>1, Types DEF InTime, Active
<1>7. ASSUME NEW u \in Timer PROVE InTime(u)'
  BY <1>1, <1>4, <1>6, OtherTimer
<1>8. StallInTime' /\ StallCounted'
  <2>1. CASE t # "stall"
    BY <2>1, <1>1, <1>3, <1>4, StallConstants, OtherThanStall
  <2>2. CASE t = "stall"
    <3>1. semaphore["stall"] = 0
      BY <2>2, <1>1 DEF IInv, StallInTime
    <3>2. Pending = 1 /\ Pending' = 0
      BY <2>2, <3>1, <1>1, <1>4 DEF Pending
    <3>3. StallInTime'
      BY <2>2, <3>1, <1>1, <1>4 DEF StallInTime
    <3>4. ASSUME is_stalling PROVE timed' + Pending' = timed + Pending
      BY <3>2, <3>4, <2>2, <1>2, <1>3 DEF TypeOK
    <3>5. StallCounted'
      BY <3>4, <1>1 DEF IInv, StallCounted
    <3> QED
      BY <3>3, <3>5
  <2> QED
    BY <2>1, <2>2
<1> QED
  BY <1>5, <1>7, <1>8 DEF IInv

(* Time passes for the stall and for its counts alike.                     *)
LEMMA TickInv ==
  ASSUME IInv, Tick
  PROVE  IInv'
<1>1. /\ \A t \in Timer : sleep[t] > -Jitter /\ (Active(t) => due[t] > 0)
      /\ sleep' = [t \in Timer |-> sleep[t] - 1]
      /\ due' = [t \in Timer |-> IF Active(t) THEN due[t] - 1 ELSE due[t]]
      /\ UNCHANGED <<is_stalling, started, connected>> /\ UNCHANGED <<semaphore, exec, timed>>
      /\ stalled' = IF is_stalling THEN stalled + 1 ELSE stalled
  BY DEF Tick
<1>2. TypeOK
  BY DEF IInv
<1>3. stalled' \in Nat /\ (is_stalling => stalled' = stalled + 1)
  BY <1>1, <1>2 DEF TypeOK
<1>4. ASSUME NEW t \in Timer
      PROVE  /\ sleep'[t] = sleep[t] - 1 /\ sleep'[t] >= -Jitter
             /\ IF Active(t) THEN due'[t] = due[t] - 1 /\ due[t] > 0 ELSE due'[t] = due[t]
             /\ due'[t] \in Nat /\ sleep'[t] \in Int
             /\ semaphore'[t] = semaphore[t] /\ exec'[t] = exec[t]
  BY <1>1, Types
<1>5. TypeOK'
  <2>1. sleep' \in [Timer -> Int] /\ due' \in [Timer -> Nat]
    BY <1>1, <1>4
  <2> QED
    BY <1>1, <1>2, <1>3, <2>1 DEF TypeOK
<1>6. ASSUME NEW t \in Timer PROVE InTime(t)'
  <2>1. CASE Active(t)
    BY <2>1, <1>4, Types DEF InTime, Active
  <2>2. CASE ~Active(t)
    BY <2>2, <1>4, Types DEF InTime, Active
  <2> QED
    BY <2>1, <2>2
<1>7. "stall" \in Timer /\ D \in Nat /\ Jitter \in Nat /\ Latency \in Nat /\ TaskTime("stall") = 0
  BY StallConstants
<1>8. exec["stall"] # "task"
  BY <1>1, <1>7, Types DEF Active, InTime
<1>9. StallInTime'
  <2>1. /\ exec'["stall"] = exec["stall"] /\ semaphore'["stall"] = semaphore["stall"]
        /\ sleep["stall"] \in Int /\ due["stall"] \in Nat
        /\ sleep'["stall"] = sleep["stall"] - 1
        /\ semaphore["stall"] = 1 => due'["stall"] = due["stall"] - 1
    BY <1>4, <1>7, Types DEF Active
  <2> QED
    BY <2>1, <1>7, <1>8 DEF IInv, StallInTime
<1>10. StallCounted'
  <2> SUFFICES ASSUME is_stalling'
               PROVE  /\ (timed' + Pending') * D
                           <= stalled' + D + (IF sleep'["stall"] > 0 THEN sleep'["stall"] ELSE 0)
                      /\ stalled' <= (timed' + Pending') * (D + Jitter) + D - sleep'["stall"]
    BY DEF StallCounted
  <2>1. is_stalling
    BY <1>1
  <2>2. timed' + Pending' = timed + Pending /\ stalled' = stalled + 1 /\ stalled \in Nat
        /\ sleep'["stall"] = sleep["stall"] - 1 /\ sleep["stall"] \in Int
    BY <2>1, <1>1, <1>2, <1>3, <1>4, <1>7, Types DEF Pending, TypeOK
  <2> DEFINE a == (timed + Pending) * D
             b == (timed + Pending) * (D + Jitter)
  <2>3. a \in Int /\ b \in Int
    BY PendingBounded, <1>2, <1>7, OneMore DEF TypeOK
  <2>4. a <= stalled + D + (IF sleep["stall"] > 0 THEN sleep["stall"] ELSE 0)
        /\ stalled <= b + D - sleep["stall"]
    BY <2>1 DEF IInv, StallCounted
  <2>5. a = (timed' + Pending') * D /\ b = (timed' + Pending') * (D + Jitter)
    BY <2>2
  <2> HIDE DEF a, b
  <2>6. a <= stalled' + D + (IF sleep'["stall"] > 0 THEN sleep'["stall"] ELSE 0)
        /\ stalled' <= b + D - sleep'["stall"]
    BY <2>2, <2>3, <2>4, <1>7
  <2> QED
    BY <2>5, <2>6
<1> QED
  BY <1>5, <1>6, <1>9, <1>10 DEF IInv

-----------------------------------------------------------------------------
(* The inductive invariant of the two timers: every post is served before  *)
(* the next one, and the stall under way is counted period by period.      *)
THEOREM TimersInductive == Spec => []IInv
<1>1. IInv /\ [Next]_vars => IInv'
  <2> SUFFICES ASSUME IInv, [Next]_vars PROVE IInv'
    OBVIOUS
  <2>1. CASE Accept \/ Disconnect \/ OnStall \/ OnSegment
    BY <2>1, ClientInv
  <2>2. ASSUME NEW t \in Timer, Signal(t) \/ Take(t) \/ Done(t) PROVE IInv'
    BY <2>2, SignalInv, TakeInv, DoneInv
  <2>3. CASE Tick
    BY <2>3, TickInv
  <2>4. CASE UNCHANGED vars
    BY <2>4 DEF vars, threadVars, stallVars, IInv, TypeOK, InTime, Active, StallInTime,
                StallCounted, Pending
  <2> QED
    BY <2>1, <2>2, <2>3, <2>4 DEF Next
<1> QED
  BY <1>1, InitInv, PTL DEF Spec

(* The variables of the two timers keep their types.                       *)
THEOREM TypeCorrect == Spec => []TypeOK
<1>1. IInv => TypeOK
  BY DEF IInv
<1> QED
  BY <1>1, TimersInductive, PTL

(* As long as evaluations end within their period, whatever it is, and the *)
(* thread is scheduled in time, no evaluation waits for another.           *)
THEOREM EvaluationsKeepUp == Spec => []NoDivergence
<1>1. IInv => NoDivergence
  <2>1. "eval" \in Timer
    BY DEF Timer
  <2> QED
    BY <2>1, Types DEF NoDivergence, InTime
<1> QED
  BY <1>1, TimersInductive, PTL

(* At most one stall element lands behind the segment that ends its stall. *)
THEOREM OneElementBehind == Spec => []AtMostOneBehind
<1>1. IInv => AtMostOneBehind
  BY PendingBounded DEF AtMostOneBehind, Pending
<1> QED
  BY <1>1, TimersInductive, PTL

(* The stall elements measure a stall of any length, a client that is away *)
(* included, to within two periods.                                        *)
THEOREM StallsAreMeasured == Spec => []StallMeasured
<1>1. ASSUME IInv, is_stalling
      PROVE  /\ timed * D <= stalled + 2 * D
             /\ stalled <= (timed + 1) * (D + Jitter) + Latency
  <2>1. /\ Pending \in {0, 1} /\ sleep["stall"] \in Int /\ sleep["stall"] <= D
        /\ sleep["stall"] >= -Jitter
    BY <1>1, PendingBounded
  <2>2. D \in Nat /\ Jitter \in Nat /\ Latency \in Nat /\ D + Jitter \in Int /\ D \in Int
    BY StallConstants
  <2>3. timed \in Nat /\ stalled \in Nat
    BY <1>1 DEF IInv, TypeOK
  <2> DEFINE a == timed * D
             b == timed * (D + Jitter)
  <2>4. a \in Int /\ (timed + 1) * D = a + D
    BY <2>2, <2>3, OneMore
  <2>5. b \in Int /\ (timed + 1) * (D + Jitter) = b + (D + Jitter)
    BY <2>2, <2>3, OneMore
  <2>6. CASE Pending = 0
    <3>1. timed + Pending = timed
      BY <2>3, <2>6
    <3>2. a <= stalled + D + (IF sleep["stall"] > 0 THEN sleep["stall"] ELSE 0)
          /\ stalled <= b + D - sleep["stall"]
      BY <1>1, <3>1 DEF IInv, StallCounted
    <3> HIDE DEF a, b
    <3>3. a <= stalled + 2 * D /\ stalled <= b + (D + Jitter) + Latency
      BY <2>1, <2>2, <2>3, <2>4, <2>5, <3>2
    <3> QED
      BY <2>5, <3>3 DEF a
  <2>7. CASE Pending = 1
    <3>1. timed + Pending = timed + 1
      BY <2>7
    <3>2. a + D <= stalled + D + (IF sleep["stall"] > 0 THEN sleep["stall"] ELSE 0)
          /\ stalled <= b + (D + Jitter) + D - sleep["stall"]
      BY <1>1, <2>4, <2>5, <3>1 DEF IInv, StallCounted
    <3>3. D - sleep["stall"] <= Latency
      <4>1. "stall" \in Timer
        BY DEF Timer
      <4>2. due["stall"] \in Nat /\ semaphore["stall"] \in Nat
        BY <1>1, <4>1, Types
      <4> QED
        BY <1>1, <2>1, <2>2, <2>7, <4>2 DEF IInv, StallInTime, Pending
    <3> HIDE DEF a, b
    <3>4. a <= stalled + 2 * D /\ stalled <= b + (D + Jitter) + Latency
      BY <2>1, <2>2, <2>3, <2>4, <2>5, <3>2, <3>3
    <3> QED
      BY <2>5, <3>4 DEF a
  <2> QED
    BY <2>1, <2>6, <2>7
<1>2. IInv => StallMeasured
  BY <1>1 DEF StallMeasured
<1> QED
  BY <1>2, TimersInductive, PTL

=============================================================================
