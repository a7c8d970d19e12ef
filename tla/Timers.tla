------------------------------- MODULE Timers -------------------------------
(***************************************************************************)
(* The two timers of main.c in time.  A timer (timer.c) is a signalling    *)
(* thread, which looks at a condition every Interval and posts a semaphore *)
(* if it holds, and an executing thread, which runs the task once for      *)
(* every post.  The stall timer adds one stall element for each period of  *)
(* a stall; the evaluation timer evaluates the window and moves it.        *)
(*                                                                         *)
(* Time passes in units.  A sleep lasts its interval or, as the signalling *)
(* thread has to be scheduled, up to Jitter longer, from the moment it     *)
(* looked at the condition.  An executing thread with something to do is   *)
(* scheduled within Latency, and an evaluation takes at most EvalTime.     *)
(* The client's messages come at any moment.                               *)
(***************************************************************************)
EXTENDS Integers

CONSTANTS
  D,         (* the segment duration                                  *)
  P,         (* the window step                                       *)
  EvalTime,  (* the longest evaluation                                *)
  Latency,
  Jitter,
  MaxStall   (* bound: the length of a stall                          *)

(* The last two: tasks take less than their period.  That is what main.c   *)
(* warns about when an evaluation has taken more (main.c:115-122), with    *)
(* the time the thread waits for a processor counted.                      *)
ASSUME TimersAssumption ==
  /\ {D, P} \subseteq Nat \ {0}
  /\ {EvalTime, Latency, Jitter, MaxStall} \subseteq Nat
  /\ EvalTime + Latency < P * D
  /\ Latency < D

VARIABLES
  is_stalling, started,  (* the conditions                                 *)
  connected,   (* there is a client                                        *)
  sleep,       (* until the signalling thread looks again; 0 or less: now  *)
  semaphore,
  exec,        (* the executing thread waits, or is in the task            *)
  due,         (* in how much time, at most, the executing thread is to    *)
               (* take a post, or to finish its task                       *)
  stalled,     (* how long the stall has lasted (history)                  *)
  timed        (* stall elements the timer has added in it (history)       *)

threadVars == <<sleep, semaphore, exec, due>>
stallVars == <<stalled, timed>>
vars == <<is_stalling, started, connected, threadVars, stallVars>>

Timer == {"stall", "eval"}

Interval(t) == IF t = "stall" THEN D ELSE P * D
TaskTime(t) == IF t = "stall" THEN 0 ELSE EvalTime
Condition(t) == IF t = "stall" THEN is_stalling ELSE started

Init ==
  /\ is_stalling = FALSE /\ started = FALSE /\ connected = FALSE
  /\ sleep = [t \in Timer |-> 0]
  /\ semaphore = [t \in Timer |-> 0]
  /\ exec = [t \in Timer |-> "wait"]
  /\ due = [t \in Timer |-> Latency]
  /\ stalled = 0 /\ timed = 0

-----------------------------------------------------------------------------
(* The client                                                              *)

Accept ==
  /\ ~connected /\ connected' = TRUE
  /\ UNCHANGED <<is_stalling, started, threadVars, stallVars>>

(* onclose resets nothing.                                                 *)
Disconnect ==
  /\ connected /\ connected' = FALSE
  /\ UNCHANGED <<is_stalling, started, threadVars, stallVars>>

(* The element that the message itself adds is not counted in timed.       *)
OnStall ==
  /\ connected
  /\ is_stalling' = TRUE
  /\ IF is_stalling THEN UNCHANGED stallVars ELSE stalled' = 0 /\ timed' = 0
  /\ UNCHANGED <<started, connected, threadVars>>

(* The segment numbered N starts the evaluations, once and for all.        *)
OnSegment ==
  /\ connected
  /\ is_stalling' = FALSE
  /\ started' \in {started, TRUE}
  /\ stalled' = 0 /\ timed' = 0
  /\ UNCHANGED <<connected, threadVars>>

-----------------------------------------------------------------------------
(* The threads of timer t                                                  *)

Active(t) == exec[t] = "task" \/ semaphore[t] > 0

(* a mutant: sleeps a unit instead of the interval                         *)
SignalTooOften(t) ==
  /\ sleep[t] <= 0
  /\ sleep' = [sleep EXCEPT ![t] = 1]
  /\ semaphore' = [semaphore EXCEPT ![t] = IF Condition(t) THEN @ + 1 ELSE @]
  /\ UNCHANGED <<is_stalling, started, connected, exec, due, stallVars>>

Signal(t) ==
  /\ sleep[t] <= 0
  /\ sleep' = [sleep EXCEPT ![t] = Interval(t)]
  /\ semaphore' = [semaphore EXCEPT ![t] = IF Condition(t) THEN @ + 1 ELSE @]
  /\ UNCHANGED <<is_stalling, started, connected, exec, due, stallVars>>

(* a mutant: looks at the semaphore and leaves the post there              *)
TakeKeepsPost(t) ==
  /\ exec[t] = "wait" /\ semaphore[t] > 0
  /\ exec' = [exec EXCEPT ![t] = "task"]
  /\ due' = [due EXCEPT ![t] = TaskTime(t)]
  /\ UNCHANGED <<is_stalling, started, connected, sleep, semaphore, stallVars>>

(* sem_wait                                                                *)
Take(t) ==
  /\ exec[t] = "wait" /\ semaphore[t] > 0
  /\ semaphore' = [semaphore EXCEPT ![t] = @ - 1]
  /\ exec' = [exec EXCEPT ![t] = "task"]
  /\ due' = [due EXCEPT ![t] = TaskTime(t)]
  /\ UNCHANGED <<is_stalling, started, connected, sleep, stallVars>>

(* The task is done: stalling_task has added its element, even if the      *)
(* stall is over by now, or eval_task has moved the window.                *)
Done(t) ==
  /\ exec[t] = "task"
  /\ exec' = [exec EXCEPT ![t] = "wait"]
  /\ due' = [due EXCEPT ![t] = Latency]
  /\ timed' = IF t = "stall" /\ is_stalling THEN timed + 1 ELSE timed
  /\ UNCHANGED <<is_stalling, started, connected, sleep, semaphore, stalled>>

(* Time passes while nobody is late.                                       *)
Tick ==
  /\ \A t \in Timer : sleep[t] > -Jitter /\ (Active(t) => due[t] > 0)
  /\ is_stalling => stalled < MaxStall
  /\ sleep' = [t \in Timer |-> sleep[t] - 1]
  /\ due' = [t \in Timer |-> IF Active(t) THEN due[t] - 1 ELSE due[t]]
  /\ stalled' = IF is_stalling THEN stalled + 1 ELSE stalled
  /\ UNCHANGED <<is_stalling, started, connected, semaphore, exec, timed>>

Next ==
  \/ Accept \/ Disconnect \/ OnStall \/ OnSegment
  \/ \E t \in Timer : Signal(t) \/ Take(t) \/ Done(t)
  \/ Tick

Spec == Init /\ [][Next]_vars

-----------------------------------------------------------------------------
(* Properties                                                              *)

TypeOK ==
  /\ is_stalling \in BOOLEAN /\ started \in BOOLEAN /\ connected \in BOOLEAN
  /\ sleep \in [Timer -> Int]
  /\ semaphore \in [Timer -> Nat]
  /\ exec \in [Timer -> {"wait", "task"}]
  /\ due \in [Timer -> Nat]
  /\ stalled \in Nat /\ timed \in Nat

(* The stall elements that are still to be added when a segment ends the   *)
(* stall land behind it (main.c:191-197): there is at most one.            *)
AtMostOneBehind ==
  semaphore["stall"] + (IF exec["stall"] = "task" THEN 1 ELSE 0) <= 1

(* The evaluations keep up with the stream: when one is asked for, the one *)
(* before has begun, so the system does not diverge (main.c:115-122).      *)
NoDivergence == semaphore["eval"] <= 1

(* The stall the server measures is as long as the stall was: neither more *)
(* than two periods longer (one for a post of the stall before, one for    *)
(* the period under way) nor more than a late period shorter.  The time a  *)
(* client is away counts as a part of its stall.                           *)
StallMeasured ==
  is_stalling =>
    /\ timed * D <= stalled + 2 * D
    /\ stalled <= (timed + 1) * (D + Jitter) + Latency

=============================================================================
