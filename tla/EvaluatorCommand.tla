-------------------------- MODULE EvaluatorCommand --------------------------
(***************************************************************************)
(* From the configuration to the evaluation: how main.c takes its values   *)
(* from the command line or a file, how evaluation.c makes a command of a  *)
(* window or of a segment in arrays of fixed size, and how evaluate.py     *)
(* reads the arguments that the shell has split the command into.          *)
(*                                                                         *)
(* Of a text its length is kept; a word is known by the pieces it is put   *)
(* together from.  A window is read slot by slot.  The port is left out.   *)
(***************************************************************************)
EXTENDS Integers, FiniteSets, Sequences

CONSTANTS
  Numbers,      (* the numbers a configuration may hold: int              *)
  Digits,       (* lengths of the segment numbers: at most 10             *)
  CommandSize,  (* of the array for the command: 1024                     *)
  ListSize      (* of the array for the stalls: 256                       *)

ASSUME CommandAssumption ==
  /\ Numbers \subseteq Int
  /\ \A n \in Numbers : n <= 2147483647 /\ (n < 0 => n + 2147483647 >= 0)
  /\ Digits \subseteq 1 .. 10
  /\ CommandSize \in Nat /\ ListSize \in Nat

VARIABLES
  pc,
  given,   (* the values as given, and where, until the first command       *)
           (* (history)                                                     *)
  N, p, d, one_step, mode,    (* locals of main, handed to evaluation_data  *)
  j,       (* the slot the scan is at                                       *)
  files, command,   (* segments in the command, its length                  *)
  start, duration,  (* of the stall under way: 0 if there is none           *)
  stalls, list,     (* the finished ones, and the length of their text      *)
  words, caller,    (* the arguments of evaluate.py, and who gave them      *)
  arg, got          (* where evaluate.py is in them, and what it has read   *)

settings == <<N, p, d, one_step, mode>>
confVars == <<given, settings>>
scanVars == <<j, files, command, start, duration, stalls, list>>
callVars == <<words, caller, arg, got>>
vars == <<pc, confVars, scanVars, callVars>>

Fields == {"N", "p", "d", "one_step", "mode"}
Nothing == [by |-> "nobody"]

Init ==
  /\ pc = "boot" /\ given = Nothing
  /\ N = 0 /\ p = 0 /\ d = 0 /\ one_step = 0 /\ mode = 0
  /\ j = 0 /\ files = 0 /\ command = 0 /\ start = 0 /\ duration = 0 /\ stalls = 0 /\ list = 0
  /\ words = <<>> /\ caller = "nobody" /\ arg = 1 /\ got = [files |-> 0, stalls |-> 0, mode |-> 1]

-----------------------------------------------------------------------------
(* main                                                                    *)

uint8(n) == n % 256

(* A member of the configuration file and its valueint: a number has its   *)
(* own, `true' has 1, any other value 0.                                   *)
Members ==
  [is : {"number"}, value : Numbers] \union [is : {"true"}, value : {1}]
    \union [is : {"missing", "other"}, value : {0}]

IsNumber(m) == m.is = "number"

(* There is no such file: it is read all the same.                         *)
NoFile ==
  /\ pc = "boot" /\ pc' = "crashed"
  /\ UNCHANGED <<confVars, scanVars, callVars>>

(* The file does not parse, or arguments are missing.                      *)
ConfigRefused ==
  /\ pc = "boot" /\ pc' = "exit"
  /\ UNCHANGED <<confVars, scanVars, callVars>>

(* The guards of p and d test the type of each other's member, and the     *)
(* value through a pointer that is NULL when a member is missing.          *)
ConfigCrashes(conf) ==
  \/ IsNumber(conf.p) /\ conf.d.is = "missing"
  \/ IsNumber(conf.d) /\ conf.p.is = "missing"

Crash ==
  /\ pc = "boot"
  /\ \E conf \in [Fields -> Members] :
       /\ ConfigCrashes(conf)
       /\ given' = [by |-> "file", value |-> conf]
  /\ pc' = "crashed"
  /\ UNCHANGED <<N, p, d, one_step, mode, scanVars, callVars>>

Positive(m) == IsNumber(m) /\ m.value > 0

(* a mutant: the values are swapped along with the guards                  *)
ReadConfigSwapped ==
  /\ pc = "boot"
  /\ \E conf \in [Fields -> Members] :
       /\ ~ConfigCrashes(conf)
       /\ given' = [by |-> "file", value |-> conf]
       /\ N' = IF Positive(conf.N) THEN uint8(conf.N.value) ELSE 0
       /\ d' = IF IsNumber(conf.p) /\ conf.d.value > 0 THEN uint8(conf.p.value) ELSE 0
       /\ p' = IF IsNumber(conf.d) /\ conf.p.value > 0 THEN uint8(conf.d.value) ELSE 0
       /\ one_step' = IF IsNumber(conf.one_step) THEN uint8(conf.one_step.value) ELSE 0
       /\ mode' = IF IsNumber(conf.mode) THEN conf.mode.value ELSE 0
  /\ pc' = "up"
  /\ UNCHANGED <<scanVars, callVars>>

ReadConfig ==
  /\ pc = "boot"
  /\ \E conf \in [Fields -> Members] :
       /\ ~ConfigCrashes(conf)
       /\ given' = [by |-> "file", value |-> conf]
       /\ N' = IF Positive(conf.N) THEN uint8(conf.N.value) ELSE 0
       /\ d' = IF IsNumber(conf.p) /\ conf.d.value > 0 THEN uint8(conf.d.value) ELSE 0
       /\ p' = IF IsNumber(conf.d) /\ conf.p.value > 0 THEN uint8(conf.p.value) ELSE 0
       /\ one_step' = IF IsNumber(conf.one_step) THEN uint8(conf.one_step.value) ELSE 0
       /\ mode' = IF IsNumber(conf.mode) THEN conf.mode.value ELSE 0
  /\ pc' = "up"
  /\ UNCHANGED <<scanVars, callVars>>

(* Only here is the mode checked.                                          *)
ReadArguments ==
  /\ pc = "boot"
  /\ \E conf \in [Fields -> Numbers] :
       /\ given' = [by |-> "arguments", value |-> conf]
       /\ N' = uint8(conf.N) /\ p' = uint8(conf.p) /\ d' = uint8(conf.d)
       /\ one_step' = uint8(conf.one_step)
       /\ mode' = IF conf.mode \in 0 .. 3 THEN conf.mode ELSE 0
  /\ pc' = "up"
  /\ UNCHANGED <<scanVars, callVars>>

-----------------------------------------------------------------------------
(* generate_evaluation_command                                             *)

(* %d of a number of 32 bits                                               *)
Length(n) ==
  IF n < 10 THEN 1 ELSE IF n < 100 THEN 2 ELSE IF n < 1000 THEN 3
  ELSE IF n < 10000 THEN 4 ELSE IF n < 100000 THEN 5 ELSE IF n < 1000000 THEN 6
  ELSE IF n < 10000000 THEN 7 ELSE IF n < 100000000 THEN 8 ELSE IF n < 1000000000 THEN 9
  ELSE 10

LengthOfMode == IF mode < 0 THEN 1 + Length(0 - mode) ELSE Length(mode)

ScanBegins ==
  /\ pc = "up" /\ one_step = 0
  /\ pc' = "scan" /\ j' = 0 /\ files' = 0 /\ stalls' = 0 /\ start' = 0 /\ duration' = 0
  /\ command' = 20    (* python3 evaluate.py   *)
  /\ list' = 2        (* '[                    *)
  /\ given' = Nothing
  /\ UNCHANGED <<settings, callVars>>

Scan == pc = "scan" /\ j < N /\ j' = j + 1

ScanEmpty ==
  /\ Scan
  /\ UNCHANGED <<pc, confVars, files, command, start, duration, stalls, list, callVars>>

ScanStall ==
  /\ Scan
  /\ start' = IF start = 0 THEN j + 1 ELSE start
  /\ duration' = IF start = 0 THEN d ELSE duration + d
  /\ UNCHANGED <<pc, confVars, files, command, stalls, list, callVars>>

(* The text of a stall: [start, duration] and a comma, which the last one  *)
(* has as well, for the array goes on behind it.                           *)
StallText == IF start = 0 THEN 0 ELSE 6 + Length(start) + Length(duration)

(* a mutant: a number may take all the room of an int                      *)
ScanSegmentWide ==
  /\ Scan
  /\ files' = files + 1 /\ command' = command + 23 + 11
  /\ list' = list + StallText
  /\ stalls' = IF start = 0 THEN stalls ELSE stalls + 1
  /\ start' = 0 /\ duration' = 0
  /\ UNCHANGED <<pc, confVars, callVars>>

(* ./segments/segment-%d.ts and a blank                                    *)
ScanSegment ==
  /\ Scan
  /\ files' = files + 1
  /\ \E digits \in Digits : command' = command + 23 + digits
  /\ list' = list + StallText
  /\ stalls' = IF start = 0 THEN stalls ELSE stalls + 1
  /\ start' = 0 /\ duration' = 0
  /\ UNCHANGED <<pc, confVars, callVars>>

(* The pieces of a command; blank: one follows.                            *)
Piece(name, blank) == [name |-> name, blank |-> blank]
File == Piece("file", TRUE)

(* The shell splits the command at blanks.                                 *)
Split(pieces) ==
  LET ends == {k \in DOMAIN pieces : pieces[k].blank \/ k = Len(pieces)}
      last(n) == CHOOSE k \in ends : Cardinality({m \in ends : m <= k}) = n
      first(n) == IF n = 1 THEN 1 ELSE last(n - 1) + 1
      word(n) == SubSeq(pieces, first(n), last(n))
  IN [n \in 1 .. Cardinality(ends) |-> [k \in DOMAIN word(n) |-> word(n)[k].name]]

CommandOf(n) ==
  [k \in 1 .. n |-> File]
    \o <<Piece("-s", TRUE), Piece("stalls", FALSE), Piece("-m", TRUE), Piece("mode", FALSE)>>

Called(who, pieces) == words' = Split(pieces) /\ caller' = who /\ arg' = 1
Read == got' = [files |-> 0, stalls |-> 0, mode |-> 1]

ScanEnds ==
  /\ pc = "scan" /\ j = N
  /\ IF files = 0 THEN pc' = "up" /\ UNCHANGED <<command, stalls, list, callVars>>
     ELSE /\ pc' = "evaluate"
          /\ stalls' = IF start = 0 THEN stalls ELSE stalls + 1
          /\ list' = list + StallText + 2
          /\ command' = command + 3 + list' + 3 + LengthOfMode
          /\ Called("server", CommandOf(files)) /\ Read
  /\ UNCHANGED <<confVars, j, files, start, duration>>

(* evaluate_segment: the mode is appended to the command when its process  *)
(* has already run.                                                        *)
EvaluateSegment ==
  /\ pc = "up" /\ one_step # 0
  /\ Called("server", <<File>>) /\ Read
  /\ \E digits \in Digits : command' = 20 + 23 + digits + 3 + LengthOfMode
  /\ pc' = "evaluate" /\ given' = Nothing
  /\ UNCHANGED <<settings, j, files, start, duration, stalls, list>>

(* Whoever follows the usage message of evaluate.py; no file is an error.  *)
ByHand ==
  /\ pc = "up"
  /\ \E n \in 0 .. 1, bare \in BOOLEAN, last \in {"-m", "mode"} :
       Called("user", [k \in 1 .. n |-> File]
                        \o (IF bare THEN <<>> ELSE <<Piece("-s", TRUE), Piece("stalls", TRUE)>>)
                        \o <<Piece("-m", TRUE)>>
                        \o (IF last = "-m" THEN <<>> ELSE <<Piece("mode", FALSE)>>))
  /\ Read /\ pc' = "evaluate" /\ given' = Nothing
  /\ UNCHANGED <<settings, scanVars>>

-----------------------------------------------------------------------------
(* evaluate.py                                                             *)

Argument(k) == IF k <= Len(words) THEN words[k] ELSE <<>>
Parsing(flag) == pc = "evaluate" /\ arg <= Len(words) /\ (Argument(arg) = <<"-s">>) = (flag = "-s")
                   /\ (Argument(arg) = <<"-m">>) = (flag = "-m")

Reject ==
  /\ pc' = "rejected"
  /\ UNCHANGED <<confVars, scanVars, callVars>>

ParseStalls ==
  /\ Parsing("-s") /\ Argument(arg + 1) = <<"stalls">>
  /\ got' = [got EXCEPT !.stalls = stalls] /\ arg' = arg + 2
  /\ UNCHANGED <<pc, confVars, scanVars, words, caller>>

StallsInvalid == Parsing("-s") /\ Argument(arg + 1) # <<"stalls">> /\ Reject

ParseMode ==
  /\ Parsing("-m") /\ Argument(arg + 1) = <<"mode">>
  /\ got' = [got EXCEPT !.mode = mode] /\ arg' = arg + 2
  /\ UNCHANGED <<pc, confVars, scanVars, words, caller>>

ModeInvalid == Parsing("-m") /\ Argument(arg + 1) # <<"mode">> /\ Reject

ParseFile ==
  /\ Parsing("file")
  /\ got' = [got EXCEPT !.files = @ + 1] /\ arg' = arg + 1
  /\ UNCHANGED <<pc, confVars, scanVars, words, caller>>

NoFiles == pc = "evaluate" /\ arg > Len(words) /\ got.files = 0 /\ Reject

(* The P.1203 library evaluates what was read.                             *)
Evaluate ==
  /\ pc = "evaluate" /\ arg > Len(words) /\ got.files > 0
  /\ pc' = "evaluated"
  /\ UNCHANGED <<confVars, scanVars, callVars>>

(* The answer, or what was printed instead of one, has been read.          *)
Return ==
  /\ pc \in {"rejected", "evaluated"}
  /\ pc' = "up"
  /\ UNCHANGED <<confVars, scanVars, callVars>>

Next ==
  \/ NoFile \/ ConfigRefused \/ Crash \/ ReadConfig \/ ReadArguments
  \/ ScanBegins \/ ScanEmpty \/ ScanStall \/ ScanSegment \/ ScanEnds
  \/ EvaluateSegment \/ ByHand
  \/ ParseStalls \/ StallsInvalid \/ ParseMode \/ ModeInvalid \/ ParseFile
  \/ NoFiles \/ Evaluate \/ Return

Spec == Init /\ [][Next]_vars

-----------------------------------------------------------------------------
(* Properties                                                              *)

TypeOK ==
  /\ pc \in {"boot", "exit", "crashed", "up", "scan", "evaluate", "rejected", "evaluated"}
  /\ {N, p, d, one_step} \subseteq 0 .. 255 /\ mode \in Int
  /\ {j, files, command, start, duration, stalls, list} \subseteq Nat
  /\ caller \in {"nobody", "server", "user"} /\ arg \in Nat

(* A window of N segments at most 33 characters long, or of stalls every   *)
(* second slot at most 14 long, leaves the arrays room for the rest and    *)
(* the terminator.  For arrays of 1024 and 256 that is N up to 29; main    *)
(* takes any N up to 255.                                                  *)
Longest == 20 + 33 * (IF N = 0 THEN 1 ELSE N) + 3 + 4 + 3 + 11

Fits == Longest < CommandSize /\ 4 + 14 * ((N + 1) \div 2) < ListSize

(* Neither array overflows, whatever is in the window, if N is not too     *)
(* large for them: strcat and the offsets of stalls_to_string do not check.*)
WithinArrays == Fits => command < CommandSize /\ list < ListSize

Usable(m) == m.is = "number" /\ m.value \in 1 .. 255

(* p or d is 0 or what its own member says: a number, or 1 of a `true',    *)
(* which passes the guard when the other member is a number.               *)
TakenFrom(x, m) == x = 0 \/ (m.is \in {"number", "true"} /\ x = uint8(m.value))

(* A file with all of N, p and d gets them, although the guards of p and d *)
(* look at each other's type; none ever becomes the value of another, or   *)
(* of a member that is no number and not `true', and a window never moves  *)
(* by more than was asked for.                                             *)
AsConfigured ==
  given # Nothing /\ given.by = "file" =>
    LET conf == given.value
    IN /\ Usable(conf.N) /\ Usable(conf.p) /\ Usable(conf.d) =>
            pc = "up" /\ <<N, p, d>> = <<conf.N.value, conf.p.value, conf.d.value>>
       /\ TakenFrom(p, conf.p) /\ TakenFrom(d, conf.d)

(* A window with a segment in it is evaluated: evaluate.py takes the       *)
(* arguments that its usage message describes (evaluate.py:11).            *)
WindowEvaluated == caller = "server" /\ one_step = 0 => pc # "rejected"

=============================================================================
