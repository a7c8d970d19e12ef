----------------------- MODULE EvaluatorCommand_proofs -----------------------
(***************************************************************************)
(* Proofs about EvaluatorCommand, for every set of numbers in the          *)
(* configuration and every size of the arrays: the arrays are not          *)
(* overflowed by windows they are wide enough for, and a configuration     *)
(* never has its values mixed up.                                          *)
(*                                                                         *)
(* A window of N slots has its texts counted slot by slot: each segment    *)
(* costs at most 33 characters of the command, each stall that a segment   *)
(* has ended costs at most 14 of the list, and both share the j slots read *)
(* so far.                                                                 *)
(***************************************************************************)
EXTENDS EvaluatorCommand, TLAPS

(* The slots read so far hold the segments, the finished stalls and, if    *)
(* there is one, the stall under way.                                      *)
Counts ==
  /\ j <= N /\ start <= j /\ duration <= 255 * j
  /\ stalls <= files
  /\ start = 0 => files + stalls <= j
  /\ start # 0 => files + stalls + 1 <= j

Texts == command <= 20 + 33 * files /\ list <= 2 + 14 * stalls

ScanInv == pc = "scan" => Counts /\ Texts

RoomInv == command <= Longest /\ list <= 4 + 14 * ((N + 1) \div 2)

BootInv == pc = "boot" => command = 0 /\ list = 0 /\ p = 0 /\ d = 0 /\ given = Nothing

(* What a file gave is there until the first command.                      *)
Kept(conf) ==
  /\ pc = "up" /\ ~ConfigCrashes(conf)
  /\ N = IF Positive(conf.N) THEN uint8(conf.N.value) ELSE 0
  /\ d = IF IsNumber(conf.p) /\ conf.d.value > 0 THEN uint8(conf.d.value) ELSE 0
  /\ p = IF IsNumber(conf.d) /\ conf.p.value > 0 THEN uint8(conf.p.value) ELSE 0

Gone(conf) == pc = "crashed" /\ ConfigCrashes(conf) /\ p = 0 /\ d = 0

GivenInv ==
  given # Nothing /\ given.by = "file" =>
    given.value \in [Fields -> Members] /\ (Kept(given.value) \/ Gone(given.value))

GivenEarly == given # Nothing => pc \in {"up", "crashed"}

IInv ==
  /\ TypeOK
  /\ ScanInv /\ RoomInv /\ BootInv /\ GivenInv /\ GivenEarly

-----------------------------------------------------------------------------
(* The length of a number printed with %d.                                 *)
LEMMA Lengths ==
  ASSUME NEW n \in Int
  PROVE  /\ Length(n) \in 1 .. 10
         /\ n <= 255 => Length(n) <= 3
         /\ n <= 65025 => Length(n) <= 5
  BY DEF Length

LEMMA ModeLength ==
  ASSUME mode \in Int
  PROVE  LengthOfMode \in 1 .. 11
<1>1. CASE mode < 0
  <2>1. 0 - mode \in Int
    OBVIOUS
  <2>2. Length(0 - mode) \in 1 .. 10
    BY <2>1, Lengths
  <2> QED BY <1>1, <2>2 DEF LengthOfMode
<1>2. CASE ~(mode < 0)
  BY <1>2, Lengths DEF LengthOfMode
<1> QED BY <1>1, <1>2

LEMMA Bytes8 ==
  ASSUME NEW n \in Int
  PROVE  uint8(n) \in 0 .. 255 /\ (n \in 1 .. 255 => uint8(n) = n)
  BY DEF uint8

LEMMA Assumed == Numbers \subseteq Int /\ Digits \subseteq 1 .. 10
  BY CommandAssumption DEF CommandAssumption

LEMMA MemberBytes ==
  ASSUME NEW conf \in [Fields -> Members]
  PROVE  /\ uint8(conf.N.value) \in 0 .. 255 /\ uint8(conf.p.value) \in 0 .. 255
         /\ uint8(conf.d.value) \in 0 .. 255 /\ uint8(conf.one_step.value) \in 0 .. 255
         /\ conf.mode.value \in Int
         /\ conf.p \in Members /\ conf.d \in Members
<1>1. ASSUME NEW m \in Members PROVE m.value \in Int
  <2>1. CASE m \in [is : {"number"}, value : Numbers]
    BY <2>1, Assumed
  <2>2. CASE m \in [is : {"missing", "other"}, value : {0}] \union [is : {"true"}, value : {1}]
    BY <2>2
  <2> QED BY <2>1, <2>2 DEF Members
<1>2. ASSUME NEW m \in Members PROVE uint8(m.value) \in 0 .. 255
  <2>1. m.value \in Int
    BY <1>1
  <2> QED BY <2>1, Bytes8
<1>3. /\ conf.N \in Members /\ conf.p \in Members /\ conf.d \in Members
      /\ conf.one_step \in Members /\ conf.mode \in Members
  BY DEF Fields
<1> QED BY <1>1, <1>2, <1>3

LEMMA NumberBytes ==
  ASSUME NEW conf \in [Fields -> Numbers]
  PROVE  /\ uint8(conf.N) \in 0 .. 255 /\ uint8(conf.p) \in 0 .. 255
         /\ uint8(conf.d) \in 0 .. 255 /\ uint8(conf.one_step) \in 0 .. 255
<1>1. ASSUME NEW m \in Numbers PROVE uint8(m) \in 0 .. 255
  <2>1. m \in Int
    BY Assumed
  <2> QED BY <2>1, Bytes8
<1>2. conf.N \in Numbers /\ conf.p \in Numbers /\ conf.d \in Numbers /\ conf.one_step \in Numbers
  BY DEF Fields
<1> QED BY <1>1, <1>2

(* What a stall adds to the list while the window is read.                 *)
LEMMA StallTextBound ==
  ASSUME start \in Nat, duration \in Nat, start <= 255, duration <= 65025
  PROVE  StallText \in Nat /\ StallText <= 14 /\ (start = 0 => StallText = 0)
<1>1. /\ Length(start) \in 1 .. 10 /\ Length(start) <= 3
      /\ Length(duration) \in 1 .. 10 /\ Length(duration) <= 5
  BY Lengths
<1> QED BY <1>1 DEF StallText

LEMMA Halves ==
  ASSUME NEW n \in Nat
  PROVE  /\ (n + 1) \div 2 \in Nat
         /\ \A k \in Nat : 2 * k <= n + 1 => k <= (n + 1) \div 2
  OBVIOUS

LEMMA HalfOf ==
  ASSUME NEW n \in Nat, NEW k \in Nat, NEW m \in Nat, 2 * k <= n + 1, m <= 4 + 14 * k
  PROVE  m <= 4 + 14 * ((n + 1) \div 2)
<1>1. k <= (n + 1) \div 2 /\ (n + 1) \div 2 \in Nat
  BY Halves
<1> QED BY <1>1

LEMMA RoomFor ==
  ASSUME NEW n \in Nat
  PROVE  20 + 33 * (IF n = 0 THEN 1 ELSE n) + 3 + 4 + 3 + 11 >= 0
<1>1. CASE n = 0
  BY <1>1
<1>2. CASE n # 0
  BY <1>2
<1> QED BY <1>1, <1>2

LEMMA RoomType ==
  ASSUME N \in 0 .. 255
  PROVE  Longest \in Nat /\ Longest >= 74 /\ Longest >= 41 + 33 * N
  BY DEF Longest

-----------------------------------------------------------------------------
LEMMA InitInv == Init => IInv
<1> SUFFICES ASSUME Init PROVE IInv
  OBVIOUS
<1>1. TypeOK
  BY DEF Init, TypeOK
<1>2. ScanInv /\ BootInv /\ GivenEarly /\ GivenInv
  BY DEF Init, ScanInv, BootInv, GivenEarly, GivenInv, Nothing
<1>3. RoomInv
  BY DEF Init, RoomInv, Longest
<1> QED BY <1>1, <1>2, <1>3 DEF IInv

(* The steps of main.                                                      *)
LEMMA BootStep ==
  ASSUME IInv, NoFile \/ ConfigRefused \/ Crash \/ ReadConfig \/ ReadArguments
  PROVE  IInv'
<1> USE DEF IInv
<1>0. /\ pc = "boot" /\ command = 0 /\ list = 0 /\ p = 0 /\ d = 0 /\ given = Nothing
      /\ UNCHANGED <<scanVars, callVars>>
  BY DEF NoFile, ConfigRefused, Crash, ReadConfig, ReadArguments, BootInv
<1>1. /\ N' \in 0 .. 255 /\ p' \in 0 .. 255 /\ d' \in 0 .. 255 /\ one_step' \in 0 .. 255
      /\ mode' \in Int
      /\ pc' \in {"exit", "crashed", "up"}
  <2>1. CASE NoFile \/ ConfigRefused \/ Crash
    BY <2>1 DEF NoFile, ConfigRefused, Crash, TypeOK, confVars, settings
  <2>2. CASE ReadConfig
    <3> PICK conf \in [Fields -> Members] :
          /\ N' = IF Positive(conf.N) THEN uint8(conf.N.value) ELSE 0
          /\ d' = IF IsNumber(conf.p) /\ conf.d.value > 0 THEN uint8(conf.d.value) ELSE 0
          /\ p' = IF IsNumber(conf.d) /\ conf.p.value > 0 THEN uint8(conf.p.value) ELSE 0
          /\ one_step' = IF IsNumber(conf.one_step) THEN uint8(conf.one_step.value) ELSE 0
          /\ mode' = IF IsNumber(conf.mode) THEN conf.mode.value ELSE 0
      BY <2>2 DEF ReadConfig
    <3>1. pc' = "up"
      BY <2>2 DEF ReadConfig
    <3>2. /\ uint8(conf.N.value) \in 0 .. 255 /\ uint8(conf.p.value) \in 0 .. 255
          /\ uint8(conf.d.value) \in 0 .. 255 /\ uint8(conf.one_step.value) \in 0 .. 255
          /\ conf.mode.value \in Int
      BY MemberBytes
    <3>3. 0 \in 0 .. 255 /\ 0 \in Int
      OBVIOUS
    <3> HIDE DEF Members
    <3>4. N' \in 0 .. 255 /\ d' \in 0 .. 255 /\ p' \in 0 .. 255
      BY <3>2, <3>3, Zenon
    <3>5. one_step' \in 0 .. 255 /\ mode' \in Int
      BY <3>2, <3>3, Zenon
    <3> QED BY <3>1, <3>4, <3>5, Zenon
  <2>3. CASE ReadArguments
    <3> PICK conf \in [Fields -> Numbers] :
          /\ N' = uint8(conf.N) /\ p' = uint8(conf.p) /\ d' = uint8(conf.d)
          /\ one_step' = uint8(conf.one_step)
          /\ mode' = IF conf.mode \in 0 .. 3 THEN conf.mode ELSE 0
      BY <2>3 DEF ReadArguments
    <3>1. pc' = "up"
      BY <2>3 DEF ReadArguments
    <3> QED BY <3>1, NumberBytes
  <2> QED BY <2>1, <2>2, <2>3
<1>2. TypeOK'
  BY <1>0, <1>1 DEF TypeOK, scanVars, callVars
<1>3. RoomInv'
  <2>0. N' \in Nat
    BY <1>1
  <2>1. Longest' >= 0
    BY <2>0, RoomFor DEF Longest
  <2>2. (N' + 1) \div 2 \in Nat
    BY <2>0, Halves
  <2> QED BY <1>0, <2>1, <2>2 DEF RoomInv, scanVars
<1>4. ScanInv' /\ BootInv' /\ GivenEarly'
  <2>1. pc' # "scan" /\ pc' # "boot"
    BY <1>1
  <2>2. given' # Nothing => pc' \in {"up", "crashed"}
    BY <1>0 DEF NoFile, ConfigRefused, Crash, ReadConfig, ReadArguments, confVars
  <2> QED BY <2>1, <2>2 DEF ScanInv, BootInv, GivenEarly
<1>5. GivenInv'
  <2>1. CASE NoFile \/ ConfigRefused
    BY <2>1, <1>0 DEF NoFile, ConfigRefused, GivenInv, confVars
  <2>2. CASE Crash
    BY <2>2, <1>0 DEF Crash, GivenInv, Gone
  <2>3. CASE ReadConfig
    BY <2>3 DEF ReadConfig, GivenInv, Kept
  <2>4. CASE ReadArguments
    <3>1. given'.by = "arguments"
      BY <2>4 DEF ReadArguments
    <3> QED BY <3>1 DEF GivenInv
  <2> QED BY <2>1, <2>2, <2>3, <2>4
<1> QED BY <1>2, <1>3, <1>4, <1>5

LEMMA SameRoom ==
  ASSUME UNCHANGED settings
  PROVE  Longest' = Longest /\ N' = N
  BY DEF Longest, settings

(* Once nothing is kept of what was given, what was given is no concern.   *)
LEMMA Forgotten ==
  ASSUME given' = Nothing, pc' # "boot"
  PROVE  GivenInv' /\ GivenEarly' /\ BootInv'
  BY DEF GivenInv, GivenEarly, BootInv, Nothing

(* The counts bound the texts.                                             *)
LEMMA CountsBound ==
  ASSUME TypeOK, Counts, Texts
  PROVE  RoomInv
<1>1. /\ files \in Nat /\ stalls \in Nat /\ command \in Nat /\ list \in Nat
      /\ N \in 0 .. 255 /\ j \in Nat
  BY DEF TypeOK
<1>2. files + stalls <= N /\ stalls <= files
  BY <1>1 DEF Counts
<1>3. stalls <= (N + 1) \div 2 /\ (N + 1) \div 2 \in Nat
  BY <1>1, <1>2, Halves
<1>4. Longest \in Nat /\ Longest >= 41 + 33 * N
  BY <1>1, RoomType
<1>5. command <= Longest
  BY <1>1, <1>2, <1>4 DEF Texts
<1>6. list <= 4 + 14 * ((N + 1) \div 2)
  BY <1>1, <1>3 DEF Texts
<1> QED BY <1>5, <1>6 DEF RoomInv

(* A command is begun.                                                     *)
LEMMA BeginStep ==
  ASSUME IInv, ScanBegins
  PROVE  IInv'
<1> USE DEF IInv
<1>1. TypeOK'
  BY DEF ScanBegins, TypeOK, settings, callVars
<1>2. Counts' /\ Texts'
  BY <1>1 DEF ScanBegins, Counts, Texts, settings, TypeOK
<1>3. RoomInv'
  <2>1. ASSUME TypeOK', Counts', Texts' PROVE RoomInv'
    BY <2>1, CountsBound, PTL
  <2> QED BY <1>1, <1>2, <2>1
<1>4. GivenInv' /\ GivenEarly' /\ BootInv'
  BY Forgotten DEF ScanBegins
<1> QED BY <1>1, <1>2, <1>3, <1>4 DEF ScanInv

(* The counts make room, in the next state as in this one.                 *)
LEMMA NextRoom == TypeOK' /\ Counts' /\ Texts' => RoomInv'
<1>1. TypeOK /\ Counts /\ Texts => RoomInv
  BY CountsBound
<1> QED BY <1>1, PTL

(* A slot is read.                                                         *)
LEMMA ScanStep ==
  ASSUME IInv, ScanEmpty \/ ScanStall \/ ScanSegment
  PROVE  IInv'
<1> USE DEF IInv
<1>1. /\ pc = "scan" /\ j < N /\ j' = j + 1 /\ pc' = "scan"
      /\ UNCHANGED <<confVars, callVars>>
  BY DEF ScanEmpty, ScanStall, ScanSegment, Scan
<1>2. Counts /\ Texts
  BY <1>1 DEF ScanInv
<1>3. /\ N \in 0 .. 255 /\ d \in 0 .. 255
      /\ j \in Nat /\ files \in Nat /\ command \in Nat /\ start \in Nat
      /\ duration \in Nat /\ stalls \in Nat /\ list \in Nat
  BY DEF TypeOK
<1>4. N' = N /\ given' = Nothing
  BY <1>1 DEF confVars, settings, GivenEarly
<1>5. /\ files' \in Nat /\ command' \in Nat /\ start' \in Nat
      /\ duration' \in Nat /\ stalls' \in Nat /\ list' \in Nat
      /\ Counts' /\ Texts'
  <2>1. CASE ScanEmpty
    BY <1>1, <1>2, <1>3, <1>4, <2>1 DEF ScanEmpty, Counts, Texts
  <2>2. CASE ScanStall
    <3>1. CASE start = 0
      BY <1>1, <1>2, <1>3, <1>4, <2>2, <3>1 DEF ScanStall, Counts, Texts
    <3>2. CASE start # 0
      BY <1>1, <1>2, <1>3, <1>4, <2>2, <3>2 DEF ScanStall, Counts, Texts
    <3> QED BY <3>1, <3>2
  <2>3. CASE ScanSegment
    <3>1. start <= 255 /\ duration <= 65025
      BY <1>1, <1>2, <1>3 DEF Counts
    <3>2. StallText \in Nat /\ StallText <= 14 /\ (start = 0 => StallText = 0)
      BY <1>3, <3>1, StallTextBound
    <3>3. command' \in Nat /\ command' <= command + 33
      BY <1>3, <2>3, Assumed DEF ScanSegment
    <3>4. CASE start = 0
      BY <1>1, <1>2, <1>3, <1>4, <2>3, <3>2, <3>3, <3>4 DEF ScanSegment, Counts, Texts
    <3>5. CASE start # 0
      BY <1>1, <1>2, <1>3, <1>4, <2>3, <3>2, <3>3, <3>5 DEF ScanSegment, Counts, Texts
    <3> QED BY <3>4, <3>5
  <2> QED BY <2>1, <2>2, <2>3 DEF ScanEmpty, ScanStall, ScanSegment
<1>6. TypeOK'
  BY <1>1, <1>3, <1>5 DEF TypeOK, confVars, settings, callVars
<1>7. RoomInv'
  BY <1>5, <1>6, NextRoom
<1>8. GivenInv' /\ GivenEarly' /\ BootInv'
  BY <1>1, <1>4, Forgotten
<1> QED BY <1>5, <1>6, <1>7, <1>8 DEF ScanInv

(* The window is read, and evaluated if there is a segment in it.          *)
LEMMA EndStep ==
  ASSUME IInv, ScanEnds
  PROVE  IInv'
<1> USE DEF IInv
<1>1. /\ pc = "scan" /\ j = N /\ pc' \in {"up", "evaluate"}
      /\ UNCHANGED <<confVars, j, files, start, duration>>
  BY DEF ScanEnds
<1>2. Counts /\ Texts
  BY <1>1 DEF ScanInv
<1>3. /\ N \in 0 .. 255 /\ mode \in Int
      /\ j \in Nat /\ files \in Nat /\ command \in Nat /\ start \in Nat
      /\ duration \in Nat /\ stalls \in Nat /\ list \in Nat
  BY DEF TypeOK
<1>4. given' = Nothing /\ UNCHANGED settings
  BY <1>1 DEF confVars, GivenEarly
<1>5. CASE files = 0
  <2>1. UNCHANGED <<command, stalls, list, callVars>> /\ pc' = "up"
    BY <1>5 DEF ScanEnds
  <2>2. TypeOK'
    BY <1>1, <2>1 DEF TypeOK, confVars, settings, callVars
  <2>3. RoomInv'
    BY <2>1, <1>4, SameRoom DEF RoomInv
  <2>4. GivenInv' /\ GivenEarly' /\ BootInv'
    BY <2>1, <1>4, Forgotten
  <2> QED BY <2>1, <2>2, <2>3, <2>4 DEF ScanInv
<1>6. CASE files # 0
  <2>1. /\ pc' = "evaluate"
        /\ stalls' = IF start = 0 THEN stalls ELSE stalls + 1
        /\ list' = list + StallText + 2
        /\ command' = command + 3 + list' + 3 + LengthOfMode
        /\ caller' = "server" /\ arg' = 1
    BY <1>6 DEF ScanEnds, Called
  <2>2. start <= 255 /\ duration <= 65025
    BY <1>1, <1>2, <1>3 DEF Counts
  <2>3. StallText \in Nat /\ StallText <= 14 /\ (start = 0 => StallText = 0)
    BY <1>3, <2>2, StallTextBound
  <2>4. /\ stalls' \in Nat /\ files + stalls' <= N /\ 2 * stalls' <= N + 1
        /\ list' \in Nat /\ list' <= 4 + 14 * stalls'
    <3>1. CASE start = 0
      BY <1>1, <1>2, <1>3, <2>1, <2>3, <3>1 DEF Counts, Texts
    <3>2. CASE start # 0
      BY <1>1, <1>2, <1>3, <2>1, <2>3, <3>2 DEF Counts, Texts
    <3> QED BY <3>1, <3>2
  <2>5. command' \in Nat /\ command' <= 41 + 33 * N
    <3>1. LengthOfMode \in 1 .. 11
      BY <1>3, ModeLength
    <3> QED BY <1>2, <1>3, <2>1, <2>4, <3>1 DEF Texts
  <2>6. RoomInv'
    <3>1. Longest \in Nat /\ Longest >= 41 + 33 * N
      BY <1>3, RoomType
    <3>2. command' <= Longest
      BY <1>3, <2>5, <3>1
    <3>3. list' <= 4 + 14 * ((N + 1) \div 2)
      <4>1. N \in Nat /\ stalls' \in Nat /\ list' \in Nat
        BY <1>3, <2>4
      <4>2. 2 * stalls' <= N + 1 /\ list' <= 4 + 14 * stalls'
        BY <2>4
      <4> QED BY <4>1, <4>2, HalfOf
    <3> QED BY <3>2, <3>3, <1>4, SameRoom DEF RoomInv
  <2>7. TypeOK'
    BY <1>1, <1>3, <2>1, <2>4, <2>5 DEF TypeOK, confVars, settings
  <2>8. GivenInv' /\ GivenEarly' /\ BootInv'
    BY <2>1, <1>4, Forgotten
  <2> QED BY <2>1, <2>6, <2>7, <2>8 DEF ScanInv
<1> QED BY <1>5, <1>6

(* A segment is evaluated alone, or somebody calls evaluate.py.            *)
LEMMA CallStep ==
  ASSUME IInv, EvaluateSegment \/ ByHand
  PROVE  IInv'
<1> USE DEF IInv
<1>1. /\ pc' = "evaluate" /\ given' = Nothing /\ UNCHANGED settings
      /\ UNCHANGED <<j, files, start, duration, stalls, list>>
      /\ arg' = 1 /\ caller' \in {"server", "user"}
  BY DEF EvaluateSegment, ByHand, Called, scanVars
<1>2. /\ N \in 0 .. 255 /\ mode \in Int /\ command \in Nat
      /\ Longest \in Nat /\ Longest >= 74
  BY RoomType DEF TypeOK
<1>3. command' \in Nat /\ command' <= Longest
  <2>1. CASE EvaluateSegment
    <3>1. LengthOfMode \in 1 .. 11
      BY <1>2, ModeLength
    <3> QED BY <1>2, <2>1, <3>1, Assumed DEF EvaluateSegment
  <2>2. CASE ByHand
    BY <1>2, <2>2 DEF ByHand, scanVars, RoomInv
  <2> QED BY <2>1, <2>2
<1>4. TypeOK'
  BY <1>1, <1>3 DEF TypeOK, settings
<1>5. RoomInv'
  BY <1>1, <1>3, SameRoom DEF RoomInv
<1>6. GivenInv' /\ GivenEarly' /\ BootInv'
  BY <1>1, Forgotten
<1> QED BY <1>1, <1>4, <1>5, <1>6 DEF ScanInv

(* evaluate.py reads its arguments.                                        *)
LEMMA ReadStep ==
  ASSUME IInv, \/ ParseStalls \/ StallsInvalid \/ ParseMode \/ ModeInvalid \/ ParseFile
               \/ NoFiles \/ Evaluate \/ Return
  PROVE  IInv'
<1> USE DEF IInv
<1>1. /\ pc \in {"evaluate", "rejected", "evaluated"}
      /\ pc' \in {"evaluate", "rejected", "evaluated", "up"}
      /\ UNCHANGED <<confVars, scanVars, caller>>
      /\ arg' \in {arg, arg + 1, arg + 2}
  BY DEF ParseStalls, StallsInvalid, ParseMode, ModeInvalid, ParseFile, NoFiles, Evaluate, Return,
         Parsing, Reject, callVars
<1>2. given' = Nothing /\ UNCHANGED settings
  BY <1>1 DEF GivenEarly, confVars
<1>3. TypeOK'
  <2>1. arg' \in Nat
    BY <1>1 DEF TypeOK
  <2> QED BY <1>1, <2>1 DEF TypeOK, confVars, settings, scanVars
<1>4. RoomInv'
  BY <1>1, <1>2, SameRoom DEF RoomInv, scanVars
<1>5. GivenInv' /\ GivenEarly' /\ BootInv'
  BY <1>1, <1>2, Forgotten
<1> QED BY <1>1, <1>3, <1>4, <1>5 DEF ScanInv

LEMMA StutterStep ==
  ASSUME IInv, UNCHANGED vars
  PROVE  IInv'
  BY DEF IInv, TypeOK, ScanInv, Counts, Texts, RoomInv, Longest, BootInv, GivenInv, Kept, Gone,
         GivenEarly, vars, confVars, settings, scanVars, callVars

LEMMA StepInv == IInv /\ [Next]_vars => IInv'
<1> SUFFICES ASSUME IInv, [Next]_vars PROVE IInv'
  OBVIOUS
<1>1. CASE NoFile \/ ConfigRefused \/ Crash \/ ReadConfig \/ ReadArguments
  BY <1>1, BootStep
<1>2. CASE ScanBegins
  BY <1>2, BeginStep
<1>3. CASE ScanEmpty \/ ScanStall \/ ScanSegment
  BY <1>3, ScanStep
<1>4. CASE ScanEnds
  BY <1>4, EndStep
<1>5. CASE EvaluateSegment \/ ByHand
  BY <1>5, CallStep
<1>6. CASE \/ ParseStalls \/ StallsInvalid \/ ParseMode \/ ModeInvalid \/ ParseFile
           \/ NoFiles \/ Evaluate \/ Return
  BY <1>6, ReadStep
<1>7. CASE UNCHANGED vars
  BY <1>7, StutterStep
<1> QED BY <1>1, <1>2, <1>3, <1>4, <1>5, <1>6, <1>7 DEF Next

(* The invariant holds throughout.                                         *)
THEOREM Invariance == Spec => []IInv
<1> QED BY InitInv, StepInv, PTL DEF Spec

(* Every variable has its type: the bytes that main keeps of the           *)
(* configuration, and the lengths and counts of the scan.                  *)
THEOREM TypeCorrect == Spec => []TypeOK
<1>1. IInv => TypeOK
  BY DEF IInv
<1> QED BY <1>1, Invariance, PTL

(* The array for the command and the array for the stalls are never        *)
(* written past their end by a window they are wide enough for, whatever   *)
(* the window holds, although nothing in generate_evaluation_command or    *)
(* stalls_to_string checks.                                                *)
THEOREM ArraysSuffice == Spec => []WithinArrays
<1>1. IInv => WithinArrays
  <2> SUFFICES ASSUME IInv, Fits PROVE command < CommandSize /\ list < ListSize
    BY DEF WithinArrays
  <2>1. /\ N \in 0 .. 255 /\ command \in Nat /\ list \in Nat
        /\ CommandSize \in Nat /\ ListSize \in Nat
    BY CommandAssumption DEF CommandAssumption, IInv, TypeOK
  <2>2. Longest \in Nat /\ (N + 1) \div 2 \in Nat
    BY <2>1, RoomType, Halves
  <2> QED BY <2>1, <2>2 DEF Fits, IInv, RoomInv
<1> QED BY <1>1, Invariance, PTL

(* What main keeps of a configuration file is what the file gave: no value *)
(* is taken for another although the guards of p and d look at each        *)
(* other's type, and nothing but numbers (and 1 of a `true') is taken.     *)
THEOREM Configured == Spec => []AsConfigured
<1>1. IInv => AsConfigured
  <2> SUFFICES ASSUME IInv, given # Nothing, given.by = "file"
               PROVE  /\ Usable(given.value.N) /\ Usable(given.value.p) /\ Usable(given.value.d) =>
                           /\ pc = "up"
                           /\ <<N, p, d>>
                                = <<given.value.N.value, given.value.p.value, given.value.d.value>>
                      /\ TakenFrom(p, given.value.p) /\ TakenFrom(d, given.value.d)
    BY DEF AsConfigured
  <2> DEFINE conf == given.value
  <2>1. conf \in [Fields -> Members] /\ (Kept(conf) \/ Gone(conf))
    BY DEF IInv, GivenInv
  <2>2. TakenFrom(p, conf.p) /\ TakenFrom(d, conf.d)
    <3>1. \A m \in Members : m.value > 0 => m.is \in {"number", "true"}
      BY DEF Members
    <3>2. conf.p \in Members /\ conf.d \in Members
      BY <2>1, MemberBytes
    <3> HIDE DEF conf, Members
    <3>3. CASE Kept(conf)
      <4>1. p = 0 \/ (conf.p.value > 0 /\ p = uint8(conf.p.value))
        BY <3>3, Zenon DEF Kept
      <4>2. d = 0 \/ (conf.d.value > 0 /\ d = uint8(conf.d.value))
        BY <3>3, Zenon DEF Kept
      <4> QED BY <3>1, <3>2, <4>1, <4>2, Zenon DEF TakenFrom
    <3>4. CASE Gone(conf)
      BY <3>4 DEF Gone, TakenFrom
    <3> QED BY <2>1, <3>3, <3>4
  <2>3. ASSUME Usable(conf.N), Usable(conf.p), Usable(conf.d)
        PROVE  pc = "up" /\ <<N, p, d>> = <<conf.N.value, conf.p.value, conf.d.value>>
    <3>1. ~ConfigCrashes(conf)
      BY <2>3 DEF Usable, ConfigCrashes, IsNumber
    <3>2. Kept(conf)
      BY <2>1, <3>1 DEF Gone
    <3>3. /\ uint8(conf.N.value) = conf.N.value /\ conf.N.value > 0
          /\ uint8(conf.p.value) = conf.p.value /\ conf.p.value > 0
          /\ uint8(conf.d.value) = conf.d.value /\ conf.d.value > 0
      <4>1. ASSUME NEW n \in 1 .. 255 PROVE uint8(n) = n /\ n > 0
        BY Bytes8
      <4>2. conf.N.value \in 1 .. 255 /\ conf.p.value \in 1 .. 255 /\ conf.d.value \in 1 .. 255
        BY <2>3 DEF Usable
      <4> HIDE DEF conf
      <4> QED BY <4>1, <4>2
    <3> QED BY <2>3, <3>2, <3>3 DEF Kept, Positive, IsNumber, Usable
  <2> QED BY <2>2, <2>3
<1> QED BY <1>1, Invariance, PTL

=============================================================================
