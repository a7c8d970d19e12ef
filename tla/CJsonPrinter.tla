---------------------------- MODULE CJsonPrinter ----------------------------
(***************************************************************************)
(* How cJSON prints an item (cJSON.c), as main.c has its results printed:  *)
(* piece by piece into a buffer that ensure makes longer where it has to.  *)
(* print_value, print_array and print_object call each other: the calls    *)
(* under way are the frames.  A piece that is not advanced over is found   *)
(* by its terminator afterwards (update_offset).                           *)
(*                                                                         *)
(* Numbers and strings look alike within a text: as the caller says when   *)
(* it calls.  Of the values null, true and false only null is printed.     *)
(***************************************************************************)
EXTENDS CJsonParser

CONSTANTS
  default_buffer_size,  (* of cJSON_Print: 256                            *)
  Prebuffers,           (* lengths that a caller gives                    *)
  Texts                 (* what a string may hold                         *)

ASSUME PrinterAssumption ==
  /\ default_buffer_size \in Nat \ {0} /\ Prebuffers \subseteq Nat
  /\ Texts \subseteq Seq(STRING)

VARIABLES
  ppc,     (* what is printed next                                        *)
  call,    (* of the caller: function, item, format, length, and looks    *)
  buf,     (* the printbuffer: bytes written, length, offset              *)
  depth,
  frames,  (* array or object under way, and the child that is printed    *)
  blocks,  (* buffers allocated                                           *)
  starved  (* memory ran out (history)                                    *)

printVars == <<ppc, call, buf, depth, frames, blocks, starved>>

NoBuffer == [bytes |-> <<>>, length |-> 0, offset |-> 0]
NoCall == [way |-> "none"]

PrinterInit ==
  /\ ParserInit
  /\ ppc = "rest" /\ call = NoCall /\ buf = NoBuffer /\ depth = 0 /\ frames = <<>>
  /\ blocks = 0 /\ starved = FALSE

-----------------------------------------------------------------------------
(* Pieces                                                                  *)

Nul == "nul"
Quote == "quote"

(* A string is plain but for characters that are escaped by one more, as   *)
(* quotes are, or by five more, as control characters are.                 *)
Escape(c) ==
  IF c = "quote" THEN <<"back", "quote">>
  ELSE IF c = "control" THEN <<"back", "u", "0", "0", "1", "f">>
  ELSE <<c>>

Extra(c) == IF c = "quote" THEN 1 ELSE IF c = "control" THEN 5 ELSE 0

lengthUnescaped(s) == Len(s)   (* a mutant: escapes are not counted       *)

(* A first loop counts what the second one writes.                         *)
output_length(s) ==
  LET count[k \in 0 .. Len(s)] == IF k = 0 THEN 0 ELSE count[k - 1] + 1 + Extra(s[k])
  IN count[Len(s)]

Quoted(s) ==
  LET output[k \in 0 .. Len(s)] == IF k = 0 THEN <<Quote>> ELSE output[k - 1] \o Escape(s[k])
  IN Append(output[Len(s)], Quote)

(* A number as "%d" prints it, or null.                                    *)
ScalarText == IF call.number THEN <<"7">> ELSE <<"n", "u", "l", "l">>

Fmt(formatted, plain) == IF call.format THEN formatted ELSE plain
Tabs(n) == [k \in 1 .. n |-> "tab"]

Frame == frames[Len(frames)]
Following(n) == heap[n].next
After == IF frames = <<>> THEN "done" ELSE "valued"

-----------------------------------------------------------------------------
(* ensure                                                                  *)

noalloc == call.way = "PrintPreallocated"
Ended == buf.length > 0 /\ buf.offset >= buf.length
Lacks(needed) == buf.offset + needed + 1 > buf.length

(* The buffer as it was, or longer: with all its bytes if there is a       *)
(* realloc, else with those that have been advanced over and one more.     *)
Longer(needed) ==
  LET length == 2 * (buf.offset + needed + 1)
      kept == SubSeq(buf.bytes, 1, IF buf.offset < Len(buf.bytes) THEN buf.offset + 1 ELSE Len(buf.bytes))
  IN {[buf EXCEPT !.length = length, !.bytes = b] : b \in {buf.bytes, kept}}

ensure(needed) ==
  IF Ended THEN {} ELSE IF ~Lacks(needed) THEN {buf}
  ELSE IF noalloc THEN {} ELSE Longer(needed)

Overwritten(bytes, o, s) ==
  SubSeq(bytes, 1, o) \o s \o SubSeq(bytes, o + Len(s) + 1, Len(bytes))

(* A piece s is written at the offset, and the offset moved on.            *)
Put(needed, s, by) ==
  /\ \E b \in ensure(needed) :
       buf' = [b EXCEPT !.bytes = Overwritten(@, b.offset, s), !.offset = @ + by]
  /\ UNCHANGED <<call, blocks, starved>>

(* A string of bytes ends with the first Nul.                              *)
strlen(bytes, o) ==
  LET ends == {k \in o + 1 .. Len(bytes) : bytes[k] = Nul}
  IN IF ends = {} THEN Len(bytes) + 1 - o ELSE (CHOOSE k \in ends : \A j \in ends : k <= j) - 1 - o

Advanced(b) == [b EXCEPT !.offset = @ + strlen(b.bytes, b.offset)]

-----------------------------------------------------------------------------
(* Steps: each writes a piece, or comes to an end for want of room.        *)

Short(needed) ==
  /\ Ended \/ Lacks(needed)
  /\ ppc' = "fail"
  /\ IF Ended \/ noalloc THEN UNCHANGED <<buf, blocks, starved>>
     ELSE buf' = NoBuffer /\ blocks' = blocks - 1 /\ starved' = TRUE
  /\ UNCHANGED <<call, depth, frames>>

Item == IF frames = <<>> THEN call.item ELSE Frame.kid
Value(kind) == ppc = "value" /\ heap[Item].kind = kind
Here == UNCHANGED <<depth, frames>>

(* The offset is moved here for a number, and later for null.              *)
print_number ==
  /\ Value("Number")
  /\ \/ /\ Put(Len(ScalarText) + 1, ScalarText \o <<Nul>>, IF call.number THEN Len(ScalarText) ELSE 0)
        /\ ppc' = After /\ Here
     \/ Short(Len(ScalarText) + 1)

(* print_string_ptr                                                        *)
PrintString(s, to) ==
  \/ Put(output_length(s) + 3, Quoted(s) \o <<Nul>>, 0) /\ ppc' = to /\ Here
  \/ Short(output_length(s) + 3)

print_string == Value("String") /\ PrintString(call.string, After)

(* Where print_object goes to for a child, and print_array.                *)
Child(kind, kid) ==
  IF kid = NULL THEN "close" ELSE IF kind = "Array" THEN "value" ELSE Fmt("indent", "key")

Opens(kind, needed, s, by) ==
  /\ Value(kind)
  /\ \/ /\ Put(needed, s, by)
        /\ frames' = Append(frames, [item |-> Item, kid |-> heap[Item].child])
        /\ depth' = depth + 1
        /\ ppc' = Child(kind, heap[Item].child)
     \/ Short(needed)

OpenArray == Opens("Array", 1, <<"[">>, 1)
OpenObject == Opens("Object", Fmt(3, 2), Fmt(<<"{", "line">>, <<"{">>), Fmt(2, 1))

Indent ==
  /\ ppc = "indent"
  /\ \/ Put(depth, Tabs(depth), depth) /\ ppc' = "key" /\ Here
     \/ Short(depth)

PrintKey ==
  /\ ppc = "key"
  /\ PrintString(IF heap[Frame.kid].string = NULL THEN <<>> ELSE call.string, "keyed")

(* a mutant: behind the last member the line does not end.                  *)
UpdateOffsetAtLast ==
  /\ ppc \in {"keyed", "valued"}
  /\ buf' = Advanced(buf)
  /\ ppc' = IF ppc = "keyed" THEN "colon"
            ELSE IF Following(Frame.kid) = NULL THEN "close" ELSE "comma"
  /\ UNCHANGED <<call, depth, frames, blocks, starved>>

(* update_offset, behind a key or a value                                  *)
UpdateOffset ==
  /\ ppc \in {"keyed", "valued"}
  /\ buf' = Advanced(buf)
  /\ ppc' = IF ppc = "keyed" THEN "colon"
            ELSE IF heap[Frame.item].kind = "Array" /\ Following(Frame.kid) = NULL THEN "close"
            ELSE "comma"
  /\ UNCHANGED <<call, depth, frames, blocks, starved>>

PrintColon ==
  /\ ppc = "colon"
  /\ \/ Put(Fmt(2, 1), Fmt(<<":", "tab">>, <<":">>), Fmt(2, 1)) /\ ppc' = "value" /\ Here
     \/ Short(Fmt(2, 1))

(* In an object the line ends here, also behind the last child.            *)
PrintComma ==
  LET next == Following(Frame.kid)
      kind == heap[Frame.item].kind
      s == IF kind = "Array" THEN <<",">> \o Fmt(<<" ">>, <<>>)
           ELSE (IF next = NULL THEN <<>> ELSE <<",">>) \o Fmt(<<"line">>, <<>>)
  IN /\ ppc = "comma"
     /\ \/ /\ Put(Len(s) + 1, s \o <<Nul>>, Len(s))
           /\ frames' = [frames EXCEPT ![Len(frames)].kid = next]
           /\ ppc' = Child(kind, next)
           /\ UNCHANGED depth
        \/ Short(Len(s) + 1)

PrintClose ==
  LET object == heap[Frame.item].kind = "Object"
      needed == IF object THEN Fmt(depth + 1, 2) ELSE 2
      s == IF object THEN Fmt(Tabs(depth - 1), <<>>) \o <<"}", Nul>> ELSE <<"]", Nul>>
  IN /\ ppc = "close"
     /\ \/ /\ Put(needed, s, 0)
           /\ frames' = Front(frames) /\ depth' = depth - 1
           /\ ppc' = IF Len(frames) = 1 THEN "done" ELSE "valued"
        \/ Short(needed)

-----------------------------------------------------------------------------
(* The calls                                                               *)

(* Bound: one item is in use, with nothing in it that refers to another,   *)
(* no key that is the caller's, and none from an earlier object.           *)
Alone(x) ==
  /\ roots = {x} /\ Live(heap) = Below(heap, x) /\ heap[x].string = NULL
  /\ \A n \in Live(heap) : ~heap[n].ref /\ ~heap[n].const

Looks ==
  [number : IF \E n \in Live(heap) : heap[n].kind = "Number" THEN BOOLEAN ELSE {TRUE},
   string : Texts]

Begins(way, x, length) ==
  /\ \E format \in BOOLEAN, look \in Looks :
       call' = [way |-> way, item |-> x, format |-> format, length |-> length,
                number |-> look.number, string |-> look.string]
  /\ buf' = [NoBuffer EXCEPT !.length = length]
  /\ blocks' = IF way = "PrintPreallocated" THEN 0 ELSE 1
  /\ ppc' = "value"
  /\ UNCHANGED <<depth, frames, starved>>

(* Without memory for a first buffer nothing is done at all.               *)
cJSON_Print(x) == Begins("Print", x, default_buffer_size)
cJSON_PrintBuffered(x) == \E length \in Prebuffers : Begins("PrintBuffered", x, length)
cJSON_PrintPreallocated(x) == \E length \in Prebuffers : Begins("PrintPreallocated", x, length)

(* print cuts the buffer off behind the terminator.                        *)
Returns ==
  /\ ppc = "done" /\ ppc' = "printed"
  /\ buf' = IF call.way = "Print"
            THEN LET b == Advanced(buf)
                 IN [b EXCEPT !.length = b.offset + 1, !.bytes = SubSeq(@, 1, b.offset + 1)]
            ELSE buf
  /\ UNCHANGED <<call, depth, frames, blocks, starved>>

ReturnFails ==
  /\ ppc = "done" /\ call.way = "Print"
  /\ ppc' = "fail" /\ buf' = Advanced(buf) /\ starved' = TRUE
  /\ UNCHANGED <<call, depth, frames, blocks>>

(* a mutant: the buffer is not freed.                                       *)
PrintFailsLeaks ==
  /\ ppc = "fail" /\ ppc' = "null" /\ buf' = NoBuffer
  /\ UNCHANGED <<call, depth, frames, blocks, starved>>

(* What is still allocated is freed.                                       *)
PrintFails ==
  /\ ppc = "fail" /\ ppc' = "null"
  /\ buf' = NoBuffer
  /\ blocks' = IF noalloc \/ blocks = 0 THEN blocks ELSE blocks - 1
  /\ UNCHANGED <<call, depth, frames, starved>>

(* The caller is done with the text.                                       *)
Printed ==
  /\ ppc \in {"printed", "null"} /\ ppc' = "rest"
  /\ call' = NoCall /\ buf' = NoBuffer /\ depth' = 0 /\ frames' = <<>>
  /\ blocks' = 0 /\ starved' = FALSE

Prints ==
  \/ print_number \/ print_string \/ OpenArray \/ OpenObject
  \/ Indent \/ PrintKey \/ UpdateOffset \/ PrintColon \/ PrintComma \/ PrintClose
  \/ Returns \/ ReturnFails \/ PrintFails \/ Printed

PrintCall ==
  /\ ppc = "rest" /\ pc = "idle"
  /\ \E x \in roots :
       Alone(x) /\ (cJSON_Print(x) \/ cJSON_PrintBuffered(x) \/ cJSON_PrintPreallocated(x))

PrinterNext ==
  \/ ppc = "rest" /\ Next /\ UNCHANGED printVars
  \/ (PrintCall \/ Prints) /\ UNCHANGED vars

PrinterSpec == PrinterInit /\ [][PrinterNext]_<<vars, printVars>>

-----------------------------------------------------------------------------
(* Properties                                                              *)

(* No piece is written past the end of the buffer, nor past the end of the *)
(* one that the caller supplies; and where a piece is looked for by its    *)
(* terminator there is one, so that nothing is read that was not written.  *)
InBuffer ==
  /\ Len(buf.bytes) <= buf.length
  /\ noalloc => buf.length <= call.length
  /\ ppc \in {"keyed", "valued", "done", "printed"} =>
       buf.offset + strlen(buf.bytes, buf.offset) < Len(buf.bytes)

(* Of the buffers allocated on the way only the one with the text remains, *)
(* and none if printing failed, wherever memory ran out and whoever freed  *)
(* what then.                                                              *)
OnlyTextLeft ==
  /\ ppc = "printed" => blocks = IF noalloc THEN 0 ELSE 1
  /\ ppc \in {"null", "rest"} => blocks = 0

=============================================================================
