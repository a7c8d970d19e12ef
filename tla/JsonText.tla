------------------------------ MODULE JsonText ------------------------------
(***************************************************************************)
(* The texts of JSON and of an item, which the parser (CJsonParser) and    *)
(* the printer (CJsonPrinter) are held against.                            *)
(***************************************************************************)
EXTENDS CJsonPrinter

-----------------------------------------------------------------------------
(* What is parsed                                                          *)

(* The grammar of JSON, on texts without white space.                      *)
RECURSIVE IsValue(_), AreElements(_, _)

IsMember(s) == Len(s) > 2 /\ s[1] = "q" /\ s[2] = ":" /\ IsValue(SubSeq(s, 3, Len(s)))

AreElements(s, kind) ==
  LET is(e) == IF kind = "Array" THEN IsValue(e) ELSE IsMember(e)
  IN \/ is(s)
     \/ \E k \in DOMAIN s : /\ s[k] = ","
                            /\ is(SubSeq(s, 1, k - 1))
                            /\ AreElements(SubSeq(s, k + 1, Len(s)), kind)

IsValue(s) ==
  \/ s \in {<<"n">>, <<"q">>}
  \/ \E kind \in Containers :
       /\ Len(s) > 1 /\ s[1] = Opening(kind) /\ s[Len(s)] = Closing(kind)
       /\ Len(s) > 2 => AreElements(SubSeq(s, 2, Len(s) - 1), kind)

(* The text of an item, in the order of print_value.                       *)
RECURSIVE Text(_)
Text(x) ==
  LET m == heap[x]
      kids == Kids(heap, x)
      one(k) == (IF k = 1 THEN <<>> ELSE <<",">>)
                  \o (IF m.kind = "Object" THEN <<"q", ":">> ELSE <<>>) \o Text(kids[k])
  IN IF m.kind = "Number" THEN <<"n">>
     ELSE IF m.kind = "String" THEN <<"q">>
     ELSE <<Opening(m.kind)>> \o FlattenSeq([k \in DOMAIN kids |-> one(k)]) \o <<Closing(m.kind)>>

Bare(s) == SelectSeq(s, LAMBDA c : c # "_")

Nesting(s) ==
  LET open(k) == Cardinality({j \in 1 .. k : s[j] \in {"[", "{"}})
                   - Cardinality({j \in 1 .. k : s[j] \in {"]", "}"}})
  IN CHOOSE d \in 0 .. Len(s) : (\A k \in DOMAIN s : open(k) <= d)
                               /\ (d = 0 \/ \E k \in DOMAIN s : open(k) = d)

(* What comes back is the tree of the text that was read, which is JSON,   *)
(* and a text is refused only if it does not begin with JSON, nests too    *)
(* deeply, or memory runs out; the error position is in the text.          *)
ParsesJson ==
  /\ pc = "parsed" =>
       LET s == Bare(SubSeq(text, 1, offset))
       IN IsValue(s) /\ Text(doc) = s /\ Nesting(s) <= CJSON_NESTING_LIMIT
  /\ pc = "failed" /\ why = "syntax" =>
       \A k \in 1 .. Len(text) : ~IsValue(Bare(SubSeq(text, 1, k)))
  /\ pc = "failed" /\ why = "depth" => Nesting(Bare(text)) > CJSON_NESTING_LIMIT
  /\ pc = "failed" => position < Len(text)

-----------------------------------------------------------------------------
(* What is printed                                                         *)

(* The text of an item at depth d.                                         *)
RECURSIVE Layout(_, _)
Layout(x, d) ==
  LET m == heap[x]
      kids == Kids(heap, x)
      last(k) == k = Len(kids)
      element(k) == Layout(kids[k], d + 1) \o (IF last(k) THEN <<>> ELSE <<",">> \o Fmt(<<" ">>, <<>>))
      name(k) == Quoted(IF heap[kids[k]].string = NULL THEN <<>> ELSE call.string)
      member(k) ==
        Fmt(Tabs(d + 1), <<>>) \o name(k) \o Fmt(<<":", "tab">>, <<":">>)
          \o Layout(kids[k], d + 1) \o (IF last(k) THEN <<>> ELSE <<",">>) \o Fmt(<<"line">>, <<>>)
  IN IF m.kind = "Number" THEN ScalarText
     ELSE IF m.kind = "String" THEN Quoted(call.string)
     ELSE IF m.kind = "Array" THEN <<"[">> \o FlattenSeq([k \in DOMAIN kids |-> element(k)]) \o <<"]">>
     ELSE <<"{">> \o Fmt(<<"line">>, <<>>) \o FlattenSeq([k \in DOMAIN kids |-> member(k)])
            \o Fmt(Tabs(d), <<>>) \o <<"}">>

(* What is printed is the item, whatever had to be allocated on the way;   *)
(* printing fails only for want of memory, or in a buffer of the caller's  *)
(* that does not leave a byte free behind the terminator (cJSON.h asks for *)
(* five).                                                                  *)
PrintsItem ==
  /\ ppc = "printed" => SubSeq(buf.bytes, 1, strlen(buf.bytes, 0)) = Layout(call.item, 0)
  /\ ppc = "null" => starved \/ (noalloc /\ call.length < Len(Layout(call.item, 0)) + 2)

=============================================================================
