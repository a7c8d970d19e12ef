---------------------------- MODULE CJsonParser ----------------------------
(***************************************************************************)
(* The parser of cJSON (cJSON.c), with the calls of CJson on what it       *)
(* returns.  parse_value, parse_array and parse_object call each other:    *)
(* the calls under way are the stack.  Memory may run out at every item    *)
(* and string.                                                             *)
(*                                                                         *)
(* A character of the text stands for all that is read as a whole:  n for  *)
(* a number, null, true or false, q for a string, u for one that does not  *)
(* end or has a bad escape, _ for white space (the NUL of a C string is    *)
(* white space to the parser); a character that is never allowed is left   *)
(* out, as some other character is refused wherever it is.  The text is    *)
(* supplied as far as the parser looks ahead.                              *)
(***************************************************************************)
EXTENDS CJson, SequencesExt

CONSTANTS
  CJSON_NESTING_LIMIT,
  MaxText  (* bound: characters of a text *)

ASSUME ParserAssumption == CJSON_NESTING_LIMIT \in Nat /\ MaxText \in Nat

VARIABLES
  pc,       (* what is parsed next                                       *)
  text,     (* the text as far as it is known, closed: all of it         *)
  closed,
  offset,   (* of the buffer, from 0                                     *)
  stack,    (* item and kind of each array and object under way, with    *)
            (* the first and the last node of its list                   *)
  cur,      (* the item parse_value fills in                             *)
  doc,      (* the item of the whole document                            *)
  why,      (* the reason of a failure (history)                         *)
  position  (* global_error                                              *)

textVars == <<text, closed>>
parseVars == <<pc, textVars, offset, stack, cur, doc, why, position>>
vars == <<itemVars, parseVars>>

Chars == {"[", "]", "{", "}", ",", ":", "n", "q", "u", "_"}

ParserInit ==
  /\ ItemsInit
  /\ pc = "idle" /\ text = <<>> /\ closed = FALSE /\ offset = 0
  /\ stack = <<>> /\ cur = NULL /\ doc = NULL /\ why = "none" /\ position = 0

-----------------------------------------------------------------------------
(* The buffer                                                              *)

At(o) == IF o < Len(text) THEN text[o + 1] ELSE "end"

(* buffer_skip_whitespace: at the end of the text it steps back.           *)
Skip(o) ==
  LET p == CHOOSE k \in o .. Len(text) :
             /\ At(k) # "_"
             /\ \A j \in o .. k - 1 : At(j) = "_"
  IN IF o >= Len(text) THEN o ELSE IF p = Len(text) THEN p - 1 ELSE p

(* Enough is known for one step: this character and the next.              *)
Known == closed \/ Cardinality({k \in offset + 1 .. Len(text) : text[k] # "_"}) >= 2

Supply ==
  /\ pc \notin {"idle", "fail", "failed", "parsed"} /\ ~Known
  /\ \/ Len(text) < MaxText /\ UNCHANGED closed /\ \E c \in Chars : text' = Append(text, c)
     \/ text # <<>> /\ closed' = TRUE /\ UNCHANGED text
  /\ UNCHANGED <<itemVars, pc, offset, stack, cur, doc, why, position>>

-----------------------------------------------------------------------------
(* Steps.  Each goes on at offset o, or fails there.                       *)

To(place, o) ==
  pc' = place /\ offset' = o /\ UNCHANGED <<textVars, doc, why, position>>

Fail(o, reason) ==
  /\ pc' = "fail" /\ offset' = o /\ why' = reason
  /\ UNCHANGED <<textVars, doc, position>>

Fill(kind) == heap' = [heap EXCEPT ![cur].kind = kind]

(* cJSON_ParseWithLengthOpts; bound: while no item is in use.              *)
Begin ==
  /\ pc = "idle" /\ Live(heap) = {}
  /\ \E n \in Items : heap' = New_Item(n, "Invalid") /\ cur' = n /\ doc' = n
  /\ pc' = "start"
  /\ UNCHANGED <<strings, roots, lost, textVars, offset, stack, why, position>>

Start ==
  /\ pc = "start" /\ Known
  /\ To("value", Skip(0))
  /\ UNCHANGED <<itemVars, stack, cur>>

Scalar ==
  /\ pc = "value" /\ Known /\ At(offset) = "n"
  /\ Fill("Number") /\ To("valued", offset + 1)
  /\ UNCHANGED <<strings, roots, lost, stack, cur>>

parse_string ==
  /\ pc = "value" /\ Known /\ At(offset) = "q"
  /\ Fill("String") /\ strings' = strings + 1 /\ To("valued", offset + 1)
  /\ UNCHANGED <<roots, lost, stack, cur>>

StringFails ==
  /\ pc = "value" /\ Known /\ At(offset) \in {"q", "u"}
  /\ Fail(offset + 1, IF At(offset) = "q" THEN "memory" ELSE "syntax")
  /\ UNCHANGED <<itemVars, stack, cur>>

ValueFails ==
  /\ pc = "value" /\ Known /\ At(offset) \notin {"n", "q", "u", "[", "{"}
  /\ Fail(offset, "syntax")
  /\ UNCHANGED <<itemVars, stack, cur>>

Opening(kind) == IF kind = "Array" THEN "[" ELSE "{"
Closing(kind) == IF kind = "Array" THEN "]" ELSE "}"

(* a mutant: one level more than the limit.                                 *)
OpenTooDeep(kind) ==
  LET o == Skip(offset + 1)
  IN /\ pc = "value" /\ Known /\ At(offset) = Opening(kind)
     /\ IF Len(stack) > CJSON_NESTING_LIMIT
        THEN Fail(offset, "depth") /\ UNCHANGED <<heap, stack>>
        ELSE IF At(o) = Closing(kind)
        THEN Fill(kind) /\ To("valued", o + 1) /\ UNCHANGED stack
        ELSE IF At(o) = "end"
        THEN Fail(o - 1, "syntax") /\ UNCHANGED <<heap, stack>>
        ELSE /\ stack' = Append(stack, [item |-> cur, kind |-> kind, head |-> NULL, tail |-> NULL])
             /\ To("element", o - 1) /\ UNCHANGED heap
     /\ UNCHANGED <<strings, roots, lost, cur>>

(* parse_array, parse_object up to the first element.                      *)
Open(kind) ==
  LET o == Skip(offset + 1)
  IN /\ pc = "value" /\ Known /\ At(offset) = Opening(kind)
     /\ IF Len(stack) >= CJSON_NESTING_LIMIT
        THEN Fail(offset, "depth") /\ UNCHANGED <<heap, stack>>
        ELSE IF At(o) = Closing(kind)
        THEN Fill(kind) /\ To("valued", o + 1) /\ UNCHANGED stack
        ELSE IF At(o) = "end"
        THEN Fail(o - 1, "syntax") /\ UNCHANGED <<heap, stack>>
        ELSE /\ stack' = Append(stack, [item |-> cur, kind |-> kind, head |-> NULL, tail |-> NULL])
             /\ To("element", o - 1) /\ UNCHANGED heap
     /\ UNCHANGED <<strings, roots, lost, cur>>

Top == stack[Len(stack)]

(* The next node of a list is linked before its value is parsed.           *)
Element ==
  /\ pc = "element" /\ Known
  /\ \E n \in Unused :
       /\ heap' = LET h == New_Item(n, "Invalid")
                  IN IF Top.head = NULL THEN h ELSE suffix_object(h, Top.tail, n)
       /\ stack' = [stack EXCEPT ![Len(stack)].head = IF @ = NULL THEN n ELSE @,
                                 ![Len(stack)].tail = n]
       /\ cur' = n
  /\ IF Top.kind = "Array" THEN To("value", Skip(offset + 1)) ELSE To("name", offset)
  /\ UNCHANGED <<strings, roots, lost>>

ElementFails ==
  /\ pc = "element"
  /\ Fail(offset, "memory")
  /\ UNCHANGED <<itemVars, stack, cur>>

(* The name is parsed as a value is, and moved.                            *)
Name ==
  LET o == Skip(offset + 1)
  IN /\ pc = "name" /\ Known /\ At(o) = "q"
     /\ \E key \in Keys : heap' = [heap EXCEPT ![cur].string = key]
     /\ strings' = strings + 1
     /\ To("colon", o + 1)
     /\ UNCHANGED <<roots, lost, stack, cur>>

NameFails ==
  LET o == Skip(offset + 1)
  IN /\ pc = "name" /\ Known
     /\ IF offset + 1 >= Len(text) THEN Fail(offset, "syntax")
        ELSE Fail(o + 1, IF At(o) = "q" THEN "memory" ELSE "syntax")
     /\ UNCHANGED <<itemVars, stack, cur>>

Colon ==
  /\ pc = "colon" /\ Known
  /\ LET o == Skip(offset)
     IN IF At(o) = ":" THEN To("value", Skip(o + 1)) ELSE Fail(o, "syntax")
  /\ UNCHANGED <<itemVars, stack, cur>>

(* Behind an element.                                                      *)
Comma ==
  /\ pc = "valued" /\ Known /\ stack # <<>> /\ At(Skip(offset)) = ","
  /\ To("element", Skip(offset))
  /\ UNCHANGED <<itemVars, stack, cur>>

(* a mutant: either bracket closes a list.                                  *)
CloseByEither ==
  /\ pc = "valued" /\ Known /\ stack # <<>> /\ At(Skip(offset)) \in {"]", "}"}
  /\ heap' = [heap EXCEPT ![Top.head].prev = Top.tail,
                          ![Top.item].kind = Top.kind, ![Top.item].child = Top.head]
  /\ cur' = Top.item
  /\ stack' = SubSeq(stack, 1, Len(stack) - 1)
  /\ To("valued", Skip(offset) + 1)
  /\ UNCHANGED <<strings, roots, lost>>

Close ==
  /\ pc = "valued" /\ Known /\ stack # <<>> /\ At(Skip(offset)) = Closing(Top.kind)
  /\ heap' = [heap EXCEPT ![Top.head].prev = Top.tail,
                          ![Top.item].kind = Top.kind, ![Top.item].child = Top.head]
  /\ cur' = Top.item
  /\ stack' = SubSeq(stack, 1, Len(stack) - 1)
  /\ To("valued", Skip(offset) + 1)
  /\ UNCHANGED <<strings, roots, lost>>

ElementEndsBadly ==
  /\ pc = "valued" /\ Known /\ stack # <<>> /\ At(Skip(offset)) \notin {",", Closing(Top.kind)}
  /\ Fail(Skip(offset), "syntax")
  /\ UNCHANGED <<itemVars, stack, cur>>

(* a mutant: the label fail forgets its list.                               *)
UnwindForgets ==
  /\ pc = "fail" /\ stack # <<>>
  /\ stack' = SubSeq(stack, 1, Len(stack) - 1)
  /\ UNCHANGED <<itemVars, pc, textVars, offset, cur, doc, why, position>>

(* The labels fail, innermost first: each deletes its list.                *)
Unwind ==
  /\ pc = "fail" /\ stack # <<>>
  /\ IF Top.head = NULL THEN UNCHANGED <<heap, strings>> ELSE Released(heap, Top.head)
  /\ stack' = SubSeq(stack, 1, Len(stack) - 1)
  /\ UNCHANGED <<roots, lost, pc, textVars, offset, cur, doc, why, position>>

ReturnNull ==
  /\ pc = "fail" /\ stack = <<>>
  /\ Released(heap, doc)
  /\ position' = IF offset < Len(text) THEN offset ELSE Len(text) - 1
  /\ pc' = "failed"
  /\ UNCHANGED <<roots, lost, textVars, offset, stack, cur, doc, why>>

ReturnItem ==
  /\ pc = "valued" /\ stack = <<>>
  /\ roots' = roots \union {doc}
  /\ pc' = "parsed"
  /\ UNCHANGED <<heap, strings, lost, textVars, offset, stack, cur, doc, why, position>>

(* The caller goes on (the text is no longer of interest).                 *)
Returned ==
  /\ pc \in {"failed", "parsed"}
  /\ pc' = "idle" /\ text' = <<>> /\ closed' = FALSE /\ offset' = 0
  /\ cur' = NULL /\ doc' = NULL /\ why' = "none" /\ position' = 0
  /\ UNCHANGED <<itemVars, stack>>

Parse ==
  \/ Begin \/ Start
  \/ Scalar \/ parse_string \/ StringFails \/ ValueFails
  \/ \E kind \in Containers : Open(kind)
  \/ Element \/ ElementFails \/ Name \/ NameFails \/ Colon
  \/ Comma \/ Close \/ ElementEndsBadly
  \/ Unwind \/ ReturnNull \/ ReturnItem \/ Returned

(* Bound: what has leaves of another kind is only deleted.                 *)
CallOnItems ==
  /\ pc = "idle"
  /\ IF \A n \in Live(heap) : heap[n].kind \in Containers \union Leaves
     THEN Call
     ELSE \E x \in roots : Delete(x)
  /\ UNCHANGED parseVars

Next == Supply \/ Parse \/ CallOnItems

Spec == ParserInit /\ [][Next]_vars

-----------------------------------------------------------------------------
(* Properties                                                              *)

ParserOK ==
  /\ pc \in {"idle", "start", "value", "element", "name", "colon", "valued", "fail", "failed",
             "parsed"}
  /\ offset \in 0 .. Len(text) /\ position \in 0 .. MaxText
  /\ Len(text) <= MaxText /\ \A k \in DOMAIN text : text[k] \in Chars
  /\ Len(stack) <= CJSON_NESTING_LIMIT
  /\ \A k \in DOMAIN stack :
       {stack[k].item, stack[k].head, stack[k].tail} \subseteq Items \union {NULL}

TypeOK == ItemsOK /\ ParserOK

(* Nothing is lost or freed twice on any way out of the parser, nor by the *)
(* calls: at every moment the nodes in use are those below the caller's    *)
(* items and below the lists under way.                                    *)
UnderWay ==
  (IF pc \in {"idle", "failed", "parsed"} THEN {} ELSE {doc})
    \union ({stack[k].head : k \in DOMAIN stack} \ {NULL})

MemoryOwned == OwnedBy(roots \union UnderWay)

(* Items are trees, as far as the caller can tell.                         *)
Visible(n) == IsOwner(n) /\ pc \in {"idle", "parsed"}

Tree == INSTANCE JsonTree WITH
  kids <- [n \in Items |-> IF Visible(n) THEN Kids(heap, n) ELSE <<>>],
  held <- roots

ItemsAreTrees == Tree!Spec

=============================================================================
