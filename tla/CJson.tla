------------------------------- MODULE CJson -------------------------------
(***************************************************************************)
(* The items of cJSON (cJSON.c): nodes of a heap, in lists whose first     *)
(* node points back to the last, with the calls that build trees of them   *)
(* and take them apart.  main.c builds its results and reads its           *)
(* configuration and the evaluator's answers with them.                    *)
(*                                                                         *)
(* The caller keeps to the contract of cJSON.h: it adds what it holds, to  *)
(* an array or object and never below itself, and while a reference to an  *)
(* item is in use it deletes nothing of that item.  Values are left out,   *)
(* but not the memory of strings and keys.  Memory may run out at every    *)
(* allocation; a call that then undoes all it did is no step.              *)
(***************************************************************************)
EXTENDS Integers, FiniteSets, Sequences

CONSTANTS
  Items,    (* nodes of the heap                *)
  Keys,     (* names of members                 *)
  NULL,
  Leaves,   (* kinds of items without a list: Number (also for null, true  *)
            (* and false), String                                         *)
  MaxContainers  (* bound: arrays and objects *)

ASSUME ItemsAssumption ==
  /\ IsFiniteSet(Items) /\ NULL \notin Items \union Keys
  /\ Leaves \subseteq {"Number", "String"}
  /\ MaxContainers \in Nat

MaxItems == Cardinality(Items)

VARIABLES
  heap,     (* struct cJSON of every node; kind FREE: not allocated      *)
  strings,  (* number of strings allocated                               *)
  roots,    (* the nodes the caller holds                                *)
  lost      (* nodes that nobody holds any more                          *)

itemVars == <<heap, strings, roots, lost>>

Containers == {"Array", "Object"}

(* of: the item a reference was made of (history).                         *)
Free == [kind |-> "FREE", ref |-> FALSE, const |-> FALSE, next |-> NULL, prev |-> NULL,
         child |-> NULL, string |-> NULL, of |-> NULL]
Zeroed == [Free EXCEPT !.kind = "Invalid"]

ItemsInit ==
  heap = [n \in Items |-> Free] /\ strings = 0 /\ roots = {} /\ lost = {}

-----------------------------------------------------------------------------
(* Walks.  All take the heap h they are about.                             *)

Live(h) == {n \in Items : h[n].kind # "FREE"}

(* The nodes from x on, along next.                                        *)
List(h, x) ==
  LET after == [n \in Items \union {NULL} |-> IF n = NULL THEN NULL ELSE h[n].next]
      at[k \in 1 .. MaxItems + 1] == IF k = 1 THEN x ELSE after[at[k - 1]]
  IN [k \in 1 .. Cardinality({j \in 1 .. MaxItems + 1 : at[j] # NULL}) |-> at[k]]

Kids(h, p) == IF h[p].child = NULL THEN <<>> ELSE List(h, h[p].child)

(* What can be reached from S through next and child, of a reference too   *)
(* if deep.                                                                *)
Reach(h, S, deep) ==
  LET links(n) == {h[n].next} \union (IF deep \/ ~h[n].ref THEN {h[n].child} ELSE {})
      step == [T \in SUBSET Items |-> T \union ((UNION {links(n) : n \in T}) \ {NULL})]
      r[k \in 0 .. MaxItems] == IF k = 0 THEN S ELSE step[r[k - 1]]
  IN r[MaxItems]

Below(h, x) == Reach(h, {x}, FALSE)

OwnsString(m) == m.kind = "String" /\ ~m.ref
OwnsKey(m) == m.string # NULL /\ ~m.const

Strings(h, S) ==
  Cardinality({n \in S : OwnsString(h[n])}) + Cardinality({n \in S : OwnsKey(h[n])})

-----------------------------------------------------------------------------
(* Steps the calls are made of                                             *)

(* Bound: a reference takes the room of two items.                         *)
HasRoom(k) ==
  Cardinality(Live(heap)) + Cardinality({r \in Live(heap) : heap[r].ref}) + k <= Cardinality(Items)

Unused == Items \ Live(heap)

(* cJSON_New_Item, or the return without effect.                           *)
New_Item(n, kind) == [heap EXCEPT ![n] = [Zeroed EXCEPT !.kind = kind]]

(* cJSON_Delete: x, what follows it, and what they own.                    *)
Freed(h, x) == [n \in Items |-> IF n \in Below(h, x) THEN Free ELSE h[n]]

suffix_object(h, p, i) == [h EXCEPT ![p].next = i, ![i].prev = p]

(* A list whose head does not point back is left as it is.                 *)
add_item_to_array(h, a, i) ==
  LET c == h[a].child
  IN IF c = NULL THEN [h EXCEPT ![a].child = i, ![i].prev = i, ![i].next = NULL]
     ELSE IF h[c].prev = NULL THEN h
     ELSE [suffix_object(h, h[c].prev, i) EXCEPT ![c].prev = i]

WithKey(h, i, key, const) == [h EXCEPT ![i].string = key, ![i].const = const]

(* a mutant: the first node does not learn of a new last one.               *)
DetachedTailKept(h, p, i) ==
  LET h1 == IF i = h[p].child THEN h ELSE [h EXCEPT ![h[i].prev].next = h[i].next]
      h2 == IF h[i].next = NULL THEN h1 ELSE [h1 EXCEPT ![h[i].next].prev = h[i].prev]
      h3 == IF i = h[p].child THEN [h2 EXCEPT ![p].child = h[i].next] ELSE h2
  IN [h3 EXCEPT ![i].prev = NULL, ![i].next = NULL]

(* DetachItemViaPointer, of an item that is in the list of p.              *)
Detached(h, p, i) ==
  LET first == i = h[p].child
      last == h[i].next = NULL
      h1 == IF first THEN h ELSE [h EXCEPT ![h[i].prev].next = h[i].next]
      h2 == IF last THEN h1 ELSE [h1 EXCEPT ![h[i].next].prev = h[i].prev]
      h3 == IF first THEN [h2 EXCEPT ![p].child = h[i].next]
            ELSE IF last THEN [h2 EXCEPT ![h[p].child].prev = h[i].prev]
            ELSE h2
  IN [h3 EXCEPT ![i].prev = NULL, ![i].next = NULL]

(* a mutant: the list does not learn of its new first item.                 *)
InsertedBehindHead(h, a, b, i) ==
  LET h1 == [h EXCEPT ![i].next = b, ![i].prev = h[b].prev, ![b].prev = i]
  IN IF b = h[a].child THEN h1 ELSE [h1 EXCEPT ![h[b].prev].next = i]

(* InsertItemInArray before b, an item of the list.                        *)
Inserted(h, a, b, i) ==
  LET h1 == [h EXCEPT ![i].next = b, ![i].prev = h[b].prev, ![b].prev = i]
  IN IF b = h[a].child THEN [h1 EXCEPT ![a].child = i] ELSE [h1 EXCEPT ![h[b].prev].next = i]

(* ReplaceItemViaPointer up to the deletion of x.                          *)
Replaced(h, p, x, r) ==
  LET h1 == [h EXCEPT ![r].next = h[x].next, ![r].prev = h[x].prev]
      h2 == IF h[x].next = NULL THEN h1 ELSE [h1 EXCEPT ![h[x].next].prev = r]
      h3 == IF x = h[p].child
            THEN IF h2[x].prev = x
                 THEN [h2 EXCEPT ![r].prev = r, ![p].child = r]
                 ELSE [h2 EXCEPT ![p].child = r]
            ELSE LET g == [h2 EXCEPT ![h[x].prev].next = r]
                 IN IF h[x].next = NULL THEN [g EXCEPT ![h[p].child].prev = r] ELSE g
  IN [h3 EXCEPT ![x].next = NULL, ![x].prev = NULL]

-----------------------------------------------------------------------------
(* The caller's contract                                                   *)

Members(h, p) == LET kids == Kids(h, p) IN {kids[k] : k \in DOMAIN kids}

IsOwner(p) == heap[p].kind \in Containers /\ ~heap[p].ref /\ p \notin lost
Owners == {p \in Items : IsOwner(p)}
Lists(kind) == {p \in Owners : heap[p].kind = kind}

MayAdd(p, i) == i \in roots /\ p \notin Below(heap, i)

(* Nobody refers to anything in S from outside of S.                       *)
MayDelete(S) ==
  \A r \in Live(heap) \ S :
    heap[r].ref => heap[r].of \notin S /\ Reach(heap, {heap[r].child} \ {NULL}, TRUE) \intersect S = {}

(* get_object_item                                                         *)
Named(h, o, key) ==
  LET kids == Kids(h, o)
      hits == {k \in DOMAIN kids : h[kids[k]].string = key}
  IN IF hits = {} THEN NULL ELSE kids[CHOOSE k \in hits : \A j \in hits : k <= j]

(* What a call can name in p: by its index, or as the first of its name.   *)
CanName(p) ==
  IF heap[p].kind = "Array" THEN Members(heap, p)
  ELSE {Named(heap, p, key) : key \in Keys} \ {NULL}

-----------------------------------------------------------------------------
(* The calls                                                               *)

CreateItem(n, kind) ==
  /\ heap' = New_Item(n, kind)
  /\ strings' = IF kind = "String" THEN strings + 1 ELSE strings
  /\ roots' = roots \union {n}
  /\ UNCHANGED lost

(* CreateArrayReference, CreateObjectReference                             *)
CreateReference(n, kind, c) ==
  /\ heap' = [New_Item(n, kind) EXCEPT ![n].ref = TRUE, ![n].child = c]
  /\ roots' = roots \union {n}
  /\ UNCHANGED <<strings, lost>>

AddItemToArray(a, i) ==
  /\ MayAdd(a, i)
  /\ heap' = add_item_to_array(heap, a, i)
  /\ roots' = roots \ {i}
  /\ UNCHANGED <<strings, lost>>

(* With AddItemToObjectCS the key stays the caller's.                      *)
KeyFreed(i) == IF OwnsKey(heap[i]) THEN 1 ELSE 0
KeyCopied(const) == IF const THEN 0 ELSE 1

AddItemToObject(o, key, i, const) ==
  /\ MayAdd(o, i)
  /\ heap' = add_item_to_array(WithKey(heap, i, key, const), o, i)
  /\ strings' = strings - KeyFreed(i) + KeyCopied(const)
  /\ roots' = roots \ {i}
  /\ UNCHANGED lost

(* create_reference: a copy of i without its key.                          *)
Referring(h, r, i) ==
  [h EXCEPT ![r] = [h[i] EXCEPT !.string = NULL, !.ref = TRUE, !.next = NULL, !.prev = NULL,
                                !.of = i]]

AddItemReferenceToArray(a, r, i) ==
  /\ heap' = add_item_to_array(Referring(heap, r, i), a, r)
  /\ UNCHANGED <<strings, roots, lost>>

AddItemReferenceToObject(o, key, r, i) ==
  /\ heap' = add_item_to_array(WithKey(Referring(heap, r, i), r, key, FALSE), o, r)
  /\ strings' = strings + 1
  /\ UNCHANGED <<roots, lost>>

(* No memory for the key: the reference is not released.                   *)
AddItemReferenceFails(r, i) ==
  /\ heap' = Referring(heap, r, i)
  /\ lost' = lost \union {r}
  /\ UNCHANGED <<strings, roots>>

(* AddNumberToObject and the like                                          *)
AddNewToObject(o, key, n, kind) ==
  /\ heap' = add_item_to_array(WithKey(New_Item(n, kind), n, key, FALSE), o, n)
  /\ strings' = strings + (IF kind = "String" THEN 2 ELSE 1)
  /\ UNCHANGED <<roots, lost>>

DetachItem(p, x) ==
  /\ heap' = Detached(heap, p, x)
  /\ roots' = roots \union {x}
  /\ UNCHANGED <<strings, lost>>

Released(h, x) == heap' = Freed(h, x) /\ strings' = strings - Strings(h, Below(h, x))

DeleteItem(p, x) ==
  /\ MayDelete(Below(Detached(heap, p, x), x))
  /\ Released(Detached(heap, p, x), x)
  /\ UNCHANGED <<roots, lost>>

Delete(x) ==
  /\ x \in roots /\ MayDelete(Below(heap, x))
  /\ Released(heap, x)
  /\ roots' = roots \ {x}
  /\ UNCHANGED lost

(* Behind the last item it is an addition.                                 *)
InsertItemInArray(a, b, i) ==
  /\ MayAdd(a, i)
  /\ heap' = Inserted(heap, a, b, i)
  /\ roots' = roots \ {i}
  /\ UNCHANGED <<strings, lost>>

ReplaceItemInArray(a, x, r) ==
  /\ MayAdd(a, r)
  /\ LET h == Replaced(heap, a, x, r)
     IN MayDelete(Below(h, x)) /\ Released(h, x)
  /\ roots' = roots \ {r}
  /\ UNCHANGED lost

(* The replacement gets the name first, whether or not there is an item of *)
(* that name to replace.                                                   *)
ReplaceItemInObject(o, key, r) ==
  /\ MayAdd(o, r)
  /\ LET x == Named(heap, o, key)
         named == WithKey(heap, r, key, FALSE)
         h == Replaced(named, o, x, r)
     IN IF x = NULL
        THEN /\ heap' = named
             /\ strings' = strings - KeyFreed(r) + 1
             /\ UNCHANGED roots
        ELSE /\ MayDelete(Below(h, x))
             /\ heap' = Freed(h, x)
             /\ strings' = strings - KeyFreed(r) + 1 - Strings(h, Below(h, x))
             /\ roots' = roots \ {r}
  /\ UNCHANGED lost

(* No memory for the name: the replacement has lost its old one.           *)
ReplaceItemFails(r) ==
  /\ r \in roots /\ heap[r].string # NULL
  /\ heap' = [heap EXCEPT ![r].string = NULL]
  /\ strings' = strings - KeyFreed(r)
  /\ UNCHANGED <<roots, lost>>

(* Duplicate: the copies of x and of all that is below it, of a reference  *)
(* as well; each list of copies is built link by link, its head last.      *)
Nest(h, x) == {x} \union Reach(h, {h[x].child} \ {NULL}, TRUE)

Pointers(h, S, n) ==
  Cardinality({m \in S : h[m].next = n}) + Cardinality({m \in S : h[m].child = n})

IsTree(h, x) ==
  \A n \in Nest(h, x) :
    Pointers([h EXCEPT ![x].next = NULL], Nest(h, x), n) = IF n = x THEN 0 ELSE 1

Injective(f) == \A m, n \in DOMAIN f : f[m] = f[n] => m = n

Copied(h, f, x) ==
  LET S == DOMAIN f
      src(n) == CHOOSE m \in S : f[m] = n
      to(m) == IF m \in S THEN f[m] ELSE NULL
      before(m) ==   (* prev of a copy *)
        IF m = x THEN NULL
        ELSE IF \E p \in S : h[p].child = m
             THEN f[List(h, m)[Len(List(h, m))]]
             ELSE f[CHOOSE p \in S \ {x} : h[p].next = m]
      copy(m) == [h[m] EXCEPT !.ref = FALSE, !.of = NULL, !.child = to(@), !.prev = before(m),
                              !.next = IF m = x THEN NULL ELSE to(@)]
  IN [n \in Items |-> IF \E m \in S : f[m] = n THEN copy(src(n)) ELSE h[n]]

Duplicate(x, recurse) ==
  LET S == IF recurse THEN Nest(heap, x) ELSE {x}
  IN /\ HasRoom(Cardinality(S))
     /\ recurse => IsTree(heap, x)
     /\ \E f \in [S -> Unused] :
          /\ Injective(f)
          /\ heap' = Copied(heap, f, x)
          /\ strings' = strings + Strings(heap', {f[m] : m \in S})
          /\ roots' = roots \union {f[x]}
     /\ UNCHANGED lost

-----------------------------------------------------------------------------
Additions(p, i) ==
  IF heap[p].kind = "Array"
  THEN \/ AddItemToArray(p, i)
       \/ \E b \in Members(heap, p) : InsertItemInArray(p, b, i) \/ ReplaceItemInArray(p, b, i)
  ELSE \E key \in Keys :
         \/ \E const \in BOOLEAN : AddItemToObject(p, key, i, const)
         \/ ReplaceItemInObject(p, key, i)


MayNest(k) == Cardinality({n \in Live(heap) : heap[n].kind \in Containers}) + k <= MaxContainers

References(r) ==
  /\ HasRoom(2)
  /\ \/ \E kind \in Containers, c \in Live(heap) \ lost : CreateReference(r, kind, c)
     \/ \E i \in Live(heap) \ lost :
          \/ \E a \in Lists("Array") : AddItemReferenceToArray(a, r, i)
          \/ \E o \in Lists("Object"), key \in Keys : AddItemReferenceToObject(o, key, r, i)
          \/ Lists("Object") # {} /\ AddItemReferenceFails(r, i)

Creations(n) ==
  /\ HasRoom(1)
  /\ \/ \E kind \in Leaves : CreateItem(n, kind)
     \/ \E kind \in Containers : MayNest(1) /\ CreateItem(n, kind)
     \/ \E o \in Lists("Object"), key \in Keys, kind \in Leaves : AddNewToObject(o, key, n, kind)
     \/ References(n)

Call ==
  \/ \E n \in Unused : Creations(n)
  \/ \E p \in Owners, i \in roots : Additions(p, i)
  \/ \E p \in Owners : \E x \in CanName(p) : DetachItem(p, x) \/ DeleteItem(p, x)
  \/ \E x \in roots : Delete(x) \/ ReplaceItemFails(x)
  \/ \E x \in Live(heap) \ lost, recurse \in BOOLEAN : Duplicate(x, recurse)

ItemsSpec == ItemsInit /\ [][Call]_itemVars

-----------------------------------------------------------------------------
(* Properties                                                              *)

ItemOK(m) ==
  m \in [kind : Containers \union {"Number", "String", "Invalid", "FREE"}, ref : BOOLEAN,
         const : BOOLEAN, next : Items \union {NULL}, prev : Items \union {NULL},
         child : Items \union {NULL}, string : Keys \union {NULL}, of : Items \union {NULL}]

ItemsOK ==
  /\ \A n \in Items : ItemOK(heap[n])
  /\ strings \in Nat /\ roots \subseteq Items /\ lost \subseteq Items

(* The list of p: its head points back to its last node, every other node  *)
(* to the one before it.                                                   *)
Linked(h, p) ==
  LET kids == Kids(h, p)
  IN \A k \in DOMAIN kids :
       h[kids[k]].prev = IF k = 1 THEN kids[Len(kids)] ELSE kids[k - 1]

(* Whatever the calls, each node is in one list or is the caller's: it is  *)
(* reached once, lists end and can be walked both ways.  A call that left  *)
(* a stale link would show only at the next addition or deletion.          *)
ListsLinked ==
  /\ \A p \in Owners : Linked(heap, p) /\ Len(Kids(heap, p)) <= MaxItems
  /\ \A x \in roots : heap[x].next = NULL
  /\ \A p, q \in Owners : p # q => Members(heap, p) \intersect Members(heap, q) = {}
  /\ \A p \in Owners : Members(heap, p) \intersect roots = {}

(* The nodes in use are those below the nodes of S, and the lost ones;     *)
(* none that something points to is free; each string belongs to one node. *)
OwnedBy(S) ==
  /\ Live(heap) = (UNION {Below(heap, x) : x \in S}) \union lost
  /\ Reach(heap, Live(heap), TRUE) \subseteq Live(heap)
  /\ strings = Strings(heap, Live(heap))

=============================================================================
