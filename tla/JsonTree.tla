------------------------------ MODULE JsonTree ------------------------------
(***************************************************************************)
(* What cJSON promises of its items: ordered trees.  Every item is held by *)
(* the caller or stands at one place in the list of one other item; calls  *)
(* move an item that is held into a list, take one out, exchange two, and  *)
(* release an item with all that is below it.                              *)
(***************************************************************************)
EXTENDS Integers, Sequences, SequencesExt

CONSTANT Items

VARIABLES
  kids,  (* the list of each item                    *)
  held   (* the items the caller has                 *)

treeVars == <<kids, held>>

Init == kids = [n \in Items |-> <<>>] /\ held = {}

(* The items in the lists of items of S. *)
Listed(S) == UNION {ToSet(kids[n]) : n \in S}

Used == held \union Listed(Items)

(* What is released with x: all that is in each set of items that has x    *)
(* and, with an item, those in its list.                                   *)
Below(x) ==
  {n \in Items : \A S \in SUBSET Items : x \in S /\ Listed(S) \subseteq S => n \in S}

(* A new tree: created, parsed or duplicated. *)
Create ==
  \E x \in Items \ held :
    /\ held' = held \union {x} /\ x \notin Used
    /\ \A n \in Used : kids'[n] = kids[n]
    /\ \A n \in Items : ToSet(kids'[n]) \intersect (Used \ ToSet(kids[n])) = {}

Insert(a, i, p) ==
  /\ i \in held /\ held' = held \ {i}
  /\ kids' = [kids EXCEPT ![a] = InsertAt(@, p, i)]
  /\ a \notin Below(i)

(* Insertion of an item made for it. *)
Grow(a, i) ==
  /\ UNCHANGED held
  /\ i \notin Used /\ a \in Used
  /\ kids' = [kids EXCEPT ![a] = Append(@, i)]

TakeOut(a, p) ==
  /\ held' = held \union {kids[a][p]}
  /\ kids' = [kids EXCEPT ![a] = RemoveAt(@, p)]

Release(x) ==
  /\ x \in held /\ held' = held \ {x}
  /\ LET below == Below(x)
     IN kids' = [n \in Items |-> IF n \in below THEN <<>> ELSE kids[n]]

RemoveAndRelease(a, p) ==
  LET below == Below(kids[a][p])
  IN /\ UNCHANGED held
     /\ kids' = [n \in Items |-> IF n \in below THEN <<>>
                                 ELSE IF n = a THEN RemoveAt(kids[a], p) ELSE kids[n]]

Exchange(a, p, i) ==
  LET below == Below(kids[a][p])
  IN /\ i \in held /\ held' = held \ {i}
     /\ kids' = [n \in Items |-> IF n \in below THEN <<>>
                                 ELSE IF n = a THEN ReplaceAt(kids[a], p, i) ELSE kids[n]]
     /\ a \notin Below(i)

Step ==
  \/ Create
  \/ \E a, i \in Items : Grow(a, i) \/ \E p \in 1 .. Len(kids[a]) + 1 : Insert(a, i, p)
  \/ \E a \in Items : \E p \in DOMAIN kids[a] :
       TakeOut(a, p) \/ RemoveAndRelease(a, p) \/ \E i \in Items : Exchange(a, p, i)
  \/ \E x \in Items : Release(x)

Next == treeVars' # treeVars /\ Step

Spec == Init /\ [][Next]_treeVars

=============================================================================
