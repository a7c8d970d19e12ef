------------------------------- MODULE MCJson -------------------------------
(* Instances of JsonText for TLC: the nodes of the heap are alike.           *)
EXTENDS JsonText

Alike == Permutations(Items)

MCTexts == {<<>>, <<"quote", "control">>}

=============================================================================
