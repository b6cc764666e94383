------------------------------ MODULE MCUpdater ------------------------------
EXTENDS Updater, TLC
CONSTANTS v0, v1, v2
(* 1.0 runs; 1.0.1 is newer; the third tag is no dotted number.               *)
Numbers == (v0 :> <<1, 0>>) @@ (v1 :> <<1, 0, 1>>) @@ (v2 :> <<>>)
Some == {[version |-> v1, public |-> TRUE, asset |-> TRUE],
         [version |-> v2, public |-> TRUE, asset |-> TRUE]}
Symmetry == Permutations(Handlers)
=============================================================================
