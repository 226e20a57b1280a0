----------------------------- MODULE MCJsonTree -----------------------------
(* JsonTree for TLC.                                                       *)
EXTENDS JsonTree
MCKinds == {[type |-> "array", val |-> <<>>],
            [type |-> "object", val |-> <<>>],
            [type |-> "true", val |-> <<>>]}
MCNames == {<<"\"">>}
Symmetry == Permutations(Items)
=============================================================================
