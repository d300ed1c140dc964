---------------------------- MODULE MCSelection ----------------------------
(* Selection for TLC: the requests are interchangeable.                    *)
EXTENDS Selection, TLC

Symmetry == Permutations(Requests)

Three == <<"brave", "exa", "parallel">>
=============================================================================
