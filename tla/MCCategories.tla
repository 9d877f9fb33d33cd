---------------------------- MODULE MCCategories ----------------------------
(* Instances of Categories for TLC: the names A, A/B and A/C.              *)
EXTENDS Categories, TLC

CONSTANTS A, AB, AC

TreeOfThree == [c \in {A, AB, AC} |-> IF c = A THEN {} ELSE {A}]
TreeOfTwo == [c \in {A, AB} |-> IF c = A THEN {} ELSE {A}]
SwapChildren == Permutations({AB, AC})
=============================================================================
