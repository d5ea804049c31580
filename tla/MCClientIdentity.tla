-------------------------- MODULE MCClientIdentity --------------------------
(* Constants of ClientIdentity for TLC. *)
EXTENDS ClientIdentity, TLC

CallSymmetry == Permutations(Call)
TwoTokens == [ch \in Character |-> IF ch = "a" THEN 2 ELSE 1]
FirstOfA == {[char |-> "a", n |-> 1]}
Firsts == [char : Character, n : {1}]
OneView == [v \in View |-> "a"]
=============================================================================
