-------------------------- MODULE MCGenerateChange --------------------------
(* Small instances of GenerateChange for TLC. *)
EXTENDS GenerateChange

\* An input costs 8 satoshis, or 7; an output 2, or 1.
MCSatoshis == [i \in {1, 2, 3, 4} |-> CASE i = 1 -> 3 [] i = 2 -> 14 [] i = 3 -> 20 [] i = 4 -> 41]
MCFixedInputs == {<<>>, <<30>>}
MCFixedOutputs == {<<10>>, <<20, 7>>}
MCTargets == {None, -1, 1, 2}
=============================================================================
