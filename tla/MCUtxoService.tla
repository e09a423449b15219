--------------------------- MODULE MCUtxoService ----------------------------
(* Instances of UtxoService: a large, two equal and a small outpoint.      *)
EXTENDS UtxoService, TLC

CONSTANTS large, twin1, twin2, small

MCValue ==
  [o \in Outpoints |-> CASE o = large -> 3
                         [] o \in {twin1, twin2} -> 2
                         [] OTHER -> 1]

Symmetry == Permutations(Callers)

(* The two outpoints of equal value are interchangeable.                   *)
SymmetryTwins == Symmetry \cup Permutations({twin1, twin2})
=============================================================================
