------------------------------- MODULE MCDag -------------------------------
(* Instances of Dag for TLC. *)
EXTENDS Dag, TLC

\* Nodes are only compared for equality.
Symmetry == Permutations(Nodes)
=============================================================================
