--------------------------- MODULE GroupsAndRanks ---------------------------
(***************************************************************************)
(* The groups and ranks in which the scheduler starts and stops the nodes  *)
(* of a graph, by definition.  A graph is a record [nodes, edges], where   *)
(* <<a, b>> \in edges says that a references b.  Scheduler uses these      *)
(* definitions; module Dag checks that the algorithms of package dag       *)
(* compute what they say.                                                  *)
(***************************************************************************)
LOCAL INSTANCE Naturals
LOCAL INSTANCE FiniteSets

\* The weakly connected component of n: the nodes no set closed under adjacency
\* can separate from n.
Component(g, n) ==
  {m \in g.nodes : \A C \in SUBSET g.nodes :
     (n \in C /\ \A e \in g.edges : e[1] \in C <=> e[2] \in C) => m \in C}

\* The ranks a topological walk may assign: a numbering of each component in
\* which every node comes after the nodes it references.
TopologicalRanks(g) ==
  {r \in [g.nodes -> 0..(Cardinality(g.nodes) - 1)] :
     /\ \A e \in g.edges : r[e[2]] < r[e[1]]
     /\ \A n \in g.nodes :
          {r[m] : m \in Component(g, n)} = 0..(Cardinality(Component(g, n)) - 1)}
=============================================================================
