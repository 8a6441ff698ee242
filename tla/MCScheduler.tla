---------------------------- MODULE MCScheduler ----------------------------
(* Instances of Scheduler for TLC. *)
EXTENDS Scheduler, TLC

CONSTANTS a, b

\* Two nodes: a references b.
MCSmallGraphs ==
  { [nodes |-> {a, b}, edges |-> {<<a, b>>}],
    [nodes |-> {b}, edges |-> {}],
    [nodes |-> {}, edges |-> {}] }
=============================================================================
