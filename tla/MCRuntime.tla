----------------------------- MODULE MCRuntime -----------------------------
(* Instances of Runtime for TLC. *)
EXTENDS Runtime, TLC

CONSTANT a

\* One node that comes and goes.
MCOneNode ==
  { [nodes |-> {a}, edges |-> {}],
    [nodes |-> {}, edges |-> {}] }
=============================================================================
