---------------------------- MODULE MCController ----------------------------
(* Instances of Controller for TLC. *)
EXTENDS Controller, TLC

CONSTANTS a, b, c

\* a references b and c, b references c: a change of c reaches a twice.
MCEdges == {<<a, b>>, <<a, c>>, <<b, c>>}

\* a references b and c, which reference nothing.
MCFork == {<<a, b>>, <<a, c>>}
=============================================================================
