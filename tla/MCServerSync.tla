---------------------------- MODULE MCServerSync ----------------------------
(* Model checking of ServerSync: the configuration gives all constants. *)
EXTENDS ServerSync

CONSTANTS r1, p1, p2
=============================================================================
