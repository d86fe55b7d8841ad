--------------------------- MODULE MCControlLease ---------------------------
(***************************************************************************)
(* Instances of ControlLease: a and b are services that start, x and y the *)
(* remains of earlier ones.                                                *)
(***************************************************************************)
EXTENDS ControlLease

CONSTANTS a, b, x, y
=============================================================================
