------------------------------ MODULE MCLeases ------------------------------
(* A small instance of Leases.  No symmetry: the run has a liveness        *)
(* property.                                                               *)
EXTENDS Leases
=============================================================================
