------------------------------ MODULE MCReachability ------------------------------
(* All graphs of up to three vertices and a few records, tombstones, loops and     *)
(* parallel edges included, in both directions, and endpoints outside the domain.  *)
EXTENDS Reachability
=================================================================================
