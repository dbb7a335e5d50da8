-------------------------------- MODULE MCJobs --------------------------------
(* A small instance of Jobs for TLC. *)
EXTENDS Jobs

CONSTANT h, g

MCCallers == JobIds \cup {h, g}
=============================================================================
