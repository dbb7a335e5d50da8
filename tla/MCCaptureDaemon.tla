--------------------------- MODULE MCCaptureDaemon ---------------------------
(* A small instance of CaptureDaemon for TLC. *)
EXTENDS CaptureDaemon
=============================================================================
