------------------------------- MODULE MCDbInit -------------------------------
(* Small instances of DbInit for TLC. Instances are interchangeable, and so   *)
(* are inodes.                                                                *)
EXTENDS DbInit
=============================================================================
