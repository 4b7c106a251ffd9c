------------------------------ MODULE MCRunReader ------------------------------
(* Instances of RunReader for TLC. *)
EXTENDS RunReader, TLC
================================================================================
