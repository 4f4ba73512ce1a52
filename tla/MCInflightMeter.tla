-------------------------- MODULE MCInflightMeter --------------------------
(* Instances of InflightMeter for TLC. *)
EXTENDS InflightMeter

CONSTANTS t1, t2, t3
=============================================================================
