------------------------------ MODULE MCServer ------------------------------
(* A small instance of Server for TLC.                                     *)
EXTENDS Server

CONSTANTS c1, r1, r2, d1, d2
=============================================================================
