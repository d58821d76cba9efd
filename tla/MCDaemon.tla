------------------------------ MODULE MCDaemon ------------------------------
(* A small instance of Daemon for TLC.                                     *)
EXTENDS Daemon, TLC

CONSTANTS p1, p2, p3, u1, u2, d1, d2, d3, d4

(* d2 changes the user; d3 has no key and closes its directories to u1; d4 *)
(* names no user, which is root.                                           *)
McUidOf == d1 :> u1 @@ d2 :> u2 @@ d3 :> u1 @@ d4 :> Root
McDirOf == d1 :> u1 @@ d2 :> u1 @@ d3 :> u2 @@ d4 :> u1

Symmetry == Permutations(Procs)
=============================================================================
