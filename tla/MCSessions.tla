----------------------------- MODULE MCSessions -----------------------------
(* Small instances of Sessions for TLC.                                    *)
EXTENDS Sessions, TLC

CONSTANTS c1, c2, c3, alice, bob, p1, p2, k1, k2, in, out

Rec(pw, key, from, max, badRoot) ==
  [pw |-> pw, key |-> key, from |-> from, max |-> max, badRoot |-> badRoot]

(* alice has one slot, from inside only; bob has a key and no limit.       *)
Both == alice :> Rec(p1, None, {in}, 1, FALSE) @@ bob :> Rec(None, k2, {in, out}, 0, FALSE)

(* alice was removed; bob has a password, another key and a limit.         *)
OnlyBob == alice :> NoUser @@ bob :> Rec(p2, k1, {in}, 2, FALSE)

(* alice's password changed and she shares bob's key; bob lost his         *)
(* credentials, so that LoadConfig skips him.                              *)
Changed == alice :> Rec(p2, k2, {in, out}, 2, FALSE) @@ bob :> Rec(None, None, {in}, 1, FALSE)

(* Two users with one key, and a limit of one on each.                     *)
Shared == alice :> Rec(p1, k2, {in}, 1, FALSE) @@ bob :> Rec(None, k2, {out}, 1, FALSE)

(* A group of alice's has a root that cannot be opened.                    *)
Unopened == alice :> Rec(p1, k1, {in}, 1, TRUE) @@ bob :> Rec(None, k2, {in}, 0, FALSE)

McConfigs == {Both, OnlyBob, Changed, Shared, Unopened}
McConns   == {c1, c2, c3}
Symmetry  == Permutations(McConns)

TwoConns    == {c1, c2}
FewConfigs  == {Both, OnlyBob, Unopened}
=============================================================================
