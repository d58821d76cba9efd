---------------------------- MODULE MCAdminToken ----------------------------
(* Small instances of AdminToken for TLC.                                  *)
EXTENDS AdminToken, TLC

CONSTANTS r1, r2, r3, root, admin, old, new, t1, t2, t3

McReqs     == {r1, r2, r3}
TwoReqs    == {r1, r2}
McSections == {<<root, old>>, <<admin, new>>}
Symmetry   == Permutations(McReqs) \cup Permutations({t1, t2, t3})
=============================================================================
