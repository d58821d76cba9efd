----------------------------- MODULE MCUploads -----------------------------
(* Small instances of Uploads for TLC.                                     *)
EXTENDS Uploads, TLC

CONSTANTS c1, c2, i1, i2, i3, up, down, pub, work, manuals, a, b, x, y

(* One directory is mapped both for writing and for reading, another one   *)
(* for reading only.                                                       *)
McDirOf  == up :> work @@ down :> work @@ pub :> manuals
McModeOf == up :> "rw" @@ down :> "ro" @@ pub :> "ro"

Symmetry == Permutations({i1, i2, i3}) \cup Permutations({c1, c2}) \cup Permutations({x, y})
=============================================================================
