------------------------------- MODULE MCView -------------------------------
(* A small instance of View for TLC.                                       *)
EXTENDS View, TLC

CONSTANTS m1, m2, g1, g2, g3, home, shared, script, gone, n1, n2, junk, in, out, f1, f2

M(mode, path) == [mode |-> mode, path |-> path]

One(m)    == m1 :> m @@ m2 :> NoMapping
Two(m, p) == m1 :> m @@ m2 :> p
Bare      == One(NoMapping)

G(w, b, table) == [white |-> w, black |-> b, mapping |-> table]

User(list, a, b, ws, bs, own) ==
  [list |-> list, groups |-> g1 :> a @@ g2 :> b @@ g3 :> NoGroup,
   white |-> ws, black |-> bs, own |-> own]

Lists3 == {<<>>, <<g2>>, <<g1, g2>>, <<g2, g1>>, <<g1, g2, g1>>, <<g3, g1>>}

(* Two groups and the user give a name or leave it, one of them a root     *)
(* that is gone.                                                           *)
McMappings ==
  {User(l, G({}, {}, One(a)), G({}, {}, Two(b, M("rw", shared))), {}, {}, One(c)) :
     l \in Lists3,
     a \in {NoMapping, M("ro", home), M("exec", script), M("ro", gone), Null},
     b \in {NoMapping, M("ro", shared), M("exec", shared)},
     c \in {NoMapping, M("rw", shared), M("exec", script), M("rw", gone), Null}}

(* The same of addresses; an entry that does not parse is among them.      *)
McFilters ==
  {User(l, G(aw, {}, Bare), G(bw, bb, Bare), w, b, One(M("ro", home))) :
     l \in Lists3, aw \in {{}, {n1}, {junk}}, bw \in {{}, {n2}}, bb \in {{}, {n1, junk}},
     w \in {{}, {junk}, {n2, junk}}, b \in {{}, {n1}}}

McDocs == McMappings \cup McFilters

McAddrsOf == n1 :> {in} @@ n2 :> {in, out}

Node(kind, owner, group, bits) == [kind |-> kind, owner |-> owner, group |-> group, bits |-> bits]

(* A file of the process's own, a directory of its group, what others may  *)
(* read but its owner may not, a stranger's file and a link.               *)
McInodes == {Node("file", 1, 1, {"owner"}), Node("dir", 2, 1, {"group"}),
             Node("file", 1, 2, {"others"}), Node("file", 2, 2, {"owner", "group"}),
             Node("other", 1, 1, {"owner", "group", "others"})}

(* A configuration that names the process's user, and one of a stranger.   *)
McRunAs == {<<1, 1>>, <<2, 2>>}
=============================================================================
