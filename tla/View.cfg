\* Merges, admissions and listings: two groups, two names, two files, pages of two.
SPECIFICATION Spec
CONSTANTS
  m1 = m1 m2 = m2 g1 = g1 g2 = g2 g3 = g3
  home = home shared = shared script = script gone = gone
  n1 = n1 n2 = n2 junk = junk in = in out = out f1 = f1 f2 = f2
  Names = {m1, m2}
  Groups = {g1, g2, g3}
  Entries = {n1, n2, junk}
  Nets = {n1, n2}
  addrsOf <- McAddrsOf
  Addrs = {in, out}
  Paths = {home, shared, script, gone}
  openable = {home, shared}
  Docs <- McDocs
  NoGroup = NoGroup NoMapping = NoMapping NoDoc = NoDoc Null = Null
  Files = {f1, f2}
  Inodes <- McInodes
  Absent = Absent Parent = Parent
  uid = 1 gid = 1
  RunAs <- McRunAs
  Page = 2
INVARIANTS TypeOK MappingIsMerged AdmitsAsConfigured PagesAreTheListing ListsTheDirectory
PROPERTY ListingEnds
