\* Three processes, two users and root, four documents: starts, reloads and edits.
SPECIFICATION Spec
CONSTANTS
  p1 = p1 p2 = p2 p3 = p3 u1 = u1 u2 = u2 d1 = d1 d2 = d2 d3 = d3 d4 = d4
  Root = Root Broken = Broken NoDoc = NoDoc
  Init1 = Init1 Shell = Shell NoProc = NoProc
  Procs = {p1, p2, p3}
  Docs = {d1, d2, d3, d4}
  Uids = {u1, u2, Root}
  uidOf <- McUidOf
  dirOf <- McDirOf
  keyed = {d1, d2, d4}
SYMMETRY Symmetry
INVARIANTS TypeOK OneDaemonPerLaunch ServesAsNamed PidFileNamesServer ServerCanReload
