\* A login removed while one of its connections is being admitted.
SPECIFICATION Spec
CONSTANTS
  c1 = c1 c2 = c2 c3 = c3
  alice = alice bob = bob
  p1 = p1 p2 = p2 k1 = k1 k2 = k2 in = in out = out
  NoUser = NoUser None = None
  Conns <- TwoConns
  Logins = {alice, bob}
  Passwords = {p1, p2}
  Keys = {k1, k2}
  Addrs = {in, out}
  Configs <- FewConfigs
INVARIANT AdmissionSurvivesReload
