\* Safety of the registry and of the reloads, three connections.
SPECIFICATION Spec
CONSTANTS
  c1 = c1 c2 = c2 c3 = c3
  alice = alice bob = bob
  p1 = p1 p2 = p2 k1 = k1 k2 = k2 in = in out = out
  NoUser = NoUser None = None
  Conns <- McConns
  Logins = {alice, bob}
  Passwords = {p1, p2}
  Keys = {k1, k2}
  Addrs = {in, out}
  Configs <- McConfigs
SYMMETRY Symmetry
INVARIANTS TypeOK RegistryMatchesHandlers LiveWithinLimit RemovedUserHasNoSession KeysOpenTheirLogin
PROPERTIES StaleOnlyByAdmission ImplementsSessionLimit
