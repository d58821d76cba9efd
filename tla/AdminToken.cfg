\* Three requests, two logins: updates, logins, logouts and reloads interleave.
SPECIFICATION Spec
CONSTANTS
  r1 = r1 r2 = r2 r3 = r3
  root = root admin = admin old = old new = new
  t1 = t1 t2 = t2 t3 = t3
  NoToken = NoToken Torn = Torn Unset = Unset
  Reqs <- McReqs
  Names = {root, admin}
  Secrets = {old, new}
  Sections <- McSections
  Tokens = {t1, t2}
INVARIANTS TypeOK QuietUpdateKeepsToken
