\* Loads, saves, exports, edits and restarts over seven documents; frames of short texts.
SPECIFICATION Spec
CONSTANTS
  alice = alice bob = bob s1 = s1 s2 = s2
  Dash = Dash Blank = Blank NoUser = NoUser NoConf = NoConf Torn = Torn
  Logins = {alice, bob}
  Texts = {s1, s2, Dash}
  Docs <- McDocs
  sizeOf <- McSizeOf
  Width = 16
  Align = 4
  Lengths <- McLengths
  Invalid = Invalid Panic = Panic
INVARIANTS TypeOK RestartRestores SecretsSealed
PROPERTIES LoadsAsWritten ImplementsCredentials
