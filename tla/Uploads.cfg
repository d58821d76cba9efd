\* Two clients upload, remove and rename in two directories.
SPECIFICATION Spec
CONSTANTS
  c1 = c1 c2 = c2 i1 = i1 i2 = i2 i3 = i3
  up = up down = down pub = pub work = work manuals = manuals
  a = a b = b x = x y = y
  None = None
  Chans = {c1, c2}
  Mappings = {up, down, pub}
  Dirs = {work, manuals}
  Files = {a, b}
  Inodes = {i1, i2, i3}
  Payloads = {x, y}
  Pieces = 2
  dirOf <- McDirOf
  modeOf <- McModeOf
SYMMETRY Symmetry
INVARIANTS TypeOK QuietUploadIsWhole
PROPERTY ReadOnlyIsUntouched
