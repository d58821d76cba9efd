\* Two channels run and read one script across a reload.
SPECIFICATION Spec
CONSTANTS
  c1 = c1 c2 = c2 rebuild = rebuild text = text empty = empty
  NoOutput = NoOutput Torn = Torn None = None
  Chans <- TwoChans
  Names = {rebuild}
  Texts = {text, empty}
  MaxLoads = 1
INVARIANTS TypeOK ReadsOwnOrLater
PROPERTY RunEnds
