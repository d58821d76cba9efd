\* The mutex, the signal loop and the configuration file of one process.
SPECIFICATION Spec
CONSTANTS
  c1 = c1 r1 = r1 r2 = r2 d1 = d1 d2 = d2
  Main = Main NoOne = NoOne Broken = Broken NoDoc = NoDoc
  Conns = {c1}
  Reqs = {r1}
  Docs = {d1, d2}
  QueueCap = 1
INVARIANTS TypeOK FileIsConfig HangupNotLost
PROPERTIES NobodyWaitsForEver HandlersGoOn HangupTakesEffect TermIsHonoured
