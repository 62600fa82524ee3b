CONSTANTS
  Dir = {d}
  Link = {}
  Shape = {s}
  Request = {r1, r2}
  Cap = 1
  MaxClock = 1
  MaxChanges = 1
SPECIFICATION Spec
INVARIANT RescanSticks
