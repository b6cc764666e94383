CONSTANTS
  v0 = v0
  v1 = v1
  v2 = v2
  p1 = p1
  p2 = p2
  h1 = h1
  h2 = h2
  Versions = {v0, v1, v2}
  Parts <- Numbers
  NoVersion = NoVersion
  Pollers = {p1, p2}
  Handlers = {h1, h2}
  Nobody = Nobody
  First = v0
  Catalog <- Some
  MaxTaps = 2
  MaxEvents = 3
  MaxFailures = 1
  MaxRestarts = 1
SPECIFICATION Spec
CHECK_DEADLOCK FALSE
SYMMETRY Symmetry
INVARIANTS
  TypeOK
  AskedOnce
  OneLateInstall
  PollersAsTheModeSays
  FileIsCurrent
PROPERTIES
  SkippedIsLeftAlone
