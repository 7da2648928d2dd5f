SPECIFICATION FrontEndSpec
CONSTANTS
  None = None
  Items = {i1, i2}
  Inputs = {a, b}
  Untitled = {0, 2}
  MaxSerial = 3
  MaxVersion = 3
  Posts = {p1, p2}
  Subscribers = {s1, s2}
  MaxSnapshot = 2
  FixedPages = {privacy, about}
  Editors = {e1, e2}
  Bodies = {t0, t1}
  Default = t0
  Malformed = Malformed
  MaxPageVersion = 2
CHECK_DEADLOCK FALSE
INVARIANTS FrontEndTypeOK WorkIsKept ScreenIsStored DoneOnceAsConfirmed
PROPERTIES SpecialPagesFollowTheScreen
