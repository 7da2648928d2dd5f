SPECIFICATION ServicesSpec
CONSTANTS
  Users = {root, ann}
  Browsers = {b1, b2}
  Shell = Shell
  Passwords = {p, q}
  First = root
  None = None
  Editors = {e1, e2}
  Admins = {a1, a2}
  MaxKey = 2
  Managers = {a1}
  Introducers = {intro}
  Texts = {t1, t2}
  NewIds = {n1}
  Hrefs = {"", "/"}
  MinNavigation = 2
  MaxNavigation = 3
  Secure = {s1, s2}
  Loopback = {l1}
  Insecure = {i1}
  MaxTrusted = 1
  Requests = {r1, r2}
  Emails = {m1, m2}
  Ips = {None, x}
  Limits <- MCLimits
  Windows <- MCWindows
  MaxTime = 1
SYMMETRY Interchangeable
CONSTRAINT InBounds
INVARIANTS ServicesTypeOK AccountsAreSafe ReferencesHold SettingsAreUsable CountersAreExact
