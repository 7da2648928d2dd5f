SPECIFICATION Spec
CONSTANTS
  Requests = {r1, r2}
  Tokens = {t1, t2, t3, t4}
  NoToken = NoToken
  Posts = {p1, p2}
  NoPost = NoPost
PROPERTIES LinkInMailWorks
