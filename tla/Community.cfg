SPECIFICATION CommunitySpec
CONSTANTS
  Requests = {r1, r2, r3}
  Tokens = {t1, t2, t3}
  NoToken = NoToken
  Posts = {p1}
  NoPost = NoPost
  Applicants = {r1, r2}
INVARIANTS CommunityTypeOK OpenMailIsWanted DeletionIsComplete DisclosedToBoth
PROPERTIES ImplementsDoubleOptIn UsedOnce WithdrawalIsFinal RequestsEnd
