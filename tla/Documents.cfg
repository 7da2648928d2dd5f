SPECIFICATION Spec
CONSTANTS
  Users = {author, editor1, editor2}
  Editors = {editor1, editor2}
  Admins = {editor1, editor2}
  Nobody = Nobody
  Contents = {c1, c2}
  NoContent = NoContent
  MaxVersion = 4
SYMMETRY Interchangeable
CONSTRAINT InBounds
CHECK_DEADLOCK FALSE
INVARIANTS TypeOK PublishedWasApproved AutomaticNoticeOnce OpenMailIsPublic
PROPERTIES ImplementsWorkflow NothingUnseenIsOverwritten
  OnlyEditorsChangeThePublicView WithdrawalReachesMail QueuedIsPublished
