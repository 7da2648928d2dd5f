SPECIFICATION OperationsSpec
CONSTANTS
  Files <- MCContents
  Names = {"CADDY_SITE", "BETTER_AUTH_URL", "SITE_URL", "SITE_EDITION", "DATABASE_URL", "SECRET"}
  Values = {"v0", "v1"}
  NewValues = {"v1"}
  None = None
  Partial = Partial
  Mixed = Mixed
  MaxVersion = 3
  Overlap = FALSE
INVARIANTS OperationsTypeOK NothingIsHalfDone
PROPERTIES SiteChangesOnlyItself CommandEnds
CHECK_DEADLOCK FALSE
