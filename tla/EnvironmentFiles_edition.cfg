SPECIFICATION Spec
CONSTANTS
  Contents <- MCContents
  Names = {"CADDY_SITE", "BETTER_AUTH_URL", "SITE_URL", "SITE_EDITION", "DATABASE_URL", "SECRET"}
  Values = {"v0", "v1", "v2"}
  NewValues = {"v1", "v2"}
  None = None
  Partial = Partial
PROPERTIES EditionChangesOnlyItself
CHECK_DEADLOCK FALSE
