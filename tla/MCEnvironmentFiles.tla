-------------------------- MODULE MCEnvironmentFiles --------------------------
(***************************************************************************)
(* The environment files TLC starts from: none of the entries, some, one   *)
(* twice, and values that span lines which look like entries: recognised,  *)
(* the edition's own, and not recognised by site-configure.                *)
(***************************************************************************)
EXTENDS EnvironmentFiles

Whole(name) == Line(name, "v0", "whole")
Opens(name) == Line(name, "v0", "opens")
Ends == Line(None, "v0", "ends")

MCContents ==
  {<<>>,
   <<Whole("SITE_URL"), Whole("SECRET")>>,
   <<Whole("SITE_EDITION"), Whole("SITE_EDITION"), Whole("SECRET")>>,
   <<Opens("SECRET"), Whole("SITE_URL"), Ends, Whole("SITE_URL")>>,
   <<Opens("SECRET"), Whole("SITE_EDITION"), Ends, Whole("SITE_EDITION")>>,
   <<Opens("SITE_EDITION"), Ends>>,
   <<Line("SECRET", "v0", "hidden"), Whole("SITE_URL"), Ends>>}
=============================================================================
