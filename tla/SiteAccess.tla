----------------------------- MODULE SiteAccess ------------------------------
(***************************************************************************)
(* The addresses of the site: the entries the deployment is configured     *)
(* with (scripts/site-configure.mjs writes them, the containers read them  *)
(* when they are created), the addresses an administrator stores           *)
(* (src/lib/site-access, components/admin/SiteAccessSettings.tsx), and     *)
(* which origins may log in and change things (src/lib/auth).              *)
(*                                                                         *)
(* The environment has one address: site-configure writes the same to      *)
(* SITE_URL and BETTER_AUTH_URL, and README.md:129 wants them consistent.  *)
(* A file edited by hand so that they differ is left out.                  *)
(***************************************************************************)
EXTENDS Naturals, FiniteSets
CONSTANTS Admins,
          Secure,      \* https origins
          Loopback,    \* http origins of this computer
          Insecure,    \* http origins of others
          None,
          MaxTrusted   \* MAX_TRUSTED_ORIGINS

Origins == Secure \union Loopback \union Insecure

VARIABLES
  production,  \* NODE_ENV of the app
  file,        \* the address in the environment file, for its three entries
  app, caddy,  \* the address each container was created with
  row,         \* the stored addresses; None: no row
  page         \* the settings page of each administrator

vars == <<production, file, app, caddy, row, page>>

Empty == [public |-> None, trusted |-> {}]
Configs == [public : Origins \union {None},
            trusted : {s \in SUBSET Origins : Cardinality(s) <= MaxTrusted}]

\* normalizeSiteOrigin and parseSiteUrl: what may be an address.
Acceptable(o) == o \in Secure \/ (~production /\ o \in Loopback)
Configurable(o) == IF production THEN o \in Secure ELSE o \in Loopback

\* Fault variant: the aliases are not counted.
ValidOrigins(config) == /\ config.public = None \/ Acceptable(config.public)
                        /\ \A o \in config.trusted : Acceptable(o)

\* validateSiteAccessConfig: as a whole or not at all.
Valid(config) == /\ config.public = None \/ Acceptable(config.public)
                 /\ \A o \in config.trusted : Acceptable(o)
                 /\ Cardinality(config.trusted) <= MaxTrusted

\* The stored row, empty when it does not satisfy today's rules.
StoredConfig == IF row # None /\ Valid(row) THEN row ELSE Empty

\* trustedAuthOrigins: the environment's origin, or the aliases of loopback.
TrustedAuthOrigins ==
  IF ~production /\ app \in Loopback THEN Loopback ELSE {app}

EffectivePublicUrl ==
  IF StoredConfig.public # None THEN StoredConfig.public ELSE app

\* Fault variant: the stored addresses replace the environment's.
StoredOriginsOnly ==
  IF StoredConfig = Empty THEN TrustedAuthOrigins
  ELSE ({StoredConfig.public} \ {None}) \union StoredConfig.trusted

EffectiveTrustedOrigins ==
  TrustedAuthOrigins \union ({StoredConfig.public} \ {None})
                     \union StoredConfig.trusted

\* The page with the values of siteAccessData, opened at an origin.
Closed == [open |-> FALSE]
Fresh(o) == [open |-> TRUE, at |-> "idle", public |-> StoredConfig.public,
             aliases |-> StoredConfig.trusted, origin |-> o]

\* A row of another installation, restored here, need not be acceptable.
Init ==
  /\ production \in BOOLEAN
  /\ file \in {o \in Origins : Configurable(o)}
  /\ app = file /\ caddy = file
  /\ row \in {None} \union {[public |-> o, trusted |-> {}] : o \in Loopback}
  /\ page = [a \in Admins |-> Closed]

Page(a, p) == /\ page' = [page EXCEPT ![a] = p]
              /\ UNCHANGED <<production, file, app, caddy, row>>

--------------------------------------------------------------------------
\* The deployment: one command writes the three entries; the containers keep
\* theirs until they are created again, the one before the other.

WriteSiteConfiguration ==
  /\ file' \in {o \in Origins : Configurable(o)}
  /\ UNCHANGED <<production, app, caddy, row, page>>

RecreateApp ==
  /\ app # file /\ app' = file
  /\ UNCHANGED <<production, file, caddy, row, page>>

RecreateCaddy ==
  /\ caddy # file /\ caddy' = file
  /\ UNCHANGED <<production, file, app, row, page>>

--------------------------------------------------------------------------
\* The page.  It is opened at an origin that the proxy serves (an alias may be
\* served upstream) and where one may log in.

MayLogIn(o) == o \in EffectiveTrustedOrigins

Open(a) ==
  /\ ~page[a].open
  /\ \E o \in Origins : /\ MayLogIn(o)
                        /\ Page(a, Fresh(o))

Leave(a) == page[a].open /\ page[a].at = "idle" /\ Page(a, Closed)

\* Either field is edited; a button fills in the origin of the page itself.
Type(a) ==
  /\ page[a].open /\ page[a].at = "idle"
  /\ \/ \E o \in Origins \union {None} : Page(a, [page[a] EXCEPT !.public = o])
     \/ \E os \in SUBSET Origins :
          Cardinality(os) <= MaxTrusted + 1 /\ Page(a, [page[a] EXCEPT !.aliases = os])
     \/ Page(a, [page[a] EXCEPT !.public = page[a].origin])

Submit(a) ==
  /\ page[a].open /\ page[a].at = "idle"
  /\ Page(a, [page[a] EXCEPT !.at = "sent"])

\* saveSiteAccess: checks the values, then row and audit row in one
\* transaction. The session suffices, also at an origin no longer trusted.
Asked(a) == [public |-> page[a].public, trusted |-> page[a].aliases]

SaveSiteAccess(a) ==
  /\ page[a].open /\ page[a].at = "sent"
  /\ IF Valid(Asked(a))
     THEN /\ row' = Asked(a)
          /\ page' = [page EXCEPT ![a].at = "stored"]
     ELSE /\ page' = [page EXCEPT ![a].at = "refused"]
          /\ UNCHANGED row
  /\ UNCHANGED <<production, file, app, caddy>>

\* The answer renews the page; it is read after the commit.
Saved(a) == page[a].open /\ page[a].at = "stored"
            /\ Page(a, Fresh(page[a].origin))

\* A refusal, or no answer: the fields stay.
Failed(a) == page[a].open /\ page[a].at \in {"sent", "stored", "refused"}
             /\ Page(a, [page[a] EXCEPT !.at = "idle"])

Next ==
  \/ WriteSiteConfiguration \/ RecreateApp \/ RecreateCaddy
  \/ \E a \in Admins : Open(a) \/ Leave(a) \/ Type(a) \/ Submit(a)
                       \/ SaveSiteAccess(a) \/ Saved(a) \/ Failed(a)

Spec == Init /\ [][Next]_vars

--------------------------------------------------------------------------
\* The addresses and the pages are well formed.
TypeOK ==
  /\ production \in BOOLEAN
  /\ {file, app, caddy} \subseteq Origins
  /\ row \in {None} \union Configs
  /\ \A a \in Admins : page[a] = Closed \/
       (page[a].at \in {"idle", "sent", "stored", "refused"}
         /\ page[a].public \in Origins \union {None}
         /\ page[a].aliases \subseteq Origins)

\* Whatever administrators have stored, and however far a change of domain
\* has got: links are made for an address from which one may log in
\* (store.ts:54-79), only secure addresses are trusted in production, and the
\* address the app was created with stays open, so that a wrong entry can be
\* corrected (site-access/actions.ts:29); once the proxy was created from the
\* same file, that address is also the one it serves.
AddressesWork ==
  /\ EffectivePublicUrl \in EffectiveTrustedOrigins
  /\ app \in EffectiveTrustedOrigins
  /\ (production => EffectiveTrustedOrigins \subseteq Secure)
  /\ (app = file /\ caddy = file => MayLogIn(caddy))
=============================================================================
