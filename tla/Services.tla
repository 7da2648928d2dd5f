------------------------------- MODULE Services -------------------------------
(***************************************************************************)
(* The server's actions on accounts, references, settings, addresses and   *)
(* counters.  They share no row, so that each is explored by itself:       *)
(* "service" is the one whose callers are at work, the others rest.        *)
(***************************************************************************)
EXTENDS Accounts
CONSTANTS
  Editors,                                                \* References
  Admins, MaxKey,                                         \* MailSettings
  Managers, Introducers, Texts, NewIds, Hrefs, MinNavigation, MaxNavigation,
  Secure, Loopback, Insecure, MaxTrusted,                 \* SiteAccess
  Requests, Emails, Ips, Limits, Windows, MaxTime         \* RateLimits

\* Secrets are numbered from one.
ASSUME KeysAssumption == MaxKey \in Nat \ {0} /\ None \notin Nat

\* An introduction has some text. Whoever edits all settings and whoever edits
\* the introduction wait for a save each.
ASSUME SettingsAssumption == Texts # {} /\ Managers \intersect Introducers = {}

ASSUME TrustedAssumption == MaxTrusted \in Nat

\* Every limit has a window.
ASSUME LimitsAssumption ==
  /\ MaxTime \in Nat
  /\ \A action \in DOMAIN Limits : \A kind \in DOMAIN Limits[action] :
       Limits[action][kind] \in Nat /\ Windows[action][kind] \in Nat \ {0}

VARIABLES
  service,
  exists, file, reported, content, refCall,
  mailRow, current, previous, resaved, mailPage,
  settingsRow, settingsPage, settingsSave,
  production, siteFile, app, caddy, accessRow, accessPage,
  now, counts, request, accepted

accountVars == vars
referenceVars == <<exists, file, reported, content, refCall>>
mailVars == <<mailRow, current, previous, resaved, mailPage>>
settingsVars == <<settingsRow, settingsPage, settingsSave>>
accessVars == <<production, siteFile, app, caddy, accessRow, accessPage>>
limitVars == <<now, counts, request, accepted>>
serviceVars == <<service, accountVars, referenceVars, mailVars, settingsVars,
                 accessVars, limitVars>>

Refs == INSTANCE References WITH call <- refCall
Mail == INSTANCE MailSettings WITH row <- mailRow, page <- mailPage
Site == INSTANCE SiteSettings WITH
  Admins <- Managers, Editors <- Introducers, row <- settingsRow, page <- settingsPage,
  save <- settingsSave
Access == INSTANCE SiteAccess WITH
  Admins <- Managers, file <- siteFile, row <- accessRow, page <- accessPage
Counters == INSTANCE RateLimits

\* Services that rest do so in any one of their initial states.
ServicesInit ==
  /\ service \in {"accounts", "references", "mail", "settings", "access", "limits"}
  /\ Init /\ Refs!Init /\ Mail!Init /\ Site!Init /\ Access!Init /\ Counters!Init
  /\ service # "access" => /\ production /\ accessRow = None
                           /\ siteFile = CHOOSE o \in Secure : TRUE

ServicesNext ==
  /\ UNCHANGED service
  /\ \/ /\ service = "accounts" /\ Next
        /\ UNCHANGED <<referenceVars, mailVars, settingsVars, accessVars, limitVars>>
     \/ /\ service = "references" /\ Refs!Next
        /\ UNCHANGED <<accountVars, mailVars, settingsVars, accessVars, limitVars>>
     \/ /\ service = "mail" /\ Mail!Next
        /\ UNCHANGED <<accountVars, referenceVars, settingsVars, accessVars, limitVars>>
     \/ /\ service = "settings" /\ Site!Next
        /\ UNCHANGED <<accountVars, referenceVars, mailVars, accessVars, limitVars>>
     \/ /\ service = "access" /\ Access!Next
        /\ UNCHANGED <<accountVars, referenceVars, mailVars, settingsVars, limitVars>>
     \/ /\ service = "limits" /\ Counters!Next
        /\ UNCHANGED <<accountVars, referenceVars, mailVars, settingsVars, accessVars>>

ServicesSpec == ServicesInit /\ [][ServicesNext]_serviceVars
-----------------------------------------------------------------------------
\* The rows, the calls and the pages are well formed.
ServicesTypeOK ==
  /\ TypeOK /\ Refs!TypeOK /\ Mail!TypeOK /\ Site!TypeOK /\ Access!TypeOK
  /\ Counters!TypeOK

\* Administrators who demote or disable each other at the same time leave one,
\* and a session opened before its password was replaced or its account
\* disabled is gone, but for a login under way then and for the sessions that
\* saveUser keeps, which can only change the password (users.ts:155-274,
\* bootstrap.ts:194-208).
AccountsAreSafe == LastAdministrator /\ RevokedSessionsAreGone

\* A draft's category is there, a deletion overlooks no reference that was
\* there all the time, and a reported upload can be read (taxonomy.ts:79-107,
\* media.ts:177-255).
ReferencesHold ==
  /\ Refs!DraftCategoryExists /\ Refs!CheckSeesReferences
  /\ Refs!UploadedIsReadable

\* Mail that is switched on can be sent, also while the key is rotated; the
\* navigation keeps its fixed entries and its order; and whatever addresses
\* are stored, one can log in and correct them (mail/config.ts:310-374,
\* validation.ts:455-486, site-access/store.ts:54-79).
SettingsAreUsable ==
  Mail!CredentialIsUsable /\ Site!NavigationIsSound /\ Access!AddressesWork

\* A request that is turned away uses up nothing, and no more than a limit are
\* let through, however they overlap (rate-limit.ts:70-115).
CountersAreExact == Counters!CountersAreExact
=============================================================================
