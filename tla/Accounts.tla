------------------------------ MODULE Accounts -------------------------------
(***************************************************************************)
(* Accounts and their sessions: logging in, the authority a request has,   *)
(* administrators who create, change, disable and reset accounts, the      *)
(* owner's change of password, and the command that makes an administrator *)
(* (src/lib/cms/users.ts, src/lib/auth/server.ts, scripts/bootstrap.ts).   *)
(* Each browser runs one call at a time; calls interleave, the             *)
(* transactions that change an account statement by statement.  What a     *)
(* transaction writes is there for the others when it commits; until then  *)
(* they wait for the rows it has written.                                  *)
(***************************************************************************)
EXTENDS Naturals, FiniteSets
CONSTANTS Users, Browsers, Shell, Passwords, First, None

ASSUME AccountsAssumption == First \in Users

\* The database holds finitely many rows.
ASSUME UsersAssumption == IsFiniteSet(Users)

VARIABLES
  account,  \* the row of each user with its credential; None before creation
  session,  \* the session a browser's cookie names, None if there is no such row
  call,     \* the call each browser waits for, and the command in the shell
  holder    \* who holds the advisory lock "active-admins"

vars == <<account, session, call, holder>>

\* Editors are authors as far as accounts are concerned.
Roles == {"admin", "author"}
Account == [role : Roles, disabled : BOOLEAN, mustChange : BOOLEAN,
            password : Passwords]
\* password: the one the login verified. spared (a history field) tells why the
\* session may outlive a change of its account: "late", the account changed
\* before the session was inserted, or while it was; "kept", saveUser replaced
\* the password and ended no session.
Session == [user : Users, password : Passwords, spared : {"no", "late", "kept"}]
ASSUME NoneAssumption == /\ None \notin Users /\ None \notin Browsers
                         /\ None \notin Passwords
                         /\ None \notin Account /\ None \notin Session
ASSUME ShellAssumption == Shell \notin Browsers \union {None}

Callers == Browsers \union {Shell}
Ops == {"login", "create", "update", "reset", "change", "bootstrap"}
\* What a call does next; the last is what bootstrap.ts does after its commit.
Stages == {"none", "hook", "insert", "change", "lock", "read",
           "users", "account", "sessions", "commit", "password"}
\* password: the one a login has verified; replaces: saveUser was given one for
\* an account that exists; revoke: it disables an account it found enabled; gone:
\* the browsers whose session rows the transaction has deleted. What else was
\* typed is chosen in the step that uses it first.
Call == [op : Ops, at : Stages, user : Users \union {None}, role : Roles,
         disabled : BOOLEAN, password : Passwords \union {None},
         replaces : BOOLEAN, revoke : BOOLEAN, gone : SUBSET Browsers]

TypeOK ==
  /\ account \in [Users -> Account \union {None}]
  /\ session \in [Browsers -> Session \union {None}]
  /\ call \in [Callers -> Call]
  /\ holder \in Browsers \union {None}

NoCall == [op |-> "login", at |-> "none", user |-> None, role |-> "author",
           disabled |-> FALSE, password |-> None, replaces |-> FALSE,
           revoke |-> FALSE, gone |-> {}]
NewAccount(role, disabled, password) ==
  [role |-> role, disabled |-> disabled, mustChange |-> TRUE, password |-> password]
BootAccount(password) ==
  [NewAccount("admin", FALSE, password) EXCEPT !.mustChange = FALSE]

\* The command has made the first administrator.
Init ==
  /\ \E p \in Passwords :
       account = [u \in Users |-> IF u = First THEN BootAccount(p) ELSE None]
  /\ session = [b \in Browsers |-> None]
  /\ call = [x \in Callers |-> NoCall]
  /\ holder = None

Exists(u) == account[u] # None
Admin(u) == Exists(u) /\ account[u].role = "admin" /\ ~account[u].disabled
ActiveAdmins == {u \in Users : Admin(u)}

\* The rows a transaction has updated, for which others wait.
HasUserRow(c) ==
  c.at \in {"sessions", "commit"} \/ (c.op = "update" /\ c.at = "account")
HasAccountRow(c) ==
  \/ c.op = "reset" /\ c.at \in {"users", "sessions", "commit"}
  \/ c.op = "update" /\ c.replaces /\ c.at \in {"sessions", "commit"}
UserRowFree(u) == \A x \in Callers : HasUserRow(call[x]) => call[x].user # u
AccountRowFree(u) == \A x \in Callers : HasAccountRow(call[x]) => call[x].user # u
SessionRowFree(b) == \A x \in Callers : b \notin call[x].gone

Of(b, u) == session[b] # None /\ session[b].user = u

\* The call is about to disable its account or to replace the password, and has
\* ended its sessions already, or will not: an update that found the account
\* disabled, and the command has enabled it (it does not take the lock).
Crosses(c) ==
  \/ /\ c.op = "update" /\ c.disabled
     /\ c.at = "commit" \/ (~c.revoke /\ c.at \in {"users", "account"})
  \/ c.op = "reset" /\ c.at = "commit"
  \/ c.op = "bootstrap" /\ c.at \in {"commit", "password"}
Crossed(u) == \E x \in Callers : call[x].user = u /\ Crosses(call[x])

Idle(x) == call[x].at = "none"
Goto(x, at) == call' = [call EXCEPT ![x].at = at]
Start(x, c) == Idle(x) /\ call' = [call EXCEPT ![x] = c]
End(x) == call' = [call EXCEPT ![x] = NoCall]

--------------------------------------------------------------------------
\* Logging in: the password, then the hook that refuses a disabled account,
\* then the session row, each a statement of its own.

SignIn(b) ==
  /\ session[b] = None
  /\ \E u \in {v \in Users : Exists(v)} :
       Start(b, [NoCall EXCEPT !.at = "hook", !.user = u,
                               !.password = account[u].password])
  /\ UNCHANGED <<account, session, holder>>

BeforeCreate(b) ==
  /\ call[b].at = "hook"
  /\ IF account[call[b].user].disabled THEN End(b) ELSE Goto(b, "insert")
  /\ UNCHANGED <<account, session, holder>>

InsertSession(b) ==
  LET u == call[b].user IN
  /\ call[b].at = "insert"
  /\ session' = [session EXCEPT ![b] =
       [user |-> u, password |-> call[b].password,
        spared |-> IF \/ account[u].disabled \/ Crossed(u)
                      \/ account[u].password # call[b].password
                     THEN "late" ELSE "no"]]
  /\ End(b)
  /\ UNCHANGED <<account, holder>>

--------------------------------------------------------------------------
\* The authority of a call: role and state of the account are read anew for
\* each, and the session of a disabled account is deleted. An administrator
\* must have changed the temporary password.

SessionUser(b) == session[b] # None /\ ~account[session[b].user].disabled

MutationUser(b) ==
  LET a == account[session[b].user] IN
  SessionUser(b) /\ a.role = "admin" /\ ~a.mustChange

EndSession(b) ==
  /\ Idle(b) /\ session[b] # None /\ ~SessionUser(b) /\ SessionRowFree(b)
  /\ session' = [session EXCEPT ![b] = None]
  /\ UNCHANGED <<account, call, holder>>

Create(b) ==
  /\ MutationUser(b)
  /\ \E u \in {v \in Users : ~Exists(v)} :
       Start(b, [NoCall EXCEPT !.op = "create", !.at = "users", !.user = u])
  /\ UNCHANGED <<account, session, holder>>

\* The form sends no password for an account that exists, the action takes one.
Update(b) ==
  /\ MutationUser(b)
  /\ \E u \in {v \in Users : Exists(v)} :
       Start(b, [NoCall EXCEPT !.op = "update", !.at = "lock", !.user = u])
  /\ UNCHANGED <<account, session, holder>>

Reset(b) ==
  /\ MutationUser(b)
  /\ \E u \in {v \in Users : Exists(v)} :
       Start(b, [NoCall EXCEPT !.op = "reset", !.at = "account", !.user = u])
  /\ UNCHANGED <<account, session, holder>>

\* Anyone who is logged in may change the password; the current one is given
\* with the new one.
Change(b) ==
  /\ SessionUser(b)
  /\ Start(b, [NoCall EXCEPT !.op = "change", !.at = "change",
                             !.user = session[b].user])
  /\ UNCHANGED <<account, session, holder>>

--------------------------------------------------------------------------
\* saveUser.

\* A second account with the address violates the unique index.
InsertUser(b) ==
  LET c == call[b] IN
  /\ c.at = "users" /\ c.op = "create"
  /\ IF Exists(c.user) THEN UNCHANGED account
     ELSE \E r \in Roles, d \in BOOLEAN, p \in Passwords :
            account' = [account EXCEPT ![c.user] = NewAccount(r, d, p)]
  /\ End(b)
  /\ UNCHANGED <<session, holder>>

\* Fault variant: no lock.
GoOn(b) ==
  /\ call[b].at = "lock"
  /\ Goto(b, "read")
  /\ UNCHANGED <<account, session, holder>>

\* pg_advisory_xact_lock.
LockAdmins(b) ==
  /\ call[b].at = "lock" /\ holder = None
  /\ holder' = b
  /\ Goto(b, "read")
  /\ UNCHANGED <<account, session>>

\* The row as it is, and the count of administrators when one might go.
LosesAdmin(existing, role, disabled) ==
  existing.role = "admin" /\ (role # "admin" \/ (~existing.disabled /\ disabled))

ReadUser(b) ==
  LET existing == account[call[b].user] IN
  /\ call[b].at = "read"
  /\ \E role \in Roles, disabled, replaces \in BOOLEAN :
       IF LosesAdmin(existing, role, disabled) /\ Cardinality(ActiveAdmins) <= 1
         THEN End(b) /\ holder' = None
         ELSE /\ call' = [call EXCEPT ![b].at = "users", ![b].role = role,
                           ![b].disabled = disabled, ![b].replaces = replaces,
                           ![b].revoke = disabled /\ ~existing.disabled]
              /\ UNCHANGED holder
  /\ UNCHANGED <<account, session>>

--------------------------------------------------------------------------
\* The statements the transactions have in common: the user's row, the
\* credential, the sessions. resetUserPassword begins with the credential.

\* Fault variant: resetUserPassword does not delete the sessions.
KeepSessions(x) ==
  LET c == call[x] IN
  /\ c.at = "users" /\ c.op # "create" /\ UserRowFree(c.user)
  /\ Goto(x, IF c.op \in {"change", "bootstrap"} \/ (c.revoke /\ ~c.replaces)
               THEN "sessions"
             ELSE IF c.replaces THEN "account" ELSE "commit")
  /\ UNCHANGED <<account, session, holder>>

WriteUsers(x) ==
  LET c == call[x] IN
  /\ c.at = "users" /\ c.op # "create" /\ UserRowFree(c.user)
  /\ Goto(x, IF c.op # "update" \/ (c.revoke /\ ~c.replaces) THEN "sessions"
             ELSE IF c.replaces THEN "account" ELSE "commit")
  /\ UNCHANGED <<account, session, holder>>

WriteAccounts(x) ==
  LET c == call[x] IN
  /\ c.at = "account" /\ AccountRowFree(c.user)
  /\ Goto(x, IF c.op = "reset" THEN "users"
             ELSE IF c.revoke THEN "sessions" ELSE "commit")
  /\ UNCHANGED <<account, session, holder>>

\* The rows that are there when the statement begins; no other transaction has
\* deleted one of them, for it would hold the row of the user.
DeleteSessions(x) ==
  LET c == call[x] IN
  /\ c.at = "sessions"
  /\ call' = [call EXCEPT ![x].at = "commit",
                          ![x].gone = {b \in Browsers : Of(b, c.user)}]
  /\ UNCHANGED <<account, session, holder>>

\* The commit: the row as it is written and the deleted sessions.
Commit(x, row) ==
  /\ call[x].at = "commit"
  /\ account' = [account EXCEPT ![call[x].user] = row]
Left(x) == [b \in Browsers |-> IF b \in call[x].gone THEN None ELSE session[b]]

\* The commit of saveUser. The sessions stay unless the account is disabled,
\* also when the password is replaced.
UpdateUser(b) ==
  LET c == call[b]
      row == [account[c.user] EXCEPT !.role = c.role, !.disabled = c.disabled]
      Stays(d) == c.replaces /\ Of(d, c.user) /\ session[d].spared = "no" IN
  /\ c.op = "update"
  /\ IF c.replaces
       THEN \E p \in Passwords :
              Commit(b, [row EXCEPT !.password = p, !.mustChange = TRUE])
       ELSE Commit(b, row)
  /\ session' = [d \in Browsers |-> IF Left(b)[d] # None /\ Stays(d)
                                      THEN [session[d] EXCEPT !.spared = "kept"]
                                      ELSE Left(b)[d]]
  /\ End(b)
  /\ holder' = None

\* The commit of resetUserPassword.
ResetPassword(b) ==
  LET c == call[b] IN
  /\ c.op = "reset"
  /\ \E p \in Passwords :
       Commit(b, [account[c.user] EXCEPT !.password = p, !.mustChange = TRUE])
  /\ session' = Left(b)
  /\ End(b)
  /\ UNCHANGED holder

\* changeOwnPassword: the library changes the password and leaves one new
\* session; a transaction then clears the flag and ends that session as well.
ChangePassword(b) ==
  LET c == call[b] IN
  /\ c.at = "change" /\ AccountRowFree(c.user)
  /\ \A d \in Browsers : Of(d, c.user) => SessionRowFree(d)
  /\ IF Of(b, c.user) /\ ~account[c.user].disabled
       THEN \E p \in Passwords \ {account[c.user].password} :
            /\ account' = [account EXCEPT ![c.user].password = p]
            /\ session' = [d \in Browsers |->
                 IF d = b THEN [user |-> c.user, password |-> p,
                                spared |-> IF Crossed(c.user) THEN "late" ELSE "no"]
                 ELSE IF Of(d, c.user) THEN None ELSE session[d]]
            /\ Goto(b, "users")
       ELSE End(b) /\ UNCHANGED <<account, session>>
  /\ UNCHANGED holder

\* The commit of that transaction.
ClearFlag(b) ==
  LET c == call[b] IN
  /\ c.op = "change"
  /\ Commit(b, [account[c.user] EXCEPT !.mustChange = FALSE])
  /\ session' = Left(b)
  /\ End(b)
  /\ UNCHANGED holder

--------------------------------------------------------------------------
\* scripts/bootstrap.ts, with or without --reset-password: the account is an
\* administrator and its sessions end, and only then the password is set.
\* Bound: it is run for the account that it made at first.

StartBootstrap ==
  /\ Start(Shell, [NoCall EXCEPT !.op = "bootstrap", !.at = "users", !.user = First])
  /\ UNCHANGED <<account, session, holder>>

Bootstrap ==
  /\ Commit(Shell, BootAccount(account[First].password))
  /\ session' = Left(Shell)
  /\ \/ End(Shell)
     \/ call' = [call EXCEPT ![Shell].at = "password", ![Shell].gone = {}]
  /\ UNCHANGED holder

BootstrapPassword ==
  /\ call[Shell].at = "password" /\ AccountRowFree(First)
  /\ \E p \in Passwords : account' = [account EXCEPT ![First].password = p]
  /\ End(Shell)
  /\ UNCHANGED <<session, holder>>

--------------------------------------------------------------------------
\* A statement fails, two transactions that wait for each other are broken up,
\* or the server or the command stops: the transaction rolls back.
Fail(x) ==
  /\ ~Idle(x)
  /\ End(x)
  /\ holder' = IF holder = x THEN None ELSE holder
  /\ UNCHANGED <<account, session>>

Next ==
  \/ \E b \in Browsers :
       \/ SignIn(b) \/ BeforeCreate(b) \/ InsertSession(b) \/ EndSession(b)
       \/ Create(b) \/ Update(b) \/ Reset(b) \/ Change(b)
       \/ InsertUser(b) \/ LockAdmins(b) \/ ReadUser(b) \/ UpdateUser(b)
       \/ ResetPassword(b) \/ ChangePassword(b) \/ ClearFlag(b)
  \/ \E x \in Callers :
       WriteUsers(x) \/ WriteAccounts(x) \/ DeleteSessions(x) \/ Fail(x)
  \/ StartBootstrap \/ Bootstrap \/ BootstrapPassword

Spec == Init /\ [][Next]_vars

--------------------------------------------------------------------------
\* Administrators who demote or disable each other at the same time always
\* leave one who can log in.
LastAdministrator == ActiveAdmins # {}

\* Once an account is disabled or its password replaced, no session opened
\* before is left, but for two: that of a login the change or the bootstrap
\* command crossed, and one that saveUser kept when it replaced the password,
\* which can do nothing but change it.
RevokedSessionsAreGone ==
  \A b \in Browsers :
    (session[b] # None /\ session[b].spared # "late")
      => LET a == account[session[b].user] IN
         /\ ~a.disabled
         /\ IF session[b].spared = "kept" THEN a.mustChange
            ELSE a.password = session[b].password
=============================================================================
