--------------------------- MODULE ServicesProofs ----------------------------
(***************************************************************************)
(* The safety of the services, each from an invariant of its own: they     *)
(* share no variable, so that a step of one is a stutter of the others.    *)
(***************************************************************************)
EXTENDS Services, FiniteSetTheorems, SequenceTheorems, TLAPS

(***************************************************************************)
(* Accounts.                                                               *)
(***************************************************************************)

\* Sessions that a disabled account or a replaced password has to end, and those
\* that saveUser has kept.
Current(u) == {d \in Browsers : Of(d, u) /\ session[d].spared # "late"}
KeptBack(u) == {d \in Browsers : Of(d, u) /\ session[d].spared = "kept"}

\* Accounts stay; whoever is logged in has one.
Known ==
  /\ Exists(First)
  /\ \A d \in Browsers : session[d] # None => Exists(session[d].user)

\* A call is where its operation can be, with what it needs there.
Placed(x) ==
  LET c == call[x] IN
  /\ c.op = "login" => c.at \in {"none", "hook", "insert"}
  /\ c.op = "create" => c.at = "users"
  /\ c.op = "update" => c.at \in {"lock", "read", "users", "account", "sessions", "commit"}
  /\ c.op = "reset" => c.at \in {"account", "users", "sessions", "commit"}
  /\ c.op = "change" => c.at \in {"change", "users", "sessions", "commit"}
  /\ c.op = "bootstrap" => /\ c.at \in {"users", "sessions", "commit", "password"}
                           /\ c.user = First
  /\ c.op = "bootstrap" <=> x = Shell /\ c.at # "none"
  /\ c.at # "none" => c.user \in Users
  /\ c.at # "none" /\ c.op # "create" => Exists(c.user)
  /\ c.op = "login" /\ c.at # "none" => session[x] = None /\ c.password \in Passwords
  /\ c.op = "update" /\ c.at = "sessions" => c.revoke
  /\ c.revoke => c.op = "update" /\ c.disabled
  /\ (c.op = "update" /\ c.at # "lock") <=> holder = x

\* What is deleted are sessions of the account, in a transaction that has not
\* ended.
Deleting(x) ==
  /\ call[x].gone # {} => call[x].at = "commit"
  /\ \A d \in call[x].gone : Of(d, call[x].user)

\* An update about to write leaves an administrator; whoever is about to disable
\* an account or to replace its password leaves it no session that has to end,
\* and the flag is not cleared for one that was kept.
Deciding(x) ==
  LET c == call[x] IN
  /\ c.op = "update" /\ c.at \in {"users", "account", "sessions", "commit"} =>
       \/ c.role = "admin" /\ ~c.disabled
       \/ \E u \in ActiveAdmins : u # c.user
  /\ Crosses(c) => Current(c.user) \subseteq c.gone
  /\ c.op = "change" /\ c.at = "commit" => KeptBack(c.user) \subseteq c.gone

\* One transaction at a time has written the row of a user.
RowsHeldOnce ==
  \A x, y \in Callers :
    x # y /\ HasUserRow(call[x]) /\ HasUserRow(call[y]) => call[x].user # call[y].user

AccountInv ==
  /\ TypeOK /\ Known /\ LastAdministrator /\ RevokedSessionsAreGone /\ RowsHeldOnce
  /\ \A x \in Callers : Placed(x) /\ Deleting(x) /\ Deciding(x)

LEMMA NoCallIsIdle ==
  /\ NoCall \in Call /\ NoCall.op = "login" /\ NoCall.at = "none" /\ NoCall.gone = {}
  /\ NoCall.revoke = FALSE /\ ~HasUserRow(NoCall) /\ ~Crosses(NoCall)
BY DEF NoCall, Call, Ops, Stages, Roles, HasUserRow, Crosses

\* A step of one call, and what the others count on: accounts stay,
\* administrators too unless the call has the lock; a session that must be ended
\* or was kept is new only if nobody is about to end those of its account; rows
\* that others have deleted or written stay theirs.
LEMMA CallSteps ==
  ASSUME AccountInv, NEW x \in Callers, NEW new \in Call, call' = [call EXCEPT ![x] = new],
         account' \in [Users -> Account \union {None}],
         session' \in [Browsers -> Session \union {None}],
         holder' \in Browsers \union {None},
         holder' = holder \/ {holder, holder'} \subseteq {x, None},
         \A u \in Users : Exists(u) => Exists(u)',
         holder = x \/ ActiveAdmins \subseteq ActiveAdmins',
         LastAdministrator', RevokedSessionsAreGone',
         \A d \in Browsers : session'[d] # None =>
           \/ session[d] # None /\ session'[d].user = session[d].user
           \/ d = x /\ session[d] = None /\ Exists(session'[d].user),
         \A d \in Browsers : session[d] # None /\ session'[d] = None =>
           SessionRowFree(d) \/ d \in call[x].gone,
         \A u \in Users : Current(u)' \subseteq Current(u) \/ ~Crossed(u),
         \A u \in Users : \/ KeptBack(u)' \subseteq KeptBack(u)
                          \/ HasUserRow(call[x]) /\ call[x].user = u,
         HasUserRow(new) => \/ HasUserRow(call[x]) /\ call[x].user = new.user
                            \/ UserRowFree(new.user),
         Placed(x)', Deleting(x)', Deciding(x)'
  PROVE  AccountInv'
<1>1. /\ call'[x] = new /\ call' \in [Callers -> Call]
      /\ \A y \in Callers \ {x} : call'[y] = call[y]
  BY DEF AccountInv, TypeOK
<1>2. TypeOK'
  BY <1>1 DEF TypeOK
<1>3. Known'
  <2>1. Exists(First)'
    BY AccountsAssumption DEF AccountInv, Known
  <2>2. ASSUME NEW d \in Browsers, session'[d] # None
        PROVE  account'[session'[d].user] # None
    <3>1. session'[d].user \in Users
      BY <2>2 DEF Session
    <3>2. Exists(session'[d].user)
      BY <2>2 DEF AccountInv, Known
    <3> QED
      BY <3>1, <3>2 DEF Exists
  <2> QED
    BY <2>1, <2>2 DEF Known, Exists
<1>4. RowsHeldOnce'
  <2> SUFFICES ASSUME NEW y \in Callers, NEW z \in Callers, y # z,
                      HasUserRow(call'[y]), HasUserRow(call'[z]),
                      call'[y].user = call'[z].user
               PROVE  FALSE
    BY DEF RowsHeldOnce, HasUserRow
  <2>1. CASE y = x
    BY <1>1, <2>1 DEF AccountInv, RowsHeldOnce, UserRowFree
  <2>2. CASE z = x
    BY <1>1, <2>2 DEF AccountInv, RowsHeldOnce, UserRowFree
  <2>3. CASE y # x /\ z # x
    BY <1>1, <2>3 DEF AccountInv, RowsHeldOnce
  <2> QED
    BY <2>1, <2>2, <2>3
<1>5. ASSUME NEW y \in Callers \ {x} PROVE Placed(y)' /\ Deleting(y)' /\ Deciding(y)'
  <2>1. PICK c \in Call : c = call[y] /\ c = call'[y]
    BY <1>1 DEF AccountInv, TypeOK
  <2>2. Placed(y) /\ Deleting(y) /\ Deciding(y) /\ Placed(x) /\ Deleting(x) /\ RowsHeldOnce
    BY DEF AccountInv
  <2>3. holder' = y <=> holder = y
    BY NoneAssumption, ShellAssumption, <2>2 DEF AccountInv, TypeOK, Callers
  <2>4. ASSUME c.op = "login", c.at # "none" PROVE session'[y] = None
    <3>1. y \in Browsers /\ session[y] = None
      BY <2>1, <2>2, <2>4 DEF Placed, Callers
    <3> QED
      BY <3>1
  <2>5. Placed(y)'
    BY <2>1, <2>2, <2>3, <2>4 DEF Placed
  <2>6. Deleting(y)'
    <3> SUFFICES ASSUME NEW d \in c.gone PROVE session'[d] # None /\ session'[d].user = c.user
      BY <2>1, <2>2 DEF Deleting, Of
    <3>1. d \in Browsers /\ session[d] # None /\ session[d].user = c.user /\ c.at = "commit"
      BY <2>1, <2>2 DEF Deleting, Of, Call
    <3>2. ~SessionRowFree(d)
      BY <2>1 DEF SessionRowFree
    <3>3. d \notin call[x].gone
      <4> SUFFICES ASSUME d \in call[x].gone PROVE FALSE
        OBVIOUS
      <4>1. call[x].at = "commit" /\ call[x].user = c.user
        BY <2>2, <3>1 DEF Deleting, Of
      <4> QED
        BY <2>1, <2>2, <3>1, <4>1 DEF RowsHeldOnce, HasUserRow
    <3> QED
      BY <3>1, <3>2, <3>3
  <2>7. Deciding(y)'
    <3>1. ASSUME c.op = "update", c.at \in {"users", "account", "sessions", "commit"}
          PROVE  \/ c.role = "admin" /\ ~c.disabled
                 \/ \E u \in ActiveAdmins' : u # c.user
      BY <2>1, <2>2, <3>1 DEF Placed, Deciding
    <3>2. ASSUME Crosses(c) PROVE Current(c.user)' \subseteq c.gone
      <4>1. c.user \in Users /\ Crossed(c.user)
        BY <2>1, <2>2, <3>2 DEF Placed, Crosses, Crossed
      <4> QED
        BY <2>1, <2>2, <3>2, <4>1 DEF Deciding
    <3>3. ASSUME c.op = "change", c.at = "commit" PROVE KeptBack(c.user)' \subseteq c.gone
      <4>1. c.user \in Users /\ HasUserRow(c)
        BY <2>1, <2>2, <3>3 DEF Placed, HasUserRow
      <4>2. ~(HasUserRow(call[x]) /\ call[x].user = c.user)
        BY <2>1, <2>2, <4>1 DEF RowsHeldOnce
      <4> QED
        BY <2>1, <2>2, <3>3, <4>1, <4>2 DEF Deciding
    <3> QED
      BY <2>1, <3>1, <3>2, <3>3 DEF Deciding
  <2> QED
    BY <2>5, <2>6, <2>7
<1> QED
  BY <1>2, <1>3, <1>4, <1>5 DEF AccountInv

\* Only a call moves, and the lock.
LEMMA CallMoves ==
  ASSUME AccountInv, NEW x \in Callers, NEW new \in Call, call' = [call EXCEPT ![x] = new],
         UNCHANGED <<account, session>>, holder' \in Browsers \union {None},
         holder' = holder \/ {holder, holder'} \subseteq {x, None},
         HasUserRow(new) => \/ HasUserRow(call[x]) /\ call[x].user = new.user
                            \/ UserRowFree(new.user),
         Placed(x)', Deleting(x)', Deciding(x)'
  PROVE  AccountInv'
<1>1. /\ account' \in [Users -> Account \union {None}]
      /\ session' \in [Browsers -> Session \union {None}]
      /\ LastAdministrator' /\ RevokedSessionsAreGone'
      /\ ActiveAdmins \subseteq ActiveAdmins'
  BY DEF AccountInv, TypeOK, LastAdministrator, RevokedSessionsAreGone, ActiveAdmins, Admin, Exists
<1>2. /\ \A u \in Users : Exists(u) => Exists(u)'
      /\ \A u : Current(u)' = Current(u) /\ KeptBack(u)' = KeptBack(u)
  BY DEF Exists, Current, KeptBack, Of
<1>3. session' = session
  OBVIOUS
<1> QED
  BY <1>1, <1>2, <1>3, CallSteps

\* A call ends, with its lock if it has it.
LEMMA CallEnds ==
  ASSUME AccountInv, NEW x \in Callers, End(x), UNCHANGED <<account, session>>,
         holder' = IF holder = x THEN None ELSE holder
  PROVE  AccountInv'
<1>1. call'[x] = NoCall /\ holder' # x
  BY NoneAssumption, ShellAssumption DEF AccountInv, TypeOK, End, Callers
<1>2. Placed(x)' /\ Deleting(x)' /\ Deciding(x)'
  BY <1>1, NoCallIsIdle DEF Placed, Deleting, Deciding
<1>3. holder' \in Browsers \union {None}
  BY DEF AccountInv, TypeOK
<1> QED
  BY <1>2, <1>3, NoCallIsIdle, CallMoves DEF End

\* A call begins: at its first statement, for an account there is or will be.
LEMMA CallStarts ==
  ASSUME AccountInv, NEW x \in Callers, NEW new \in Call, Start(x, new),
         UNCHANGED <<account, session, holder>>, new.gone = {}, ~new.revoke,
         \/ /\ new.op = "login" /\ new.at = "hook" /\ new.password \in Passwords
            /\ Exists(new.user) /\ session[x] = None /\ x \in Browsers
         \/ new.op = "create" /\ new.at = "users" /\ x \in Browsers
         \/ new.op = "update" /\ new.at = "lock" /\ Exists(new.user) /\ x \in Browsers
         \/ new.op = "reset" /\ new.at = "account" /\ Exists(new.user) /\ x \in Browsers
         \/ new.op = "change" /\ new.at = "change" /\ Exists(new.user) /\ x \in Browsers
         \/ new.op = "bootstrap" /\ new.at = "users" /\ new.user = First /\ x = Shell,
         new.user \in Users
  PROVE  AccountInv'
<1>1. call'[x] = new /\ holder # x /\ Exists(First)
  BY DEF AccountInv, TypeOK, Start, Idle, Placed, Known
<1>2. new.op = "bootstrap" <=> x = Shell
  BY ShellAssumption
<1>3. Placed(x)'
  BY <1>1, <1>2 DEF Placed, Exists
<1>4. /\ ~Crosses(new) /\ ~HasUserRow(new)
      /\ new.at \notin {"account", "sessions", "commit"} \/ new.op = "reset"
  BY DEF Crosses, HasUserRow
<1>5. Deciding(x)' /\ Deleting(x)'
  BY <1>1, <1>4 DEF Deciding, Deleting
<1> QED
  BY <1>3, <1>4, <1>5, CallMoves DEF Start, AccountInv, TypeOK

LEMMA CallsStart ==
  ASSUME AccountInv, NEW b \in Browsers, SignIn(b) \/ Create(b) \/ Update(b) \/ Reset(b) \/ Change(b)
  PROVE  AccountInv'
<1>0. /\ Ops = {"login", "create", "update", "reset", "change", "bootstrap"}
      /\ {"hook", "users", "lock", "account", "change"} \subseteq Stages
      /\ TypeOK /\ Known /\ NoCall \in Call /\ b \in Callers
  BY NoCallIsIdle DEF Ops, Stages, AccountInv, Callers
<1>1. CASE SignIn(b)
  <2>1. PICK u \in Users :
          /\ Exists(u) /\ session[b] = None
          /\ Start(b, [NoCall EXCEPT !.at = "hook", !.user = u, !.password = account[u].password])
          /\ UNCHANGED <<account, session, holder>>
    BY <1>1 DEF SignIn
  <2> DEFINE new == [NoCall EXCEPT !.at = "hook", !.user = u, !.password = account[u].password]
  <2>2. account[u].password \in Passwords
    BY <2>1, <1>0 DEF TypeOK, Exists, Account
  <2>3. /\ new \in Call /\ new.op = "login" /\ new.at = "hook" /\ new.user = u
        /\ new.password \in Passwords /\ new.gone = {} /\ ~new.revoke
    BY <2>2, <1>0 DEF Call, NoCall
  <2>4. Start(b, new)
    BY <2>1
  <2> HIDE DEF new
  <2> QED
    BY <1>0, <2>1, <2>3, <2>4, CallStarts
<1>2. CASE Create(b) \/ Update(b) \/ Reset(b) \/ Change(b)
  <2>1. PICK u \in Users, op \in Ops, at \in Stages :
          /\ Start(b, [NoCall EXCEPT !.op = op, !.at = at, !.user = u])
          /\ UNCHANGED <<account, session, holder>>
          /\ \/ op = "create" /\ at = "users"
             \/ op = "update" /\ at = "lock" /\ Exists(u)
             \/ op = "reset" /\ at = "account" /\ Exists(u)
             \/ op = "change" /\ at = "change" /\ Exists(u)
    <3>1. CASE Create(b)
      BY <1>0, <3>1 DEF Create
    <3>2. CASE Update(b)
      BY <1>0, <3>2 DEF Update
    <3>3. CASE Reset(b)
      BY <1>0, <3>3 DEF Reset
    <3>4. CASE Change(b)
      <4>1. session[b].user \in Users /\ Exists(session[b].user)
        BY <1>0, <3>4 DEF Change, SessionUser, TypeOK, Session, Known
      <4> QED
        BY <1>0, <3>4, <4>1 DEF Change
    <3> QED
      BY <1>2, <3>1, <3>2, <3>3, <3>4
  <2> DEFINE new == [NoCall EXCEPT !.op = op, !.at = at, !.user = u]
  <2>2. /\ new \in Call /\ new.op = op /\ new.at = at /\ new.user = u
        /\ new.gone = {} /\ ~new.revoke
    BY <1>0 DEF Call, NoCall
  <2>3. Start(b, new)
    BY <2>1
  <2> HIDE DEF new
  <2> QED
    BY <1>0, <2>1, <2>2, <2>3, CallStarts
<1> QED
  BY <1>1, <1>2

LEMMA CommandStarts == ASSUME AccountInv, StartBootstrap PROVE AccountInv'
<1> DEFINE new == [NoCall EXCEPT !.op = "bootstrap", !.at = "users", !.user = First]
<1>1. Start(Shell, new) /\ UNCHANGED <<account, session, holder>>
  BY DEF StartBootstrap
<1>2. /\ new \in Call /\ new.op = "bootstrap" /\ new.at = "users" /\ new.user = First
      /\ new.gone = {} /\ ~new.revoke
  BY NoCallIsIdle, AccountsAssumption DEF Call, NoCall, Ops, Stages
<1> HIDE DEF new
<1> QED
  BY <1>1, <1>2, CallStarts, AccountsAssumption DEF Callers

\* What is read under the lock: an update that takes away an administrator
\* finds another one, and one that disables an account it finds disabled finds
\* no session that has to end.
LEMMA Reading ==
  ASSUME AccountInv, NEW b \in Browsers, ReadUser(b)
  PROVE  AccountInv'
<1>0. b \in Callers
  BY DEF Callers
<1>1. PICK c \in Call : c = call[b] /\ c.op = "update" /\ c.at = "read" /\ c.user \in Users
                        /\ Exists(c.user) /\ holder = b /\ c.gone = {} /\ b # Shell
  BY <1>0, ShellAssumption DEF AccountInv, TypeOK, ReadUser, Placed, Deleting, Call, Ops
<1> DEFINE existing == account[c.user]
<1>2. CASE End(b) /\ holder' = None
  BY <1>0, <1>1, <1>2, CallEnds DEF ReadUser
<1>3. CASE ~(End(b) /\ holder' = None)
  <2>1. PICK role \in Roles, disabled \in BOOLEAN, replaces \in BOOLEAN :
          /\ ~(LosesAdmin(existing, role, disabled) /\ Cardinality(ActiveAdmins) <= 1)
          /\ call' = [call EXCEPT ![b].at = "users", ![b].role = role,
                       ![b].disabled = disabled, ![b].replaces = replaces,
                       ![b].revoke = disabled /\ ~existing.disabled]
          /\ UNCHANGED <<holder, account, session>>
    BY <1>1, <1>3 DEF ReadUser
  <2> DEFINE revoke == disabled /\ ~existing.disabled
             new == [c EXCEPT !.at = "users", !.role = role, !.disabled = disabled,
                              !.replaces = replaces, !.revoke = revoke]
  <2>2. /\ new \in Call /\ new.op = "update" /\ new.at = "users" /\ new.user = c.user
        /\ new.role = role /\ new.disabled = disabled /\ new.revoke = revoke /\ new.gone = {}
    BY <1>1 DEF Call, Stages
  <2>3. call' = [call EXCEPT ![b] = new]
    BY <1>1, <2>1 DEF AccountInv, TypeOK
  <2> HIDE DEF new
  <2>4. call'[b] = new
    BY <1>0, <2>3 DEF AccountInv, TypeOK
  <2>5. Placed(b)'
    BY <1>1, <2>1, <2>2, <2>4 DEF Placed, Exists
  <2>6. \/ role = "admin" /\ ~disabled
        \/ \E u \in ActiveAdmins : u # c.user
    <3> SUFFICES ASSUME ~(role = "admin" /\ ~disabled)
                 PROVE  \E u \in ActiveAdmins : u # c.user
      OBVIOUS
    <3>1. CASE c.user \in ActiveAdmins
      <4>1. LosesAdmin(existing, role, disabled)
        BY <3>1 DEF LosesAdmin, ActiveAdmins, Admin
      <4>2. IsFiniteSet(ActiveAdmins) /\ Cardinality(ActiveAdmins) \in Nat
        BY UsersAssumption, FS_Subset, FS_CardinalityType DEF ActiveAdmins
      <4>3. ~(Cardinality(ActiveAdmins) <= 1)
        BY <2>1, <4>1
      <4>4. ActiveAdmins # {c.user}
        <5>1. Cardinality({c.user}) = 1
          BY FS_Singleton
        <5> QED
          BY <4>3, <5>1
      <4> QED
        BY <3>1, <4>4
    <3>2. CASE c.user \notin ActiveAdmins
      BY <3>2 DEF AccountInv, LastAdministrator
    <3> QED
      BY <3>1, <3>2
  <2>7. disabled /\ ~revoke => Current(c.user) = {}
    BY DEF revoke, AccountInv, RevokedSessionsAreGone, Current, Of
  <2>8. Crosses(new) => disabled /\ ~revoke
    BY <2>2 DEF Crosses
  <2> HIDE DEF revoke
  <2>9. Deciding(b)'
    <3>1. /\ \A u : Current(u)' = Current(u)
          /\ ActiveAdmins' = ActiveAdmins
      BY <2>1 DEF Current, Of, ActiveAdmins, Admin, Exists
    <3> QED
      BY <2>2, <2>4, <2>6, <2>7, <2>8, <3>1 DEF Deciding
  <2>10. Deleting(b)' /\ ~HasUserRow(new)
    BY <2>2, <2>4 DEF Deleting, HasUserRow
  <2> QED
    BY <1>0, <2>1, <2>2, <2>3, <2>5, <2>9, <2>10, CallMoves DEF AccountInv, TypeOK
<1> QED
  BY <1>2, <1>3

\* A call goes on to its next statement.
LEMMA CallGoesOn ==
  ASSUME AccountInv, NEW b \in Browsers, BeforeCreate(b) \/ LockAdmins(b)
  PROVE  AccountInv'
<1>1. PICK c \in Call : c = call[b] /\ Placed(b) /\ Deleting(b) /\ b \in Callers /\ b # Shell
  BY ShellAssumption DEF AccountInv, TypeOK, Callers
<1>2. CASE BeforeCreate(b) /\ End(b)
  <2>1. holder # b
    BY <1>1, <1>2 DEF BeforeCreate, Placed, Call, Ops
  <2> QED
    BY <1>1, <1>2, <2>1, CallEnds DEF BeforeCreate
<1>3. CASE BeforeCreate(b) /\ Goto(b, "insert")
  <2> DEFINE new == [c EXCEPT !.at = "insert"]
  <2>1. /\ new \in Call /\ new.op = c.op /\ new.at = "insert" /\ new.user = c.user
        /\ new.password = c.password /\ new.revoke = c.revoke /\ new.gone = c.gone
    BY DEF Call, Stages
  <2>2. call' = [call EXCEPT ![b] = new] /\ UNCHANGED <<account, session, holder>> /\ c.at = "hook"
    BY <1>1, <1>3 DEF BeforeCreate, Goto
  <2> HIDE DEF new
  <2>3. call'[b] = new
    BY <1>1, <2>2 DEF AccountInv, TypeOK
  <2>4. c.op = "login" /\ c.gone = {} /\ ~c.revoke
    BY <1>1, <2>2 DEF Placed, Deleting, Call, Ops
  <2>5. Placed(b)' /\ Deciding(b)' /\ Deleting(b)' /\ ~HasUserRow(new)
    BY <1>1, <2>1, <2>2, <2>3, <2>4
       DEF Placed, Deciding, Deleting, Exists, Crosses, HasUserRow
  <2> QED
    BY <1>1, <2>1, <2>2, <2>5, CallMoves DEF AccountInv, TypeOK
<1>4. CASE LockAdmins(b)
  <2> DEFINE new == [c EXCEPT !.at = "read"]
  <2>1. /\ new \in Call /\ new.op = c.op /\ new.at = "read" /\ new.user = c.user
        /\ new.password = c.password /\ new.revoke = c.revoke /\ new.gone = c.gone
        /\ new.disabled = c.disabled
    BY DEF Call, Stages
  <2>2. /\ call' = [call EXCEPT ![b] = new] /\ UNCHANGED <<account, session>> /\ c.at = "lock"
        /\ holder = None /\ holder' = b
    BY <1>1, <1>4 DEF LockAdmins, Goto
  <2> HIDE DEF new
  <2>3. call'[b] = new
    BY <1>1, <2>2 DEF AccountInv, TypeOK
  <2>4. c.op = "update" /\ c.gone = {}
    BY <1>1, <2>2 DEF Placed, Deleting, Call, Ops
  <2>5. Placed(b)' /\ Deciding(b)' /\ Deleting(b)' /\ ~HasUserRow(new)
    BY <1>1, <2>1, <2>2, <2>3, <2>4
       DEF Placed, Deciding, Deleting, Exists, Crosses, HasUserRow
  <2> QED
    BY <1>1, <2>1, <2>2, <2>5, CallMoves
<1> QED
  BY <1>2, <1>3, <1>4 DEF BeforeCreate

\* The statements of a transaction, up to its commit.
LEMMA StatementRuns ==
  ASSUME AccountInv, NEW x \in Callers, WriteUsers(x) \/ WriteAccounts(x) \/ DeleteSessions(x)
  PROVE  AccountInv'
<1>1. PICK c \in Call : c = call[x] /\ Placed(x) /\ Deleting(x) /\ Deciding(x)
  BY DEF AccountInv, TypeOK
<1>2. CASE WriteUsers(x) \/ WriteAccounts(x)
  <2>1. PICK at \in {"users", "account", "sessions", "commit"} :
          /\ call' = [call EXCEPT ![x].at = at] /\ UNCHANGED <<account, session, holder>>
          /\ c.at \in {"users", "account"} /\ c.op # "create"
          /\ c.op # "update" => at \in {"users", "sessions"}
          /\ c.op = "reset" \/ at # "users"
          /\ c.op = "update" /\ at = "sessions" => c.revoke
          /\ c.op = "update" /\ at = "commit" => ~c.revoke
          /\ c.at = "users" => UserRowFree(c.user)
          /\ c.at = "account" => (c.op = "reset" /\ at = "users") \/ c.op = "update"
    BY <1>1, <1>2 DEF WriteUsers, WriteAccounts, Goto, Placed, Call, Ops
  <2> DEFINE new == [c EXCEPT !.at = at]
  <2>2. /\ new \in Call /\ new.op = c.op /\ new.at = at /\ new.user = c.user
        /\ new.password = c.password /\ new.revoke = c.revoke /\ new.gone = c.gone
        /\ new.disabled = c.disabled /\ new.role = c.role
    BY DEF Call, Stages
  <2>3. call' = [call EXCEPT ![x] = new]
    BY <1>1, <2>1
  <2> HIDE DEF new
  <2>4. call'[x] = new
    BY <2>3 DEF AccountInv, TypeOK
  <2>5. c.gone = {}
    BY <1>1, <2>1 DEF Deleting
  <2>6. Placed(x)' /\ Deleting(x)'
    BY <1>1, <2>1, <2>2, <2>4, <2>5 DEF Placed, Deleting, Exists
  <2>7. Crosses(new) => Crosses(c)
    BY <2>1, <2>2 DEF Crosses
  <2>8. HasUserRow(new) => HasUserRow(c) \/ UserRowFree(c.user)
    BY <2>1, <2>2 DEF HasUserRow
  <2>9. \A u : /\ Current(u)' = Current(u) /\ KeptBack(u)' = KeptBack(u)
               /\ ActiveAdmins' = ActiveAdmins
    BY <2>1 DEF Current, KeptBack, Of, ActiveAdmins, Admin, Exists
  <2>10. Deciding(x)'
    BY <1>1, <2>1, <2>2, <2>4, <2>7, <2>9 DEF Deciding
  <2> QED
    BY <1>1, <2>1, <2>2, <2>3, <2>6, <2>8, <2>10, CallMoves DEF AccountInv, TypeOK
<1>3. CASE DeleteSessions(x)
  <2> DEFINE found == {d \in Browsers : Of(d, c.user)}
             new == [c EXCEPT !.at = "commit", !.gone = found]
  <2>1. /\ new \in Call /\ new.op = c.op /\ new.at = "commit" /\ new.user = c.user
        /\ new.password = c.password /\ new.revoke = c.revoke /\ new.gone = found
        /\ new.disabled = c.disabled /\ new.role = c.role
    BY DEF Call, Stages
  <2>2. /\ call' = [call EXCEPT ![x] = new] /\ UNCHANGED <<account, session, holder>>
        /\ c.at = "sessions" /\ found' = found
    BY <1>1, <1>3 DEF DeleteSessions, Of
  <2> HIDE DEF new
  <2>3. call'[x] = new
    BY <2>2 DEF AccountInv, TypeOK
  <2>4. Placed(x)'
    BY <1>1, <2>1, <2>2, <2>3 DEF Placed, Exists
  <2>5. Deleting(x)'
    BY <2>1, <2>2, <2>3 DEF Deleting, Of
  <2>6. \A u : /\ Current(u)' = Current(u) /\ KeptBack(u)' = KeptBack(u)
               /\ ActiveAdmins' = ActiveAdmins
    BY <2>2 DEF Current, KeptBack, Of, ActiveAdmins, Admin, Exists
  <2>7. Current(c.user) \subseteq found /\ KeptBack(c.user) \subseteq found
    BY DEF Current, KeptBack
  <2>8. Deciding(x)'
    BY <1>1, <2>1, <2>2, <2>3, <2>6, <2>7 DEF Deciding
  <2>9. HasUserRow(c)
    BY <2>2 DEF HasUserRow
  <2> QED
    BY <1>1, <2>1, <2>2, <2>4, <2>5, <2>8, <2>9, CallMoves DEF AccountInv, TypeOK
<1> QED
  BY <1>2, <1>3

LEMMA SessionInserted ==
  ASSUME AccountInv, NEW b \in Browsers, InsertSession(b)
  PROVE  AccountInv'
<1>1. PICK c \in Call : c = call[b] /\ c.at = "insert" /\ Placed(b) /\ b \in Callers /\ b # Shell
  BY ShellAssumption DEF AccountInv, TypeOK, InsertSession, Callers
<1>2. c.op = "login" /\ c.user \in Users /\ Exists(c.user) /\ c.password \in Passwords /\ holder # b
      /\ session[b] = None
  BY <1>1 DEF Placed, Call, Ops
<1> DEFINE late == \/ account[c.user].disabled \/ Crossed(c.user)
                   \/ account[c.user].password # c.password
           new == [user |-> c.user, password |-> c.password,
                   spared |-> IF late THEN "late" ELSE "no"]
<1>3. /\ new \in Session /\ new.user = c.user /\ new.password = c.password
      /\ late => new.spared = "late"
      /\ ~late => new.spared = "no"
  BY <1>2 DEF Session
<1>4. session' = [session EXCEPT ![b] = new] /\ End(b) /\ UNCHANGED <<account, holder>>
  BY <1>1 DEF InsertSession
<1> HIDE DEF new
<1>5. /\ session' \in [Browsers -> Session \union {None}] /\ session'[b] = new
      /\ \A d \in Browsers \ {b} : session'[d] = session[d]
  BY <1>3, <1>4 DEF AccountInv, TypeOK
<1>6. /\ \A u \in Users : Exists(u) => Exists(u)'
      /\ ActiveAdmins \subseteq ActiveAdmins' /\ LastAdministrator'
  BY <1>4 DEF AccountInv, LastAdministrator, ActiveAdmins, Admin, Exists
<1>7. RevokedSessionsAreGone'
  <2> SUFFICES ASSUME NEW d \in Browsers, session'[d] # None, session'[d].spared # "late"
               PROVE  LET a == account[session'[d].user] IN
                      /\ ~a.disabled
                      /\ IF session'[d].spared = "kept" THEN a.mustChange
                         ELSE a.password = session'[d].password
    BY <1>4 DEF RevokedSessionsAreGone
  <2>1. CASE d = b
    BY <2>1, <1>3, <1>5
  <2>2. CASE d # b
    BY <2>2, <1>5 DEF AccountInv, RevokedSessionsAreGone
  <2> QED
    BY <2>1, <2>2
<1>8. \A u \in Users : Current(u)' \subseteq Current(u) \/ ~Crossed(u)
  <2> SUFFICES ASSUME NEW u \in Users, Crossed(u), NEW d \in Browsers,
                      session'[d] # None, session'[d].user = u, session'[d].spared # "late"
               PROVE  d \in Current(u)
    BY DEF Current, Of
  <2>1. d # b
    BY <1>3, <1>5
  <2> QED
    BY <2>1, <1>5 DEF Current, Of
<1>9. \A u : KeptBack(u)' \subseteq KeptBack(u)
  <2> SUFFICES ASSUME NEW u, NEW d \in Browsers, session'[d] # None, session'[d].user = u,
                      session'[d].spared = "kept"
               PROVE  d \in KeptBack(u)
    BY DEF KeptBack, Of
  <2>1. d # b
    BY <1>3, <1>5
  <2> QED
    BY <2>1, <1>5 DEF KeptBack, Of
<1>10. /\ call' = [call EXCEPT ![b] = NoCall]
       /\ account' \in [Users -> Account \union {None}]
       /\ holder' = holder /\ holder \in Browsers \union {None}
  BY <1>4 DEF End, AccountInv, TypeOK
<1>11. Placed(b)' /\ Deleting(b)' /\ Deciding(b)'
  <2>1. call'[b] = NoCall
    BY <1>1, <1>10 DEF AccountInv, TypeOK
  <2> QED
    BY <1>1, <1>2, <1>10, <2>1, NoCallIsIdle DEF Placed, Deleting, Deciding
<1>12. \A d \in Browsers : session'[d] # None =>
         \/ session[d] # None /\ session'[d].user = session[d].user
         \/ d = b /\ session[d] = None /\ Exists(session'[d].user)
  BY <1>2, <1>3, <1>5
<1>13. \A d \in Browsers : ~(session[d] # None /\ session'[d] = None)
  BY <1>2, <1>5
<1> QED
  BY <1>1, <1>5, <1>6, <1>7, <1>8, <1>9, <1>10, <1>11, <1>12, <1>13, NoCallIsIdle, CallSteps

LEMMA SessionEnded ==
  ASSUME AccountInv, NEW b \in Browsers, EndSession(b)
  PROVE  AccountInv'
<1>1. /\ call[b].at = "none" /\ session' = [session EXCEPT ![b] = None] /\ SessionRowFree(b)
      /\ UNCHANGED <<account, call, holder>> /\ b \in Callers
  BY DEF EndSession, Idle, Callers
<1>2. /\ call' = [call EXCEPT ![b] = call[b]] /\ call[b] \in Call
      /\ holder' \in Browsers \union {None}
  BY <1>1 DEF AccountInv, TypeOK
<1>3. /\ session' \in [Browsers -> Session \union {None}]
      /\ \A d \in Browsers : session'[d] # None => session'[d] = session[d]
      /\ \A d \in Browsers : session[d] # None /\ session'[d] = None => d = b
      /\ account' \in [Users -> Account \union {None}]
  BY <1>1 DEF AccountInv, TypeOK
<1>4. /\ \A u \in Users : Exists(u) => Exists(u)'
      /\ ActiveAdmins \subseteq ActiveAdmins' /\ LastAdministrator'
  BY <1>1 DEF AccountInv, LastAdministrator, ActiveAdmins, Admin, Exists
<1>5. RevokedSessionsAreGone'
  BY <1>1, <1>3 DEF AccountInv, RevokedSessionsAreGone
<1>6. \A u : Current(u)' \subseteq Current(u) /\ KeptBack(u)' \subseteq KeptBack(u)
  BY <1>3 DEF Current, KeptBack, Of
<1>7. Placed(b)' /\ Deleting(b)' /\ Deciding(b)'
  <2>1. Placed(b) /\ Deleting(b)
    BY <1>1 DEF AccountInv
  <2>2. call[b].op = "login" /\ call[b].gone = {}
    BY <1>1, <1>2, <2>1 DEF Placed, Deleting, Call, Ops
  <2>3. Placed(b)'
    BY <1>1, <2>1, <2>2 DEF Placed
  <2> QED
    BY <1>1, <2>2, <2>3 DEF Deleting, Deciding, Crosses
<1> QED
  BY <1>1, <1>2, <1>3, <1>4, <1>5, <1>6, <1>7, CallSteps

\* An account is changed and not disabled: the sessions that are left to it are
\* late, kept for a change of password, or have its password.
LEMMA AccountChanged ==
  ASSUME AccountInv, NEW u \in Users, Exists(u), NEW new \in Account,
         account' = [account EXCEPT ![u] = new],
         \A d \in Browsers : session'[d] # None /\ session'[d].user # u =>
           session'[d] = session[d],
         \A d \in Browsers : session'[d] # None /\ session'[d].user = u
                              /\ session'[d].spared # "late" =>
           /\ ~new.disabled
           /\ IF session'[d].spared = "kept" THEN new.mustChange
              ELSE new.password = session'[d].password
  PROVE  /\ account' \in [Users -> Account \union {None}] /\ account'[u] = new
         /\ \A v \in Users \ {u} : account'[v] = account[v]
         /\ \A v \in Users : Exists(v) => Exists(v)'
         /\ RevokedSessionsAreGone'
<1>1. /\ account' \in [Users -> Account \union {None}] /\ account'[u] = new
      /\ \A v \in Users \ {u} : account'[v] = account[v]
      /\ new # None
  BY NoneAssumption DEF AccountInv, TypeOK
<1>2. \A v \in Users : Exists(v) => Exists(v)'
  BY <1>1 DEF Exists
<1>3. RevokedSessionsAreGone'
  <2> SUFFICES ASSUME NEW d \in Browsers, session'[d] # None, session'[d].spared # "late"
               PROVE  LET a == account'[session'[d].user] IN
                      /\ ~a.disabled
                      /\ IF session'[d].spared = "kept" THEN a.mustChange
                         ELSE a.password = session'[d].password
    BY DEF RevokedSessionsAreGone
  <2>1. CASE session'[d].user = u
    BY <1>1, <2>1
  <2>2. CASE session'[d].user # u
    <3>1. session'[d] = session[d] /\ session[d].user \in Users \ {u}
      BY <2>2 DEF AccountInv, TypeOK, Session
    <3> QED
      BY <1>1, <3>1 DEF AccountInv, RevokedSessionsAreGone
  <2> QED
    BY <2>1, <2>2
<1> QED
  BY <1>1, <1>2, <1>3

\* No administrator goes when an account keeps its role and state, or becomes an
\* administrator's.
LEMMA AdministratorsStay ==
  ASSUME AccountInv, NEW u \in Users, Exists(u), NEW new \in Account,
         account'[u] = new, \A v \in Users \ {u} : account'[v] = account[v],
         \/ new.role = account[u].role /\ new.disabled = account[u].disabled
         \/ new.role = "admin" /\ new.disabled = FALSE
  PROVE  ActiveAdmins \subseteq ActiveAdmins' /\ LastAdministrator'
<1>1. ActiveAdmins \subseteq ActiveAdmins'
  <2> SUFFICES ASSUME NEW v \in Users, Admin(v) PROVE Admin(v)'
    BY DEF ActiveAdmins
  <2>1. CASE v = u
    BY <2>1, NoneAssumption DEF Admin, Exists
  <2>2. CASE v # u
    BY <2>2 DEF Admin, Exists
  <2> QED
    BY <2>1, <2>2
<1> QED
  BY <1>1 DEF AccountInv, LastAdministrator

\* A transaction commits: the row it has written, and of the sessions those that
\* it has not deleted.
LEMMA Commits ==
  ASSUME AccountInv, NEW x \in Callers, NEW c \in Call, c = call[x], c.at = "commit",
         NEW row \in Account, account' = [account EXCEPT ![c.user] = row],
         NEW new \in Call, call' = [call EXCEPT ![x] = new],
         session' \in [Browsers -> Session \union {None}],
         \A d \in Browsers : session'[d] # None =>
           /\ d \notin c.gone /\ session[d] # None
           /\ session'[d].user = session[d].user
           /\ session'[d].spared = "late" <=> session[d].spared = "late"
           /\ session[d].user # c.user => session'[d] = session[d],
         \A d \in Browsers : session[d] # None /\ session'[d] = None => d \in c.gone,
         \A d \in Browsers : session'[d] # None /\ session'[d].user = c.user
                              /\ session'[d].spared # "late" =>
           /\ ~row.disabled
           /\ IF session'[d].spared = "kept" THEN row.mustChange
              ELSE row.password = session'[d].password,
         holder' = IF holder = x THEN None ELSE holder,
         \/ row.role = account[c.user].role /\ row.disabled = account[c.user].disabled
         \/ row.role = "admin" /\ row.disabled = FALSE
         \/ holder = x /\ LastAdministrator',
         \/ new = NoCall
         \/ new.op = "bootstrap" /\ new.at = "password" /\ x = Shell /\ new.user = First
            /\ new.gone = {} /\ new.revoke = FALSE /\ c.op = "bootstrap"
  PROVE  AccountInv'
<1>1. Placed(x) /\ Deciding(x) /\ c.user \in Users /\ HasUserRow(c)
  BY DEF AccountInv, Placed, HasUserRow
<1>2. Exists(c.user)
  BY <1>1 DEF Placed
<1>3. /\ account' \in [Users -> Account \union {None}] /\ account'[c.user] = row
      /\ \A v \in Users \ {c.user} : account'[v] = account[v]
      /\ \A v \in Users : Exists(v) => Exists(v)'
      /\ RevokedSessionsAreGone'
  <2>1. \A d \in Browsers : session'[d] # None /\ session'[d].user # c.user =>
          session'[d] = session[d]
    OBVIOUS
  <2> QED
    BY <1>1, <1>2, <2>1, AccountChanged
<1>4. (holder = x \/ ActiveAdmins \subseteq ActiveAdmins') /\ LastAdministrator'
  <2>1. CASE holder = x /\ LastAdministrator'
    BY <2>1
  <2>2. CASE \/ row.role = account[c.user].role /\ row.disabled = account[c.user].disabled
             \/ row.role = "admin" /\ row.disabled = FALSE
    BY <1>1, <1>2, <1>3, <2>2, AdministratorsStay
  <2> QED
    BY <2>1, <2>2
<1>5. \A u : Current(u)' \subseteq Current(u) \ (IF u = c.user THEN c.gone ELSE {})
  BY DEF Current, Of
<1>6. \A u : u # c.user => KeptBack(u)' \subseteq KeptBack(u)
  BY DEF KeptBack, Of
<1>7. call'[x] = new /\ holder' # x /\ holder' \in Browsers \union {None}
  BY NoneAssumption, ShellAssumption DEF AccountInv, TypeOK, Callers
<1>8. Placed(x)' /\ Deleting(x)' /\ Deciding(x)' /\ ~HasUserRow(new)
  <2>1. CASE new = NoCall
    BY <1>7, <2>1, NoCallIsIdle DEF Placed, Deleting, Deciding
  <2>2. CASE /\ new.op = "bootstrap" /\ new.at = "password" /\ x = Shell /\ new.user = First
             /\ new.gone = {} /\ new.revoke = FALSE /\ c.op = "bootstrap"
    <3>1. c.user = First /\ Crosses(c)
      BY <1>1, <2>2 DEF Placed, Crosses
    <3>2. Current(First) \subseteq c.gone
      BY <1>1, <3>1 DEF Deciding
    <3>3. Current(First)' = {}
      BY <1>5, <3>1, <3>2
    <3>4. Exists(First)' /\ First \in Users
      BY <1>1, <1>2, <1>3, <3>1
    <3>5. account'[First] # None
      BY <3>4 DEF Exists
    <3>6. Placed(x)'
      BY <1>7, <2>2, <3>4, <3>5 DEF Placed, Exists
    <3> QED
      BY <1>7, <2>2, <3>3, <3>6 DEF Deleting, Deciding, HasUserRow
  <2> QED
    BY <2>1, <2>2
<1>9. \A u \in Users : Current(u)' \subseteq Current(u)
  BY <1>5
<1> QED
  BY <1>1, <1>3, <1>4, <1>6, <1>7, <1>8, <1>9, CallSteps

\* What is left of the sessions when a transaction commits that has ended them.
LEMMA WhatIsLeft ==
  ASSUME AccountInv, NEW x \in Callers, session' = Left(x)
  PROVE  /\ session' \in [Browsers -> Session \union {None}]
         /\ \A d \in Browsers : session'[d] # None =>
              d \notin call[x].gone /\ session'[d] = session[d]
         /\ \A d \in Browsers : session[d] # None /\ session'[d] = None => d \in call[x].gone
BY DEF Left, AccountInv, TypeOK

\* The commit of saveUser: another administrator is left, and sessions that are
\* not ended keep an account that is not disabled.
LEMMA UserUpdated ==
  ASSUME AccountInv, NEW b \in Browsers, UpdateUser(b) PROVE AccountInv'
<1>1. PICK c \in Call : /\ c = call[b] /\ c.at = "commit" /\ c.op = "update" /\ b \in Callers
  BY DEF AccountInv, TypeOK, UpdateUser, Commit, Callers
<1>2. /\ Placed(b) /\ Deciding(b) /\ c.user \in Users /\ Exists(c.user) /\ holder = b
      /\ c.role \in Roles /\ c.disabled \in BOOLEAN
  <2>1. Placed(b) /\ Deciding(b)
    BY <1>1 DEF AccountInv
  <2> QED
    BY <1>1, <2>1 DEF Placed, Call
<1>3. PICK old \in Account : old = account[c.user]
  BY <1>2 DEF AccountInv, TypeOK, Exists
<1>4. PICK row \in Account : /\ account' = [account EXCEPT ![c.user] = row]
                             /\ row.role = c.role /\ row.disabled = c.disabled
                             /\ IF c.replaces THEN row.mustChange
                                ELSE /\ row.password = old.password
                                     /\ row.mustChange = old.mustChange
  <2> DEFINE moved == [old EXCEPT !.role = c.role, !.disabled = c.disabled]
  <2>1. /\ moved \in Account /\ moved.role = c.role /\ moved.disabled = c.disabled
        /\ moved.password = old.password /\ moved.mustChange = old.mustChange
    BY <1>2 DEF Account
  <2>2. IF c.replaces
          THEN \E p \in Passwords :
                 account' = [account EXCEPT ![c.user] =
                               [moved EXCEPT !.password = p, !.mustChange = TRUE]]
          ELSE account' = [account EXCEPT ![c.user] = moved]
    BY <1>1, <1>3 DEF UpdateUser, Commit
  <2> HIDE DEF moved
  <2>3. CASE c.replaces
    <3>1. PICK p \in Passwords :
            account' = [account EXCEPT ![c.user] =
                          [moved EXCEPT !.password = p, !.mustChange = TRUE]]
      BY <2>2, <2>3
    <3> DEFINE row == [moved EXCEPT !.password = p, !.mustChange = TRUE]
    <3>2. row \in Account /\ row.role = c.role /\ row.disabled = c.disabled /\ row.mustChange
      BY <2>1 DEF Account
    <3>3. account' = [account EXCEPT ![c.user] = row]
      BY <3>1
    <3> HIDE DEF row
    <3> QED
      BY <2>3, <3>2, <3>3
  <2>4. CASE ~c.replaces
    BY <2>1, <2>2, <2>4
  <2> QED
    BY <2>3, <2>4
<1>5. /\ session' = [d \in Browsers |->
           IF Left(b)[d] # None /\ c.replaces /\ Of(d, c.user) /\ session[d].spared = "no"
             THEN [session[d] EXCEPT !.spared = "kept"] ELSE Left(b)[d]]
      /\ End(b) /\ holder' = None
  BY <1>1 DEF UpdateUser
<1>6. ASSUME NEW d \in Browsers, d \notin c.gone, session[d] # None
      PROVE  /\ session'[d] \in Session
             /\ IF c.replaces /\ session[d].user = c.user /\ session[d].spared = "no"
                  THEN /\ session'[d].spared = "kept"
                       /\ session'[d].user = session[d].user
                       /\ session'[d].password = session[d].password
                  ELSE session'[d] = session[d]
  <2>1. session[d] \in Session /\ Left(b)[d] = session[d]
    BY <1>1, <1>6 DEF Left, AccountInv, TypeOK
  <2> DEFINE kept == [session[d] EXCEPT !.spared = "kept"]
  <2>2. /\ kept \in Session /\ kept.spared = "kept" /\ kept.user = session[d].user
        /\ kept.password = session[d].password
    BY <2>1 DEF Session
  <2>3. session'[d] = IF c.replaces /\ session[d].user = c.user /\ session[d].spared = "no"
                        THEN kept ELSE session[d]
    BY <1>5, <1>6, <2>1 DEF Of
  <2> HIDE DEF kept
  <2> QED
    BY <2>1, <2>2, <2>3
<1>7. ASSUME NEW d \in Browsers, d \in c.gone \/ session[d] = None
      PROVE  session'[d] = None
  BY <1>1, <1>5, <1>7 DEF Left, Of
<1>8. session' \in [Browsers -> Session \union {None}]
  <2>1. \A d \in Browsers : session'[d] \in Session \union {None}
    BY <1>6, <1>7
  <2>2. session' = [d \in Browsers |-> session'[d]]
    BY <1>5
  <2> QED
    BY <2>1, <2>2
<1>9. \A d \in Browsers : session'[d] # None =>
           /\ d \notin c.gone /\ session[d] # None
           /\ session'[d].user = session[d].user
           /\ session'[d].spared = "late" <=> session[d].spared = "late"
           /\ session[d].user # c.user => session'[d] = session[d]
  BY <1>6, <1>7
<1>10. \A d \in Browsers : session[d] # None /\ session'[d] = None => d \in c.gone
  BY <1>6, NoneAssumption
<1>11. ASSUME NEW d \in Browsers, session'[d] # None, session'[d].user = c.user,
              session'[d].spared # "late"
       PROVE  /\ ~row.disabled
              /\ IF session'[d].spared = "kept" THEN row.mustChange
                 ELSE row.password = session'[d].password
  <2>1. /\ d \notin c.gone /\ session[d] # None /\ session[d].user = c.user
        /\ session[d].spared # "late"
    BY <1>9, <1>11
  <2>2. ~c.disabled
    <3>1. d \in Current(c.user)
      BY <2>1 DEF Current, Of
    <3> QED
      BY <1>1, <1>2, <2>1, <3>1 DEF Deciding, Crosses
  <2>3. /\ ~old.disabled
        /\ IF session[d].spared = "kept" THEN old.mustChange
           ELSE old.password = session[d].password
    BY <1>3, <2>1 DEF AccountInv, RevokedSessionsAreGone
  <2>4. session[d].spared \in {"no", "kept"}
    BY <2>1 DEF AccountInv, TypeOK, Session
  <2> QED
    BY <1>4, <1>6, <2>1, <2>2, <2>3, <2>4
<1>12. LastAdministrator'
  <2>0. /\ account'[c.user] = row /\ row # None
        /\ \A u \in Users \ {c.user} : account'[u] = account[u]
    BY <1>2, <1>4, NoneAssumption DEF AccountInv, TypeOK
  <2>1. CASE c.role = "admin" /\ ~c.disabled
    <3>1. Admin(c.user)'
      BY <1>4, <2>0, <2>1 DEF Admin, Exists
    <3> QED
      BY <1>2, <3>1 DEF LastAdministrator, ActiveAdmins
  <2>2. CASE \E u \in ActiveAdmins : u # c.user
    <3>1. PICK u \in Users \ {c.user} : Admin(u)
      BY <2>2 DEF ActiveAdmins
    <3>2. Admin(u)'
      BY <2>0, <3>1 DEF Admin, Exists
    <3> QED
      BY <3>2 DEF LastAdministrator, ActiveAdmins
  <2> QED
    BY <1>1, <1>2, <2>1, <2>2 DEF Deciding
<1>13. call' = [call EXCEPT ![b] = NoCall] /\ holder' = IF holder = b THEN None ELSE holder
  BY <1>2, <1>5 DEF End
<1> QED
  <2>1. c = call[b] /\ c.at = "commit" /\ b \in Callers
    BY <1>1
  <2>2. account' = [account EXCEPT ![c.user] = row]
    BY <1>4
  <2>3. call' = [call EXCEPT ![b] = NoCall] /\ NoCall \in Call
    BY <1>13, NoCallIsIdle
  <2>4. \A d \in Browsers : session'[d] # None /\ session'[d].user = c.user
                              /\ session'[d].spared # "late" =>
           /\ ~row.disabled
           /\ IF session'[d].spared = "kept" THEN row.mustChange
              ELSE row.password = session'[d].password
    BY <1>11
  <2>5. holder' = IF holder = b THEN None ELSE holder
    BY <1>13
  <2>6. holder = b /\ LastAdministrator'
    BY <1>2, <1>12
  <2>8. \A d \in Browsers : session'[d] # None =>
           /\ d \notin c.gone /\ session[d] # None
           /\ session'[d].user = session[d].user
           /\ session'[d].spared = "late" <=> session[d].spared = "late"
           /\ session[d].user # c.user => session'[d] = session[d]
    BY <1>9
  <2>9. session' \in [Browsers -> Session \union {None}]
    BY <1>8
  <2>10. \A d \in Browsers : session[d] # None /\ session'[d] = None => d \in c.gone
    BY <1>10
  <2> QED
    <3>1. \/ row.role = account[c.user].role /\ row.disabled = account[c.user].disabled
          \/ row.role = "admin" /\ row.disabled = FALSE
          \/ holder = b /\ LastAdministrator'
      BY <2>6
    <3> QED
      BY <2>1, <2>2, <2>3, <2>4, <2>5, <2>8, <2>9, <2>10, <3>1, Commits

\* The commits of resetUserPassword and changeOwnPassword.
LEMMA AccountWritten ==
  ASSUME AccountInv, NEW b \in Browsers, ResetPassword(b) \/ ClearFlag(b) PROVE AccountInv'
<1>1. PICK c \in Call : /\ c = call[b] /\ c.at = "commit" /\ c.op \in {"reset", "change"}
                        /\ b \in Callers
  BY DEF AccountInv, TypeOK, ResetPassword, ClearFlag, Commit, Callers
<1>2. Placed(b) /\ Deciding(b) /\ c.user \in Users /\ Exists(c.user) /\ holder # b
  <2>1. Placed(b) /\ Deciding(b)
    BY <1>1 DEF AccountInv
  <2> QED
    BY <1>1, <2>1 DEF Placed
<1>3. PICK old \in Account : old = account[c.user]
  BY <1>2 DEF AccountInv, TypeOK, Exists
<1>4. PICK row \in Account : /\ account' = [account EXCEPT ![c.user] = row]
                             /\ row.role = old.role /\ row.disabled = old.disabled
                             /\ c.op = "change" => row.password = old.password
  <2>1. CASE ResetPassword(b)
    <3>1. PICK p \in Passwords :
            account' = [account EXCEPT ![c.user] = [old EXCEPT !.password = p, !.mustChange = TRUE]]
      BY <1>1, <1>3, <2>1 DEF ResetPassword, Commit
    <3> DEFINE row == [old EXCEPT !.password = p, !.mustChange = TRUE]
    <3>2. row \in Account /\ row.role = old.role /\ row.disabled = old.disabled
      BY DEF Account
    <3>3. c.op = "reset" /\ account' = [account EXCEPT ![c.user] = row]
      BY <1>1, <2>1, <3>1 DEF ResetPassword
    <3> HIDE DEF row
    <3> QED
      BY <3>2, <3>3
  <2>2. CASE ClearFlag(b)
    <3> DEFINE row == [old EXCEPT !.mustChange = FALSE]
    <3>1. account' = [account EXCEPT ![c.user] = row]
      BY <1>1, <1>3, <2>2 DEF ClearFlag, Commit
    <3>2. row \in Account /\ row.role = old.role /\ row.disabled = old.disabled
          /\ row.password = old.password
      BY DEF Account
    <3> HIDE DEF row
    <3> QED
      BY <3>1, <3>2
  <2> QED
    BY <2>1, <2>2
<1>5. session' = Left(b) /\ End(b) /\ holder' = holder
  BY <1>1 DEF ResetPassword, ClearFlag
<1>6. /\ session' \in [Browsers -> Session \union {None}]
      /\ \A d \in Browsers : session'[d] # None => d \notin c.gone /\ session'[d] = session[d]
      /\ \A d \in Browsers : session[d] # None /\ session'[d] = None => d \in c.gone
  BY <1>1, <1>5, WhatIsLeft
<1>7. ASSUME NEW d \in Browsers, session'[d] # None, session'[d].user = c.user,
             session'[d].spared # "late"
      PROVE  /\ ~row.disabled
             /\ IF session'[d].spared = "kept" THEN row.mustChange
                ELSE row.password = session'[d].password
  <2>1. d \notin c.gone /\ session'[d] = session[d] /\ d \in Current(c.user)
    BY <1>6, <1>7 DEF Current, Of
  <2>2. c.op = "change" /\ session[d].spared # "kept"
    <3>1. c.op # "reset"
      BY <1>1, <1>2, <2>1 DEF Deciding, Crosses
    <3>2. d \notin KeptBack(c.user)
      BY <1>1, <1>2, <2>1, <3>1 DEF Deciding
    <3> QED
      BY <1>1, <2>1, <3>1, <3>2 DEF KeptBack, Current
  <2> QED
    BY <1>3, <1>4, <1>7, <2>1, <2>2 DEF AccountInv, RevokedSessionsAreGone
<1>8. call' = [call EXCEPT ![b] = NoCall] /\ holder' = IF holder = b THEN None ELSE holder
  BY <1>2, <1>5 DEF End
<1>9. \A d \in Browsers : session'[d] # None =>
           /\ d \notin c.gone /\ session[d] # None
           /\ session'[d].user = session[d].user
           /\ session'[d].spared = "late" <=> session[d].spared = "late"
           /\ session[d].user # c.user => session'[d] = session[d]
  BY <1>6
<1> QED
  <2>1. c = call[b] /\ c.at = "commit" /\ b \in Callers
    BY <1>1
  <2>2. account' = [account EXCEPT ![c.user] = row]
    BY <1>4
  <2>3. call' = [call EXCEPT ![b] = NoCall] /\ NoCall \in Call
    BY <1>8, NoCallIsIdle
  <2>4. session' \in [Browsers -> Session \union {None}]
    BY <1>6
  <2>5. \A d \in Browsers : session[d] # None /\ session'[d] = None => d \in c.gone
    BY <1>6
  <2>6. \A d \in Browsers : session'[d] # None /\ session'[d].user = c.user
                              /\ session'[d].spared # "late" =>
           /\ ~row.disabled
           /\ IF session'[d].spared = "kept" THEN row.mustChange
              ELSE row.password = session'[d].password
    BY <1>7
  <2>7. holder' = IF holder = b THEN None ELSE holder
    BY <1>8
  <2>8. row.role = account[c.user].role /\ row.disabled = account[c.user].disabled
    BY <1>3, <1>4
  <2> QED
    BY <1>9, <2>1, <2>2, <2>3, <2>4, <2>5, <2>6, <2>7, <2>8, Commits

\* The bootstrap command, which takes no lock of the administrators: it takes
\* none away, and while it has a password to set all sessions of its account are
\* late.
LEMMA CommandCommits == ASSUME AccountInv, Bootstrap PROVE AccountInv'
<1>1. PICK c \in Call : c = call[Shell] /\ c.at = "commit"
  BY DEF AccountInv, TypeOK, Bootstrap, Commit, Callers
<1>2. /\ Placed(Shell) /\ Deciding(Shell) /\ c.op = "bootstrap" /\ c.user = First
      /\ First \in Users /\ Exists(First) /\ Shell \in Callers
  <2>1. Placed(Shell) /\ Deciding(Shell) /\ Shell \in Callers
    BY DEF AccountInv, Callers
  <2> QED
    BY <1>1, <2>1 DEF Placed
<1>3. PICK old \in Account : old = account[First]
  BY <1>2 DEF AccountInv, TypeOK, Exists
<1>4. PICK row \in Account : /\ account' = [account EXCEPT ![c.user] = row]
                             /\ row.role = "admin" /\ row.disabled = FALSE
  <2> DEFINE row == BootAccount(old.password)
  <2>1. row \in Account /\ row.role = "admin" /\ row.disabled = FALSE
    BY DEF BootAccount, NewAccount, Account, Roles
  <2>2. account' = [account EXCEPT ![c.user] = row]
    BY <1>1, <1>3 DEF Bootstrap, Commit
  <2> HIDE DEF row
  <2> QED
    BY <2>1, <2>2
<1>5. PICK new \in Call :
        /\ call' = [call EXCEPT ![Shell] = new]
        /\ \/ new = NoCall
           \/ new.op = "bootstrap" /\ new.at = "password" /\ new.user = First
              /\ new.gone = {} /\ new.revoke = FALSE
  <2>1. CASE End(Shell)
    BY <2>1, NoCallIsIdle DEF End
  <2>2. CASE call' = [call EXCEPT ![Shell].at = "password", ![Shell].gone = {}]
    <3> DEFINE new == [c EXCEPT !.at = "password", !.gone = {}]
    <3>1. /\ new \in Call /\ new.op = c.op /\ new.at = "password" /\ new.user = c.user
          /\ new.gone = {} /\ new.revoke = c.revoke
      BY DEF Call, Stages
    <3>2. call' = [call EXCEPT ![Shell] = new]
      BY <1>1, <1>2, <2>2 DEF AccountInv, TypeOK
    <3>3. c.revoke = FALSE
      BY <1>1, <1>2 DEF Placed, Call
    <3> HIDE DEF new
    <3> QED
      BY <1>2, <3>1, <3>2, <3>3
  <2> QED
    BY <2>1, <2>2 DEF Bootstrap
<1>6. /\ session' \in [Browsers -> Session \union {None}]
      /\ \A d \in Browsers : session'[d] # None => d \notin c.gone /\ session'[d] = session[d]
      /\ \A d \in Browsers : session[d] # None /\ session'[d] = None => d \in c.gone
  <2>1. session' = Left(Shell)
    BY DEF Bootstrap
  <2> QED
    BY <1>1, <1>2, <2>1, WhatIsLeft
<1>7. ASSUME NEW d \in Browsers, session'[d] # None, session'[d].user = c.user,
             session'[d].spared # "late"
      PROVE  FALSE
  <2>1. d \notin c.gone /\ d \in Current(c.user)
    BY <1>6, <1>7 DEF Current, Of
  <2> QED
    BY <1>1, <1>2, <2>1 DEF Deciding, Crosses
<1>8. \A d \in Browsers : session'[d] # None =>
           /\ d \notin c.gone /\ session[d] # None
           /\ session'[d].user = session[d].user
           /\ session'[d].spared = "late" <=> session[d].spared = "late"
           /\ session[d].user # c.user => session'[d] = session[d]
  BY <1>6
<1>9. holder' = IF holder = Shell THEN None ELSE holder
  BY ShellAssumption DEF Bootstrap, AccountInv, TypeOK
<1> QED
  <2>1. account' = [account EXCEPT ![c.user] = row]
    BY <1>4
  <2>2. /\ call' = [call EXCEPT ![Shell] = new]
        /\ \/ new = NoCall
           \/ new.op = "bootstrap" /\ new.at = "password" /\ Shell = Shell /\ new.user = First
              /\ new.gone = {} /\ new.revoke = FALSE /\ c.op = "bootstrap"
    BY <1>2, <1>5
  <2>3. session' \in [Browsers -> Session \union {None}]
    BY <1>6
  <2>4. \A d \in Browsers : session[d] # None /\ session'[d] = None => d \in c.gone
    BY <1>6
  <2>5. \A d \in Browsers : session'[d] # None /\ session'[d].user = c.user
                              /\ session'[d].spared # "late" =>
           /\ ~row.disabled
           /\ IF session'[d].spared = "kept" THEN row.mustChange
              ELSE row.password = session'[d].password
    BY <1>7
  <2>6. row.role = "admin" /\ row.disabled = FALSE
    BY <1>4
  <2> QED
    BY <1>1, <1>2, <1>8, <1>9, <2>1, <2>2, <2>3, <2>4, <2>5, <2>6, Commits

LEMMA CommandSetsPassword == ASSUME AccountInv, BootstrapPassword PROVE AccountInv'
<1>1. /\ call[Shell].at = "password" /\ End(Shell) /\ UNCHANGED <<session, holder>>
      /\ Shell \in Callers /\ Placed(Shell) /\ Deciding(Shell)
  BY DEF BootstrapPassword, AccountInv, Callers
<1>2. call[Shell].op = "bootstrap" /\ First \in Users /\ Exists(First) /\ call[Shell].user = First
  BY <1>1 DEF Placed
<1>3. PICK old \in Account : old = account[First]
  BY <1>2 DEF AccountInv, TypeOK, Exists
<1>4. PICK row \in Account : /\ account' = [account EXCEPT ![First] = row]
                             /\ row.role = old.role /\ row.disabled = old.disabled
  <2>1. PICK p \in Passwords : account' = [account EXCEPT ![First] = [old EXCEPT !.password = p]]
    BY <1>3 DEF BootstrapPassword
  <2> DEFINE row == [old EXCEPT !.password = p]
  <2>2. row \in Account /\ row.role = old.role /\ row.disabled = old.disabled
    BY DEF Account
  <2>3. account' = [account EXCEPT ![First] = row]
    BY <2>1
  <2> HIDE DEF row
  <2> QED
    BY <2>2, <2>3
<1>5. Current(First) = {}
  <2>1. call[Shell].gone = {}
    BY <1>1 DEF AccountInv, Deleting
  <2> QED
    BY <1>1, <1>2, <2>1 DEF Deciding, Crosses
<1>6. \A d \in Browsers : session'[d] # None /\ session'[d].user = First =>
        session'[d].spared = "late"
  BY <1>1, <1>5 DEF Current, Of
<1>7. /\ account' \in [Users -> Account \union {None}] /\ account'[First] = row
      /\ \A v \in Users \ {First} : account'[v] = account[v]
      /\ \A v \in Users : Exists(v) => Exists(v)'
      /\ RevokedSessionsAreGone'
  <2>1. /\ account' \in [Users -> Account \union {None}] /\ account'[First] = row
        /\ \A v \in Users \ {First} : account'[v] = account[v]
    BY <1>2, <1>4 DEF AccountInv, TypeOK
  <2>2. \A v \in Users : Exists(v) => Exists(v)'
    BY <2>1, NoneAssumption DEF Exists
  <2>3. RevokedSessionsAreGone'
    <3> SUFFICES ASSUME NEW d \in Browsers, session'[d] # None, session'[d].spared # "late"
                 PROVE  LET a == account'[session'[d].user] IN
                        /\ ~a.disabled
                        /\ IF session'[d].spared = "kept" THEN a.mustChange
                           ELSE a.password = session'[d].password
      BY DEF RevokedSessionsAreGone
    <3>1. session[d] = session'[d] /\ session'[d].user \in Users \ {First}
      BY <1>1, <1>6 DEF AccountInv, TypeOK, Session
    <3> QED
      BY <2>1, <3>1 DEF AccountInv, RevokedSessionsAreGone
  <2> QED
    BY <2>1, <2>2, <2>3
<1>8. ActiveAdmins \subseteq ActiveAdmins' /\ LastAdministrator'
  BY <1>2, <1>3, <1>4, <1>7, AdministratorsStay
<1>9. call' = [call EXCEPT ![Shell] = NoCall] /\ holder' # Shell /\ holder' \in Browsers \union {None}
  BY <1>1, ShellAssumption DEF End, AccountInv, TypeOK
<1>10. Placed(Shell)' /\ Deleting(Shell)' /\ Deciding(Shell)'
  <2>1. call'[Shell] = NoCall
    BY <1>1, <1>9 DEF AccountInv, TypeOK
  <2> QED
    BY <1>9, <2>1, NoCallIsIdle DEF Placed, Deleting, Deciding
<1>11. session' = session /\ session \in [Browsers -> Session \union {None}]
  BY <1>1 DEF AccountInv, TypeOK
<1>12. \A u \in Users : Current(u)' \subseteq Current(u) /\ KeptBack(u)' \subseteq KeptBack(u)
  BY <1>1 DEF Current, KeptBack, Of
<1> QED
  BY <1>1, <1>7, <1>8, <1>9, <1>10, <1>11, <1>12, NoCallIsIdle, CallSteps

LEMMA PasswordChanged ==
  ASSUME AccountInv, NEW b \in Browsers, ChangePassword(b) PROVE AccountInv'
<1>1. PICK c \in Call : /\ c = call[b] /\ c.op = "change" /\ c.at = "change" /\ c.user \in Users
                        /\ Exists(c.user) /\ holder # b /\ b \in Callers /\ b # Shell
                        /\ c.gone = {} /\ ~c.revoke
  BY ShellAssumption DEF AccountInv, TypeOK, ChangePassword, Placed, Deleting, Call, Ops, Callers
<1>2. CASE End(b) /\ UNCHANGED <<account, session, holder>>
  BY <1>1, <1>2, CallEnds
<1>3. CASE ~(End(b) /\ UNCHANGED <<account, session, holder>>)
  <2>0. PICK old \in Account : old = account[c.user]
    BY <1>1 DEF AccountInv, TypeOK, Exists
  <2>1. /\ Of(b, c.user) /\ ~old.disabled
        /\ \A d \in Browsers : Of(d, c.user) => SessionRowFree(d)
        /\ Goto(b, "users") /\ UNCHANGED holder
    BY <1>1, <1>3, <2>0 DEF ChangePassword
  <2>2. PICK p \in Passwords :
          /\ account' = [account EXCEPT ![c.user] = [old EXCEPT !.password = p]]
          /\ session' = [d \in Browsers |->
               IF d = b THEN [user |-> c.user, password |-> p,
                              spared |-> IF Crossed(c.user) THEN "late" ELSE "no"]
               ELSE IF Of(d, c.user) THEN None ELSE session[d]]
    BY <1>1, <1>3, <2>0 DEF ChangePassword
  <2> DEFINE row == [old EXCEPT !.password = p]
             mine == [user |-> c.user, password |-> p,
                      spared |-> IF Crossed(c.user) THEN "late" ELSE "no"]
             moved == [c EXCEPT !.at = "users"]
  <2>3. /\ row \in Account /\ row.role = old.role /\ row.disabled = old.disabled
        /\ row.password = p
    BY DEF Account
  <2>4. /\ mine \in Session /\ mine.user = c.user /\ mine.password = p
        /\ mine.spared = IF Crossed(c.user) THEN "late" ELSE "no"
    BY <1>1 DEF Session
  <2>5. /\ moved \in Call /\ moved.op = "change" /\ moved.at = "users" /\ moved.user = c.user
        /\ moved.gone = {} /\ ~moved.revoke
    BY <1>1 DEF Call, Stages
  <2>6. /\ call' = [call EXCEPT ![b] = moved] /\ account' = [account EXCEPT ![c.user] = row]
        /\ session' = [d \in Browsers |->
             IF d = b THEN mine ELSE IF Of(d, c.user) THEN None ELSE session[d]]
    BY <1>1, <2>1, <2>2 DEF Goto
  <2> HIDE DEF row, mine, moved
  <2>7. /\ session' \in [Browsers -> Session \union {None}] /\ session'[b] = mine /\ mine # None
        /\ \A d \in Browsers \ {b} : session'[d] # None =>
             session[d] # None /\ session'[d] = session[d] /\ session'[d].user # c.user
        /\ \A d \in Browsers : session[d] # None /\ session'[d] = None => Of(d, c.user)
    BY <2>4, <2>6, NoneAssumption DEF Of, AccountInv, TypeOK
  <2>8. /\ account' \in [Users -> Account \union {None}] /\ account'[c.user] = row
        /\ \A v \in Users \ {c.user} : account'[v] = account[v]
        /\ \A v \in Users : Exists(v) => Exists(v)'
        /\ RevokedSessionsAreGone'
    <3>1. \A d \in Browsers : session'[d] # None /\ session'[d].user # c.user =>
            session'[d] = session[d]
      BY <2>4, <2>7
    <3>2. \A d \in Browsers : session'[d] # None /\ session'[d].user = c.user
                              /\ session'[d].spared # "late" =>
           /\ ~row.disabled
           /\ IF session'[d].spared = "kept" THEN row.mustChange
              ELSE row.password = session'[d].password
      BY <2>1, <2>3, <2>4, <2>7
    <3>3. account' = [account EXCEPT ![c.user] = row]
      BY <2>6
    <3> QED
      BY <1>1, <2>3, <3>1, <3>2, <3>3, AccountChanged
  <2>9. ActiveAdmins \subseteq ActiveAdmins' /\ LastAdministrator'
    BY <1>1, <2>0, <2>3, <2>8, AdministratorsStay
  <2>10. \A u \in Users : Current(u)' \subseteq Current(u) \/ ~Crossed(u)
    <3> SUFFICES ASSUME NEW u \in Users, Crossed(u), NEW d \in Browsers,
                        session'[d] # None, session'[d].user = u, session'[d].spared # "late"
                 PROVE  d \in Current(u)
      BY DEF Current, Of
    <3>1. d # b
      BY <2>4, <2>7
    <3> QED
      BY <3>1, <2>7 DEF Current, Of
  <2>11. \A u \in Users : KeptBack(u)' \subseteq KeptBack(u)
    <3> SUFFICES ASSUME NEW u \in Users, NEW d \in Browsers,
                        session'[d] # None, session'[d].user = u, session'[d].spared = "kept"
                 PROVE  d \in KeptBack(u)
      BY DEF KeptBack, Of
    <3>1. d # b
      BY <2>4, <2>7
    <3> QED
      BY <3>1, <2>7 DEF KeptBack, Of
  <2>12. \A d \in Browsers : session'[d] # None =>
           \/ session[d] # None /\ session'[d].user = session[d].user
           \/ d = b /\ session[d] = None /\ Exists(session'[d].user)
    BY <2>1, <2>4, <2>7 DEF Of
  <2>13. \A d \in Browsers : session[d] # None /\ session'[d] = None =>
           SessionRowFree(d) \/ d \in call[b].gone
    BY <2>1, <2>7
  <2>14. /\ call'[b] = moved /\ ~HasUserRow(moved) /\ holder' = holder
         /\ holder \in Browsers \union {None}
    BY <1>1, <2>1, <2>5, <2>6 DEF HasUserRow, AccountInv, TypeOK
  <2>15. Placed(b)' /\ Deleting(b)' /\ Deciding(b)'
    <3>1. account'[c.user] # None
      BY <1>1, <2>8 DEF Exists
    <3> QED
      BY <1>1, <2>5, <2>14, <3>1 DEF Placed, Deleting, Deciding, Exists, Crosses
  <2>16. call' = [call EXCEPT ![b] = moved]
    BY <2>6
  <2>17. session' \in [Browsers -> Session \union {None}]
    BY <2>7
  <2> QED
    BY <1>1, <2>5, <2>8, <2>9, <2>10, <2>11, <2>12, <2>13, <2>14, <2>15, <2>16, <2>17, CallSteps
<1> QED
  BY <1>2, <1>3

LEMMA UserInserted ==
  ASSUME AccountInv, NEW b \in Browsers, InsertUser(b) PROVE AccountInv'
<1>1. PICK c \in Call : /\ c = call[b] /\ c.at = "users" /\ c.op = "create" /\ c.user \in Users
                        /\ holder # b /\ b \in Callers
  BY DEF AccountInv, TypeOK, InsertUser, Placed, Callers
<1>2. CASE Exists(c.user)
  BY <1>1, <1>2, CallEnds DEF InsertUser
<1>3. CASE ~Exists(c.user)
  <2>1. PICK r \in Roles, e \in BOOLEAN, p \in Passwords :
          account' = [account EXCEPT ![c.user] = NewAccount(r, e, p)]
    BY <1>1, <1>3 DEF InsertUser
  <2> DEFINE new == NewAccount(r, e, p)
  <2>2. new \in Account /\ new # None
    <3>1. new \in Account
      BY DEF NewAccount, Account
    <3> QED
      BY <3>1, NoneAssumption
  <2>3. account' = [account EXCEPT ![c.user] = new] /\ End(b) /\ UNCHANGED <<session, holder>>
    BY <1>1, <2>1 DEF InsertUser
  <2> HIDE DEF new
  <2>4. /\ account' \in [Users -> Account \union {None}]
        /\ \A u \in Users : Exists(u) => account'[u] = account[u]
    BY <1>1, <1>3, <2>2, <2>3 DEF AccountInv, TypeOK, Exists
  <2>5. /\ \A u \in Users : Exists(u) => Exists(u)'
        /\ ActiveAdmins \subseteq ActiveAdmins'
    BY <2>4 DEF ActiveAdmins, Admin, Exists
  <2>6. LastAdministrator'
    BY <2>5 DEF AccountInv, LastAdministrator
  <2>7. RevokedSessionsAreGone'
    <3>1. \A d \in Browsers : session[d] # None =>
            account'[session[d].user] = account[session[d].user]
      BY <2>4 DEF AccountInv, TypeOK, Session, Known
    <3> QED
      BY <2>3, <3>1 DEF AccountInv, RevokedSessionsAreGone
  <2>8. /\ \A u : Current(u)' = Current(u) /\ KeptBack(u)' = KeptBack(u)
        /\ session' = session /\ session \in [Browsers -> Session \union {None}]
        /\ holder' = holder /\ holder \in Browsers \union {None}
        /\ call' = [call EXCEPT ![b] = NoCall]
    BY <2>3 DEF Current, KeptBack, Of, AccountInv, TypeOK, End
  <2>9. Placed(b)' /\ Deleting(b)' /\ Deciding(b)'
    <3>1. call'[b] = NoCall
      BY <1>1, <2>8 DEF AccountInv, TypeOK
    <3> QED
      BY <1>1, <2>8, <3>1, ShellAssumption, NoCallIsIdle DEF Placed, Deleting, Deciding
  <2> QED
    BY <1>1, <2>4, <2>5, <2>6, <2>7, <2>8, <2>9, NoCallIsIdle, CallSteps
<1> QED
  BY <1>2, <1>3

LEMMA CallFails ==
  ASSUME AccountInv, NEW x \in Callers, Fail(x) PROVE AccountInv'
BY CallEnds DEF Fail

LEMMA AccountsBegin == Init => AccountInv
<1> SUFFICES ASSUME Init PROVE AccountInv
  OBVIOUS
<1>0. PICK p \in Passwords :
        account = [u \in Users |-> IF u = First THEN BootAccount(p) ELSE None]
  BY DEF Init
<1>1. BootAccount(p) \in Account /\ BootAccount(p) # None
      /\ BootAccount(p).role = "admin" /\ BootAccount(p).disabled = FALSE
  <2>1. BootAccount(p) \in Account
        /\ BootAccount(p).role = "admin" /\ BootAccount(p).disabled = FALSE
    BY DEF BootAccount, NewAccount, Account, Roles
  <2> QED
    BY <2>1, NoneAssumption
<1>2. TypeOK
  BY <1>0, <1>1, NoCallIsIdle DEF Init, TypeOK
<1>3. Known /\ Admin(First)
  BY <1>0, <1>1, AccountsAssumption DEF Init, Known, Exists, Admin
<1>4. LastAdministrator /\ RevokedSessionsAreGone
  BY <1>3, AccountsAssumption DEF Init, LastAdministrator, ActiveAdmins, RevokedSessionsAreGone
<1>5. \A x \in Callers : call[x] = NoCall
  BY DEF Init
<1>6. \A x \in Callers : Placed(x) /\ Deleting(x) /\ Deciding(x)
  BY <1>5, NoCallIsIdle, NoneAssumption, ShellAssumption
     DEF Init, Placed, Deleting, Deciding, Callers
<1>7. RowsHeldOnce
  BY <1>5, NoCallIsIdle DEF RowsHeldOnce
<1> QED
  BY <1>2, <1>3, <1>4, <1>6, <1>7 DEF AccountInv

LEMMA AccountsStep == AccountInv /\ [Next]_vars => AccountInv'
<1> SUFFICES ASSUME AccountInv, [Next]_vars PROVE AccountInv'
  OBVIOUS
<1>1. CASE Next
  BY <1>1, CallsStart, CallGoesOn, SessionInserted, SessionEnded, UserInserted, Reading,
     UserUpdated, AccountWritten, PasswordChanged, StatementRuns, CallFails, CommandStarts,
     CommandCommits, CommandSetsPassword DEF Next
<1>2. CASE UNCHANGED vars
  <2>1. UNCHANGED <<account, session, call, holder>>
    BY <1>2 DEF vars
  <2>2. TypeOK' /\ Known' /\ LastAdministrator' /\ RevokedSessionsAreGone' /\ RowsHeldOnce'
    BY <2>1 DEF AccountInv, TypeOK, Known, LastAdministrator, RevokedSessionsAreGone,
       ActiveAdmins, Admin, Exists, RowsHeldOnce
  <2>3. \A x \in Callers : Placed(x)' /\ Deleting(x)' /\ Deciding(x)'
    BY <2>1 DEF AccountInv, Placed, Deleting, Deciding, Exists, ActiveAdmins, Admin, Current,
       KeptBack, Of
  <2> QED
    BY <2>2, <2>3 DEF AccountInv
<1> QED
  BY <1>1, <1>2

(***************************************************************************)
(* References.                                                             *)
(***************************************************************************)

RefCall == [op : Refs!Ops, at : Refs!Stages, refs : SUBSET Refs!Items, item : Refs!Items,
            unread : SUBSET Refs!AllSources, stable : SUBSET Refs!AllSources, fresh : BOOLEAN]

\* A call is where its operation can be. What a deletion has read no longer
\* referred to its item then, so that no reference that stayed is read.
Reads(c) ==
  /\ c.op \in {"none", "save", "publish"} => c.at = "start"
  /\ c.op = "delete" => c.at \in {"read", "delete", "audit", "unlink"}
  /\ c.op = "upload" => c.at \in {"insert", "audit"}
  /\ c.at \in {"read", "delete"} => c.stable \subseteq c.unread
  /\ c.at = "delete" => c.unread = {}
  /\ c.at = "unlink" => c.item = "image"

Stays(c) == \A s \in c.stable : Refs!Refers(content, s, c.item)

Uploading(e) == refCall[e].op = "upload"
Discarding(e) == refCall[e].op = "delete" /\ refCall[e].item = "image"

\* The image is uploaded once; its file is there before the row, and removed
\* when there is no row or the upload is about to be reported to have failed.
Kept ==
  /\ file = "absent" => /\ ~reported /\ "image" \notin exists
                        /\ \A e \in Editors : ~Uploading(e) /\ ~Discarding(e)
  /\ \A e \in Editors : Uploading(e) =>
       /\ ~reported
       /\ \A d \in Editors : Uploading(d) => d = e
       /\ "image" \in exists => file = "stored"
       /\ refCall[e].at = "insert" =>
            /\ file = "stored" /\ "image" \notin exists
            /\ \A d \in Editors : ~Discarding(d)
  /\ \A e \in Editors : Discarding(e) /\ refCall[e].at \in {"audit", "unlink"}
                          => "image" \notin exists
  /\ Refs!UploadedIsReadable

ReferenceInv ==
  /\ Refs!TypeOK /\ Refs!DraftCategoryExists /\ Kept
  /\ \A e \in Editors : Reads(refCall[e]) /\ Stays(refCall[e])

LEMMA NoRefCall ==
  /\ Refs!NoCall \in RefCall /\ Refs!NoCall.op = "none" /\ Refs!NoCall.at = "start"
  /\ Refs!NoCall.stable = {} /\ Refs!NoCall.unread = {} /\ Refs!NoCall.fresh
  /\ Refs!NoCall.item = "image" /\ Refs!NoCall.refs = {}
BY DEF Refs!NoCall, RefCall, Refs!Ops, Refs!Stages, Refs!Items, Refs!AllSources

\* Only e's call moves; what is referred to stays as it is.
LEMMA RefMoves ==
  ASSUME ReferenceInv, NEW e \in Editors, NEW new \in RefCall,
         refCall' = [refCall EXCEPT ![e] = new], content' = content,
         exists' \subseteq Refs!Items, file' \in {"absent", "stored", "removed"},
         reported' \in BOOLEAN,
         Reads(new), Stays(new), Kept', Refs!DraftCategoryExists'
  PROVE  ReferenceInv'
<1>1. refCall \in [Editors -> RefCall]
  BY DEF ReferenceInv, Refs!TypeOK, RefCall
<1>2. refCall' \in [Editors -> RefCall] /\ refCall'[e] = new
      /\ \A d \in Editors \ {e} : refCall'[d] = refCall[d]
  BY <1>1
<1>3. Refs!TypeOK'
  BY <1>2 DEF ReferenceInv, Refs!TypeOK, RefCall
<1>4. \A d \in Editors : Reads(refCall[d])' /\ Stays(refCall[d])'
  <2> SUFFICES ASSUME NEW d \in Editors PROVE Reads(refCall[d])' /\ Stays(refCall[d])'
    OBVIOUS
  <2>1. PICK c \in RefCall : c = refCall'[d] /\ Reads(c) /\ Stays(c)
    BY <1>2 DEF ReferenceInv
  <2>2. Reads(refCall[d])'
    BY <2>1 DEF Reads
  <2>3. Stays(refCall[d])'
    BY <2>1 DEF Stays, Refs!Refers
  <2> QED
    BY <2>2, <2>3
<1> QED
  BY <1>3, <1>4 DEF ReferenceInv

\* A step that leaves the image alone: the calls that concern it are those
\* that did, where they were, but for those that ended.
LEMMA ImageStays ==
  ASSUME Kept, UNCHANGED <<file, reported>>, "image" \in exists' => "image" \in exists,
         \A d \in Editors : Uploading(d)' =>
           Uploading(d) /\ refCall'[d].at = refCall[d].at,
         \A d \in Editors : Discarding(d)' =>
           /\ Discarding(d) \/ "image" \in exists
           /\ refCall'[d].at \in {"audit", "unlink"} =>
                \/ Discarding(d) /\ refCall[d].at \in {"audit", "unlink"}
                \/ "image" \notin exists'
  PROVE  Kept'
<1>1. file' = "absent" => /\ ~reported' /\ "image" \notin exists'
                          /\ \A e \in Editors : ~Uploading(e)' /\ ~Discarding(e)'
  BY DEF Kept
<1>2. ASSUME NEW e \in Editors, Uploading(e)'
      PROVE  /\ ~reported'
             /\ \A d \in Editors : Uploading(d)' => d = e
             /\ "image" \in exists' => file' = "stored"
             /\ refCall'[e].at = "insert" =>
                  /\ file' = "stored" /\ "image" \notin exists'
                  /\ \A d \in Editors : ~Discarding(d)'
  BY <1>2 DEF Kept
<1>3. \A e \in Editors : Discarding(e)' /\ refCall'[e].at \in {"audit", "unlink"}
                           => "image" \notin exists'
  BY DEF Kept
<1>4. Refs!UploadedIsReadable'
  BY DEF Kept, Refs!UploadedIsReadable
<1> QED
  BY <1>1, <1>2, <1>3, <1>4 DEF Kept

\* New content: a call goes on, or ends, or has deleted its row.
LEMMA ContentChanges ==
  ASSUME ReferenceInv, NEW new, NEW calls, calls \in [Editors -> RefCall],
         Refs!Change(new, calls), UNCHANGED <<file, reported>>, exists' \subseteq exists,
         new \in [draft : SUBSET Refs!Items, published : SUBSET Refs!Items,
                  revisions : SUBSET Refs!Items, avatar : BOOLEAN, pages : BOOLEAN],
         "category" \in new.draft => "category" \in exists',
         \A d \in Editors :
           \/ calls[d].op = "none" /\ calls[d].at = "start"
           \/ /\ calls[d].op = refCall[d].op /\ calls[d].item = refCall[d].item
              /\ calls[d].stable = refCall[d].stable /\ calls[d].unread = refCall[d].unread
              /\ \/ calls[d].at = refCall[d].at
                 \/ /\ calls[d].op = "delete" /\ calls[d].at = "audit"
                    /\ calls[d].item \notin exists'
  PROVE  ReferenceInv'
<1>1. /\ refCall' \in [Editors -> RefCall]
      /\ \A d \in Editors :
           /\ refCall'[d].op = calls[d].op /\ refCall'[d].at = calls[d].at
           /\ refCall'[d].item = calls[d].item /\ refCall'[d].unread = calls[d].unread
           /\ refCall'[d].stable \subseteq calls[d].stable
           /\ \A s \in refCall'[d].stable : Refs!Refers(new, s, calls[d].item)
  <2> DEFINE after(c) == [c EXCEPT !.stable = {s \in @ : Refs!Refers(new, s, c.item)}]
  <2>1. ASSUME NEW c \in RefCall
        PROVE  /\ after(c) \in RefCall
               /\ after(c).op = c.op /\ after(c).at = c.at /\ after(c).item = c.item
               /\ after(c).unread = c.unread
               /\ after(c).stable = {s \in c.stable : Refs!Refers(new, s, c.item)}
    BY DEF RefCall
  <2>2. refCall' = [d \in Editors |-> after(calls[d])]
    BY DEF Refs!Change
  <2> HIDE DEF after
  <2>3. \A d \in Editors : refCall'[d] = after(calls[d]) /\ calls[d] \in RefCall
    BY <2>2
  <2>4. refCall' \in [Editors -> RefCall]
    BY <2>1, <2>2, <2>3
  <2> QED
    BY <2>1, <2>3, <2>4
<1>2. content' = new
  BY DEF Refs!Change
<1>3. Refs!TypeOK'
  BY <1>1, <1>2 DEF ReferenceInv, Refs!TypeOK, RefCall
<1>4. Refs!DraftCategoryExists'
  BY <1>2 DEF Refs!DraftCategoryExists
<1>5. \A d \in Editors : Reads(refCall[d])' /\ Stays(refCall[d])'
  <2> SUFFICES ASSUME NEW d \in Editors PROVE Reads(refCall[d])' /\ Stays(refCall[d])'
    OBVIOUS
  <2>1. PICK c \in RefCall : c = refCall'[d] /\ Reads(refCall[d])
    BY <1>1 DEF ReferenceInv
  <2>2. Reads(refCall[d])'
    BY <1>1, <2>1, NoRefCall DEF Reads
  <2>3. Stays(refCall[d])'
    BY <1>1, <1>2 DEF Stays
  <2> QED
    BY <2>2, <2>3
<1>6. Kept'
  <2>1. /\ Kept
        /\ \A d \in Editors : Uploading(d)' =>
             Uploading(d) /\ refCall'[d].at = refCall[d].at
        /\ \A d \in Editors : Discarding(d)' =>
             /\ Discarding(d)
             /\ refCall'[d].at \in {"audit", "unlink"} =>
                  \/ refCall[d].at \in {"audit", "unlink"}
                  \/ "image" \notin exists'
    BY <1>1, NoRefCall DEF ReferenceInv, Uploading, Discarding
  <2> QED
    BY <2>1, ImageStays
<1> QED
  BY <1>3, <1>4, <1>5, <1>6 DEF ReferenceInv

\* Only e's call moves, and the image is left alone.
LEMMA CallOnly ==
  ASSUME ReferenceInv, NEW e \in Editors, NEW new \in RefCall,
         refCall' = [refCall EXCEPT ![e] = new], UNCHANGED <<exists, file, reported, content>>,
         Reads(new), Stays(new),
         new.op = "upload" => refCall[e].op = "upload" /\ new.at = refCall[e].at,
         new.op = "delete" /\ new.item = "image" =>
           /\ Discarding(e) \/ "image" \in exists
           /\ new.at \in {"audit", "unlink"} => Discarding(e) /\ refCall[e].at \in {"audit", "unlink"}
  PROVE  ReferenceInv'
<1>1. refCall'[e] = new /\ \A d \in Editors \ {e} : refCall'[d] = refCall[d]
  BY DEF ReferenceInv, Refs!TypeOK
<1>2. Kept'
  BY <1>1, ImageStays DEF ReferenceInv, Uploading, Discarding
<1>3. Refs!DraftCategoryExists' /\ exists' \subseteq Refs!Items
      /\ file' \in {"absent", "stored", "removed"} /\ reported' \in BOOLEAN
  BY DEF ReferenceInv, Refs!TypeOK, Refs!DraftCategoryExists
<1> QED
  BY <1>2, <1>3, RefMoves

LEMMA CallOver ==
  ASSUME ReferenceInv, NEW e \in Editors, Refs!End(e),
         UNCHANGED <<exists, file, reported, content>>
  PROVE  ReferenceInv'
<1>1. Reads(Refs!NoCall) /\ Stays(Refs!NoCall)
  BY NoRefCall DEF Reads, Stays
<1> QED
  BY <1>1, NoRefCall, CallOnly DEF Refs!End, Refs!Ended

LEMMA EditorsStart ==
  ASSUME ReferenceInv, NEW e \in Editors,
         Refs!StartSave(e) \/ Refs!StartPublish(e) \/ Refs!StartDelete(e)
  PROVE  ReferenceInv'
<1>0. exists \subseteq Refs!Items /\ content.revisions \subseteq Refs!Items
  BY DEF ReferenceInv, Refs!TypeOK
<1>1. CASE Refs!StartSave(e)
  <2>1. PICK refs \in {{}} \union {{i} : i \in exists \union content.revisions} :
          /\ refCall' = [refCall EXCEPT ![e] = [Refs!NoCall EXCEPT !.op = "save", !.refs = refs]]
          /\ UNCHANGED <<exists, file, reported, content>>
    BY <1>1 DEF Refs!StartSave
  <2> DEFINE new == [Refs!NoCall EXCEPT !.op = "save", !.refs = refs]
  <2>2. /\ new \in RefCall /\ new.op = "save" /\ new.at = "start" /\ new.stable = {}
    BY <1>0 DEF RefCall, Refs!NoCall, Refs!Ops, Refs!Stages, Refs!Items
  <2>3. refCall' = [refCall EXCEPT ![e] = new]
    BY <2>1
  <2> HIDE DEF new
  <2>4. Reads(new) /\ Stays(new)
    BY <2>2 DEF Reads, Stays
  <2> QED
    BY <2>1, <2>2, <2>3, <2>4, CallOnly
<1>2. CASE Refs!StartPublish(e)
  <2> DEFINE new == [Refs!NoCall EXCEPT !.op = "publish"]
  <2>2. /\ new \in RefCall /\ new.op = "publish" /\ new.at = "start" /\ new.stable = {}
    BY DEF RefCall, Refs!NoCall, Refs!Ops, Refs!Stages, Refs!Items
  <2>3. refCall' = [refCall EXCEPT ![e] = new] /\ UNCHANGED <<exists, file, reported, content>>
    BY <1>2 DEF Refs!StartPublish
  <2> HIDE DEF new
  <2>4. Reads(new) /\ Stays(new)
    BY <2>2 DEF Reads, Stays
  <2> QED
    BY <2>2, <2>3, <2>4, CallOnly
<1>3. CASE Refs!StartDelete(e)
  <2>1. PICK i \in exists :
          /\ refCall' = [refCall EXCEPT ![e] =
               [Refs!NoCall EXCEPT !.op = "delete", !.at = "read", !.item = i,
                                   !.unread = Refs!Sources(i), !.stable = Refs!References(i)]]
          /\ UNCHANGED <<exists, file, reported, content>>
    BY <1>3 DEF Refs!StartDelete
  <2> DEFINE new == [Refs!NoCall EXCEPT !.op = "delete", !.at = "read", !.item = i,
                                        !.unread = Refs!Sources(i), !.stable = Refs!References(i)]
  <2>2. /\ Refs!References(i) \subseteq Refs!Sources(i) /\ Refs!Sources(i) \subseteq Refs!AllSources
        /\ \A s \in Refs!References(i) : Refs!Refers(content, s, i)
    BY <1>0 DEF Refs!References, Refs!AllSources
  <2>3. /\ new \in RefCall /\ new.op = "delete" /\ new.at = "read" /\ new.item = i
        /\ new.unread = Refs!Sources(i) /\ new.stable = Refs!References(i)
    BY <1>0, <2>2 DEF RefCall, Refs!NoCall, Refs!Ops, Refs!Stages
  <2>4. refCall' = [refCall EXCEPT ![e] = new]
    BY <2>1
  <2> HIDE DEF new
  <2>5. Reads(new) /\ Stays(new)
    BY <2>2, <2>3 DEF Reads, Stays
  <2> QED
    BY <2>1, <2>3, <2>4, <2>5, CallOnly
<1> QED
  BY <1>1, <1>2, <1>3

\* Saving, publishing and what else changes the content at once.
LEMMA ContentWritten ==
  ASSUME ReferenceInv, NEW e \in Editors,
         \/ Refs!CommitSave(e) \/ Refs!CommitPublish(e) \/ Refs!Unpublish(e)
         \/ Refs!SaveMember(e) \/ Refs!SavePages(e)
  PROVE  ReferenceInv'
<1>0. /\ refCall \in [Editors -> RefCall]
      /\ content \in [draft : SUBSET Refs!Items, published : SUBSET Refs!Items,
                      revisions : SUBSET Refs!Items, avatar : BOOLEAN, pages : BOOLEAN]
      /\ "category" \in content.draft => "category" \in exists
  BY DEF ReferenceInv, Refs!TypeOK, RefCall, Refs!DraftCategoryExists
<1> DEFINE Same(c, d) ==
             \/ c.op = "none" /\ c.at = "start"
             \/ /\ c.op = d.op /\ c.item = d.item /\ c.at = d.at
                /\ c.stable = d.stable /\ c.unread = d.unread
<1>1. ASSUME NEW calls, calls \in [Editors -> RefCall]
      PROVE  /\ Refs!Outdate(calls) \in [Editors -> RefCall]
             /\ \A d \in Editors : Same(Refs!Outdate(calls)[d], calls[d])
  <2> DEFINE after(c) == [c EXCEPT !.fresh = c.op \notin {"save", "publish"}]
  <2>1. ASSUME NEW c \in RefCall PROVE after(c) \in RefCall /\ Same(after(c), c)
    BY DEF RefCall
  <2>2. Refs!Outdate(calls) = [d \in Editors |-> after(calls[d])]
    BY DEF Refs!Outdate
  <2> HIDE DEF after, Same
  <2> QED
    BY <1>1, <2>1, <2>2
<1>2. /\ Refs!Ended(e, refCall) \in [Editors -> RefCall]
      /\ \A d \in Editors : Same(Refs!Ended(e, refCall)[d], refCall[d])
  BY <1>0, NoRefCall DEF Refs!Ended
<1>3. /\ Refs!Outdate(Refs!Ended(e, refCall)) \in [Editors -> RefCall]
      /\ \A d \in Editors : Same(Refs!Outdate(Refs!Ended(e, refCall))[d], refCall[d])
  <2> HIDE DEF Same
  <2>1. ASSUME NEW a, NEW b, NEW c, Same(a, b), Same(b, c) PROVE Same(a, c)
    BY <2>1 DEF Same
  <2> QED
    BY <1>1, <1>2, <2>1
<1>4. ASSUME NEW new, NEW calls, calls \in [Editors -> RefCall],
             \A d \in Editors : Same(calls[d], refCall[d]),
             Refs!Change(new, calls), UNCHANGED <<exists, file, reported>>,
             new \in [draft : SUBSET Refs!Items, published : SUBSET Refs!Items,
                      revisions : SUBSET Refs!Items, avatar : BOOLEAN, pages : BOOLEAN],
             "category" \in new.draft => "category" \in exists
      PROVE  ReferenceInv'
  <2>1. exists' \subseteq exists /\ UNCHANGED <<file, reported>>
        /\ ("category" \in new.draft => "category" \in exists')
    BY <1>4
  <2>2. \A d \in Editors :
          \/ calls[d].op = "none" /\ calls[d].at = "start"
          \/ /\ calls[d].op = refCall[d].op /\ calls[d].item = refCall[d].item
             /\ calls[d].stable = refCall[d].stable /\ calls[d].unread = refCall[d].unread
             /\ \/ calls[d].at = refCall[d].at
                \/ /\ calls[d].op = "delete" /\ calls[d].at = "audit"
                   /\ calls[d].item \notin exists'
    BY <1>4
  <2> HIDE DEF Same
  <2> QED
    BY <1>4, <2>1, <2>2, ContentChanges
<1> HIDE DEF Same
<1>5. CASE Refs!CommitSave(e)
  <2> DEFINE refs == refCall[e].refs
             new == [content EXCEPT !.draft = refs, !.revisions = @ \union refs]
  <2>1. refs \subseteq Refs!Items
    BY <1>0 DEF RefCall
  <2>2. /\ new \in [draft : SUBSET Refs!Items, published : SUBSET Refs!Items,
                    revisions : SUBSET Refs!Items, avatar : BOOLEAN, pages : BOOLEAN]
        /\ new.draft = refs
    BY <1>0, <2>1
  <2>3. /\ Refs!Change(new, Refs!Outdate(Refs!Ended(e, refCall)))
        /\ "category" \in refs => "category" \in exists
        /\ UNCHANGED <<exists, file, reported>>
    BY <1>5 DEF Refs!CommitSave
  <2> HIDE DEF new, refs
  <2> QED
    BY <1>3, <1>4, <2>2, <2>3
<1>6. CASE Refs!CommitPublish(e)
  <2> DEFINE new == [content EXCEPT !.published = content.draft,
                                    !.revisions = @ \union content.draft]
  <2>2. /\ new \in [draft : SUBSET Refs!Items, published : SUBSET Refs!Items,
                    revisions : SUBSET Refs!Items, avatar : BOOLEAN, pages : BOOLEAN]
        /\ new.draft = content.draft
    BY <1>0
  <2>3. /\ Refs!Change(new, Refs!Outdate(Refs!Ended(e, refCall)))
        /\ UNCHANGED <<exists, file, reported>>
    BY <1>6 DEF Refs!CommitPublish
  <2> HIDE DEF new
  <2> QED
    BY <1>0, <1>3, <1>4, <2>2, <2>3
<1>7. CASE Refs!Unpublish(e)
  <2> DEFINE new == [content EXCEPT !.published = {},
                                    !.revisions = @ \union content.draft]
  <2>2. /\ new \in [draft : SUBSET Refs!Items, published : SUBSET Refs!Items,
                    revisions : SUBSET Refs!Items, avatar : BOOLEAN, pages : BOOLEAN]
        /\ new.draft = content.draft
    BY <1>0
  <2>3. /\ Refs!Change(new, Refs!Outdate(refCall))
        /\ UNCHANGED <<exists, file, reported>>
    BY <1>7 DEF Refs!Unpublish
  <2> HIDE DEF new
  <2>4. Refs!Outdate(refCall) \in [Editors -> RefCall]
        /\ \A d \in Editors : Same(Refs!Outdate(refCall)[d], refCall[d])
    BY <1>0, <1>1
  <2> QED
    BY <1>0, <1>4, <2>2, <2>3, <2>4
<1>8. \A d \in Editors : Same(refCall[d], refCall[d])
  BY DEF Same
<1>9. CASE Refs!SaveMember(e)
  <2>1. PICK shown \in BOOLEAN : Refs!Change([content EXCEPT !.avatar = shown], refCall)
    BY <1>9 DEF Refs!SaveMember
  <2> DEFINE new == [content EXCEPT !.avatar = shown]
  <2>2. /\ new \in [draft : SUBSET Refs!Items, published : SUBSET Refs!Items,
                    revisions : SUBSET Refs!Items, avatar : BOOLEAN, pages : BOOLEAN]
        /\ new.draft = content.draft
    BY <1>0
  <2>3. Refs!Change(new, refCall) /\ UNCHANGED <<exists, file, reported>>
    BY <1>9, <2>1 DEF Refs!SaveMember
  <2> HIDE DEF new
  <2> QED
    BY <1>0, <1>4, <1>8, <2>2, <2>3
<1>10. CASE Refs!SavePages(e)
  <2>1. PICK shown \in BOOLEAN : Refs!Change([content EXCEPT !.pages = shown], refCall)
    BY <1>10 DEF Refs!SavePages
  <2> DEFINE new == [content EXCEPT !.pages = shown]
  <2>2. /\ new \in [draft : SUBSET Refs!Items, published : SUBSET Refs!Items,
                    revisions : SUBSET Refs!Items, avatar : BOOLEAN, pages : BOOLEAN]
        /\ new.draft = content.draft
    BY <1>0
  <2>3. Refs!Change(new, refCall) /\ UNCHANGED <<exists, file, reported>>
    BY <1>10, <2>1 DEF Refs!SavePages
  <2> HIDE DEF new
  <2> QED
    BY <1>0, <1>4, <1>8, <2>2, <2>3
<1> QED
  BY <1>5, <1>6, <1>7, <1>9, <1>10

\* A deletion reads, deletes and cleans up.
LEMMA DeletionGoesOn ==
  ASSUME ReferenceInv, NEW e \in Editors,
         Refs!ReadSource(e) \/ Refs!DeleteRow(e) \/ Refs!DeleteAudit(e) \/ Refs!Unlink(e)
  PROVE  ReferenceInv'
<1>1. PICK c \in RefCall : c = refCall[e] /\ Reads(c) /\ Stays(c) /\ c.op = "delete"
  BY DEF ReferenceInv, Refs!TypeOK, RefCall, Reads, Refs!ReadSource, Refs!DeleteRow,
     Refs!DeleteAudit, Refs!Unlink, Refs!Ops
<1>2. CASE Refs!ReadSource(e)
  <2>1. PICK s \in c.unread :
          IF Refs!Refers(content, s, c.item) THEN Refs!End(e)
          ELSE refCall' = [refCall EXCEPT ![e].unread = @ \ {s},
                             ![e].at = IF c.unread = {s} THEN "delete" ELSE @]
    BY <1>1, <1>2 DEF Refs!ReadSource
  <2>2. c.at = "read" /\ UNCHANGED <<exists, file, reported, content>>
    BY <1>1, <1>2 DEF Refs!ReadSource
  <2>3. CASE Refs!Refers(content, s, c.item)
    BY <2>1, <2>2, <2>3, CallOver
  <2>4. CASE ~Refs!Refers(content, s, c.item)
    <3> DEFINE at == IF c.unread = {s} THEN "delete" ELSE "read"
               new == [c EXCEPT !.unread = c.unread \ {s}, !.at = at]
    <3>1. refCall' = [refCall EXCEPT ![e] = new]
      BY <1>1, <2>1, <2>2, <2>4 DEF ReferenceInv, Refs!TypeOK, RefCall
    <3>2. /\ new \in RefCall /\ new.op = "delete" /\ new.at = at /\ new.item = c.item
          /\ new.unread = c.unread \ {s} /\ new.stable = c.stable
      BY <1>1 DEF RefCall, Refs!Stages
    <3>3. at \in {"read", "delete"} /\ (at = "delete" => c.unread = {s})
      OBVIOUS
    <3> HIDE DEF new, at
    <3>4. Reads(new)
      BY <1>1, <2>2, <2>4, <3>2, <3>3 DEF Reads, Stays
    <3>5. Stays(new)
      BY <1>1, <3>2 DEF Stays
    <3>6. new.op = "delete" /\ new.item = "image" => Discarding(e)
      BY <1>1, <3>2 DEF Discarding
    <3> QED
      BY <2>2, <3>1, <3>2, <3>3, <3>4, <3>5, <3>6, CallOnly
  <2> QED
    BY <2>3, <2>4
<1>3. CASE Refs!DeleteRow(e)
  <2>1. CASE c.item \notin exists \/ (c.item = "category" /\ Refs!Refers(content, "links", c.item))
    BY <1>1, <1>3, <2>1, CallOver DEF Refs!DeleteRow
  <2>2. CASE ~(c.item \notin exists \/ (c.item = "category" /\ Refs!Refers(content, "links", c.item)))
    <3> DEFINE avatar == content.avatar /\ c.item # "member"
               new == [content EXCEPT !.avatar = avatar]
               moved == [c EXCEPT !.at = "audit"]
               calls == [refCall EXCEPT ![e] = moved]
    <3>1. /\ exists' = exists \ {c.item} /\ UNCHANGED <<file, reported>>
          /\ Refs!Change([content EXCEPT !.avatar = @ /\ c.item # "member"],
                         [refCall EXCEPT ![e].at = "audit"])
      BY <1>1, <1>3, <2>2 DEF Refs!DeleteRow
    <3>2. [refCall EXCEPT ![e].at = "audit"] = calls
          /\ [content EXCEPT !.avatar = @ /\ c.item # "member"] = new
      BY <1>1 DEF ReferenceInv, Refs!TypeOK
    <3>3. /\ moved \in RefCall /\ moved.op = c.op /\ moved.at = "audit" /\ moved.item = c.item
          /\ moved.unread = c.unread /\ moved.stable = c.stable
      BY <1>1 DEF RefCall, Refs!Stages
    <3>4. /\ new \in [draft : SUBSET Refs!Items, published : SUBSET Refs!Items,
                      revisions : SUBSET Refs!Items, avatar : BOOLEAN, pages : BOOLEAN]
          /\ new.draft = content.draft
      BY DEF ReferenceInv, Refs!TypeOK
    <3>5. Refs!Change(new, calls)
      BY <3>1, <3>2
    <3>6. /\ calls \in [Editors -> RefCall] /\ calls[e] = moved
          /\ \A d \in Editors \ {e} : calls[d] = refCall[d]
      BY <3>3 DEF ReferenceInv, Refs!TypeOK, RefCall
    <3> HIDE DEF new, moved, calls
    <3>7. "category" \in content.draft => "category" \in exists'
      BY <2>2, <3>1 DEF ReferenceInv, Refs!DraftCategoryExists, Refs!Refers
    <3>8. \A d \in Editors :
            \/ calls[d].op = "none" /\ calls[d].at = "start"
            \/ /\ calls[d].op = refCall[d].op /\ calls[d].item = refCall[d].item
               /\ calls[d].stable = refCall[d].stable /\ calls[d].unread = refCall[d].unread
               /\ \/ calls[d].at = refCall[d].at
                  \/ /\ calls[d].op = "delete" /\ calls[d].at = "audit"
                     /\ calls[d].item \notin exists'
      BY <1>1, <3>1, <3>3, <3>6
    <3> QED
      BY <3>1, <3>4, <3>5, <3>6, <3>7, <3>8, ContentChanges
  <2> QED
    BY <2>1, <2>2
<1>4. CASE Refs!DeleteAudit(e)
  <2>1. CASE c.item = "image"
    <3> DEFINE new == [c EXCEPT !.at = "unlink"]
    <3>1. /\ refCall' = [refCall EXCEPT ![e] = new]
          /\ UNCHANGED <<exists, file, reported, content>> /\ c.at = "audit"
      BY <1>1, <1>4, <2>1 DEF Refs!DeleteAudit, ReferenceInv, Refs!TypeOK
    <3>2. /\ new \in RefCall /\ new.op = "delete" /\ new.at = "unlink" /\ new.item = c.item
          /\ new.unread = c.unread /\ new.stable = c.stable
      BY <1>1 DEF RefCall, Refs!Stages
    <3> HIDE DEF new
    <3>3. Reads(new) /\ Stays(new) /\ Discarding(e) /\ refCall[e].at = "audit"
      BY <1>1, <2>1, <3>1, <3>2 DEF Reads, Stays, Discarding
    <3> QED
      BY <3>1, <3>2, <3>3, CallOnly
  <2>2. CASE c.item # "image"
    BY <1>1, <1>4, <2>2, CallOver DEF Refs!DeleteAudit
  <2> QED
    BY <2>1, <2>2
<1>5. CASE Refs!Unlink(e)
  <2>1. /\ refCall' = [refCall EXCEPT ![e] = Refs!NoCall] /\ file' = "removed"
        /\ UNCHANGED <<exists, reported, content>> /\ c.at = "unlink"
    BY <1>1, <1>5 DEF Refs!Unlink, Refs!End, Refs!Ended
  <2>2. "image" \notin exists
    BY <1>1, <2>1 DEF ReferenceInv, Kept, Discarding, Reads
  <2>3. refCall'[e] = Refs!NoCall /\ \A d \in Editors \ {e} : refCall'[d] = refCall[d]
    BY <2>1 DEF ReferenceInv, Refs!TypeOK
  <2>4. \A d \in Editors : /\ Uploading(d)' => Uploading(d) /\ refCall'[d].at = refCall[d].at
                           /\ Discarding(d)' => Discarding(d)
    BY <2>3, NoRefCall DEF Uploading, Discarding
  <2>5. \A d \in Editors : Uploading(d) => refCall[d].at # "insert"
    BY <1>1, <2>1 DEF ReferenceInv, Kept, Reads, Discarding
  <2>6. Kept'
    BY <2>1, <2>2, <2>4, <2>5 DEF ReferenceInv, Kept, Refs!UploadedIsReadable
  <2>7. Reads(Refs!NoCall) /\ Stays(Refs!NoCall)
    BY NoRefCall DEF Reads, Stays
  <2>8. /\ exists' \subseteq Refs!Items /\ reported' \in BOOLEAN /\ Refs!DraftCategoryExists'
        /\ file' \in {"absent", "stored", "removed"} /\ content' = content
    BY <2>1 DEF ReferenceInv, Refs!TypeOK, Refs!DraftCategoryExists
  <2> QED
    BY <2>1, <2>6, <2>7, <2>8, NoRefCall, RefMoves
<1> QED
  BY <1>2, <1>3, <1>4, <1>5

\* An upload writes its file, its row and its audit row.
LEMMA UploadGoesOn ==
  ASSUME ReferenceInv, NEW e \in Editors,
         Refs!WriteUpload(e) \/ Refs!InsertMedia(e) \/ Refs!UploadAudit(e)
  PROVE  ReferenceInv'
<1>1. PICK c \in RefCall : c = refCall[e] /\ Reads(c) /\ Stays(c)
  BY DEF ReferenceInv, Refs!TypeOK, RefCall
<1>2. ASSUME NEW new \in RefCall, refCall' = [refCall EXCEPT ![e] = new]
      PROVE  refCall'[e] = new /\ \A d \in Editors \ {e} : refCall'[d] = refCall[d]
  BY <1>2 DEF ReferenceInv, Refs!TypeOK
<1>3. CASE Refs!WriteUpload(e)
  <2> DEFINE new == [Refs!NoCall EXCEPT !.op = "upload", !.at = "insert"]
  <2>1. /\ refCall' = [refCall EXCEPT ![e] = new] /\ file = "absent" /\ file' = "stored"
        /\ UNCHANGED <<exists, reported, content>>
    BY <1>3 DEF Refs!WriteUpload
  <2>2. /\ new \in RefCall /\ new.op = "upload" /\ new.at = "insert" /\ new.stable = {}
    BY DEF Refs!NoCall, RefCall, Refs!Ops, Refs!Stages, Refs!Items
  <2> HIDE DEF new
  <2>3. refCall'[e] = new /\ \A d \in Editors \ {e} : refCall'[d] = refCall[d]
    BY <1>2, <2>1, <2>2
  <2>4. Kept'
    BY <2>1, <2>2, <2>3
       DEF ReferenceInv, Kept, Uploading, Discarding, Refs!UploadedIsReadable
  <2>5. Reads(new) /\ Stays(new)
    BY <2>2 DEF Reads, Stays
  <2>6. /\ exists' \subseteq Refs!Items /\ reported' \in BOOLEAN /\ Refs!DraftCategoryExists'
        /\ file' \in {"absent", "stored", "removed"} /\ content' = content
    BY <2>1 DEF ReferenceInv, Refs!TypeOK, Refs!DraftCategoryExists
  <2> QED
    BY <2>1, <2>2, <2>4, <2>5, <2>6, RefMoves
<1>4. CASE Refs!InsertMedia(e)
  <2> DEFINE new == [c EXCEPT !.at = "audit"]
  <2>1. /\ refCall' = [refCall EXCEPT ![e] = new] /\ c.at = "insert" /\ c.op = "upload"
        /\ exists' = exists \union {"image"} /\ UNCHANGED <<file, reported, content>>
    BY <1>1, <1>4 DEF Refs!InsertMedia, Reads, RefCall, Refs!Ops, ReferenceInv, Refs!TypeOK
  <2>2. /\ new \in RefCall /\ new.op = "upload" /\ new.at = "audit" /\ new.stable = c.stable
        /\ new.item = c.item /\ new.unread = c.unread
    BY <1>1, <2>1 DEF RefCall, Refs!Stages
  <2> HIDE DEF new
  <2>3. refCall'[e] = new /\ \A d \in Editors \ {e} : refCall'[d] = refCall[d]
    BY <1>2, <2>1, <2>2
  <2>4. /\ Uploading(e) /\ refCall[e].at = "insert" /\ file = "stored" /\ ~reported
        /\ \A d \in Editors : ~Discarding(d) /\ (Uploading(d) => d = e)
    BY <1>1, <2>1 DEF ReferenceInv, Kept, Uploading
  <2>5. \A d \in Editors : ~Discarding(d)' /\ (Uploading(d)' => d = e)
    BY <2>2, <2>3, <2>4 DEF Uploading, Discarding
  <2>6. Kept'
    BY <2>1, <2>2, <2>3, <2>4, <2>5 DEF Kept, Refs!UploadedIsReadable
  <2>7. Reads(new) /\ Stays(new)
    BY <1>1, <2>2 DEF Reads, Stays
  <2>8. /\ exists' \subseteq Refs!Items /\ reported' \in BOOLEAN /\ Refs!DraftCategoryExists'
        /\ file' \in {"absent", "stored", "removed"} /\ content' = content
    BY <2>1 DEF ReferenceInv, Refs!TypeOK, Refs!DraftCategoryExists, Refs!Items
  <2> QED
    BY <2>1, <2>2, <2>6, <2>7, <2>8, RefMoves
<1>5. CASE Refs!UploadAudit(e)
  <2>1. /\ refCall' = [refCall EXCEPT ![e] = Refs!NoCall] /\ c.op = "upload"
        /\ reported' = TRUE /\ UNCHANGED <<file, exists, content>>
    BY <1>1, <1>5 DEF Refs!UploadAudit, Refs!End, Refs!Ended
  <2>3. refCall'[e] = Refs!NoCall /\ \A d \in Editors \ {e} : refCall'[d] = refCall[d]
    BY <1>2, <2>1, NoRefCall
  <2>4. /\ Uploading(e) /\ file # "absent" /\ ("image" \in exists => file = "stored")
        /\ \A d \in Editors : Uploading(d) => d = e
    BY <1>1, <2>1 DEF ReferenceInv, Kept, Uploading
  <2>5. \A d \in Editors : ~Uploading(d)' /\ (Discarding(d)' => Discarding(d) /\ d # e)
    BY <2>3, <2>4, NoRefCall DEF Uploading, Discarding
  <2>6. Kept'
    BY <2>1, <2>3, <2>4, <2>5 DEF ReferenceInv, Kept, Refs!UploadedIsReadable
  <2>7. Reads(Refs!NoCall) /\ Stays(Refs!NoCall)
    BY NoRefCall DEF Reads, Stays
  <2>8. /\ exists' \subseteq Refs!Items /\ reported' \in BOOLEAN /\ Refs!DraftCategoryExists'
        /\ file' \in {"absent", "stored", "removed"} /\ content' = content
    BY <2>1 DEF ReferenceInv, Refs!TypeOK, Refs!DraftCategoryExists
  <2> QED
    BY <2>1, <2>6, <2>7, <2>8, NoRefCall, RefMoves
<1> QED
  BY <1>3, <1>4, <1>5

LEMMA EditorFails ==
  ASSUME ReferenceInv, NEW e \in Editors, Refs!Fail(e) PROVE ReferenceInv'
<1>1. /\ refCall' = [refCall EXCEPT ![e] = Refs!NoCall]
      /\ UNCHANGED <<exists, reported, content>>
      /\ file' = file \/ (file' = "removed" /\ Uploading(e))
  BY DEF Refs!Fail, Refs!End, Refs!Ended, Uploading
<1>2. refCall'[e] = Refs!NoCall /\ \A d \in Editors \ {e} : refCall'[d] = refCall[d]
  BY <1>1 DEF ReferenceInv, Refs!TypeOK
<1>3. \A d \in Editors : /\ Uploading(d)' => Uploading(d) /\ d # e /\ refCall'[d].at = refCall[d].at
                         /\ Discarding(d)' => Discarding(d) /\ refCall'[d].at = refCall[d].at
  BY <1>2, NoRefCall DEF Uploading, Discarding
<1>4. Kept'
  <2>1. CASE file' = file
    BY <1>1, <1>3, <2>1, ImageStays DEF ReferenceInv
  <2>2. CASE file' = "removed" /\ Uploading(e)
    <3>1. ~reported /\ \A d \in Editors : ~Uploading(d)'
      BY <1>3, <2>2 DEF ReferenceInv, Kept
    <3> QED
      BY <1>1, <1>3, <2>2, <3>1 DEF ReferenceInv, Kept, Refs!UploadedIsReadable
  <2> QED
    BY <1>1, <2>1, <2>2
<1>5. Reads(Refs!NoCall) /\ Stays(Refs!NoCall)
  BY NoRefCall DEF Reads, Stays
<1>6. /\ exists' \subseteq Refs!Items /\ reported' \in BOOLEAN /\ Refs!DraftCategoryExists'
      /\ file' \in {"absent", "stored", "removed"} /\ content' = content
  BY <1>1 DEF ReferenceInv, Refs!TypeOK, Refs!DraftCategoryExists
<1> QED
  BY <1>1, <1>4, <1>5, <1>6, NoRefCall, RefMoves

LEMMA ReferencesBegin == Refs!Init => ReferenceInv
<1> SUFFICES ASSUME Refs!Init PROVE ReferenceInv
  OBVIOUS
<1>1. \A e \in Editors : refCall[e] = Refs!NoCall
  BY DEF Refs!Init
<1>2. Refs!TypeOK
  BY NoRefCall DEF Refs!Init, Refs!TypeOK, Refs!Items, RefCall
<1>3. Refs!DraftCategoryExists /\ Kept
  BY <1>1, NoRefCall
     DEF Refs!Init, Refs!DraftCategoryExists, Kept, Refs!UploadedIsReadable, Uploading, Discarding
<1>4. \A e \in Editors : Reads(refCall[e]) /\ Stays(refCall[e])
  BY <1>1, NoRefCall DEF Reads, Stays
<1> QED
  BY <1>2, <1>3, <1>4 DEF ReferenceInv

LEMMA ReferencesStep == ReferenceInv /\ [Refs!Next]_referenceVars => ReferenceInv'
<1> SUFFICES ASSUME ReferenceInv, [Refs!Next]_referenceVars PROVE ReferenceInv'
  OBVIOUS
<1>1. CASE Refs!Next
  BY <1>1, EditorsStart, ContentWritten, DeletionGoesOn, UploadGoesOn, EditorFails
     DEF Refs!Next
<1>2. CASE UNCHANGED referenceVars
  <2>1. UNCHANGED <<exists, file, reported, content, refCall>>
    BY <1>2 DEF referenceVars
  <2>2. Refs!TypeOK' /\ Refs!DraftCategoryExists' /\ Kept'
    BY <2>1 DEF ReferenceInv, Refs!TypeOK, Refs!DraftCategoryExists, Kept,
       Refs!UploadedIsReadable, Uploading, Discarding
  <2>3. \A e \in Editors : Reads(refCall[e])' /\ Stays(refCall[e])'
    BY <2>1 DEF ReferenceInv, Reads, Stays, Refs!Refers
  <2> QED
    BY <2>2, <2>3 DEF ReferenceInv
<1> QED
  BY <1>1, <1>2

LEMMA ReferencesAreHeld == ReferenceInv => Refs!TypeOK /\ ReferencesHold
<1> SUFFICES ASSUME ReferenceInv PROVE Refs!TypeOK /\ ReferencesHold
  OBVIOUS
<1>1. Refs!CheckSeesReferences
  BY DEF ReferenceInv, Refs!CheckSeesReferences, Reads
<1> QED
  BY <1>1 DEF ReferenceInv, Kept, ReferencesHold

(***************************************************************************)
(* Mail settings.                                                          *)
(***************************************************************************)

MailPage == [shown : BOOLEAN, asked : Mail!Form, at : Mail!Steps,
             kept : Passwords \union {None}]

\* What is about to be written has a password if it switches mail on; what was
\* saved is encrypted with the current secret.
Saving(p) ==
  /\ p.at = "write" /\ p.asked.enabled => p.kept # None
  /\ p.at \in {"audit", "done"} => mailRow.key = current

MailInv ==
  /\ Mail!TypeOK /\ Mail!CredentialIsUsable
  /\ resaved => mailRow.key = current
  /\ \A a \in Admins : Saving(mailPage[a])

LEMMA BlankForm == Mail!Blank \in Mail!Form
BY DEF Mail!Blank, Mail!Form

LEMMA IdlePage ==
  ASSUME NEW shown \in BOOLEAN
  PROVE  Mail!Idle(shown) \in MailPage /\ Mail!Idle(shown).at = "idle"
BY BlankForm DEF Mail!Idle, MailPage, Mail!Steps

\* A page moves, the row and the secrets stay.
LEMMA PageMoves ==
  ASSUME MailInv, NEW a \in Admins, NEW new \in MailPage,
         mailPage' = [mailPage EXCEPT ![a] = new], UNCHANGED <<mailRow, current, previous>>,
         resaved' \in BOOLEAN, resaved' => mailRow.key = current, Saving(new)
  PROVE  MailInv'
<1>1. mailPage' \in [Admins -> MailPage] /\ mailPage'[a] = new
      /\ \A b \in Admins \ {a} : mailPage'[b] = mailPage[b]
  BY DEF MailInv, Mail!TypeOK, MailPage
<1>2. Mail!TypeOK' /\ Mail!CredentialIsUsable'
  BY <1>1 DEF MailInv, Mail!TypeOK, MailPage, Mail!CredentialIsUsable, Mail!Readable
<1>3. \A b \in Admins : Saving(mailPage[b])'
  BY <1>1 DEF MailInv, Saving
<1> QED
  BY <1>2, <1>3 DEF MailInv

LEMMA PagesAct ==
  ASSUME MailInv, NEW a \in Admins,
         \/ Mail!Reload(a) \/ Mail!Submit(a) \/ Mail!Saved(a) \/ Mail!Failed(a)
         \/ Mail!SendTest(a) \/ Mail!Retry(a) \/ Mail!OtherAnswer(a)
         \/ Mail!ReadStored(a) \/ Mail!WriteAudit(a)
  PROVE  MailInv'
<1>1. PICK p \in MailPage : p = mailPage[a] /\ Saving(p)
  BY DEF MailInv, Mail!TypeOK, MailPage
<1>2. UNCHANGED <<mailRow, current, previous>> /\ mailPage \in [Admins -> MailPage]
      /\ mailRow.enabled \in BOOLEAN /\ mailRow.password \in Passwords \union {None}
      /\ resaved \in BOOLEAN /\ (resaved => mailRow.key = current)
  BY DEF MailInv, Mail!TypeOK, MailPage, Mail!Reload, Mail!Submit, Mail!Saved, Mail!Failed,
     Mail!SendTest, Mail!Retry, Mail!OtherAnswer, Mail!ReadStored, Mail!WriteAudit
\* Back to an idle page.
<1>3. ASSUME NEW shown \in BOOLEAN, mailPage' = [mailPage EXCEPT ![a] = Mail!Idle(shown)],
             resaved' \in BOOLEAN, resaved' => mailRow.key = current
      PROVE  MailInv'
  <2>1. Saving(Mail!Idle(shown))
    BY IdlePage DEF Saving
  <2>2. Mail!Idle(shown) \in MailPage
    BY IdlePage
  <2> QED
    BY <1>2, <1>3, <2>1, <2>2, PageMoves
\* On to the next step, with nothing to keep or with what was read.
<1>4. ASSUME NEW at \in Mail!Steps, mailPage' = [mailPage EXCEPT ![a].at = at],
             resaved' = resaved, at # "write", at \in {"audit", "done"} => mailRow.key = current
      PROVE  MailInv'
  <2> DEFINE new == [p EXCEPT !.at = at]
  <2>1. new \in MailPage /\ new.at = at
    BY DEF MailPage
  <2>2. mailPage' = [mailPage EXCEPT ![a] = new]
    BY <1>1, <1>2, <1>4
  <2> HIDE DEF new
  <2>3. Saving(new)
    BY <1>4, <2>1 DEF Saving
  <2> QED
    BY <1>2, <1>4, <2>1, <2>2, <2>3, PageMoves
<1>5. Mail!Steps = {"idle", "sent", "write", "audit", "done", "failed", "other"}
  BY DEF Mail!Steps
<1>6. CASE Mail!Reload(a)
  BY <1>2, <1>3, <1>6 DEF Mail!Reload
<1>7. CASE Mail!Submit(a)
  <2>1. PICK f \in Mail!Form : mailPage' = [mailPage EXCEPT ![a].asked = f, ![a].at = "sent"]
    BY <1>7 DEF Mail!Submit
  <2> DEFINE new == [p EXCEPT !.asked = f, !.at = "sent"]
  <2>2. new \in MailPage /\ new.at = "sent"
    BY <1>5 DEF MailPage
  <2>3. mailPage' = [mailPage EXCEPT ![a] = new]
    BY <1>1, <1>2, <2>1
  <2> HIDE DEF new
  <2>4. Saving(new) /\ resaved' = resaved
    BY <1>7, <2>2 DEF Saving, Mail!Submit
  <2> QED
    BY <1>2, <2>2, <2>3, <2>4, PageMoves
<1>8. CASE Mail!Saved(a)
  <2>1. p.asked.enabled \in BOOLEAN /\ mailRow.key = current
    BY <1>1, <1>8 DEF MailPage, Mail!Form, Mail!Saved, Saving
  <2> QED
    BY <1>1, <1>3, <1>8, <2>1 DEF Mail!Saved
<1>9. CASE Mail!Failed(a)
  <2>1. p.shown \in BOOLEAN
    BY DEF MailPage
  <2>2. mailPage' = [mailPage EXCEPT ![a] = Mail!Idle(p.shown)] /\ resaved' = resaved
    BY <1>1, <1>9 DEF Mail!Failed
  <2>3. resaved' \in BOOLEAN /\ (resaved' => mailRow.key = current)
    BY <1>2, <2>2
  <2> QED
    BY <1>3, <2>1, <2>2, <2>3
<1>10. CASE Mail!SendTest(a)
  BY <1>4, <1>5, <1>10 DEF Mail!SendTest, Mail!Goto
<1>11. CASE Mail!Retry(a)
  BY <1>4, <1>5, <1>11 DEF Mail!Retry, Mail!Goto
<1>12. CASE Mail!OtherAnswer(a)
  BY <1>4, <1>5, <1>12 DEF Mail!OtherAnswer, Mail!Goto
<1>13. CASE Mail!ReadStored(a)
  <2> DEFINE f == p.asked
             refused == ~Mail!Valid(f) \/ Mail!Unreadable(f)
                          \/ (f.enabled /\ Mail!KeptPassword(f) = None)
             kept == Mail!KeptPassword(f)
             new == [p EXCEPT !.at = "write", !.kept = kept]
  <2>1. mailPage' = (IF refused THEN [mailPage EXCEPT ![a].at = "failed"]
                     ELSE [mailPage EXCEPT ![a].at = "write", ![a].kept = kept])
        /\ resaved' = resaved
    BY <1>1, <1>13 DEF Mail!ReadStored
  <2>2. kept \in Passwords \union {None}
    BY <1>2 DEF Mail!KeptPassword, MailPage, Mail!Form
  <2>3. CASE refused
    BY <1>4, <1>5, <2>1, <2>3
  <2>4. CASE ~refused
    <3>1. mailPage' = [mailPage EXCEPT ![a] = new]
      BY <1>1, <1>2, <2>1, <2>4
    <3>2. /\ new \in MailPage /\ new.at = "write" /\ new.asked = f /\ new.kept = kept
      BY <1>5, <2>2 DEF MailPage
    <3>3. f.enabled => kept # None
      BY <2>4
    <3> HIDE DEF new, kept, refused
    <3>4. Saving(new)
      BY <3>2, <3>3 DEF Saving
    <3> QED
      BY <1>2, <2>1, <3>1, <3>2, <3>4, PageMoves
  <2> QED
    BY <2>3, <2>4
<1>14. CASE Mail!WriteAudit(a)
  <2>1. mailRow.key = current
    BY <1>1, <1>14 DEF Mail!WriteAudit, Saving
  <2> QED
    BY <1>4, <1>5, <1>14, <2>1 DEF Mail!WriteAudit, Mail!Goto
<1> QED
  BY <1>6, <1>7, <1>8, <1>9, <1>10, <1>11, <1>12, <1>13, <1>14

\* The row is written whole, with the current secret.
LEMMA RowWritten ==
  ASSUME MailInv, NEW a \in Admins, Mail!WriteRow(a) PROVE MailInv'
<1>1. PICK p \in MailPage : p = mailPage[a] /\ Saving(p) /\ p.at = "write"
  BY DEF MailInv, Mail!TypeOK, MailPage, Mail!WriteRow
<1> DEFINE new == [p EXCEPT !.at = "audit", !.kept = None]
<1>2. new \in MailPage /\ new.at = "audit"
  BY DEF MailPage, Mail!Steps
<1>3. /\ mailRow' = [enabled |-> p.asked.enabled, password |-> p.kept, key |-> current]
      /\ UNCHANGED <<current, previous, resaved>>
      /\ mailPage' = [mailPage EXCEPT ![a] = new]
  BY <1>1 DEF Mail!WriteRow, MailInv, Mail!TypeOK
<1> HIDE DEF new
<1>4. mailPage' \in [Admins -> MailPage] /\ mailPage'[a] = new
      /\ \A b \in Admins \ {a} : mailPage'[b] = mailPage[b]
  BY <1>2, <1>3 DEF MailInv, Mail!TypeOK, MailPage
<1>5. p.asked.enabled \in BOOLEAN /\ p.kept \in Passwords \union {None}
  BY DEF MailPage, Mail!Form
<1>6. Mail!TypeOK'
  BY <1>3, <1>4, <1>5 DEF MailInv, Mail!TypeOK, MailPage
<1>7. Mail!CredentialIsUsable'
  BY <1>1, <1>3 DEF Mail!CredentialIsUsable, Mail!Readable, Saving
<1>8. mailRow'.key = current'
  BY <1>3
<1>9. \A b \in Admins : Saving(mailPage[b])'
  BY <1>2, <1>4, <1>8 DEF MailInv, Saving
<1> QED
  BY <1>6, <1>7, <1>8, <1>9 DEF MailInv

\* A new secret keeps the one the row may be encrypted with; the old one goes
\* when a save has replaced it.
LEMMA SecretRotated ==
  ASSUME MailInv, Mail!Rotate \/ Mail!EndRotation PROVE MailInv'
<1>1. /\ mailPage' \in [Admins -> MailPage]
      /\ \A a \in Admins : mailPage'[a].at \in {"idle", "failed"}
  <2> DEFINE after(p) == IF p.at # "idle"
                           THEN [p EXCEPT !.at = "failed", !.kept = None, !.asked = Mail!Blank]
                           ELSE p
  <2>1. mailPage' = [a \in Admins |-> after(mailPage[a])] /\ mailPage \in [Admins -> MailPage]
    BY DEF Mail!Rotate, Mail!EndRotation, Mail!Restart, MailInv, Mail!TypeOK, MailPage
  <2>2. ASSUME NEW p \in MailPage PROVE after(p) \in MailPage /\ after(p).at \in {"idle", "failed"}
    BY BlankForm DEF MailPage, Mail!Steps
  <2> HIDE DEF after
  <2> QED
    BY <2>1, <2>2
<1>2. \A a \in Admins : Saving(mailPage[a])'
  BY <1>1 DEF Saving
<1>3. CASE Mail!Rotate
  <2>1. /\ mailRow' = mailRow /\ current' = current + 1 /\ previous' = current
        /\ previous = None /\ resaved' = FALSE /\ current < MaxKey
    BY <1>3 DEF Mail!Rotate
  <2>2. Mail!TypeOK'
    <3>1. current' \in 1 .. MaxKey /\ previous' \in 1 .. MaxKey
      BY <2>1, KeysAssumption DEF MailInv, Mail!TypeOK
    <3> QED
      BY <1>1, <2>1, <3>1 DEF MailInv, Mail!TypeOK, MailPage
  <2>3. Mail!CredentialIsUsable'
    BY <2>1, KeysAssumption DEF MailInv, Mail!TypeOK, Mail!CredentialIsUsable, Mail!Readable
  <2> QED
    BY <1>2, <2>1, <2>2, <2>3 DEF MailInv
<1>4. CASE Mail!EndRotation
  <2>1. UNCHANGED <<mailRow, current, resaved>> /\ previous' = None /\ resaved
    BY <1>4 DEF Mail!EndRotation
  <2>2. Mail!TypeOK'
    BY <1>1, <2>1 DEF MailInv, Mail!TypeOK, MailPage
  <2>3. Mail!CredentialIsUsable'
    BY <2>1 DEF MailInv, Mail!CredentialIsUsable, Mail!Readable
  <2> QED
    BY <1>2, <2>1, <2>2, <2>3 DEF MailInv
<1> QED
  BY <1>3, <1>4

LEMMA MailBegins == Mail!Init => MailInv
<1> SUFFICES ASSUME Mail!Init PROVE MailInv
  OBVIOUS
<1>1. \A a \in Admins : mailPage[a] \in MailPage /\ Saving(mailPage[a])
  BY IdlePage DEF Mail!Init, Saving
<1>2. Mail!TypeOK
  <2>1. mailPage \in [Admins -> MailPage]
    BY <1>1 DEF Mail!Init
  <2>2. 1 \in 1 .. MaxKey
    BY KeysAssumption
  <2> QED
    BY <2>1, <2>2 DEF Mail!Init, Mail!TypeOK, MailPage
<1> QED
  BY <1>1, <1>2 DEF Mail!Init, MailInv, Mail!CredentialIsUsable

LEMMA MailStep == MailInv /\ [Mail!Next]_mailVars => MailInv'
<1> SUFFICES ASSUME MailInv, [Mail!Next]_mailVars PROVE MailInv'
  OBVIOUS
<1>1. CASE Mail!Next
  BY <1>1, PagesAct, RowWritten, SecretRotated DEF Mail!Next
<1>2. CASE UNCHANGED mailVars
  BY <1>2 DEF mailVars, MailInv, Mail!TypeOK, Mail!CredentialIsUsable, Mail!Readable, Saving
<1> QED
  BY <1>1, <1>2

(***************************************************************************)
(* Site settings.                                                          *)
(***************************************************************************)

Entries == [id : NewIds \union {"home", "members"}, href : Hrefs \union {"", "/", "/members"},
            order : Nat, fixed : BOOLEAN]

\* No two entries with one id, and the fixed ones there.
Whole(nav) ==
  /\ \A i, j \in DOMAIN nav : nav[i].id = nav[j].id => i = j
  /\ Site!KeepsFixed(nav, Site!Default.navigation)

Numbered(nav) == \A i \in DOMAIN nav : nav[i].order = i - 1

\* The settings a page or the row can hold.
SoundSettings ==
  {v \in [intro : Texts, navigation : Seq(Entries)] : Whole(v.navigation) /\ Numbered(v.navigation)}

Saves == [at : {"idle", "sent", "read", "stored", "refused"}, read : SoundSettings \union {None},
          value : SoundSettings \union Texts \union {None}]

\* A save carries what it has to.
Carries(u, s) ==
  /\ u \in Managers /\ s.at \in {"sent", "read", "stored"} => s.value \in SoundSettings
  /\ u \notin Managers /\ s.at \in {"sent", "read"} => s.value \in Texts
  /\ u \notin Managers /\ s.at = "stored" => s.value \in SoundSettings
  /\ s.at = "read" => s.read \in SoundSettings

SettingsInv ==
  /\ settingsRow \in SoundSettings \union {None}
  /\ settingsPage \in [Managers -> SoundSettings]
  /\ settingsSave \in [Site!Savers -> Saves]
  /\ \A u \in Site!Savers : Carries(u, settingsSave[u])

LEMMA DefaultIsSound == Site!Default \in SoundSettings
<1> DEFINE home == Site!Entry("home", "/", 0, TRUE)
           members == Site!Entry("members", "/members", 1, TRUE)
           intro == CHOOSE t \in Texts : TRUE
           nav == <<home, members>>
<1>1. intro \in Texts
  BY SettingsAssumption
<1>2. /\ home \in Entries /\ home.id = "home" /\ home.order = 0
      /\ members \in Entries /\ members.id = "members" /\ members.order = 1
  BY DEF Site!Entry, Entries
<1>3. Site!Default = [intro |-> intro, navigation |-> nav]
  BY DEF Site!Default
<1> HIDE DEF intro, home, members
<1>4. nav \in Seq(Entries) /\ DOMAIN nav = 1 .. 2 /\ nav[1] = home /\ nav[2] = members
  BY <1>2
<1> HIDE DEF nav
<1>5. Numbered(nav)
  BY <1>2, <1>4 DEF Numbered
<1>6. \A i, j \in DOMAIN nav : nav[i].id = nav[j].id => i = j
  BY <1>2, <1>4
<1>7. Site!KeepsFixed(nav, nav)
  BY DEF Site!KeepsFixed
<1>8. Site!Default.navigation = nav /\ Site!Default.intro = intro
  BY <1>3
<1> QED
  BY <1>1, <1>3, <1>4, <1>5, <1>6, <1>7, <1>8 DEF SoundSettings, Whole

\* An answer that is read is sound, as is what an editor makes of it.
LEMMA SettingsAreSound == ASSUME SettingsInv PROVE Site!Settings \in SoundSettings
BY DefaultIsSound DEF SettingsInv, Site!Settings

LEMMA IntroductionReplaced ==
  ASSUME NEW v \in SoundSettings, NEW t \in Texts
  PROVE  [v EXCEPT !.intro = t] \in SoundSettings
BY DEF SoundSettings

\* Putting entries in a new order, or taking one away, and numbering them again.
LEMMA NumberedAgain ==
  ASSUME NEW nav \in Seq(Entries)
  PROVE  /\ Site!Renumbered(nav) \in Seq(Entries) /\ Len(Site!Renumbered(nav)) = Len(nav)
         /\ Numbered(Site!Renumbered(nav))
         /\ \A i \in DOMAIN nav : /\ Site!Renumbered(nav)[i].id = nav[i].id
                                  /\ Site!Renumbered(nav)[i].href = nav[i].href
                                  /\ Site!Renumbered(nav)[i].fixed = nav[i].fixed
<1> DEFINE again == Site!Renumbered(nav)
           renumbered(i) == [nav[i] EXCEPT !.order = i - 1]
<1>1. Len(nav) \in Nat /\ DOMAIN nav = 1 .. Len(nav) /\ \A i \in 1 .. Len(nav) : nav[i] \in Entries
  BY LenProperties
<1>2. again = [i \in 1 .. Len(nav) |-> renumbered(i)]
  BY <1>1 DEF Site!Renumbered
<1>3. ASSUME NEW i \in 1 .. Len(nav)
      PROVE  /\ renumbered(i) \in Entries /\ renumbered(i).order = i - 1
             /\ renumbered(i).id = nav[i].id /\ renumbered(i).href = nav[i].href
             /\ renumbered(i).fixed = nav[i].fixed
  <2>1. nav[i] \in Entries /\ i - 1 \in Nat
    BY <1>1
  <2> QED
    BY <2>1 DEF Entries
<1> HIDE DEF again, renumbered
<1>4. again \in [1 .. Len(nav) -> Entries]
  BY <1>2, <1>3
<1>5. again \in Seq(Entries)
  BY <1>1, <1>4, SeqDef
<1>6. Len(again) = Len(nav)
  BY <1>1, <1>2, <1>5, LenProperties
<1>7. Numbered(again)
  BY <1>2, <1>3 DEF Numbered
<1>8. \A i \in DOMAIN nav : again[i].id = nav[i].id /\ again[i].href = nav[i].href
                            /\ again[i].fixed = nav[i].fixed
  BY <1>1, <1>2, <1>3
<1> QED
  BY <1>5, <1>6, <1>7, <1>8 DEF again

\* An entry that is not fixed gets another address.
LEMMA EntryUpdated ==
  ASSUME NEW nav \in Seq(Entries), Whole(nav), Numbered(nav),
         NEW i \in DOMAIN nav, ~nav[i].fixed, NEW h \in Hrefs
  PROVE  LET new == [nav EXCEPT ![i].href = h] IN
         new \in Seq(Entries) /\ Whole(new) /\ Numbered(new)
<1> DEFINE entry == [nav[i] EXCEPT !.href = h]
           new == [nav EXCEPT ![i] = entry]
<1>1. Len(nav) \in Nat /\ DOMAIN nav = 1 .. Len(nav) /\ nav[i] \in Entries
      /\ nav \in [1 .. Len(nav) -> Entries]
  BY LenProperties
<1>2. entry \in Entries /\ entry.id = nav[i].id /\ entry.order = nav[i].order
      /\ entry.fixed = nav[i].fixed
  BY <1>1 DEF Entries
<1>3. [nav EXCEPT ![i].href = h] = new
  BY <1>1
<1> HIDE DEF entry
<1>4. new \in Seq(Entries) /\ DOMAIN new = DOMAIN nav
      /\ \A j \in DOMAIN nav : new[j] = IF j = i THEN entry ELSE nav[j]
  BY <1>1, <1>2, ExceptSeq, LenProperties
<1> HIDE DEF new
<1>5. Numbered(new)
  BY <1>2, <1>4 DEF Numbered
<1>6. \A j, k \in DOMAIN new : new[j].id = new[k].id => j = k
  BY <1>2, <1>4 DEF Whole
<1>7. Site!KeepsFixed(new, Site!Default.navigation)
  BY <1>4 DEF Whole, Site!KeepsFixed
<1>8. Whole(new)
  BY <1>6, <1>7 DEF Whole
<1> QED
  BY <1>3, <1>4, <1>5, <1>8

\* Two neighbours change places.
LEMMA EntryMoved ==
  ASSUME NEW nav \in Seq(Entries), Whole(nav), NEW i \in 1 .. Len(nav) - 1
  PROVE  LET new == Site!Renumbered([nav EXCEPT ![i] = nav[i + 1], ![i + 1] = nav[i]]) IN
         new \in Seq(Entries) /\ Whole(new) /\ Numbered(new)
<1> DEFINE swapped == [nav EXCEPT ![i] = nav[i + 1], ![i + 1] = nav[i]]
           new == Site!Renumbered(swapped)
           at(j) == IF j = i THEN i + 1 ELSE IF j = i + 1 THEN i ELSE j
<1>1. /\ Len(nav) \in Nat /\ DOMAIN nav = 1 .. Len(nav) /\ nav \in [1 .. Len(nav) -> Entries]
      /\ i \in 1 .. Len(nav) /\ i + 1 \in 1 .. Len(nav) /\ i + 1 # i
  BY LenProperties
<1>2. /\ swapped \in [1 .. Len(nav) -> Entries]
      /\ \A j \in 1 .. Len(nav) : at(j) \in 1 .. Len(nav) /\ swapped[j] = nav[at(j)]
  BY <1>1
<1>3. \A j, k \in 1 .. Len(nav) : at(j) = at(k) => j = k
  BY <1>1
<1>4. \A j \in 1 .. Len(nav) : \E k \in 1 .. Len(nav) : at(k) = j
  BY <1>1
<1> HIDE DEF swapped, at
<1>5. swapped \in Seq(Entries) /\ DOMAIN swapped = 1 .. Len(nav)
  BY <1>1, <1>2, SeqDef
<1>6. /\ new \in Seq(Entries) /\ Numbered(new) /\ DOMAIN new = 1 .. Len(nav)
      /\ \A j \in 1 .. Len(nav) : /\ new[j].id = nav[at(j)].id /\ new[j].href = nav[at(j)].href
                                  /\ new[j].fixed = nav[at(j)].fixed
  BY <1>2, <1>5, NumberedAgain, LenProperties
<1> HIDE DEF new
<1>7. \A j, k \in DOMAIN new : new[j].id = new[k].id => j = k
  BY <1>1, <1>2, <1>3, <1>6 DEF Whole
<1>8. Site!KeepsFixed(new, Site!Default.navigation)
  <2> DEFINE old == Site!Default.navigation
  <2> HIDE DEF old
  <2> SUFFICES ASSUME NEW o \in DOMAIN old, old[o].fixed
               PROVE  \E j \in DOMAIN new : /\ new[j].id = old[o].id /\ new[j].href = old[o].href
                                            /\ new[j].fixed
    BY DEF Site!KeepsFixed, old
  <2>1. PICK j \in 1 .. Len(nav) : /\ nav[j].id = old[o].id /\ nav[j].href = old[o].href
                                   /\ nav[j].fixed
    BY <1>1 DEF Whole, Site!KeepsFixed, old
  <2>2. PICK k \in 1 .. Len(nav) : at(k) = j
    BY <1>4
  <2> QED
    BY <1>6, <2>1, <2>2
<1> QED
  BY <1>6, <1>7, <1>8 DEF Whole, new, swapped

\* An entry that is not fixed is taken away.
LEMMA EntryRemoved ==
  ASSUME NEW nav \in Seq(Entries), Whole(nav), NEW i \in DOMAIN nav, ~nav[i].fixed
  PROVE  LET new == Site!Without(nav, i) IN
         new \in Seq(Entries) /\ Whole(new) /\ Numbered(new)
<1> DEFINE rest == Site!RemoveAt(nav, i)
           new == Site!Renumbered(rest)
           at(j) == IF j < i THEN j ELSE j + 1
<1>1. /\ Len(nav) \in Nat /\ DOMAIN nav = 1 .. Len(nav) /\ nav \in [1 .. Len(nav) -> Entries]
      /\ i \in 1 .. Len(nav)
  BY LenProperties
<1>2. /\ SubSeq(nav, 1, i - 1) \in Seq(Entries) /\ Len(SubSeq(nav, 1, i - 1)) = i - 1
      /\ \A j \in 1 .. i - 1 : SubSeq(nav, 1, i - 1)[j] = nav[j]
  BY <1>1, SubSeqProperties
<1>3. /\ SubSeq(nav, i + 1, Len(nav)) \in Seq(Entries)
      /\ Len(SubSeq(nav, i + 1, Len(nav))) = Len(nav) - i
      /\ \A j \in 1 .. Len(nav) - i : SubSeq(nav, i + 1, Len(nav))[j] = nav[i + j]
  BY <1>1, SubSeqProperties
<1>4. rest = SubSeq(nav, 1, i - 1) \o SubSeq(nav, i + 1, Len(nav))
  BY DEF Site!RemoveAt
<1>5. /\ rest \in Seq(Entries) /\ DOMAIN rest = 1 .. Len(nav) - 1
      /\ \A j \in 1 .. Len(nav) - 1 : rest[j] = nav[at(j)]
  <2> DEFINE front == SubSeq(nav, 1, i - 1)
             back == SubSeq(nav, i + 1, Len(nav))
  <2> HIDE DEF front, back
  <2>1. /\ front \in Seq(Entries) /\ Len(front) = i - 1 /\ rest = front \o back
        /\ back \in Seq(Entries) /\ Len(back) = Len(nav) - i
    BY <1>2, <1>3, <1>4 DEF front, back
  <2>2. /\ rest \in Seq(Entries) /\ Len(rest) = Len(front) + Len(back)
        /\ \A j \in 1 .. Len(front) + Len(back) :
             rest[j] = IF j <= Len(front) THEN front[j] ELSE back[j - Len(front)]
    <3>1. /\ front \o back \in Seq(Entries) /\ Len(front \o back) = Len(front) + Len(back)
          /\ \A j \in 1 .. Len(front) + Len(back) :
               (front \o back)[j] = IF j <= Len(front) THEN front[j] ELSE back[j - Len(front)]
      BY <2>1, ConcatProperties
    <3> QED
      BY <2>1, <3>1
  <2>3. Len(rest) = Len(nav) - 1 /\ DOMAIN rest = 1 .. Len(nav) - 1
    <3>1. Len(rest) = Len(nav) - 1
      BY <1>1, <2>1, <2>2
    <3>2. DOMAIN rest = 1 .. Len(rest)
      BY <2>2, LenProperties
    <3> QED
      BY <3>1, <3>2
  <2>4. ASSUME NEW j \in 1 .. Len(nav) - 1 PROVE rest[j] = nav[at(j)]
    <3>1. CASE j < i
      <4>1. rest[j] = front[j]
        BY <1>1, <2>1, <2>2, <3>1
      <4> QED
        BY <1>1, <1>2, <3>1, <4>1 DEF front
    <3>2. CASE j >= i
      <4>1. rest[j] = back[j - (i - 1)] /\ j - (i - 1) \in 1 .. Len(nav) - i
        BY <1>1, <2>1, <2>2, <3>2
      <4>2. back[j - (i - 1)] = nav[i + (j - (i - 1))]
        BY <1>3, <4>1 DEF back
      <4>3. i + (j - (i - 1)) = j + 1 /\ at(j) = j + 1
        BY <1>1, <3>2
      <4> QED
        BY <4>1, <4>2, <4>3
    <3> QED
      BY <1>1, <3>1, <3>2
  <2> QED
    BY <2>2, <2>3, <2>4
<1>6. /\ \A j \in 1 .. Len(nav) - 1 : at(j) \in 1 .. Len(nav) /\ at(j) # i
      /\ \A j, k \in 1 .. Len(nav) - 1 : at(j) = at(k) => j = k
      /\ \A j \in 1 .. Len(nav) : j # i => \E k \in 1 .. Len(nav) - 1 : at(k) = j
  <2>1. ASSUME NEW j \in 1 .. Len(nav), j # i PROVE \E k \in 1 .. Len(nav) - 1 : at(k) = j
    <3>1. CASE j < i
      BY <1>1, <3>1
    <3>2. CASE j > i
      <4>1. j - 1 \in 1 .. Len(nav) - 1 /\ at(j - 1) = j
        BY <1>1, <3>2
      <4> QED
        BY <4>1
    <3> QED
      BY <1>1, <2>1, <3>1, <3>2
  <2> QED
    BY <1>1, <2>1
<1> HIDE DEF rest, at
<1>7. /\ new \in Seq(Entries) /\ Numbered(new) /\ DOMAIN new = 1 .. Len(nav) - 1
      /\ \A j \in 1 .. Len(nav) - 1 :
           /\ new[j].id = nav[at(j)].id /\ new[j].href = nav[at(j)].href
           /\ new[j].fixed = nav[at(j)].fixed
  BY <1>5, NumberedAgain, LenProperties
<1>8. Site!Without(nav, i) = new
  BY DEF Site!Without, rest
<1> HIDE DEF new
<1>9. \A j, k \in DOMAIN new : new[j].id = new[k].id => j = k
  BY <1>1, <1>6, <1>7 DEF Whole
<1>10. Site!KeepsFixed(new, Site!Default.navigation)
  <2> DEFINE old == Site!Default.navigation
  <2> HIDE DEF old
  <2> SUFFICES ASSUME NEW o \in DOMAIN old, old[o].fixed
               PROVE  \E j \in DOMAIN new : /\ new[j].id = old[o].id /\ new[j].href = old[o].href
                                            /\ new[j].fixed
    BY DEF Site!KeepsFixed, old
  <2>1. PICK j \in 1 .. Len(nav) : /\ nav[j].id = old[o].id /\ nav[j].href = old[o].href
                                   /\ nav[j].fixed
    BY <1>1 DEF Whole, Site!KeepsFixed, old
  <2>2. PICK k \in 1 .. Len(nav) - 1 : at(k) = j
    BY <1>6, <2>1
  <2> QED
    BY <1>7, <2>1, <2>2
<1> QED
  BY <1>7, <1>8, <1>9, <1>10 DEF Whole

\* A blank entry with an id of its own is added.
LEMMA EntryAdded ==
  ASSUME NEW nav \in Seq(Entries), Whole(nav), Numbered(nav),
         NEW id \in NewIds, \A i \in DOMAIN nav : nav[i].id # id
  PROVE  LET new == Append(nav, Site!Entry(id, "", Len(nav), FALSE)) IN
         new \in Seq(Entries) /\ Whole(new) /\ Numbered(new)
<1> DEFINE entry == Site!Entry(id, "", Len(nav), FALSE)
           new == Append(nav, entry)
<1>1. Len(nav) \in Nat /\ DOMAIN nav = 1 .. Len(nav) /\ nav \in [1 .. Len(nav) -> Entries]
  BY LenProperties
<1>2. entry \in Entries /\ entry.id = id /\ entry.order = Len(nav)
  BY <1>1 DEF Entries, Site!Entry
<1> HIDE DEF entry
<1>3. /\ new \in Seq(Entries) /\ DOMAIN new = 1 .. Len(nav) + 1
      /\ \A j \in 1 .. Len(nav) : new[j] = nav[j]
      /\ new[Len(nav) + 1] = entry
  BY <1>1, <1>2, AppendProperties, LenProperties
<1> HIDE DEF new
<1>4. Numbered(new)
  BY <1>1, <1>2, <1>3 DEF Numbered
<1>5. \A j, k \in DOMAIN new : new[j].id = new[k].id => j = k
  BY <1>1, <1>2, <1>3 DEF Whole
<1>6. Site!KeepsFixed(new, Site!Default.navigation)
  BY <1>1, <1>3 DEF Whole, Site!KeepsFixed
<1> QED
  BY <1>3, <1>4, <1>5, <1>6 DEF Whole, new, entry

\* Only the page of one administrator changes.
LEMMA PageEdited ==
  ASSUME SettingsInv, NEW a \in Managers, NEW nav \in Seq(Entries), Whole(nav), Numbered(nav),
         Site!Edit(a, nav)
  PROVE  SettingsInv'
<1>1. settingsPage[a] \in SoundSettings
  BY DEF SettingsInv
<1> DEFINE new == [settingsPage[a] EXCEPT !.navigation = nav]
<1>2. new \in SoundSettings
  BY <1>1 DEF SoundSettings
<1>3. settingsPage' = [settingsPage EXCEPT ![a] = new] /\ UNCHANGED <<settingsRow, settingsSave>>
  BY DEF Site!Edit, SettingsInv
<1> HIDE DEF new
<1> QED
  BY <1>2, <1>3 DEF SettingsInv, Carries

LEMMA PagesEdited ==
  ASSUME SettingsInv, NEW a \in Managers,
         \/ Site!Open(a) \/ Site!NavUpdate(a) \/ Site!Move(a)
         \/ Site!RemoveEntry(a) \/ Site!AddEntry(a)
  PROVE  SettingsInv'
<1>1. PICK nav \in Seq(Entries) :
        nav = settingsPage[a].navigation /\ Whole(nav) /\ Numbered(nav)
  BY DEF SettingsInv, SoundSettings
<1>2. CASE Site!Open(a)
  <2>1. /\ settingsPage' = [settingsPage EXCEPT ![a] = Site!Settings]
        /\ UNCHANGED <<settingsRow, settingsSave>>
    BY <1>2 DEF Site!Open
  <2> QED
    BY <2>1, SettingsAreSound DEF SettingsInv, Carries
<1>3. CASE Site!NavUpdate(a)
  <2>1. PICK i \in DOMAIN nav, h \in Hrefs :
          ~nav[i].fixed /\ Site!Edit(a, [nav EXCEPT ![i].href = h])
    BY <1>1, <1>3 DEF Site!NavUpdate
  <2> DEFINE new == [nav EXCEPT ![i].href = h]
  <2>2. new \in Seq(Entries) /\ Whole(new) /\ Numbered(new)
    BY <1>1, <2>1, EntryUpdated
  <2>3. Site!Edit(a, new)
    BY <2>1
  <2> HIDE DEF new
  <2> QED
    BY <2>2, <2>3, PageEdited
<1>4. CASE Site!Move(a)
  <2>1. PICK i \in 1 .. Len(nav) - 1 :
          Site!Edit(a, Site!Renumbered([nav EXCEPT ![i] = nav[i + 1], ![i + 1] = nav[i]]))
    BY <1>1, <1>4 DEF Site!Move
  <2> DEFINE new == Site!Renumbered([nav EXCEPT ![i] = nav[i + 1], ![i + 1] = nav[i]])
  <2>2. new \in Seq(Entries) /\ Whole(new) /\ Numbered(new)
    BY <1>1, <2>1, EntryMoved
  <2>3. Site!Edit(a, new)
    BY <2>1
  <2> HIDE DEF new
  <2> QED
    BY <2>2, <2>3, PageEdited
<1>5. CASE Site!RemoveEntry(a)
  <2>1. PICK i \in DOMAIN nav : ~nav[i].fixed /\ Site!Edit(a, Site!Without(nav, i))
    BY <1>1, <1>5 DEF Site!RemoveEntry
  <2> DEFINE new == Site!Without(nav, i)
  <2>2. new \in Seq(Entries) /\ Whole(new) /\ Numbered(new)
    BY <1>1, <2>1, EntryRemoved
  <2>3. Site!Edit(a, new)
    BY <2>1
  <2> HIDE DEF new
  <2> QED
    BY <2>2, <2>3, PageEdited
<1>6. CASE Site!AddEntry(a)
  <2>1. PICK id \in NewIds \ Site!InUse :
          Site!Edit(a, Append(nav, Site!Entry(id, "", Len(nav), FALSE)))
    BY <1>1, <1>6 DEF Site!AddEntry
  <2>2. \A i \in DOMAIN nav : nav[i].id # id
    <3>1. \A i \in DOMAIN nav : nav[i].id \in Site!IdsOf(settingsPage[a])
      BY <1>1 DEF Site!IdsOf
    <3>2. Site!IdsOf(settingsPage[a]) \subseteq Site!InUse
      <4>1. Site!IdsOf(settingsPage[a]) \in {Site!IdsOf(settingsPage[b]) : b \in Managers}
        OBVIOUS
      <4> QED
        BY <4>1 DEF Site!InUse
    <3> QED
      BY <2>1, <3>1, <3>2
  <2> DEFINE new == Append(nav, Site!Entry(id, "", Len(nav), FALSE))
  <2>3. new \in Seq(Entries) /\ Whole(new) /\ Numbered(new)
    BY <1>1, <2>1, <2>2, EntryAdded
  <2>4. Site!Edit(a, new)
    BY <2>1
  <2> HIDE DEF new
  <2> QED
    BY <2>3, <2>4, PageEdited
<1> QED
  BY <1>2, <1>3, <1>4, <1>5, <1>6

\* Only the save of one user moves.
LEMMA SaveMoves ==
  ASSUME SettingsInv, NEW u \in Site!Savers, NEW new \in Saves, Carries(u, new),
         settingsSave' = [settingsSave EXCEPT ![u] = new],
         settingsRow' \in SoundSettings \union {None},
         settingsPage' \in [Managers -> SoundSettings]
  PROVE  SettingsInv'
BY DEF SettingsInv, Carries

LEMMA NoSaveCarries == \A u : Site!NoSave \in Saves /\ Carries(u, Site!NoSave)
BY DEF Site!NoSave, Saves, Carries

LEMMA SavesMove ==
  ASSUME SettingsInv, NEW u \in Site!Savers,
         \/ u \in Managers /\ Site!Submit(u)
         \/ u \in Introducers /\ Site!SubmitIntro(u)
         \/ Site!ReadSettings(u) \/ Site!PersistSettings(u) \/ Site!Saved(u) \/ Site!Failed(u)
  PROVE  SettingsInv'
<1>1. PICK s \in Saves : s = settingsSave[u] /\ Carries(u, s)
  BY DEF SettingsInv
<1>2. CASE u \in Managers /\ Site!Submit(u)
  <2> DEFINE new == [at |-> "sent", read |-> None, value |-> settingsPage[u]]
  <2>1. settingsPage[u] \in SoundSettings
    BY <1>2 DEF SettingsInv
  <2>2. /\ settingsSave' = [settingsSave EXCEPT ![u] = new]
        /\ UNCHANGED <<settingsRow, settingsPage>>
    BY <1>2 DEF Site!Submit
  <2>3. new \in Saves /\ Carries(u, new)
    BY <1>2, <2>1 DEF Saves, Carries
  <2> HIDE DEF new
  <2> QED
    BY <2>2, <2>3, SaveMoves DEF SettingsInv
<1>3. CASE u \in Introducers /\ Site!SubmitIntro(u)
  <2>1. PICK t \in Texts :
          settingsSave' = [settingsSave EXCEPT ![u] = [at |-> "sent", read |-> None, value |-> t]]
    BY <1>3 DEF Site!SubmitIntro
  <2> DEFINE new == [at |-> "sent", read |-> None, value |-> t]
  <2>2. /\ settingsSave' = [settingsSave EXCEPT ![u] = new]
        /\ UNCHANGED <<settingsRow, settingsPage>>
    BY <1>3, <2>1 DEF Site!SubmitIntro
  <2>3. u \notin Managers
    BY <1>3, SettingsAssumption
  <2>4. new \in Saves /\ Carries(u, new)
    BY <2>3 DEF Saves, Carries
  <2> HIDE DEF new
  <2> QED
    BY <2>2, <2>4, SaveMoves DEF SettingsInv
<1>4. CASE Site!ReadSettings(u)
  <2> DEFINE new == [s EXCEPT !.at = "read", !.read = Site!Settings]
  <2>1. /\ settingsSave' = [settingsSave EXCEPT ![u] = new] /\ s.at = "sent"
        /\ UNCHANGED <<settingsRow, settingsPage>>
    BY <1>1, <1>4 DEF Site!ReadSettings, SettingsInv
  <2>2. /\ new \in Saves /\ new.at = "read" /\ new.read = Site!Settings /\ new.value = s.value
    BY SettingsAreSound DEF Saves
  <2> HIDE DEF new
  <2>3. Carries(u, new)
    BY <1>1, <2>1, <2>2, SettingsAreSound DEF Carries
  <2> QED
    BY <2>1, <2>2, <2>3, SaveMoves DEF SettingsInv
<1>5. CASE Site!PersistSettings(u)
  <2>1. Site!NextValue(u) \in SoundSettings
    BY <1>1, <1>5, IntroductionReplaced DEF Site!PersistSettings, Site!NextValue, Carries
  <2> DEFINE value == Site!NextValue(u)
             stored == [at |-> "stored", read |-> None, value |-> value]
             refused == [Site!NoSave EXCEPT !.at = "refused"]
  <2> HIDE DEF value
  <2>2. \/ settingsRow' = value /\ settingsSave' = [settingsSave EXCEPT ![u] = stored]
        \/ settingsRow' = settingsRow /\ settingsSave' = [settingsSave EXCEPT ![u] = refused]
    BY <1>5 DEF Site!PersistSettings, value
  <2>3. settingsPage' = settingsPage
    BY <1>5 DEF Site!PersistSettings
  <2>4. stored \in Saves /\ Carries(u, stored)
    BY <2>1 DEF Saves, Carries, value
  <2>5. refused \in Saves /\ Carries(u, refused)
    BY DEF Saves, Carries, Site!NoSave
  <2> HIDE DEF stored, refused
  <2>6. CASE settingsRow' = value /\ settingsSave' = [settingsSave EXCEPT ![u] = stored]
    BY <2>1, <2>3, <2>4, <2>6, SaveMoves DEF SettingsInv, value
  <2>7. CASE settingsRow' = settingsRow /\ settingsSave' = [settingsSave EXCEPT ![u] = refused]
    BY <2>3, <2>5, <2>7, SaveMoves DEF SettingsInv
  <2> QED
    BY <2>2, <2>6, <2>7
<1>6. CASE Site!Saved(u)
  <2>1. /\ settingsPage' = IF u \in Managers THEN [settingsPage EXCEPT ![u] = s.value] ELSE settingsPage
        /\ settingsSave' = [settingsSave EXCEPT ![u] = Site!NoSave]
        /\ settingsRow' = settingsRow /\ s.at = "stored"
    BY <1>1, <1>6 DEF Site!Saved
  <2>2. settingsPage' \in [Managers -> SoundSettings]
    BY <1>1, <2>1 DEF SettingsInv, Carries
  <2>3. settingsRow' \in SoundSettings \union {None}
    BY <2>1 DEF SettingsInv
  <2> QED
    BY <2>1, <2>2, <2>3, NoSaveCarries, SaveMoves
<1>7. CASE Site!Failed(u)
  <2>1. /\ settingsSave' = [settingsSave EXCEPT ![u] = Site!NoSave]
        /\ settingsRow' \in SoundSettings \union {None}
        /\ settingsPage' \in [Managers -> SoundSettings]
    BY <1>7 DEF Site!Failed, SettingsInv
  <2> QED
    BY <2>1, NoSaveCarries, SaveMoves
<1> QED
  BY <1>2, <1>3, <1>4, <1>5, <1>6, <1>7

LEMMA SettingsBegin == Site!Init => SettingsInv
BY DefaultIsSound, NoSaveCarries DEF Site!Init, SettingsInv

LEMMA SettingsStep == SettingsInv /\ [Site!Next]_settingsVars => SettingsInv'
<1> SUFFICES ASSUME SettingsInv, [Site!Next]_settingsVars PROVE SettingsInv'
  OBVIOUS
<1>1. CASE Site!Next
  <2>1. \A u \in Managers \union Introducers : u \in Site!Savers
    BY DEF Site!Savers
  <2> QED
    BY <1>1, <2>1, PagesEdited, SavesMove DEF Site!Next
<1>2. CASE UNCHANGED settingsVars
  BY <1>2 DEF settingsVars, SettingsInv, Carries
<1> QED
  BY <1>1, <1>2

LEMMA SoundNavigation ==
  ASSUME NEW v \in SoundSettings
  PROVE  /\ v.intro \in Texts /\ Site!Unambiguous(v.navigation)
         /\ Site!KeepsFixed(v.navigation, Site!Default.navigation)
<1>1. PICK nav \in Seq(Entries) : nav = v.navigation /\ Whole(nav) /\ Numbered(nav)
  BY DEF SoundSettings
<1>2. DOMAIN nav \subseteq Nat
  BY LenProperties
<1>3. Site!Unambiguous(nav)
  BY <1>1, <1>2 DEF Site!Unambiguous, Site!Distinct, Whole, Numbered
<1> QED
  BY <1>1, <1>3 DEF SoundSettings, Whole

LEMMA SettingsHold == SettingsInv => Site!TypeOK /\ Site!NavigationIsSound
<1> SUFFICES ASSUME SettingsInv PROVE Site!TypeOK /\ Site!NavigationIsSound
  OBVIOUS
<1>1. Site!TypeOK
  BY SoundNavigation DEF SettingsInv, Site!TypeOK, Saves
<1>2. Site!NavigationIsSound
  BY SoundNavigation, SettingsAreSound DEF SettingsInv, Site!NavigationIsSound
<1> QED
  BY <1>1, <1>2

(***************************************************************************)
(* Site access.                                                            *)
(***************************************************************************)

AccessPage ==
  [open : {TRUE}, at : {"idle", "sent", "stored", "refused"},
   public : Access!Origins \union {None}, aliases : SUBSET Access!Origins,
   origin : Access!Origins]

\* Only addresses the deployment may have are configured, and only addresses
\* that were counted are stored.
AccessInv ==
  /\ production \in BOOLEAN
  /\ {siteFile, app, caddy} \subseteq Access!Origins
  /\ accessRow \in {None} \union Access!Configs
  /\ accessPage \in [Managers -> {Access!Closed} \union AccessPage]
  /\ Access!Configurable(siteFile) /\ Access!Configurable(app) /\ Access!Configurable(caddy)

LEMMA ClosedIsClosed == Access!Closed.open = FALSE
BY DEF Access!Closed

LEMMA SameCardinality == \A S : Access!Cardinality(S) = Cardinality(S)
BY Zenon DEF Access!Cardinality, Cardinality

LEMMA EmptyIsStored ==
  /\ Access!Empty \in Access!Configs
  /\ \A o \in Access!Origins : [public |-> o, trusted |-> {}] \in Access!Configs
<1>1. Access!Cardinality({}) = 0
  BY FS_EmptySet, SameCardinality
<1> DEFINE few == {s \in SUBSET Access!Origins : Access!Cardinality(s) <= MaxTrusted}
<1>2. {} \in few
  BY <1>1, TrustedAssumption
<1>3. Access!Configs = [public : Access!Origins \union {None}, trusted : few]
  BY DEF Access!Configs
<1> HIDE DEF few
<1>4. \A o \in Access!Origins \union {None} : [public |-> o, trusted |-> {}] \in Access!Configs
  BY <1>2, <1>3
<1> QED
  BY <1>4 DEF Access!Empty

LEMMA StoredIsConfig == ASSUME AccessInv PROVE Access!StoredConfig \in Access!Configs
BY EmptyIsStored DEF AccessInv, Access!StoredConfig

\* Only one page changes.
LEMMA AccessPageMoves ==
  ASSUME AccessInv, NEW a \in Managers, NEW new \in {Access!Closed} \union AccessPage,
         accessPage' = [accessPage EXCEPT ![a] = new],
         UNCHANGED <<production, siteFile, app, caddy>>,
         accessRow' \in {None} \union Access!Configs
  PROVE  AccessInv'
BY DEF AccessInv, Access!Configurable

LEMMA PageActs ==
  ASSUME AccessInv, NEW a \in Managers,
         \/ Access!Open(a) \/ Access!Leave(a) \/ Access!Type(a) \/ Access!Submit(a)
         \/ Access!SaveSiteAccess(a) \/ Access!Saved(a) \/ Access!Failed(a)
  PROVE  AccessInv'
<1>1. ASSUME NEW new \in {Access!Closed} \union AccessPage, Access!Page(a, new) PROVE AccessInv'
  <2>1. /\ accessPage' = [accessPage EXCEPT ![a] = new]
        /\ UNCHANGED <<production, siteFile, app, caddy, accessRow>>
    BY <1>1 DEF Access!Page
  <2> QED
    BY <2>1, AccessPageMoves DEF AccessInv
<1>2. ASSUME NEW o \in Access!Origins PROVE Access!Fresh(o) \in AccessPage
  BY StoredIsConfig DEF Access!Fresh, AccessPage, Access!Configs
<1>3. CASE Access!Open(a)
  BY <1>1, <1>2, <1>3 DEF Access!Open
<1>4. CASE Access!Leave(a)
  BY <1>1, <1>4 DEF Access!Leave
<1>5. ASSUME accessPage[a].open PROVE accessPage[a] \in AccessPage
  BY <1>5, ClosedIsClosed DEF AccessInv
<1>6. CASE Access!Type(a)
  <2>1. PICK p \in AccessPage : p = accessPage[a]
    BY <1>5, <1>6 DEF Access!Type
  <2>2. /\ \A o \in Access!Origins \union {None} : [p EXCEPT !.public = o] \in AccessPage
        /\ \A os \in SUBSET Access!Origins : [p EXCEPT !.aliases = os] \in AccessPage
        /\ p.origin \in Access!Origins
    BY DEF AccessPage
  <2>3. CASE \E o \in Access!Origins \union {None} : Access!Page(a, [p EXCEPT !.public = o])
    BY <1>1, <2>2, <2>3
  <2>4. CASE \E os \in SUBSET Access!Origins : Access!Page(a, [p EXCEPT !.aliases = os])
    <3>1. PICK os : os \in SUBSET Access!Origins /\ Access!Page(a, [p EXCEPT !.aliases = os])
      BY <2>4
    <3> DEFINE new == [p EXCEPT !.aliases = os]
    <3>2. new \in AccessPage /\ Access!Page(a, new)
      BY <2>2, <3>1
    <3> HIDE DEF new
    <3> QED
      BY <1>1, <3>2
  <2>5. CASE Access!Page(a, [p EXCEPT !.public = p.origin])
    BY <1>1, <2>2, <2>5
  <2> QED
    BY <1>6, <2>1, <2>3, <2>4, <2>5 DEF Access!Type
<1>7. CASE Access!Submit(a)
  <2>1. PICK p \in AccessPage : p = accessPage[a]
    BY <1>5, <1>7 DEF Access!Submit
  <2>2. [p EXCEPT !.at = "sent"] \in AccessPage
    BY DEF AccessPage
  <2> QED
    BY <1>1, <1>7, <2>1, <2>2 DEF Access!Submit
<1>8. CASE Access!SaveSiteAccess(a)
  <2>1. PICK p \in AccessPage : p = accessPage[a]
    BY <1>5, <1>8 DEF Access!SaveSiteAccess
  <2> DEFINE asked == [public |-> p.public, trusted |-> p.aliases]
             stored == [p EXCEPT !.at = "stored"]
             refused == [p EXCEPT !.at = "refused"]
  <2>2. stored \in AccessPage /\ refused \in AccessPage
    BY DEF AccessPage
  <2>3. accessPage \in [Managers -> {Access!Closed} \union AccessPage]
        /\ UNCHANGED <<production, siteFile, app, caddy>>
    BY <1>8 DEF AccessInv, Access!SaveSiteAccess
  <2>4. \/ /\ Access!Valid(asked) /\ accessRow' = asked
           /\ accessPage' = [accessPage EXCEPT ![a] = stored]
        \/ accessRow' = accessRow /\ accessPage' = [accessPage EXCEPT ![a] = refused]
    BY <1>8, <2>1, <2>3 DEF Access!SaveSiteAccess, Access!Asked
  <2>5. Access!Valid(asked) => asked \in Access!Configs
    BY <2>1 DEF Access!Valid, Access!Configs, AccessPage
  <2> HIDE DEF asked, stored, refused
  <2>6. accessRow' \in {None} \union Access!Configs
    BY <2>4, <2>5 DEF AccessInv
  <2> QED
    BY <2>2, <2>3, <2>4, <2>6, AccessPageMoves
<1>9. CASE Access!Saved(a)
  <2>1. PICK p \in AccessPage : p = accessPage[a]
    BY <1>5, <1>9 DEF Access!Saved
  <2>2. p.origin \in Access!Origins
    BY DEF AccessPage
  <2> QED
    BY <1>1, <1>2, <1>9, <2>1, <2>2 DEF Access!Saved
<1>10. CASE Access!Failed(a)
  <2>1. PICK p \in AccessPage : p = accessPage[a]
    BY <1>5, <1>10 DEF Access!Failed
  <2>2. [p EXCEPT !.at = "idle"] \in AccessPage
    BY DEF AccessPage
  <2> QED
    BY <1>1, <1>10, <2>1, <2>2 DEF Access!Failed
<1> QED
  BY <1>3, <1>4, <1>6, <1>7, <1>8, <1>9, <1>10

LEMMA AccessBegins == Access!Init => AccessInv
<1> SUFFICES ASSUME Access!Init PROVE AccessInv
  OBVIOUS
<1>1. accessRow \in {None} \union Access!Configs
  BY EmptyIsStored DEF Access!Init, Access!Origins
<1> QED
  BY <1>1 DEF Access!Init, AccessInv

LEMMA AccessStep == AccessInv /\ [Access!Next]_accessVars => AccessInv'
<1> SUFFICES ASSUME AccessInv, [Access!Next]_accessVars PROVE AccessInv'
  OBVIOUS
<1>1. CASE \E a \in Managers :
             \/ Access!Open(a) \/ Access!Leave(a) \/ Access!Type(a) \/ Access!Submit(a)
             \/ Access!SaveSiteAccess(a) \/ Access!Saved(a) \/ Access!Failed(a)
  BY <1>1, PageActs
<1>2. CASE Access!WriteSiteConfiguration \/ Access!RecreateApp \/ Access!RecreateCaddy
  BY <1>2 DEF AccessInv, Access!WriteSiteConfiguration, Access!RecreateApp,
     Access!RecreateCaddy, Access!Configurable
<1>3. CASE UNCHANGED accessVars
  BY <1>3 DEF accessVars, AccessInv, Access!Configurable
<1> QED
  BY <1>1, <1>2, <1>3 DEF Access!Next

LEMMA AccessHolds == AccessInv => Access!TypeOK /\ Access!AddressesWork
<1> SUFFICES ASSUME AccessInv PROVE Access!TypeOK /\ Access!AddressesWork
  OBVIOUS
<1>1. Access!TypeOK
  BY DEF AccessInv, Access!TypeOK, AccessPage
<1>2. app \in Access!TrustedAuthOrigins
  BY DEF AccessInv, Access!TrustedAuthOrigins
<1>3. production => Access!TrustedAuthOrigins \subseteq Secure
  BY DEF AccessInv, Access!TrustedAuthOrigins, Access!Configurable
<1>4. /\ production /\ Access!StoredConfig.public # None => Access!StoredConfig.public \in Secure
      /\ production => Access!StoredConfig.trusted \subseteq Secure
  BY DEF AccessInv, Access!StoredConfig, Access!Valid, Access!Acceptable, Access!Empty
<1>5. Access!AddressesWork
  BY <1>2, <1>3, <1>4 DEF Access!AddressesWork, Access!EffectivePublicUrl,
     Access!EffectiveTrustedOrigins, Access!MayLogIn
<1> QED
  BY <1>1, <1>5

(***************************************************************************)
(* Rate limits.                                                            *)
(***************************************************************************)

\* The rows a limit is kept in.
CounterRow ==
  {row \in [action : Counters!Actions, kind : {"global", "email", "ip"},
            bucket : {"global"} \union Emails \union Ips, window : Nat] :
     row.kind \in DOMAIN Limits[row.action]}

CountedRequest == [rows : Seq(CounterRow), taken : Nat, at : {"idle", "open", "limited"}]

\* No row is counted by two at a time, and none that is full.
CountersInv ==
  /\ now \in 0 .. MaxTime
  /\ request \in [Requests -> CountedRequest]
  /\ \A r \in Requests : request[r].taken <= Len(request[r].rows)
  /\ \A row \in DOMAIN counts : counts[row] \in Nat \ {0}
  /\ Counters!CountersAreExact
  /\ \A r \in Requests : \A row \in Counters!Taken(r) : Counters!Count(row) < Counters!LimitOf(row)
  /\ \A r, q \in Requests : r # q => Counters!Taken(r) \intersect Counters!Taken(q) = {}

LEMMA IdleIsFree ==
  /\ Counters!Idle \in CountedRequest /\ Counters!Idle.taken = 0
  /\ Counters!Idle.rows = <<>> /\ Len(Counters!Idle.rows) = 0
BY EmptySeq DEF Counters!Idle, CountedRequest

LEMMA LimitIsNumber == ASSUME NEW row \in CounterRow PROVE Counters!LimitOf(row) \in Nat
BY LimitsAssumption DEF CounterRow, Counters!LimitOf, Counters!Actions

\* The counters a request has to take.
LEMMA LimitsArePublic ==
  ASSUME CountersInv, NEW action \in Counters!Actions, NEW email \in Emails, NEW ip \in Ips
  PROVE  Counters!PublicLimits(action, email, ip) \in Seq(CounterRow)
<1> DEFINE one(kind, value) == IF value = None \/ kind \notin DOMAIN Limits[action]
                               THEN <<>> ELSE <<Counters!Row(action, kind, value)>>
<1>1. ASSUME NEW kind \in {"global", "email", "ip"},
             NEW value \in {"global"} \union Emails \union Ips
      PROVE  one(kind, value) \in Seq(CounterRow)
  <2>1. CASE value = None \/ kind \notin DOMAIN Limits[action]
    BY <2>1, EmptySeq
  <2>2. CASE ~(value = None \/ kind \notin DOMAIN Limits[action])
    <3>1. now \in Nat /\ Windows[action][kind] \in Nat \ {0}
      BY <2>2, LimitsAssumption DEF CountersInv, Counters!Actions
    <3>2. now \div Windows[action][kind] \in Nat
      BY <3>1
    <3>3. Counters!Row(action, kind, value) \in CounterRow
      BY <2>2, <3>2 DEF CounterRow, Counters!Row
    <3> QED
      BY <2>2, <3>3
  <2> QED
    BY <2>1, <2>2
<1>2. Counters!PublicLimits(action, email, ip)
        = (one("global", "global") \o one("email", email)) \o one("ip", ip)
  BY DEF Counters!PublicLimits
<1> HIDE DEF one
<1>3. one("global", "global") \o one("email", email) \in Seq(CounterRow)
  BY <1>1, ConcatProperties
<1> QED
  BY <1>1, <1>2, <1>3, ConcatProperties

\* One request moves and what is stored stays.
LEMMA RequestMoves ==
  ASSUME CountersInv, NEW r \in Requests, NEW new \in CountedRequest,
         request' = [request EXCEPT ![r] = new], UNCHANGED <<now, counts, accepted>>,
         new.taken <= Len(new.rows),
         \A i \in 1 .. new.taken :
           \/ new.rows[i] \in Counters!Taken(r)
           \/ /\ Counters!Count(new.rows[i]) < Counters!LimitOf(new.rows[i])
              /\ ~Counters!Locked(new.rows[i])
  PROVE  CountersInv'
<1>1. /\ request' \in [Requests -> CountedRequest] /\ request'[r] = new
      /\ \A q \in Requests \ {r} : request'[q] = request[q]
  BY DEF CountersInv
<1>2. \A q \in Requests \ {r} : Counters!Taken(q)' = Counters!Taken(q)
  BY <1>1 DEF Counters!Taken
<1>3. \A row \in Counters!Taken(r)' :
        \/ row \in Counters!Taken(r)
        \/ Counters!Count(row) < Counters!LimitOf(row) /\ ~Counters!Locked(row)
  BY <1>1 DEF Counters!Taken
<1>4. \A row : Counters!Count(row)' = Counters!Count(row)
  BY DEF Counters!Count
<1>5. \A q \in Requests : \A row \in Counters!Taken(q)' :
        Counters!Count(row)' < Counters!LimitOf(row)
  BY <1>2, <1>3, <1>4 DEF CountersInv
<1>6. \A p, q \in Requests : p # q => Counters!Taken(p)' \intersect Counters!Taken(q)' = {}
  <2>1. ASSUME NEW q \in Requests \ {r}
        PROVE  Counters!Taken(r)' \intersect Counters!Taken(q)' = {}
    <3>1. Counters!Taken(r) \intersect Counters!Taken(q) = {}
      BY DEF CountersInv
    <3>2. \A row \in Counters!Taken(q) : Counters!Locked(row)
      BY DEF Counters!Locked
    <3> QED
      BY <1>2, <1>3, <3>1, <3>2
  <2>2. ASSUME NEW p \in Requests \ {r}, NEW q \in Requests \ {r}, p # q
        PROVE  Counters!Taken(p)' \intersect Counters!Taken(q)' = {}
    BY <1>2, <2>2 DEF CountersInv
  <2> QED
    BY <2>1, <2>2
<1>7. /\ now' \in 0 .. MaxTime
      /\ \A q \in Requests : request'[q].taken <= Len(request'[q].rows)
      /\ \A row \in DOMAIN counts' : counts'[row] \in Nat \ {0}
      /\ Counters!CountersAreExact'
  BY <1>1 DEF CountersInv, Counters!CountersAreExact, Counters!LimitOf
<1> QED
  BY <1>1, <1>5, <1>6, <1>7 DEF CountersInv, Counters!LimitOf

LEMMA RequestsAct ==
  ASSUME CountersInv, NEW r \in Requests,
         Counters!Begin(r) \/ Counters!Increment(r) \/ Counters!Rollback(r)
  PROVE  CountersInv'
<1>1. PICK q \in CountedRequest : q = request[r] /\ q.taken <= Len(q.rows)
  BY DEF CountersInv
<1>2. request \in [Requests -> CountedRequest]
  BY DEF CountersInv
<1>3. Counters!Taken(r) = {q.rows[i] : i \in 1 .. q.taken}
  BY <1>1 DEF Counters!Taken
<1>4. CASE Counters!Begin(r)
  <2>1. PICK action \in Counters!Actions, email \in Emails, ip \in Ips :
          request' = [request EXCEPT ![r] =
            [rows |-> Counters!PublicLimits(action, email, ip), taken |-> 0, at |-> "open"]]
    BY <1>4 DEF Counters!Begin
  <2> DEFINE rows == Counters!PublicLimits(action, email, ip)
             new == [rows |-> rows, taken |-> 0, at |-> "open"]
  <2>2. rows \in Seq(CounterRow)
    BY LimitsArePublic
  <2>3. request' = [request EXCEPT ![r] = new] /\ UNCHANGED <<now, counts, accepted>>
    BY <1>4, <2>1 DEF Counters!Begin
  <2> HIDE DEF rows
  <2>4. new \in CountedRequest /\ new.taken = 0 /\ new.rows = rows /\ Len(rows) \in Nat
    BY <2>2, LenProperties DEF CountedRequest
  <2> HIDE DEF new
  <2>5. 1 .. new.taken = {} /\ new.taken <= Len(new.rows)
    BY <2>4
  <2> QED
    BY <2>3, <2>4, <2>5, RequestMoves
<1>5. CASE Counters!Increment(r)
  <2> DEFINE row == q.rows[q.taken + 1]
  <2>1. /\ q.taken < Len(q.rows) /\ UNCHANGED <<now, counts, accepted>>
        /\ Counters!Take(r, row)
    BY <1>1, <1>5 DEF Counters!Increment, Counters!Counting, Counters!Next1
  <2>0. ~Counters!Locked(row)
    BY <2>1 DEF Counters!Take
  <2>2. q.taken \in Nat /\ Len(q.rows) \in Nat
    BY LenProperties DEF CountedRequest
  <2>3. CASE Counters!Count(row) < Counters!LimitOf(row)
    <3> DEFINE new == [q EXCEPT !.taken = q.taken + 1]
    <3>1. request' = [request EXCEPT ![r] = new]
      BY <1>1, <1>2, <2>1, <2>3 DEF Counters!Take
    <3>2. new \in CountedRequest /\ new.taken = q.taken + 1 /\ new.rows = q.rows
      BY <2>2 DEF CountedRequest
    <3> HIDE DEF new
    <3>3. \A i \in 1 .. new.taken :
            \/ new.rows[i] \in Counters!Taken(r)
            \/ /\ Counters!Count(new.rows[i]) < Counters!LimitOf(new.rows[i])
               /\ ~Counters!Locked(new.rows[i])
      <4> SUFFICES ASSUME NEW i \in 1 .. q.taken + 1
                   PROVE  \/ q.rows[i] \in Counters!Taken(r)
                          \/ /\ Counters!Count(q.rows[i]) < Counters!LimitOf(q.rows[i])
                             /\ ~Counters!Locked(q.rows[i])
        BY <3>2
      <4>1. CASE i = q.taken + 1
        BY <2>0, <2>3, <4>1
      <4>2. CASE i # q.taken + 1
        BY <1>3, <2>2, <4>2
      <4> QED
        BY <4>1, <4>2
    <3>4. new.taken <= Len(new.rows)
      BY <2>1, <2>2, <3>2
    <3> QED
      BY <2>1, <3>1, <3>2, <3>3, <3>4, RequestMoves
  <2>4. CASE ~(Counters!Count(row) < Counters!LimitOf(row))
    <3> DEFINE new == [q EXCEPT !.at = "limited"]
    <3>1. request' = [request EXCEPT ![r] = new]
      BY <1>1, <1>2, <2>1, <2>4 DEF Counters!Take
    <3>2. new \in CountedRequest /\ new.taken = q.taken /\ new.rows = q.rows
      BY DEF CountedRequest
    <3> HIDE DEF new
    <3>3. \A i \in 1 .. new.taken : new.rows[i] \in Counters!Taken(r)
      BY <1>3, <3>2
    <3> QED
      BY <1>1, <2>1, <3>1, <3>2, <3>3, RequestMoves
  <2> QED
    BY <2>3, <2>4
<1>6. CASE Counters!Rollback(r)
  <2>1. request' = [request EXCEPT ![r] = Counters!Idle] /\ UNCHANGED <<now, counts, accepted>>
    BY <1>6 DEF Counters!Rollback, Counters!Undone
  <2>2. 1 .. Counters!Idle.taken = {} /\ Counters!Idle.taken <= Len(Counters!Idle.rows)
    BY IdleIsFree
  <2> QED
    BY <2>1, <2>2, IdleIsFree, RequestMoves
<1> QED
  BY <1>4, <1>5, <1>6

\* What is taken becomes what is accepted.
LEMMA RequestAccepted ==
  ASSUME CountersInv, NEW r \in Requests, Counters!Commit(r) PROVE CountersInv'
<1>1. PICK q \in CountedRequest : q = request[r] /\ q.taken = Len(q.rows)
  <2>1. request[r] \in CountedRequest /\ request[r].taken <= Len(request[r].rows)
        /\ ~(request[r].taken < Len(request[r].rows))
    BY DEF CountersInv, Counters!Commit, Counters!Counting
  <2>2. request[r].taken \in Nat /\ Len(request[r].rows) \in Nat
    BY <2>1, LenProperties DEF CountedRequest
  <2> QED
    BY <2>1, <2>2
<1> DEFINE taken == Counters!Taken(r)
<1>2. Counters!ToSet(q.rows) = taken /\ taken \subseteq CounterRow
  <2>1. DOMAIN q.rows = 1 .. Len(q.rows) /\ \A i \in 1 .. Len(q.rows) : q.rows[i] \in CounterRow
    BY LenProperties DEF CountedRequest
  <2> QED
    BY <1>1, <2>1 DEF Counters!ToSet, Counters!Taken
<1>3. /\ counts' = Counters!Plus(counts, taken) /\ accepted' = counts' /\ now' = now
      /\ request' = [request EXCEPT ![r] = Counters!Idle]
  BY <1>1, <1>2 DEF Counters!Commit, CountersInv, Counters!CountersAreExact
<1>4. /\ DOMAIN counts' = DOMAIN counts \union taken
      /\ \A k \in DOMAIN counts \union taken :
           counts'[k] = Counters!Count(k) + (IF k \in taken THEN 1 ELSE 0)
  BY <1>3 DEF Counters!Plus, Counters!Count
<1>5. \A k : Counters!Count(k) \in Nat
  BY DEF CountersInv, Counters!Count
<1>6. \A k : k \notin taken => Counters!Count(k)' = Counters!Count(k)
  BY <1>4, <1>5 DEF Counters!Count
<1>7. \A k \in DOMAIN counts' : counts'[k] \in Nat \ {0}
  <2> SUFFICES ASSUME NEW k \in DOMAIN counts' PROVE counts'[k] \in Nat \ {0}
    OBVIOUS
  <2>1. CASE k \in taken
    BY <1>4, <1>5, <2>1
  <2>2. CASE k \notin taken
    <3>1. k \in DOMAIN counts /\ counts'[k] = Counters!Count(k) + 0
      BY <1>4, <2>2
    <3> QED
      BY <1>5, <3>1 DEF Counters!Count, CountersInv
  <2> QED
    BY <2>1, <2>2
<1>8. \A k \in DOMAIN counts' : counts'[k] <= Counters!LimitOf(k)
  <2> SUFFICES ASSUME NEW k \in DOMAIN counts' PROVE counts'[k] <= Counters!LimitOf(k)
    OBVIOUS
  <2>1. CASE k \in taken
    <3>1. Counters!Count(k) < Counters!LimitOf(k) /\ Counters!LimitOf(k) \in Nat
      BY <1>2, <2>1, LimitIsNumber DEF CountersInv
    <3>2. counts'[k] = Counters!Count(k) + 1
      BY <1>4, <2>1
    <3> QED
      BY <1>5, <3>1, <3>2
  <2>2. CASE k \notin taken
    <3>1. k \in DOMAIN counts /\ counts'[k] = Counters!Count(k) + 0
      BY <1>4, <2>2
    <3>2. Counters!Count(k) = counts[k] /\ counts[k] <= Counters!LimitOf(k)
      BY <3>1 DEF Counters!Count, CountersInv, Counters!CountersAreExact
    <3> QED
      BY <1>5, <3>1, <3>2
  <2> QED
    BY <2>1, <2>2
<1>9. /\ request' \in [Requests -> CountedRequest] /\ request'[r] = Counters!Idle
      /\ \A p \in Requests \ {r} : request'[p] = request[p]
  BY <1>3, IdleIsFree DEF CountersInv
<1>10. /\ Counters!Taken(r)' = {}
       /\ \A p \in Requests \ {r} : /\ Counters!Taken(p)' = Counters!Taken(p)
                                    /\ Counters!Taken(p) \intersect taken = {}
  <2>1. Counters!Taken(r)' = {}
    BY <1>9, IdleIsFree DEF Counters!Taken
  <2>2. \A p \in Requests \ {r} : Counters!Taken(p)' = Counters!Taken(p)
    BY <1>9 DEF Counters!Taken
  <2>3. \A p \in Requests \ {r} : Counters!Taken(p) \intersect taken = {}
    BY DEF CountersInv
  <2> QED
    BY <2>1, <2>2, <2>3
<1> HIDE DEF taken
<1>11. \A p \in Requests : \A row \in Counters!Taken(p)' :
         Counters!Count(row)' < Counters!LimitOf(row)
  BY <1>6, <1>10 DEF CountersInv
<1>12. \A p, s \in Requests : p # s => Counters!Taken(p)' \intersect Counters!Taken(s)' = {}
  BY <1>10 DEF CountersInv
<1>13. \A p \in Requests : request'[p].taken <= Len(request'[p].rows)
  BY <1>9, IdleIsFree DEF CountersInv
<1>14. Counters!CountersAreExact'
  BY <1>3, <1>8 DEF Counters!CountersAreExact, Counters!LimitOf
<1>15. now' \in 0 .. MaxTime
  BY <1>3 DEF CountersInv
<1> QED
  BY <1>7, <1>9, <1>11, <1>12, <1>13, <1>14, <1>15 DEF CountersInv, Counters!LimitOf

LEMMA CountersBegin == Counters!Init => CountersInv
<1> SUFFICES ASSUME Counters!Init PROVE CountersInv
  OBVIOUS
<1>1. /\ \A r \in Requests : request[r] = Counters!Idle /\ Counters!Taken(r) = {}
      /\ request \in [Requests -> CountedRequest]
  BY IdleIsFree DEF Counters!Init, Counters!Taken
<1>2. DOMAIN counts = {} /\ Counters!CountersAreExact
  BY DEF Counters!Init, Counters!CountersAreExact
<1>3. now \in 0 .. MaxTime
  BY LimitsAssumption DEF Counters!Init
<1> QED
  BY <1>1, <1>2, <1>3, IdleIsFree DEF CountersInv

LEMMA CountersStep == CountersInv /\ [Counters!Next]_limitVars => CountersInv'
<1> SUFFICES ASSUME CountersInv, [Counters!Next]_limitVars PROVE CountersInv'
  OBVIOUS
<1>1. ASSUME UNCHANGED <<counts, request, accepted>>, now' \in 0 .. MaxTime PROVE CountersInv'
  <2>1. /\ \A r \in Requests : Counters!Taken(r)' = Counters!Taken(r)
        /\ \A row : Counters!Count(row)' = Counters!Count(row)
    BY <1>1 DEF Counters!Taken, Counters!Count
  <2>2. Counters!CountersAreExact'
    BY <1>1 DEF CountersInv, Counters!CountersAreExact, Counters!LimitOf
  <2> QED
    BY <1>1, <2>1, <2>2 DEF CountersInv, Counters!LimitOf
<1>2. CASE Counters!Tick
  <2>1. now' \in 0 .. MaxTime
    BY <1>2, LimitsAssumption DEF Counters!Tick, CountersInv
  <2> QED
    BY <1>1, <1>2, <2>1 DEF Counters!Tick
<1>3. CASE UNCHANGED limitVars
  BY <1>1, <1>3 DEF limitVars, CountersInv
<1>4. CASE \E r \in Requests : \/ Counters!Begin(r) \/ Counters!Increment(r)
                               \/ Counters!Commit(r) \/ Counters!Rollback(r)
  BY <1>4, RequestsAct, RequestAccepted
<1> QED
  BY <1>2, <1>3, <1>4 DEF Counters!Next

LEMMA CountersHold == CountersInv => Counters!TypeOK /\ Counters!CountersAreExact
<1> SUFFICES ASSUME CountersInv PROVE Counters!TypeOK /\ Counters!CountersAreExact
  OBVIOUS
<1>1. \A r \in Requests : /\ request[r].at \in {"idle", "open", "limited"}
                          /\ request[r].taken \in 0 .. Len(request[r].rows)
  BY LenProperties DEF CountersInv, CountedRequest
<1> QED
  BY <1>1 DEF CountersInv, Counters!TypeOK

(***************************************************************************)
(* All of them.                                                            *)
(***************************************************************************)

ServicesInv ==
  AccountInv /\ ReferenceInv /\ MailInv /\ SettingsInv /\ AccessInv /\ CountersInv

LEMMA ServicesBegin == ServicesInit => ServicesInv
BY AccountsBegin, ReferencesBegin, MailBegins, SettingsBegin, AccessBegins, CountersBegin
   DEF ServicesInit, ServicesInv

LEMMA ServicesStep == ServicesInv /\ [ServicesNext]_serviceVars => ServicesInv'
<1> SUFFICES ASSUME ServicesInv, [ServicesNext]_serviceVars PROVE ServicesInv'
  OBVIOUS
<1>1. /\ [Next]_vars /\ [Refs!Next]_referenceVars /\ [Mail!Next]_mailVars
      /\ [Site!Next]_settingsVars /\ [Access!Next]_accessVars /\ [Counters!Next]_limitVars
  BY DEF ServicesNext, serviceVars, accountVars
<1> QED
  BY <1>1, AccountsStep, ReferencesStep, MailStep, SettingsStep, AccessStep, CountersStep
     DEF ServicesInv

LEMMA ServicesHold ==
  ServicesInv => /\ ServicesTypeOK /\ AccountsAreSafe /\ ReferencesHold
                 /\ SettingsAreUsable /\ CountersAreExact
<1> SUFFICES ASSUME ServicesInv
             PROVE  /\ ServicesTypeOK /\ AccountsAreSafe /\ ReferencesHold
                    /\ SettingsAreUsable /\ CountersAreExact
  OBVIOUS
<1>1. /\ Refs!TypeOK /\ ReferencesHold /\ Site!TypeOK /\ Site!NavigationIsSound
      /\ Access!TypeOK /\ Access!AddressesWork /\ Counters!TypeOK /\ Counters!CountersAreExact
  BY ReferencesAreHeld, SettingsHold, AccessHolds, CountersHold DEF ServicesInv
<1>2. TypeOK /\ AccountsAreSafe /\ Mail!TypeOK /\ Mail!CredentialIsUsable
  BY DEF ServicesInv, AccountInv, AccountsAreSafe, MailInv
<1> QED
  BY <1>1, <1>2 DEF ServicesTypeOK, SettingsAreUsable, CountersAreExact

LEMMA ServicesInvariant == ServicesSpec => []ServicesInv
BY ServicesBegin, ServicesStep, PTL DEF ServicesSpec

\* Accounts, sessions, calls, rows and pages stay well formed, whoever calls.
THEOREM ServicesTyped == ServicesSpec => []ServicesTypeOK
BY ServicesInvariant, ServicesHold, PTL

\* Demotions, logins, resets and the bootstrap command, their statements in any
\* order, leave an administrator who can log in. A session whose account was
\* disabled or whose password was replaced is gone, unless its login crossed
\* that; or saveUser kept it, and then its user must change the password first
\* (users.ts:155-274, bootstrap.ts:194-208).
THEOREM AccountsStaySafe == ServicesSpec => []AccountsAreSafe
BY ServicesInvariant, ServicesHold, PTL

\* A draft's category exists, a deletion sees the references that stay, and a
\* reported upload is readable (taxonomy.ts:79-107, media.ts:177-255).
THEOREM ReferencesStay == ServicesSpec => []ReferencesHold
BY ServicesInvariant, ServicesHold, PTL

\* The stored mail password can be decrypted over rotations, the navigation keeps
\* its fixed entries, and the addresses keep a way in (mail/config.ts:310-374,
\* validation.ts:455-486, site-access/store.ts:54-79).
THEOREM SettingsStayUsable == ServicesSpec => []SettingsAreUsable
BY ServicesInvariant, ServicesHold, PTL

\* Counters stand at what was let through and within their limits, for every
\* table of limits (rate-limit.ts:70-115).
THEOREM CountersStayExact == ServicesSpec => []CountersAreExact
BY ServicesInvariant, ServicesHold, PTL
=============================================================================
