------------------------------ MODULE Accounts ------------------------------
(***************************************************************************)
(* Users, administrators and their refresh sessions, with the one-time     *)
(* passwords customers and shopkeepers sign in by.                         *)
(*                                                                         *)
(* No handler locks a row it reads: signing in, refreshing, logging out    *)
(* and resetting a password read users and sessions, decide, and write at  *)
(* the commit.  An access token is not checked against a session, so what  *)
(* an account can go on doing is decided by who holds a live session.      *)
(***************************************************************************)
EXTENDS OneTimePasswords

CONSTANTS
  Admins,      \* administrators' accounts, known by an e-mail address
  Sessions,    \* bound: the refresh sessions that are opened
  MaxLogouts   \* bound: the times a user is logged out everywhere

Users == Keys \cup Admins   \* a phone has one account in each role
Rows  == [user : Users, parent : Sessions \cup {Nothing}, live : BOOLEAN,
          since : Nat, straddled : BOOLEAN]
Openings    == [op : {"signIn", "refresh"}, user : Users, known : BOOLEAN,
                parent : Sessions \cup {Nothing}, since : Nat, straddled : BOOLEAN]
Revocations == [op : {"revoke"}, user : Users, targets : SUBSET Sessions, all : BOOLEAN]
Statuses    == [op : {"status"}, user : Admins, state : {"active", "inactive"}]

ASSUME AccountsAssumption ==
  /\ Nothing \notin Sessions /\ Nothing \notin Rows
  /\ Nothing \notin Openings \cup Revocations \cup Statuses
  /\ MaxLogouts \in Nat

VARIABLES
  account,  \* "absent", "active" or "inactive" (is_active)
  session,  \* the rows of refresh_sessions; since and straddled are history:
            \* how often the user had been logged out everywhere at the sign-in
            \* the session descends from, and whether the descent has crossed one
  job,      \* what a request has read, until it commits
  logouts,  \* history: how often a user has been logged out everywhere
  raced     \* history: sessions that two refreshes had read at once

accountVars == <<account, session, job, logouts, raced>>
vars == <<otpVars, accountVars>>

TypeOK ==
  /\ OTPTypeOK
  /\ account \in [Users -> {"absent", "active", "inactive"}]
  /\ session \in [Sessions -> Rows \cup {Nothing}]
  /\ job \in [Clients -> Openings \cup Revocations \cup Statuses \cup {Nothing}]
  /\ logouts \in [Users -> Nat]
  /\ raced \subseteq Sessions

Init ==
  /\ OTPInit
  /\ account \in [Users -> {"absent", "active"}]
  /\ \A k \in Keys : account[k] = "absent"
  /\ session = [s \in Sessions |-> Nothing]
  /\ job = [c \in Clients |-> Nothing]
  /\ logouts = [u \in Users |-> 0]
  /\ raced = {}

Idle(c)   == step[c] = "idle" /\ job[c] = Nothing
Does(c, op) == job[c] # Nothing /\ job[c].op = op

Exists(s) == session[s] # Nothing
IsLive(s) == Exists(s) /\ session[s].live
LiveOf(u) == {s \in Sessions : IsLive(s) /\ session[s].user = u}

Starts(c, j) == job' = [job EXCEPT ![c] = j]

-----------------------------------------------------------------------------
(***************************************************************************)
(* Opening sessions.                                                       *)
(***************************************************************************)
LogoutUnderWay(u) == \E c \in Clients : Does(c, "revoke") /\ job[c].all /\ job[c].user = u

SignIn(u) == [op |-> "signIn", user |-> u, known |-> account[u] # "absent",
              parent |-> Nothing, since |-> logouts[u], straddled |-> FALSE]

Refresh(s) == [op |-> "refresh", user |-> session[s].user, known |-> TRUE, parent |-> s,
               since |-> session[s].since, straddled |-> session[s].straddled]

\* The user of an approved code is looked up; nobody asks whether it is active.
FindUser(c) ==
  /\ step[c] = "approved"
  /\ Goes(c, key[c], "idle")
  /\ Starts(c, SignIn(key[c]))
  /\ UNCHANGED <<provider, stored, cooldown, pending, copy, issued, tries, uses,
                 overlaps, account, session, logouts, raced>>

AdminLogin(c, a) ==
  /\ Idle(c)
  /\ account[a] = "active"
  /\ Starts(c, SignIn(a))
  /\ UNCHANGED <<otpVars, account, session, logouts, raced>>

IsRefreshing(c, s) == Does(c, "refresh") /\ job[c].parent = s

EvenRevoked(s) == Exists(s)   \* mutant: revoked_at is not looked at
Unrevoked(s)   == IsLive(s)

ReadSession(c, s) ==
  /\ Idle(c)
  /\ Unrevoked(s)
  /\ account[session[s].user] = "active"
  /\ Starts(c, Refresh(s))
  /\ raced' = IF \E d \in Clients : IsRefreshing(d, s) THEN raced \cup {s} ELSE raced
  /\ UNCHANGED <<otpVars, account, session, logouts>>

\* History is kept of live sessions.
Revoked(row) ==
  IF row = Nothing THEN row
  ELSE [row EXCEPT !.live = FALSE, !.since = 0, !.straddled = FALSE]

NewSession(j) ==
  [user |-> j.user, parent |-> j.parent, live |-> TRUE, since |-> j.since,
   straddled |-> j.straddled \/ LogoutUnderWay(j.user) \/ logouts[j.user] # j.since]

ParentIsKept(j, new) == [session EXCEPT ![new] = NewSession(j)]   \* mutant
RowsAfter(j, new) ==
  [s \in Sessions |-> IF s = new THEN NewSession(j)
                      ELSE IF s = j.parent THEN Revoked(session[s]) ELSE session[s]]

\* Insert the session, and the user of a first sign-in, unless another sign-in
\* has just inserted it (the unique constraint on phone and role): the request
\* then fails, and its code is spent.
CommitSession(c) ==
  LET j == job[c] IN
  /\ Does(c, "signIn") \/ Does(c, "refresh")
  /\ IF j.known \/ account[j.user] = "absent"
       THEN /\ \E new \in {s \in Sessions : ~ Exists(s)} : session' = RowsAfter(j, new)
            /\ account' = [account EXCEPT ![j.user] = IF j.known THEN @ ELSE "active"]
       ELSE UNCHANGED <<account, session>>
  /\ Starts(c, Nothing)
  /\ UNCHANGED <<otpVars, logouts, raced>>

\* Refresh tokens expire.
ExpireSession(s) ==
  /\ IsLive(s)
  /\ session' = [session EXCEPT ![s] = Revoked(@)]
  /\ UNCHANGED <<otpVars, account, job, logouts, raced>>

-----------------------------------------------------------------------------
(***************************************************************************)
(* Revoking sessions: read those that are live, write revoked_at at the    *)
(* commit.  A logout writes that of its own token; the others all.         *)
(***************************************************************************)
\* Who holds an access token may call as long as the account is active.
MayCall(u) == account[u] = "active"

SomeoneAdministers == \E a \in Admins : MayCall(a)

ReadsSessions(c, u, targets, all) ==
  /\ Idle(c)
  /\ all => logouts[u] < MaxLogouts
  /\ Starts(c, [op |-> "revoke", user |-> u, targets |-> targets, all |-> all])
  /\ UNCHANGED <<otpVars, account, session, logouts, raced>>

Logout(c, s) ==
  /\ IsLive(s)
  /\ MayCall(session[s].user)
  /\ ReadsSessions(c, session[s].user, {s}, FALSE)

LogoutAll(c, u) ==
  /\ MayCall(u)
  /\ ReadsSessions(c, u, LiveOf(u), TRUE)

RevokeUserSessions(c, u) ==
  /\ SomeoneAdministers
  /\ account[u] # "absent"
  /\ ReadsSessions(c, u, LiveOf(u), TRUE)

\* The password an administrator signs in with is the one of the latest reset
\* or change: the commit writes it with the revocations.
ResetAdminPassword(c, a) == account[a] # "absent" /\ RevokeUserSessions(c, a)
ChangeAdminPassword(c, a) == LogoutAll(c, a)

RevokesNothing(j) == [s \in Sessions |-> session[s]]   \* mutant
WithoutTargets(j) ==
  [s \in Sessions |-> IF s \in j.targets THEN Revoked(session[s]) ELSE session[s]]

CommitRevocation(c) ==
  LET j == job[c] IN
  /\ Does(c, "revoke")
  /\ session' = WithoutTargets(j)
  /\ logouts' = [logouts EXCEPT ![j.user] = IF j.all THEN @ + 1 ELSE @]
  /\ Starts(c, Nothing)
  /\ UNCHANGED <<otpVars, account, raced>>

-----------------------------------------------------------------------------
(***************************************************************************)
(* Activation.                                                             *)
(***************************************************************************)
\* Administrators set is_active of anyone through the page of users.
UpdateUser(u) ==
  /\ SomeoneAdministers
  /\ account[u] # "absent"
  /\ \E state \in {"active", "inactive"} : account' = [account EXCEPT ![u] = state]
  /\ UNCHANGED <<otpVars, session, job, logouts, raced>>

\* The page of administrators refuses the account one is signed in to and the
\* last active one: those that are active are counted with no lock, and is_active
\* is written at the commit, if it is to change.
AdminStatus(c, a) ==
  LET active == {b \in Admins : account[b] = "active"} IN
  /\ Idle(c)
  /\ \/ account[a] = "inactive" /\ active # {}
        /\ Starts(c, [op |-> "status", user |-> a, state |-> "active"])
     \/ account[a] = "active" /\ active \ {a} # {} /\ Cardinality(active) > 1
        /\ Starts(c, [op |-> "status", user |-> a, state |-> "inactive"])
  /\ UNCHANGED <<otpVars, account, session, logouts, raced>>

CommitStatus(c) ==
  /\ Does(c, "status")
  /\ account' = [account EXCEPT ![job[c].user] = job[c].state]
  /\ Starts(c, Nothing)
  /\ UNCHANGED <<otpVars, session, logouts, raced>>

CreateAdmin(a) ==
  /\ SomeoneAdministers
  /\ account[a] = "absent"
  /\ account' = [account EXCEPT ![a] = "active"]
  /\ UNCHANGED <<otpVars, session, job, logouts, raced>>

\* A request rolls back: a crash, a lost connection.
Rollback(c) ==
  /\ job[c] # Nothing
  /\ Starts(c, Nothing)
  /\ UNCHANGED <<otpVars, account, session, logouts, raced>>

-----------------------------------------------------------------------------
\* send_otp refuses an inactive user; resend_otp does not look.
MayAskForCode(k) == account[k] # "inactive"

OneTimePassword(c) ==
  /\ job[c] = Nothing
  /\ \/ \E k \in Keys : \/ MayAskForCode(k) /\ SendOTP(c, k)
                        \/ ResendOTP(c, k) \/ ReadCode(c, k) \/ CheckedByProvider(c, k)
     \/ Commands(c)
  /\ UNCHANGED accountVars

Reading(c) ==
  \/ FindUser(c)
  \/ \E a \in Admins : AdminLogin(c, a) \/ ResetAdminPassword(c, a)
                       \/ ChangeAdminPassword(c, a) \/ AdminStatus(c, a)
  \/ \E s \in Sessions : ReadSession(c, s) \/ Logout(c, s)
  \/ \E u \in Users : LogoutAll(c, u) \/ RevokeUserSessions(c, u)

Committing(c) == CommitSession(c) \/ CommitRevocation(c) \/ CommitStatus(c) \/ Rollback(c)

Next ==
  \/ \E c \in Clients : OneTimePassword(c) \/ Reading(c) \/ Committing(c)
  \/ Expiries /\ UNCHANGED accountVars
  \/ \E s \in Sessions : ExpireSession(s)
  \/ \E u \in Users : UpdateUser(u)
  \/ \E a \in Admins : CreateAdmin(a)

Spec == Init /\ [][Next]_vars

-----------------------------------------------------------------------------
(***************************************************************************)
(* Properties.                                                             *)
(***************************************************************************)
\* docs/BACKEND_HANDBOOK.md:43, "rotating database sessions": a session is
\* followed by one session, and is over by then.  Two follow it only if two
\* refreshes had read it as live before either committed.
RotationIsLinear ==
  \A s, t \in Sessions :
    /\ Exists(s) /\ session[s].parent # Nothing
    => /\ ~ IsLive(session[s].parent)
       /\ (s # t /\ Exists(t) /\ session[t].parent = session[s].parent)
             => session[s].parent \in raced

\* api/v1/endpoints/auth.py:259, "Logged out from all devices", and a password
\* that is reset or changed: no session that descends from an earlier sign-in is
\* live, unless in that descent a request read before a logout and committed
\* after the logout had read.
LogoutAllHolds ==
  \A s \in Sessions :
    IsLive(s) /\ ~ session[s].straddled => session[s].since = logouts[session[s].user]

=============================================================================
