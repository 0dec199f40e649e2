-------------------------------- MODULE Access ---------------------------------
(***************************************************************************)
(* Users, sessions and API tokens (auth/sessions.go and the setup, login,  *)
(* password, user and token handlers of api/). A request is authenticated  *)
(* once, by the middleware, and then runs statement by statement against   *)
(* the database, without a transaction and interleaved with other          *)
(* requests; the client may hang up, which cancels the statements left.    *)
(*                                                                         *)
(* A password is its version. Of the roles only "may write users" matters  *)
(* here; user names are taken to be distinct. Expiry is in Sessions.tla.   *)
(* The audit log and last_login_at are left out: nothing reads them back.  *)
(***************************************************************************)
EXTENDS Naturals, FiniteSets

CONSTANTS
    Users,
    Reqs,         \* HTTP requests
    MaxRequests,  \* bound: requests, logouts and token changes
    MaxSessions,  \* bound: sessions ever opened
    MaxPw,        \* bound: password versions
    MaxHangups    \* bound: clients that hang up

ASSUME AccessAssumption ==
    /\ IsFiniteSet(Users) /\ IsFiniteSet(Reqs)
    /\ MaxRequests \in Nat /\ MaxHangups \in Nat
    /\ MaxSessions \in Nat \ {0} /\ MaxPw \in Nat \ {0}

(* PATCH /users/{id}: each field may be absent; one of them, or all.        *)
Changes ==
    {ch \in [role : {"keep", "admin", "viewer"}, off : {"keep", "yes", "no"}, reset : BOOLEAN] :
        \/ Cardinality({ch.role, ch.off} \ {"keep"}) + (IF ch.reset THEN 1 ELSE 0) = 1
        \/ ch = [role |-> "viewer", off |-> "yes", reset |-> TRUE]}
NoChange == [role |-> "keep", off |-> "keep", reset |-> FALSE]

VARIABLES
    user,        \* users: [there, admin, off, pw]
    sessions,    \* sessions: [id, user, pw], pw the version it was opened with
    opened,      \* sessions ever opened
    tokens,      \* users that have an API token
    req,         \* per request: [op, pc, s, target, change, pw]
    setups,      \* history: accounts made by POST /setup
    races,       \* history: the races there have been, see below
    excused,     \* history: a client hung up, or a password was changed with a token
    arrived,     \* requests so far
    hangups      \* hang-ups so far

accessVars == <<user, sessions, opened, tokens, req, setups, races, excused, arrived, hangups>>

NoUser == [there |-> FALSE, admin |-> FALSE, off |-> FALSE, pw |-> 0]
NoReq == [op |-> "none", pc |-> "idle", s |-> 0, target |-> "nobody",
          change |-> NoChange, pw |-> 0]

Open(r) == req[r].pc # "idle"
Fresh(u) == user[u].pw = 0  \* ids are not used again: a deleted user keeps its version
There == {u \in Users : user[u].there}
Admins == {u \in There : user[u].admin /\ ~user[u].off}
SessionsOf(u) == {s \in sessions : s.user = u}

(* The three races of this code: two requests that each may take an        *)
(* administrator away overlap ("admins"), a second setup is let in before  *)
(* the first has inserted ("setups"), and sessions are deleted while a     *)
(* login has verified the old password and not yet inserted its session    *)
(* ("login").                                                              *)
Removing(x) ==
    \/ x.op = "delete"
    \/ x.op = "update" /\ (x.change.role = "viewer" \/ x.change.off = "yes")
LoginRace(u) == {"login" : r \in {r \in Reqs : req[r].pc = "session" /\ req[r].target = u}}

Arrives == arrived < MaxRequests /\ arrived' = arrived + 1
Arrive(r, x) ==
    /\ req[r].pc = "idle" /\ Arrives
    /\ req' = [req EXCEPT ![r] = x]
    /\ races' = races \cup {"admins" : o \in {o \in Reqs : Open(o) /\ Removing(req[o]) /\ Removing(x)}}
    /\ UNCHANGED <<user, sessions, opened, tokens, setups, excused, hangups>>
GoTo(r, pc) == req' = [req EXCEPT ![r] = IF pc = "done" THEN NoReq ELSE [@ EXCEPT !.pc = pc]]
History == <<races, arrived, hangups>>

----------------------------------------------------------------------------
(* updateUser's statements: role, disabled, password.                      *)
AfterDisabled(ch) == IF ch.reset THEN "password" ELSE "done"
AfterRole(ch) == IF ch.off # "keep" THEN "off" ELSE AfterDisabled(ch)
FirstField(ch) == IF ch.role # "keep" THEN "role" ELSE AfterRole(ch)

(* Middleware: the session or token of a user who is not disabled.         *)
Authenticated(u, s) ==
    /\ u \in There /\ ~user[u].off
    /\ \/ s = 0 /\ u \in tokens
       \/ \E x \in sessions : x.id = s /\ x.user = u

ArrivePassword(r, u, s) ==
    /\ Authenticated(u, s)
    /\ Arrive(r, [NoReq EXCEPT !.op = "password", !.pc = "current", !.target = u, !.s = s])

(* require(PermUsersWrite); nobody deletes himself.                        *)
UserOpPC(x) == CASE x.op = "create" -> "insert" [] Removing(x) -> "isAdmin" [] OTHER -> FirstField(x.change)
ArriveUserOp(r, op, target, change) ==
    /\ \E u \in Users, s \in 0 .. opened :
         Authenticated(u, s) /\ user[u].admin /\ (op = "delete" => u # target)
    /\ LET x == [NoReq EXCEPT !.op = op, !.target = target, !.change = change]
       IN  Arrive(r, [x EXCEPT !.pc = UserOpPC(x)])

ArriveLogin(r, u) == Arrive(r, [NoReq EXCEPT !.op = "login", !.pc = "verify", !.target = u])
ArriveSetup(r, u) == Arrive(r, [NoReq EXCEPT !.op = "setup", !.pc = "pending", !.target = u])

----------------------------------------------------------------------------
(* login: read the row, verify, open a session, which the foreign key      *)
(* refuses for a user that is gone.                                        *)

Verify(r) ==
    /\ req[r].pc = "verify"
    /\ LET u == req[r].target IN
       \/ u \in There /\ ~user[u].off
          /\ req' = [req EXCEPT ![r].pc = "session", ![r].pw = user[u].pw]
       \/ GoTo(r, "done")
    /\ UNCHANGED <<user, sessions, opened, tokens, setups, excused, History>>

(* Mutant: no foreign key.                                                 *)
CreateSessionUnchecked(r) ==
    /\ req[r].pc = "session" /\ opened < MaxSessions
    /\ sessions' = sessions \cup {[id |-> opened + 1, user |-> req[r].target, pw |-> req[r].pw]}
    /\ opened' = opened + 1
    /\ GoTo(r, "done")
    /\ UNCHANGED <<user, tokens, setups, excused, History>>
CreateSession(r) ==
    /\ req[r].pc = "session" /\ opened < MaxSessions
    /\ LET u == req[r].target IN
       sessions' = IF u \in There
                   THEN sessions \cup {[id |-> opened + 1, user |-> u, pw |-> req[r].pw]}
                   ELSE sessions
    /\ opened' = opened + 1
    /\ GoTo(r, "done")
    /\ UNCHANGED <<user, tokens, setups, excused, History>>

(* setup: behind requireSetupPending; then it is an insert like another.   *)
(* Mutant: not behind it.                                                  *)
SetupUnguarded(r) ==
    /\ req[r].pc = "pending"
    /\ GoTo(r, "admin")
    /\ UNCHANGED <<user, sessions, opened, tokens, setups, excused, History>>
SetupPending(r) ==
    /\ req[r].pc = "pending"
    /\ GoTo(r, IF There = {} THEN "admin" ELSE "done")
    /\ races' = races \cup {"setups" : o \in {o \in Reqs : There = {} /\ req[o].pc = "admin"}}
    /\ UNCHANGED <<user, sessions, opened, tokens, setups, excused, arrived, hangups>>

SetupInsert(r) ==
    /\ req[r].pc = "admin"
    /\ LET u == req[r].target IN
       IF ~Fresh(u) THEN GoTo(r, "done") /\ UNCHANGED <<user, setups>>
       ELSE /\ user' = [user EXCEPT ![u] = [there |-> TRUE, admin |-> TRUE, off |-> FALSE, pw |-> 1]]
            /\ setups' = setups + 1
            /\ req' = [req EXCEPT ![r].pc = "session", ![r].pw = 1]
    /\ UNCHANGED <<sessions, opened, tokens, excused, History>>

(* logout (with or without a session), createToken, deleteToken: one       *)
(* statement.                                                              *)
Logout(s) ==
    /\ s \in sessions /\ sessions' = sessions \ {s} /\ Arrives
    /\ UNCHANGED <<user, opened, tokens, req, setups, races, excused, hangups>>
SwitchToken(u, s) ==
    /\ Authenticated(u, s) /\ Arrives
    /\ tokens' = IF u \in tokens THEN tokens \ {u} ELSE tokens \cup {u}
    /\ UNCHANGED <<user, sessions, opened, req, setups, races, excused, hangups>>

----------------------------------------------------------------------------
(* changePassword: verify the current one, update, end the other sessions. *)

CheckCurrent(r) ==
    /\ req[r].pc = "current"
    /\ \/ GoTo(r, IF req[r].target \in There THEN "newHash" ELSE "done")
       \/ GoTo(r, "done")
    /\ UNCHANGED <<user, sessions, opened, tokens, setups, excused, History>>

NewHash(r) ==
    /\ req[r].pc = "newHash" /\ user[req[r].target].pw < MaxPw
    /\ LET u == req[r].target IN
       /\ user' = IF u \in There THEN [user EXCEPT ![u].pw = @ + 1] ELSE user
       /\ excused' = (excused \/ req[r].s = 0)
    /\ GoTo(r, IF req[r].s = 0 THEN "done" ELSE "others")
    /\ UNCHANGED <<sessions, opened, tokens, setups, History>>

(* The session the change was made in goes on: it has seen the new one.    *)
(* Mutant: the others stay.                                                *)
KeepOtherSessions(r) ==
    /\ req[r].pc = "others"
    /\ LET kept == {s \in SessionsOf(req[r].target) : s.id = req[r].s} IN
       sessions' = (sessions \ kept) \cup {[s EXCEPT !.pw = user[req[r].target].pw] : s \in kept}
    /\ GoTo(r, "done")
    /\ UNCHANGED <<user, opened, tokens, setups, excused, History>>
DestroyOtherSessions(r) ==
    /\ req[r].pc = "others"
    /\ LET mine == SessionsOf(req[r].target) IN
       sessions' = (sessions \ mine)
                   \cup {[s EXCEPT !.pw = user[req[r].target].pw] : s \in {x \in mine : x.id = req[r].s}}
    /\ races' = races \cup LoginRace(req[r].target)
    /\ GoTo(r, "done")
    /\ UNCHANGED <<user, opened, tokens, setups, excused, arrived, hangups>>

----------------------------------------------------------------------------
(* The user handlers of an administrator.                                  *)

CreateUser(r, admin) ==
    /\ req[r].pc = "insert"
    /\ LET u == req[r].target IN
       user' = IF ~Fresh(u) THEN user
               ELSE [user EXCEPT ![u] = [there |-> TRUE, admin |-> admin, off |-> FALSE, pw |-> 1]]
    /\ GoTo(r, "done")
    /\ UNCHANGED <<sessions, opened, tokens, setups, excused, History>>

(* isAdmin.                                                                *)
Guarded(x) == IF x.op = "delete" THEN "remove" ELSE FirstField(x.change)
IsAdmin(r) ==
    /\ req[r].pc = "isAdmin"
    /\ GoTo(r, IF req[r].target \notin There THEN "done"
               ELSE IF user[req[r].target].admin THEN "count"
               ELSE Guarded(req[r]))
    /\ UNCHANGED <<user, sessions, opened, tokens, setups, excused, History>>

(* adminCount. Mutant: off by one.                                         *)
AdminCountTooLow(r) ==
    /\ req[r].pc = "count"
    /\ GoTo(r, IF Cardinality(Admins) < 1 THEN "done"
               ELSE Guarded(req[r]))
    /\ UNCHANGED <<user, sessions, opened, tokens, setups, excused, History>>
AdminCount(r) ==
    /\ req[r].pc = "count"
    /\ GoTo(r, IF Cardinality(Admins) <= 1 THEN "done"
               ELSE Guarded(req[r]))
    /\ UNCHANGED <<user, sessions, opened, tokens, setups, excused, History>>

(* DELETE cascades to sessions and tokens.                                 *)
DeleteUser(r) ==
    /\ req[r].pc = "remove"
    /\ LET u == req[r].target IN
       /\ user' = [user EXCEPT ![u] = [NoUser EXCEPT !.pw = user[u].pw]]
       /\ sessions' = sessions \ SessionsOf(u) /\ tokens' = tokens \ {u}
    /\ GoTo(r, "done")
    /\ UNCHANGED <<opened, setups, excused, History>>

(* An UPDATE of a row that is gone changes nothing.                        *)
Updated(u, row) == user' = IF u \in There THEN [user EXCEPT ![u] = row] ELSE user

UpdateRole(r) ==
    /\ req[r].pc = "role"
    /\ LET u == req[r].target  ch == req[r].change IN
       /\ Updated(u, [user[u] EXCEPT !.admin = ch.role = "admin"])
       /\ GoTo(r, AfterRole(ch))
    /\ UNCHANGED <<sessions, opened, tokens, setups, excused, History>>

UpdateDisabled(r) ==
    /\ req[r].pc = "off"
    /\ LET u == req[r].target  ch == req[r].change IN
       /\ Updated(u, [user[u] EXCEPT !.off = ch.off = "yes"])
       /\ GoTo(r, IF ch.off = "yes" THEN "kill" ELSE AfterDisabled(ch))
    /\ UNCHANGED <<sessions, opened, tokens, setups, excused, History>>

(* DELETE FROM sessions after a disable. Mutant: not done.                 *)
KillNothing(r) ==
    /\ req[r].pc = "kill"
    /\ GoTo(r, AfterDisabled(req[r].change))
    /\ UNCHANGED <<user, sessions, opened, tokens, setups, excused, History>>
KillSessions(r) ==
    /\ req[r].pc = "kill"
    /\ sessions' = sessions \ SessionsOf(req[r].target)
    /\ races' = races \cup LoginRace(req[r].target)
    /\ GoTo(r, AfterDisabled(req[r].change))
    /\ UNCHANGED <<user, opened, tokens, setups, excused, arrived, hangups>>

(* The administrator's reset, and its own DELETE FROM sessions.            *)
ResetPassword(r) ==
    /\ req[r].pc = "password"
    /\ LET u == req[r].target IN
       user[u].pw < MaxPw /\ Updated(u, [user[u] EXCEPT !.pw = @ + 1])
    /\ GoTo(r, "killAll")
    /\ UNCHANGED <<sessions, opened, tokens, setups, excused, History>>
KillAfterReset(r) ==
    /\ req[r].pc = "killAll"
    /\ sessions' = sessions \ SessionsOf(req[r].target)
    /\ races' = races \cup LoginRace(req[r].target)
    /\ GoTo(r, "done")
    /\ UNCHANGED <<user, opened, tokens, setups, excused, arrived, hangups>>

(* The client hangs up: the statements that are left fail.                 *)
HangUp(r) ==
    /\ Open(r) /\ hangups < MaxHangups
    /\ hangups' = hangups + 1 /\ excused' = TRUE
    /\ GoTo(r, "done")
    /\ UNCHANGED <<user, sessions, opened, tokens, setups, races, arrived>>

----------------------------------------------------------------------------
(* A fresh instance, or one that is set up: an administrator with a        *)
(* session and other users.                                                *)
AccessInit ==
    /\ \/ user = [u \in Users |-> NoUser] /\ sessions = {} /\ opened = 0 /\ setups = 0
       \/ /\ setups = 1 /\ opened = 1
          /\ user \in [Users -> [there : {TRUE}, admin : BOOLEAN, off : BOOLEAN, pw : {1}]]
          /\ \E u \in Admins : sessions = {[id |-> 1, user |-> u, pw |-> 1]}
    /\ tokens = {} /\ req = [r \in Reqs |-> NoReq]
    /\ races = {} /\ excused = FALSE /\ arrived = 0 /\ hangups = 0

ReqStep(r) ==
    \/ Verify(r) \/ CreateSession(r) \/ SetupPending(r) \/ SetupInsert(r)
    \/ CheckCurrent(r) \/ NewHash(r) \/ DestroyOtherSessions(r)
    \/ \E admin \in BOOLEAN : CreateUser(r, admin)
    \/ IsAdmin(r) \/ AdminCount(r) \/ DeleteUser(r)
    \/ UpdateRole(r) \/ UpdateDisabled(r) \/ KillSessions(r) \/ ResetPassword(r) \/ KillAfterReset(r)

AccessNext ==
    \/ \E r \in Reqs, u \in Users :
         \/ ArriveLogin(r, u) \/ ArriveSetup(r, u)
         \/ \E s \in 0 .. opened : ArrivePassword(r, u, s)
         \/ \E op \in {"create", "delete"} : ArriveUserOp(r, op, u, NoChange)
         \/ \E ch \in Changes : ArriveUserOp(r, "update", u, ch)
    \/ \E r \in Reqs : ReqStep(r) \/ HangUp(r)
    \/ \E s \in sessions : Logout(s)
    \/ \E u \in Users, s \in 0 .. opened : SwitchToken(u, s)

AccessSpec == AccessInit /\ [][AccessNext]_accessVars

----------------------------------------------------------------------------
(* Properties.                                                             *)

(* Types; a session or a token belongs to a user that is there.            *)
AccessTypeOK ==
    /\ user \in [Users -> [there : BOOLEAN, admin : BOOLEAN, off : BOOLEAN, pw : 0 .. MaxPw]]
    /\ opened \in 0 .. MaxSessions /\ arrived \in 0 .. MaxRequests /\ hangups \in 0 .. MaxHangups
    /\ tokens \subseteq There
    /\ sessions \subseteq [id : 1 .. opened, user : There, pw : 1 .. MaxPw]
    /\ races \subseteq {"admins", "setups", "login"} /\ excused \in BOOLEAN
    /\ \A r \in Reqs : /\ req[r].change \in Changes \cup {NoChange}
                       /\ req[r].s \in 0 .. opened /\ req[r].pw \in 0 .. MaxPw

(* users_handlers.go:161 "cannot demote or disable the last admin": once   *)
(* set up, the instance has an administrator who can log in, whatever else *)
(* runs, unless two requests that may take one away overlap.               *)
AccessAdminRemains == setups > 0 /\ "admins" \notin races => Admins # {}

(* docs/04-auth-rbac.md:84: after the setup it is locked for ever.         *)
AccessOneSetup == races \cap {"admins", "setups"} = {} => setups <= 1

(* auth_handlers.go:137 "Keep current session, kill the rest" and the      *)
(* reset by an administrator: when no request is half way, every session   *)
(* was opened with, or has seen, the password its user has now.            *)
Settled == \A r \in Reqs : ~Open(r)
AccessSessionsCurrent ==
    Settled /\ ~excused /\ "login" \notin races
        => \A s \in sessions : s.pw = user[s.user].pw

(* users_handlers.go:203 "Kill sessions on disable": a disabled user has   *)
(* no session left that would work again when the account is enabled.      *)
AccessDisabledShut ==
    Settled /\ ~excused /\ "login" \notin races
        => \A s \in sessions : ~user[s.user].off

(* Accounts stay usable and closed to whom they should be closed: there is *)
(* one setup and an administrator from then on, and sessions end with the  *)
(* password or the account they were opened for.                           *)
AccessSafe ==
    /\ AccessTypeOK /\ AccessAdminRemains /\ AccessOneSetup
    /\ AccessSessionsCurrent /\ AccessDisabledShut
===============================================================================
