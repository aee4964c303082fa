------------------------------ MODULE Sessions ------------------------------
(***************************************************************************)
(* Accounts and application sessions of the portal: the OIDC callback that *)
(* creates an account on a first login (portal/app/identity/router.py,     *)
(* services.py, sessions.py, compute/services.py), the check every         *)
(* authenticated request makes (dependencies.py) and the logout.           *)
(*                                                                         *)
(* A request is one PostgreSQL transaction at READ COMMITTED (a login may  *)
(* take a second one); a step is one statement of it.  The unique index on *)
(* (issuer, subject) makes an INSERT wait for an uncommitted row of the    *)
(* same identity and raise IntegrityError on a committed one.  A user and  *)
(* a session are named after the login that commits them; the e-mail that  *)
(* each login refreshes is left out, and so is last_seen_at, except that   *)
(* its UPDATE is a step of its own.                                        *)
(***************************************************************************)
EXTENDS Naturals, FiniteSets

CONSTANTS
    Logins,        \* callbacks of the identity provider
    Pages,         \* requests that need a session
    Logouts,       \* POST /auth/logout
    People,        \* external identities: (issuer, subject)
    Faults,        \* subset of {"portal", "keycloak", "plan"}
    Nobody         \* "no login"

Requests == Logins \cup Pages \cup Logouts

ASSUME SessionsAssumption ==
    /\ Logins \cap Pages = {} /\ Logins \cap Logouts = {} /\ Pages \cap Logouts = {}
    /\ Nobody \notin Requests
    /\ Faults \subseteq {"portal", "keycloak", "plan"}

VARIABLES
    at,            \* what the request does next, or how it was answered
    person,        \* Logins: who comes back from the identity provider
    retried,       \* Logins: the second attempt is under way
    account,       \* Logins: the user row found or inserted
    cookie,        \* Pages, Logouts: npd_session
    seen,          \* Pages: the session row as it was read
    identities,    \* committed rows: <<person, user>>
    users, quotas, \* committed rows
    active,        \* users with is_active
    claim,         \* the login with an uncommitted row for this person
    sessions,      \* committed rows: <<session, user>>
    revoked,       \* sessions with revoked_at
    expired,       \* sessions with expires_at in the past
    barred,        \* history: Pages whose session had ended when they came
    loggedOut      \* history: sessions a logout was committed for

reqs  == <<person, retried, account, cookie, seen>>
accts == <<identities, users, quotas, active, claim>>
sess  == <<sessions, revoked, expired>>
hist  == <<barred, loggedOut>>
vars  == <<at, reqs, accts, sess, hist>>

Steps   == {"new", "select", "insert", "plan", "active", "save",
            "session", "user", "check", "touch", "revoke", "redirect"}
Answers == {"ok", "forbidden", "unauthorized", "error", "conflict", "lost"}

TypeOK ==
    /\ at \in [Requests -> Steps \cup Answers]
    /\ person \in [Logins -> People]
    /\ retried \in [Logins -> BOOLEAN]
    /\ account \in [Logins -> Logins \cup {Nobody}]
    /\ cookie \in [Pages \cup Logouts -> Logins \cup {Nobody}]
    /\ seen \in [Pages -> {"valid", "revoked"}]
    /\ identities \subseteq People \X Logins
    /\ users \subseteq Logins /\ quotas \subseteq Logins /\ active \subseteq users
    /\ claim \in [People -> Logins \cup {Nobody}]
    /\ sessions \subseteq Logins \X Logins
    /\ revoked \subseteq Logins /\ expired \subseteq Logins
    /\ barred \subseteq Pages /\ loggedOut \subseteq Logins

\* A fresh database with an active starter plan.
Init ==
    /\ at = [r \in Requests |-> "new"]
    /\ \E p \in People : person = [l \in Logins |-> p]
    /\ retried = [l \in Logins |-> FALSE]
    /\ account = [l \in Logins |-> Nobody]
    /\ cookie = [r \in Pages \cup Logouts |-> Nobody]
    /\ seen = [r \in Pages |-> "valid"]
    /\ identities = {} /\ users = {} /\ quotas = {} /\ active = {}
    /\ claim = [p \in People |-> Nobody]
    /\ sessions = {} /\ revoked = {} /\ expired = {}
    /\ barred = {} /\ loggedOut = {}

-----------------------------------------------------------------------------
(* The end of a transaction, and the OIDC callback *)

Goto(r, step) == at' = [at EXCEPT ![r] = step]

\* ROLLBACK of `async with db.begin()`: an uncommitted identity goes.
Rollback(l) ==
    claim' = [p \in People |-> IF claim[p] = l THEN Nobody ELSE claim[p]]

\* Mutated: the error answer goes out on a transaction left open.
RefuseLeavesOpen(l, answer) ==
    /\ Goto(l, answer)
    /\ UNCHANGED <<reqs, accts, sess, hist>>

Refuse(l, answer) ==
    /\ Goto(l, answer)
    /\ Rollback(l)
    /\ UNCHANGED <<reqs, identities, users, quotas, active, sess, hist>>

\* auth_callback with the identity provider's answer; an address that is not
\* verified is refused.
Callback(l) ==
    /\ at[l] = "new"
    /\ \E p \in People : person' = [person EXCEPT ![l] = p]
    /\ \E verified \in BOOLEAN : Goto(l, IF verified THEN "select" ELSE "forbidden")
    /\ UNCHANGED <<retried, account, cookie, seen, accts, sess, hist>>

\* Mutated: the second attempt does not look for the identity again.
SelectIdentityOnce(l) ==
    /\ at[l] = "select"
    /\ IF (\E u \in users : <<person[l], u>> \in identities) /\ ~retried[l]
       THEN /\ account' = [account EXCEPT ![l] =
                               CHOOSE u \in users : <<person[l], u>> \in identities]
            /\ Goto(l, "active")
       ELSE Goto(l, "insert") /\ UNCHANGED account
    /\ UNCHANGED <<person, retried, cookie, seen, accts, sess, hist>>

SelectIdentity(l) ==
    /\ at[l] = "select"
    /\ \/ \E u \in users :
              /\ <<person[l], u>> \in identities
              /\ account' = [account EXCEPT ![l] = u]
              /\ Goto(l, "active")
       \/ /\ \A u \in users : <<person[l], u>> \notin identities
          /\ Goto(l, "insert")
          /\ UNCHANGED account
    /\ UNCHANGED <<person, retried, cookie, seen, accts, sess, hist>>

\* Mutated: the login goes on with the user it had inserted itself.
InsertIdentityKeepsUser(l) ==
    /\ at[l] = "insert"
    /\ claim[person[l]] = Nobody
    /\ account' = [account EXCEPT ![l] = l]
    /\ IF \E u \in users : <<person[l], u>> \in identities
       THEN Goto(l, "save") /\ UNCHANGED claim
       ELSE claim' = [claim EXCEPT ![person[l]] = l] /\ Goto(l, "plan")
    /\ UNCHANGED <<person, retried, cookie, seen, identities, users, quotas, active,
                   sess, hist>>

\* flush of User, and of ExternalIdentity by the autoflush of the next select.
\* IntegrityError: auth_callback tries once more from the start.
InsertIdentity(l) ==
    /\ at[l] = "insert"
    /\ claim[person[l]] = Nobody
    /\ IF \E u \in users : <<person[l], u>> \in identities
       THEN /\ retried' = [retried EXCEPT ![l] = TRUE]
            /\ Goto(l, IF retried[l] THEN "conflict" ELSE "select")
            /\ UNCHANGED <<account, claim>>
       ELSE /\ claim' = [claim EXCEPT ![person[l]] = l]
            /\ account' = [account EXCEPT ![l] = l]
            /\ Goto(l, "plan")
            /\ UNCHANGED retried
    /\ UNCHANGED <<person, cookie, seen, identities, users, quotas, active,
                   sess, hist>>

\* An operator may have switched the starter plan off, and on again.
StarterPlans == IF "plan" \in Faults THEN BOOLEAN ELSE {TRUE}

\* Mutated: a new account is committed before it has a quota.
AssignStarterQuotaLate(l) ==
    /\ at[l] = "plan"
    /\ \E planActive \in StarterPlans : Goto(l, IF planActive THEN "save" ELSE "error")
    /\ identities' = identities \cup {<<person[l], l>>}
    /\ users' = users \cup {l}
    /\ active' = active \cup {l}
    /\ Rollback(l)
    /\ UNCHANGED <<reqs, quotas, sess, hist>>

\* assign_starter_quota: no plan, no account.
AssignStarterQuota(l) ==
    /\ at[l] = "plan"
    /\ \E planActive \in StarterPlans :
           IF planActive
           THEN Goto(l, "save") /\ UNCHANGED <<reqs, accts, sess, hist>>
           ELSE Refuse(l, "error")

\* An existing user who is inactive gets no session.
CheckUser(l) ==
    /\ at[l] = "active"
    /\ IF account[l] \in active
       THEN Goto(l, "save") /\ UNCHANGED <<reqs, accts, sess, hist>>
       ELSE Refuse(l, "forbidden")

\* COMMIT of _login_and_create_session: session, and account if it is new.
CommitLogin(l) ==
    LET new == IF claim[person[l]] = l THEN {l} ELSE {} IN
    /\ at[l] = "save"
    /\ identities' = identities \cup {<<person[l], u>> : u \in new}
    /\ users' = users \cup new
    /\ active' = active \cup new
    /\ quotas' = quotas \cup new
    /\ sessions' = sessions \cup {<<l, account[l]>>}
    /\ Rollback(l)
    /\ Goto(l, "ok")
    /\ UNCHANGED <<reqs, revoked, expired, hist>>

-----------------------------------------------------------------------------
(* get_current_user *)

Owner(s) == CHOOSE u \in Logins : <<s, u>> \in sessions

HasRow(s) == \E u \in Logins : <<s, u>> \in sessions

Ended(s) == s \in loggedOut \cup expired \/ Owner(s) \notin active

\* A browser sends a request with the cookie of a login that was answered, or
\* with none.
Visit(r) ==
    /\ at[r] = "new"
    /\ \/ Goto(r, "unauthorized") /\ UNCHANGED <<cookie, barred>>
       \/ \E l \in Logins :
             /\ at[l] = "ok"
             /\ cookie' = [cookie EXCEPT ![r] = l]
             /\ barred' = IF Ended(l) THEN barred \cup {r} ELSE barred
             /\ Goto(r, "session")
    /\ UNCHANGED <<person, retried, account, seen, accts, sess, loggedOut>>

\* get_user_by_session_token: the session row, then the user row.
ReadSession(r) ==
    /\ at[r] = "session"
    /\ IF HasRow(cookie[r])
       THEN /\ seen' = [seen EXCEPT ![r] = IF cookie[r] \in revoked THEN "revoked" ELSE "valid"]
            /\ Goto(r, "user")
       ELSE Goto(r, "unauthorized") /\ UNCHANGED seen
    /\ UNCHANGED <<person, retried, account, cookie, accts, sess, hist>>

\* Mutated: is_active is not looked at.
ReadUserOnly(r) ==
    /\ at[r] = "user"
    /\ Goto(r, IF Owner(cookie[r]) \in users THEN "check" ELSE "error")
    /\ UNCHANGED <<reqs, accts, sess, hist>>

\* The user's is_active as read now decides, together with the session row.
ReadUser(r) ==
    /\ at[r] = "user"
    /\ Goto(r, CASE Owner(cookie[r]) \notin users  -> "error"
                 [] Owner(cookie[r]) \in active    -> "check"
                 [] OTHER                          -> "unauthorized")
    /\ UNCHANGED <<reqs, accts, sess, hist>>

\* revoked_at and expires_at, and whether last_seen_at is five minutes old.
CheckSession(r) ==
    /\ at[r] = "check"
    /\ IF seen[r] = "revoked" \/ cookie[r] \in expired
       THEN Goto(r, "unauthorized")
       ELSE \E stale \in BOOLEAN : Goto(r, IF stale THEN "touch" ELSE "ok")
    /\ UNCHANGED <<reqs, accts, sess, hist>>

\* Mutated: the session row is written back as it was read.
TouchWholeRow(r) ==
    /\ at[r] = "touch"
    /\ revoked' = revoked \ {cookie[r]}
    /\ Goto(r, "ok")
    /\ UNCHANGED <<reqs, accts, sessions, expired, hist>>

\* UPDATE of last_seen_at alone, and COMMIT.
Touch(r) ==
    /\ at[r] = "touch"
    /\ Goto(r, "ok")
    /\ UNCHANGED <<reqs, accts, sess, hist>>

-----------------------------------------------------------------------------
(* POST /auth/logout *)

\* verify_csrf: the form's token was made from the cookie's session.
SubmitLogout(r) ==
    /\ at[r] = "new"
    /\ \E l \in Logins, page \in Logins :
          /\ at[l] = "ok" /\ at[page] = "ok"
          /\ cookie' = [cookie EXCEPT ![r] = l]
          /\ Goto(r, IF page = l THEN "session" ELSE "forbidden")
    /\ UNCHANGED <<person, retried, account, seen, accts, sess, hist>>

\* revoke_user_session: nothing to do for a session already revoked.
LookUpRevoked(r) ==
    /\ at[r] = "session"
    /\ Goto(r, IF HasRow(cookie[r]) /\ cookie[r] \notin revoked THEN "revoke" ELSE "redirect")
    /\ UNCHANGED <<reqs, accts, sess, hist>>

Revoke(r) ==
    /\ at[r] = "revoke"
    /\ revoked' = revoked \cup {cookie[r]}
    /\ loggedOut' = loggedOut \cup {cookie[r]}
    /\ Goto(r, "redirect")
    /\ UNCHANGED <<reqs, accts, sessions, expired, barred>>

\* After COMMIT: the end-session address comes from the identity provider.
Redirect(r) ==
    /\ at[r] = "redirect"
    /\ \E up \in {TRUE} \cup (IF "keycloak" \in Faults THEN {FALSE} ELSE {}) :
           Goto(r, IF up THEN "ok" ELSE "error")
    /\ UNCHANGED <<reqs, accts, sess, hist>>

-----------------------------------------------------------------------------
(* Around the portal (external) *)

\* The connection or the portal goes down: the transaction is rolled back.
Lose(r) ==
    /\ "portal" \in Faults
    /\ at[r] \in Steps \ {"new"}
    /\ Goto(r, "lost")
    /\ IF r \in Logins THEN Rollback(r) ELSE UNCHANGED claim
    /\ UNCHANGED <<reqs, identities, users, quotas, active, sess, hist>>

\* An operator deactivates a user.
Deactivate(u) ==
    /\ u \in active
    /\ active' = active \ {u}
    /\ UNCHANGED <<at, reqs, identities, users, quotas, claim, sess, hist>>

\* session_max_age_seconds pass.
Expire(s) ==
    /\ HasRow(s) /\ s \notin expired
    /\ expired' = expired \cup {s}
    /\ UNCHANGED <<at, reqs, accts, sessions, revoked, hist>>

-----------------------------------------------------------------------------
Login(l) ==
    \/ SelectIdentity(l) \/ InsertIdentity(l) \/ AssignStarterQuota(l)
    \/ CheckUser(l) \/ CommitLogin(l)

Page(r) == ReadSession(r) \/ ReadUser(r) \/ CheckSession(r) \/ Touch(r)

Logout(r) == LookUpRevoked(r) \/ Revoke(r) \/ Redirect(r)

Next ==
    \/ \E l \in Logins : Callback(l) \/ Login(l) \/ Deactivate(l) \/ Expire(l)
    \/ \E r \in Pages : Visit(r) \/ Page(r)
    \/ \E r \in Logouts : SubmitLogout(r) \/ Logout(r)
    \/ \E r \in Requests : Lose(r)

Spec == Init /\ [][Next]_vars

\* A request that has begun and has not been answered.
Busy(r) == at[r] \in Steps \ {"new"}

\* What a login's statement can wait for: the same identity, uncommitted.
Waits(l) == at[l] = "insert" /\ claim[person[l]] # Nobody

-----------------------------------------------------------------------------
(* Properties *)

\* First logins of one person race: whatever order they commit in, the person
\* has one account, committed with its identity and quota together, and each
\* session is of the account of the person who logged in, also when another
\* login created that account (get_or_create_user, assign_starter_quota and
\* create_application_session share a transaction).
OneWholeAccount ==
    /\ \A i, j \in identities : i[1] = j[1] => i = j
    /\ users = quotas
    /\ users = {i[2] : i \in identities}
    /\ \A s \in sessions : s[2] \in users /\ <<person[s[1]], s[2]>> \in identities

\* One retry is enough: the second attempt of auth_callback finds the identity
\* that made the first one fail, so no login is answered with IntegrityError.
RetryIsEnough == \A l \in Logins : at[l] # "conflict"

\* get_current_user accepts no request that came after its session was logged
\* out or expired or its user deactivated, whatever runs beside it.
EndedIsRefused == \A r \in barred : at[r] # "ok"

\* Logins that wait for an uncommitted identity never wait in a circle.
NoCircle == (\E l \in Logins : Busy(l)) => \E l \in Logins : Busy(l) /\ ~Waits(l)

\* revoked_at is never cleared, also not by a request that read the session
\* before the logout and writes last_seen_at after it.
RevokedStays == [][revoked \subseteq revoked' /\ loggedOut \subseteq revoked]_vars
=============================================================================
