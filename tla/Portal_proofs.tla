--------------------------- MODULE Portal_proofs ---------------------------
(***************************************************************************)
(* Theorems about Portal for any number of requests, people, names and     *)
(* keys, and every fault: accounts and sessions (first, as invariants of   *)
(* Sessions alone: every step of the portal is one of Sessions or leaves   *)
(* its variables alone), the keys, and what the two have to do with each   *)
(* other.                                                                  *)
(***************************************************************************)
EXTENDS Portal, TLAPS

-----------------------------------------------------------------------------
(* Accounts and sessions *)

\* A login with an uncommitted account is about to commit it, and the person
\* has no other account.
ClaimInv ==
    \A p \in People : \A l \in Logins : claim[p] = l =>
        /\ person[l] = p
        /\ account[l] = l
        /\ at[l] \in {"plan", "save"}
        /\ \A u \in Logins : <<p, u>> \notin identities

\* The account a login goes on with is committed for its person, or its own.
LoginInv ==
    \A l \in Logins :
        /\ at[l] = "plan" => claim[person[l]] = l
        /\ at[l] = "active" => <<person[l], account[l]>> \in identities
        /\ at[l] = "save" =>
               claim[person[l]] = l \/ <<person[l], account[l]>> \in identities

\* A second attempt finds the identity that made the first one fail.
RetryInv ==
    \A l \in Logins :
        /\ at[l] # "conflict"
        /\ retried[l] => /\ at[l] \notin {"new", "insert"}
                         /\ \E u \in users : <<person[l], u>> \in identities

\* Answered logins have their session, and only they: a session, a user and
\* an account never change their names.
SessionRows ==
    \A l \in Logins :
        /\ at[l] = "ok" => account[l] \in Logins
        /\ \A u \in Logins : <<l, u>> \in sessions <=> at[l] = "ok" /\ u = account[l]

UsersAnswered == \A u \in users : at[u] = "ok"

AccountInv == ClaimInv /\ LoginInv /\ SessionRows /\ UsersAnswered /\ OneWholeAccount

Past(r, step) ==
    step \in {"session", "user", "check", "touch", "revoke"} \/ (r \in Pages /\ step = "ok")

\* A request past the cookie check has the cookie of an answered login.
CookieInv ==
    \A r \in Pages \cup Logouts :
        Past(r, at[r]) => cookie[r] \in Logins /\ at[cookie[r]] = "ok"

\* What still refuses a request whose session had ended when it came.
BarredInv ==
    \A r \in barred :
        /\ at[r] \notin {"new", "touch", "ok"}
        /\ at[r] = "session" => cookie[r] \in revoked \cup expired \/ account[cookie[r]] \notin active
        /\ at[r] = "user" =>
               seen[r] = "revoked" \/ cookie[r] \in expired \/ account[cookie[r]] \notin active
        /\ at[r] = "check" => seen[r] = "revoked" \/ cookie[r] \in expired

EndInv == CookieInv /\ BarredInv /\ loggedOut \subseteq revoked

IInv == TypeOK /\ AccountInv /\ EndInv /\ RetryInv

-----------------------------------------------------------------------------
LEMMA InitInv == Init => IInv
<1> SUFFICES ASSUME Init PROVE IInv
  OBVIOUS
<1> USE SessionsAssumption DEF Init
<1>1. TypeOK
  BY DEF TypeOK, Requests, Steps
<1>2. AccountInv
  BY DEF AccountInv, ClaimInv, LoginInv, SessionRows, UsersAnswered, OneWholeAccount, Requests
<1>3. EndInv
  BY DEF EndInv, CookieInv, BarredInv, Past, Requests
<1>4. RetryInv
  BY DEF RetryInv, Requests
<1> QED  BY <1>1, <1>2, <1>3, <1>4 DEF IInv

LEMMA TypeKept == IInv /\ [Next]_vars => TypeOK'
<1> SUFFICES ASSUME IInv, [Next]_vars PROVE TypeOK'
  OBVIOUS
<1>0. TypeOK /\ AccountInv /\ CookieInv
  BY DEF IInv, EndInv
<1> USE SessionsAssumption, <1>0 DEF TypeOK, Goto, reqs, accts, sess, hist, Requests, Steps, Answers
<1>1. ASSUME NEW l \in Logins, Callback(l) PROVE TypeOK'
  BY <1>1 DEF Callback
<1>2. ASSUME NEW l \in Logins, SelectIdentity(l) PROVE TypeOK'
  BY <1>2 DEF SelectIdentity
<1>3. ASSUME NEW l \in Logins, InsertIdentity(l) PROVE TypeOK'
  <2>1. CASE \E u \in users : <<person[l], u>> \in identities
    <3>1. UNCHANGED <<person, account, cookie, seen, accts, sess, hist>>
      BY <1>3, <2>1 DEF InsertIdentity
    <3>2. retried' = [retried EXCEPT ![l] = TRUE]
      BY <1>3, <2>1 DEF InsertIdentity
    <3>3. \E step \in {"conflict", "select"} : at' = [at EXCEPT ![l] = step]
      BY <1>3, <2>1 DEF InsertIdentity
    <3> QED  BY <3>1, <3>2, <3>3
  <2>2. CASE ~ \E u \in users : <<person[l], u>> \in identities
    <3>1. UNCHANGED <<person, retried, cookie, seen, identities, users, quotas, active, sess, hist>>
      BY <1>3, <2>2 DEF InsertIdentity
    <3>2. /\ at' = [at EXCEPT ![l] = "plan"]
          /\ account' = [account EXCEPT ![l] = l]
          /\ claim' = [claim EXCEPT ![person[l]] = l]
      BY <1>3, <2>2 DEF InsertIdentity
    <3> QED  BY <3>1, <3>2
  <2> QED  BY <2>1, <2>2
<1>4. ASSUME NEW l \in Logins, AssignStarterQuota(l) PROVE TypeOK'
  BY <1>4 DEF AssignStarterQuota, Refuse, Rollback
<1>5. ASSUME NEW l \in Logins, CheckUser(l) PROVE TypeOK'
  BY <1>5 DEF CheckUser, Refuse, Rollback
<1>6. ASSUME NEW l \in Logins, CommitLogin(l) PROVE TypeOK'
  <2>1. account[l] \in Logins
    <3>1. CASE claim[person[l]] = l
      BY <3>1 DEF AccountInv, ClaimInv
    <3>2. CASE <<person[l], account[l]>> \in identities
      BY <3>2
    <3> QED  BY <1>6, <3>1, <3>2 DEF CommitLogin, AccountInv, LoginInv
  <2>2. users' \subseteq Logins /\ quotas' \subseteq Logins /\ active' \subseteq users'
    BY <1>6 DEF CommitLogin
  <2>3. identities' \subseteq People \X Logins /\ sessions' \subseteq Logins \X Logins
    BY <1>6, <2>1 DEF CommitLogin
  <2> QED  BY <1>6, <2>2, <2>3 DEF CommitLogin, Rollback
<1>7. ASSUME NEW r \in Pages, Visit(r) PROVE TypeOK'
  BY <1>7 DEF Visit
<1>8. ASSUME NEW r \in Pages, ReadSession(r) PROVE TypeOK'
  BY <1>8 DEF ReadSession
<1>9. ASSUME NEW r \in Pages, ReadUser(r) PROVE TypeOK'
  BY <1>9 DEF ReadUser
<1>10. ASSUME NEW r \in Pages, CheckSession(r) PROVE TypeOK'
  BY <1>10 DEF CheckSession
<1>11. ASSUME NEW r \in Pages, Touch(r) PROVE TypeOK'
  BY <1>11 DEF Touch
<1>12. ASSUME NEW r \in Logouts, SubmitLogout(r) PROVE TypeOK'
  BY <1>12 DEF SubmitLogout
<1>13. ASSUME NEW r \in Logouts, LookUpRevoked(r) PROVE TypeOK'
  BY <1>13 DEF LookUpRevoked
<1>14. ASSUME NEW r \in Logouts, Revoke(r) PROVE TypeOK'
  <2>1. cookie[r] \in Logins
    BY <1>14 DEF Revoke, CookieInv, Past
  <2> QED  BY <1>14, <2>1 DEF Revoke
<1>15. ASSUME NEW r \in Logouts, Redirect(r) PROVE TypeOK'
  BY <1>15 DEF Redirect
<1>16. ASSUME NEW r \in Requests, Lose(r) PROVE TypeOK'
  BY <1>16 DEF Lose, Rollback
<1>17. ASSUME NEW u \in Logins, Deactivate(u) PROVE TypeOK'
  BY <1>17 DEF Deactivate
<1>18. ASSUME NEW l \in Logins, Expire(l) PROVE TypeOK'
  BY <1>18 DEF Expire
<1>19. CASE UNCHANGED vars
  BY <1>19 DEF vars
<1> QED
  BY <1>1, <1>2, <1>3, <1>4, <1>5, <1>6, <1>7, <1>8, <1>9, <1>10, <1>11, <1>12, <1>13, <1>14, <1>15, <1>16, <1>17, <1>18, <1>19 DEF Next, Login, Page, Logout

-----------------------------------------------------------------------------
\* Steps that leave identities, accounts and logins alone.
LEMMA AccountsKept ==
    ASSUME TypeOK, AccountInv,
           UNCHANGED <<person, account, identities, users, quotas, claim, sessions>>,
           \A l \in Logins : at'[l] = at[l]
    PROVE  AccountInv'
<1> USE DEF AccountInv
<1>1. ClaimInv' /\ LoginInv'
  BY DEF TypeOK, ClaimInv, LoginInv
<1>2. SessionRows' /\ UsersAnswered'
  BY DEF TypeOK, SessionRows, UsersAnswered
<1>3. OneWholeAccount'
  BY DEF OneWholeAccount
<1> QED  BY <1>1, <1>2, <1>3

\* The end of a login without a commit.
LEMMA RefuseKeeps ==
    ASSUME TypeOK, AccountInv, NEW l \in Logins, at[l] # "ok",
           UNCHANGED <<person, account, identities, users, quotas, sessions>>,
           NEW answer \in Answers \ {"ok"}, Goto(l, answer), Rollback(l)
    PROVE  AccountInv'
<1> USE SessionsAssumption DEF TypeOK, AccountInv, Goto, Requests, Answers
<1>1. ClaimInv'
  BY DEF ClaimInv, Rollback
<1>2. LoginInv'
  <2> SUFFICES ASSUME NEW m \in Logins
               PROVE /\ at'[m] = "plan" => claim'[person[m]] = m
                     /\ at'[m] = "active" => <<person[m], account[m]>> \in identities
                     /\ at'[m] = "save" => claim'[person[m]] = m \/ <<person[m], account[m]>> \in identities
    BY DEF LoginInv
  <2> QED  BY DEF LoginInv, Rollback
<1>3. SessionRows' /\ UsersAnswered'
  BY DEF SessionRows, UsersAnswered
<1>4. OneWholeAccount'
  BY DEF OneWholeAccount
<1> QED  BY <1>1, <1>2, <1>3, <1>4

LEMMA AccountKept == IInv /\ [Next]_vars => AccountInv'
<1> SUFFICES ASSUME IInv, [Next]_vars PROVE AccountInv'
  OBVIOUS
<1>0. TypeOK /\ AccountInv
  BY DEF IInv
<1> USE SessionsAssumption, <1>0 DEF Goto, reqs, accts, sess, hist, Requests, Steps, Answers
<1>1. ASSUME NEW l \in Logins, Callback(l) PROVE AccountInv'
  <2>1. ClaimInv'
    BY <1>1 DEF Callback, TypeOK, AccountInv, ClaimInv
  <2>2. LoginInv'
    BY <1>1 DEF Callback, TypeOK, AccountInv, LoginInv, ClaimInv
  <2>3. SessionRows' /\ UsersAnswered'
    BY <1>1 DEF Callback, TypeOK, AccountInv, SessionRows, UsersAnswered, ClaimInv, LoginInv
  <2>4. OneWholeAccount'
    <3>1. \A s \in sessions : s[1] # l
      BY <1>1 DEF Callback, TypeOK, AccountInv, SessionRows
    <3>2. \A m \in Logins \ {l} : person'[m] = person[m]
      BY <1>1 DEF Callback, TypeOK
    <3>3. \A s \in sessions : s[1] \in Logins
      BY DEF TypeOK
    <3> QED  BY <1>1, <3>1, <3>2, <3>3 DEF Callback, AccountInv, OneWholeAccount
  <2> QED  BY <2>1, <2>2, <2>3, <2>4 DEF AccountInv
<1>2. ASSUME NEW l \in Logins, SelectIdentity(l) PROVE AccountInv'
  <2>1. PICK w \in Logins \cup {Nobody}, step \in {"active", "insert"} :
            /\ account' = [account EXCEPT ![l] = w]
            /\ at' = [at EXCEPT ![l] = step]
            /\ step = "active" => <<person[l], w>> \in identities
    <3>1. CASE \E u \in users : /\ <<person[l], u>> \in identities
                               /\ account' = [account EXCEPT ![l] = u]
                               /\ Goto(l, "active")
      BY <3>1 DEF TypeOK
    <3>2. CASE Goto(l, "insert") /\ UNCHANGED account
      <4>1. account' = [account EXCEPT ![l] = account[l]] /\ account[l] \in Logins \cup {Nobody}
        BY <3>2 DEF TypeOK
      <4> QED  BY <3>2, <4>1
    <3> QED  BY <1>2, <3>1, <3>2 DEF SelectIdentity
  <2>2. at[l] = "select" /\ UNCHANGED <<person, accts, sess>>
    BY <1>2 DEF SelectIdentity
  <2>3. ClaimInv'
    BY <2>1, <2>2 DEF TypeOK, AccountInv, ClaimInv
  <2>4. LoginInv'
    BY <2>1, <2>2 DEF TypeOK, AccountInv, LoginInv
  <2>5. SessionRows' /\ UsersAnswered'
    BY <2>1, <2>2 DEF TypeOK, AccountInv, SessionRows, UsersAnswered
  <2>6. OneWholeAccount'
    BY <2>2 DEF AccountInv, OneWholeAccount
  <2> QED  BY <2>3, <2>4, <2>5, <2>6 DEF AccountInv
<1>3. ASSUME NEW l \in Logins, InsertIdentity(l) PROVE AccountInv'
  <2>1. at[l] = "insert" /\ UNCHANGED <<person, identities, users, quotas, sess>>
    BY <1>3 DEF InsertIdentity
  <2>2. CASE \E u \in users : <<person[l], u>> \in identities
    <3>1. UNCHANGED <<account, claim>>
      BY <1>3, <2>2 DEF InsertIdentity
    <3>2. PICK step \in {"conflict", "select"} : at' = [at EXCEPT ![l] = step]
      BY <1>3, <2>2 DEF InsertIdentity
    <3>3. ClaimInv' /\ LoginInv'
      BY <2>1, <3>1, <3>2 DEF TypeOK, AccountInv, ClaimInv, LoginInv
    <3>4. SessionRows' /\ UsersAnswered'
      BY <2>1, <3>1, <3>2 DEF TypeOK, AccountInv, SessionRows, UsersAnswered
    <3> QED  BY <2>1, <3>3, <3>4 DEF AccountInv, OneWholeAccount
  <2>3. CASE ~ \E u \in users : <<person[l], u>> \in identities
    <3>1. /\ claim' = [claim EXCEPT ![person[l]] = l]
          /\ account' = [account EXCEPT ![l] = l]
          /\ at' = [at EXCEPT ![l] = "plan"]
      BY <1>3, <2>3 DEF InsertIdentity
    <3>2. \A u \in Logins : <<person[l], u>> \notin identities
      <4> SUFFICES ASSUME NEW u \in Logins, <<person[l], u>> \in identities PROVE FALSE
        OBVIOUS
      <4>1. <<person[l], u>>[2] \in users
        BY DEF AccountInv, OneWholeAccount
      <4> QED  BY <2>3, <4>1
    <3>3. claim[person[l]] = Nobody /\ person[l] \in People /\ Nobody \notin Logins
      BY <1>3 DEF InsertIdentity, TypeOK
    <3>4. ClaimInv'
      BY <2>1, <3>1, <3>2, <3>3 DEF TypeOK, AccountInv, ClaimInv
    <3>5. LoginInv'
      BY <2>1, <3>1, <3>3 DEF TypeOK, AccountInv, LoginInv
    <3>6. SessionRows' /\ UsersAnswered'
      BY <2>1, <3>1 DEF TypeOK, AccountInv, SessionRows, UsersAnswered
    <3> QED  BY <2>1, <3>4, <3>5, <3>6 DEF AccountInv, OneWholeAccount
  <2> QED  BY <2>2, <2>3
<1>4. ASSUME NEW l \in Logins, CommitLogin(l) PROVE AccountInv'
  <2>1. ClaimInv'
    BY <1>4 DEF CommitLogin, TypeOK, AccountInv, ClaimInv, Rollback
  <2>2. LoginInv'
    BY <1>4 DEF CommitLogin, TypeOK, AccountInv, LoginInv, ClaimInv, Rollback
  <2>3. SessionRows' /\ UsersAnswered'
    <3>1. at[l] = "save" /\ account[l] \in Logins
      <4>1. CASE claim[person[l]] = l
        BY <1>4, <4>1 DEF CommitLogin, TypeOK, AccountInv, ClaimInv
      <4>2. CASE <<person[l], account[l]>> \in identities
        BY <1>4, <4>2 DEF CommitLogin, TypeOK
      <4> QED  BY <1>4, <4>1, <4>2 DEF CommitLogin, AccountInv, LoginInv
    <3>2. /\ at' = [at EXCEPT ![l] = "ok"]
          /\ sessions' = sessions \cup {<<l, account[l]>>}
          /\ UNCHANGED account
      BY <1>4 DEF CommitLogin
    <3>3. SessionRows'
      BY <3>1, <3>2 DEF TypeOK, AccountInv, SessionRows
    <3>4. users' \subseteq users \cup {l}
      BY <1>4 DEF CommitLogin
    <3> QED  BY <3>2, <3>3, <3>4 DEF TypeOK, AccountInv, UsersAnswered
  <2>4. OneWholeAccount'
    <3> DEFINE new == IF claim[person[l]] = l THEN {l} ELSE {}
    <3>1. /\ identities' = identities \cup {<<person[l], u>> : u \in new}
          /\ users' = users \cup new
          /\ quotas' = quotas \cup new
          /\ sessions' = sessions \cup {<<l, account[l]>>}
          /\ UNCHANGED person
      BY <1>4 DEF CommitLogin
    <3>2. new # {} => \A i \in identities : i[1] # person[l]
      BY DEF TypeOK, AccountInv, ClaimInv
    <3>3. \A i, j \in identities' : i[1] = j[1] => i = j
      BY <3>1, <3>2 DEF AccountInv, OneWholeAccount
    <3>4. users' = quotas' /\ users' = {i[2] : i \in identities'}
      <4>1. users = quotas /\ users = {i[2] : i \in identities}
        BY DEF AccountInv, OneWholeAccount
      <4>2. CASE new = {}
        BY <3>1, <4>1, <4>2
      <4>3. CASE new = {l}
        <5>1. identities' = identities \cup {<<person[l], l>>}
          BY <3>1, <4>3
        <5>2. users' = users \cup {l} /\ users' = quotas'
          BY <3>1, <4>1, <4>3
        <5>3. \A x : {i[2] : i \in identities \cup {x}} = {i[2] : i \in identities} \cup {x[2]}
          OBVIOUS
        <5>4. <<person[l], l>>[2] = l
          OBVIOUS
        <5>5. {i[2] : i \in identities'} = {i[2] : i \in identities} \cup {l}
          BY <5>1, <5>3, <5>4
        <5> QED  BY <4>1, <5>2, <5>5
      <4> QED  BY <4>2, <4>3
    <3>5. account[l] \in users' /\ <<person[l], account[l]>> \in identities'
      <4>1. CASE claim[person[l]] = l
        BY <3>1, <4>1 DEF TypeOK, AccountInv, ClaimInv
      <4>2. CASE claim[person[l]] # l
        BY <1>4, <3>1, <4>2 DEF CommitLogin, AccountInv, LoginInv, OneWholeAccount
      <4> QED  BY <4>1, <4>2
    <3>6. \A s \in sessions' : s[2] \in users' /\ <<person[s[1]], s[2]>> \in identities'
      BY <3>1, <3>5 DEF AccountInv, OneWholeAccount
    <3> QED  BY <3>1, <3>3, <3>4, <3>6 DEF OneWholeAccount
  <2> QED  BY <2>1, <2>2, <2>3, <2>4 DEF AccountInv
<1>5. ASSUME NEW l \in Logins, AssignStarterQuota(l) PROVE AccountInv'
  <2>1. CASE UNCHANGED <<reqs, accts, sess>> /\ at' = [at EXCEPT ![l] = "save"]
    <3>1. at[l] = "plan"
      BY <1>5 DEF AssignStarterQuota
    <3> QED  BY <2>1, <3>1 DEF TypeOK, AccountInv, ClaimInv, LoginInv, SessionRows, UsersAnswered, OneWholeAccount
  <2>2. CASE Refuse(l, "error")
    BY <1>5, <2>2, RefuseKeeps DEF Refuse, AssignStarterQuota
  <2> QED  BY <1>5, <2>1, <2>2 DEF AssignStarterQuota
<1>6. ASSUME NEW l \in Logins, CheckUser(l) PROVE AccountInv'
  <2>1. CASE account[l] \in active
    <3>1. UNCHANGED <<reqs, accts, sess>> /\ at' = [at EXCEPT ![l] = "save"] /\ at[l] = "active"
      BY <1>6, <2>1 DEF CheckUser
    <3> QED  BY <3>1 DEF TypeOK, AccountInv, ClaimInv, LoginInv, SessionRows, UsersAnswered, OneWholeAccount
  <2>2. CASE account[l] \notin active
    BY <1>6, <2>2, RefuseKeeps DEF CheckUser, Refuse
  <2> QED  BY <2>1, <2>2
<1>7. ASSUME NEW r \in Pages, Visit(r) \/ Page(r) PROVE AccountInv'
  <2>1. UNCHANGED <<person, account, identities, users, quotas, claim, sessions>>
    BY <1>7 DEF Visit, Page, ReadSession, ReadUser, CheckSession, Touch
  <2>2. \A l \in Logins : at'[l] = at[l]
    BY <1>7 DEF TypeOK, Visit, Page, ReadSession, ReadUser, CheckSession, Touch
  <2> QED  BY <2>1, <2>2, AccountsKept
<1>8. ASSUME NEW r \in Logouts, SubmitLogout(r) \/ Logout(r) PROVE AccountInv'
  <2>1. UNCHANGED <<person, account, identities, users, quotas, claim, sessions>>
    BY <1>8 DEF SubmitLogout, Logout, LookUpRevoked, Revoke, Redirect
  <2>2. \E step \in Steps \cup Answers : at' = [at EXCEPT ![r] = step]
    BY <1>8 DEF SubmitLogout, Logout, LookUpRevoked, Revoke, Redirect
  <2>3. \A l \in Logins : at'[l] = at[l]
    BY <2>2 DEF TypeOK
  <2> QED  BY <2>1, <2>3, AccountsKept
<1>9. ASSUME NEW r \in Requests, Lose(r) PROVE AccountInv'
  <2>1. CASE r \in Logins
    BY <1>9, <2>1, RefuseKeeps DEF Lose
  <2>2. CASE r \notin Logins
    <3>1. UNCHANGED <<person, account, identities, users, quotas, claim, sessions>>
      BY <1>9, <2>2 DEF Lose
    <3>2. \A l \in Logins : at'[l] = at[l]
      BY <1>9, <2>2 DEF TypeOK, Lose
    <3> QED  BY <3>1, <3>2, AccountsKept
  <2> QED  BY <2>1, <2>2
<1>10. ASSUME NEW l \in Logins, Deactivate(l) \/ Expire(l) PROVE AccountInv'
  BY <1>10, AccountsKept DEF Deactivate, Expire
<1>11. CASE UNCHANGED vars
  BY <1>11, AccountsKept DEF vars
<1> QED
  BY <1>1, <1>2, <1>3, <1>4, <1>5, <1>6, <1>7, <1>8, <1>9, <1>10, <1>11 DEF Next, Login

-----------------------------------------------------------------------------
\* The owner of an answered login's session is its account, a committed user.
LEMMA OwnerIsAccount ==
    ASSUME TypeOK, AccountInv, NEW l \in Logins, at[l] = "ok"
    PROVE  HasRow(l) /\ Owner(l) = account[l] /\ account[l] \in users \cap Logins
<1>1. account[l] \in Logins /\ \A u \in Logins : <<l, u>> \in sessions <=> u = account[l]
  BY DEF AccountInv, SessionRows
<1>2. Owner(l) = account[l] /\ HasRow(l)
  BY <1>1 DEF Owner, HasRow
<1>3. <<l, account[l]>>[2] \in users
  BY <1>1 DEF AccountInv, OneWholeAccount
<1> QED  BY <1>1, <1>2, <1>3

\* What no step undoes: an answered login, and the end of a session.
Lasting ==
    /\ \A l \in Logins : at[l] = "ok" =>
          /\ at'[l] = "ok" /\ account'[l] = account[l]
          /\ account[l] \notin active => account[l] \notin active'
    /\ revoked \subseteq revoked' /\ expired \subseteq expired'

LEMMA LastingSteps == IInv /\ [Next]_vars => Lasting
<1> SUFFICES ASSUME IInv, [Next]_vars PROVE Lasting
  OBVIOUS
<1>0. TypeOK /\ AccountInv
  BY DEF IInv
<1> USE SessionsAssumption, <1>0 DEF Goto, reqs, accts, sess, hist, Requests, Steps, Answers
<1>1. ASSUME NEW l \in Logins, Callback(l) \/ Login(l) PROVE Lasting
  <2>1. UNCHANGED <<revoked, expired>> /\ at[l] # "ok"
    BY <1>1 DEF Callback, Login, SelectIdentity, InsertIdentity, AssignStarterQuota, CheckUser, CommitLogin, Refuse
  <2>2. \E step : at' = [at EXCEPT ![l] = step]
    <3>1. CASE Callback(l) \/ SelectIdentity(l) \/ InsertIdentity(l) \/ CommitLogin(l)
      BY <3>1 DEF Callback, SelectIdentity, InsertIdentity, CommitLogin
    <3>2. CASE AssignStarterQuota(l) \/ CheckUser(l)
      BY <3>2 DEF AssignStarterQuota, CheckUser, Refuse
    <3> QED  BY <1>1, <3>1, <3>2 DEF Login
  <2>3. \A m \in Logins \ {l} : account'[m] = account[m]
    <3>1. CASE Callback(l) \/ AssignStarterQuota(l) \/ CheckUser(l) \/ CommitLogin(l)
      BY <3>1 DEF Callback, AssignStarterQuota, CheckUser, CommitLogin, Refuse
    <3>2. CASE SelectIdentity(l)
      <4>1. UNCHANGED account \/ \E u \in users : account' = [account EXCEPT ![l] = u]
        BY <3>2 DEF SelectIdentity
      <4> QED  BY <4>1 DEF TypeOK
    <3>3. CASE InsertIdentity(l)
      <4>1. UNCHANGED account \/ account' = [account EXCEPT ![l] = l]
        BY <3>3 DEF InsertIdentity
      <4> QED  BY <4>1 DEF TypeOK
    <3> QED  BY <1>1, <3>1, <3>2, <3>3 DEF Login
  <2>4. active' \subseteq active \cup {l}
    BY <1>1 DEF Callback, Login, SelectIdentity, InsertIdentity, AssignStarterQuota, CheckUser, CommitLogin, Refuse
  <2>5. l \notin users
    BY <2>1 DEF AccountInv, UsersAnswered
  <2>6. \A m \in Logins : at[m] = "ok" => account[m] # l
    BY <2>5, OwnerIsAccount
  <2>7. \A m \in Logins \ {l} : at'[m] = at[m]
    BY <2>2 DEF TypeOK
  <2> QED  BY <2>1, <2>3, <2>4, <2>6, <2>7 DEF Lasting
<1>2. ASSUME NEW r \in Pages \cup Logouts,
             (r \in Pages /\ (Visit(r) \/ Page(r))) \/ (r \in Logouts /\ (SubmitLogout(r) \/ Logout(r)))
      PROVE  Lasting
  <2>1. UNCHANGED <<account, active, expired>> /\ revoked \subseteq revoked'
    BY <1>2 DEF Visit, Page, ReadSession, ReadUser, CheckSession, Touch, SubmitLogout, Logout, LookUpRevoked, Revoke, Redirect
  <2>2. PICK step : at' = [at EXCEPT ![r] = step]
    BY <1>2 DEF Visit, Page, ReadSession, ReadUser, CheckSession, Touch, SubmitLogout, Logout, LookUpRevoked, Revoke, Redirect
  <2> QED  BY <2>1, <2>2 DEF TypeOK, Lasting
<1>3. ASSUME NEW r \in Requests, Lose(r) PROVE Lasting
  BY <1>3 DEF TypeOK, Lose, Lasting
<1>4. ASSUME NEW l \in Logins, Deactivate(l) \/ Expire(l) PROVE Lasting
  BY <1>4 DEF Deactivate, Expire, Lasting
<1>5. CASE UNCHANGED vars
  BY <1>5 DEF vars, Lasting
<1> QED  BY <1>1, <1>2, <1>3, <1>4, <1>5 DEF Next

\* Steps of others keep what refuses a request whose session had ended.
LEMMA EndKept ==
    ASSUME IInv, Lasting, UNCHANGED <<cookie, seen, barred>>, loggedOut' = loggedOut,
           \A r \in Pages \cup Logouts : at'[r] = at[r]
    PROVE  EndInv'
<1> USE DEF IInv, EndInv
<1>1. CookieInv'
  BY DEF CookieInv, Lasting
<1>2. BarredInv'
  <2> SUFFICES ASSUME NEW r \in barred
               PROVE  /\ at[r] \notin {"new", "touch", "ok"}
                      /\ at[r] = "session" => cookie[r] \in revoked' \cup expired' \/ account'[cookie[r]] \notin active'
                      /\ at[r] = "user" => seen[r] = "revoked" \/ cookie[r] \in expired' \/ account'[cookie[r]] \notin active'
                      /\ at[r] = "check" => seen[r] = "revoked" \/ cookie[r] \in expired'
    BY DEF BarredInv, TypeOK
  <2>1. r \in Pages
    BY DEF TypeOK
  <2>2. at[r] \in {"session", "user"} => cookie[r] \in Logins /\ at[cookie[r]] = "ok"
    BY <2>1 DEF CookieInv, Past
  <2> QED  BY <2>1, <2>2 DEF BarredInv, Lasting
<1>3. loggedOut' \subseteq revoked'
  BY DEF Lasting
<1> QED  BY <1>1, <1>2, <1>3

\* A request that goes on with its cookie: only its own step counts.
LEMMA OwnStepKept ==
    ASSUME IInv, Lasting, NEW r \in Pages \cup Logouts, NEW step \in Steps \cup Answers,
           at' = [at EXCEPT ![r] = step],
           \A q \in (Pages \cup Logouts) \ {r} : cookie'[q] = cookie[q],
           \A q \in Pages \ {r} : seen'[q] = seen[q],
           barred' \subseteq barred \cup {r} /\ barred' \subseteq Pages,
           loggedOut' \subseteq revoked',
           Past(r, step) => cookie'[r] \in Logins /\ at'[cookie'[r]] = "ok",
           r \in barred' =>
               /\ step \notin {"new", "touch", "ok"}
               /\ step = "session" => cookie'[r] \in revoked' \cup expired' \/ account'[cookie'[r]] \notin active'
               /\ step = "user" => seen'[r] = "revoked" \/ cookie'[r] \in expired' \/ account'[cookie'[r]] \notin active'
               /\ step = "check" => seen'[r] = "revoked" \/ cookie'[r] \in expired'
    PROVE  EndInv'
<1> USE DEF IInv, EndInv
<1>1. at'[r] = step /\ \A q \in Requests \ {r} : at'[q] = at[q]
  BY DEF TypeOK, Requests
<1>2. CookieInv'
  <2> SUFFICES ASSUME NEW q \in Pages \cup Logouts, Past(q, at'[q])
               PROVE  cookie'[q] \in Logins /\ at'[cookie'[q]] = "ok"
    BY DEF CookieInv
  <2>1. CASE q = r
    BY <1>1, <2>1
  <2>2. CASE q # r
    BY <1>1, <2>2 DEF CookieInv, Lasting, Requests
  <2> QED  BY <2>1, <2>2
<1>3. BarredInv'
  <2> SUFFICES ASSUME NEW q \in barred'
               PROVE  /\ at'[q] \notin {"new", "touch", "ok"}
                      /\ at'[q] = "session" => cookie'[q] \in revoked' \cup expired' \/ account'[cookie'[q]] \notin active'
                      /\ at'[q] = "user" => seen'[q] = "revoked" \/ cookie'[q] \in expired' \/ account'[cookie'[q]] \notin active'
                      /\ at'[q] = "check" => seen'[q] = "revoked" \/ cookie'[q] \in expired'
    BY DEF BarredInv
  <2>1. CASE q = r
    BY <1>1, <2>1
  <2>2. CASE q # r
    <3>1. q \in Pages /\ q \in barred /\ at'[q] = at[q] /\ cookie'[q] = cookie[q] /\ seen'[q] = seen[q]
      BY <1>1, <2>2 DEF Requests
    <3>2. at[q] \in {"session", "user"} => cookie[q] \in Logins /\ at[cookie[q]] = "ok"
      BY <3>1 DEF CookieInv, Past
    <3> QED  BY <3>1, <3>2 DEF BarredInv, Lasting
  <2> QED  BY <2>1, <2>2
<1> QED  BY <1>2, <1>3

LEMMA EndsKept == IInv /\ [Next]_vars => EndInv'
<1> SUFFICES ASSUME IInv, [Next]_vars PROVE EndInv'
  OBVIOUS
<1>0. TypeOK /\ AccountInv /\ CookieInv /\ BarredInv /\ loggedOut \subseteq revoked
  BY DEF IInv, EndInv
<1>a. Lasting
  BY LastingSteps
<1>b. TypeOK'
  BY TypeKept
<1> USE SessionsAssumption, <1>0, <1>a DEF Goto, reqs, accts, sess, hist
<1>1. ASSUME NEW l \in Logins, Callback(l) \/ Login(l) PROVE EndInv'
  <2>1. UNCHANGED <<cookie, seen, barred, loggedOut>>
    BY <1>1 DEF Callback, Login, SelectIdentity, InsertIdentity, AssignStarterQuota, CheckUser, CommitLogin, Refuse
  <2>2. \E step : at' = [at EXCEPT ![l] = step]
    <3>1. CASE Callback(l) \/ SelectIdentity(l) \/ InsertIdentity(l) \/ CommitLogin(l)
      BY <3>1 DEF Callback, SelectIdentity, InsertIdentity, CommitLogin
    <3>2. CASE AssignStarterQuota(l) \/ CheckUser(l)
      BY <3>2 DEF AssignStarterQuota, CheckUser, Refuse
    <3> QED  BY <1>1, <3>1, <3>2 DEF Login
  <2>3. \A r \in Pages \cup Logouts : at'[r] = at[r]
    BY <2>2 DEF TypeOK, Requests
  <2> QED  BY <2>1, <2>3, EndKept
<1>2. ASSUME NEW r \in Pages, Visit(r) PROVE EndInv'
  <2>1. seen' = seen /\ loggedOut' = loggedOut /\ revoked' = revoked /\ expired' = expired /\ at[r] = "new"
    BY <1>2 DEF Visit
  <2>2. CASE Goto(r, "unauthorized") /\ UNCHANGED <<cookie, barred>>
    <3>1. r \notin barred
      BY <2>1 DEF BarredInv
    <3> QED  BY <2>1, <2>2, <3>1, <1>b, OwnStepKept DEF Steps, Answers, Past, TypeOK
  <2>3. ASSUME NEW l \in Logins, at[l] = "ok", cookie' = [cookie EXCEPT ![r] = l],
               barred' = IF Ended(l) THEN barred \cup {r} ELSE barred, Goto(r, "session")
        PROVE  EndInv'
    <3>1. cookie'[r] = l /\ \A q \in (Pages \cup Logouts) \ {r} : cookie'[q] = cookie[q]
      BY <2>3 DEF TypeOK
    <3>2. r \notin barred /\ at'[l] = "ok" /\ active' = active /\ account'[l] = account[l]
      BY <1>2, <2>1, <2>3 DEF BarredInv, Lasting, Visit
    <3>3. Ended(l) => l \in revoked' \cup expired' \/ account'[l] \notin active'
      BY <2>1, <2>3, <3>2, OwnerIsAccount DEF Ended
    <3>4. r \in barred' => Ended(l)
      BY <2>3, <3>2
    <3>5. barred' \subseteq barred \cup {r} /\ barred' \subseteq Pages
      BY <2>3 DEF TypeOK
    <3>6. r \in barred' => cookie'[r] \in revoked' \cup expired' \/ account'[cookie'[r]] \notin active'
      BY <3>1, <3>3, <3>4
    <3>7. cookie'[r] \in Logins /\ at'[cookie'[r]] = "ok" /\ at' = [at EXCEPT ![r] = "session"]
      BY <2>3, <3>1, <3>2
    <3> HIDE DEF Goto
    <3> QED  BY <2>1, <3>1, <3>5, <3>6, <3>7, OwnStepKept DEF Steps, Answers, Past
  <2> QED  BY <1>2, <2>2, <2>3 DEF Visit
<1>3. ASSUME NEW r \in Pages, ReadSession(r) PROVE EndInv'
  <2>1. at[r] = "session" /\ cookie[r] \in Logins /\ at[cookie[r]] = "ok" /\ cookie' = cookie
    BY <1>3 DEF ReadSession, CookieInv, Past
  <2>2. barred' = barred /\ loggedOut' = loggedOut /\ revoked' = revoked /\ expired' = expired
          /\ active' = active /\ account' = account
    BY <1>3 DEF ReadSession
  <2>3. seen' = [seen EXCEPT ![r] = IF cookie[r] \in revoked THEN "revoked" ELSE "valid"] /\ Goto(r, "user")
    BY <1>3, <2>1, OwnerIsAccount DEF ReadSession
  <2>4. seen'[r] = (IF cookie[r] \in revoked THEN "revoked" ELSE "valid")
          /\ \A q \in Pages \ {r} : seen'[q] = seen[q]
    BY <2>3 DEF TypeOK
  <2>5. r \in barred => cookie[r] \in revoked \cup expired \/ account[cookie[r]] \notin active
    BY <2>1 DEF BarredInv
  <2>6. at'[cookie[r]] = "ok"
    BY <2>1 DEF Lasting
  <2>7. barred \subseteq Pages
    BY DEF TypeOK
  <2> QED  BY <2>1, <2>2, <2>3, <2>4, <2>5, <2>6, <2>7, OwnStepKept DEF Steps, Answers, Past
<1>4. ASSUME NEW r \in Pages, ReadUser(r) PROVE EndInv'
  <2>1. at[r] = "user" /\ cookie[r] \in Logins /\ at[cookie[r]] = "ok"
    BY <1>4 DEF ReadUser, CookieInv, Past
  <2>2. UNCHANGED <<cookie, seen, barred, loggedOut, revoked, expired, active, account>>
    BY <1>4 DEF ReadUser
  <2>3. PICK step \in {"error", "check", "unauthorized"} :
            Goto(r, step) /\ (step = "check" => account[cookie[r]] \in active)
    <3>1. Owner(cookie[r]) = account[cookie[r]] /\ account[cookie[r]] \in users
      BY <2>1, OwnerIsAccount
    <3>2. CASE account[cookie[r]] \in active
      BY <1>4, <3>1, <3>2 DEF ReadUser
    <3>3. CASE account[cookie[r]] \notin active
      BY <1>4, <3>1, <3>3 DEF ReadUser
    <3> QED  BY <3>2, <3>3
  <2>4. r \in barred => seen[r] = "revoked" \/ cookie[r] \in expired \/ account[cookie[r]] \notin active
    BY <2>1 DEF BarredInv
  <2>5. at'[cookie[r]] = "ok"
    BY <2>1 DEF Lasting
  <2>6. barred \subseteq Pages
    BY DEF TypeOK
  <2> QED  BY <2>1, <2>2, <2>3, <2>4, <2>5, <2>6, OwnStepKept DEF Steps, Answers, Past
<1>5. ASSUME NEW r \in Pages, CheckSession(r) \/ Touch(r) PROVE EndInv'
  <2>1. at[r] \in {"check", "touch"} /\ cookie[r] \in Logins /\ at[cookie[r]] = "ok"
    BY <1>5 DEF CheckSession, Touch, CookieInv, Past
  <2>2. UNCHANGED <<cookie, seen, barred, loggedOut, revoked, expired, active, account>>
    BY <1>5 DEF CheckSession, Touch
  <2>3. PICK step \in {"unauthorized", "touch", "ok"} :
            Goto(r, step) /\ (step # "unauthorized" => r \notin barred)
    BY <1>5 DEF CheckSession, Touch, BarredInv
  <2>4. at'[cookie[r]] = "ok"
    BY <2>1 DEF Lasting
  <2>5. barred \subseteq Pages
    BY DEF TypeOK
  <2> QED  BY <2>1, <2>2, <2>3, <2>4, <2>5, OwnStepKept DEF Steps, Answers, Past
<1>6. ASSUME NEW r \in Logouts, SubmitLogout(r) \/ Logout(r) PROVE EndInv'
  <2>1. UNCHANGED <<seen, barred>> /\ loggedOut' \subseteq revoked' /\ r \notin Pages
    BY <1>6 DEF SubmitLogout, Logout, LookUpRevoked, Revoke, Redirect
  <2>2. barred \subseteq Pages
    BY DEF TypeOK
  <2>3. CASE SubmitLogout(r)
    <3>1. PICK l \in Logins, step \in {"session", "forbidden"} :
              at[l] = "ok" /\ cookie' = [cookie EXCEPT ![r] = l] /\ Goto(r, step)
      BY <2>3 DEF SubmitLogout
    <3>2. cookie'[r] = l /\ \A q \in (Pages \cup Logouts) \ {r} : cookie'[q] = cookie[q]
      BY <3>1 DEF TypeOK
    <3>3. at'[l] = "ok"
      BY <3>1 DEF Lasting
    <3> QED  BY <2>1, <2>2, <3>1, <3>2, <3>3, OwnStepKept DEF Steps, Answers, Past
  <2>4. CASE Logout(r)
    <3>1. PICK step \in {"revoke", "redirect", "ok", "error"} :
              Goto(r, step) /\ UNCHANGED cookie /\ (step = "revoke" => at[r] = "session")
      BY <2>4 DEF Logout, LookUpRevoked, Revoke, Redirect
    <3>2. step = "revoke" => cookie[r] \in Logins /\ at[cookie[r]] = "ok"
      BY <3>1 DEF CookieInv, Past
    <3>3. step = "revoke" => at'[cookie[r]] = "ok"
      BY <3>2 DEF Lasting
    <3> QED  BY <2>1, <2>2, <3>1, <3>2, <3>3, OwnStepKept DEF Steps, Answers, Past
  <2> QED  BY <1>6, <2>3, <2>4
<1>7. ASSUME NEW r \in Requests, Lose(r) PROVE EndInv'
  <2>1. UNCHANGED <<cookie, seen, barred, loggedOut, revoked>> /\ Goto(r, "lost")
    BY <1>7 DEF Lose
  <2>2. barred \subseteq Pages
    BY DEF TypeOK
  <2>3. CASE r \in Logins
    <3>1. \A q \in Pages \cup Logouts : at'[q] = at[q]
      BY <2>1, <2>3 DEF TypeOK, Requests
    <3> QED  BY <2>1, <3>1, EndKept
  <2>4. CASE r \in Pages \cup Logouts
    BY <2>1, <2>2, <2>4, OwnStepKept DEF Steps, Answers, Past
  <2> QED  BY <2>3, <2>4 DEF Requests
<1>8. ASSUME NEW l \in Logins, Deactivate(l) \/ Expire(l) PROVE EndInv'
  BY <1>8, EndKept DEF Deactivate, Expire
<1>9. CASE UNCHANGED vars
  BY <1>9, EndKept DEF vars
<1> QED  BY <1>1, <1>2, <1>3, <1>4, <1>5, <1>6, <1>7, <1>8, <1>9 DEF Next, Page

LEMMA RetryKept == IInv /\ [Next]_vars => RetryInv'
<1> SUFFICES ASSUME IInv, [Next]_vars PROVE RetryInv'
  OBVIOUS
<1>0. TypeOK /\ RetryInv
  BY DEF IInv
<1> USE SessionsAssumption, <1>0 DEF Goto, reqs, accts, sess, hist
\* Identities and users stay.
<1>1. identities \subseteq identities' /\ users \subseteq users'
  BY DEF Next, vars, Login, Page, Logout, Callback, SelectIdentity, InsertIdentity,
         AssignStarterQuota, CheckUser, CommitLogin, Visit, ReadSession, ReadUser,
         CheckSession, Touch, SubmitLogout, LookUpRevoked, Revoke, Redirect, Lose,
         Refuse, Deactivate, Expire
<1>2. ASSUME NEW r \in Requests, UNCHANGED <<person, retried>>, NEW step, step \notin {"conflict", "new"},
             at' = [at EXCEPT ![r] = step],
             r \in Logins /\ step = "insert" => ~retried[r]
      PROVE  RetryInv'
  <2> SUFFICES ASSUME NEW l \in Logins
               PROVE  /\ at'[l] # "conflict"
                      /\ retried[l] => /\ at'[l] \notin {"new", "insert"}
                                       /\ \E u \in users' : <<person[l], u>> \in identities'
    BY <1>2 DEF RetryInv
  <2>1. at'[l] = at[l] \/ (l = r /\ at'[l] = step)
    BY <1>2 DEF TypeOK
  <2>2. retried[l] => \E u \in users' : <<person[l], u>> \in identities'
    BY <1>1 DEF RetryInv
  <2> QED  BY <1>2, <2>1, <2>2 DEF RetryInv
<1>3. ASSUME NEW l \in Logins, Callback(l) PROVE RetryInv'
  <2>1. at[l] = "new" /\ retried' = retried /\ ~retried[l]
    BY <1>3 DEF Callback, RetryInv
  <2>2. \A m \in Logins \ {l} : person'[m] = person[m] /\ at'[m] = at[m]
    BY <1>3 DEF Callback, TypeOK
  <2>3. at'[l] \in {"select", "forbidden"}
    BY <1>3 DEF Callback, TypeOK, Requests
  <2> QED  BY <1>1, <2>1, <2>2, <2>3 DEF RetryInv
<1>4. ASSUME NEW l \in Logins, SelectIdentity(l) PROVE RetryInv'
  <2>1. PICK step \in {"active", "insert"} :
            Goto(l, step) /\ (step = "insert" => \A u \in users : <<person[l], u>> \notin identities)
    BY <1>4 DEF SelectIdentity
  <2>2. UNCHANGED <<person, retried>>
    BY <1>4 DEF SelectIdentity
  <2>3. step = "insert" => ~retried[l]
    BY <2>1 DEF RetryInv
  <2> QED  BY <1>2, <2>1, <2>2, <2>3 DEF Requests
<1>5. ASSUME NEW l \in Logins, InsertIdentity(l) PROVE RetryInv'
  <2>1. person' = person /\ ~retried[l]
    BY <1>5 DEF InsertIdentity, RetryInv
  <2>2. CASE \E u \in users : <<person[l], u>> \in identities
    <3>1. retried' = [retried EXCEPT ![l] = TRUE] /\ Goto(l, "select")
      BY <1>5, <2>1, <2>2 DEF InsertIdentity
    <3>2. at'[l] = "select" /\ \A m \in Logins \ {l} : at'[m] = at[m] /\ retried'[m] = retried[m]
      BY <3>1 DEF TypeOK, Requests
    <3> QED  BY <1>1, <2>1, <2>2, <3>2 DEF RetryInv
  <2>3. CASE ~ \E u \in users : <<person[l], u>> \in identities
    BY <1>2, <1>5, <2>1, <2>3 DEF InsertIdentity, Requests
  <2> QED  BY <2>2, <2>3
<1>6. ASSUME NEW l \in Logins, AssignStarterQuota(l) \/ CheckUser(l) \/ CommitLogin(l)
      PROVE  RetryInv'
  <2>1. UNCHANGED <<person, retried>>
    BY <1>6 DEF AssignStarterQuota, CheckUser, CommitLogin, Refuse
  <2>2. \E step \in {"save", "error", "forbidden", "ok"} : at' = [at EXCEPT ![l] = step]
    BY <1>6 DEF AssignStarterQuota, CheckUser, CommitLogin, Refuse
  <2> QED  BY <1>2, <2>1, <2>2 DEF Requests
<1>7. ASSUME NEW r \in Pages \cup Logouts,
             (r \in Pages /\ (Visit(r) \/ Page(r))) \/ (r \in Logouts /\ (SubmitLogout(r) \/ Logout(r)))
      PROVE  RetryInv'
  <2>1. UNCHANGED <<person, retried>>
    BY <1>7 DEF Visit, Page, ReadSession, ReadUser, CheckSession, Touch, SubmitLogout, Logout, LookUpRevoked, Revoke, Redirect
  <2>2. PICK step : at' = [at EXCEPT ![r] = step]
    BY <1>7 DEF Visit, Page, ReadSession, ReadUser, CheckSession, Touch, SubmitLogout, Logout, LookUpRevoked, Revoke, Redirect
  <2>3. \A l \in Logins : at'[l] = at[l]
    BY <2>2 DEF TypeOK
  <2> QED  BY <1>1, <2>1, <2>3 DEF RetryInv
<1>8. ASSUME NEW r \in Requests, Lose(r) PROVE RetryInv'
  BY <1>2, <1>8 DEF Lose
<1>9. CASE UNCHANGED vars \/ \E l \in Logins : Deactivate(l) \/ Expire(l)
  <2>1. UNCHANGED <<person, retried, at>>
    BY <1>9 DEF vars, Deactivate, Expire
  <2> QED  BY <1>1, <2>1 DEF RetryInv
<1> QED  BY <1>3, <1>4, <1>5, <1>6, <1>7, <1>8, <1>9 DEF Next, Login

LEMMA NextInv == IInv /\ [Next]_vars => IInv'
BY TypeKept, AccountKept, EndsKept, RetryKept DEF IInv

LEMMA InvSuffices == IInv => OneWholeAccount /\ EndedIsRefused /\ RetryIsEnough
BY DEF IInv, AccountInv, EndInv, BarredInv, EndedIsRefused, RetryInv, RetryIsEnough

LEMMA RevokedKept == IInv /\ [Next]_vars => revoked \subseteq revoked' /\ loggedOut \subseteq revoked
BY LastingSteps DEF IInv, EndInv, Lasting

\* A page that was answered keeps its answer and its cookie.
LEMMA PageStays ==
    ASSUME IInv, [Next]_vars, NEW r \in Pages, at[r] = "ok"
    PROVE  at'[r] = "ok" /\ cookie'[r] = cookie[r]
<1> USE SessionsAssumption DEF Goto, reqs, accts, sess, hist
<1>0. TypeOK
  BY DEF IInv
<1>1. ASSUME NEW l \in Logins, Callback(l) \/ Login(l) PROVE at'[r] = "ok" /\ cookie' = cookie
  <2>1. cookie' = cookie
    BY <1>1 DEF Callback, Login, SelectIdentity, InsertIdentity, AssignStarterQuota, CheckUser, CommitLogin, Refuse
  <2>2. \E step : at' = [at EXCEPT ![l] = step]
    <3>1. CASE Callback(l) \/ SelectIdentity(l) \/ InsertIdentity(l) \/ CommitLogin(l)
      BY <3>1 DEF Callback, SelectIdentity, InsertIdentity, CommitLogin
    <3>2. CASE AssignStarterQuota(l) \/ CheckUser(l)
      BY <3>2 DEF AssignStarterQuota, CheckUser, Refuse
    <3> QED  BY <1>1, <3>1, <3>2 DEF Login
  <2> QED  BY <1>0, <2>1, <2>2 DEF TypeOK
<1>2. ASSUME NEW q \in Pages, Visit(q) \/ Page(q) PROVE at'[r] = "ok" /\ cookie'[r] = cookie[r]
  <2>1. at[q] # "ok" /\ q # r
    BY <1>2 DEF Visit, Page, ReadSession, ReadUser, CheckSession, Touch
  <2>2. \E step : at' = [at EXCEPT ![q] = step]
    BY <1>2 DEF Visit, Page, ReadSession, ReadUser, CheckSession, Touch
  <2>3. cookie' = cookie \/ \E l : cookie' = [cookie EXCEPT ![q] = l]
    BY <1>2 DEF Visit, Page, ReadSession, ReadUser, CheckSession, Touch
  <2> QED  BY <1>0, <2>1, <2>2, <2>3 DEF TypeOK, Requests
<1>3. ASSUME NEW q \in Logouts, SubmitLogout(q) \/ Logout(q) PROVE at'[r] = "ok" /\ cookie'[r] = cookie[r]
  <2>1. \E step : at' = [at EXCEPT ![q] = step]
    BY <1>3 DEF SubmitLogout, Logout, LookUpRevoked, Revoke, Redirect
  <2>2. cookie' = cookie \/ \E l : cookie' = [cookie EXCEPT ![q] = l]
    BY <1>3 DEF SubmitLogout, Logout, LookUpRevoked, Revoke, Redirect
  <2> QED  BY <1>0, <2>1, <2>2 DEF TypeOK, Requests
<1>4. ASSUME NEW q \in Requests, Lose(q) PROVE at'[r] = "ok" /\ cookie' = cookie
  BY <1>0, <1>4 DEF Lose, Steps, TypeOK
<1>5. CASE UNCHANGED vars \/ \E l \in Logins : Deactivate(l) \/ Expire(l)
  BY <1>5 DEF vars, Deactivate, Expire
<1> QED  BY <1>1, <1>2, <1>3, <1>4, <1>5 DEF Next

-----------------------------------------------------------------------------
(* Keys and their owners *)

KeyTypes ==
    /\ keyAt \in [Pages -> K!Steps \cup K!Answers]
    /\ owner \in [Pages -> Logins]
    /\ name \in [Pages -> Names]
    /\ key \in [Pages -> Keys \cup Pages \cup {NoKey}]
    /\ entries \subseteq Pages \X {"name", "key"}
    /\ saved \subseteq Pages

\* A request has its entries in the indexes until it is through, and is saved
\* when it is.
EntryInv ==
    \A r \in Pages :
        /\ <<r, "name">> \in entries <=> keyAt[r] \in {"insertKey", "commit"}
        /\ <<r, "key">> \in entries <=> keyAt[r] = "commit"
        /\ r \in saved <=> keyAt[r] = "created"

Indexed(r, index) == r \in saved \/ <<r, index>> \in entries

\* Both indexes are unique over saved and uncommitted rows together.
UniqueInv ==
    \A q, r \in Pages : q # r =>
        /\ Indexed(q, "name") /\ Indexed(r, "name") => ~K!SameName(r, q)
        /\ Indexed(q, "key") /\ Indexed(r, "key") => key[q] # key[r]

\* Before it answers, an import that met a conflict can still find it.
ConflictInv ==
    \A r \in Pages :
        /\ keyAt[r] = "resolve" => K!NameTaken(r) \/ K!KeyTaken(r)
        /\ keyAt[r] = "nameTaken" => K!NameTaken(r)
        /\ keyAt[r] = "keyTaken" => K!KeyTaken(r)

\* A key is for the account of the session it was sent with.
OwnerInv ==
    \A r \in Pages : keyAt[r] # "new" => at[r] = "ok" /\ owner[r] = account[cookie[r]]

KInv == KeyTypes /\ EntryInv /\ UniqueInv /\ ConflictInv
PInv == IInv /\ KInv /\ OwnerInv
-----------------------------------------------------------------------------
(* The keys *)

LEMMA KeysInit == K!Init => KInv
<1> SUFFICES ASSUME K!Init PROVE KInv
  OBVIOUS
<1> USE DEF K!Init
<1>1. KeyTypes
  BY DEF KeyTypes, K!Steps
<1>2. EntryInv /\ UniqueInv /\ ConflictInv
  BY DEF EntryInv, UniqueInv, Indexed, ConflictInv
<1> QED  BY <1>1, <1>2 DEF KInv

\* The end of a request that is not saved: what it answers is true.
LEMMA FailKept ==
    ASSUME KInv, NEW r \in Pages, keyAt[r] # "created",
           NEW answer \in {"nameTaken", "keyTaken", "error", "resolve", "lost"},
           K!Fail(r, answer),
           answer = "nameTaken" => K!NameTaken(r),
           answer = "keyTaken" => K!KeyTaken(r),
           answer = "resolve" => K!NameTaken(r) \/ K!KeyTaken(r)
    PROVE  KInv'
<1> USE DEF KInv, KeyTypes
<1>1. /\ keyAt' = [keyAt EXCEPT ![r] = answer]
      /\ entries' = entries \ ({r} \X {"name", "key"})
      /\ UNCHANGED <<owner, name, key, saved>>
  BY DEF K!Fail, K!Goto, K!Rollback, K!row
<1>2. KeyTypes'
  BY <1>1 DEF K!Steps, K!Answers
<1>3. EntryInv'
  BY <1>1 DEF EntryInv
<1>4. UniqueInv'
  BY <1>1 DEF UniqueInv, Indexed, K!SameName
<1>5. ConflictInv'
  BY <1>1 DEF ConflictInv, K!NameTaken, K!KeyTaken, K!SameName
<1> QED  BY <1>2, <1>3, <1>4, <1>5

\* The request goes on to a step that has no entry and answers nothing.
LEMMA StepKept ==
    ASSUME KInv, NEW r \in Pages, keyAt[r] \in {"new", "name", "key"},
           NEW step \in {"name", "key", "insertName", "invalid"},
           keyAt' = [keyAt EXCEPT ![r] = step],
           owner' \in [Pages -> Logins], name' \in [Pages -> Names],
           key' \in [Pages -> Keys \cup Pages \cup {NoKey}],
           \A q \in Pages \ {r} : owner'[q] = owner[q] /\ name'[q] = name[q] /\ key'[q] = key[q],
           UNCHANGED <<entries, saved>>
    PROVE  KInv'
<1> USE DEF KInv, KeyTypes
<1>1. KeyTypes'
  BY DEF K!Steps, K!Answers
<1>2. EntryInv'
  BY DEF EntryInv
<1>3. r \notin saved /\ <<r, "name">> \notin entries /\ <<r, "key">> \notin entries
  BY DEF EntryInv
<1>4. UniqueInv'
  <2>1. ~Indexed(r, "name") /\ ~Indexed(r, "key")
    BY <1>3 DEF Indexed
  <2>2. \A q, index : Indexed(q, index)' <=> Indexed(q, index)
    BY DEF Indexed
  <2>3. \A p, q \in Pages \ {r} :
            /\ K!SameName(p, q)' <=> K!SameName(p, q)
            /\ key'[p] = key[p] /\ key'[q] = key[q]
    BY DEF K!SameName
  <2> QED  BY <2>1, <2>2, <2>3 DEF UniqueInv
<1>5. ConflictInv'
  BY <1>3 DEF ConflictInv, K!NameTaken, K!KeyTaken, K!SameName
<1> QED  BY <1>1, <1>2, <1>4, <1>5

\* The entry in the first index: no row and no other entry equals it, for
\* who waits goes on when the other is through.
LEMMA InsertNameKept == ASSUME KInv, NEW r \in Pages, K!InsertName(r) PROVE KInv'
<1> USE DEF KInv, KeyTypes
<1>1. keyAt[r] = "insertName" /\ ~K!Blocked(r, "name")
  BY DEF K!InsertName
<1>2. CASE K!NameTaken(r)
  <2>1. PICK answer \in {"resolve", "error"} : K!Fail(r, answer)
    BY <1>2 DEF K!InsertName, K!Integrity
  <2> QED  BY <1>1, <1>2, <2>1, FailKept
<1>3. CASE ~K!NameTaken(r)
  <2>1. /\ entries' = entries \cup {<<r, "name">>}
        /\ key' = [key EXCEPT ![r] = IF importing[r] THEN @ ELSE r]
        /\ keyAt' = [keyAt EXCEPT ![r] = "insertKey"]
        /\ UNCHANGED <<owner, name, saved>>
    BY <1>3 DEF K!InsertName, K!Goto
  <2>2. r \notin saved /\ <<r, "key">> \notin entries
    BY <1>1 DEF EntryInv
  <2>3. \A q \in Pages \ {r} : Indexed(q, "name") => ~K!SameName(r, q)
    BY <1>1, <1>3 DEF K!Blocked, K!NameTaken, Indexed
  <2>4. KeyTypes'
    BY <2>1 DEF K!Steps
  <2>5. EntryInv'
    BY <1>1, <2>1 DEF EntryInv
  <2>6. UniqueInv'
    BY <2>1, <2>2, <2>3 DEF UniqueInv, Indexed, K!SameName
  <2>7. ConflictInv'
    BY <1>1, <2>1, <2>2 DEF ConflictInv, K!NameTaken, K!KeyTaken, K!SameName
  <2> QED  BY <2>4, <2>5, <2>6, <2>7
<1> QED  BY <1>2, <1>3

LEMMA InsertKeyKept == ASSUME KInv, NEW r \in Pages, K!InsertKey(r) PROVE KInv'
<1> USE DEF KInv, KeyTypes
<1>1. keyAt[r] = "insertKey" /\ ~K!Blocked(r, "key")
  BY DEF K!InsertKey
<1>2. CASE K!KeyTaken(r)
  <2>1. PICK answer \in {"resolve", "error"} : K!Fail(r, answer)
    BY <1>2 DEF K!InsertKey, K!Integrity
  <2> QED  BY <1>1, <1>2, <2>1, FailKept
<1>3. CASE ~K!KeyTaken(r)
  <2>1. /\ entries' = entries \cup {<<r, "key">>}
        /\ keyAt' = [keyAt EXCEPT ![r] = "commit"]
        /\ UNCHANGED <<owner, name, key, saved>>
    BY <1>3 DEF K!InsertKey, K!Goto, K!row
  <2>2. \A q \in Pages \ {r} : Indexed(q, "key") => key[q] # key[r]
    BY <1>1, <1>3 DEF K!Blocked, K!KeyTaken, Indexed
  <2>3. KeyTypes'
    BY <2>1 DEF K!Steps
  <2>4. EntryInv'
    BY <1>1, <2>1 DEF EntryInv
  <2>5. UniqueInv'
    BY <2>1, <2>2 DEF UniqueInv, Indexed, K!SameName
  <2>6. ConflictInv'
    BY <2>1 DEF ConflictInv, K!NameTaken, K!KeyTaken, K!SameName
  <2> QED  BY <2>3, <2>4, <2>5, <2>6
<1> QED  BY <1>2, <1>3

LEMMA CommitKept == ASSUME KInv, NEW r \in Pages, K!Commit(r) PROVE KInv'
<1> USE DEF KInv, KeyTypes
<1>1. /\ keyAt[r] = "commit"
      /\ saved' = saved \cup {r}
      /\ entries' = entries \ ({r} \X {"name", "key"})
      /\ keyAt' = [keyAt EXCEPT ![r] = "created"]
      /\ UNCHANGED <<owner, name, key>>
  BY DEF K!Commit, K!Rollback, K!Goto, K!row
<1>2. KeyTypes'
  BY <1>1 DEF K!Answers
<1>3. EntryInv'
  BY <1>1 DEF EntryInv
\* What is saved was in both indexes before.
<1>4. \A q \in Pages, index \in {"name", "key"} : Indexed(q, index)' => Indexed(q, index)
  BY <1>1 DEF Indexed, EntryInv
<1>5. UniqueInv'
  BY <1>1, <1>4 DEF UniqueInv, K!SameName
<1>6. ConflictInv'
  BY <1>1 DEF ConflictInv, K!NameTaken, K!KeyTaken, K!SameName
<1> QED  BY <1>2, <1>3, <1>5, <1>6

LEMMA SubmitKept ==
    ASSUME KInv, NEW r \in Pages, K!Submit(r)
    PROVE  /\ KInv'
           /\ \A q \in Pages \ {r} : keyAt'[q] = keyAt[q] /\ owner'[q] = owner[q]
<1> USE DEF KInv, KeyTypes
<1>1. PICK u \in Logins, n \in Names :
          owner' = [owner EXCEPT ![r] = u] /\ name' = [name EXCEPT ![r] = n]
  BY DEF K!Submit
<1>2. PICK step \in {"name", "invalid"}, k \in Keys \cup Pages \cup {NoKey} :
          keyAt' = [keyAt EXCEPT ![r] = step] /\ key' = [key EXCEPT ![r] = k]
  <2>1. CASE key' = key
    <3>1. key' = [key EXCEPT ![r] = key[r]] /\ key[r] \in Keys \cup Pages \cup {NoKey}
      BY <2>1
    <3>2. \E step \in {"name", "invalid"} : keyAt' = [keyAt EXCEPT ![r] = step]
      BY DEF K!Submit, K!Goto
    <3> QED  BY <3>1, <3>2
  <2>2. CASE \E k \in Keys : key' = [key EXCEPT ![r] = k]
    <3>1. \E step \in {"name", "invalid"} : keyAt' = [keyAt EXCEPT ![r] = step]
      BY DEF K!Submit, K!Goto
    <3> QED  BY <2>2, <3>1
  <2> QED  BY <2>1, <2>2 DEF K!Submit
<1>3. keyAt[r] = "new" /\ UNCHANGED <<entries, saved>>
  BY DEF K!Submit
<1> QED  BY <1>1, <1>2, <1>3, StepKept

LEMMA ServeKept ==
    ASSUME KInv, NEW r \in Pages, K!Serve(r) \/ K!Lose(r)
    PROVE  /\ KInv'
           /\ owner' = owner /\ keyAt[r] # "new"
           /\ \A q \in Pages \ {r} : keyAt'[q] = keyAt[q]
<1>1. CASE K!SelectName(r) \/ K!SelectKey(r)
  <2>1. keyAt[r] \in {"name", "key"} /\ owner' = owner
    BY <1>1 DEF K!SelectName, K!SelectKey, K!Fail, K!row
  <2>2. ASSUME NEW answer \in {"nameTaken", "keyTaken"}, K!Fail(r, answer),
               answer = "nameTaken" => K!NameTaken(r),
               answer = "keyTaken" => K!KeyTaken(r)
        PROVE  KInv' /\ \A q \in Pages \ {r} : keyAt'[q] = keyAt[q]
    BY <2>1, <2>2, FailKept DEF K!Fail, K!Goto, KInv, KeyTypes
  <2>3. ASSUME NEW step \in {"key", "insertName"}, K!Goto(r, step),
               UNCHANGED <<owner, name, key, entries, saved>>
        PROVE  KInv' /\ \A q \in Pages \ {r} : keyAt'[q] = keyAt[q]
    BY <2>1, <2>3, StepKept DEF K!Goto, KInv, KeyTypes
  <2>4. CASE K!SelectName(r) /\ K!NameTaken(r)
    BY <2>1, <2>2, <2>4 DEF K!SelectName
  <2>5. CASE K!SelectKey(r) /\ K!KeyTaken(r)
    BY <2>1, <2>2, <2>5 DEF K!SelectKey
  <2>6. CASE K!SelectName(r) /\ ~K!NameTaken(r)
    <3> DEFINE step == IF importing[r] THEN "key" ELSE "insertName"
    <3>1. K!Goto(r, step) /\ UNCHANGED <<owner, name, key, entries, saved>>
      BY <2>6 DEF K!SelectName, K!row
    <3>2. step \in {"key", "insertName"}
      OBVIOUS
    <3> HIDE DEF step
    <3> QED  BY <2>1, <2>3, <3>1, <3>2
  <2>7. CASE K!SelectKey(r) /\ ~K!KeyTaken(r)
    BY <2>1, <2>3, <2>7 DEF K!SelectKey, K!row
  <2> QED  BY <1>1, <2>4, <2>5, <2>6, <2>7
<1>2. CASE K!InsertName(r) \/ K!InsertKey(r) \/ K!Commit(r)
  <2>1. KInv'
    BY <1>2, InsertNameKept, InsertKeyKept, CommitKept
  <2>2. owner' = owner /\ keyAt[r] # "new" /\ \E step : keyAt' = [keyAt EXCEPT ![r] = step]
    BY <1>2 DEF K!InsertName, K!InsertKey, K!Commit, K!Integrity, K!Fail, K!Goto, K!row
  <2> QED  BY <2>1, <2>2 DEF KInv, KeyTypes
<1>3. CASE K!Resolve(r) \/ K!Lose(r)
  <2>1. PICK answer \in {"nameTaken", "keyTaken", "lost"} :
            /\ K!Fail(r, answer)
            /\ answer = "nameTaken" => K!NameTaken(r)
            /\ answer = "keyTaken" => K!KeyTaken(r)
    BY <1>3 DEF K!Resolve, K!Lose, KInv, ConflictInv
  <2>2. keyAt[r] \in K!Steps \ {"new"}
    BY <1>3 DEF K!Resolve, K!Lose, K!Steps
  <2>3. keyAt[r] # "created" /\ keyAt[r] # "new"
    BY <2>2 DEF K!Steps
  <2> QED  BY <2>1, <2>3, FailKept DEF K!Fail, K!Goto, K!row, KInv, KeyTypes
<1> QED  BY <1>1, <1>2, <1>3 DEF K!Serve

-----------------------------------------------------------------------------
(* Both together *)

LEMMA PortalInitInv == PortalInit => PInv
<1> SUFFICES ASSUME PortalInit PROVE PInv
  OBVIOUS
<1>1. IInv /\ KInv
  BY InitInv, KeysInit DEF PortalInit
<1>2. OwnerInv
  BY DEF PortalInit, K!Init, OwnerInv
<1> QED  BY <1>1, <1>2 DEF PInv

\* Every step of the portal is one of Sessions or leaves its variables alone.
LEMMA StepOfSessions == [PortalNext]_portal => [Next]_vars
BY DEF PortalNext, portal, SubmitKey, ServeKey, LoseKey

LEMMA KeysKept ==
    KInv /\ keyAt' = keyAt /\ UNCHANGED <<owner, name, key, entries, saved>> => KInv'
BY DEF KInv, KeyTypes, EntryInv, UniqueInv, Indexed, ConflictInv, K!NameTaken, K!KeyTaken, K!SameName

LEMMA PortalKept == PInv /\ [PortalNext]_portal => PInv'
<1> SUFFICES ASSUME PInv, [PortalNext]_portal PROVE PInv'
  OBVIOUS
<1>0. IInv /\ KInv /\ OwnerInv /\ TypeOK /\ AccountInv
  BY DEF PInv, IInv
<1>1. IInv'
  BY <1>0, StepOfSessions, NextInv
<1>2. CASE UNCHANGED keyVars
  <2>1. KInv'
    BY <1>0, <1>2, KeysKept DEF keyVars
  <2>2. ASSUME NEW r \in Pages, keyAt[r] # "new"
        PROVE  at'[r] = "ok" /\ owner[r] = account'[cookie'[r]]
    <3>1. at[r] = "ok" /\ owner[r] = account[cookie[r]]
      BY <1>0, <2>2 DEF OwnerInv
    <3>2. at'[r] = "ok" /\ cookie'[r] = cookie[r]
      BY <1>0, <3>1, StepOfSessions, PageStays
    <3>3. cookie[r] \in Logins /\ at[cookie[r]] = "ok"
      BY <1>0, <3>1 DEF IInv, EndInv, CookieInv, Past
    <3>4. account'[cookie[r]] = account[cookie[r]]
      BY <1>0, <3>3, StepOfSessions, LastingSteps DEF Lasting
    <3> QED  BY <3>1, <3>2, <3>4
  <2>3. OwnerInv'
    BY <1>2, <2>2 DEF OwnerInv, keyVars
  <2> QED  BY <1>1, <2>1, <2>3 DEF PInv
<1>3. ASSUME NEW r \in Pages, SubmitKey(r) PROVE PInv'
  <2>1. KInv' /\ \A q \in Pages \ {r} : keyAt'[q] = keyAt[q] /\ owner'[q] = owner[q]
    BY <1>0, <1>3, SubmitKept DEF SubmitKey
  <2>2. at[r] = "ok" /\ cookie[r] \in Logins /\ at[cookie[r]] = "ok"
    BY <1>0, <1>3 DEF SubmitKey, IInv, EndInv, CookieInv, Past
  <2>3. owner'[r] = account[cookie[r]]
    BY <1>0, <1>3, <2>2, OwnerIsAccount DEF SubmitKey
  <2>4. UNCHANGED <<at, account, cookie>>
    BY <1>3 DEF SubmitKey, vars, reqs
  <2>5. OwnerInv'
    BY <1>0, <2>1, <2>2, <2>3, <2>4 DEF OwnerInv
  <2> QED  BY <1>1, <2>1, <2>5 DEF PInv
<1>4. ASSUME NEW r \in Pages, ServeKey(r) \/ LoseKey(r) PROVE PInv'
  <2>1. /\ KInv'
        /\ owner' = owner /\ keyAt[r] # "new"
        /\ \A q \in Pages \ {r} : keyAt'[q] = keyAt[q]
    BY <1>0, <1>4, ServeKept DEF ServeKey, LoseKey
  <2>2. UNCHANGED <<at, account, cookie>>
    BY <1>4 DEF ServeKey, LoseKey, vars, reqs
  <2>3. OwnerInv'
    BY <1>0, <2>1, <2>2 DEF OwnerInv
  <2> QED  BY <1>1, <2>1, <2>3 DEF PInv
<1> QED  BY <1>2, <1>3, <1>4 DEF PortalNext, portal

LEMMA PortalSafe == PortalSpec => []PInv
BY PortalInitInv, PortalKept, PTL DEF PortalSpec

-----------------------------------------------------------------------------
(* Theorems *)

\* However first logins of one person race (get_or_create_user in the
\* transaction of _login_and_create_session), the person has one account,
\* whole from the moment it is committed, and every session is of the account
\* of the person who logged in.
THEOREM AccountsWhole == PortalSpec => []OneWholeAccount
<1>1. PInv => OneWholeAccount
  BY InvSuffices DEF PInv
<1> QED  BY <1>1, PortalSafe, PTL

\* get_current_user accepts no request that came after its session was logged
\* out or expired or its user deactivated, whatever commits between its reads.
THEOREM EndedRefused == PortalSpec => []EndedIsRefused
<1>1. PInv => EndedIsRefused
  BY InvSuffices DEF PInv
<1> QED  BY <1>1, PortalSafe, PTL

\* auth_callback need not try a third time: no login is answered with the
\* IntegrityError of its second attempt.
THEOREM OneRetry == PortalSpec => []RetryIsEnough
<1>1. PInv => RetryIsEnough
  BY InvSuffices DEF PInv
<1> QED  BY <1>1, PortalSafe, PTL

\* No statement of a page or a login clears the revoked_at that
\* revoke_user_session committed.
THEOREM RevokedForGood == PortalSpec => RevokedStays
<1>1. PInv /\ [PortalNext]_portal => [revoked \subseteq revoked' /\ loggedOut \subseteq revoked]_vars
  BY StepOfSessions, RevokedKept DEF PInv
<1> QED  BY <1>1, PortalSafe, PTL DEF PortalSpec, RevokedStays

\* However imports and generations race between the selects and the flush of
\* import_ssh_public_key and generate_ssh_key_pair, no two saved keys have one
\* fingerprint and no owner has two keys of one name.
THEOREM KeysDistinct == PortalSpec => []SavedAreDistinct
<1>1. PInv => SavedAreDistinct
  BY DEF PInv, KInv, KeyTypes, UniqueInv, Indexed, SavedAreDistinct, K!SavedAreDistinct
<1> QED  BY <1>1, PortalSafe, PTL

\* What an import or generation answers with 409 is true: the name is taken in
\* the owner's list, or the fingerprint is in use and not the request's own,
\* also after the IntegrityError and the second look of import_ssh_public_key.
THEOREM ConflictsReal == PortalSpec => []ConflictIsReal
<1>1. PInv => ConflictIsReal
  BY DEF PInv, KInv, EntryInv, ConflictInv, ConflictIsReal, K!ConflictIsReal
<1> QED  BY <1>1, PortalSafe, PTL

\* import_ssh_key and generate_ssh_key save a key for the account of the person
\* whose login set the cookie, and never for a session that had ended when the
\* request came.
THEOREM KeysOwn == PortalSpec => []KeyIsOwn
<1>1. ASSUME PInv, NEW r \in saved
      PROVE  r \notin barred /\ <<person[cookie[r]], owner[r]>> \in identities
  <2>1. r \in Pages /\ keyAt[r] = "created"
    BY <1>1 DEF PInv, KInv, KeyTypes, EntryInv
  <2>2. at[r] = "ok" /\ owner[r] = account[cookie[r]]
    BY <1>1, <2>1 DEF PInv, OwnerInv
  <2>3. r \notin barred
    BY <1>1, <2>2 DEF PInv, IInv, EndInv, BarredInv
  <2>4. cookie[r] \in Logins /\ at[cookie[r]] = "ok"
    BY <1>1, <2>1, <2>2 DEF PInv, IInv, EndInv, CookieInv, Past
  <2>5. <<cookie[r], account[cookie[r]]>> \in sessions
    BY <1>1, <2>4 DEF PInv, IInv, AccountInv, SessionRows
  <2>6. <<person[cookie[r]], account[cookie[r]]>> \in identities
    <3>1. \A s \in sessions : <<person[s[1]], s[2]>> \in identities
      BY <1>1 DEF PInv, IInv, AccountInv, OneWholeAccount
    <3> QED  BY <2>5, <3>1
  <2> QED  BY <2>2, <2>3, <2>6
<1>2. PInv => KeyIsOwn
  BY <1>1 DEF KeyIsOwn
<1> QED  BY <1>2, PortalSafe, PTL

\* A login that has inserted an identity and a request that has inserted a
\* fingerprint only have to commit, and one that has inserted a name waits at
\* most for such a fingerprint: auth_callback, import_ssh_public_key and
\* generate_ssh_key_pair never wait in a circle.
THEOREM NeverInCircle == PortalSpec => []NobodyInCircle
<1>1. ASSUME PInv, NEW l \in Logins, Waits(l)
      PROVE  \E q \in Logins : Busy(q) /\ ~Waits(q)
  <2>1. PICK q \in Logins : claim[person[l]] = q
    BY <1>1 DEF Waits, PInv, IInv, TypeOK
  <2>2. at[q] \in {"plan", "save"}
    BY <1>1, <2>1 DEF PInv, IInv, AccountInv, ClaimInv, TypeOK
  <2> QED  BY <2>2 DEF Busy, Waits, Steps
<1>2. PInv => NoCircle
  BY <1>1 DEF NoCircle
<1>3. ASSUME PInv, NEW r \in Pages, keyAt[r] = "insertKey", K!Waits(r)
      PROVE  \E q \in Pages : K!Busy(q) /\ ~K!Waits(q)
  <2>1. PICK q \in Pages : <<q, "key">> \in entries
    BY <1>3 DEF K!Waits, K!Blocked
  <2>2. keyAt[q] = "commit"
    BY <1>3, <2>1 DEF PInv, KInv, EntryInv
  <2> QED  BY <2>2 DEF K!Busy, K!Waits, K!Steps
<1>4. ASSUME PInv, NEW r \in Pages, keyAt[r] = "insertName", K!Waits(r)
      PROVE  \E q \in Pages : K!Busy(q) /\ ~K!Waits(q)
  <2>1. PICK q \in Pages : <<q, "name">> \in entries
    BY <1>4 DEF K!Waits, K!Blocked
  <2>2. keyAt[q] \in {"insertKey", "commit"}
    BY <1>4, <2>1 DEF PInv, KInv, EntryInv
  <2>3. K!Busy(q) /\ (keyAt[q] = "commit" => ~K!Waits(q))
    BY <2>2 DEF K!Busy, K!Waits, K!Steps
  <2> QED  BY <1>3, <1>4, <2>2, <2>3
<1>5. PInv => K!NoCircle
  BY <1>3, <1>4 DEF K!NoCircle, K!Waits
<1>6. PInv => NobodyInCircle
  BY <1>2, <1>5 DEF NobodyInCircle
<1> QED  BY <1>6, PortalSafe, PTL
=============================================================================
