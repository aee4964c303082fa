------------------------------- MODULE Portal -------------------------------
(***************************************************************************)
(* The portal's web requests in a row: a page passes get_current_user      *)
(* (Sessions) and then imports or generates an SSH key (SshKeys) for the   *)
(* user it found, beside other logins, logouts and pages.  The router uses *)
(* one database session for both; the check is over, and not repeated,     *)
(* when the key's statements begin (portal/app/ssh_keys/router.py).        *)
(* A form that verify_csrf refuses changes nothing and is left out.        *)
(***************************************************************************)
EXTENDS Sessions

CONSTANTS
    Names,         \* names of keys
    Keys,          \* fingerprints of keys that users bring
    NoKey          \* "not parsed or generated yet"

ASSUME PortalAssumption == Keys \cap Pages = {} /\ NoKey \notin Keys \cup Pages

VARIABLES keyAt, importing, owner, name, key, entries, saved

keyVars == <<keyAt, importing, owner, name, key, entries, saved>>
portal == <<vars, keyVars>>

\* A key's request is the page that sends it, its owner a user row.
K == INSTANCE SshKeys WITH Requests <- Pages, Users <- Logins, at <- keyAt

PortalInit == Init /\ K!Init

\* Mutated: the form says whose key it is.
SubmitAnyKey(r) ==
    /\ at[r] = "ok"
    /\ K!Submit(r)
    /\ UNCHANGED vars

\* current_user: the key is for the user get_current_user returned.
SubmitKey(r) ==
    /\ at[r] = "ok"
    /\ K!Submit(r)
    /\ owner'[r] = Owner(cookie[r])
    /\ UNCHANGED vars

ServeKey(r) == K!Serve(r) /\ UNCHANGED vars

LoseKey(r) == "portal" \in Faults /\ K!Lose(r) /\ UNCHANGED vars

PortalNext ==
    \/ Next /\ UNCHANGED keyVars
    \/ \E r \in Pages : SubmitKey(r) \/ ServeKey(r) \/ LoseKey(r)

PortalSpec == PortalInit /\ [][PortalNext]_portal

-----------------------------------------------------------------------------
(* Properties *)

\* However imports and generations of several users race, no two saved keys
\* have one fingerprint, whoever owns them, and no owner has two of one name.
SavedAreDistinct == K!SavedAreDistinct

\* A 409 tells the truth about which of the two is taken, also when the
\* conflict only shows at the index and the rows are read again.
ConflictIsReal == K!ConflictIsReal

\* A saved key belongs to the account of the person whose login set the
\* cookie, and was not sent with a session that had ended (import_ssh_key
\* takes the user from get_current_user).
KeyIsOwn ==
    \A r \in saved : r \notin barred /\ <<person[cookie[r]], owner[r]>> \in identities

\* Neither logins nor the requests of keys wait for each other in a circle.
NobodyInCircle == NoCircle /\ K!NoCircle

\* Every request under way is answered: only an uncommitted identity, name or
\* fingerprint holds one up, and never all of them.  Each takes a bounded
\* number of steps (auth_callback retries once).
SomeoneGoesOn ==
    /\ \A l \in Logins : Busy(l) /\ ~Waits(l) => ENABLED Login(l)
    /\ \A r \in Pages : Busy(r) => ENABLED Page(r)
    /\ \A r \in Pages : K!Busy(r) /\ ~K!Waits(r) => ENABLED ServeKey(r)
    /\ \A r \in Logouts : Busy(r) => ENABLED Logout(r)
    /\ NobodyInCircle
=============================================================================
