------------------------------- MODULE SshKeys -------------------------------
(***************************************************************************)
(* Concurrent imports and generations of SSH public keys                   *)
(* (portal/app/ssh_keys/services.py, with the transaction ends of          *)
(* router.py).  A request is one PostgreSQL transaction at READ COMMITTED, *)
(* a step one statement of it; the INSERT is two steps, one for each       *)
(* unique index: it waits for an uncommitted entry that equals its own and *)
(* raises IntegrityError on a committed one, which aborts the transaction. *)
(* A row is named after its request, and so is the key a request           *)
(* generates: it is new.                                                   *)
(***************************************************************************)
EXTENDS FiniteSets

CONSTANTS
    Requests,
    Users,
    Names,         \* names of keys
    Keys,          \* fingerprints of keys that users bring
    NoKey          \* "not parsed or generated yet"

Fingerprints == Keys \cup Requests

VARIABLES
    at,            \* what the request does next, or how it was answered
    importing,     \* import, not generate
    owner, name, key,  \* the row it is about
    entries,       \* uncommitted index entries: <<request, index>>
    saved          \* requests whose row is committed

row  == <<owner, name, key>>
vars == <<at, importing, row, entries, saved>>

Steps   == {"new", "name", "key", "insertName", "insertKey", "commit", "resolve"}
Answers == {"created", "nameTaken", "keyTaken", "invalid", "error", "lost"}

TypeOK ==
    /\ at \in [Requests -> Steps \cup Answers]
    /\ importing \in [Requests -> BOOLEAN]
    /\ owner \in [Requests -> Users]
    /\ name \in [Requests -> Names]
    /\ key \in [Requests -> Fingerprints \cup {NoKey}]
    /\ entries \subseteq Requests \X {"name", "key"}
    /\ saved \subseteq {r \in Requests : key[r] # NoKey}

\* An empty table.
Init ==
    /\ at = [r \in Requests |-> "new"]
    /\ importing = [r \in Requests |-> TRUE]
    /\ \E u \in Users, n \in Names :
           owner = [r \in Requests |-> u] /\ name = [r \in Requests |-> n]
    /\ key = [r \in Requests |-> NoKey]
    /\ entries = {}
    /\ saved = {}

-----------------------------------------------------------------------------
Goto(r, step) == at' = [at EXCEPT ![r] = step]

SameName(r, q) == owner[q] = owner[r] /\ name[q] = name[r]

NameTaken(r) == \E q \in saved : SameName(r, q)

KeyTaken(r) == \E q \in saved : key[q] = key[r]

\* Another request has an equal entry in an index, and is not through yet.
Blocked(r, index) ==
    \E q \in Requests \ {r} :
        /\ <<q, index>> \in entries
        /\ IF index = "name" THEN SameName(r, q) ELSE key[q] = key[r]

Rollback(r) == entries' = entries \ ({r} \X {"name", "key"})

\* Mutated: the error answer goes out on a transaction left open.
FailLeavesOpen(r, answer) ==
    /\ Goto(r, answer)
    /\ UNCHANGED <<importing, row, entries, saved>>

\* An exception: the router rolls back and answers.
Fail(r, answer) ==
    /\ Goto(r, answer)
    /\ Rollback(r)
    /\ UNCHANGED <<importing, row, saved>>

-----------------------------------------------------------------------------
(* POST /compute/ssh-keys/import and /generate *)

\* An import is parsed before anything is read.
Submit(r) ==
    /\ at[r] = "new"
    /\ \E u \in Users, n \in Names :
           owner' = [owner EXCEPT ![r] = u] /\ name' = [name EXCEPT ![r] = n]
    /\ \E imports \in BOOLEAN : importing' = [importing EXCEPT ![r] = imports]
    /\ \/ importing'[r] /\ Goto(r, "invalid") /\ UNCHANGED key
       \/ importing'[r] /\ Goto(r, "name") /\ \E k \in Keys : key' = [key EXCEPT ![r] = k]
       \/ ~importing'[r] /\ Goto(r, "name") /\ UNCHANGED key
    /\ UNCHANGED <<entries, saved>>

\* import_ssh_public_key and generate_ssh_key_pair: existing_name.
SelectName(r) ==
    /\ at[r] = "name"
    /\ IF NameTaken(r)
       THEN Fail(r, "nameTaken")
       ELSE /\ Goto(r, IF importing[r] THEN "key" ELSE "insertName")
            /\ UNCHANGED <<importing, row, entries, saved>>

\* import_ssh_public_key: existing_key.
SelectKey(r) ==
    /\ at[r] = "key"
    /\ IF KeyTaken(r)
       THEN Fail(r, "keyTaken")
       ELSE Goto(r, "insertName") /\ UNCHANGED <<importing, row, entries, saved>>

\* IntegrityError of the flush: import looks again, generate does not catch it.
Integrity(r) == Fail(r, IF importing[r] THEN "resolve" ELSE "error")

\* Mutated: no unique index on owner and name.
InsertNameUnindexed(r) ==
    /\ at[r] = "insertName"
    /\ entries' = entries \cup {<<r, "name">>}
    /\ key' = [key EXCEPT ![r] = IF importing[r] THEN @ ELSE r]
    /\ Goto(r, "insertKey")
    /\ UNCHANGED <<importing, owner, name, saved>>

\* flush: the entry in uq_ssh_public_keys_owner_name; generate has made its
\* key by now.
InsertName(r) ==
    /\ at[r] = "insertName"
    /\ ~Blocked(r, "name")
    /\ IF NameTaken(r)
       THEN Integrity(r)
       ELSE /\ entries' = entries \cup {<<r, "name">>}
            /\ key' = [key EXCEPT ![r] = IF importing[r] THEN @ ELSE r]
            /\ Goto(r, "insertKey")
            /\ UNCHANGED <<importing, owner, name, saved>>

\* flush: the entry in uq_ssh_public_keys_fingerprint.
InsertKey(r) ==
    /\ at[r] = "insertKey"
    /\ ~Blocked(r, "key")
    /\ IF KeyTaken(r)
       THEN Integrity(r)
       ELSE /\ entries' = entries \cup {<<r, "key">>}
            /\ Goto(r, "commit")
            /\ UNCHANGED <<importing, row, saved>>

Commit(r) ==
    /\ at[r] = "commit"
    /\ saved' = saved \cup {r}
    /\ Rollback(r)
    /\ Goto(r, "created")
    /\ UNCHANGED <<importing, row>>

\* Mutated: after a conflict the name is not looked up again.
ResolveAsKey(r) == at[r] = "resolve" /\ Fail(r, "keyTaken")

\* import_ssh_public_key after IntegrityError: which of the two was it?
Resolve(r) ==
    /\ at[r] = "resolve"
    /\ Fail(r, IF NameTaken(r) THEN "nameTaken" ELSE "keyTaken")

\* The connection or the portal goes down: the transaction is rolled back.
Lose(r) ==
    /\ at[r] \in Steps \ {"new"}
    /\ Fail(r, "lost")

Serve(r) ==
    \/ SelectName(r) \/ SelectKey(r) \/ InsertName(r) \/ InsertKey(r)
    \/ Commit(r) \/ Resolve(r)

Next == \E r \in Requests : Submit(r) \/ Serve(r) \/ Lose(r)

Spec == Init /\ [][Next]_vars

\* A request that has begun and has not been answered.
Busy(r) == at[r] \in Steps \ {"new"}

\* What a statement can wait for: an uncommitted entry that equals its own.
Waits(r) ==
    \/ at[r] = "insertName" /\ Blocked(r, "name")
    \/ at[r] = "insertKey" /\ Blocked(r, "key")

-----------------------------------------------------------------------------
(* Properties *)

\* However imports and generations race, no two saved keys have one
\* fingerprint, whoever owns them, and no owner has two keys of one name.
SavedAreDistinct ==
    \A q, r \in saved : q # r => ~SameName(r, q) /\ key[q] # key[r]

\* A 409 tells the truth about which of the two is taken, also when the
\* conflict only shows at the index and the rows are read again.
ConflictIsReal ==
    \A r \in Requests :
        /\ at[r] = "nameTaken" => NameTaken(r)
        /\ at[r] = "keyTaken" => KeyTaken(r) /\ r \notin saved

\* Requests that wait for uncommitted names and fingerprints never wait in a
\* circle.
NoCircle == (\E r \in Requests : Busy(r)) => \E r \in Requests : Busy(r) /\ ~Waits(r)
=============================================================================
