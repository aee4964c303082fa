----------------------------- MODULE ClusterUser ------------------------------
(***************************************************************************)
(* scripts/create-cluster-user.py: one run chooses a UID and then creates  *)
(* the user on bastion01, on condor01, on the execute nodes and, as        *)
(* directories, on /data, host by host.  Administrators may run it at the  *)
(* same time; any host may fail at any moment, and a run that fails leaves *)
(* behind what it has done.                                                *)
(*                                                                         *)
(* Left out: --dry-run, the syntax of names and keys, and authorized_keys, *)
(* which every run overwrites with the key it is given.                    *)
(***************************************************************************)
EXTENDS Integers, FiniteSets

CONSTANTS
    Runs,            \* runs of the script
    Names,           \* login names
    Root,            \* a name every host has, with a UID outside the range
    Bastion, Condor, \* bastion01, condor01
    Nodes,           \* the execute nodes, EXECUTE_GROUP
    UidMin, UidMax,
    Explicit         \* whether --uid is used

ASSUME ClusterUserAssumption ==
    /\ Root \in Names
    /\ Bastion # Condor /\ Bastion \notin Nodes /\ Condor \notin Nodes
    /\ UidMin \in Nat \ {0} /\ UidMax \in Nat
    /\ Explicit \in BOOLEAN

NoUid == -1
UidRange == UidMin..UidMax
Hosts == {Bastion, Condor} \cup Nodes

\* The command line.  full is the mode without any of the three -only flags.
Options == [name : Names,
            mode : {"full", "accounts", "storage", "execute"},
            nodes : BOOLEAN,                        \* --execute-nodes
            uid : IF Explicit THEN {NoUid, 0} \cup UidRange ELSE {NoUid}]

VARIABLES
    passwd,    \* the accounts of each host
    dirs,      \* owner of a name's directories on /data
    run        \* the variables of each run

vars == <<passwd, dirs, run>>

Phases == {"idle", "lookup", "list", "hosts", "storage", "done", "unstored", "stopped"}

RunVars ==
    [phase : Phases, opts : Options, uid : Int,
     used : SUBSET Int,      \* the UIDs it has read
     left : SUBSET Hosts,    \* where it still has to read, or to create the user
     absent : SUBSET Hosts,  \* where its script has found no such user
     failed : BOOLEAN]       \* a host has failed

TypeOK ==
    /\ passwd \in [Hosts -> [Names -> Nat \cup {NoUid}]]
    /\ dirs \in [Names -> UidRange \cup {NoUid}]
    /\ run \in [Runs -> RunVars]
    /\ \A r \in Runs :
          run[r].phase \in {"hosts", "storage", "done", "unstored"} => run[r].uid \in UidRange

\* A run that is not running: its variables say nothing.
Inactive(label) ==
    [phase |-> label, opts |-> [name |-> Root, mode |-> "full", nodes |-> FALSE, uid |-> NoUid],
     uid |-> NoUid, used |-> {}, left |-> {}, absent |-> {}, failed |-> FALSE]

Init ==
    /\ passwd = [h \in Hosts |-> [n \in Names |-> IF n = Root THEN 0 ELSE NoUid]]
    /\ dirs = [n \in Names |-> NoUid]
    /\ run = [r \in Runs |-> Inactive("idle")]

-----------------------------------------------------------------------------
(* The order of the hosts: ansible handles the execute nodes side by side. *)

Group(h) == CASE h = Bastion -> 1 [] h = Condor -> 2 [] OTHER -> 3

InTurn(r, h) == h \in run[r].left /\ \A g \in run[r].left : Group(h) <= Group(g)

EntryHosts == {Bastion, Condor}

Targets(o) ==
    (IF o.mode \in {"full", "accounts"} THEN EntryHosts ELSE {})
        \cup (IF o.nodes \/ o.mode = "execute" THEN Nodes ELSE {})

HasStorage(o) == o.mode \in {"full", "storage"}

\* SystemExit, or a CalledProcessError.
Stop(r) == run' = [run EXCEPT ![r] = Inactive("stopped")]

-----------------------------------------------------------------------------
(* Choice of the UID *)

\* The check of the range; then the hosts.
UseUid(r, o, u) ==
    \/ /\ u \in UidRange
       /\ run' = [run EXCEPT ![r] = [Inactive("hosts") EXCEPT
                     !.opts = o, !.uid = u, !.left = Targets(o)]]
    \/ u \notin UidRange /\ Stop(r)

Start(r, o) ==
    /\ run[r].phase = "idle"
    /\ \/ o.uid # NoUid /\ UseUid(r, o, o.uid)
       \/ /\ o.uid = NoUid /\ o.mode \in {"storage", "execute"}
          /\ run' = [run EXCEPT ![r].phase = "lookup", ![r].opts = o]
       \/ /\ o.uid = NoUid /\ o.mode \in {"full", "accounts"}
          /\ run' = [run EXCEPT ![r].phase = "list", ![r].opts = o,
                ![r].left = EntryHosts \cup IF o.nodes THEN Nodes ELSE {}]
    /\ UNCHANGED <<passwd, dirs>>

\* Mutated: a user that is not on condor01 is given the next free UID.
LookUpOrNext(r) ==
    /\ run[r].phase = "lookup"
    /\ LET u == passwd[Condor][run[r].opts.name] IN
       \/ u # NoUid /\ UseUid(r, run[r].opts, u)
       \/ u = NoUid /\ \E v \in UidRange :
             /\ \A n \in Names : passwd[Condor][n] # v
             /\ UseUid(r, run[r].opts, v)
    /\ UNCHANGED <<passwd, dirs>>

\* get_user_uid: the user must exist on condor01.
LookUp(r) ==
    /\ run[r].phase = "lookup"
    /\ LET u == passwd[Condor][run[r].opts.name] IN
       IF u = NoUid THEN Stop(r) ELSE UseUid(r, run[r].opts, u)
    /\ UNCHANGED <<passwd, dirs>>

\* next_uid: getent passwd on one host after the other.
ReadPasswd(r, h) ==
    /\ run[r].phase = "list" /\ InTurn(r, h)
    /\ run' = [run EXCEPT ![r].used = @ \cup {passwd[h][n] : n \in Names},
                          ![r].left = @ \ {h}]
    /\ UNCHANGED <<passwd, dirs>>

FreeUids(r) == UidRange \ run[r].used

\* The first UID that was free on every host when it was read.
Allocate(r) ==
    /\ run[r].phase = "list" /\ run[r].left = {}
    /\ \/ \E u \in FreeUids(r) :
             (\A v \in FreeUids(r) : u <= v) /\ UseUid(r, run[r].opts, u)
       \/ FreeUids(r) = {} /\ Stop(r)
    /\ UNCHANGED <<passwd, dirs>>

\* A host cannot be read: the run ends.
Unreadable(r) ==
    /\ run[r].phase \in {"lookup", "list"}
    /\ Stop(r)
    /\ UNCHANGED <<passwd, dirs>>

-----------------------------------------------------------------------------
(* remote_user_script, execute_user_script on one host *)

\* The script ends well.
Finish(r, h) ==
    run' = [run EXCEPT ![r].left = @ \ {h}, ![r].absent = @ \ {h}]

\* Mutated: nobody looks at the exit status.
FailUnnoticed(r, h) == Finish(r, h)

\* It does not: other nodes go on, the hosts that come later are left out.
Fail(r, h) ==
    run' = [run EXCEPT ![r].left = {g \in @ \ {h} : Group(g) = Group(h)},
                       ![r].absent = @ \ {h}, ![r].failed = TRUE]

Account(r, h) == passwd[h][run[r].opts.name]

Creating(r, h) == run[r].phase = "hosts" /\ InTurn(r, h)

\* Mutated: any account of that name will do.
CheckUserName(r, h) ==
    /\ Creating(r, h) /\ h \notin run[r].absent
    /\ IF Account(r, h) = NoUid
       THEN run' = [run EXCEPT ![r].absent = @ \cup {h}]
       ELSE Finish(r, h)
    /\ UNCHANGED <<passwd, dirs>>

\* getent passwd, id -u
CheckUser(r, h) ==
    /\ Creating(r, h) /\ h \notin run[r].absent
    /\ \/ /\ Account(r, h) = NoUid
          /\ run' = [run EXCEPT ![r].absent = @ \cup {h}]
       \/ Account(r, h) = run[r].uid /\ Finish(r, h)
       \/ Account(r, h) \notin {NoUid, run[r].uid} /\ Fail(r, h)
    /\ UNCHANGED <<passwd, dirs>>

\* Mutated: useradd -o.
AddableNonUnique(r, h) == Account(r, h) = NoUid

\* useradd refuses a name or a UID the host has.
Addable(r, h) == Account(r, h) = NoUid /\ \A n \in Names : passwd[h][n] # run[r].uid

\* useradd; what comes after it may still fail.
AddUser(r, h) ==
    /\ Creating(r, h) /\ h \in run[r].absent
    /\ \/ /\ Addable(r, h)
          /\ passwd' = [passwd EXCEPT ![h][run[r].opts.name] = run[r].uid]
          /\ Finish(r, h) \/ Fail(r, h)
       \/ ~Addable(r, h) /\ Fail(r, h) /\ UNCHANGED passwd
    /\ UNCHANGED dirs

\* The host cannot be reached, or the connection is lost.
HostFails(r, h) ==
    /\ Creating(r, h)
    /\ Fail(r, h)
    /\ UNCHANGED <<passwd, dirs>>

HostsDone(r) ==
    /\ run[r].phase = "hosts" /\ run[r].left = {}
    /\ \/ run[r].failed /\ Stop(r)
       \/ /\ ~run[r].failed
          /\ run' = [run EXCEPT ![r].phase =
                        IF HasStorage(run[r].opts) THEN "storage" ELSE "unstored"]
    /\ UNCHANGED <<passwd, dirs>>

\* create_storage_dirs: /data is online, or not; the script may fail.
CreateStorage(r) ==
    /\ run[r].phase = "storage"
    /\ \/ /\ run' = [run EXCEPT ![r].phase = "done"]
          /\ dirs' = [dirs EXCEPT ![run[r].opts.name] = run[r].uid]
       \/ run' = [run EXCEPT ![r].phase = "unstored"] /\ UNCHANGED dirs
       \/ Stop(r) /\ UNCHANGED dirs
    /\ UNCHANGED passwd

-----------------------------------------------------------------------------
Step(r) ==
    \/ \E h \in Hosts : ReadPasswd(r, h) \/ CheckUser(r, h) \/ AddUser(r, h) \/ HostFails(r, h)
    \/ LookUp(r) \/ Allocate(r) \/ Unreadable(r) \/ HostsDone(r) \/ CreateStorage(r)

Next == \E r \in Runs : Step(r) \/ \E o \in Options : Start(r, o)

Spec == Init /\ [][Next]_vars

-----------------------------------------------------------------------------
(* Properties *)

\* A name has one UID on all hosts that know it, also after runs that raced or
\* failed half-way and were repeated: a run that meets another UID ends at the
\* first host and never comes to the next (remote_user_script, main).
SameUid ==
    \A n \in Names : \A g, h \in Hosts :
        passwd[g][n] # NoUid /\ passwd[h][n] # NoUid => passwd[g][n] = passwd[h][n]

\* No UID belongs to one name on one host and to another name elsewhere,
\* although two runs may choose the same free UID (next_uid): jobs and files
\* of one user are never another user's.
UidIsOwn ==
    \A m, n \in Names : \A g, h \in Hosts :
        m # n /\ passwd[g][m] # NoUid => passwd[g][m] # passwd[h][n]

\* The directories on /data belong to the account of their name, whichever
\* run made them (create_storage_dirs takes a number, not a name).
DirsAreOwn ==
    \A n \in Names : dirs[n] # NoUid =>
        /\ passwd[Bastion][n] = dirs[n]
        /\ passwd[Condor][n] = dirs[n]

\* One UID for a name and one name for a UID, on all hosts together.
UidsAgree == SameUid /\ UidIsOwn

\* "Done." is true: when a run says so its user is on every host it was for,
\* under its UID, whatever other runs did meanwhile (check=True in run).
DoneIsComplete ==
    \A r \in Runs : run[r].phase \in {"done", "unstored"} =>
        \A h \in Targets(run[r].opts) : Account(r, h) = run[r].uid
=============================================================================
