-------------------------- MODULE ClusterUser_proofs --------------------------
(***************************************************************************)
(* Proofs about ClusterUser for any number of runs, names and nodes.       *)
(***************************************************************************)
EXTENDS ClusterUser, TLAPS

Acting(r) == run[r].phase \in {"hosts", "storage", "done", "unstored"}

\* bastion01 comes first: it knows every account there is.
BastionFirst ==
    \A h \in Hosts : \A n \in Names : passwd[h][n] # NoUid => passwd[Bastion][n] = passwd[h][n]

BastionIsUnique ==
    \A m, n \in Names :
        m # n /\ passwd[Bastion][m] # NoUid => passwd[Bastion][m] # passwd[Bastion][n]

\* A run that goes on has its user on the entry hosts it is past, and a run
\* without failures on every host it is past.
EntryDone ==
    \A r \in Runs : \A e \in EntryHosts :
        Acting(r) /\ e \notin run[r].left /\ (run[r].failed => run[r].left # {})
            => Account(r, e) = run[r].uid

TargetDone ==
    \A r \in Runs : \A h \in Targets(run[r].opts) :
        Acting(r) /\ h \notin run[r].left /\ ~run[r].failed => Account(r, h) = run[r].uid

PhaseInv ==
    \A r \in Runs :
        /\ run[r].phase = "list" => run[r].opts.mode \in {"full", "accounts"}
        /\ run[r].phase \in {"storage", "done", "unstored"} => run[r].left = {} /\ ~run[r].failed

IInv ==
    /\ TypeOK
    /\ BastionFirst
    /\ BastionIsUnique
    /\ EntryDone
    /\ TargetDone
    /\ PhaseInv
    /\ DirsAreOwn

-----------------------------------------------------------------------------
\* Group orders the hosts: bastion01, condor01, the execute nodes.
LEMMA GroupOrder ==
    /\ \A h \in Hosts : Group(h) \in 1..3
    /\ \A h \in Hosts : Group(h) = 1 <=> h = Bastion
    /\ \A h \in Hosts : Group(h) = 2 <=> h = Condor
BY ClusterUserAssumption DEF Group, Hosts

\* A UID of the range is a UID.
LEMMA RangeIsUid == UidRange \subseteq Nat /\ NoUid \notin Nat /\ 0 \notin UidRange
BY ClusterUserAssumption DEF UidRange, NoUid

LEMMA InitInv == Init => IInv
<1> SUFFICES ASSUME Init PROVE IInv
  OBVIOUS
<1> USE ClusterUserAssumption DEF Init, Inactive
<1>1. TypeOK
  <2>1. Inactive("idle") \in RunVars
    BY DEF RunVars, Options, Phases, NoUid
  <2>2. passwd \in [Hosts -> [Names -> Nat \cup {NoUid}]]
    BY DEF NoUid
  <2> QED  BY <2>1, <2>2 DEF TypeOK, NoUid
<1>2. BastionFirst /\ BastionIsUnique /\ DirsAreOwn
  BY DEF BastionFirst, BastionIsUnique, DirsAreOwn, Hosts, NoUid
<1>3. EntryDone /\ TargetDone /\ PhaseInv
  BY DEF EntryDone, TargetDone, PhaseInv, Acting
<1> QED  BY <1>1, <1>2, <1>3 DEF IInv, UidsAgree

-----------------------------------------------------------------------------
\* A step that changes only the variables of run r, to value x, keeps what the
\* invariant says of the hosts and of the other runs.
LEMMA RunStep ==
    ASSUME IInv, NEW r \in Runs, NEW x \in RunVars,
           run' = [run EXCEPT ![r] = x], UNCHANGED <<passwd, dirs>>,
           x.phase \in {"hosts", "storage", "done", "unstored"} =>
               /\ x.uid \in UidRange
               /\ \A e \in EntryHosts : e \notin x.left /\ (x.failed => x.left # {})
                     => passwd[e][x.opts.name] = x.uid
               /\ \A h \in Targets(x.opts) : h \notin x.left /\ ~x.failed
                     => passwd[h][x.opts.name] = x.uid,
           x.phase = "list" => x.opts.mode \in {"full", "accounts"},
           x.phase \in {"storage", "done", "unstored"} => x.left = {} /\ ~x.failed
    PROVE  IInv'
<1>1. run'[r] = x /\ \A q \in Runs \ {r} : run'[q] = run[q]
  BY DEF IInv, TypeOK
<1>2. TypeOK'
  BY <1>1 DEF IInv, TypeOK
<1>3. BastionFirst' /\ BastionIsUnique' /\ DirsAreOwn'
  BY DEF IInv, BastionFirst, BastionIsUnique, DirsAreOwn
<1>4. EntryDone'
  BY <1>1 DEF IInv, EntryDone, Acting, Account
<1>5. TargetDone'
  BY <1>1 DEF IInv, TargetDone, Acting, Account
<1>6. PhaseInv'
  BY <1>1 DEF IInv, PhaseInv
<1> QED  BY <1>2, <1>3, <1>4, <1>5, <1>6 DEF IInv

\* SystemExit keeps the invariant.
LEMMA StopKeeps ==
    ASSUME IInv, NEW r \in Runs, Stop(r), UNCHANGED <<passwd, dirs>>
    PROVE  IInv'
<1>1. Inactive("stopped") \in RunVars /\ Inactive("stopped").phase = "stopped"
  BY ClusterUserAssumption DEF Inactive, RunVars, Options, Phases, NoUid
<1> QED  BY <1>1, RunStep DEF Stop

\* The script is sent to hosts under a UID that the entry hosts it leaves out
\* have for this name.
LEMMA UseUidKeeps ==
    ASSUME IInv, NEW r \in Runs, NEW o \in Options, NEW u \in Int,
           UseUid(r, o, u), UNCHANGED <<passwd, dirs>>,
           \A e \in EntryHosts : e \notin Targets(o) => passwd[e][o.name] = u
    PROVE  IInv'
<1>1. CASE u \notin UidRange
  BY <1>1, StopKeeps DEF UseUid
<1>2. CASE u \in UidRange
  <2> DEFINE x == [Inactive("hosts") EXCEPT !.opts = o, !.uid = u, !.left = Targets(o)]
  <2>1. Targets(o) \subseteq Hosts
    BY DEF Targets, Hosts, EntryHosts
  <2>2. x \in RunVars
    BY <2>1, ClusterUserAssumption DEF Inactive, RunVars, Options, Phases, NoUid
  <2>3. x.phase = "hosts" /\ x.opts = o /\ x.uid = u /\ x.left = Targets(o) /\ x.failed = FALSE
    BY DEF Inactive
  <2>4. run' = [run EXCEPT ![r] = x]
    BY <1>2 DEF UseUid
  <2> HIDE DEF x
  <2> QED  BY <1>2, <2>2, <2>3, <2>4, RunStep
<1> QED  BY <1>1, <1>2

-----------------------------------------------------------------------------
LEMMA StartKeeps ==
    ASSUME IInv, ~Explicit, NEW r \in Runs, NEW o \in Options, Start(r, o)
    PROVE  IInv'
<1>1. o.uid = NoUid
  BY DEF Options
<1>2. run[r] \in RunVars /\ run[r].phase = "idle"
  BY DEF IInv, TypeOK, Start
<1>3. CASE o.mode \in {"storage", "execute"}
  <2> DEFINE x == [run[r] EXCEPT !.phase = "lookup", !.opts = o]
  <2>1. run' = [run EXCEPT ![r] = x]
    BY <1>1, <1>3 DEF Start, IInv, TypeOK
  <2>2. x \in RunVars /\ x.phase = "lookup"
    BY <1>2 DEF RunVars, Phases
  <2> HIDE DEF x
  <2> QED  BY <2>1, <2>2, RunStep DEF Start
<1>4. CASE o.mode \in {"full", "accounts"}
  <2> DEFINE L == EntryHosts \cup IF o.nodes THEN Nodes ELSE {}
             x == [run[r] EXCEPT !.phase = "list", !.opts = o, !.left = L]
  <2>1. run' = [run EXCEPT ![r] = x]
    BY <1>1, <1>4 DEF Start, IInv, TypeOK
  <2>2. L \subseteq Hosts
    BY DEF EntryHosts, Hosts
  <2>3. x \in RunVars /\ x.phase = "list" /\ x.opts = o
    BY <1>2, <2>2 DEF RunVars, Phases
  <2> HIDE DEF x
  <2> QED  BY <1>4, <2>1, <2>3, RunStep DEF Start
<1> QED  BY <1>3, <1>4 DEF Options

\* The UID of condor01 is also that of bastion01.
LEMMA LookUpKeeps ==
    ASSUME IInv, NEW r \in Runs, LookUp(r)
    PROVE  IInv'
<1> DEFINE o == run[r].opts
           u == passwd[Condor][o.name]
<1>1. o \in Options /\ o.name \in Names
  BY DEF IInv, TypeOK, RunVars, Options
<1>2. u \in Int
  BY <1>1 DEF IInv, TypeOK, Hosts, NoUid
<1>3. CASE u = NoUid
  BY <1>3, StopKeeps DEF LookUp
<1>4. CASE u # NoUid
  <2>1. \A e \in EntryHosts : passwd[e][o.name] = u
    BY <1>1, <1>4 DEF IInv, BastionFirst, EntryHosts, Hosts
  <2>2. UseUid(r, o, u) /\ UNCHANGED <<passwd, dirs>>
    BY <1>4 DEF LookUp
  <2> HIDE DEF o, u
  <2> QED  BY <1>1, <1>2, <2>1, <2>2, UseUidKeeps
<1> QED  BY <1>3, <1>4

LEMMA ReadPasswdKeeps ==
    ASSUME IInv, NEW r \in Runs, NEW h \in Hosts, ReadPasswd(r, h)
    PROVE  IInv'
<1> DEFINE x == [run[r] EXCEPT !.used = @ \cup {passwd[h][n] : n \in Names}, !.left = @ \ {h}]
<1>1. run[r] \in RunVars /\ run[r].phase = "list"
  BY DEF IInv, TypeOK, ReadPasswd
<1>2. run' = [run EXCEPT ![r] = x]
  BY DEF ReadPasswd, IInv, TypeOK
<1>3. {passwd[h][n] : n \in Names} \subseteq Int
  BY DEF IInv, TypeOK, NoUid
<1>4. x \in RunVars /\ x.phase = "list" /\ x.opts = run[r].opts
  BY <1>1, <1>3 DEF RunVars
<1>5. x.opts.mode \in {"full", "accounts"}
  BY <1>1, <1>4 DEF IInv, PhaseInv
<1> HIDE DEF x
<1> QED  BY <1>2, <1>4, <1>5, RunStep DEF ReadPasswd

LEMMA AllocateKeeps ==
    ASSUME IInv, NEW r \in Runs, Allocate(r)
    PROVE  IInv'
<1>1. run[r].opts \in Options /\ EntryHosts \subseteq Targets(run[r].opts)
  BY DEF IInv, TypeOK, RunVars, PhaseInv, Allocate, Targets
<1>2. FreeUids(r) \subseteq Int
  BY DEF FreeUids, UidRange
<1>3. CASE FreeUids(r) = {}
  BY <1>3, StopKeeps DEF Allocate
<1>4. CASE \E u \in FreeUids(r) : UseUid(r, run[r].opts, u)
  BY <1>1, <1>2, <1>4, UseUidKeeps DEF Allocate
<1> QED  BY <1>3, <1>4 DEF Allocate

LEMMA HostsDoneKeeps ==
    ASSUME IInv, NEW r \in Runs, HostsDone(r)
    PROVE  IInv'
<1>1. CASE run[r].failed
  BY <1>1, StopKeeps DEF HostsDone
<1>2. CASE ~run[r].failed
  <2> DEFINE p == IF HasStorage(run[r].opts) THEN "storage" ELSE "unstored"
             x == [run[r] EXCEPT !.phase = p]
  <2>1. run[r] \in RunVars /\ run[r].phase = "hosts" /\ run[r].left = {}
    BY DEF IInv, TypeOK, HostsDone
  <2>2. run' = [run EXCEPT ![r] = x]
    BY <1>2 DEF HostsDone, IInv, TypeOK
  <2>3. x \in RunVars /\ x.phase \in {"storage", "unstored"}
    BY <2>1 DEF RunVars, Phases
  <2>4. x.uid = run[r].uid /\ x.opts = run[r].opts /\ x.left = run[r].left /\ x.failed = run[r].failed
    BY <2>1 DEF RunVars
  <2>5. run[r].uid \in UidRange
    BY <2>1 DEF IInv, TypeOK
  <2>6. \A e \in EntryHosts : passwd[e][run[r].opts.name] = run[r].uid
    BY <1>2, <2>1 DEF IInv, EntryDone, Acting, Account
  <2>7. \A h \in Targets(run[r].opts) : passwd[h][run[r].opts.name] = run[r].uid
    BY <1>2, <2>1 DEF IInv, TargetDone, Acting, Account
  <2>8. ~x.failed /\ x.left = {}
    BY <1>2, <2>1, <2>4
  <2>9. UNCHANGED <<passwd, dirs>>
    BY DEF HostsDone
  <2> HIDE DEF x, p
  <2> QED  BY <2>2, <2>3, <2>4, <2>5, <2>6, <2>7, <2>8, <2>9, RunStep
<1> QED  BY <1>1, <1>2

-----------------------------------------------------------------------------
(* The scripts on the hosts *)

\* What Finish makes of the variables of run r.
LEMMA AfterFinish ==
    ASSUME IInv, NEW r \in Runs, NEW h \in Hosts, Finish(r, h)
    PROVE  /\ run' \in [Runs -> RunVars]
           /\ \A q \in Runs \ {r} : run'[q] = run[q]
           /\ run'[r].phase = run[r].phase /\ run'[r].opts = run[r].opts
           /\ run'[r].uid = run[r].uid /\ run'[r].failed = run[r].failed
           /\ run'[r].left = run[r].left \ {h}
<1> DEFINE x == [run[r] EXCEPT !.left = @ \ {h}, !.absent = @ \ {h}]
<1>1. run \in [Runs -> RunVars] /\ run[r] \in RunVars
  BY DEF IInv, TypeOK
<1>2. run' = [run EXCEPT ![r] = x]
  BY <1>1 DEF Finish
<1>3. /\ x \in RunVars /\ x.phase = run[r].phase /\ x.opts = run[r].opts /\ x.uid = run[r].uid
      /\ x.left = run[r].left \ {h} /\ x.failed = run[r].failed
  BY <1>1 DEF RunVars
<1> HIDE DEF x
<1> QED  BY <1>1, <1>2, <1>3

\* What Fail makes of them.
LEMMA AfterFail ==
    ASSUME IInv, NEW r \in Runs, NEW h \in Hosts, Fail(r, h)
    PROVE  /\ run' \in [Runs -> RunVars]
           /\ \A q \in Runs \ {r} : run'[q] = run[q]
           /\ run'[r].phase = run[r].phase /\ run'[r].opts = run[r].opts
           /\ run'[r].uid = run[r].uid /\ run'[r].failed = TRUE
           /\ run'[r].left = {g \in run[r].left \ {h} : Group(g) = Group(h)}
<1> DEFINE L == {g \in run[r].left \ {h} : Group(g) = Group(h)}
           x == [run[r] EXCEPT !.left = L, !.absent = @ \ {h}, !.failed = TRUE]
<1>1. run \in [Runs -> RunVars] /\ run[r] \in RunVars
  BY DEF IInv, TypeOK
<1>2. run' = [run EXCEPT ![r] = x]
  BY <1>1 DEF Fail
<1>3. L \subseteq Hosts
  BY <1>1 DEF RunVars
<1> HIDE DEF L
<1>4. /\ x \in RunVars /\ x.phase = run[r].phase /\ x.opts = run[r].opts /\ x.uid = run[r].uid
      /\ x.left = L /\ x.failed = TRUE
  BY <1>1, <1>3 DEF RunVars
<1> HIDE DEF x
<1> QED  BY <1>1, <1>2, <1>4 DEF L

\* A host is done with, well or not, while accounts are only added.
LEMMA HostStep ==
    ASSUME IInv, NEW r \in Runs, NEW h \in Hosts, Creating(r, h),
           passwd' \in [Hosts -> [Names -> Nat \cup {NoUid}]], UNCHANGED dirs,
           BastionFirst', BastionIsUnique',
           \A g \in Hosts : \A n \in Names : passwd[g][n] # NoUid => passwd'[g][n] = passwd[g][n],
           \/ Finish(r, h) /\ passwd'[h][run[r].opts.name] = run[r].uid
           \/ Fail(r, h)
    PROVE  IInv'
<1>1. /\ run \in [Runs -> RunVars]
      /\ \A q \in Runs : /\ run[q].opts.name \in Names /\ run[q].left \subseteq Hosts
                         /\ run[q].opts \in Options /\ run[q].failed \in BOOLEAN
                         /\ Acting(q) => run[q].uid # NoUid
  BY RangeIsUid DEF IInv, TypeOK, RunVars, Options, Acting
<1>2. EntryHosts \subseteq Hosts /\ \A q \in Runs : Targets(run[q].opts) \subseteq Hosts
  BY DEF EntryHosts, Hosts, Targets
<1>3. run[r].phase = "hosts" /\ h \in run[r].left /\ \A g \in run[r].left : Group(h) <= Group(g)
  BY DEF Creating, InTurn
<1> DEFINE F == run'[r].left = run[r].left \ {h} /\ run'[r].failed = run[r].failed
                  /\ passwd'[h][run[r].opts.name] = run[r].uid
           G == run'[r].left = {g \in run[r].left \ {h} : Group(g) = Group(h)}
                  /\ run'[r].failed = TRUE
<1>4. /\ run' \in [Runs -> RunVars] /\ \A q \in Runs \ {r} : run'[q] = run[q]
      /\ run'[r].phase = run[r].phase /\ run'[r].opts = run[r].opts /\ run'[r].uid = run[r].uid
  BY AfterFinish, AfterFail
<1>5. F \/ G
  BY AfterFinish, AfterFail
<1>6. TypeOK'
  BY <1>4 DEF IInv, TypeOK
<1>7. DirsAreOwn'
  BY DEF IInv, DirsAreOwn, Hosts
<1>8. PhaseInv'
  BY <1>3, <1>4 DEF IInv, PhaseInv
<1>9. ASSUME NEW q \in Runs, NEW g \in Hosts, q # r, Acting(q), Account(q, g) = run[q].uid
      PROVE  Account(q, g)' = run'[q].uid
  BY <1>1, <1>4, <1>9 DEF Account
<1>10. ASSUME NEW g \in Hosts, Account(r, g) = run[r].uid
       PROVE  Account(r, g)' = run'[r].uid
  BY <1>1, <1>3, <1>4, <1>10 DEF Account, Acting
<1>11. EntryDone'
  <2> SUFFICES ASSUME NEW q \in Runs, NEW e \in EntryHosts, Acting(q)', e \notin run'[q].left,
                      run'[q].failed => run'[q].left # {}
               PROVE  Account(q, e)' = run'[q].uid
    BY DEF EntryDone
  <2>1. CASE q # r
    <3>1. Account(q, e) = run[q].uid /\ Acting(q)
      BY <1>4, <2>1 DEF IInv, EntryDone, Acting
    <3> QED  BY <1>2, <1>9, <2>1, <3>1
  <2>2. CASE q = r /\ F
    <3>1. CASE e = h
      BY <1>4, <2>2, <3>1 DEF Account
    <3>2. CASE e # h
      BY <1>2, <1>3, <1>10, <2>2, <3>2 DEF IInv, EntryDone, Acting
    <3> QED  BY <3>1, <3>2
  <2>3. CASE q = r /\ G
    <3>1. PICK g \in run[r].left : g # h /\ Group(g) = Group(h)
      BY <2>3
    <3>2. Group(h) = 3
      BY <1>1, <3>1, GroupOrder
    <3>3. e \notin run[r].left
      BY <1>2, <1>3, <3>2, GroupOrder DEF EntryHosts
    <3>4. Account(r, e) = run[r].uid
      BY <1>3, <3>3 DEF IInv, EntryDone, Acting
    <3> QED  BY <1>2, <1>10, <2>3, <3>4
  <2> QED  BY <1>5, <2>1, <2>2, <2>3
<1>12. TargetDone'
  <2> SUFFICES ASSUME NEW q \in Runs, NEW g \in Targets(run'[q].opts), Acting(q)', g \notin run'[q].left,
                      ~run'[q].failed
               PROVE  Account(q, g)' = run'[q].uid
    BY DEF TargetDone, Targets
  <2>1. g \in Targets(run[q].opts) /\ g \in Hosts
    BY <1>2, <1>4
  <2>2. CASE q # r
    <3>1. Account(q, g) = run[q].uid /\ Acting(q)
      BY <1>4, <2>1, <2>2 DEF IInv, TargetDone, Acting
    <3> QED  BY <1>9, <2>1, <2>2, <3>1
  <2>3. CASE q = r /\ F
    <3>1. CASE g = h
      BY <1>4, <2>3, <3>1 DEF Account
    <3>2. CASE g # h
      BY <1>3, <1>10, <2>1, <2>3, <3>2 DEF IInv, TargetDone, Acting
    <3> QED  BY <3>1, <3>2
  <2> QED  BY <1>5, <2>2, <2>3
<1> QED  BY <1>6, <1>7, <1>8, <1>11, <1>12 DEF IInv

LEMMA CheckUserKeeps ==
    ASSUME IInv, NEW r \in Runs, NEW h \in Hosts, CheckUser(r, h)
    PROVE  IInv'
<1>1. UNCHANGED <<passwd, dirs>> /\ Creating(r, h)
  BY DEF CheckUser
<1>2. /\ passwd' \in [Hosts -> [Names -> Nat \cup {NoUid}]] /\ BastionFirst' /\ BastionIsUnique'
      /\ \A g \in Hosts : \A n \in Names : passwd[g][n] # NoUid => passwd'[g][n] = passwd[g][n]
  BY <1>1 DEF IInv, TypeOK, BastionFirst, BastionIsUnique
<1>3. CASE Account(r, h) = run[r].uid /\ Finish(r, h)
  BY <1>1, <1>2, <1>3, HostStep DEF Account
<1>4. CASE Fail(r, h)
  BY <1>1, <1>2, <1>4, HostStep
<1>5. CASE run' = [run EXCEPT ![r].absent = @ \cup {h}]
  <2> DEFINE x == [run[r] EXCEPT !.absent = @ \cup {h}]
  <2>1. run \in [Runs -> RunVars] /\ run[r] \in RunVars /\ run[r].phase = "hosts"
    BY <1>1 DEF IInv, TypeOK, Creating
  <2>2. run' = [run EXCEPT ![r] = x]
    BY <1>5, <2>1
  <2>3. /\ x \in RunVars /\ x.phase = run[r].phase /\ x.opts = run[r].opts /\ x.uid = run[r].uid
        /\ x.left = run[r].left /\ x.failed = run[r].failed
    BY <2>1 DEF RunVars
  <2>4. /\ run[r].uid \in UidRange
        /\ \A e \in EntryHosts : e \notin run[r].left /\ (run[r].failed => run[r].left # {})
              => passwd[e][run[r].opts.name] = run[r].uid
        /\ \A g \in Targets(run[r].opts) : g \notin run[r].left /\ ~run[r].failed
              => passwd[g][run[r].opts.name] = run[r].uid
    BY <2>1 DEF IInv, TypeOK, EntryDone, TargetDone, Acting, Account
  <2> HIDE DEF x
  <2> QED  BY <1>1, <2>1, <2>2, <2>3, <2>4, RunStep
<1> QED  BY <1>3, <1>4, <1>5 DEF CheckUser

\* An account is made on bastion01 when no host has it and bastion01 has no
\* such UID, elsewhere when bastion01 has the same.
LEMMA AddUserKeeps ==
    ASSUME IInv, NEW r \in Runs, NEW h \in Hosts, AddUser(r, h)
    PROVE  IInv'
<1> DEFINE n == run[r].opts.name
           u == run[r].uid
<1>1. Creating(r, h) /\ UNCHANGED dirs
  BY DEF AddUser
<1>2. run[r].phase = "hosts" /\ h \in run[r].left /\ \A g \in run[r].left : Group(h) <= Group(g)
  BY <1>1 DEF Creating, InTurn
<1>3. n \in Names /\ u \in Nat /\ u # NoUid /\ run[r].failed \in BOOLEAN
  BY <1>2, RangeIsUid DEF IInv, TypeOK, RunVars, Options
<1>4. CASE ~Addable(r, h)
  <2>1. UNCHANGED passwd /\ Fail(r, h)
    BY <1>4 DEF AddUser
  <2> QED  BY <1>1, <2>1, HostStep DEF IInv, TypeOK, BastionFirst, BastionIsUnique
<1>5. CASE Addable(r, h)
  <2>1. passwd' = [passwd EXCEPT ![h][n] = u] /\ (Finish(r, h) \/ Fail(r, h))
    BY <1>5 DEF AddUser
  <2>2. passwd[h][n] = NoUid /\ \A m \in Names : passwd[h][m] # u
    BY <1>5 DEF Addable, Account
  <2>3. passwd \in [Hosts -> [Names -> Nat \cup {NoUid}]]
    BY DEF IInv, TypeOK
  <2>4. Bastion \in Hosts
    BY DEF Hosts
  <2>5. h # Bastion => passwd[Bastion][n] = u
    <3> SUFFICES ASSUME h # Bastion PROVE passwd[Bastion][n] = u
      OBVIOUS
    <3>1. Bastion \notin run[r].left
      <4>1. Group(Bastion) = 1 /\ Group(h) # 1 /\ Group(h) \in 1..3
        BY <2>4, GroupOrder
      <4> QED  BY <1>2, <4>1
    <3> QED  BY <1>2, <3>1 DEF IInv, EntryDone, Acting, Account, EntryHosts
  <2> HIDE DEF n, u
  <2>6. /\ passwd' \in [Hosts -> [Names -> Nat \cup {NoUid}]] /\ passwd'[h][n] = u
        /\ \A g \in Hosts : \A m \in Names : g # h \/ m # n => passwd'[g][m] = passwd[g][m]
    BY <1>3, <2>1, <2>3
  <2>7. \A g \in Hosts : \A m \in Names : passwd[g][m] # NoUid => passwd'[g][m] = passwd[g][m]
    BY <2>2, <2>6
  <2>8. BastionFirst'
    BY <1>3, <2>2, <2>4, <2>5, <2>6 DEF IInv, BastionFirst
  <2>9. BastionIsUnique'
    BY <1>3, <2>2, <2>4, <2>6 DEF IInv, BastionIsUnique
  <2>10. \/ Finish(r, h) /\ passwd'[h][run[r].opts.name] = run[r].uid
         \/ Fail(r, h)
    BY <2>1, <2>6 DEF n, u
  <2>11. passwd' \in [Hosts -> [Names -> Nat \cup {NoUid}]]
    BY <2>6
  <2>12. CASE Finish(r, h) /\ passwd'[h][run[r].opts.name] = run[r].uid
    BY <1>1, <2>7, <2>8, <2>9, <2>11, <2>12, HostStep
  <2>13. CASE Fail(r, h)
    BY <1>1, <2>7, <2>8, <2>9, <2>11, <2>13, HostStep
  <2> QED  BY <2>10, <2>12, <2>13
<1> QED  BY <1>4, <1>5

LEMMA HostFailsKeeps ==
    ASSUME IInv, NEW r \in Runs, NEW h \in Hosts, HostFails(r, h)
    PROVE  IInv'
BY HostStep DEF HostFails, IInv, TypeOK, BastionFirst, BastionIsUnique

\* The directories get the UID that both entry hosts have for the name.
LEMMA CreateStorageKeeps ==
    ASSUME IInv, NEW r \in Runs, CreateStorage(r)
    PROVE  IInv'
<1>1. run \in [Runs -> RunVars] /\ run[r] \in RunVars /\ run[r].phase = "storage" /\ UNCHANGED passwd
  BY DEF IInv, TypeOK, CreateStorage
<1>2. /\ run[r].uid \in UidRange /\ run[r].left = {} /\ ~run[r].failed /\ run[r].opts.name \in Names
      /\ \A e \in EntryHosts : passwd[e][run[r].opts.name] = run[r].uid
      /\ \A h \in Targets(run[r].opts) : passwd[h][run[r].opts.name] = run[r].uid
  BY <1>1 DEF IInv, TypeOK, PhaseInv, EntryDone, TargetDone, Acting, Account, RunVars, Options
<1>3. CASE Stop(r) /\ UNCHANGED dirs
  BY <1>1, <1>3, StopKeeps
<1>4. CASE run' = [run EXCEPT ![r].phase = "unstored"] /\ UNCHANGED dirs
  <2> DEFINE x == [run[r] EXCEPT !.phase = "unstored"]
  <2>1. run' = [run EXCEPT ![r] = x]
    BY <1>1, <1>4
  <2>2. /\ x \in RunVars /\ x.phase = "unstored" /\ x.opts = run[r].opts /\ x.uid = run[r].uid
        /\ x.left = {} /\ ~x.failed
    BY <1>1, <1>2 DEF RunVars, Phases
  <2> HIDE DEF x
  <2>3. /\ x.uid \in UidRange /\ \A e \in EntryHosts : passwd[e][x.opts.name] = x.uid
        /\ \A h \in Targets(x.opts) : passwd[h][x.opts.name] = x.uid
    BY <1>2, <2>2
  <2>4. UNCHANGED <<passwd, dirs>>
    BY <1>1, <1>4
  <2> QED  BY <2>1, <2>2, <2>3, <2>4, RunStep
<1>5. CASE /\ run' = [run EXCEPT ![r].phase = "done"]
           /\ dirs' = [dirs EXCEPT ![run[r].opts.name] = run[r].uid]
  <2> DEFINE x == [run[r] EXCEPT !.phase = "done"]
  <2>1. run' = [run EXCEPT ![r] = x]
    BY <1>1, <1>5
  <2>2. /\ x \in RunVars /\ x.phase = "done" /\ x.opts = run[r].opts /\ x.uid = run[r].uid
        /\ x.left = {} /\ x.failed = run[r].failed
    BY <1>1, <1>2 DEF RunVars, Phases
  <2> HIDE DEF x
  <2>3. run' \in [Runs -> RunVars] /\ run'[r] = x /\ \A q \in Runs \ {r} : run'[q] = run[q]
    BY <1>1, <2>1, <2>2
  <2>4. TypeOK'
    BY <1>1, <1>2, <1>5, <2>2, <2>3 DEF IInv, TypeOK
  <2>5. BastionFirst' /\ BastionIsUnique'
    BY <1>1 DEF IInv, BastionFirst, BastionIsUnique
  <2>6. DirsAreOwn'
    BY <1>1, <1>2, <1>5 DEF IInv, TypeOK, DirsAreOwn, EntryHosts
  <2>7. EntryDone' /\ TargetDone'
    BY <1>1, <1>2, <2>2, <2>3 DEF IInv, EntryDone, TargetDone, Acting, Account
  <2>8. PhaseInv'
    BY <1>2, <2>2, <2>3 DEF IInv, PhaseInv
  <2> QED  BY <2>4, <2>5, <2>6, <2>7, <2>8 DEF IInv
<1> QED  BY <1>3, <1>4, <1>5 DEF CreateStorage

-----------------------------------------------------------------------------
LEMMA StutterKeeps ==
    ASSUME IInv, UNCHANGED vars PROVE IInv'
BY DEF vars, IInv, TypeOK, BastionFirst, BastionIsUnique, EntryDone, TargetDone, PhaseInv,
       DirsAreOwn, Acting, Account

\* Without --uid the invariant is kept by every step.
LEMMA NextKeeps ==
    ASSUME ~Explicit, IInv, [Next]_vars PROVE IInv'
<1>1. CASE UNCHANGED vars
  BY <1>1, StutterKeeps
<1>2. ASSUME NEW r \in Runs, NEW o \in Options, Start(r, o) PROVE IInv'
  BY <1>2, StartKeeps
<1>3. ASSUME NEW r \in Runs, NEW h \in Hosts,
             ReadPasswd(r, h) \/ CheckUser(r, h) \/ AddUser(r, h) \/ HostFails(r, h)
      PROVE  IInv'
  BY <1>3, ReadPasswdKeeps, CheckUserKeeps, AddUserKeeps, HostFailsKeeps
<1>4. ASSUME NEW r \in Runs, Unreadable(r) PROVE IInv'
  BY <1>4, StopKeeps DEF Unreadable
<1>5. ASSUME NEW r \in Runs, LookUp(r) \/ Allocate(r) \/ HostsDone(r) \/ CreateStorage(r)
      PROVE  IInv'
  BY <1>5, LookUpKeeps, AllocateKeeps, HostsDoneKeeps, CreateStorageKeeps
<1> QED  BY <1>1, <1>2, <1>3, <1>4, <1>5 DEF Next, Step

LEMMA InvHolds == ~Explicit => (Spec => []IInv)
<1> SUFFICES ASSUME ~Explicit PROVE Spec => []IInv
  OBVIOUS
<1> QED  BY InitInv, NextKeeps, PTL DEF Spec

LEMMA InvSuffices == IInv => UidsAgree /\ DirsAreOwn /\ DoneIsComplete
<1> SUFFICES ASSUME IInv PROVE UidsAgree /\ DirsAreOwn /\ DoneIsComplete
  OBVIOUS
<1>1. SameUid
  BY DEF IInv, BastionFirst, SameUid
<1>2. UidIsOwn
  BY DEF IInv, BastionFirst, BastionIsUnique, UidIsOwn
<1>3. DoneIsComplete
  BY DEF IInv, TargetDone, PhaseInv, Acting, DoneIsComplete
<1> QED  BY <1>1, <1>2, <1>3 DEF IInv, UidsAgree

\* Whatever runs race, fail and are repeated, a name has one UID everywhere and
\* a UID one name, as long as nobody passes --uid (remote_user_script, main).
THEOREM OneIdentity == ~Explicit => (Spec => []UidsAgree)
<1> SUFFICES ASSUME ~Explicit PROVE Spec => []UidsAgree
  OBVIOUS
<1> QED  BY InvHolds, InvSuffices, PTL

\* The directories on /data belong to the account (create_storage_dirs).
THEOREM StorageIsOwn == ~Explicit => (Spec => []DirsAreOwn)
<1> SUFFICES ASSUME ~Explicit PROVE Spec => []DirsAreOwn
  OBVIOUS
<1> QED  BY InvHolds, InvSuffices, PTL

\* A run that prints "Done." has its user everywhere it was for (run, main).
THEOREM DoneIsTrue == ~Explicit => (Spec => []DoneIsComplete)
<1> SUFFICES ASSUME ~Explicit PROVE Spec => []DoneIsComplete
  OBVIOUS
<1> QED  BY InvHolds, InvSuffices, PTL

\* The variables of every run have their types, in particular the UID of a run
\* that creates users is in the range (main: the check of UID_MIN, UID_MAX).
THEOREM TypeCorrect == ~Explicit => (Spec => []TypeOK)
<1> SUFFICES ASSUME ~Explicit PROVE Spec => []TypeOK
  OBVIOUS
<1>1. IInv => TypeOK
  BY DEF IInv
<1> QED  BY InvHolds, <1>1, PTL
=============================================================================
