----------------------------- MODULE VmRequests -----------------------------
(***************************************************************************)
(* Concurrent HTTP requests that create a VM or enqueue a lifecycle        *)
(* operation (portal/app/virtual_machines/services.py, called by the JSON  *)
(* and the HTML routers, which commit or roll back).                       *)
(*                                                                         *)
(* Each request is one PostgreSQL transaction at READ COMMITTED; a step    *)
(* here is one SQL statement of it.  FOR UPDATE is a lock a request holds  *)
(* until it commits or rolls back; the unique index on idempotency_key     *)
(* makes an INSERT wait for an uncommitted row with the same key and raise *)
(* IntegrityError on a committed one.  A row is named after the request    *)
(* that inserts it.  The worker appears only through its commits.          *)
(***************************************************************************)
EXTENDS Naturals, FiniteSets

CONSTANTS
    Requests,      \* HTTP requests
    Users,
    Keys,          \* idempotency keys
    Seeds,         \* VMs that exist before, each with a finished vm.create
    Asked,         \* the kinds of request clients send
    Sizes,         \* requested sizes (the summed resources, as one)
    MaxVms, MaxTotal,  \* the plan's limits
    Nobody         \* "no request holds the lock"

Ids == Requests \cup Seeds

Lifecycle == {"start", "shutdown", "stop", "reboot", "delete"}
Kinds     == {"create"} \cup Lifecycle

ASSUME RequestsAssumption ==
    /\ Requests \cap Seeds = {}
    /\ Nobody \notin Requests
    /\ Asked \subseteq Kinds
    /\ Sizes \subseteq Nat \ {0} /\ MaxVms \in Nat /\ MaxTotal \in Nat
    /\ IsFiniteSet(Requests) /\ IsFiniteSet(Seeds)

\* The VMs that exist before were created under the same plan.
ASSUME SeedsAssumption ==
    /\ Cardinality(Seeds) <= MaxVms
    /\ \A s \in Sizes : Cardinality(Seeds) * s <= MaxTotal

VARIABLES
    pc, kind, user, key, target, size, result,  \* requests
    opState, opType, opKey, opVm,               \* rows of `operations`
    vmStatus, vmOwner, vmSize,                  \* rows of `virtual_machines`
    quotaActive, quotaLock, vmLock              \* rows of `user_quota`, row locks

input == <<kind, user, key, target, size>>
ops   == <<opState, opType, opKey, opVm>>
vms   == <<vmStatus, vmOwner, vmSize>>
locks == <<quotaLock, vmLock>>
vars  == <<pc, input, result, ops, vms, quotaActive, locks>>

OpStates == {"absent", "uncommitted", "active", "succeeded", "failed"}
VmStates == {"absent", "uncommitted", "pending", "running", "stopped",
             "failed", "deleting", "deleted"}

TypeOK ==
    /\ pc \in [Requests -> {"idle", "begin", "lookup", "check", "insert",
                            "conflict", "commit", "ok", "error"}]
    /\ kind \in [Requests -> Kinds]
    /\ user \in [Requests -> Users]
    /\ key \in [Requests -> Keys]
    /\ target \in [Requests -> Ids]
    /\ size \in [Requests -> Sizes]
    /\ result \in [Requests -> Ids]
    /\ opState \in [Ids -> OpStates]
    /\ opType \in [Ids -> Kinds]
    /\ opKey \in [Ids -> Keys \cup Seeds]
    /\ opVm \in [Ids -> Ids]
    /\ vmStatus \in [Ids -> VmStates]
    /\ vmOwner \in [Ids -> Users]
    /\ vmSize \in [Ids -> Sizes]
    /\ quotaActive \in [Users -> BOOLEAN]
    /\ quotaLock \in [Users -> Requests \cup {Nobody}]
    /\ vmLock \in [Ids -> Requests \cup {Nobody}]

\* The seeds are running VMs of one user; nothing else is requested yet.
Init ==
    /\ pc = [r \in Requests |-> "idle"]
    /\ \E u \in Users, k \in Keys, i \in Ids, s \in Sizes :
          /\ kind = [r \in Requests |-> "create"]
          /\ user = [r \in Requests |-> u]
          /\ key = [r \in Requests |-> k]
          /\ target = [r \in Requests |-> r]
          /\ size = [r \in Requests |-> s]
          /\ result = [r \in Requests |-> r]
          /\ opKey = [x \in Ids |-> IF x \in Seeds THEN x ELSE k]
          /\ vmOwner = [x \in Ids |-> u]
          /\ vmSize = [x \in Ids |-> s]
    /\ opState = [x \in Ids |-> IF x \in Seeds THEN "succeeded" ELSE "absent"]
    /\ opType = [x \in Ids |-> "create"]
    /\ opVm = [x \in Ids |-> x]
    /\ vmStatus = [x \in Ids |-> IF x \in Seeds THEN "running" ELSE "absent"]
    /\ quotaActive = [u \in Users |-> TRUE]
    /\ quotaLock = [u \in Users |-> Nobody]
    /\ vmLock = [x \in Ids |-> Nobody]

-----------------------------------------------------------------------------
(* What a statement sees: committed rows, and the request's own. *)

Visible(x) == opState[x] \notin {"absent", "uncommitted"}

VisibleVm(x) == vmStatus[x] \notin {"absent", "uncommitted"}

WithKey(k) == {x \in Ids : Visible(x) /\ opKey[x] = k}

\* QUOTA_CONSUMING_STATUSES: every status but failed and deleted.
Consuming(u) ==
    {x \in Ids : VisibleVm(x) /\ vmOwner[x] = u /\ vmStatus[x] \notin {"failed", "deleted"}}

\* The units of resource these VMs take together: the sum of their sizes.
Units(sizeOf, S) == UNION {{x} \X (1..sizeOf[x]) : x \in S}

\* _validate_vm_quota, with the four limits as a count and one sum.
FitsQuota(r) ==
    LET used == Consuming(user[r]) IN
    /\ Cardinality(used) + 1 <= MaxVms
    /\ Cardinality(Units(vmSize, used)) + size[r] <= MaxTotal

\* Mutated: whose VM it is, is compared, but not which one.
MatchesAnyVm(r, x) == opType[x] = kind[r] /\ vmOwner[opVm[x]] = user[r]

\* The operation an earlier request made for this key is this request's own.
Matches(r, x) ==
    /\ opType[x] = kind[r]
    /\ IF kind[r] = "create"
       THEN vmOwner[opVm[x]] = user[r] /\ vmSize[opVm[x]] = size[r]
       ELSE opVm[x] = target[r]

AllowedStatus == [start |-> "stopped", shutdown |-> "running", stop |-> "running",
                  reboot |-> "running", delete |-> "stopped"]

-----------------------------------------------------------------------------
(* The end of a transaction *)

Unlocked(lockOf, r) == [x \in DOMAIN lockOf |-> IF lockOf[x] = r THEN Nobody ELSE lockOf[x]]

Release(r) == quotaLock' = Unlocked(quotaLock, r) /\ vmLock' = Unlocked(vmLock, r)

\* ROLLBACK: the locks go, and with them the rows the request had inserted.
Rollback(r) ==
    /\ Release(r)
    /\ opState' = [opState EXCEPT ![r] = IF @ = "uncommitted" THEN "absent" ELSE @]
    /\ vmStatus' = [vmStatus EXCEPT ![r] = IF @ = "uncommitted" THEN "absent" ELSE @]
    /\ UNCHANGED <<opType, opKey, opVm, vmOwner, vmSize, quotaActive>>

Goto(r, label) == pc' = [pc EXCEPT ![r] = label]

\* Mutated: the error answer goes out on a transaction left open.
RefuseLeavesOpen(r) ==
    Goto(r, "error") /\ UNCHANGED <<input, result, ops, vms, quotaActive, locks>>

\* The service raises; the router rolls back and answers 403, 404 or 409.
Refuse(r) == Goto(r, "error") /\ Rollback(r) /\ UNCHANGED <<input, result>>

\* An operation found under the key is the answer.
Replay(r, x) ==
    /\ Matches(r, x)
    /\ result' = [result EXCEPT ![r] = x]
    /\ Goto(r, "commit")
    /\ UNCHANGED <<input, ops, vms, quotaActive, locks>>

-----------------------------------------------------------------------------
(* The steps of a request *)

\* A lifecycle request names a VM, a creation a size.
Submit(r, kd, u, k, t, s) ==
    /\ pc[r] = "idle"
    /\ kd = "create" => t = r
    /\ kd # "create" => t # r /\ s = size[r]
    /\ Goto(r, "begin")
    /\ kind' = [kind EXCEPT ![r] = kd]
    /\ user' = [user EXCEPT ![r] = u]
    /\ key' = [key EXCEPT ![r] = k]
    /\ target' = [target EXCEPT ![r] = t]
    /\ size' = [size EXCEPT ![r] = s]
    /\ UNCHANGED <<result, ops, vms, quotaActive, locks>>

\* Mutated: the quota row is read without FOR UPDATE.
ReadQuota(r) ==
    /\ pc[r] = "begin" /\ kind[r] = "create"
    /\ Goto(r, "lookup")
    /\ UNCHANGED <<input, result, ops, vms, quotaActive, locks>>

\* create_vm: SELECT user_quota ... FOR UPDATE.
LockQuota(r) ==
    /\ pc[r] = "begin" /\ kind[r] = "create"
    /\ quotaLock[user[r]] = Nobody
    /\ quotaLock' = [quotaLock EXCEPT ![user[r]] = r]
    /\ Goto(r, "lookup")
    /\ UNCHANGED <<input, result, ops, vms, quotaActive, vmLock>>

\* Mutated: the VM row is read without FOR UPDATE.
ReadVm(r) ==
    /\ pc[r] = "begin" /\ kind[r] # "create"
    /\ VisibleVm(target[r]) /\ vmOwner[target[r]] = user[r]
    /\ Goto(r, "lookup")
    /\ UNCHANGED <<input, result, ops, vms, quotaActive, locks>>

\* enqueue_vm_operation: SELECT virtual_machines ... by owner ... FOR UPDATE.
LockVm(r) ==
    /\ pc[r] = "begin" /\ kind[r] # "create"
    /\ VisibleVm(target[r]) /\ vmOwner[target[r]] = user[r]
    /\ vmLock[target[r]] = Nobody
    /\ vmLock' = [vmLock EXCEPT ![target[r]] = r]
    /\ Goto(r, "lookup")
    /\ UNCHANGED <<input, result, ops, vms, quotaActive, quotaLock>>

NotFound(r) ==
    /\ pc[r] = "begin" /\ kind[r] # "create"
    /\ ~(VisibleVm(target[r]) /\ vmOwner[target[r]] = user[r])
    /\ Refuse(r)

\* SELECT the operation with the request's key.
Lookup(r) ==
    /\ pc[r] = "lookup"
    /\ \/ \E x \in WithKey(key[r]) : Replay(r, x)
       \/ (\E x \in WithKey(key[r]) : ~Matches(r, x)) /\ Refuse(r)
       \/ /\ WithKey(key[r]) = {}
          /\ Goto(r, "check")
          /\ UNCHANGED <<input, result, ops, vms, quotaActive, locks>>

Permitted(r) ==
    IF kind[r] = "create"
    THEN quotaActive[user[r]] /\ FitsQuota(r)
    ELSE /\ \A x \in Ids : opState[x] = "active" => opVm[x] # target[r]
         /\ vmStatus[target[r]] = AllowedStatus[kind[r]]

Check(r) ==
    /\ pc[r] = "check"
    /\ \/ /\ Permitted(r)
          /\ Goto(r, "insert")
          /\ UNCHANGED <<input, result, ops, vms, quotaActive, locks>>
       \/ ~Permitted(r) /\ Refuse(r)

InsertRows(r) ==
    /\ opState' = [opState EXCEPT ![r] = "uncommitted"]
    /\ opType' = [opType EXCEPT ![r] = kind[r]]
    /\ opKey' = [opKey EXCEPT ![r] = key[r]]
    /\ opVm' = [opVm EXCEPT ![r] = target[r]]
    /\ IF kind[r] = "create"
       THEN /\ vmStatus' = [vmStatus EXCEPT ![r] = "uncommitted"]
            /\ vmOwner' = [vmOwner EXCEPT ![r] = user[r]]
            /\ vmSize' = [vmSize EXCEPT ![r] = size[r]]
       ELSE UNCHANGED vms
    /\ result' = [result EXCEPT ![r] = r]
    /\ Goto(r, "commit")
    /\ UNCHANGED <<input, quotaActive, locks>>

\* Mutated: no unique index on idempotency_key.
InsertAnyKey(r) == pc[r] = "insert" /\ InsertRows(r)

\* flush(): waits while another transaction holds the key uncommitted.
Insert(r) ==
    /\ pc[r] = "insert"
    /\ \A x \in Ids : opKey[x] = key[r] => opState[x] = "absent"
    /\ InsertRows(r)

\* Mutated: the VM row flushed before the operation survives the conflict.
KeyTakenKeepsVm(r) ==
    /\ pc[r] = "insert"
    /\ WithKey(key[r]) # {}
    /\ Goto(r, "conflict")
    /\ Release(r)
    /\ vmStatus' = [vmStatus EXCEPT ![r] = IF kind[r] = "create" THEN "pending" ELSE @]
    /\ UNCHANGED <<input, result, ops, vmOwner, vmSize, quotaActive>>

\* IntegrityError: the service rolls back, which also releases its row lock.
KeyTaken(r) ==
    /\ pc[r] = "insert"
    /\ WithKey(key[r]) # {}
    /\ Goto(r, "conflict")
    /\ Rollback(r)
    /\ UNCHANGED <<input, result>>

\* ... and looks the key up again, now without any lock.
Resolve(r) ==
    /\ pc[r] = "conflict"
    /\ \/ \E x \in WithKey(key[r]) : Replay(r, x)
       \/ (\A x \in WithKey(key[r]) : ~Matches(r, x)) /\ Refuse(r)

Commit(r) ==
    /\ pc[r] = "commit"
    /\ opState' = [opState EXCEPT ![r] = IF @ = "uncommitted" THEN "active" ELSE @]
    /\ vmStatus' = [vmStatus EXCEPT ![r] = IF @ = "uncommitted" THEN "pending" ELSE @]
    /\ Goto(r, "ok")
    /\ Release(r)
    /\ UNCHANGED <<input, result, opType, opKey, opVm, vmOwner, vmSize, quotaActive>>

\* The client goes away, the connection or the process dies: ROLLBACK.
Abort(r) ==
    /\ pc[r] \notin {"idle", "ok", "error"}
    /\ Refuse(r)

-----------------------------------------------------------------------------
(* Others that write the same rows *)

\* What a worker's commit may make of an active operation and of its VM; see
\* OperationWorker for how it gets there.
Outcomes(t, s) ==
    CASE t = "create"             -> {<<"succeeded", "running">>, <<"failed", "failed">>}
      [] t = "start"              -> {<<"succeeded", "running">>, <<"failed", s>>}
      [] t = "reboot"             -> {<<"active", "stopped">>, <<"succeeded", "running">>,
                                      <<"failed", s>>}
      [] t \in {"shutdown", "stop"} -> {<<"succeeded", "stopped">>, <<"failed", s>>}
      [] OTHER                    -> {<<"active", "deleting">>, <<"succeeded", "deleted">>,
                                      <<"failed", "deleting">>}

\* An UPDATE that changes the VM row waits for whoever has it locked.
WorkerCommits(x) ==
    LET v == opVm[x] IN
    /\ opState[x] = "active"
    /\ \E out \in Outcomes(opType[x], vmStatus[v]) :
          /\ out[2] # vmStatus[v] => vmLock[v] = Nobody
          /\ opState' = [opState EXCEPT ![x] = out[1]]
          /\ vmStatus' = [vmStatus EXCEPT ![v] = out[2]]
    /\ UNCHANGED <<pc, input, result, opType, opKey, opVm, vmOwner, vmSize, quotaActive, locks>>

\* An operator suspends or restores a user's quota (external).
ToggleQuota(u) ==
    /\ quotaLock[u] = Nobody
    /\ quotaActive' = [quotaActive EXCEPT ![u] = ~@]
    /\ UNCHANGED <<pc, input, result, ops, vms, locks>>

Step(r) ==
    \/ LockQuota(r) \/ LockVm(r) \/ NotFound(r) \/ Lookup(r) \/ Check(r)
    \/ Insert(r) \/ KeyTaken(r) \/ Resolve(r) \/ Commit(r)

Next ==
    \/ \E r \in Requests :
          \/ \E kd \in Asked, u \in Users, k \in Keys, t \in Ids, s \in Sizes :
                Submit(r, kd, u, k, t, s)
          \/ Step(r)
          \/ Abort(r)
    \/ \E x \in Ids : WorkerCommits(x)
    \/ \E u \in Users : ToggleQuota(u)

Spec == Init /\ [][Next]_vars

-----------------------------------------------------------------------------
(* Properties *)

\* One operation per idempotency key, for any interleaving of repeats and of
\* foreign requests with the same key.
OneOperationPerKey ==
    \A x, y \in Ids : Visible(x) /\ Visible(y) /\ opKey[x] = opKey[y] => x = y

\* At most one pending or processing operation of a VM, which is what lets the
\* worker treat a VM as its own while it carries one out.
OneActiveOperation ==
    \A x, y \in Ids :
        opState[x] = "active" /\ opState[y] = "active" /\ opVm[x] = opVm[y] => x = y

\* Concurrent creations of one owner never exceed the plan together.
QuotaHolds ==
    \A u \in Users :
        /\ Cardinality(Consuming(u)) <= MaxVms
        /\ Cardinality(Units(vmSize, Consuming(u))) <= MaxTotal

\* An accepted request is answered with an operation made for its own key,
\* kind and owner, on the VM it named or, of a creation, with a VM of the size
\* it asked for, whichever of two racing requests inserted it.
AnswerIsOwn ==
    \A r \in Requests : pc[r] = "ok" =>
        LET x == result[r] IN
        /\ Visible(x) /\ opKey[x] = key[r] /\ opType[x] = kind[r]
        /\ vmOwner[opVm[x]] = user[r]
        /\ IF kind[r] = "create" THEN vmSize[opVm[x]] = size[r] ELSE opVm[x] = target[r]

\* A VM row never exists without the operation that creates it.
NoOrphanVm ==
    \A x \in Ids : VisibleVm(x) => Visible(x) /\ opType[x] = "create" /\ opVm[x] = x

\* What was checked still holds when it is committed: the VM is in the status
\* the operation needs, has no other active operation, and a creation is paid
\* for by an active quota.
CheckedAtCommit ==
    [][\A r \in Requests :
          opState[r] = "uncommitted" /\ opState'[r] = "active" =>
              IF kind[r] = "create"
              THEN quotaActive[user[r]]
              ELSE /\ vmStatus[target[r]] = AllowedStatus[kind[r]]
                   /\ \A x \in Ids : opState[x] = "active" => opVm[x] # target[r]]_vars

\* A request that has begun and has not been answered.
Busy(r) == pc[r] \notin {"idle", "ok", "error"}

\* What a statement can wait for: a locked row, or an uncommitted equal key.
Waits(r) ==
    \/ /\ pc[r] = "begin" /\ kind[r] = "create"
       /\ quotaLock[user[r]] # Nobody
    \/ /\ pc[r] = "begin" /\ kind[r] # "create"
       /\ VisibleVm(target[r]) /\ vmOwner[target[r]] = user[r]
       /\ vmLock[target[r]] # Nobody
    \/ /\ pc[r] = "insert" /\ WithKey(key[r]) = {}
       /\ \E x \in Ids : opKey[x] = key[r] /\ opState[x] = "uncommitted"

\* Requests that wait for a quota row, a VM row or an uncommitted key never
\* wait in a circle.
NoCircle == (\E r \in Requests : Busy(r)) => \E r \in Requests : Busy(r) /\ ~Waits(r)

\* While a request is under way one can take its next step: only what Waits
\* names holds a request up, and never all of them.  Each takes a bounded
\* number of steps, so all are answered.
SomeoneGoesOn ==
    /\ \A r \in Requests : Busy(r) /\ ~Waits(r) => ENABLED Step(r)
    /\ NoCircle
=============================================================================
