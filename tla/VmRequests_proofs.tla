------------------------- MODULE VmRequests_proofs -------------------------
(***************************************************************************)
(* Theorems about VmRequests for any number of requests, users, keys and   *)
(* VMs and any plan: one operation per key, one active operation per VM,   *)
(* the plan's limits, answers, and what is still true at the commit.       *)
(*                                                                         *)
(* The argument: from the look-up to the end of its own transaction a      *)
(* request holds the row lock its checks rely on, so no other request can  *)
(* insert what would make them false, and no worker has an operation left  *)
(* to commit on a VM that was found free.                                  *)
(***************************************************************************)
EXTENDS VmRequests, FiniteSetTheorems, TLAPS

\* The request's row is inserted and its transaction is open.
Open(r) == pc[r] = "commit" /\ opState[r] = "uncommitted"

\* The request relies on its row lock.
Holds(r) == pc[r] \in {"lookup", "check", "insert"} \/ Open(r)

LocksInv ==
    \A r \in Requests : Holds(r) =>
        IF kind[r] = "create" THEN quotaLock[user[r]] = r ELSE vmLock[target[r]] = r

\* The row of a request is inserted last and visible only once it is answered.
StageInv ==
    \A r \in Requests :
        /\ opState[r] = "uncommitted" => pc[r] = "commit"
        /\ Visible(r) => pc[r] = "ok"

\* What a request asks stays, and its row says the same.
OwnRowInv ==
    \A r \in Requests :
        /\ pc[r] # "idle" => (kind[r] = "create" <=> target[r] = r)
        /\ opState[r] # "absent" =>
              opType[r] = kind[r] /\ opKey[r] = key[r] /\ opVm[r] = target[r]

\* The VM of a lifecycle request is there and its owner asks.
TargetInv ==
    \A r \in Requests :
        pc[r] \notin {"idle", "begin", "error"} /\ kind[r] # "create" =>
            VisibleVm(target[r]) /\ vmOwner[target[r]] = user[r]

SeedInv ==
    \A x \in Seeds : Visible(x) /\ opType[x] = "create" /\ opVm[x] = x

\* A VM row comes and goes with the operation that creates it.
VmRowInv ==
    \A x \in Ids :
        /\ vmStatus[x] = "absent" <=> (opState[x] = "absent" \/ opType[x] # "create")
        /\ vmStatus[x] = "uncommitted" <=> (opState[x] = "uncommitted" /\ opType[x] = "create")

OwnVmInv ==
    \A r \in Requests :
        opState[r] # "absent" /\ opType[r] = "create" =>
            vmOwner[r] = user[r] /\ vmSize[r] = size[r]

\* The unique index, over committed and uncommitted rows.
KeyInv ==
    \A x, y \in Ids :
        opState[x] # "absent" /\ opState[y] # "absent" /\ opKey[x] = opKey[y] => x = y

\* The VM of an active operation is there, and neither failed nor deleted.
ActiveInv ==
    \A x \in Ids : opState[x] = "active" =>
        VisibleVm(opVm[x]) /\ vmStatus[opVm[x]] \notin {"failed", "deleted"}

\* The checks passed, and the row is not committed yet.
Checked(r) == pc[r] = "insert" \/ Open(r)

FreeInv ==
    \A r \in Requests : Checked(r) /\ kind[r] # "create" =>
        /\ vmStatus[target[r]] = AllowedStatus[kind[r]]
        /\ \A x \in Ids : opState[x] = "active" => opVm[x] # target[r]

PaidInv ==
    \A r \in Requests : Checked(r) /\ kind[r] = "create" =>
        quotaActive[user[r]] /\ FitsQuota(r)

\* The operation is for this request's key, kind, owner and VM.
IsFor(r, x) ==
    /\ opKey[x] = key[r] /\ opType[x] = kind[r] /\ vmOwner[opVm[x]] = user[r]
    /\ IF kind[r] = "create" THEN vmSize[opVm[x]] = size[r] ELSE opVm[x] = target[r]

\* What a request that is about to commit answers.
AnswerInv ==
    \A r \in Requests : pc[r] \in {"commit", "ok"} =>
        /\ IF opState[r] = "uncommitted" THEN result[r] = r ELSE Visible(result[r])
        /\ IsFor(r, result[r])

RowsInv == StageInv /\ OwnRowInv /\ TargetInv /\ SeedInv /\ VmRowInv /\ OwnVmInv
CheckInv == LocksInv /\ ActiveInv /\ OneActiveOperation /\ FreeInv /\ PaidInv
IInv ==
    /\ TypeOK /\ RowsInv /\ KeyInv /\ AnswerInv
    /\ CheckInv /\ QuotaHolds
-----------------------------------------------------------------------------
(* Sums of sizes *)

LEMMA UnitsFinite ==
  ASSUME NEW sz \in [Ids -> Nat], NEW S \in SUBSET Ids
  PROVE  IsFiniteSet(S) /\ IsFiniteSet(Units(sz, S))
<1> DEFINE Of(x) == {x} \X (1..sz[x])
<1> DEFINE T == {Of(x) : x \in S}
<1>1. IsFiniteSet(Ids)
  BY FS_Union, RequestsAssumption DEF Ids
<1>2. IsFiniteSet(S)
  BY <1>1, FS_Subset
<1>3. [x \in S |-> Of(x)] \in Surjection(S, T)
  BY DEF Surjection
<1>4. IsFiniteSet(T)
  <2> HIDE DEF Of, T
  <2> QED  BY <1>2, <1>3, FS_Surjection
<1>5. ASSUME NEW x \in S PROVE IsFiniteSet(Of(x))
  <2>1. sz[x] \in Int
    BY <1>5
  <2>2. IsFiniteSet(1..sz[x])
    BY <2>1, FS_Interval
  <2>3. IsFiniteSet({x})
    BY FS_Singleton
  <2> QED  BY <2>2, <2>3, FS_Product
<1>6. IsFiniteSet(UNION T)
  BY <1>4, <1>5, FS_UNION
<1> QED  BY <1>2, <1>6 DEF Units

LEMMA UnitsOfOne ==
  ASSUME NEW x, NEW n \in Nat
  PROVE  IsFiniteSet({x} \X (1..n)) /\ Cardinality({x} \X (1..n)) = n
<1>1. IsFiniteSet({x}) /\ Cardinality({x}) = 1
  BY FS_Singleton
<1>2. IsFiniteSet(1..n) /\ Cardinality(1..n) = n
  BY FS_Interval
<1> DEFINE A == {x}
<1> DEFINE B == 1..n
<1>3. IsFiniteSet(A \X B) /\ Cardinality(A \X B) = Cardinality(A) * Cardinality(B)
  <2>1. IsFiniteSet(A) /\ IsFiniteSet(B)
    BY <1>1, <1>2
  <2> HIDE DEF A, B
  <2> QED  BY <2>1, FS_Product
<1>4. Cardinality(A \X B) = 1 * n
  BY <1>1, <1>2, <1>3
<1>5. 1 * n = n
  OBVIOUS
<1>6. IsFiniteSet(A \X B) /\ Cardinality(A \X B) = n
  BY <1>3, <1>4, <1>5
<1> QED  BY <1>6

LEMMA UnitsAdd ==
  ASSUME NEW sz \in [Ids -> Nat], NEW S \in SUBSET Ids, NEW x \in Ids, x \notin S
  PROVE  /\ Cardinality(S \cup {x}) = Cardinality(S) + 1
         /\ Cardinality(Units(sz, S \cup {x})) = Cardinality(Units(sz, S)) + sz[x]
<1> DEFINE One == {x} \X (1..sz[x])
<1>1. IsFiniteSet(S) /\ IsFiniteSet(Units(sz, S))
  BY UnitsFinite
<1>2. IsFiniteSet(One) /\ Cardinality(One) = sz[x]
  BY UnitsOfOne
<1>3. Units(sz, S \cup {x}) = Units(sz, S) \cup One
  BY DEF Units
<1>4. Units(sz, S) \cap One = {}
  BY DEF Units
<1>5. Cardinality(Units(sz, S) \cap One) = 0
  BY <1>4, FS_EmptySet
<1>6. Cardinality(Units(sz, S)) \in Nat /\ Cardinality(One) \in Nat
  BY <1>1, <1>2, FS_CardinalityType
<1>7. Cardinality(Units(sz, S) \cup One)
          = Cardinality(Units(sz, S)) + Cardinality(One) - Cardinality(Units(sz, S) \cap One)
  <2> HIDE DEF One
  <2> QED  BY <1>1, <1>2, FS_Union
<1>8. Cardinality(S \cup {x}) = Cardinality(S) + 1
  BY <1>1, FS_AddElement
<1>9. Cardinality(Units(sz, S \cup {x})) = Cardinality(Units(sz, S)) + sz[x]
  <2> HIDE DEF One
  <2>1. Cardinality(Units(sz, S) \cup One) = Cardinality(Units(sz, S)) + Cardinality(One) - 0
    BY <1>5, <1>7
  <2>2. Cardinality(Units(sz, S) \cup One) = Cardinality(Units(sz, S)) + Cardinality(One)
    BY <1>6, <2>1
  <2> QED  BY <1>2, <1>3, <2>2
<1> QED  BY <1>8, <1>9

LEMMA UnitsSubset ==
  ASSUME NEW sz \in [Ids -> Nat], NEW S \in SUBSET Ids, NEW T \in SUBSET S
  PROVE  /\ Cardinality(T) <= Cardinality(S)
         /\ Cardinality(Units(sz, T)) <= Cardinality(Units(sz, S))
         /\ Cardinality(S) \in Nat /\ Cardinality(T) \in Nat
         /\ Cardinality(Units(sz, S)) \in Nat /\ Cardinality(Units(sz, T)) \in Nat
<1>1. IsFiniteSet(S) /\ IsFiniteSet(Units(sz, S)) /\ IsFiniteSet(T) /\ IsFiniteSet(Units(sz, T))
  BY UnitsFinite
<1>2. Units(sz, T) \in SUBSET Units(sz, S)
  BY DEF Units
<1> QED  BY <1>1, <1>2, FS_Subset, FS_CardinalityType

\* What the seeds take.
LEMMA UnitsEqual ==
  ASSUME NEW s \in Nat, NEW S \in SUBSET Ids
  PROVE  Cardinality(Units([x \in Ids |-> s], S)) = Cardinality(S) * s
<1> DEFINE sz == [x \in Ids |-> s]
<1>1. Units(sz, S) = S \X (1..s)
  BY DEF Units
<1>2. IsFiniteSet(S)
  BY UnitsFinite, sz \in [Ids -> Nat]
<1>3. IsFiniteSet(1..s) /\ Cardinality(1..s) = s
  BY FS_Interval
<1> QED  BY <1>1, <1>2, <1>3, FS_Product

LEMMA SizesAreNat == TypeOK => vmSize \in [Ids -> Nat] /\ \A r \in Requests : size[r] \in Nat
BY RequestsAssumption DEF TypeOK

WithinPlan(u) ==
    /\ Cardinality(Consuming(u)) <= MaxVms
    /\ Cardinality(Units(vmSize, Consuming(u))) <= MaxTotal

\* Who takes no more than before stays within the plan, and what fitted fits.
LEMMA UsageOf ==
  ASSUME TypeOK, TypeOK', NEW u \in Users,
         Consuming(u)' \subseteq Consuming(u),
         \A x \in Consuming(u)' : vmSize'[x] = vmSize[x]
  PROVE  /\ WithinPlan(u) => WithinPlan(u)'
         /\ \A r \in Requests :
               FitsQuota(r) /\ user[r] = u /\ user'[r] = u /\ size'[r] = size[r] => FitsQuota(r)'
<1> DEFINE num == Cardinality(Consuming(u))
<1> DEFINE sum == Cardinality(Units(vmSize, Consuming(u)))
<1>1. num \in Nat /\ num' \in Nat /\ num' <= num /\ sum \in Nat /\ sum' \in Nat /\ sum' <= sum
  <2>1. Consuming(u) \in SUBSET Ids /\ Consuming(u)' \in SUBSET Consuming(u)
    BY DEF Consuming
  <2>2. Units(vmSize', Consuming(u)') = Units(vmSize, Consuming(u)')
    BY DEF Units
  <2>3. vmSize \in [Ids -> Nat]
    BY SizesAreNat
  <2> QED  BY <2>1, <2>2, <2>3, UnitsSubset
<1>2. ASSUME WithinPlan(u) PROVE WithinPlan(u)'
  <2>1. num <= MaxVms /\ sum <= MaxTotal
    BY <1>2 DEF WithinPlan
  <2> HIDE DEF num, sum
  <2>2. num' <= MaxVms /\ sum' <= MaxTotal
    BY <1>1, <2>1, RequestsAssumption
  <2> QED  BY <2>2 DEF WithinPlan, num, sum
<1>3. ASSUME NEW r \in Requests, FitsQuota(r), user[r] = u, user'[r] = u, size'[r] = size[r]
      PROVE  FitsQuota(r)'
  <2>1. num + 1 <= MaxVms /\ sum + size[r] <= MaxTotal /\ size[r] \in Nat
    BY <1>3, SizesAreNat DEF FitsQuota
  <2>2. PICK n1 \in Nat, n2 \in Nat, s1 \in Nat, s2 \in Nat, n \in Nat :
           n1 = num /\ n2 = num' /\ s1 = sum /\ s2 = sum' /\ n = size[r]
    BY <1>1, <2>1
  <2> HIDE DEF num, sum
  <2>3. n1 + 1 <= MaxVms /\ s1 + n <= MaxTotal /\ n2 <= n1 /\ s2 <= s1
    BY <1>1, <2>1, <2>2
  <2>4. n2 + 1 <= MaxVms /\ s2 + n <= MaxTotal
    BY <2>3, RequestsAssumption
  <2>5. /\ Cardinality(Consuming(u))' + 1 <= MaxVms
        /\ Cardinality(Units(vmSize, Consuming(u)))' + size[r] <= MaxTotal
    BY <2>2, <2>4 DEF num, sum
  <2> QED  BY <1>3, <2>5 DEF FitsQuota
<1> QED  BY <1>2, <1>3

LEMMA UsageKept ==
  ASSUME TypeOK, TypeOK',
         \A u \in Users : /\ Consuming(u)' \subseteq Consuming(u)
                          /\ \A x \in Consuming(u)' : vmSize'[x] = vmSize[x]
  PROVE  /\ QuotaHolds => QuotaHolds'
         /\ \A r \in Requests :
               FitsQuota(r) /\ user'[r] = user[r] /\ size'[r] = size[r] => FitsQuota(r)'
<1>1. \A u \in Users : WithinPlan(u) => WithinPlan(u)'
  BY UsageOf
<1>2. \A r \in Requests : user[r] \in Users
  BY DEF TypeOK
<1> QED  BY <1>1, <1>2, UsageOf DEF QuotaHolds, WithinPlan

-----------------------------------------------------------------------------
(* The initial state *)

LEMMA InitInv == Init => IInv
<1> SUFFICES ASSUME Init PROVE IInv
  OBVIOUS
<1> USE RequestsAssumption
<1>1. TypeOK
  BY DEF Init, TypeOK, Ids, Kinds, OpStates, VmStates
<1>2. StageInv /\ OwnRowInv /\ TargetInv /\ SeedInv
  BY DEF Init, StageInv, OwnRowInv, TargetInv, SeedInv, Visible, Ids
<1>3. VmRowInv /\ OwnVmInv
  BY DEF Init, VmRowInv, OwnVmInv, Ids
<1>4. KeyInv
  BY DEF Init, KeyInv, Ids
<1>5. AnswerInv /\ LocksInv /\ ActiveInv /\ OneActiveOperation /\ FreeInv /\ PaidInv
  BY DEF Init, AnswerInv, LocksInv, ActiveInv, OneActiveOperation, FreeInv, PaidInv,
         Holds, Checked, Open
<1>6. QuotaHolds
  <2> SUFFICES ASSUME NEW u \in Users
               PROVE  /\ Cardinality(Consuming(u)) <= MaxVms
                      /\ Cardinality(Units(vmSize, Consuming(u))) <= MaxTotal
    BY DEF QuotaHolds
  <2>1. PICK s \in Sizes : vmSize = [x \in Ids |-> s]
    BY DEF Init
  <2>2. s \in Nat /\ Seeds \in SUBSET Ids /\ vmSize \in [Ids -> Nat]
    BY <2>1 DEF Ids
  <2>3. Consuming(u) \in SUBSET Seeds
    BY DEF Init, Consuming, VisibleVm
  <2>4. Cardinality(Units(vmSize, Seeds)) = Cardinality(Seeds) * s
    BY <2>1, <2>2, UnitsEqual
  <2>5. Cardinality(Seeds) <= MaxVms /\ Cardinality(Seeds) * s <= MaxTotal
    BY SeedsAssumption
  <2>6. /\ Cardinality(Consuming(u)) <= Cardinality(Seeds)
        /\ Cardinality(Units(vmSize, Consuming(u))) <= Cardinality(Units(vmSize, Seeds))
        /\ Cardinality(Consuming(u)) \in Nat /\ Cardinality(Seeds) \in Nat
        /\ Cardinality(Units(vmSize, Consuming(u))) \in Nat
        /\ Cardinality(Units(vmSize, Seeds)) \in Nat
    BY <2>2, <2>3, UnitsSubset
  <2> QED  BY <2>4, <2>5, <2>6
<1> QED  BY <1>1, <1>2, <1>3, <1>4, <1>5, <1>6 DEF IInv, RowsInv, CheckInv
-----------------------------------------------------------------------------
(* What a step does to the request that takes it *)

\* It gives up, or goes back to look for the operation another one inserted.
Ends(r, l) ==
    /\ pc[r] \notin {"idle", "ok", "error"}
    /\ l = "error" \/ (l = "conflict" /\ pc[r] = "insert")
    /\ Goto(r, l) /\ Rollback(r)
    /\ UNCHANGED <<input, result>>

\* It goes on to its checks, or to its insert because they passed.
Passes(r, l) ==
    /\ \/ pc[r] = "lookup" /\ l = "check"
       \/ pc[r] = "check" /\ l = "insert" /\ Permitted(r)
    /\ Goto(r, l)
    /\ UNCHANGED <<input, result, ops, vms, quotaActive, locks>>

\* It found its answer under its key.
Answers(r, x) ==
    pc[r] \in {"lookup", "conflict"} /\ x \in WithKey(key[r]) /\ Replay(r, x)

Submitted(r) ==
    \E kd \in Asked, u \in Users, k \in Keys, t \in Ids, s \in Sizes : Submit(r, kd, u, k, t, s)

LEMMA StepEffect ==
  ASSUME NEW r \in Requests, Step(r) \/ Abort(r)
  PROVE  \/ LockQuota(r) \/ LockVm(r) \/ Insert(r) \/ Commit(r)
         \/ \E l \in {"error", "conflict"} : Ends(r, l)
         \/ \E l \in {"check", "insert"} : Passes(r, l)
         \/ \E x \in Ids : Answers(r, x)
<1>1. CASE NotFound(r) \/ Abort(r)
  BY <1>1 DEF NotFound, Abort, Refuse, Ends
<1>2. CASE Lookup(r)
  BY <1>2 DEF Lookup, Refuse, Ends, Passes, Answers, WithKey
<1>3. CASE Check(r)
  BY <1>3 DEF Check, Refuse, Ends, Passes
<1>4. CASE KeyTaken(r)
  BY <1>4 DEF KeyTaken, Ends
<1>5. CASE Resolve(r)
  BY <1>5 DEF Resolve, Refuse, Ends, Answers, WithKey
<1> QED  BY <1>1, <1>2, <1>3, <1>4, <1>5 DEF Step
-----------------------------------------------------------------------------
(* The invariant, one effect at a time *)

\* A transaction rolled back leaves what the others rely on as it was.
LEMMA EndsInv ==
  ASSUME IInv, NEW r \in Requests, NEW l \in {"error", "conflict"}, Ends(r, l)
  PROVE  IInv'
<1> USE DEF IInv, RowsInv, CheckInv
<1>1. /\ opState[r] \in {"absent", "uncommitted"} /\ vmStatus[r] \in {"absent", "uncommitted"}
      /\ opState' = [opState EXCEPT ![r] = "absent"]
      /\ vmStatus' = [vmStatus EXCEPT ![r] = "absent"]
  <2>1. opState[r] \in {"absent", "uncommitted"}
    BY DEF Ends, StageInv, Visible
  <2>2. vmStatus[r] \in {"absent", "uncommitted"}
    BY <2>1 DEF VmRowInv, Ids
  <2> QED  BY <2>1, <2>2 DEF Ends, Rollback
<1>2. /\ pc' = [pc EXCEPT ![r] = l]
      /\ pc[r] \notin {"idle", "ok", "error"}
      /\ l = "conflict" => pc[r] = "insert"
      /\ UNCHANGED <<kind, user, key, target, size, result>>
      /\ UNCHANGED <<opType, opKey, opVm, vmOwner, vmSize, quotaActive>>
  BY DEF Ends, Goto, Rollback, input
<1>3. /\ quotaLock' = [u \in Users |-> IF quotaLock[u] = r THEN Nobody ELSE quotaLock[u]]
      /\ vmLock' = [x \in Ids |-> IF vmLock[x] = r THEN Nobody ELSE vmLock[x]]
  BY DEF Ends, Rollback, Release, Unlocked, TypeOK
<1>4. TypeOK'
  BY <1>1, <1>2, <1>3 DEF TypeOK, OpStates, VmStates, Ids
<1>5. \A x \in Ids : (Visible(x)' <=> Visible(x)) /\ (VisibleVm(x)' <=> VisibleVm(x))
  BY <1>1 DEF Visible, VisibleVm, TypeOK
<1>6. \A x \in Ids : VisibleVm(x) => vmStatus'[x] = vmStatus[x]
  BY <1>1 DEF VisibleVm, TypeOK
<1>7. StageInv' /\ OwnRowInv' /\ SeedInv' /\ OwnVmInv'
  BY <1>1, <1>2, <1>5 DEF StageInv, OwnRowInv, SeedInv, OwnVmInv, Visible, TypeOK, Ids
<1>8. TargetInv'
  BY <1>1, <1>2, <1>5 DEF TargetInv, TypeOK, Ids
<1>9. VmRowInv' /\ KeyInv'
  BY <1>1, <1>2 DEF VmRowInv, KeyInv, TypeOK, Ids
<1>10. AnswerInv'
  <2> SUFFICES ASSUME NEW q \in Requests, pc'[q] \in {"commit", "ok"}
               PROVE  /\ IF opState'[q] = "uncommitted" THEN result'[q] = q ELSE Visible(result[q])'
                      /\ IsFor(q, result[q])'
    BY DEF AnswerInv
  <2>1. q # r /\ pc'[q] = pc[q] /\ opState'[q] = opState[q]
    BY <1>1, <1>2 DEF TypeOK, Ids
  <2>2. PICK x \in Ids : x = result[q] /\ x = result'[q]
    BY <1>2 DEF TypeOK
  <2>3. Visible(x)' <=> Visible(x)
    BY <1>5
  <2> QED  BY <1>2, <2>1, <2>2, <2>3 DEF AnswerInv, IsFor, Visible
<1>11. \A q \in Requests :
          /\ Holds(q)' => Holds(q) /\ q # r
          /\ Checked(q)' => Checked(q) /\ q # r
  BY <1>1, <1>2 DEF Holds, Checked, Open, TypeOK, Ids
<1>12. LocksInv'
  BY <1>2, <1>3, <1>11 DEF LocksInv, TypeOK
<1>13. ActiveInv' /\ OneActiveOperation'
  BY <1>1, <1>2, <1>5, <1>6 DEF ActiveInv, OneActiveOperation, TypeOK
<1>14. FreeInv'
  BY <1>1, <1>2, <1>6, <1>11 DEF FreeInv, TargetInv, Checked, Open, TypeOK
<1>15. \A u \in Users : Consuming(u)' = Consuming(u)
  BY <1>2, <1>5, <1>6 DEF Consuming
<1>16. QuotaHolds' /\ PaidInv'
  <2>1. /\ QuotaHolds => QuotaHolds'
        /\ \A q \in Requests :
              FitsQuota(q) /\ user'[q] = user[q] /\ size'[q] = size[q] => FitsQuota(q)'
    BY <1>2, <1>4, <1>15, UsageKept
  <2> QED  BY <1>2, <1>11, <2>1 DEF PaidInv
<1> QED  BY <1>4, <1>7, <1>8, <1>9, <1>10, <1>12, <1>13, <1>14, <1>16

\* What is about rows only stays with the rows.
LEMMA RowsKept ==
  ASSUME IInv, TypeOK', UNCHANGED <<ops, vms>>
  PROVE  /\ SeedInv' /\ VmRowInv' /\ KeyInv' /\ ActiveInv' /\ OneActiveOperation'
         /\ QuotaHolds'
         /\ \A r \in Requests :
               FitsQuota(r) /\ user'[r] = user[r] /\ size'[r] = size[r] => FitsQuota(r)'
<1> USE DEF IInv, RowsInv, CheckInv, ops, vms
<1>1. SeedInv' /\ VmRowInv' /\ KeyInv'
  BY DEF SeedInv, VmRowInv, KeyInv, Visible
<1>2. ActiveInv' /\ OneActiveOperation'
  BY DEF ActiveInv, OneActiveOperation, VisibleVm
<1>3. \A u \in Users : Consuming(u)' = Consuming(u) /\ vmSize' = vmSize
  BY DEF Consuming, VisibleVm
<1> QED  BY <1>1, <1>2, <1>3, UsageKept

LEMMA SubmitInv ==
  ASSUME IInv, NEW r \in Requests, Submitted(r)
  PROVE  IInv'
<1> USE DEF IInv, RowsInv, CheckInv
<1>1. PICK kd \in Asked, u \in Users, k \in Keys, t \in Ids, s \in Sizes : Submit(r, kd, u, k, t, s)
  BY DEF Submitted
<1>2. /\ pc' = [pc EXCEPT ![r] = "begin"] /\ pc[r] = "idle"
      /\ kind' = [kind EXCEPT ![r] = kd] /\ user' = [user EXCEPT ![r] = u]
      /\ key' = [key EXCEPT ![r] = k] /\ target' = [target EXCEPT ![r] = t]
      /\ size' = [size EXCEPT ![r] = s]
      /\ kd = "create" <=> t = r
      /\ UNCHANGED <<result, quotaActive, locks>>
      /\ UNCHANGED <<ops, vms>>
  BY <1>1 DEF Submit, Goto
<1>3. opState[r] = "absent"
  BY <1>2 DEF StageInv, Visible, TypeOK, Ids
<1>4. TypeOK'
  BY <1>2, RequestsAssumption DEF TypeOK, ops, vms, locks
<1>5. /\ SeedInv' /\ VmRowInv' /\ KeyInv' /\ ActiveInv' /\ OneActiveOperation' /\ QuotaHolds'
      /\ \A q \in Requests :
            FitsQuota(q) /\ user'[q] = user[q] /\ size'[q] = size[q] => FitsQuota(q)'
  BY <1>2, <1>4, RowsKept
<1>6. \A q \in Requests :
         pc'[q] \notin {"idle", "begin"} =>
             /\ q # r /\ pc'[q] = pc[q] /\ kind'[q] = kind[q] /\ user'[q] = user[q]
             /\ key'[q] = key[q] /\ target'[q] = target[q] /\ size'[q] = size[q]
  BY <1>2 DEF TypeOK
<1>7. StageInv' /\ OwnRowInv' /\ TargetInv' /\ OwnVmInv'
  BY <1>2, <1>3 DEF StageInv, OwnRowInv, TargetInv, OwnVmInv, Visible, VisibleVm, TypeOK, ops, vms
<1>8. AnswerInv'
  BY <1>2, <1>6 DEF AnswerInv, IsFor, Visible, ops, vms
<1>9. \A q \in Requests :
         (Holds(q)' => Holds(q) /\ pc'[q] \notin {"idle", "begin"})
             /\ (Checked(q)' => Checked(q) /\ pc'[q] \notin {"idle", "begin"})
  BY <1>2, <1>6 DEF Holds, Checked, Open, ops
<1>10. LocksInv' /\ FreeInv' /\ PaidInv'
  BY <1>2, <1>5, <1>6, <1>9 DEF LocksInv, FreeInv, PaidInv, locks, ops, vms
<1> QED  BY <1>4, <1>5, <1>7, <1>8, <1>10

LEMMA LockQuotaInv ==
  ASSUME IInv, NEW r \in Requests, LockQuota(r)
  PROVE  IInv'
<1> USE DEF IInv, RowsInv, CheckInv
<1>1. /\ pc' = [pc EXCEPT ![r] = "lookup"] /\ pc[r] = "begin" /\ kind[r] = "create"
      /\ quotaLock[user[r]] = Nobody
      /\ quotaLock' = [quotaLock EXCEPT ![user[r]] = r]
      /\ UNCHANGED <<kind, user, key, target, size, result, quotaActive, vmLock>>
      /\ UNCHANGED <<ops, vms>>
  BY DEF LockQuota, Goto, input
<1>2. TypeOK'
  BY <1>1 DEF TypeOK, ops, vms
<1>3. /\ SeedInv' /\ VmRowInv' /\ KeyInv' /\ ActiveInv' /\ OneActiveOperation' /\ QuotaHolds'
      /\ \A q \in Requests :
            FitsQuota(q) /\ user'[q] = user[q] /\ size'[q] = size[q] => FitsQuota(q)'
  BY <1>1, <1>2, RowsKept
<1>4. \A q \in Requests :
         (Holds(q)' => Holds(q) \/ q = r) /\ (Checked(q)' => Checked(q))
  BY <1>1 DEF Holds, Checked, Open, ops, TypeOK
<1>5. LocksInv'
  BY <1>1, <1>4, RequestsAssumption DEF LocksInv, TypeOK
<1>6. StageInv' /\ OwnRowInv' /\ TargetInv' /\ OwnVmInv'
  BY <1>1 DEF StageInv, OwnRowInv, TargetInv, OwnVmInv, Visible, VisibleVm, TypeOK, ops, vms
<1>7. AnswerInv'
  BY <1>1 DEF AnswerInv, IsFor, Visible, TypeOK, ops, vms
<1>8. FreeInv' /\ PaidInv'
  BY <1>1, <1>3, <1>4 DEF FreeInv, PaidInv, ops, vms
<1> QED  BY <1>2, <1>3, <1>5, <1>6, <1>7, <1>8

LEMMA LockVmInv ==
  ASSUME IInv, NEW r \in Requests, LockVm(r)
  PROVE  IInv'
<1> USE DEF IInv, RowsInv, CheckInv
<1>1. /\ pc' = [pc EXCEPT ![r] = "lookup"] /\ pc[r] = "begin" /\ kind[r] # "create"
      /\ VisibleVm(target[r]) /\ vmOwner[target[r]] = user[r]
      /\ vmLock[target[r]] = Nobody
      /\ vmLock' = [vmLock EXCEPT ![target[r]] = r]
      /\ UNCHANGED <<kind, user, key, target, size, result, quotaActive, quotaLock>>
      /\ UNCHANGED <<ops, vms>>
  BY DEF LockVm, Goto, input
<1>2. TypeOK'
  BY <1>1 DEF TypeOK, ops, vms
<1>3. /\ SeedInv' /\ VmRowInv' /\ KeyInv' /\ ActiveInv' /\ OneActiveOperation' /\ QuotaHolds'
      /\ \A q \in Requests :
            FitsQuota(q) /\ user'[q] = user[q] /\ size'[q] = size[q] => FitsQuota(q)'
  BY <1>1, <1>2, RowsKept
<1>4. \A q \in Requests :
         (Holds(q)' => Holds(q) \/ q = r) /\ (Checked(q)' => Checked(q))
  BY <1>1 DEF Holds, Checked, Open, ops, TypeOK
<1>5. LocksInv'
  BY <1>1, <1>4, RequestsAssumption DEF LocksInv, TypeOK
<1>6. StageInv' /\ OwnRowInv' /\ TargetInv' /\ OwnVmInv'
  BY <1>1 DEF StageInv, OwnRowInv, TargetInv, OwnVmInv, Visible, VisibleVm, TypeOK, ops, vms
<1>7. AnswerInv'
  BY <1>1 DEF AnswerInv, IsFor, Visible, TypeOK, ops, vms
<1>8. FreeInv' /\ PaidInv'
  BY <1>1, <1>3, <1>4 DEF FreeInv, PaidInv, ops, vms
<1> QED  BY <1>2, <1>3, <1>5, <1>6, <1>7, <1>8

LEMMA PassesInv ==
  ASSUME IInv, NEW r \in Requests, NEW l \in {"check", "insert"}, Passes(r, l)
  PROVE  IInv'
<1> USE DEF IInv, RowsInv, CheckInv
<1>1. /\ pc' = [pc EXCEPT ![r] = l] /\ pc[r] \in {"lookup", "check"}
      /\ l = "insert" => Permitted(r)
      /\ UNCHANGED <<kind, user, key, target, size, result, quotaActive, vmLock, quotaLock>>
      /\ UNCHANGED <<ops, vms>>
  BY DEF Passes, Goto, input, locks
<1>2. TypeOK'
  BY <1>1 DEF TypeOK, ops, vms
<1>3. /\ SeedInv' /\ VmRowInv' /\ KeyInv' /\ ActiveInv' /\ OneActiveOperation' /\ QuotaHolds'
      /\ \A q \in Requests :
            FitsQuota(q) /\ user'[q] = user[q] /\ size'[q] = size[q] => FitsQuota(q)'
  BY <1>1, <1>2, RowsKept
<1>4. \A q \in Requests :
         (Holds(q)' => Holds(q)) /\ (Checked(q)' => Checked(q) \/ (q = r /\ Permitted(r)))
  BY <1>1 DEF Holds, Checked, Open, ops, TypeOK
<1>5. LocksInv'
  BY <1>1, <1>4 DEF LocksInv
<1>6. StageInv' /\ OwnRowInv' /\ TargetInv' /\ OwnVmInv'
  BY <1>1 DEF StageInv, OwnRowInv, TargetInv, OwnVmInv, Visible, VisibleVm, TypeOK, ops, vms
<1>7. AnswerInv'
  BY <1>1 DEF AnswerInv, IsFor, Visible, TypeOK, ops, vms
<1>8. FreeInv' /\ PaidInv'
  BY <1>1, <1>3, <1>4 DEF FreeInv, PaidInv, Permitted, ops, vms
<1> QED  BY <1>2, <1>3, <1>5, <1>6, <1>7, <1>8

\* What is found under the key is the request's own, for lifecycle requests
\* because the VM it names has the owner the request was checked against.
LEMMA AnswersInv ==
  ASSUME IInv, NEW r \in Requests, NEW x \in Ids, Answers(r, x)
  PROVE  IInv'
<1> USE DEF IInv, RowsInv, CheckInv
<1>1. /\ pc' = [pc EXCEPT ![r] = "commit"] /\ pc[r] \in {"lookup", "conflict"}
      /\ result' = [result EXCEPT ![r] = x]
      /\ Visible(x) /\ opKey[x] = key[r] /\ Matches(r, x)
      /\ UNCHANGED <<kind, user, key, target, size, quotaActive, vmLock, quotaLock>>
      /\ UNCHANGED <<ops, vms>>
  BY DEF Answers, Replay, WithKey, Goto, input, locks
<1>2. TypeOK'
  BY <1>1 DEF TypeOK, ops, vms
<1>3. /\ SeedInv' /\ VmRowInv' /\ KeyInv' /\ ActiveInv' /\ OneActiveOperation' /\ QuotaHolds'
      /\ \A q \in Requests :
            FitsQuota(q) /\ user'[q] = user[q] /\ size'[q] = size[q] => FitsQuota(q)'
  BY <1>1, <1>2, RowsKept
<1>4. opState[r] = "absent"
  BY <1>1 DEF StageInv, Visible
<1>5. \A q \in Requests : (Holds(q)' => Holds(q)) /\ (Checked(q)' => Checked(q))
  BY <1>1, <1>4 DEF Holds, Checked, Open, ops, TypeOK
<1>6. LocksInv'
  BY <1>1, <1>5 DEF LocksInv
<1>7. StageInv' /\ OwnRowInv' /\ TargetInv' /\ OwnVmInv'
  BY <1>1, <1>4 DEF StageInv, OwnRowInv, TargetInv, OwnVmInv, Visible, VisibleVm, TypeOK, ops, vms
<1>8. IsFor(r, x)
  BY <1>1 DEF IsFor, Matches, TargetInv
<1>9. AnswerInv'
  BY <1>1, <1>4, <1>8 DEF AnswerInv, IsFor, Visible, TypeOK, ops, vms
<1>10. FreeInv' /\ PaidInv'
  BY <1>1, <1>3, <1>5 DEF FreeInv, PaidInv, ops, vms
<1> QED  BY <1>2, <1>3, <1>6, <1>7, <1>9, <1>10

LEMMA ToggleInv ==
  ASSUME IInv, NEW u \in Users, ToggleQuota(u)
  PROVE  IInv'
<1> USE DEF IInv, RowsInv, CheckInv
<1>1. /\ quotaLock[u] = Nobody /\ quotaActive' = [quotaActive EXCEPT ![u] = ~@]
      /\ UNCHANGED <<pc, kind, user, key, target, size, result, vmLock, quotaLock>>
      /\ UNCHANGED <<ops, vms>>
  BY DEF ToggleQuota, input, locks
<1>2. TypeOK'
  <2>1. quotaActive' \in [Users -> BOOLEAN]
    BY <1>1 DEF TypeOK
  <2> QED  BY <1>1, <2>1 DEF TypeOK, ops, vms
<1>3. /\ SeedInv' /\ VmRowInv' /\ KeyInv' /\ ActiveInv' /\ OneActiveOperation' /\ QuotaHolds'
      /\ \A q \in Requests :
            FitsQuota(q) /\ user'[q] = user[q] /\ size'[q] = size[q] => FitsQuota(q)'
  BY <1>1, <1>2, RowsKept
<1>4. \A q \in Requests : (Holds(q)' <=> Holds(q)) /\ (Checked(q)' <=> Checked(q))
  BY <1>1 DEF Holds, Checked, Open, ops
<1>5. LocksInv' /\ FreeInv'
  BY <1>1, <1>4 DEF LocksInv, FreeInv, ops, vms
<1>6. \A q \in Requests : Checked(q) /\ kind[q] = "create" => user[q] # u
  BY <1>1, RequestsAssumption DEF LocksInv, Holds, Checked
<1>7. PaidInv'
  BY <1>1, <1>3, <1>4, <1>6 DEF PaidInv, TypeOK
<1>8. StageInv' /\ OwnRowInv' /\ TargetInv' /\ OwnVmInv' /\ AnswerInv'
  BY <1>1 DEF StageInv, OwnRowInv, TargetInv, OwnVmInv, AnswerInv, IsFor, Visible, VisibleVm, ops, vms
<1> QED  BY <1>2, <1>3, <1>5, <1>7, <1>8

\* The VM of an operation is its own or one that was there before it.
LEMMA VmOfOperation ==
  ASSUME IInv, NEW x \in Ids, opState[x] # "absent"
  PROVE  opVm[x] = x \/ VisibleVm(opVm[x])
<1> USE DEF IInv, RowsInv
<1>1. CASE x \in Seeds
  BY <1>1 DEF SeedInv
<1>2. CASE x \in Requests
  <2>1. pc[x] \in {"commit", "ok"}
    BY <1>2 DEF StageInv, Visible
  <2> QED  BY <1>2, <2>1 DEF OwnRowInv, TargetInv
<1> QED  BY <1>1, <1>2 DEF Ids

\* The inserted rows are nobody else's business until they are committed.
LEMMA InsertInv ==
  ASSUME IInv, NEW r \in Requests, Insert(r)
  PROVE  IInv'
<1> USE DEF IInv, RowsInv, CheckInv
<1> DEFINE creates == kind[r] = "create"
<1>1. /\ pc[r] = "insert" /\ pc' = [pc EXCEPT ![r] = "commit"]
      /\ \A x \in Ids : opKey[x] = key[r] => opState[x] = "absent"
      /\ opState' = [opState EXCEPT ![r] = "uncommitted"]
      /\ opType' = [opType EXCEPT ![r] = kind[r]]
      /\ opKey' = [opKey EXCEPT ![r] = key[r]]
      /\ opVm' = [opVm EXCEPT ![r] = target[r]]
      /\ result' = [result EXCEPT ![r] = r]
      /\ UNCHANGED <<kind, user, key, target, size, quotaActive, quotaLock, vmLock>>
  BY DEF Insert, InsertRows, Goto, input, locks
<1>2. /\ creates => /\ vmStatus' = [vmStatus EXCEPT ![r] = "uncommitted"]
                    /\ vmOwner' = [vmOwner EXCEPT ![r] = user[r]]
                    /\ vmSize' = [vmSize EXCEPT ![r] = size[r]]
      /\ ~creates => vmStatus' = vmStatus /\ vmOwner' = vmOwner /\ vmSize' = vmSize
  BY DEF Insert, InsertRows, vms
<1>3. /\ opState[r] = "absent" /\ vmStatus[r] = "absent" /\ r \in Ids /\ r \notin Seeds
      /\ creates <=> target[r] = r
  <2>1. opState[r] = "absent"
    BY <1>1 DEF StageInv, Visible
  <2> QED  BY <1>1, <2>1, RequestsAssumption DEF VmRowInv, OwnRowInv, Ids
<1>4. \A x \in Ids : x # r =>
         /\ opState'[x] = opState[x] /\ opType'[x] = opType[x] /\ opKey'[x] = opKey[x]
         /\ opVm'[x] = opVm[x]
         /\ vmStatus'[x] = vmStatus[x] /\ vmOwner'[x] = vmOwner[x] /\ vmSize'[x] = vmSize[x]
  BY <1>1, <1>2 DEF TypeOK
<1>5. /\ opState'[r] = "uncommitted" /\ opType'[r] = kind[r] /\ opKey'[r] = key[r]
      /\ opVm'[r] = target[r] /\ result'[r] = r
      /\ creates => vmStatus'[r] = "uncommitted" /\ vmOwner'[r] = user[r] /\ vmSize'[r] = size[r]
      /\ ~creates => vmStatus'[r] = "absent"
  BY <1>1, <1>2, <1>3 DEF TypeOK
<1>6. TypeOK'
  <2>1. /\ vmStatus' \in [Ids -> VmStates] /\ vmOwner' \in [Ids -> Users]
        /\ vmSize' \in [Ids -> Sizes]
    BY <1>2 DEF TypeOK, VmStates
  <2>2. /\ opState' \in [Ids -> OpStates] /\ opType' \in [Ids -> Kinds]
        /\ opKey' \in [Ids -> Keys \cup Seeds] /\ opVm' \in [Ids -> Ids]
    BY <1>1 DEF TypeOK, OpStates
  <2> QED  BY <1>1, <1>3, <2>1, <2>2 DEF TypeOK
<1>7. \A x \in Ids : (Visible(x)' <=> Visible(x)) /\ (VisibleVm(x)' <=> VisibleVm(x))
  BY <1>3, <1>4, <1>5 DEF Visible, VisibleVm
<1>8. \A x \in Ids : VisibleVm(x) => x # r
  BY <1>3 DEF VisibleVm
<1>9. \A q \in Requests :
         q # r => opState'[q] = opState[q] /\ pc'[q] = pc[q] /\ result'[q] = result[q] /\ target[q] \in Ids
  BY <1>1 DEF TypeOK, Ids
<1> HIDE DEF creates
<1>10. StageInv' /\ OwnRowInv'
  BY <1>1, <1>4, <1>5, <1>9 DEF StageInv, OwnRowInv, Visible, TypeOK, Ids
<1>11. TargetInv'
  <2>1. /\ kind' = kind /\ user' = user /\ target' = target
        /\ \A q \in Requests : pc'[q] \notin {"idle", "begin", "error"} => pc[q] \notin {"idle", "begin", "error"}
    BY <1>1 DEF TypeOK
  <2>2. \A q \in Requests : target[q] \in Ids
    BY DEF TypeOK
  <2> QED  BY <1>4, <1>7, <1>8, <2>1, <2>2 DEF TargetInv
<1>12. SeedInv'
  BY <1>3, <1>4, <1>7 DEF SeedInv, Ids
<1>13. OwnVmInv'
  BY <1>1, <1>4, <1>5 DEF OwnVmInv, Ids, creates
<1>14. VmRowInv'
  BY <1>3, <1>4, <1>5 DEF VmRowInv, creates
<1>15. KeyInv'
  BY <1>1, <1>4, <1>5 DEF KeyInv
<1>16. AnswerInv'
  <2> SUFFICES ASSUME NEW q \in Requests, pc'[q] \in {"commit", "ok"}
               PROVE  /\ IF opState'[q] = "uncommitted" THEN result'[q] = q ELSE Visible(result[q])'
                      /\ IsFor(q, result[q])'
    BY DEF AnswerInv
  <2>1. CASE q = r
    <3>1. vmOwner'[target[r]] = user[r]
      <4>1. CASE creates
        BY <1>3, <1>5, <4>1
      <4>2. CASE ~creates
        <5>1. VisibleVm(target[r]) /\ vmOwner[target[r]] = user[r] /\ target[r] \in Ids
          BY <1>1, <4>2 DEF TargetInv, TypeOK, creates
        <5> QED  BY <1>4, <1>8, <5>1
      <4> QED  BY <4>1, <4>2
    <3>2. IF creates THEN vmSize'[target[r]] = size[r] ELSE opVm'[r] = target[r]
      BY <1>3, <1>5
    <3> QED  BY <1>1, <1>5, <2>1, <3>1, <3>2 DEF IsFor, creates
  <2>2. CASE q # r
    <3>1. PICK x \in Ids : x = result[q] /\ x = result'[q]
      BY <1>9, <2>2 DEF TypeOK
    <3>2. /\ IF opState[q] = "uncommitted" THEN x = q ELSE Visible(x)
          /\ IsFor(q, x)
      BY <1>9, <2>2, <3>1 DEF AnswerInv
    <3>3. x # r /\ opState[x] # "absent"
      BY <1>3, <2>2, <3>2 DEF Visible
    <3>4. opVm[x] # r /\ opVm[x] \in Ids
      BY <1>8, <3>3, VmOfOperation DEF TypeOK
    <3>5. IsFor(q, x)'
      BY <1>1, <1>4, <3>2, <3>3, <3>4 DEF IsFor
    <3>6. Visible(x)' <=> Visible(x)
      BY <1>7
    <3> QED  BY <1>9, <2>2, <3>1, <3>2, <3>5, <3>6 DEF IsFor, Visible
  <2> QED  BY <2>1, <2>2
<1>17. \A q \in Requests : (Holds(q)' => Holds(q)) /\ (Checked(q)' => Checked(q))
  BY <1>1, <1>9 DEF Holds, Checked, Open, TypeOK
<1>18. LocksInv'
  BY <1>1, <1>17 DEF LocksInv
<1>19. ActiveInv'
  <2>1. \A x \in Ids : opState'[x] = "active" => x # r /\ opVm[x] \in Ids /\ opVm'[x] = opVm[x]
    BY <1>4, <1>5 DEF TypeOK
  <2> QED  BY <1>4, <1>7, <1>8, <2>1 DEF ActiveInv
<1>20. OneActiveOperation'
  BY <1>4, <1>5 DEF OneActiveOperation
<1>21. FreeInv'
  <2> SUFFICES ASSUME NEW q \in Requests, Checked(q), kind[q] # "create"
               PROVE  /\ vmStatus'[target[q]] = AllowedStatus[kind[q]]
                      /\ \A x \in Ids : opState'[x] = "active" => opVm'[x] # target[q]
    BY <1>1, <1>17 DEF FreeInv
  <2>1. VisibleVm(target[q]) /\ target[q] \in Ids
    BY DEF TargetInv, Checked, Open, TypeOK
  <2> QED  BY <1>4, <1>5, <1>8, <2>1 DEF FreeInv
<1>22. \A u \in Users : /\ Consuming(u)' = Consuming(u)
                        /\ \A x \in Consuming(u) : vmSize'[x] = vmSize[x]
  BY <1>4, <1>7, <1>8 DEF Consuming
<1>23. QuotaHolds' /\ PaidInv'
  <2>1. /\ QuotaHolds => QuotaHolds'
        /\ \A q \in Requests :
              FitsQuota(q) /\ user'[q] = user[q] /\ size'[q] = size[q] => FitsQuota(q)'
    BY <1>6, <1>22, UsageKept
  <2> QED  BY <1>1, <1>17, <2>1 DEF PaidInv
<1> QED  BY <1>6, <1>10, <1>11, <1>12, <1>13, <1>14, <1>15, <1>16, <1>18, <1>19, <1>20, <1>21, <1>23

\* A request that only carries an answer commits nothing.
LEMMA ReplayCommitInv ==
  ASSUME IInv, NEW r \in Requests, Commit(r), opState[r] # "uncommitted"
  PROVE  IInv'
<1> USE DEF IInv, RowsInv, CheckInv
<1>1. vmStatus[r] # "uncommitted" /\ r \in Ids
  BY DEF VmRowInv, Ids
<1>2. /\ pc[r] = "commit" /\ pc' = [pc EXCEPT ![r] = "ok"]
      /\ UNCHANGED <<kind, user, key, target, size, result, quotaActive>>
      /\ UNCHANGED <<ops, vms>>
  BY <1>1 DEF Commit, Goto, input, ops, vms, TypeOK
<1>3. /\ quotaLock' = [u \in Users |-> IF quotaLock[u] = r THEN Nobody ELSE quotaLock[u]]
      /\ vmLock' = [x \in Ids |-> IF vmLock[x] = r THEN Nobody ELSE vmLock[x]]
  BY DEF Commit, Release, Unlocked, TypeOK
<1>4. TypeOK'
  BY <1>2, <1>3 DEF TypeOK, ops, vms
<1>5. /\ SeedInv' /\ VmRowInv' /\ KeyInv' /\ ActiveInv' /\ OneActiveOperation' /\ QuotaHolds'
      /\ \A q \in Requests :
            FitsQuota(q) /\ user'[q] = user[q] /\ size'[q] = size[q] => FitsQuota(q)'
  BY <1>2, <1>4, RowsKept
<1>6. \A q \in Requests : (Holds(q)' => Holds(q) /\ q # r) /\ (Checked(q)' => Checked(q))
  BY <1>2 DEF Holds, Checked, Open, ops, TypeOK
<1>7. LocksInv'
  BY <1>2, <1>3, <1>6 DEF LocksInv, TypeOK
<1>8. StageInv' /\ OwnRowInv' /\ TargetInv' /\ OwnVmInv'
  BY <1>2 DEF StageInv, OwnRowInv, TargetInv, OwnVmInv, Visible, VisibleVm, TypeOK, ops, vms
<1>9. AnswerInv'
  BY <1>2 DEF AnswerInv, IsFor, Visible, TypeOK, ops, vms
<1>10. FreeInv' /\ PaidInv'
  BY <1>2, <1>5, <1>6 DEF FreeInv, PaidInv, ops, vms
<1> QED  BY <1>4, <1>5, <1>7, <1>8, <1>9, <1>10

\* A row becomes active: its VM was found free and its quota was reserved
\* under a lock that is released only now.
LEMMA RowCommitInv ==
  ASSUME IInv, NEW r \in Requests, Commit(r), opState[r] = "uncommitted"
  PROVE  IInv'
<1> USE DEF IInv, RowsInv, CheckInv
<1> DEFINE creates == kind[r] = "create"
<1>1. /\ pc[r] = "commit" /\ pc' = [pc EXCEPT ![r] = "ok"] /\ r \in Ids
      /\ opState' = [opState EXCEPT ![r] = "active"]
      /\ UNCHANGED <<kind, user, key, target, size, result, quotaActive>>
      /\ UNCHANGED <<opType, opKey, opVm, vmOwner, vmSize>>
  BY DEF Commit, Goto, input, TypeOK, Ids
<1>2. /\ opType[r] = kind[r] /\ opKey[r] = key[r] /\ opVm[r] = target[r]
      /\ creates <=> target[r] = r
  BY <1>1 DEF OwnRowInv
<1>3. /\ creates => vmStatus[r] = "uncommitted" /\ vmStatus' = [vmStatus EXCEPT ![r] = "pending"]
      /\ ~creates => vmStatus' = vmStatus
  BY <1>1, <1>2 DEF Commit, VmRowInv, TypeOK
<1>4. /\ quotaLock' = [u \in Users |-> IF quotaLock[u] = r THEN Nobody ELSE quotaLock[u]]
      /\ vmLock' = [x \in Ids |-> IF vmLock[x] = r THEN Nobody ELSE vmLock[x]]
  BY DEF Commit, Release, Unlocked, TypeOK
<1>5. TypeOK'
  <2>1. vmStatus' \in [Ids -> VmStates]
    BY <1>3 DEF TypeOK, VmStates
  <2> QED  BY <1>1, <1>4, <2>1 DEF TypeOK, OpStates
<1>6. \A x \in Ids : x # r => opState'[x] = opState[x] /\ vmStatus'[x] = vmStatus[x]
  BY <1>1, <1>3 DEF TypeOK
<1>7. /\ opState'[r] = "active"
      /\ creates => vmStatus'[r] = "pending"
      /\ ~creates => vmStatus'[r] = vmStatus[r]
  BY <1>1, <1>3 DEF TypeOK
<1> HIDE DEF creates
<1>8. \A x \in Ids : /\ Visible(x) => x # r
                     /\ Visible(x)' <=> Visible(x) \/ x = r
                     /\ VisibleVm(x)' <=> VisibleVm(x) \/ (x = r /\ creates)
  BY <1>1, <1>3, <1>6, <1>7 DEF Visible, VisibleVm
<1>9. \A x \in Ids : VisibleVm(x) => vmStatus'[x] = vmStatus[x] /\ VisibleVm(x)'
  BY <1>3, <1>6, <1>7 DEF VisibleVm
<1>10. StageInv' /\ OwnRowInv' /\ OwnVmInv' /\ KeyInv'
  BY <1>1, <1>6, <1>7 DEF StageInv, OwnRowInv, OwnVmInv, KeyInv, Visible, TypeOK, Ids
<1>11. SeedInv'
  BY <1>1, <1>8 DEF SeedInv, Ids
<1>12. TargetInv'
  <2>1. \A q \in Requests :
           /\ pc'[q] \notin {"idle", "begin", "error"} => pc[q] \notin {"idle", "begin", "error"}
           /\ target[q] \in Ids
    BY <1>1 DEF TypeOK
  <2> QED  BY <1>1, <1>9, <2>1 DEF TargetInv
<1>13. VmRowInv'
  BY <1>1, <1>2, <1>6, <1>7 DEF VmRowInv, creates
<1>14. AnswerInv'
  <2> SUFFICES ASSUME NEW q \in Requests, pc'[q] \in {"commit", "ok"}
               PROVE  /\ IF opState'[q] = "uncommitted" THEN result'[q] = q ELSE Visible(result[q])'
                      /\ IsFor(q, result[q])'
    BY DEF AnswerInv
  <2>1. PICK x \in Ids : x = result[q] /\ x = result'[q]
    BY <1>1 DEF TypeOK
  <2>2. /\ pc[q] \in {"commit", "ok"}
        /\ IF q = r THEN opState'[q] = "active" ELSE opState'[q] = opState[q]
    BY <1>1 DEF TypeOK, Ids
  <2>3. Visible(x) \/ x = r => Visible(x)'
    BY <1>8
  <2> QED  BY <1>1, <2>1, <2>2, <2>3 DEF AnswerInv, IsFor, Visible
<1>15. \A q \in Requests :
          (Holds(q)' => Holds(q) /\ q # r) /\ (Checked(q)' => Checked(q) /\ q # r)
  BY <1>1 DEF Holds, Checked, Open, TypeOK, Ids
<1>16. Holds(r) /\ Checked(r)
  BY <1>1 DEF Holds, Checked, Open
<1>17. LocksInv'
  BY <1>1, <1>4, <1>15 DEF LocksInv, TypeOK
<1>18. ActiveInv'
  <2> DEFINE Usable(v) == VisibleVm(v) /\ vmStatus[v] \notin {"failed", "deleted"}
  <2>1. \A v \in Ids : Usable(v) => Usable(v)'
    BY <1>9
  <2>2. Usable(target[r])'
    <3>1. PICK v \in Ids : v = target[r] /\ v = target'[r]
      BY <1>1 DEF TypeOK
    <3>2. CASE creates
      BY <1>1, <1>2, <1>7, <1>8, <3>1, <3>2
    <3>3. CASE ~creates
      <4>1. VisibleVm(v) /\ vmStatus[v] = AllowedStatus[kind[r]]
        BY <1>1, <1>16, <3>1, <3>3 DEF TargetInv, FreeInv, creates
      <4>2. AllowedStatus[kind[r]] \notin {"failed", "deleted"}
        BY <3>3 DEF AllowedStatus, TypeOK, Kinds, Lifecycle, creates
      <4>3. Usable(v)'
        BY <2>1, <4>1, <4>2
      <4> QED  BY <3>1, <4>3
    <3> QED  BY <3>2, <3>3
  <2>3. \A x \in Ids : opState[x] = "active" => Usable(opVm[x]) /\ opVm[x] \in Ids
    BY DEF ActiveInv, TypeOK
  <2> SUFFICES ASSUME NEW x \in Ids, opState'[x] = "active" PROVE Usable(opVm[x])'
    BY DEF ActiveInv
  <2>4. PICK v \in Ids : v = opVm[x] /\ v = opVm'[x]
    BY <1>1 DEF TypeOK
  <2>5. CASE x = r
    BY <1>1, <1>2, <2>2, <2>5
  <2>6. CASE x # r
    <3>1. Usable(v)
      BY <1>6, <2>3, <2>4, <2>6
    <3>2. Usable(v)'
      BY <2>1, <3>1
    <3> QED  BY <2>4, <3>2
  <2> QED  BY <2>5, <2>6
<1>19. ASSUME NEW x \in Ids, opState[x] = "active" PROVE opVm[x] # target[r]
  <2>1. CASE creates
    BY <1>2, <1>3, <1>19, <2>1 DEF ActiveInv, VisibleVm, creates
  <2>2. CASE ~creates
    BY <1>16, <1>19, <2>2 DEF FreeInv, creates
  <2> QED  BY <2>1, <2>2
<1>20. OneActiveOperation'
  BY <1>1, <1>2, <1>6, <1>19 DEF OneActiveOperation
<1>21. FreeInv'
  <2> SUFFICES ASSUME NEW q \in Requests, q # r, Checked(q), kind[q] # "create"
               PROVE  /\ vmStatus'[target[q]] = AllowedStatus[kind[q]]
                      /\ \A x \in Ids : opState'[x] = "active" => opVm[x] # target[q]
    BY <1>1, <1>15 DEF FreeInv
  <2>1. VisibleVm(target[q]) /\ target[q] \in Ids /\ vmLock[target[q]] = q
    BY DEF TargetInv, LocksInv, Holds, Checked, Open, TypeOK
  <2>2. target[r] # target[q]
    <3>1. CASE creates
      BY <1>2, <1>3, <2>1, <3>1 DEF VisibleVm, creates
    <3>2. CASE ~creates
      BY <1>16, <2>1, <3>2 DEF LocksInv, creates
    <3> QED  BY <3>1, <3>2
  <2> QED  BY <1>2, <1>6, <1>9, <2>1, <2>2 DEF FreeInv
<1>22. ASSUME NEW u \in Users, ~(creates /\ u = user[r])
       PROVE  Consuming(u)' = Consuming(u) /\ \A x \in Consuming(u) : vmSize'[x] = vmSize[x]
  <2>1. creates => vmOwner[r] # u
    BY <1>1, <1>2, <1>22 DEF OwnVmInv, creates
  <2> QED  BY <1>1, <1>8, <1>9, <2>1 DEF Consuming
<1>23. ASSUME NEW u \in Users, ~(creates /\ u = user[r])
       PROVE  /\ WithinPlan(u)'
              /\ \A q \in Requests :
                    FitsQuota(q) /\ user[q] = u /\ user'[q] = u /\ size'[q] = size[q] => FitsQuota(q)'
  BY <1>5, <1>22, <1>23, UsageOf DEF QuotaHolds, WithinPlan
<1>24. PaidInv'
  <2> SUFFICES ASSUME NEW q \in Requests, q # r, Checked(q), kind[q] = "create"
               PROVE  quotaActive[user[q]] /\ FitsQuota(q)'
    BY <1>1, <1>15 DEF PaidInv
  <2>1. ~(creates /\ user[q] = user[r])
    BY <1>16 DEF LocksInv, Holds, Checked, Open, creates
  <2>2. user[q] \in Users /\ user'[q] = user[q] /\ size'[q] = size[q]
    BY <1>1 DEF TypeOK
  <2> QED  BY <1>23, <2>1, <2>2 DEF PaidInv
<1>25. ASSUME creates PROVE WithinPlan(user[r])'
  <2>1. FitsQuota(r) /\ vmOwner[r] = user[r] /\ vmSize[r] = size[r]
    BY <1>1, <1>2, <1>16, <1>25 DEF PaidInv, OwnVmInv, creates
  <2>2. PICK u \in Users : u = user[r]
    BY DEF TypeOK
  <2>3. Consuming(u)' = Consuming(u) \cup {r}
    BY <1>1, <1>6, <1>7, <1>8, <1>9, <1>25, <2>1, <2>2 DEF Consuming
  <2>4. r \notin Consuming(u) /\ Consuming(u) \in SUBSET Ids
    BY <1>3, <1>25 DEF Consuming, VisibleVm, creates
  <2>5. vmSize \in [Ids -> Nat]
    BY SizesAreNat
  <2>6. /\ Cardinality(Consuming(u)') = Cardinality(Consuming(u)) + 1
        /\ Cardinality(Units(vmSize, Consuming(u)')) = Cardinality(Units(vmSize, Consuming(u))) + vmSize[r]
    BY <1>1, <2>3, <2>4, <2>5, UnitsAdd
  <2>7. /\ Cardinality(Consuming(u)') <= MaxVms
        /\ Cardinality(Units(vmSize, Consuming(u)')) <= MaxTotal
    BY <2>1, <2>2, <2>6 DEF FitsQuota
  <2>8. WithinPlan(u)'
    BY <1>1, <2>7 DEF WithinPlan
  <2>9. user'[r] = u
    BY <1>1, <2>2
  <2> QED  BY <2>2, <2>8, <2>9 DEF WithinPlan
<1>26. QuotaHolds'
  <2>1. \A u \in Users : WithinPlan(u)'
    <3> SUFFICES ASSUME NEW u \in Users PROVE WithinPlan(u)'
      OBVIOUS
    <3>1. CASE creates /\ u = user[r]
      BY <1>1, <1>25, <3>1 DEF WithinPlan
    <3> QED  BY <1>23, <3>1
  <2> QED  BY <2>1 DEF QuotaHolds, WithinPlan
<1> QED  BY <1>5, <1>10, <1>11, <1>12, <1>13, <1>14, <1>17, <1>18, <1>20, <1>21, <1>24, <1>26

\* The worker has an operation only on VMs no request has found free.
LEMMA WorkerInv ==
  ASSUME IInv, NEW x \in Ids, WorkerCommits(x)
  PROVE  IInv'
<1> USE DEF IInv, RowsInv, CheckInv
<1>1. PICK out \in Outcomes(opType[x], vmStatus[opVm[x]]) :
          /\ opState' = [opState EXCEPT ![x] = out[1]]
          /\ vmStatus' = [vmStatus EXCEPT ![opVm[x]] = out[2]]
  BY DEF WorkerCommits
<1>2. /\ opState[x] = "active"
      /\ UNCHANGED <<pc, kind, user, key, target, size, result, quotaActive, quotaLock, vmLock>>
      /\ UNCHANGED <<opType, opKey, opVm, vmOwner, vmSize>>
  BY DEF WorkerCommits, input, locks
<1>3. PICK v \in Ids : v = opVm[x]
  BY DEF TypeOK
<1>4. VisibleVm(v) /\ vmStatus[v] \notin {"failed", "deleted"} /\ vmStatus[v] \in VmStates
  BY <1>2, <1>3 DEF ActiveInv, TypeOK
<1>5. /\ out[1] \in {"active", "succeeded", "failed"}
      /\ out[1] = "active" => out[2] \in {"deleting", "stopped"}
      /\ out[2] \in VmStates \ {"absent", "uncommitted"}
  BY <1>3, <1>4 DEF Outcomes, VmStates, VisibleVm
<1>6. /\ opState'[x] = out[1] /\ vmStatus'[v] = out[2]
      /\ \A y \in Ids : y # x => opState'[y] = opState[y]
      /\ \A y \in Ids : y # v => vmStatus'[y] = vmStatus[y]
  BY <1>1, <1>3 DEF TypeOK
<1>7. TypeOK'
  BY <1>1, <1>2, <1>3, <1>5 DEF TypeOK, OpStates
<1>8. \A y \in Ids :
         /\ opState'[y] = "active" => opState[y] = "active"
         /\ opState'[y] = "absent" <=> opState[y] = "absent"
         /\ opState'[y] = "uncommitted" <=> opState[y] = "uncommitted"
         /\ vmStatus'[y] = "absent" <=> vmStatus[y] = "absent"
         /\ vmStatus'[y] = "uncommitted" <=> vmStatus[y] = "uncommitted"
         /\ Visible(y)' <=> Visible(y)
         /\ VisibleVm(y)' <=> VisibleVm(y)
  BY <1>2, <1>4, <1>5, <1>6 DEF Visible, VisibleVm
<1>9. \A q \in Requests : q \in Ids /\ target[q] \in Ids /\ opVm[x] = v
  BY <1>3 DEF TypeOK, Ids
<1>10. StageInv' /\ OwnRowInv' /\ OwnVmInv' /\ KeyInv' /\ VmRowInv'
  BY <1>2, <1>8, <1>9 DEF StageInv, OwnRowInv, OwnVmInv, KeyInv, VmRowInv
<1>11. TargetInv' /\ SeedInv'
  BY <1>2, <1>8, <1>9 DEF TargetInv, SeedInv, Ids
<1>12. AnswerInv'
  <2> SUFFICES ASSUME NEW q \in Requests, pc[q] \in {"commit", "ok"}
               PROVE  /\ IF opState'[q] = "uncommitted" THEN result[q] = q ELSE Visible(result[q])'
                      /\ IsFor(q, result[q])
    BY <1>2 DEF AnswerInv, IsFor
  <2>1. PICK y \in Ids : y = result[q] /\ y = result'[q]
    BY <1>2 DEF TypeOK
  <2>2. Visible(y)' <=> Visible(y)
    BY <1>8
  <2> QED  BY <1>8, <1>9, <2>1, <2>2 DEF AnswerInv, Visible
<1>13. \A q \in Requests : (Holds(q)' <=> Holds(q)) /\ (Checked(q)' <=> Checked(q))
  BY <1>2, <1>8, <1>9 DEF Holds, Checked, Open
<1>14. LocksInv'
  BY <1>2, <1>13 DEF LocksInv
<1>15. OneActiveOperation'
  BY <1>2, <1>8 DEF OneActiveOperation
<1>16. ActiveInv'
  <2> SUFFICES ASSUME NEW y \in Ids, opState'[y] = "active"
               PROVE  VisibleVm(opVm[y])' /\ vmStatus'[opVm'[y]] \notin {"failed", "deleted"}
    BY DEF ActiveInv
  <2>1. PICK w \in Ids : w = opVm[y] /\ w = opVm'[y]
    BY <1>2 DEF TypeOK
  <2>2. opState[y] = "active" /\ VisibleVm(w) /\ vmStatus[w] \notin {"failed", "deleted"}
    BY <1>8, <2>1 DEF ActiveInv
  <2>3. w = v => y = x
    BY <1>2, <1>3, <2>1, <2>2 DEF OneActiveOperation
  <2>4. VisibleVm(w)' /\ vmStatus'[w] \notin {"failed", "deleted"}
    BY <1>5, <1>6, <1>8, <2>2, <2>3
  <2> QED  BY <2>1, <2>4
<1>17. FreeInv'
  BY <1>2, <1>6, <1>8, <1>9, <1>13 DEF FreeInv
<1>18. \A u \in Users : Consuming(u)' \subseteq Consuming(u)
  BY <1>2, <1>4, <1>6, <1>8 DEF Consuming
<1>19. QuotaHolds' /\ PaidInv'
  <2>1. /\ QuotaHolds => QuotaHolds'
        /\ \A q \in Requests :
              FitsQuota(q) /\ user'[q] = user[q] /\ size'[q] = size[q] => FitsQuota(q)'
    BY <1>2, <1>7, <1>18, UsageKept
  <2> QED  BY <1>2, <1>13, <2>1 DEF PaidInv
<1> QED  BY <1>7, <1>10, <1>11, <1>12, <1>14, <1>15, <1>16, <1>17, <1>19

LEMMA StutterInv == IInv /\ UNCHANGED vars => IInv'
<1> SUFFICES ASSUME IInv, UNCHANGED vars PROVE IInv'
  OBVIOUS
<1> USE DEF vars, input, ops, vms, locks, IInv, RowsInv, CheckInv
<1>1. TypeOK'
  BY DEF TypeOK
<1>2. SeedInv' /\ VmRowInv' /\ KeyInv' /\ ActiveInv' /\ OneActiveOperation' /\ QuotaHolds'
  BY <1>1, RowsKept
<1>3. StageInv' /\ OwnRowInv' /\ TargetInv' /\ OwnVmInv'
  BY DEF StageInv, OwnRowInv, TargetInv, OwnVmInv, Visible, VisibleVm
<1>4. AnswerInv' /\ LocksInv' /\ FreeInv'
  BY DEF AnswerInv, IsFor, LocksInv, FreeInv, Visible, Holds, Checked, Open
<1>5. PaidInv'
  <2>1. \A q \in Requests :
              FitsQuota(q) /\ user'[q] = user[q] /\ size'[q] = size[q] => FitsQuota(q)'
    BY <1>1, RowsKept
  <2> QED  BY <2>1 DEF PaidInv, Checked, Open
<1> QED  BY <1>1, <1>2, <1>3, <1>4, <1>5

LEMMA NextInv == IInv /\ [Next]_vars => IInv'
<1> SUFFICES ASSUME IInv, [Next]_vars PROVE IInv'
  OBVIOUS
<1>1. CASE \E r \in Requests : Submitted(r)
  BY <1>1, SubmitInv
<1>2. CASE \E r \in Requests : Step(r) \/ Abort(r)
  <2>1. PICK r \in Requests : Step(r) \/ Abort(r)
    BY <1>2
  <2>2. CASE \E l \in {"error", "conflict"} : Ends(r, l)
    BY <2>2, EndsInv
  <2>3. CASE \E l \in {"check", "insert"} : Passes(r, l)
    BY <2>3, PassesInv
  <2>4. CASE \E x \in Ids : Answers(r, x)
    BY <2>4, AnswersInv
  <2>5. CASE Commit(r)
    BY <2>5, ReplayCommitInv, RowCommitInv
  <2> QED  BY <2>1, <2>2, <2>3, <2>4, <2>5, StepEffect, LockQuotaInv, LockVmInv, InsertInv
<1>3. CASE \E x \in Ids : WorkerCommits(x)
  BY <1>3, WorkerInv
<1>4. CASE \E u \in Users : ToggleQuota(u)
  BY <1>4, ToggleInv
<1>5. CASE UNCHANGED vars
  BY <1>5, StutterInv
<1> QED  BY <1>1, <1>2, <1>3, <1>4, <1>5 DEF Next, Submitted

LEMMA Invariance == Spec => []IInv
BY InitInv, NextInv, PTL DEF Spec
-----------------------------------------------------------------------------
(* Theorems *)

\* Every row and every request keeps a value the tables and the services know.
THEOREM TypeCorrect == Spec => []TypeOK
<1>1. IInv => TypeOK
  BY DEF IInv
<1> QED  BY <1>1, Invariance, PTL

\* create_vm and enqueue_vm_operation leave one operation for each idempotency
\* key, however many repeats race and whoever else uses the key.
THEOREM OneOperationPerKeyHolds == Spec => []OneOperationPerKey
<1>1. IInv => OneOperationPerKey
  BY DEF IInv, KeyInv, OneOperationPerKey, Visible
<1> QED  BY <1>1, Invariance, PTL

\* The lock on the VM row, from the check for active operations to the commit,
\* leaves the worker one operation per VM at a time.
THEOREM OneActiveOperationHolds == Spec => []OneActiveOperation
<1>1. IInv => OneActiveOperation
  BY DEF IInv, CheckInv
<1> QED  BY <1>1, Invariance, PTL

\* The lock on user_quota, from the sum to the commit, keeps the VMs of every
\* user within the number and the sum of the plan.
THEOREM QuotaHoldsAlways == Spec => []QuotaHolds
<1>1. IInv => QuotaHolds
  BY DEF IInv
<1> QED  BY <1>1, Invariance, PTL

\* Whoever inserted it, a request is answered with an operation made for its
\* own key, kind and owner, on the VM it named or with a VM of the size it asked
\* for, also when it lost the race and looked again without a lock.
THEOREM AnswerIsOwnHolds == Spec => []AnswerIsOwn
<1>1. ASSUME IInv, NEW r \in Requests, pc[r] = "ok"
      PROVE  LET x == result[r] IN
             /\ Visible(x) /\ opKey[x] = key[r] /\ opType[x] = kind[r]
             /\ vmOwner[opVm[x]] = user[r]
             /\ IF kind[r] = "create" THEN vmSize[opVm[x]] = size[r] ELSE opVm[x] = target[r]
  <2>1. opState[r] # "uncommitted"
    BY <1>1 DEF IInv, RowsInv, StageInv
  <2> QED  BY <1>1, <2>1 DEF IInv, AnswerInv, IsFor
<1>2. IInv => AnswerIsOwn
  BY <1>1 DEF AnswerIsOwn
<1> QED  BY <1>2, Invariance, PTL

\* create_vm adds the VM and its operation in one transaction, and a conflict
\* takes both back.
THEOREM NoOrphanVmHolds == Spec => []NoOrphanVm
<1>1. ASSUME IInv, NEW x \in Ids, VisibleVm(x)
      PROVE  Visible(x) /\ opType[x] = "create" /\ opVm[x] = x
  <2>1. Visible(x) /\ opType[x] = "create"
    BY <1>1 DEF IInv, RowsInv, VmRowInv, VisibleVm, Visible
  <2>2. CASE x \in Seeds
    BY <1>1, <2>2 DEF IInv, RowsInv, SeedInv
  <2>3. CASE x \in Requests
    BY <1>1, <2>1, <2>3 DEF IInv, RowsInv, OwnRowInv, StageInv, Visible
  <2> QED  BY <2>1, <2>2, <2>3 DEF Ids
<1>2. IInv => NoOrphanVm
  BY <1>1 DEF NoOrphanVm
<1> QED  BY <1>2, Invariance, PTL

\* What _validate_vm_quota and the checks of enqueue_vm_operation found is
\* still so when the router commits.
THEOREM CheckedAtCommitHolds == Spec => CheckedAtCommit
<1>1. ASSUME IInv, NEW r \in Requests, opState[r] = "uncommitted"
      PROVE  IF kind[r] = "create"
             THEN quotaActive[user[r]]
             ELSE /\ vmStatus[target[r]] = AllowedStatus[kind[r]]
                  /\ \A x \in Ids : opState[x] = "active" => opVm[x] # target[r]
  <2>1. Checked(r)
    BY <1>1 DEF IInv, RowsInv, StageInv, Checked, Open
  <2> QED  BY <1>1, <2>1 DEF IInv, CheckInv, FreeInv, PaidInv
<1>2. IInv => [\A r \in Requests :
          opState[r] = "uncommitted" /\ opState'[r] = "active" =>
              IF kind[r] = "create"
              THEN quotaActive[user[r]]
              ELSE /\ vmStatus[target[r]] = AllowedStatus[kind[r]]
                   /\ \A x \in Ids : opState[x] = "active" => opVm[x] # target[r]]_vars
  BY <1>1
<1> QED  BY <1>2, Invariance, PTL DEF CheckedAtCommit

-----------------------------------------------------------------------------
(* Who waits for whom *)

\* The transaction has locked its row and is still open.
Under(r) == pc[r] \in {"lookup", "check", "insert", "conflict", "commit"}

\* A row lock belongs to a transaction that is still open: none is left behind.
HeldInv ==
    /\ \A u \in Users : quotaLock[u] \in Requests => Under(quotaLock[u])
    /\ \A x \in Ids : vmLock[x] \in Requests => Under(vmLock[x])

LEMMA HeldInit == Init => HeldInv
BY RequestsAssumption DEF Init, HeldInv

\* A transaction that goes on keeps its locks or adds one.
LEMMA GoesOnHeld ==
  ASSUME TypeOK, HeldInv, NEW r \in Requests, NEW l \in {"lookup", "check", "insert", "conflict", "commit"},
         Goto(r, l),
         \A u \in Users : quotaLock'[u] \in {quotaLock[u], r},
         \A x \in Ids : vmLock'[x] \in {vmLock[x], r}
  PROVE  HeldInv'
<1>1. Under(r)' /\ \A q \in Requests : q # r => (Under(q)' <=> Under(q))
  BY DEF Goto, Under, TypeOK
<1> QED  BY <1>1 DEF HeldInv

\* One that ends releases them.
LEMMA ReleaseHeld ==
  ASSUME TypeOK, HeldInv, NEW r \in Requests, Release(r), \A q \in Requests : q # r => pc'[q] = pc[q]
  PROVE  HeldInv'
<1>1. /\ \A u \in Users : quotaLock'[u] = IF quotaLock[u] = r THEN Nobody ELSE quotaLock[u]
      /\ \A x \in Ids : vmLock'[x] = IF vmLock[x] = r THEN Nobody ELSE vmLock[x]
  BY DEF Release, Unlocked, TypeOK
<1>2. \A q \in Requests : q # r => (Under(q)' <=> Under(q))
  BY DEF Under
<1> QED  BY <1>1, <1>2, RequestsAssumption DEF HeldInv

LEMMA HeldStep == TypeOK /\ HeldInv /\ [Next]_vars => HeldInv'
<1> SUFFICES ASSUME TypeOK, HeldInv, [Next]_vars PROVE HeldInv'
  OBVIOUS
<1>1. ASSUME NEW r \in Requests, Submitted(r) PROVE HeldInv'
  <2>1. pc[r] = "idle" /\ Goto(r, "begin") /\ UNCHANGED locks
    BY <1>1 DEF Submitted, Submit
  <2> QED  BY <2>1 DEF HeldInv, Under, Goto, locks, TypeOK
<1>2. ASSUME NEW r \in Requests, Step(r) \/ Abort(r) PROVE HeldInv'
  <2>1. CASE LockQuota(r)
    BY <2>1, GoesOnHeld DEF LockQuota, TypeOK
  <2>2. CASE LockVm(r)
    BY <2>2, GoesOnHeld DEF LockVm, TypeOK
  <2>3. CASE Insert(r) \/ (\E l \in {"check", "insert"} : Passes(r, l)) \/ \E x \in Ids : Answers(r, x)
    <3>1. UNCHANGED locks
      BY <2>3 DEF Insert, InsertRows, Passes, Answers, Replay
    <3>2. PICK l \in {"check", "insert", "commit"} : Goto(r, l)
      BY <2>3 DEF Insert, InsertRows, Passes, Answers, Replay
    <3> QED  BY <3>1, <3>2, GoesOnHeld DEF locks
  <2>4. CASE Commit(r) \/ \E l \in {"error", "conflict"} : Ends(r, l)
    <3>1. Release(r) /\ \E l : Goto(r, l)
      BY <2>4 DEF Commit, Ends, Rollback
    <3>2. \A q \in Requests : q # r => pc'[q] = pc[q]
      BY <3>1 DEF Goto, TypeOK
    <3> QED  BY <3>1, <3>2, ReleaseHeld
  <2> QED  BY <1>2, <2>1, <2>2, <2>3, <2>4, StepEffect
<1>3. CASE UNCHANGED vars \/ (\E x \in Ids : WorkerCommits(x)) \/ \E u \in Users : ToggleQuota(u)
  <2>1. UNCHANGED <<pc, locks>>
    BY <1>3 DEF vars, WorkerCommits, ToggleQuota
  <2> QED  BY <2>1 DEF locks, HeldInv, Under
<1> QED  BY <1>1, <1>2, <1>3 DEF Next, Submitted

LEMMA HeldAlways == Spec => []HeldInv
BY HeldInit, HeldStep, TypeCorrect, PTL DEF Spec

\* A transaction that holds a row waits at most for the key of one that is
\* about to commit (the services lock one row, first of all), so create_vm and
\* enqueue_vm_operation never wait in a circle.
THEOREM NeverInCircle == Spec => []NoCircle
<1>1. ASSUME IInv, NEW r \in Requests, Waits(r), pc[r] # "begin"
      PROVE  \E q \in Requests : Busy(q) /\ ~Waits(q)
  <2>1. PICK x \in Ids : opState[x] = "uncommitted"
    BY <1>1 DEF Waits
  <2>2. x \in Requests
    BY <1>1, <2>1 DEF IInv, RowsInv, SeedInv, Visible, Ids
  <2>3. pc[x] = "commit"
    BY <1>1, <2>1, <2>2 DEF IInv, RowsInv, StageInv
  <2> QED  BY <2>2, <2>3 DEF Busy, Waits
<1>2. ASSUME IInv, HeldInv, NEW r \in Requests, Busy(r)
      PROVE  \E q \in Requests : Busy(q) /\ ~Waits(q)
  <2>1. CASE Waits(r) /\ pc[r] = "begin"
    <3>1. PICK q \in Requests : Under(q)
      BY <1>2, <2>1 DEF Waits, HeldInv, IInv, TypeOK
    <3>2. Busy(q) /\ pc[q] # "begin"
      BY <3>1 DEF Under, Busy
    <3> QED  BY <1>1, <1>2, <3>2
  <2> QED  BY <1>1, <1>2, <2>1
<1>3. IInv /\ HeldInv => NoCircle
  BY <1>2 DEF NoCircle
<1> QED  BY <1>3, Invariance, HeldAlways, PTL
=============================================================================
