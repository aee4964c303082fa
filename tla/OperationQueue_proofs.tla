------------------------ MODULE OperationQueue_proofs ------------------------
(***************************************************************************)
(* OperationQueue with any number of VMs, workers and VMIDs, and any set   *)
(* of faults.                                                              *)
(*                                                                         *)
(* Between ChooseTarget and SavePlacement other workers step.  What keeps  *)
(* the placement of the row out of their hands is SKIP LOCKED alone: the   *)
(* row is not theirs to take, so it is as ChooseTarget found it (HoldInv), *)
(* pending and without a placement, until its own worker commits.          *)
(*                                                                         *)
(* The order of updated_at has every open row exactly once (TableOK): no   *)
(* transaction drops a row from it or puts it there twice.                 *)
(***************************************************************************)
EXTENDS OperationQueue, SequenceTheorems, WellFoundedInduction, TLAPS

\* The columns and what workers hold in a transaction.
ColumnsOK ==
    /\ stage \in [Rows -> Stages]
    /\ vmid \in [Vms -> Vmids \cup {NoVmid}]
    /\ holds \in [Workers -> Rows \cup {NoRow}]
    /\ offer \in [Workers -> Vmids \cup {NoVmid}]
    /\ used \subseteq Vmids /\ foreign \subseteq Vmids

\* The rows in pending or processing by updated_at.
TableOK ==
    /\ queue \in Seq(Rows)
    /\ IsInjective(queue)
    /\ ToSet(queue) = {o \in Rows : stage[o] \notin {"none", "settled"}}
    /\ waiting \subseteq Rows

\* Only placed VMs are cloned.
FlightInv == \A v \in flight : v \in Vms /\ vmid[v] # NoVmid

\* A row that a worker holds waits for its first placement, and no other
\* worker holds it.
HoldInv ==
    /\ \A w \in Workers : holds[w] # NoRow =>
           /\ holds[w][2] = "create" /\ stage[holds[w]] = "pending"
           /\ vmid[holds[w][1]] = NoVmid
           /\ offer[w] \in Vmids
    /\ \A w, x \in Workers : holds[w] = holds[x] /\ holds[w] # NoRow => w = x

QInv == ColumnsOK /\ TableOK /\ FlightInv /\ HoldInv

-----------------------------------------------------------------------------
(* What a transaction may touch *)

LEMMA NextVmidIsFree ==
    ASSUME ColumnsOK, Vmids # used \cup foreign
    PROVE  NextVmid \in Vmids \ (used \cup foreign)
<1> DEFINE S == Vmids \ (used \cup foreign)
<1>1. S \in SUBSET Nat /\ S # {}
  BY QueueAssumption DEF QueueAssumption, ColumnsOK
<1> DEFINE Below == {e \in Nat \X Nat : e[1] < e[2]}
<1>2. IsWellFoundedOn(Below, Nat)
  BY NatLessThanWellFounded DEF OpToRel
<1> HIDE DEF S, Below
<1>3. PICK n \in S : \A m \in S : <<m, n>> \notin Below
  BY <1>1, <1>2, WFMin
<1>4. ASSUME NEW m \in S PROVE n <= m
  <2>1. m \in Nat /\ n \in Nat
    BY <1>1
  <2>2. ~ m < n
    BY <2>1, <1>3 DEF Below
  <2>3. QED
    BY <2>1, <2>2
<1>5. Min(S) \in S
  BY <1>4 DEF Min
<1>6. QED
  BY <1>5 DEF NextVmid, S

\* SKIP LOCKED.
LEMMA SelectedIsFree ==
    ASSUME NEW o, Selected(o)
    PROVE  \A w \in Workers : holds[w] # o
  BY DEF Selected

LEMMA RowFacts ==
    ASSUME NEW o \in Rows
    PROVE  o[1] \in Vms /\ o[2] \in {"create", "delete"} /\ o = <<o[1], o[2]>> /\ o # NoRow
  BY QueueAssumption DEF QueueAssumption, Rows

\* Steps of other rows leave what a worker holds alone.
LEMMA HoldKept ==
    ASSUME QInv, NEW o, UNCHANGED <<vmid, holds, offer>>,
           \A p \in Rows : stage'[p] = stage[p] \/ p = o,
           \A w \in Workers : holds[w] # o
    PROVE  HoldInv'
<1>1. \A w \in Workers : holds[w] # NoRow => holds[w] \in Rows
  BY DEF QInv, ColumnsOK
<1>2. QED
  BY <1>1 DEF QInv, HoldInv

LEMMA UpdateColumns ==
    ASSUME QInv, NEW o \in Rows, NEW s \in Stages, NEW delayed, Update(o, s, delayed),
           UNCHANGED <<vmid, holds, offer>>, used' \subseteq Vmids, foreign' \subseteq Vmids, TableOK', FlightInv',
           \A w \in Workers : holds[w] # o
    PROVE  QInv'
<1>1. stage' = [stage EXCEPT ![o] = s]
  BY DEF Update
<1>2. ColumnsOK'
  BY <1>1 DEF QInv, ColumnsOK
<1>3. HoldInv'
  BY <1>1, HoldKept DEF QInv, ColumnsOK
<1>4. QED
  BY <1>2, <1>3 DEF QInv

-----------------------------------------------------------------------------
(* Sequences *)

LEMMA RemoveElements ==
    ASSUME NEW S, NEW q \in Seq(S), NEW i \in 1..Len(q)
    PROVE  /\ RemoveAt(q, i) \in Seq(S) /\ Len(RemoveAt(q, i)) = Len(q) - 1
           /\ \A j \in 1..(Len(q) - 1) : RemoveAt(q, i)[j] = IF j < i THEN q[j] ELSE q[j + 1]
<1> DEFINE a == SubSeq(q, 1, i - 1)
           b == SubSeq(q, i + 1, Len(q))
<1>1. a \in Seq(S) /\ Len(a) = i - 1 /\ \A j \in 1..(i - 1) : a[j] = q[j]
  OBVIOUS
<1>2. b \in Seq(S) /\ Len(b) = Len(q) - i /\ \A j \in 1..(Len(q) - i) : b[j] = q[i + j]
  <2>1. \A j \in (i + 1)..Len(q) : q[j] \in S
    OBVIOUS
  <2>2. b \in Seq(S) /\ Len(b) = Len(q) - i
    BY <2>1, SubSeqProperties
  <2>3. ASSUME NEW j \in 1..(Len(q) - i) PROVE b[j] = q[i + j]
    <3>1. b[j] = q[(i + 1) + j - 1]
      BY <2>1, SubSeqProperties
    <3>2. (i + 1) + j - 1 = i + j
      OBVIOUS
    <3>3. QED
      BY <3>1, <3>2
  <2>4. QED
    BY <2>2, <2>3
<1> HIDE DEF a, b
<1>3. a \o b \in Seq(S) /\ Len(a \o b) = Len(q) - 1
  <2>1. a \o b \in Seq(S) /\ Len(a \o b) = Len(a) + Len(b)
    BY <1>1, <1>2, ConcatProperties
  <2>2. QED
    BY <1>1, <1>2, <2>1
<1>4. ASSUME NEW j \in 1..(Len(q) - 1)
      PROVE  (a \o b)[j] = IF j < i THEN q[j] ELSE q[j + 1]
  <2>1. CASE j < i
    BY <1>1, <1>2, <2>1
  <2>2. CASE ~(j < i)
    <3>1. (a \o b)[j] = b[j - (i - 1)]
      BY <1>1, <1>2, <2>2
    <3>2. j - (i - 1) \in 1..(Len(q) - i) /\ i + (j - (i - 1)) = j + 1
      BY <2>2
    <3>3. QED
      BY <1>2, <2>2, <3>1, <3>2
  <2>3. QED
    BY <2>1, <2>2
<1>5. QED
  BY <1>3, <1>4 DEF RemoveAt, a, b

\* A row leaves a queue that has each of its rows once.
LEMMA RemoveRow ==
    ASSUME NEW S, NEW q \in Seq(S), IsInjective(q), NEW i \in 1..Len(q)
    PROVE  /\ RemoveAt(q, i) \in Seq(S) /\ IsInjective(RemoveAt(q, i))
           /\ ToSet(RemoveAt(q, i)) = ToSet(q) \ {q[i]}
<1> DEFINE r == RemoveAt(q, i)
<1>1. r \in Seq(S) /\ Len(r) = Len(q) - 1
  BY RemoveElements
<1>2. \A j \in 1..(Len(q) - 1) : r[j] = IF j < i THEN q[j] ELSE q[j + 1]
  BY RemoveElements
<1> HIDE DEF r
<1>3. \A j, k \in 1..Len(q) : q[j] = q[k] => j = k
  BY DEF IsInjective
<1>4. DOMAIN r = 1..(Len(q) - 1)
  BY <1>1
<1>5. ASSUME NEW j \in 1..(Len(q) - 1), NEW k \in 1..(Len(q) - 1), r[j] = r[k]
      PROVE  j = k
  <2> DEFINE at(n) == IF n < i THEN n ELSE n + 1
  <2>1. at(j) \in 1..Len(q) /\ at(k) \in 1..Len(q) /\ r[j] = q[at(j)] /\ r[k] = q[at(k)]
    BY <1>2
  <2>2. at(j) = at(k)
    BY <1>3, <1>5, <2>1
  <2>3. QED
    BY <2>2
<1>6. IsInjective(r)
  BY <1>4, <1>5 DEF IsInjective
<1>7. \A j \in 1..(Len(q) - 1) : r[j] \in ToSet(q) \ {q[i]}
  BY <1>2, <1>3 DEF ToSet
<1>8. ASSUME NEW k \in 1..Len(q), k # i
      PROVE  \E j \in 1..(Len(q) - 1) : r[j] = q[k]
  <2>1. CASE k < i
    BY <1>2, <2>1
  <2>2. CASE k > i
    <3>1. k - 1 \in 1..(Len(q) - 1) /\ ~(k - 1 < i) /\ (k - 1) + 1 = k
      BY <2>2
    <3>2. QED
      BY <1>2, <3>1
  <2>3. QED
    BY <1>8, <2>1, <2>2
<1>9. ToSet(r) = ToSet(q) \ {q[i]}
  <2>1. ASSUME NEW x \in ToSet(q) \ {q[i]} PROVE x \in ToSet(r)
    <3>1. PICK k \in 1..Len(q) : x = q[k]
      BY DEF ToSet
    <3>2. QED
      BY <1>4, <1>8, <3>1 DEF ToSet
  <2>2. ASSUME NEW x \in ToSet(r) PROVE x \in ToSet(q) \ {q[i]}
    BY <1>4, <1>7 DEF ToSet
  <2>3. QED
    BY <2>1, <2>2
<1>10. QED
  BY <1>1, <1>6, <1>9 DEF r

LEMMA AppendRow ==
    ASSUME NEW S, NEW q \in Seq(S), IsInjective(q), NEW e \in S, e \notin ToSet(q)
    PROVE  /\ Append(q, e) \in Seq(S) /\ IsInjective(Append(q, e))
           /\ ToSet(Append(q, e)) = ToSet(q) \cup {e}
<1> DEFINE r == Append(q, e)
<1>1. r \in Seq(S) /\ DOMAIN r = 1..(Len(q) + 1) /\ r[Len(q) + 1] = e
  OBVIOUS
<1>2. \A j \in 1..Len(q) : r[j] = q[j]
  OBVIOUS
<1> HIDE DEF r
<1>3. \A j, k \in 1..Len(q) : q[j] = q[k] => j = k
  BY DEF IsInjective
<1>4. \A j \in 1..Len(q) : q[j] # e
  BY DEF ToSet
<1>5. \A j, k \in 1..(Len(q) + 1) : r[j] = r[k] => j = k
  BY <1>1, <1>2, <1>3, <1>4
<1>6. ToSet(r) = ToSet(q) \cup {e}
  BY <1>1, <1>2 DEF ToSet
<1>7. QED
  BY <1>1, <1>5, <1>6 DEF IsInjective, r

-----------------------------------------------------------------------------
(* The table *)

LEMMA NewRow ==
    ASSUME QInv, NEW o \in Rows, stage[o] = "none",
           stage' = [stage EXCEPT ![o] = "pending"],
           queue' = Append(queue, o), UNCHANGED waiting
    PROVE  TableOK'
<1>1. o \notin ToSet(queue)
  BY DEF QInv, TableOK
<1>2. /\ queue' \in Seq(Rows) /\ IsInjective(queue')
      /\ ToSet(queue') = ToSet(queue) \cup {o}
  BY <1>1, AppendRow DEF QInv, TableOK
<1>3. \A p \in Rows : stage'[p] = IF p = o THEN "pending" ELSE stage[p]
  BY DEF QInv, ColumnsOK
<1>4. QED
  BY <1>2, <1>3 DEF QInv, TableOK

LEMMA WithoutRow ==
    ASSUME QInv, NEW o \in Rows, stage[o] \notin {"none", "settled"}
    PROVE  /\ Without(o) \in Seq(Rows) /\ IsInjective(Without(o))
           /\ ToSet(Without(o)) = ToSet(queue) \ {o}
<1> DEFINE i == CHOOSE j \in 1..Len(queue) : queue[j] = o
<1>1. \E j \in 1..Len(queue) : queue[j] = o
  BY DEF QInv, TableOK, ToSet
<1>2. i \in 1..Len(queue) /\ queue[i] = o
  BY <1>1
<1> HIDE DEF i
<1>3. QED
  BY <1>2, RemoveRow DEF QInv, TableOK, Without, i

LEMMA UpdatedRow ==
    ASSUME QInv, NEW o \in Rows, stage[o] \notin {"none", "settled"},
           NEW s \in Stages \ {"none"}, NEW delayed, Update(o, s, delayed)
    PROVE  TableOK'
<1>1. \A p \in Rows : stage'[p] = IF p = o THEN s ELSE stage[p]
  BY DEF QInv, ColumnsOK, Update
<1>2. waiting' \subseteq Rows
  BY DEF QInv, TableOK, Update
<1>3. CASE s = "settled"
  <2>1. queue' = Without(o)
    BY <1>3 DEF Update
  <2>2. QED
    BY <1>1, <1>2, <1>3, <2>1, WithoutRow DEF QInv, TableOK
<1>4. CASE s # "settled"
  <2>1. queue' = Append(Without(o), o)
    BY <1>4 DEF Update, Touch
  <2>2. /\ queue' \in Seq(Rows) /\ IsInjective(queue')
        /\ ToSet(queue') = (ToSet(queue) \ {o}) \cup {o}
    BY <2>1, WithoutRow, AppendRow
  <2>3. QED
    BY <1>1, <1>2, <1>4, <2>2 DEF QInv, TableOK
<1>5. QED
  BY <1>3, <1>4

-----------------------------------------------------------------------------
(* The invariant *)

LEMMA InitQueue == Init => QInv
  BY QueueAssumption DEF QueueAssumption, Init, QInv, ColumnsOK, TableOK, FlightInv, HoldInv, Stages,
     IsInjective, ToSet

\* A row that does not exist, or that is not pending, is held by nobody.
LEMMA HeldIsPending ==
    ASSUME QInv, NEW o \in Rows, stage[o] # "pending"
    PROVE  \A w \in Workers : holds[w] # o
  BY RowFacts DEF QInv, HoldInv

LEMMA RequestQueue ==
    ASSUME QInv, NEW v \in Vms, Request(v) \/ RequestDelete(v)
    PROVE  QInv'
<1>1. PICK k \in {"create", "delete"} :
          /\ stage[<<v, k>>] = "none"
          /\ stage' = [stage EXCEPT ![<<v, k>>] = "pending"]
          /\ queue' = Append(queue, <<v, k>>)
          /\ UNCHANGED <<waiting, vmid, holds, offer, used, foreign, flight>>
  BY DEF Request, RequestDelete, prov
<1>2. <<v, k>> \in Rows
  BY DEF Rows
<1>3. \A w \in Workers : holds[w] # <<v, k>>
  BY <1>1, <1>2, HeldIsPending
<1>4. HoldInv'
  BY <1>1, <1>2, <1>3, HoldKept DEF QInv, ColumnsOK
<1>5. ColumnsOK'
  BY <1>1, <1>2 DEF QInv, ColumnsOK, Stages
<1>6. TableOK'
  BY <1>1, <1>2, NewRow
<1>7. QED
  BY <1>1, <1>4, <1>5, <1>6 DEF QInv, FlightInv

LEMMA ChooseQueue ==
    ASSUME QInv, NEW w \in Workers, NEW o \in Rows, ChooseTarget(w, o)
    PROVE  QInv'
<1> USE DEF ChooseTarget
<1>1. NextVmid \in Vmids
  BY NextVmidIsFree DEF QInv
<1>2. ColumnsOK'
  BY <1>1 DEF QInv, ColumnsOK, prov
<1>3. \A x \in Workers : holds[x] # o
  BY SelectedIsFree
<1>4. /\ \A x \in Workers : holds'[x] = IF x = w THEN o ELSE holds[x]
      /\ \A x \in Workers : offer'[x] = IF x = w THEN NextVmid ELSE offer[x]
  BY DEF QInv, ColumnsOK
<1>5. HoldInv'
  BY <1>1, <1>3, <1>4 DEF QInv, HoldInv, Placed
<1>6. FlightInv'
  BY DEF QInv, FlightInv, prov
<1>7. TableOK'
  BY DEF QInv, TableOK
<1>8. QED
  BY <1>2, <1>5, <1>6, <1>7 DEF QInv

LEMMA SaveFacts ==
    ASSUME QInv, NEW w \in Workers, SavePlacement(w)
    PROVE  /\ holds[w] \in Rows /\ holds[w][1] \in Vms /\ vmid[holds[w][1]] = NoVmid
           /\ offer[w] \in Vmids
           /\ vmid' = vmid \/ vmid' = [vmid EXCEPT ![holds[w][1]] = offer[w]]
  BY RowFacts DEF SavePlacement, Idle, QInv, ColumnsOK, HoldInv

LEMMA SaveQueue ==
    ASSUME QInv, NEW w \in Workers, SavePlacement(w)
    PROVE  QInv'
<1> DEFINE v == holds[w][1]
<1>1. /\ holds' = [holds EXCEPT ![w] = NoRow]
      /\ offer' = [offer EXCEPT ![w] = NoVmid]
      /\ UNCHANGED <<stage, used, foreign, flight>>
  BY DEF SavePlacement, prov
<1>2. ColumnsOK'
  BY <1>1, SaveFacts DEF QInv, ColumnsOK
<1>3. \A x \in Workers : /\ holds'[x] = IF x = w THEN NoRow ELSE holds[x]
                         /\ x # w => offer'[x] = offer[x]
  BY <1>1 DEF QInv, ColumnsOK
<1>4. ASSUME NEW x \in Workers, x # w, holds[x] # NoRow
      PROVE  vmid'[holds[x][1]] = vmid[holds[x][1]]
  <2>1. holds[x] \in Rows /\ holds[x] # holds[w] /\ holds[x][2] = "create" /\ holds[w][2] = "create"
    BY <1>4, SaveFacts DEF QInv, ColumnsOK, HoldInv, SavePlacement, Idle
  <2>2. holds[x][1] # v /\ holds[x][1] \in Vms
    BY <2>1, SaveFacts, RowFacts
  <2>3. QED
    BY <2>2, SaveFacts DEF QInv, ColumnsOK
<1>5. HoldInv'
  BY <1>1, <1>3, <1>4 DEF QInv, HoldInv
<1>6. FlightInv'
  BY <1>1, SaveFacts, QueueAssumption DEF QInv, ColumnsOK, FlightInv, QueueAssumption
<1>7. TableOK'
  BY DEF SavePlacement, QInv, TableOK
<1>8. QED
  BY <1>2, <1>5, <1>6, <1>7 DEF QInv

LEMMA TakeQueue ==
    ASSUME QInv, NEW w \in Workers, Take(w)
    PROVE  QInv'
<1>1. CASE SavePlacement(w)
  BY <1>1, SaveQueue
<1>2. ASSUME NEW o \in Rows, ChooseTarget(w, o)
      PROVE  QInv'
  BY <1>2, ChooseQueue
<1>3. ASSUME NEW o \in Rows, Dispatch(w, o) \/ Poll(w, o) \/ Reconcile(w, o)
      PROVE  QInv'
  <2>1. \A x \in Workers : holds[x] # o
    BY <1>3, SelectedIsFree DEF Dispatch, Poll, Reconcile
  <2>2. UNCHANGED <<vmid, holds, offer, used, foreign>>
    BY <1>3 DEF Dispatch, Poll, Reconcile, prov
  <2>3. PICK s \in Stages \ {"none"}, delayed \in BOOLEAN : Update(o, s, delayed)
    BY <1>3 DEF Dispatch, Poll, Reconcile, Stages
  <2>4. TableOK'
    BY <1>3, <2>3, UpdatedRow DEF Dispatch, Poll, Reconcile
  <2>5. FlightInv'
    BY <1>3, <2>2, RowFacts DEF Dispatch, Poll, Reconcile, Placed, prov, QInv, FlightInv
  <2>6. QED
    BY <2>1, <2>2, <2>3, <2>4, <2>5, UpdateColumns DEF QInv, ColumnsOK
<1>4. QED
  BY <1>1, <1>2, <1>3 DEF Take

LEMMA DelayQueue ==
    ASSUME QInv, NEW o \in Rows, Store(o) \/ Elapse(o)
    PROVE  QInv'
<1>1. CASE Store(o)
  <2>1. \A x \in Workers : holds[x] # o
    BY <1>1, HeldIsPending DEF Store
  <2>2. UNCHANGED <<vmid, holds, offer, used, foreign>>
    BY <1>1 DEF Store, prov
  <2>3. PICK s \in Stages \ {"none"}, delayed \in BOOLEAN : Update(o, s, delayed)
    BY <1>1 DEF Store, Stages
  <2>4. TableOK'
    BY <1>1, <2>3, UpdatedRow DEF Store
  <2>5. FlightInv'
    BY <1>1 DEF Store, prov, QInv, FlightInv
  <2>6. QED
    BY <2>1, <2>2, <2>3, <2>4, <2>5, UpdateColumns DEF QInv, ColumnsOK
<1>2. CASE Elapse(o)
  BY <1>2 DEF Elapse, prov, QInv, ColumnsOK, TableOK, FlightInv, HoldInv
<1>3. QED
  BY <1>1, <1>2

LEMMA ProviderQueue ==
    ASSUME QInv,
           \/ \E v \in Vms : Clone(v) \/ CloneLost(v) \/ Destroy(v)
           \/ \E n \in Vmids : ForeignVm(n)
    PROVE  QInv'
<1>1. UNCHANGED <<queue, stage, waiting, vmid, holds, offer>>
  BY DEF Clone, CloneLost, Destroy, ForeignVm
<1>2. used' \subseteq Vmids /\ foreign' \subseteq Vmids
  BY DEF Clone, CloneLost, Destroy, ForeignVm, QInv, ColumnsOK, FlightInv
<1>3. flight' \subseteq flight
  BY DEF Clone, CloneLost, Destroy, ForeignVm
<1>4. QED
  BY <1>1, <1>2, <1>3 DEF QInv, ColumnsOK, TableOK, FlightInv, HoldInv

LEMMA QueueStep == QInv /\ [Next]_vars => QInv'
<1> SUFFICES ASSUME QInv, [Next]_vars PROVE QInv'
  OBVIOUS
<1>1. CASE UNCHANGED vars
  BY <1>1 DEF vars, prov, QInv, ColumnsOK, TableOK, FlightInv, HoldInv
<1>2. CASE \E v \in Vms : Request(v) \/ RequestDelete(v)
  BY <1>2, RequestQueue
<1>3. CASE \E w \in Workers : Take(w)
  BY <1>3, TakeQueue
<1>4. CASE \E o \in Rows : Store(o) \/ Elapse(o)
  BY <1>4, DelayQueue
<1>5. CASE (\E v \in Vms : Clone(v) \/ CloneLost(v) \/ Destroy(v)) \/ \E n \in Vmids : ForeignVm(n)
  BY <1>5, ProviderQueue
<1>6. QED
  BY <1>1, <1>2, <1>3, <1>4, <1>5 DEF Next

LEMMA QueueInvariant == Spec => []QInv
  BY InitQueue, QueueStep, PTL DEF Spec

\* The columns have their values, and the order by updated_at has every row in
\* pending or processing exactly once.
THEOREM TypeCorrect == Spec => []TypeOK
<1>1. QInv => TypeOK
  BY DEF QInv, ColumnsOK, TableOK, FlightInv, TypeOK
<1>2. QED
  BY <1>1, QueueInvariant, PTL

\* PlacementStays for any number of workers: a worker that waits for the
\* provider's VMID has the row to itself, so the VMID it saves is the first.
THEOREM PlacementsStay == Spec => PlacementStays
<1> DEFINE Kept == \A v \in Vms : vmid[v] # NoVmid => vmid'[v] = vmid[v]
<1>1. ASSUME QInv, [Next]_vars PROVE Kept
  <2>1. ASSUME NEW w \in Workers, SavePlacement(w)
        PROVE  Kept
    BY <1>1, <2>1, SaveFacts DEF QInv, ColumnsOK
  <2>2. CASE \E w \in Workers : Take(w)
    <3>1. ASSUME NEW w \in Workers, NEW o \in Rows,
                 ChooseTarget(w, o) \/ Dispatch(w, o) \/ Poll(w, o) \/ Reconcile(w, o)
          PROVE  UNCHANGED vmid
      BY <3>1 DEF ChooseTarget, Dispatch, Poll, Reconcile
    <3>2. QED
      BY <2>1, <2>2, <3>1 DEF Take
  <2>3. CASE ~\E w \in Workers : Take(w)
    BY <1>1, <2>3 DEF Next, vars, Request, RequestDelete, Store, Elapse,
       Clone, CloneLost, Destroy, ForeignVm
  <2>4. QED
    BY <2>2, <2>3
<1>2. QInv /\ [Next]_vars => [Kept]_vars
  BY <1>1
<1>3. QED
  BY <1>2, QueueInvariant, PTL DEF Spec, PlacementStays
=============================================================================
