--------------------------- MODULE OperationQueue ---------------------------
(***************************************************************************)
(* Which row a worker takes: run_once selects one unlocked due row of      *)
(* `operations` ORDER BY updated_at with FOR UPDATE SKIP LOCKED            *)
(* (portal/app/workers/operation_worker.py), and what its transaction does *)
(* to the row's place in that order.  The commands themselves are those of *)
(* OperationWorker; here a creation is its clone and a deletion stands for *)
(* the other operations, which have no placement to choose.                *)
(*                                                                         *)
(* Choosing a placement asks the provider for a VMID within the            *)
(* transaction, so it is two steps; the column provider_vmid is UNIQUE and *)
(* no code clears it.                                                      *)
(***************************************************************************)
EXTENDS Naturals, FiniteSetsExt, SequencesExt

CONSTANTS
    Vms,
    Workers,
    Vmids,         \* VMIDs the provider may give (a bound)
    Faults,        \* subset of {"lost", "delete", "cut", "foreign"}
    NoVmid, NoRow

Rows == Vms \X {"create", "delete"}

ASSUME QueueAssumption ==
    /\ Vmids \subseteq Nat /\ NoVmid \notin Vmids /\ NoRow \notin Rows
    /\ Faults \subseteq {"lost", "delete", "cut", "foreign"}

VARIABLES
    queue,         \* rows in pending or processing, by updated_at
    stage,         \* status and phase of a row
    waiting,       \* rows whose grace, reconcile or back-off delay still runs
    vmid,          \* virtual_machines.provider_vmid
    holds,         \* the row a worker has locked while it waits for a VMID
    offer,         \* the VMID it was given
    used,          \* VMIDs of the portal's VMs at the provider (external)
    foreign,       \* VMIDs of other VMs there (external)
    flight         \* clones on their way to the provider (external)

prov == <<used, foreign, flight>>
vars == <<queue, stage, waiting, vmid, holds, offer, prov>>

Stages == {"none", "pending", "dispatch", "task", "reconcile", "settled"}

TypeOK ==
    /\ queue \in Seq(Rows)
    /\ IsInjective(queue)
    /\ stage \in [Rows -> Stages]
    /\ ToSet(queue) = {o \in Rows : stage[o] \notin {"none", "settled"}}
    /\ waiting \subseteq Rows
    /\ vmid \in [Vms -> Vmids \cup {NoVmid}]
    /\ holds \in [Workers -> Rows \cup {NoRow}]
    /\ offer \in [Workers -> Vmids \cup {NoVmid}]
    /\ used \subseteq Vmids /\ foreign \subseteq Vmids /\ flight \subseteq Vms

Init ==
    /\ queue = << >>
    /\ stage = [o \in Rows |-> "none"]
    /\ waiting = {}
    /\ vmid = [v \in Vms |-> NoVmid]
    /\ holds = [w \in Workers |-> NoRow]
    /\ offer = [w \in Workers |-> NoVmid]
    /\ used = {} /\ foreign = {} /\ flight = {}

-----------------------------------------------------------------------------
(* updated_at *)

Without(o) == RemoveAt(queue, CHOOSE i \in 1..Len(queue) : queue[i] = o)

Touch(o) == queue' = Append(Without(o), o)

\* Mutated: the row keeps its updated_at.
UpdateUntouched(o, s, delayed) ==
    /\ stage' = [stage EXCEPT ![o] = s]
    /\ queue' = IF s = "settled" THEN Without(o) ELSE queue
    /\ waiting' = IF delayed THEN waiting \cup {o} ELSE waiting \ {o}

\* The operation's row is written: it goes to the end, or leaves the queue.
Update(o, s, delayed) ==
    /\ stage' = [stage EXCEPT ![o] = s]
    /\ IF s = "settled" THEN queue' = Without(o) ELSE Touch(o)
    /\ waiting' = IF delayed THEN waiting \cup {o} ELSE waiting \ {o}

Request(v) ==
    /\ stage[<<v, "create">>] = "none"
    /\ stage' = [stage EXCEPT ![<<v, "create">>] = "pending"]
    /\ queue' = Append(queue, <<v, "create">>)
    /\ UNCHANGED <<waiting, vmid, holds, offer, prov>>

RequestDelete(v) ==
    /\ "delete" \in Faults
    /\ stage[<<v, "create">>] = "settled" /\ vmid[v] \in used
    /\ stage[<<v, "delete">>] = "none"
    /\ stage' = [stage EXCEPT ![<<v, "delete">>] = "pending"]
    /\ queue' = Append(queue, <<v, "delete">>)
    /\ UNCHANGED <<waiting, vmid, holds, offer, prov>>

-----------------------------------------------------------------------------
(* run_once *)

\* Mutated: without FOR UPDATE a row can be selected twice.
SelectedUnlocked(o) ==
    \E i \in 1..Len(queue) :
        /\ queue[i] = o
        /\ o \notin waiting
        /\ \A j \in 1..(i - 1) : queue[j] \in waiting

\* The SELECT: the first row that is due and that no other worker has locked.
Selected(o) ==
    LET locked == {holds[w] : w \in Workers} IN
    \E i \in 1..Len(queue) :
        /\ queue[i] = o
        /\ o \notin waiting \cup locked
        /\ \A j \in 1..(i - 1) : queue[j] \in waiting \cup locked

Idle(w) == holds[w] = NoRow

Placed(o) == vmid[o[1]] # NoVmid

\* GET /cluster/nextid (external): the lowest VMID without a VM.
NextVmid == Min(Vmids \ (used \cup foreign))

\* choose_clone_target, for a creation that has no placement yet.
ChooseTarget(w, o) ==
    /\ Idle(w) /\ Selected(o)
    /\ stage[o] = "pending" /\ o[2] = "create" /\ ~Placed(o)
    /\ Vmids # used \cup foreign
    /\ holds' = [holds EXCEPT ![w] = o]
    /\ offer' = [offer EXCEPT ![w] = NextVmid]
    /\ UNCHANGED <<queue, stage, waiting, vmid, prov>>

\* The end of that transaction.  The VM's row gets the VMID, the operation's
\* is not written; a VMID another row has is an IntegrityError, and then
\* nothing is.  (Two workers with one VMID: the second commit waits and fails.)
SavePlacement(w) ==
    LET v == holds[w][1] IN
    /\ ~Idle(w)
    /\ vmid' = IF \E x \in Vms \ {v} : vmid[x] = offer[w]
               THEN vmid
               ELSE [vmid EXCEPT ![v] = offer[w]]
    /\ holds' = [holds EXCEPT ![w] = NoRow]
    /\ offer' = [offer EXCEPT ![w] = NoVmid]
    /\ UNCHANGED <<queue, stage, waiting, prov>>

\* prepare_*_dispatch, and the command is sent.
Dispatch(w, o) ==
    /\ Idle(w) /\ Selected(o)
    /\ stage[o] = "pending" /\ Placed(o)
    /\ Update(o, "dispatch", TRUE)
    /\ flight' = IF o[2] = "create" THEN flight \cup {o[1]} ELSE flight
    /\ UNCHANGED <<vmid, holds, offer, used, foreign>>

\* The task is still running, its status cannot be read (poll_backoff*), or
\* it has ended one way or the other.
Poll(w, o) ==
    /\ Idle(w) /\ Selected(o)
    /\ stage[o] = "task"
    /\ \/ \E unreadable \in BOOLEAN : Update(o, "task", unreadable)
       \/ Update(o, "settled", FALSE)
    /\ UNCHANGED <<vmid, holds, offer, prov>>

\* A marker whose delay has passed: read the VM, and wait again if unclear.
Reconcile(w, o) ==
    /\ Idle(w) /\ Selected(o)
    /\ stage[o] \in {"dispatch", "reconcile"}
    /\ IF vmid[o[1]] \in used <=> o[2] = "create"
       THEN Update(o, "settled", FALSE)
       ELSE Update(o, "reconcile", TRUE)
    /\ UNCHANGED <<vmid, holds, offer, prov>>

\* The call returns and transaction B stores a task or an unknown outcome.
Store(o) ==
    /\ stage[o] = "dispatch" /\ o \in waiting
    /\ \/ /\ o[1] \notin flight
          /\ o[2] = "create" => vmid[o[1]] \in used
          /\ Update(o, "task", FALSE)
       \/ Update(o, "reconcile", TRUE)
    /\ UNCHANGED <<vmid, holds, offer, prov>>

\* A delay passes: RECONCILE_DELAY, or DISPATCH_GRACE for a call cut off (a
\* call that ends in time is Store).
Elapse(o) ==
    /\ o \in waiting
    /\ stage[o] = "dispatch" => "cut" \in Faults
    /\ waiting' = waiting \ {o}
    /\ UNCHANGED <<queue, stage, vmid, holds, offer, prov>>

-----------------------------------------------------------------------------
(* The provider (external) *)

Clone(v) ==
    /\ v \in flight
    /\ vmid[v] \notin foreign
    /\ flight' = flight \ {v}
    /\ used' = used \cup {vmid[v]}
    /\ UNCHANGED <<queue, stage, waiting, vmid, holds, offer, foreign>>

\* The request is lost, or the clone fails and leaves no VM.
CloneLost(v) ==
    /\ "lost" \in Faults \/ vmid[v] \in foreign
    /\ v \in flight
    /\ flight' = flight \ {v}
    /\ UNCHANGED <<queue, stage, waiting, vmid, holds, offer, used, foreign>>

Destroy(v) ==
    /\ stage[<<v, "delete">>] \in {"dispatch", "task", "reconcile"}
    /\ vmid[v] \in used
    /\ used' = used \ {vmid[v]}
    /\ UNCHANGED <<queue, stage, waiting, vmid, holds, offer, foreign, flight>>

\* Somebody else makes a VM in the same cluster.
ForeignVm(n) ==
    /\ "foreign" \in Faults
    /\ n \notin used \cup foreign
    /\ foreign' = foreign \cup {n}
    /\ UNCHANGED <<queue, stage, waiting, vmid, holds, offer, used, flight>>

-----------------------------------------------------------------------------
Take(w) ==
    \/ SavePlacement(w)
    \/ \E o \in Rows :
           ChooseTarget(w, o) \/ Dispatch(w, o) \/ Poll(w, o) \/ Reconcile(w, o)

Next ==
    \/ \E v \in Vms : Request(v) \/ RequestDelete(v)
    \/ \E w \in Workers : Take(w)
    \/ \E o \in Rows : Store(o) \/ Elapse(o)
    \/ \E v \in Vms : Clone(v) \/ CloneLost(v) \/ Destroy(v)
    \/ \E n \in Vmids : ForeignVm(n)

Spec == Init /\ [][Next]_vars

\* run_worker never returns, delays pass, calls end (by their timeout) and a
\* clone that was sent and not lost is made.  A task may run for ever.
FairSpec ==
    /\ Spec
    /\ \A w \in Workers : WF_vars(Take(w))
    /\ \A o \in Rows : WF_vars(Store(o)) /\ WF_vars(Elapse(o))
    /\ \A v \in Vms : WF_vars(Clone(v)) /\ WF_vars(vmid[v] \in foreign /\ CloneLost(v))

-----------------------------------------------------------------------------
(* Properties *)

\* The VMID in a row is never replaced: no second worker chooses a placement
\* for a row another one has placed, so every command goes to the VM cloned.
PlacementStays ==
    [][\A v \in Vms : vmid[v] # NoVmid => vmid'[v] = vmid[v]]_vars

\* Every pending operation is taken up, whatever the others do: no row stays
\* at the head of the queue, and tasks that run for ever do not hide it.
PendingIsTaken ==
    \A o \in Rows : stage[o] = "pending" ~> stage[o] # "pending"

\* A creation waits for a placement while another row has a VMID that the
\* provider takes for free and offers: that row was placed but is not sent yet,
\* its clone was lost, or its VM deleted.
Jammed ==
    /\ \E v \in Vms : stage[<<v, "create">>] = "pending" /\ vmid[v] = NoVmid
    /\ \E v \in Vms : vmid[v] \notin {NoVmid} \cup used \cup foreign /\ v \notin flight

\* Nothing else passes over a pending operation for ever: not tasks that run
\* for ever, calls that are cut off, clones on their way, or foreign VMs (as
\* long as VMIDs are left).
TakenUnlessJammed ==
    \A o \in Rows :
        \/ []<>(stage[o] # "pending")
        \/ <>[]Jammed
        \/ <>(used \cup foreign = Vmids)
=============================================================================
