--------------------------- MODULE OperationWorker ---------------------------
(***************************************************************************)
(* The portal's operation worker: rows of `operations` and                 *)
(* `virtual_machines` in PostgreSQL, the workers that drive them           *)
(* (portal/app/workers/operation_worker.py with the transitions of         *)
(* portal/app/operations/services.py), the Proxmox adapter a worker calls  *)
(* between its two transactions, and the provider behind it (external).    *)
(*                                                                         *)
(* A transaction of the code is one action: the operation row stays locked *)
(* (FOR UPDATE) for all of it.  A dispatched command is several actions,   *)
(* because the code leaves the transaction before it calls the provider:   *)
(*                                                                         *)
(*   Prepare (transaction A)  ->  Probe (GETs)  ->  Post (POST sent)       *)
(*     ->  Accept / Drop (provider)  ->  Receive / CallFails               *)
(*     ->  Store or StoreUnknown (transaction B)                           *)
(*                                                                         *)
(* The string column `phase` is kept as a marker and a step:               *)
(*   "dispatch_create_clone"         = <<"dispatch",  "clone">>            *)
(*   "reconcile_reboot_start"        = <<"reconcile", "start">>            *)
(*   "poll_backoff", "poll_backoff_create_resize" = <<"backoff", step>>    *)
(*   "needs_review_create_configure" = <<"review", "configure">>           *)
(*   NULL, "clone", "await_task"...  = <<"plain", step>>                   *)
(*   "complete"                      = <<"complete", last step>>           *)
(***************************************************************************)
EXTENDS Naturals

CONSTANTS
    Ops,             \* identifiers of operation rows
    Vms,             \* identifiers of virtual machine rows
    Workers,         \* worker processes
    NoOp,            \* "no operation" in a worker's local state
    Faults,          \* what the environment may do; see FaultKinds
    GraceCoversCall  \* TRUE: no provider call outlives DISPATCH_GRACE

FaultKinds == {"crash", "timeout", "loss", "unreachable", "taskfail", "lock", "guest"}

ASSUME ConstantsAssumption ==
    /\ NoOp \notin Ops
    /\ Faults \subseteq FaultKinds
    /\ GraceCoversCall \in BOOLEAN

VARIABLES
    opStatus, opType, opVm, opStep, opMark, opTask,  \* rows of `operations`
    vmStatus, placed,                                \* rows of `virtual_machines`
    wAt, wOp, wStep, wReply,                         \* a worker's call in progress
    flight, taskState, power, lock, conf, sized,     \* Proxmox (external)
    posts                                            \* history: POSTs ever sent

opRows == <<opStatus, opType, opVm, opStep, opMark, opTask>>
rows   == <<opRows, vmStatus, placed>>
calls  == <<wAt, wOp, wStep, wReply>>
prov   == <<flight, taskState, power, lock, conf, sized>>
vars   == <<rows, calls, prov, posts>>

-----------------------------------------------------------------------------
Types    == {"create", "start", "shutdown", "stop", "reboot", "delete"}
Steps    == {"clone", "configure", "resize", "start", "shutdown", "stop", "delete"}
OpStatus == {"none", "pending", "processing", "succeeded", "failed"}
VmStatus == {"none", "pending", "provisioning", "running", "stopped",
             "failed", "deleting", "deleted"}
Marks    == {"plain", "dispatch", "reconcile", "backoff", "review", "complete"}
Replies  == {"task", "done", "in_progress", "error"}

TypeOK ==
    /\ opStatus \in [Ops -> OpStatus]
    /\ opType \in [Ops -> Types]
    /\ opVm \in [Ops -> Vms]
    /\ opStep \in [Ops -> Steps]
    /\ opMark \in [Ops -> Marks]
    /\ opTask \in [Ops -> Steps \cup {"none"}]
    /\ vmStatus \in [Vms -> VmStatus]
    /\ placed \in [Vms -> BOOLEAN]
    /\ wAt \in [Workers -> {"idle", "probe", "post", "sent", "reply"}]
    /\ wOp \in [Workers -> Ops \cup {NoOp}]
    /\ \A w \in Workers : wAt[w] # "idle" => wOp[w] \in Ops
    /\ wStep \in [Workers -> Steps]
    /\ wReply \in [Workers -> Replies]
    /\ flight \subseteq Ops \X Steps
    /\ taskState \in [Ops -> [Steps -> {"none", "running", "ok", "failed"}]]
    /\ power \in [Vms -> {"missing", "stopped", "running"}]
    /\ lock \in [Vms -> {"none", "clone", "other"}]
    /\ conf \in [Vms -> BOOLEAN]
    /\ sized \in [Vms -> BOOLEAN]
    /\ posts \in [Ops -> [Steps -> Nat]]

\* The empty tables: nothing requested, every worker idle, nothing cloned.
Init ==
    /\ opStatus = [o \in Ops |-> "none"]
    /\ opType = [o \in Ops |-> "create"]
    /\ \E v \in Vms : opVm = [o \in Ops |-> v]
    /\ opStep = [o \in Ops |-> "clone"]
    /\ opMark = [o \in Ops |-> "plain"]
    /\ opTask = [o \in Ops |-> "none"]
    /\ vmStatus = [v \in Vms |-> "none"]
    /\ placed = [v \in Vms |-> FALSE]
    /\ wAt = [w \in Workers |-> "idle"]
    /\ wOp = [w \in Workers |-> NoOp]
    /\ wStep = [w \in Workers |-> "clone"]
    /\ wReply = [w \in Workers |-> "error"]
    /\ flight = {}
    /\ taskState = [o \in Ops |-> [s \in Steps |-> "none"]]
    /\ power = [v \in Vms |-> "missing"]
    /\ lock = [v \in Vms |-> "none"]
    /\ conf = [v \in Vms |-> FALSE]
    /\ sized = [v \in Vms |-> FALSE]
    /\ posts = [o \in Ops |-> [s \in Steps |-> 0]]

-----------------------------------------------------------------------------
(* Helpers *)

Active(o) == opStatus[o] \in {"pending", "processing"}

Fault(k) == k \in Faults

\* A worker's call on operation o is still running.
LiveCall(o) == \E w \in Workers : wAt[w] # "idle" /\ wOp[w] = o

Step1 == [create |-> "clone", start |-> "start", shutdown |-> "shutdown",
          stop |-> "stop", reboot |-> "shutdown", delete |-> "delete"]

\* The step that follows s in an operation of type t; "none" after the last.
NextStep(t, s) ==
    CASE t = "create" /\ s = "clone"     -> "configure"
      [] t = "create" /\ s = "configure" -> "resize"
      [] t = "create" /\ s = "resize"    -> "start"
      [] t = "reboot" /\ s = "shutdown"  -> "start"
      [] OTHER                           -> "none"

\* Mutated: the VM row is left "running" by a shutdown.
VmAfterForgetsShutdown(s, status) ==
    CASE s = "clone"  -> "provisioning"
      [] s = "start"  -> "running"
      [] s = "stop"   -> "stopped"
      [] s = "delete" -> "deleted"
      [] OTHER        -> status

\* What the end of step s makes of the VM row's status.
VmAfter(s, status) ==
    CASE s = "clone"                -> "provisioning"
      [] s = "start"                -> "running"
      [] s \in {"shutdown", "stop"} -> "stopped"
      [] s = "delete"               -> "deleted"
      [] OTHER                      -> status

\* Mutated: the UPID of the finished step is left on the row.
StepDoneKeepsTask(o) ==
    LET n == NextStep(opType[o], opStep[o]) IN
    /\ opStatus' = [opStatus EXCEPT ![o] = IF n = "none" THEN "succeeded" ELSE "pending"]
    /\ opStep' = [opStep EXCEPT ![o] = IF n = "none" THEN @ ELSE n]
    /\ opMark' = [opMark EXCEPT ![o] = IF n = "none" THEN "complete" ELSE "plain"]
    /\ UNCHANGED <<opTask, opType, opVm>>

\* Mutated: the last step has no "complete" of its own.
StepDoneNoLast(o) ==
    /\ opStatus' = [opStatus EXCEPT ![o] = "pending"]
    /\ opStep' = [opStep EXCEPT ![o] = NextStep(opType[o], opStep[o])]
    /\ opMark' = [opMark EXCEPT ![o] = "plain"]
    /\ opTask' = [opTask EXCEPT ![o] = "none"]
    /\ UNCHANGED <<opType, opVm>>

\* The operation's columns once its current step is known to be done: the
\* next step becomes pending, or the operation succeeds.
StepDone(o) ==
    LET n == NextStep(opType[o], opStep[o]) IN
    /\ opStatus' = [opStatus EXCEPT ![o] = IF n = "none" THEN "succeeded" ELSE "pending"]
    /\ opStep' = [opStep EXCEPT ![o] = IF n = "none" THEN @ ELSE n]
    /\ opMark' = [opMark EXCEPT ![o] = IF n = "none" THEN "complete" ELSE "plain"]
    /\ opTask' = [opTask EXCEPT ![o] = "none"]
    /\ UNCHANGED <<opType, opVm>>

SetMark(o, m) ==
    /\ opMark' = [opMark EXCEPT ![o] = m]
    /\ UNCHANGED <<opStatus, opType, opVm, opStep, opTask>>

SetVm(o, status) == vmStatus' = [vmStatus EXCEPT ![opVm[o]] = status]

-----------------------------------------------------------------------------
(* The portal's HTTP side: rows appear.  VmRequests models the same two    *)
(* services with their locks, keys and quota; here each is one commit.     *)

\* create_vm: a new VM row and its vm.create operation, in one transaction.
CreateVm(o, v) ==
    /\ opStatus[o] = "none" /\ vmStatus[v] = "none"
    /\ vmStatus' = [vmStatus EXCEPT ![v] = "pending"]
    /\ opStatus' = [opStatus EXCEPT ![o] = "pending"]
    /\ opType' = [opType EXCEPT ![o] = "create"]
    /\ opVm' = [opVm EXCEPT ![o] = v]
    /\ opStep' = [opStep EXCEPT ![o] = "clone"]
    /\ UNCHANGED <<opMark, opTask, placed, calls, prov, posts>>

\* enqueue_vm_operation's allowed_statuses.
AllowedStatus == [start |-> "stopped", shutdown |-> "running", stop |-> "running",
                  reboot |-> "running", delete |-> "stopped"]

\* Mutated: another active operation of the VM is not looked for.
EnqueueBlindly(o, v, t) ==
    /\ opStatus[o] = "none"
    /\ vmStatus[v] = AllowedStatus[t]
    /\ opStatus' = [opStatus EXCEPT ![o] = "pending"]
    /\ opType' = [opType EXCEPT ![o] = t]
    /\ opVm' = [opVm EXCEPT ![o] = v]
    /\ opStep' = [opStep EXCEPT ![o] = Step1[t]]
    /\ UNCHANGED <<opMark, opTask, vmStatus, placed, calls, prov, posts>>

EnqueueVmOperation(o, v, t) ==
    /\ opStatus[o] = "none"
    /\ vmStatus[v] = AllowedStatus[t]
    /\ \A p \in Ops : Active(p) => opVm[p] # v
    /\ opStatus' = [opStatus EXCEPT ![o] = "pending"]
    /\ opType' = [opType EXCEPT ![o] = t]
    /\ opVm' = [opVm EXCEPT ![o] = v]
    /\ opStep' = [opStep EXCEPT ![o] = Step1[t]]
    /\ UNCHANGED <<opMark, opTask, vmStatus, placed, calls, prov, posts>>

-----------------------------------------------------------------------------
(* Transaction A of run_once *)

\* First pass over a pending clone: only node and VMID are chosen and saved.
ChoosePlacement(o) ==
    /\ opStatus[o] = "pending" /\ opStep[o] = "clone"
    /\ ~placed[opVm[o]]
    /\ placed' = [placed EXCEPT ![opVm[o]] = TRUE]
    /\ UNCHANGED <<opRows, vmStatus, calls, prov, posts>>

\* prepare_*_dispatch: the marker is committed before the provider is called.
Prepare(w, o) ==
    /\ wAt[w] = "idle"
    /\ opStatus[o] = "pending" /\ opTask[o] = "none"
    /\ placed[opVm[o]]
    /\ opStatus' = [opStatus EXCEPT ![o] = "processing"]
    /\ opMark' = [opMark EXCEPT ![o] = "dispatch"]
    /\ vmStatus' = [vmStatus EXCEPT ![opVm[o]] =
                        IF opStep[o] = "delete" THEN "deleting" ELSE @]
    /\ wAt' = [wAt EXCEPT ![w] = "probe"]
    /\ wOp' = [wOp EXCEPT ![w] = o]
    /\ wStep' = [wStep EXCEPT ![w] = opStep[o]]
    /\ UNCHANGED <<opType, opVm, opStep, opTask, placed, wReply, prov, posts>>

\* The marker a successful read of the task leaves on an unfinished operation:
\* create and reboot drop the poll_backoff prefix, start writes await_task,
\* shutdown, stop and delete leave the column alone.
MarkAfterPoll(o) ==
    IF opType[o] \in {"create", "reboot", "start"} THEN "plain" ELSE opMark[o]

\* Mutated: any row with a UPID is polled, settled ones included.
PolledForEver(o) == opTask[o] # "none"

Polled(o) == opStatus[o] = "processing" /\ opTask[o] # "none"

PollRunning(o) ==
    /\ Polled(o)
    /\ taskState[o][opTask[o]] = "running"
    /\ SetMark(o, MarkAfterPoll(o))
    /\ UNCHANGED <<vmStatus, placed, calls, prov, posts>>

\* The task succeeded: the row moves on by its *phase*, not by the task.
PollSucceeded(o) ==
    /\ Polled(o)
    /\ taskState[o][opTask[o]] = "ok"
    /\ StepDone(o)
    /\ SetVm(o, IF opStep[o] = "clone" THEN vmStatus[opVm[o]]
                                       ELSE VmAfter(opStep[o], vmStatus[opVm[o]]))
    /\ UNCHANGED <<placed, calls, prov, posts>>

\* Mutated: a failed delete releases the quota.
PollFailedDeleted(o) ==
    /\ Polled(o)
    /\ taskState[o][opTask[o]] = "failed"
    /\ opStatus' = [opStatus EXCEPT ![o] = "failed"]
    /\ SetVm(o, CASE opType[o] = "create" -> "failed"
                  [] opType[o] = "delete" -> "deleted"
                  [] OTHER                -> vmStatus[opVm[o]])
    /\ UNCHANGED <<opType, opVm, opStep, opMark, opTask, placed, calls, prov, posts>>

\* The task failed: the operation is final and keeps its UPID.  A failed
\* create fails the VM, a failed delete leaves it "deleting".
PollFailed(o) ==
    /\ Polled(o)
    /\ taskState[o][opTask[o]] = "failed"
    /\ opStatus' = [opStatus EXCEPT ![o] = "failed"]
    /\ opMark' = [opMark EXCEPT ![o] =
                      IF opType[o] \in {"create", "reboot"} THEN "plain" ELSE @]
    /\ SetVm(o, CASE opType[o] = "create" -> "failed"
                  [] opType[o] = "delete" -> "deleting"
                  [] OTHER                -> vmStatus[opVm[o]])
    /\ UNCHANGED <<opType, opVm, opStep, opTask, placed, calls, prov, posts>>

\* get_task_status raised: poll_backoff*, the UPID stays.
PollError(o) ==
    /\ Fault("unreachable")
    /\ Polled(o)
    /\ SetMark(o, "backoff")
    /\ UNCHANGED <<vmStatus, placed, calls, prov, posts>>

\* Mutated: a dispatch marker left by a crash is never taken up.
ReconcilableMarked(o) ==
    opStatus[o] = "processing" /\ opTask[o] = "none" /\ opMark[o] = "reconcile"

\* The row waits for a read of the VM's state: dispatch_* is taken up after
\* DISPATCH_GRACE, reconcile_* after RECONCILE_DELAY.
Reconcilable(o) ==
    /\ opStatus[o] = "processing" /\ opTask[o] = "none"
    /\ opMark[o] \in {"dispatch", "reconcile"}
    /\ opMark[o] = "dispatch" /\ GraceCoversCall => ~LiveCall(o)

\* Mutated: a stopped VM counts as configured and resized.
GoalOfAll == [clone |-> "stopped", configure |-> "stopped", resize |-> "stopped",
              start |-> "running", shutdown |-> "stopped", stop |-> "stopped",
              delete |-> "missing"]

\* Mutated: a clone is expected to be running.
GoalCloneRuns == [clone |-> "running", start |-> "running", shutdown |-> "stopped",
                  stop |-> "stopped", delete |-> "missing"]

\* The power state that proves a step done; a locked VM proves only deletion.
Goal == [clone |-> "stopped", start |-> "running", shutdown |-> "stopped",
         stop |-> "stopped", delete |-> "missing"]

Confirmed(o) ==
    /\ opStep[o] \in DOMAIN Goal
    /\ power[opVm[o]] = Goal[opStep[o]]
    /\ opStep[o] = "delete" \/ lock[opVm[o]] = "none"

ReconcileConfirmed(o) ==
    /\ Reconcilable(o)
    /\ Confirmed(o)
    /\ StepDone(o)
    /\ SetVm(o, VmAfter(opStep[o], vmStatus[opVm[o]]))
    /\ UNCHANGED <<placed, calls, prov, posts>>

\* Mutated: a command that is not proved done is dispatched again.
ReconcileRetries(o) ==
    /\ Reconcilable(o)
    /\ ~Confirmed(o)
    /\ opStatus' = [opStatus EXCEPT ![o] = "pending"]
    /\ opMark' = [opMark EXCEPT ![o] = "plain"]
    /\ UNCHANGED <<opType, opVm, opStep, opTask, vmStatus, placed, calls, prov, posts>>

\* Not proved, or the read raised.  configure and resize cannot be told from
\* the power state: they are left for an operator.
ReconcileUnknown(o) ==
    /\ Reconcilable(o)
    /\ Confirmed(o) => Fault("unreachable")
    /\ SetMark(o, IF opStep[o] \in {"configure", "resize"} THEN "review" ELSE "reconcile")
    /\ UNCHANGED <<vmStatus, placed, calls, prov, posts>>

-----------------------------------------------------------------------------
(* The adapter's call, outside any transaction *)

(* What a command does with the state its GETs returned: answer, raise or  *)
(* POST; p is the power state, l the lock, fits: the disk has its size.    *)

CloneOutcome(p, l) ==
    CASE p = "missing"                  -> "post"
      [] p # "missing" /\ l = "clone"   -> "in_progress"
      [] p # "missing" /\ l = "none"    -> "done"
      [] OTHER                          -> "error"

ConfigureOutcome(p, l) == IF p # "missing" /\ l = "none" THEN "post" ELSE "error"

\* A disk larger than requested, or of no valid size, raises; the row then goes
\* the way it goes when the call fails.
ResizeOutcome(p, l, fits) ==
    IF p = "missing" \/ l # "none" THEN "error" ELSE IF fits THEN "done" ELSE "post"

\* start, and shutdown and stop, with the state they lead to.
PowerOutcome(p, l, goal) ==
    IF p = "missing" \/ l # "none" THEN "error" ELSE IF p = goal THEN "done" ELSE "post"

DeleteOutcome(p, l) ==
    CASE p = "missing"                  -> "done"
      [] p # "missing" /\ l # "none"    -> "in_progress"
      [] p = "stopped" /\ l = "none"    -> "post"
      [] OTHER                          -> "error"

ProbeOutcome(s, p, l, fits) ==
    CASE s = "clone"     -> CloneOutcome(p, l)
      [] s = "configure" -> ConfigureOutcome(p, l)
      [] s = "resize"    -> ResizeOutcome(p, l, fits)
      [] s = "delete"    -> DeleteOutcome(p, l)
      [] OTHER           -> PowerOutcome(p, l, Goal[s])

Probe(w) ==
    /\ wAt[w] = "probe"
    /\ LET v == opVm[wOp[w]]
           r == ProbeOutcome(wStep[w], power[v], lock[v], sized[v])
       IN  IF r = "post"
           THEN wAt' = [wAt EXCEPT ![w] = "post"] /\ UNCHANGED wReply
           ELSE /\ wAt' = [wAt EXCEPT ![w] = "reply"]
                /\ wReply' = [wReply EXCEPT ![w] = r]
    /\ UNCHANGED <<rows, wOp, wStep, prov, posts>>

\* The POST leaves the worker; from here the provider may act on it, even if
\* the worker gives up or dies.
Post(w) ==
    /\ wAt[w] = "post"
    /\ wAt' = [wAt EXCEPT ![w] = "sent"]
    /\ flight' = flight \cup {<<wOp[w], wStep[w]>>}
    /\ posts' = [posts EXCEPT ![wOp[w]][wStep[w]] = @ + 1]
    /\ UNCHANGED <<rows, wOp, wStep, wReply, taskState, power, lock, conf, sized>>

\* The response arrives: a UPID, or null from a synchronous configure.
Receive(w) ==
    LET t == taskState[wOp[w]][wStep[w]] IN
    /\ wAt[w] = "sent"
    /\ t # "none"
    /\ \E r \in {"task"} \cup (IF wStep[w] = "configure" /\ t = "ok" THEN {"done"} ELSE {}) :
           wReply' = [wReply EXCEPT ![w] = r]
    /\ wAt' = [wAt EXCEPT ![w] = "reply"]
    /\ UNCHANGED <<rows, wOp, wStep, prov, posts>>

\* The call raises: a GET failed, or the POST timed out or was refused.  What
\* became of a POST that was sent is not known.
CallFails(w) ==
    /\ \/ wAt[w] = "probe" /\ Fault("unreachable")
       \/ wAt[w] = "sent"
          /\ \/ Fault("timeout")
             \/ /\ <<wOp[w], wStep[w]>> \notin flight
                /\ taskState[wOp[w]][wStep[w]] = "none"
    /\ wAt' = [wAt EXCEPT ![w] = "reply"]
    /\ wReply' = [wReply EXCEPT ![w] = "error"]
    /\ UNCHANGED <<rows, wOp, wStep, prov, posts>>

HangUp(w) ==
    /\ wAt' = [wAt EXCEPT ![w] = "idle"]
    /\ wOp' = [wOp EXCEPT ![w] = NoOp]
    /\ wStep' = [wStep EXCEPT ![w] = "clone"]
    /\ wReply' = [wReply EXCEPT ![w] = "error"]

\* The process dies during a call, or transaction B fails and is only logged.
Crash(w) ==
    /\ Fault("crash")
    /\ wAt[w] # "idle"
    /\ HangUp(w)
    /\ UNCHANGED <<rows, prov, posts>>

-----------------------------------------------------------------------------
(* Transaction B of run_once *)

\* Mutated: vm.create does not compare the phase, like vm.reboot.
FinishAcceptsAnyPhase(o, s, r) ==
    /\ opStatus[o] = "processing" /\ opTask[o] = "none"
    /\ IF opType[o] \in {"shutdown", "stop"} THEN r = "task" \/ opMark[o] = "dispatch"
                                             ELSE opMark[o] = "dispatch"

\* Mutated: the handler of a raised call writes its marker unconditionally.
UnknownAcceptsAll(o, s) == TRUE

\* Whether finish_*_dispatch accepts reply r to step s on the row it now finds.
FinishAccepts(o, s, r) ==
    /\ opStatus[o] = "processing" /\ opTask[o] = "none"
    /\ CASE opType[o] = "create"             -> opMark[o] = "dispatch" /\ opStep[o] = s
         [] opType[o] \in {"shutdown", "stop"} -> r = "task" \/ opMark[o] = "dispatch"
         [] OTHER                            -> opMark[o] = "dispatch"

\* Whether the handler of a raised call still finds its own marker.
UnknownAccepts(o, s) ==
    /\ opMark[o] = "dispatch"
    /\ opType[o] \in {"create", "start"} => opStatus[o] = "processing"
    /\ opType[o] = "create" => opStep[o] = s

\* Mutated: the marker is removed but the UPID is not saved.
StoreTaskUnsaved(w) ==
    LET o == wOp[w] IN
    /\ wAt[w] = "reply" /\ wReply[w] = "task"
    /\ FinishAccepts(o, wStep[w], "task")
    /\ opMark' = [opMark EXCEPT ![o] = "plain"]
    /\ SetVm(o, IF wStep[w] = "clone" THEN "provisioning" ELSE vmStatus[opVm[o]])
    /\ HangUp(w)
    /\ UNCHANGED <<opStatus, opType, opVm, opStep, opTask, placed, prov, posts>>

\* A UPID is saved under the step the row is in.
StoreTask(w) ==
    LET o == wOp[w] IN
    /\ wAt[w] = "reply" /\ wReply[w] = "task"
    /\ FinishAccepts(o, wStep[w], "task")
    /\ opTask' = [opTask EXCEPT ![o] = wStep[w]]
    /\ opMark' = [opMark EXCEPT ![o] = "plain"]
    /\ SetVm(o, IF wStep[w] = "clone" THEN "provisioning" ELSE vmStatus[opVm[o]])
    /\ HangUp(w)
    /\ UNCHANGED <<opStatus, opType, opVm, opStep, placed, prov, posts>>

\* The command had nothing to do, or was synchronous: the step is done.
StoreDone(w) ==
    LET o == wOp[w] IN
    /\ wAt[w] = "reply" /\ wReply[w] = "done"
    /\ FinishAccepts(o, wStep[w], "done")
    /\ StepDone(o)
    /\ SetVm(o, VmAfter(opStep[o], vmStatus[opVm[o]]))
    /\ HangUp(w)
    /\ UNCHANGED <<placed, prov, posts>>

\* A clone or a delete found the VM locked by the same command.
StoreInProgress(w) ==
    LET o == wOp[w] IN
    /\ wAt[w] = "reply" /\ wReply[w] = "in_progress"
    /\ FinishAccepts(o, wStep[w], "in_progress")
    /\ SetMark(o, "reconcile")
    /\ SetVm(o, IF wStep[w] = "clone" THEN "provisioning" ELSE vmStatus[opVm[o]])
    /\ HangUp(w)
    /\ UNCHANGED <<placed, prov, posts>>

\* The call raised: the outcome is unknown and the row goes to reconcile_*.
StoreUnknown(w) ==
    LET o == wOp[w] IN
    /\ wAt[w] = "reply" /\ wReply[w] = "error"
    /\ UnknownAccepts(o, wStep[w])
    /\ SetMark(o, "reconcile")
    /\ HangUp(w)
    /\ UNCHANGED <<vmStatus, placed, prov, posts>>

\* The row has moved on: the service raises, the transaction rolls back.
StoreRefused(w) ==
    LET o == wOp[w] IN
    /\ wAt[w] = "reply"
    /\ IF wReply[w] = "error" THEN ~UnknownAccepts(o, wStep[w])
                              ELSE ~FinishAccepts(o, wStep[w], wReply[w])
    /\ HangUp(w)
    /\ UNCHANGED <<rows, prov, posts>>

-----------------------------------------------------------------------------
(* Proxmox (external), as the adapter relies on it *)

\* The provider takes a command only on a VM it can apply to.
Admits(s, v) ==
    IF s = "clone" THEN power[v] = "missing"
    ELSE power[v] # "missing" /\ lock[v] = "none"

Accept(o, s) ==
    LET v == opVm[o] IN
    /\ <<o, s>> \in flight
    /\ Admits(s, v)
    /\ flight' = flight \ {<<o, s>>}
    /\ IF s = "clone"
       THEN /\ power' = [power EXCEPT ![v] = "stopped"]
            /\ lock' = [lock EXCEPT ![v] = "clone"]
            /\ \E fits \in BOOLEAN : sized' = [sized EXCEPT ![v] = fits]
       ELSE UNCHANGED <<power, lock, sized>>
    /\ \E t \in {"running"} \cup (IF s = "configure" THEN {"ok"} ELSE {}) :
          /\ taskState' = [taskState EXCEPT ![o][s] = t]
          /\ conf' = [conf EXCEPT ![v] = @ \/ t = "ok"]
    /\ UNCHANGED <<rows, calls, posts>>

\* A request is lost on the way, or refused.
Drop(o, s) ==
    /\ <<o, s>> \in flight
    /\ Fault("loss") \/ ~Admits(s, opVm[o])
    /\ flight' = flight \ {<<o, s>>}
    /\ UNCHANGED <<rows, calls, taskState, power, lock, conf, sized, posts>>

\* A task can only succeed on a VM in a state its command applies to.
Applies(s, v) ==
    IF s \in {"start", "delete"} THEN power[v] = "stopped" ELSE power[v] # "missing"

PowerAfter(s, p) ==
    CASE s = "start"                -> "running"
      [] s \in {"shutdown", "stop"} -> "stopped"
      [] s = "delete"               -> "missing"
      [] OTHER                      -> p

TaskOk(o, s) ==
    LET v == opVm[o] IN
    /\ taskState[o][s] = "running"
    /\ Applies(s, v)
    /\ taskState' = [taskState EXCEPT ![o][s] = "ok"]
    /\ power' = [power EXCEPT ![v] = PowerAfter(s, @)]
    /\ lock' = [lock EXCEPT ![v] = IF s \in {"clone", "delete"} THEN "none" ELSE @]
    /\ conf' = [conf EXCEPT ![v] = @ \/ s = "configure"]
    /\ sized' = [sized EXCEPT ![v] = @ \/ s = "resize"]
    /\ UNCHANGED <<rows, calls, flight, posts>>

\* A failed clone leaves no VM behind; other failures leave it as it was.
TaskFail(o, s) ==
    LET v == opVm[o] IN
    /\ Fault("taskfail") \/ ~Applies(s, v)
    /\ taskState[o][s] = "running"
    /\ taskState' = [taskState EXCEPT ![o][s] = "failed"]
    /\ power' = [power EXCEPT ![v] = IF s = "clone" THEN "missing" ELSE @]
    /\ lock' = [lock EXCEPT ![v] = IF s = "clone" THEN "none" ELSE @]
    /\ UNCHANGED <<rows, calls, flight, conf, sized, posts>>

\* A backup or a snapshot holds the VM for a while.
ForeignLock(v) ==
    /\ Fault("lock")
    /\ power[v] # "missing" /\ lock[v] = "none"
    /\ lock' = [lock EXCEPT ![v] = "other"]
    /\ UNCHANGED <<rows, calls, flight, taskState, power, conf, sized, posts>>

ForeignUnlock(v) ==
    /\ lock[v] = "other"
    /\ lock' = [lock EXCEPT ![v] = "none"]
    /\ UNCHANGED <<rows, calls, flight, taskState, power, conf, sized, posts>>

\* The guest powers itself off, or its host goes down.
GuestPowerOff(v) ==
    /\ Fault("guest")
    /\ power[v] = "running"
    /\ power' = [power EXCEPT ![v] = "stopped"]
    /\ UNCHANGED <<rows, calls, flight, taskState, lock, conf, sized, posts>>

-----------------------------------------------------------------------------
Request ==
    \E o \in Ops, v \in Vms :
        \/ CreateVm(o, v)
        \/ \E t \in Types \ {"create"} : EnqueueVmOperation(o, v, t)

\* What an idle worker does to row o in one transaction, sending nothing.
Advance(o) ==
    /\ \E w \in Workers : wAt[w] = "idle"
    /\ \/ ChoosePlacement(o)
       \/ PollRunning(o) \/ PollSucceeded(o) \/ PollFailed(o) \/ PollError(o)
       \/ ReconcileConfirmed(o) \/ ReconcileUnknown(o)

\* What a worker does with a command it has taken up.
Call(w) ==
    \/ Probe(w) \/ Post(w) \/ Receive(w) \/ CallFails(w)
    \/ StoreTask(w) \/ StoreDone(w) \/ StoreInProgress(w)
    \/ StoreUnknown(w) \/ StoreRefused(w)

Provider(o, s) == Accept(o, s) \/ Drop(o, s) \/ TaskOk(o, s) \/ TaskFail(o, s)

Environment(v) == ForeignLock(v) \/ ForeignUnlock(v) \/ GuestPowerOff(v)

Next ==
    \/ Request
    \/ \E o \in Ops : Advance(o)
    \/ \E w \in Workers, o \in Ops : Prepare(w, o)
    \/ \E w \in Workers : Call(w) \/ Crash(w)
    \/ \E o \in Ops, s \in Steps : Provider(o, s)
    \/ \E v \in Vms : Environment(v)

Spec == Init /\ [][Next]_vars

\* Workers keep polling (run_worker never returns), calls end (every request
\* has a timeout), the provider answers and its tasks end, and a read of the
\* provider does not fail for ever.  No fairness for requests and faults.
Fairness ==
    /\ \A o \in Ops :
          /\ WF_vars(Advance(o) /\ ChoosePlacement(o))
          /\ WF_vars(Advance(o) /\ (PollSucceeded(o) \/ PollFailed(o)))
          /\ WF_vars(Advance(o) /\ ReconcileConfirmed(o))
          /\ WF_vars(Advance(o) /\ ReconcileUnknown(o))
          /\ WF_vars(\E w \in Workers : Prepare(w, o))
          /\ \A s \in Steps : WF_vars(Provider(o, s))
    /\ \A w \in Workers : WF_vars(Call(w))

FairSpec == Spec /\ Fairness

-----------------------------------------------------------------------------
(* Properties *)

\* No command is sent twice: whatever crashes, is lost or times out, and
\* however many workers there are, an operation POSTs each of its steps at
\* most once (the dispatch marker is committed before the call and never
\* turns back to pending for the same step).
AtMostOnePost == \A o \in Ops, s \in Steps : posts[o][s] <= 1

\* The UPID on a row belongs to the step the row is in, so a poll never
\* credits one step with another step's task.
TaskMatchesStep ==
    \A o \in Ops : opTask[o] # "none" => opTask[o] = opStep[o]

\* The same for vm.create alone, where finish_create_vm_dispatch compares the
\* row's phase with the one it dispatched; needs nothing of the grace period.
CreateTaskMatchesStep ==
    \A o \in Ops :
        opType[o] = "create" /\ opTask[o] # "none" => opTask[o] = opStep[o]

\* run_once's WHERE clause and branches leave no row behind: an operation in
\* processing has a task to poll, or a marker to reconcile, or was handed to
\* an operator.
NoStrandedOperation ==
    \A o \in Ops : opStatus[o] = "processing" =>
        opTask[o] # "none" \/ opMark[o] \in {"dispatch", "reconcile", "review"}

\* A VM never boots before its cloud-init and its disk size were applied,
\* even when the answers to configure or resize were lost.
NeverBootsUnconfigured ==
    \A v \in Vms : power[v] = "running" => conf[v] /\ sized[v]

\* Quota is released by `deleted` only when the provider has no VM left and
\* none can still appear from a delayed command.
DeletedIsGone ==
    \A v \in Vms : vmStatus[v] = "deleted" =>
        power[v] = "missing" /\ \A o \in Ops : opVm[o] = v => <<o, "clone">> \notin flight

\* Between operations the portal shows the provider's power state (when
\* guests do not power themselves off).
StatusAgrees ==
    \A v \in Vms :
        (\A o \in Ops : Active(o) => opVm[o] # v) /\ vmStatus[v] \in {"running", "stopped"}
            => power[v] = vmStatus[v]

\* With guests that do power off: a VM shown as stopped, with nothing under
\* way, is not running unnoticed.
NoHiddenRun ==
    \A v \in Vms :
        (\A o \in Ops : Active(o) => opVm[o] # v) /\ vmStatus[v] = "stopped"
            => power[v] = "stopped"

\* A settled operation is never touched again, by no late worker and no poll,
\* and a VM that failed or was deleted keeps that status.
SettledKept ==
    /\ \A o \in Ops : opStatus[o] \in {"succeeded", "failed"} =>
           /\ opStatus'[o] = opStatus[o] /\ opStep'[o] = opStep[o]
           /\ opMark'[o] = opMark[o] /\ opTask'[o] = opTask[o]
    /\ \A v \in Vms : vmStatus[v] \in {"failed", "deleted"} => vmStatus'[v] = vmStatus[v]
FinalStays == [][SettledKept]_vars

\* vm.reboot succeeds only after its own start command did.
RebootEndsStarted ==
    \A o \in Ops : opType[o] = "reboot" /\ opStatus[o] = "succeeded"
        => taskState[o]["start"] = "ok"

\* Every operation settles, or ends in a state where only reads follow.
OperationSettles ==
    \A o \in Ops :
        <>[](\/ opStatus[o] \in {"none", "succeeded", "failed"}
             \/ opStatus[o] = "processing" /\ opMark[o] \in {"reconcile", "review"})

\* A command whose answer was lost but that did complete is noticed: the
\* row does not stay in reconcile_*.
CompletionIsNoticed ==
    \A o \in Ops :
        opMark[o] = "reconcile" /\ taskState[o][opStep[o]] = "ok" ~> opMark[o] # "reconcile"
=============================================================================
