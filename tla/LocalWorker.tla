----------------------------- MODULE LocalWorker ------------------------------
(***************************************************************************)
(* The operation worker in its default mode: one process that drives a     *)
(* FakeProxmoxAdapter (proxmox/fake.py).  The rows are in the database,    *)
(* but VMs, their power states and tasks are in the memory of the process  *)
(* and are gone when it is restarted.                                      *)
(*                                                                         *)
(* run_once is sequential here, so a command is under way or a transaction *)
(* runs, never both.  The adapter answers at once and raises only for a    *)
(* node or VMID it has not chosen itself, which no row has.  A phase is a  *)
(* mark and a step, as in OperationWorker.                                 *)
(***************************************************************************)
EXTENDS Naturals

CONSTANTS
    Ops, Vms,
    MaxRestarts    \* bound on restarts of the process

ASSUME LocalWorkerAssumption == MaxRestarts \in Nat

Types == {"create", "start", "shutdown", "stop", "reboot", "delete"}
PowerOff == {"shutdown", "stop"}
Commands == {"clone", "configure", "resize", "start", "shutdown", "stop", "delete"}
Tasks == (Commands \ {"configure"}) \X Vms
NoTask == <<"no task">>
NoCall == [at |-> "none"]

VARIABLES
    row,         \* operations
    shown,       \* virtual_machines.status
    placed,      \* VMs with provider_node and provider_vmid
    fake,        \* the FakeProxmoxAdapter
    call,        \* the command between the two transactions
    restarts,
    sent,        \* history: how often a command was called
    cut          \* history: operations without a known result at a restart

vars == <<row, shown, placed, fake, call, restarts, sent, cut>>
history == <<restarts, sent, cut>>

RowType ==
    [type : Types, vm : Vms,
     status : {"none", "pending", "processing", "succeeded"},
     mark : {"plain", "dispatch", "reconcile", "review", "complete"},
     step : Commands, task : Tasks \cup {NoTask}]

TypeOK ==
    /\ row \in [Ops -> RowType]
    /\ shown \in [Vms -> {"none", "pending", "provisioning", "running", "stopped", "deleting", "deleted"}]
    /\ placed \subseteq Vms
    /\ fake \in [created : SUBSET Vms, deleted : SUBSET Vms, tasks : SUBSET Tasks,
                power : [Vms -> {"none", "running", "stopped"}]]
    /\ \/ call = NoCall
       \/ call \in [at : {"send"}, op : Ops, cmd : Commands]
       \/ call \in [at : {"reply"}, op : Ops, cmd : Commands, reply : {"none", "task", "succeeded"}]
    /\ restarts \in 0..MaxRestarts
    /\ sent \in [Ops -> [Commands -> Nat]]
    /\ cut \subseteq Ops

\* FakeProxmoxAdapter.__init__
NewFake ==
    [created |-> {}, deleted |-> {}, tasks |-> {}, power |-> [v \in Vms |-> "none"]]

Init ==
    /\ \E v \in Vms : row = [o \in Ops |-> [type |-> "create", vm |-> v, status |-> "none",
                                           mark |-> "plain", step |-> "clone", task |-> NoTask]]
    /\ shown = [v \in Vms |-> "none"]
    /\ placed = {}
    /\ fake = NewFake
    /\ call = NoCall
    /\ restarts = 0
    /\ sent = [o \in Ops |-> [c \in Commands |-> 0]]
    /\ cut = {}

-----------------------------------------------------------------------------
Active(o) == row[o].status \in {"pending", "processing"}

Set(o, r) == row' = [row EXCEPT ![o] = r]

Show(o, status) == shown' = [shown EXCEPT ![row[o].vm] = status]

\* What a transaction may make of a row r.
Done(r) == [r EXCEPT !.status = "succeeded", !.mark = "complete", !.task = NoTask]
Pending(r, s) == [r EXCEPT !.status = "pending", !.mark = "plain", !.step = s, !.task = NoTask]
Dispatching(r) == [r EXCEPT !.status = "processing", !.mark = "dispatch"]
Awaiting(r, t) == [r EXCEPT !.mark = "plain", !.task = t]

-----------------------------------------------------------------------------
(* Requests (virtual_machines/services.py) *)

CreateVm(o, v) ==
    /\ row[o].status = "none" /\ shown[v] = "none"
    /\ Set(o, [row[o] EXCEPT !.vm = v, !.status = "pending"])
    /\ shown' = [shown EXCEPT ![v] = "pending"]
    /\ UNCHANGED <<placed, fake, call, history>>

FirstStep(t) == IF t = "reboot" THEN "shutdown" ELSE t

Allowed(t) == IF t \in {"start", "delete"} THEN "stopped" ELSE "running"

EnqueueVmOperation(o, v, t) ==
    /\ row[o].status = "none" /\ t # "create"
    /\ shown[v] = Allowed(t)
    /\ \A p \in Ops : Active(p) => row[p].vm # v
    /\ Set(o, [row[o] EXCEPT !.type = t, !.vm = v, !.status = "pending", !.step = FirstStep(t)])
    /\ UNCHANGED <<shown, placed, fake, call, history>>

-----------------------------------------------------------------------------
(* Transaction A of run_once on a pending row *)

Ready(o) == call = NoCall /\ row[o].status = "pending"

\* start_create_vm_operation, first pass, with choose_clone_target.
ChoosePlacement(o) ==
    /\ Ready(o) /\ row[o].step = "clone" /\ row[o].vm \notin placed
    /\ placed' = placed \cup {row[o].vm}
    /\ UNCHANGED <<row, shown, fake, call, history>>

Dispatch(o) ==
    /\ Set(o, Dispatching(row[o]))
    /\ call' = [at |-> "send", op |-> o, cmd |-> row[o].step]
    /\ UNCHANGED <<placed, fake, history>>

PrepareCreate(o) ==
    /\ Ready(o) /\ row[o].type = "create" /\ row[o].vm \in placed
    /\ Dispatch(o)
    /\ UNCHANGED shown

PrepareStart(o) ==
    /\ Ready(o) /\ row[o].type = "start"
    /\ Dispatch(o)
    /\ UNCHANGED shown

\* Mutated: the VM is shown as it was until its deletion is known.
PrepareLifecycleQuietly(o) ==
    /\ Ready(o) /\ row[o].type \in PowerOff \cup {"reboot", "delete"}
    /\ Dispatch(o)
    /\ UNCHANGED shown

PrepareLifecycle(o) ==
    /\ Ready(o) /\ row[o].type \in PowerOff \cup {"reboot", "delete"}
    /\ Dispatch(o)
    /\ IF row[o].type = "delete" THEN Show(o, "deleting") ELSE UNCHANGED shown

-----------------------------------------------------------------------------
(* FakeProxmoxAdapter: a command on VM v with its answer *)

Remember(c, v, f) == [f EXCEPT !.tasks = @ \cup {<<c, v>>}]

clone_vm(v) ==
    Remember("clone", v, [fake EXCEPT !.created = @ \cup {v}, !.power[v] = "stopped"])

start_vm(v) == Remember("start", v, [fake EXCEPT !.power[v] = "running"])

\* shutdown_vm, stop_vm
power_off(c, v) == Remember(c, v, [fake EXCEPT !.power[v] = "stopped"])

delete_vm(v) ==
    Remember("delete", v,
             [fake EXCEPT !.deleted = @ \cup {v}, !.created = @ \ {v}, !.power[v] = "none"])

\* configure_vm has no task; a second deletion has nothing to do.
Answer(c, v) ==
    IF c = "configure" THEN "none"
    ELSE IF c = "delete" /\ v \in fake.deleted THEN "succeeded" ELSE "task"

Command ==
    /\ call # NoCall /\ call.at = "send"
    /\ LET v == row[call.op].vm
           c == call.cmd
       IN  /\ fake' = CASE c = "clone"     -> clone_vm(v)
                        [] c = "configure" -> fake
                        [] c = "resize"    -> Remember("resize", v, fake)
                        [] c = "start"     -> start_vm(v)
                        [] c \in PowerOff  -> power_off(c, v)
                        [] c = "delete" /\ v \in fake.deleted    -> fake
                        [] c = "delete" /\ v \notin fake.deleted -> delete_vm(v)
           /\ call' = [at |-> "reply", op |-> call.op, cmd |-> c, reply |-> Answer(c, v)]
    /\ sent' = [sent EXCEPT ![call.op][call.cmd] = @ + 1]
    /\ UNCHANGED <<row, shown, placed, restarts, cut>>

\* Mutated: only tasks of this process are known.
KnownHere(t) == t \in fake.tasks

\* get_task_status: a task of this process, or an id such a process would have
\* made; it has always succeeded.  For any other id it raises.
Known(t) == t \in fake.tasks \/ t \in Tasks

\* Mutated: a VM nobody has heard of is taken to be stopped.
get_vm_power_state_default(v) ==
    IF v \in fake.deleted THEN "missing"
    ELSE IF fake.power[v] = "none" THEN "stopped" ELSE fake.power[v]

get_vm_power_state(v) ==
    IF v \in fake.deleted \/ (v \notin fake.created /\ fake.power[v] = "none") THEN "missing"
    ELSE fake.power[v]

-----------------------------------------------------------------------------
(* Transaction B: finish_*_dispatch *)

Answered(o) == call # NoCall /\ call.at = "reply" /\ call.op = o

Finish(o) ==
    /\ call' = NoCall
    /\ UNCHANGED <<placed, fake, history>>

FinishCreate(o) ==
    /\ Answered(o) /\ row[o].type = "create"
    /\ IF call.reply = "task"
       THEN Set(o, Awaiting(row[o], <<call.cmd, row[o].vm>>))
       ELSE Set(o, Pending(row[o], "resize"))
    /\ IF call.cmd = "clone" THEN Show(o, "provisioning") ELSE UNCHANGED shown
    /\ Finish(o)

FinishStart(o) ==
    /\ Answered(o) /\ row[o].type = "start"
    /\ Set(o, Awaiting(row[o], <<"start", row[o].vm>>))
    /\ UNCHANGED shown
    /\ Finish(o)

FinishLifecycle(o) ==
    /\ Answered(o) /\ row[o].type \in PowerOff \cup {"reboot", "delete"}
    /\ IF call.reply = "task"
       THEN Set(o, Awaiting(row[o], <<call.cmd, row[o].vm>>)) /\ UNCHANGED shown
       ELSE Set(o, Done(row[o])) /\ Show(o, "deleted")
    /\ Finish(o)

\* The transaction cannot be committed: the row keeps its marker, the fake
\* what it has done.
LoseResult ==
    /\ call # NoCall /\ call.at = "reply"
    /\ call' = NoCall
    /\ UNCHANGED <<row, shown, placed, fake, history>>

-----------------------------------------------------------------------------
(* Transaction A on a row with a task *)

Polled(o) ==
    /\ call = NoCall /\ row[o].status = "processing"
    /\ row[o].task # NoTask /\ Known(row[o].task)

AfterCreate == [clone |-> "configure", configure |-> "resize", resize |-> "start"]

RefreshCreate(o) ==
    /\ Polled(o) /\ row[o].type = "create"
    /\ IF row[o].step = "start"
       THEN Set(o, Done(row[o])) /\ Show(o, "running")
       ELSE Set(o, Pending(row[o], AfterCreate[row[o].step])) /\ UNCHANGED shown
    /\ UNCHANGED <<placed, fake, call, history>>

PollStart(o) ==
    /\ Polled(o) /\ row[o].type = "start"
    /\ Set(o, Done(row[o])) /\ Show(o, "running")
    /\ UNCHANGED <<placed, fake, call, history>>

PollPowerOff(o) ==
    /\ Polled(o) /\ row[o].type \in PowerOff
    /\ Set(o, Done(row[o])) /\ Show(o, "stopped")
    /\ UNCHANGED <<placed, fake, call, history>>

PollReboot(o) ==
    /\ Polled(o) /\ row[o].type = "reboot"
    /\ IF row[o].step = "shutdown"
       THEN Set(o, Pending(row[o], "start")) /\ Show(o, "stopped")
       ELSE Set(o, Done(row[o])) /\ Show(o, "running")
    /\ UNCHANGED <<placed, fake, call, history>>

PollDelete(o) ==
    /\ Polled(o) /\ row[o].type = "delete"
    /\ Set(o, Done(row[o])) /\ Show(o, "deleted")
    /\ UNCHANGED <<placed, fake, call, history>>

-----------------------------------------------------------------------------
(* Transaction A on a row whose command was cut off *)

Unanswered(o) ==
    row[o].status = "processing" /\ row[o].task = NoTask /\ row[o].mark \in {"dispatch", "reconcile"}

Cut(o) == call = NoCall /\ Unanswered(o)

PowerState(o) == get_vm_power_state(row[o].vm)

Unproved(o, mark) == Set(o, [row[o] EXCEPT !.mark = mark]) /\ UNCHANGED shown

ReconcileCreate(o) ==
    /\ Cut(o) /\ row[o].type = "create"
    /\ CASE row[o].step = "clone" /\ PowerState(o) = "stopped" ->
               Set(o, Pending(row[o], "configure")) /\ Show(o, "provisioning")
         [] row[o].step = "start" /\ PowerState(o) = "running" ->
               Set(o, Done(row[o])) /\ Show(o, "running")
         [] row[o].step \in {"configure", "resize"} -> Unproved(o, "review")
         [] OTHER -> Unproved(o, "reconcile")
    /\ UNCHANGED <<placed, fake, call, history>>

ReconcileStart(o) ==
    /\ Cut(o) /\ row[o].type = "start"
    /\ IF PowerState(o) = "running"
       THEN Set(o, Done(row[o])) /\ Show(o, "running")
       ELSE Unproved(o, "reconcile")
    /\ UNCHANGED <<placed, fake, call, history>>

ReconcileLifecycle(o) ==
    /\ Cut(o) /\ row[o].type \in PowerOff \cup {"reboot", "delete"}
    /\ CASE row[o].type = "delete" /\ PowerState(o) = "missing" ->
               Set(o, Done(row[o])) /\ Show(o, "deleted")
         [] row[o].type \in PowerOff /\ PowerState(o) = "stopped" ->
               Set(o, Done(row[o])) /\ Show(o, "stopped")
         [] row[o].type = "reboot" /\ row[o].step = "shutdown" /\ PowerState(o) = "stopped" ->
               Set(o, Pending(row[o], "start")) /\ Show(o, "stopped")
         [] row[o].type = "reboot" /\ row[o].step = "start" /\ PowerState(o) = "running" ->
               Set(o, Done(row[o])) /\ Show(o, "running")
         [] OTHER -> Unproved(o, "reconcile")
    /\ UNCHANGED <<placed, fake, call, history>>

\* The process ends and is started again, with a new fake.
Restart ==
    /\ restarts < MaxRestarts
    /\ restarts' = restarts + 1
    /\ fake' = NewFake
    /\ call' = NoCall
    /\ cut' = cut \cup {o \in Ops : Unanswered(o)}
    /\ UNCHANGED <<row, shown, placed, sent>>

-----------------------------------------------------------------------------
RunOnce(o) ==
    \/ ChoosePlacement(o) \/ PrepareCreate(o) \/ PrepareStart(o) \/ PrepareLifecycle(o)
    \/ FinishCreate(o) \/ FinishStart(o) \/ FinishLifecycle(o)
    \/ RefreshCreate(o) \/ PollStart(o) \/ PollPowerOff(o) \/ PollReboot(o) \/ PollDelete(o)
    \/ ReconcileCreate(o) \/ ReconcileStart(o) \/ ReconcileLifecycle(o)

Next ==
    \/ \E o \in Ops :
          \/ RunOnce(o)
          \/ \E v \in Vms : CreateVm(o, v) \/ \E t \in Types : EnqueueVmOperation(o, v, t)
    \/ Command \/ LoseResult \/ Restart

Spec == Init /\ [][Next]_vars

\* run_worker never returns, takes the row that was touched least recently and
\* calls the adapter without a pause; restarts, requests and lost results are
\* not owed.
FairSpec == Spec /\ WF_vars(Command) /\ \A o \in Ops : WF_vars(RunOnce(o))

-----------------------------------------------------------------------------
(* Properties *)

\* A command whose result was unknown at a restart is never taken for done: the new
\* fake has not heard of the VM and says "missing" (get_vm_power_state), which
\* proves nothing but a deletion.
ForgottenIsNotConfirmed ==
    \A o \in cut : row[o].type # "delete" => Active(o)

\* An operation succeeds unless a command of it had no known result at a restart
\* or it waits for an operator; a task saved before a restart is known after it
\* (get_task_status falls back on the id).
Settles ==
    \A o \in Ops : Active(o) ~> row[o].status = "succeeded" \/ o \in cut \/ row[o].mark = "review"

\* The local mode keeps the promise of the portal too.
Promise ==
    INSTANCE VmPromise
        WITH Requests <- Ops,
             state <- [o \in Ops |-> IF Active(o) THEN "open" ELSE row[o].status],
             kind <- [o \in Ops |-> row[o].type],
             vm <- [o \in Ops |-> row[o].vm]

\* Restarts and lost results included, every step of the local worker is a step
\* of VmPromise or none (run_once, prepare_*_dispatch, finish_*_dispatch).
PromiseKept == Promise!Spec
=============================================================================
