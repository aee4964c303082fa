------------------------------ MODULE VmPromise ------------------------------
(***************************************************************************)
(* What the portal promises about the operations it accepts, said without  *)
(* workers, phases, tasks, markers or faults: a VM has one open operation  *)
(* at a time, the status it shows goes along that operation's path and     *)
(* back on no other, and a command reaches the provider at most once, in   *)
(* the order of the plan and while the VM shows that it is under way.      *)
(* OperationPromise shows that the operation worker keeps this.            *)
(***************************************************************************)
EXTENDS Naturals, Sequences

CONSTANTS Requests, Vms

VARIABLES
    state,         \* of a request
    kind, vm,      \* what it asks for
    sent,          \* how often each command was sent for it
    shown          \* the status of a VM

vars == <<state, kind, vm, sent, shown>>

\* The statuses an operation leads through: from the one it is accepted in to
\* the one in which it has succeeded.
Path ==
    [create   |-> <<"pending", "provisioning", "running">>,
     start    |-> <<"stopped", "running">>,
     shutdown |-> <<"running", "stopped">>,
     stop     |-> <<"running", "stopped">>,
     reboot   |-> <<"running", "stopped", "running">>,
     delete   |-> <<"stopped", "deleting", "deleted">>]

\* Its commands, in order, each with the place on the path it belongs to.
Plan ==
    [create   |-> << <<"clone", 1>>, <<"configure", 2>>, <<"resize", 2>>, <<"start", 2>> >>,
     start    |-> << <<"start", 1>> >>,
     shutdown |-> << <<"shutdown", 1>> >>,
     stop     |-> << <<"stop", 1>> >>,
     reboot   |-> << <<"shutdown", 1>>, <<"start", 2>> >>,
     delete   |-> << <<"delete", 2>> >>]

Commands == {"clone", "configure", "resize", "start", "shutdown", "stop", "delete"}

Init ==
    /\ state = [r \in Requests |-> "none"]
    /\ kind \in [Requests -> DOMAIN Path]
    /\ vm \in [Requests -> Vms]
    /\ sent = [r \in Requests |-> [c \in Commands |-> 0]]
    /\ shown = [v \in Vms |-> "none"]

-----------------------------------------------------------------------------
Open(v) == {r \in Requests : state[r] = "open" /\ vm[r] = v}

\* An operation is accepted on a VM that has none and shows the right status;
\* a creation makes the VM.
Ask(r, v, k) ==
    /\ state[r] = "none" /\ Open(v) = {}
    /\ shown[v] = IF k = "create" THEN "none" ELSE Path[k][1]
    /\ state' = [state EXCEPT ![r] = "open"]
    /\ kind' = [kind EXCEPT ![r] = k]
    /\ vm' = [vm EXCEPT ![r] = v]
    /\ shown' = [shown EXCEPT ![v] = Path[k][1]]
    /\ UNCHANGED sent

\* Command i of the plan: once, and none of a later place was sent.
Send(r, i) ==
    LET plan == Plan[kind[r]] IN
    /\ state[r] = "open"
    /\ shown[vm[r]] = Path[kind[r]][plan[i][2]]
    /\ \A j \in i..Len(plan) : sent[r][plan[j][1]] = 0
    /\ sent' = [sent EXCEPT ![r][plan[i][1]] = 1]
    /\ UNCHANGED <<state, kind, vm, shown>>

\* The VM shows place i + 1 of the path, its end only together with success.
Advance(r, i) ==
    LET path == Path[kind[r]] IN
    /\ state[r] = "open"
    /\ shown[vm[r]] = path[i]
    /\ shown' = [shown EXCEPT ![vm[r]] = path[i + 1]]
    /\ state' = IF i + 1 = Len(path) THEN [state EXCEPT ![r] = "succeeded"] ELSE state
    /\ UNCHANGED <<kind, vm, sent>>

\* A failure is final; only a creation changes the status for it.
Fail(r) ==
    /\ state[r] = "open"
    /\ state' = [state EXCEPT ![r] = "failed"]
    /\ shown' = IF kind[r] = "create" THEN [shown EXCEPT ![vm[r]] = "failed"] ELSE shown
    /\ UNCHANGED <<kind, vm, sent>>

Next ==
    \E r \in Requests :
        \/ \E v \in Vms, k \in DOMAIN Path : Ask(r, v, k)
        \/ \E i \in 1..Len(Plan[kind[r]]) : Send(r, i)
        \/ \E i \in 1..(Len(Path[kind[r]]) - 1) : Advance(r, i)
        \/ Fail(r)

Spec == Init /\ [][Next]_vars
=============================================================================
