-------------------------- MODULE OperationPromise --------------------------
(***************************************************************************)
(* The operation worker implements VmPromise: rows of `operations` are     *)
(* requests (pending and processing are both open), POSTs are its commands *)
(* and virtual_machines.status is what is shown.                           *)
(***************************************************************************)
EXTENDS OperationWorker

RequestState(o) == IF Active(o) THEN "open" ELSE opStatus[o]

Promise ==
    INSTANCE VmPromise
        WITH Requests <- Ops,
             state <- [o \in Ops |-> RequestState(o)],
             kind <- opType,
             vm <- opVm,
             sent <- posts,
             shown <- vmStatus

\* Whatever crashes, is lost or times out, and however workers interleave,
\* every step of the worker, of the requests and of the provider is a step of
\* VmPromise or none: one open operation for a VM, statuses along the path of
\* that operation, commands once, in order and only under the status that
\* announces them.
PromiseKept == Promise!Spec

-----------------------------------------------------------------------------
(* VmRequests sees the worker only through its commits: WorkerCommits, with *)
(* Outcomes for what one makes of an operation and its VM.  This worker's   *)
(* tables are those of VmRequests as committed; what the requests keep for  *)
(* themselves stands still.                                                 *)

RowState(o) ==
    IF Active(o) THEN "active" ELSE IF opStatus[o] = "none" THEN "absent" ELSE opStatus[o]

VmState(v) ==
    CASE vmStatus[v] = "none"         -> "absent"
      [] vmStatus[v] = "provisioning" -> "pending"
      [] OTHER                        -> vmStatus[v]

tables == <<[o \in Ops |-> RowState(o)], opType, opVm, [v \in Vms |-> VmState(v)]>>

Table ==
    INSTANCE VmRequests
        WITH opState <- [o \in Ops |-> RowState(o)], opType <- opType, opVm <- opVm,
             vmStatus <- [v \in Vms |-> VmState(v)],
             vmLock <- [v \in Vms |-> NoOp], quotaLock <- <<>>, Nobody <- NoOp,
             Requests <- Ops, Seeds <- {}, Users <- {}, Keys <- {}, Asked <- {}, Sizes <- {},
             MaxVms <- 0, MaxTotal <- 0, pc <- <<>>, kind <- <<>>, user <- <<>>, key <- <<>>,
             target <- <<>>, size <- <<>>, result <- <<>>, opKey <- <<>>, vmOwner <- <<>>,
             vmSize <- <<>>, quotaActive <- <<>>

\* What VmRequests takes for granted about the worker holds of it, crashes,
\* timeouts and answers later than the grace period included: whatever changes
\* the tables is a new request or one of the commits WorkerCommits allows.
CommitsAreOutcomes == [][Request \/ \E o \in Ops : Table!WorkerCommits(o)]_tables
=============================================================================
