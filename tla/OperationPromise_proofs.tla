---------------------- MODULE OperationPromise_proofs ----------------------
(***************************************************************************)
(* Theorems about OperationWorker, with any number of operations, VMs and  *)
(* workers and any set of faults.                                          *)
(*                                                                         *)
(* Commands of any length (up to "Calls own their rows"): types, commands  *)
(* are sent once, no row is stranded, settled rows stay.                   *)
(*                                                                         *)
(* The rest needs that no provider call outlives the grace period after    *)
(* which a worker takes it for cut off.  The promise: then the row of a    *)
(* call is as the call left it (CallOwn), a row has only the steps of its  *)
(* type (StepFits) and its VM shows the status that belongs to that step   *)
(* (ShownInv).  With these every step has one of nine effects on what      *)
(* VmPromise sees, and each effect is a step of VmPromise or none.         *)
(*                                                                         *)
(* The provider (from "The rows and the provider" on): deleted VMs are     *)
(* gone, none boots before it is configured, and a VM at rest is as it is  *)
(* shown.  The two are apart while a command is under way.  It is the one  *)
(* of the step its operation is in (NoStray), except a shutdown or stop    *)
(* that a guest forestalled; it still has its effect before it (Ahead);    *)
(* and an answer or a finished task means that the effect is there         *)
(* (StepKnows, AnswerKnows).  So the end of a step never misses the        *)
(* provider.                                                               *)
(***************************************************************************)
EXTENDS OperationPromise, Sequences, TLAPS

-----------------------------------------------------------------------------
(* What the helpers return *)

LEMMA NextStepType ==
    ASSUME NEW t \in Types, NEW s \in Steps
    PROVE  NextStep(t, s) \in Steps \cup {"none"}
  BY DEF NextStep, Steps

LEMMA VmAfterType ==
    ASSUME NEW s \in Steps, NEW v \in VmStatus
    PROVE  VmAfter(s, v) \in VmStatus
  BY DEF VmAfter, VmStatus

LEMMA Step1Type ==
    ASSUME NEW t \in Types
    PROVE  Step1[t] \in Steps
  BY DEF Step1, Types, Steps

LEMMA ProbeOutcomeType ==
    ASSUME NEW s, NEW p, NEW l, NEW fits
    PROVE  ProbeOutcome(s, p, l, fits) \in Replies \cup {"post"}
  BY DEF ProbeOutcome, CloneOutcome, ConfigureOutcome, ResizeOutcome, PowerOutcome,
         DeleteOutcome, Replies

LEMMA PowerAfterType ==
    ASSUME NEW s \in Steps, NEW p \in {"missing", "stopped", "running"}
    PROVE  PowerAfter(s, p) \in {"missing", "stopped", "running"}
  BY DEF PowerAfter

\* StepDone keeps the types of the columns it writes.
LEMMA StepDoneType ==
    ASSUME TypeOK, NEW o \in Ops, StepDone(o)
    PROVE  /\ opStatus' \in [Ops -> OpStatus]
           /\ opStep' \in [Ops -> Steps]
           /\ opMark' \in [Ops -> Marks]
           /\ opTask' \in [Ops -> Steps \cup {"none"}]
           /\ opType' \in [Ops -> Types] /\ opVm' \in [Ops -> Vms]
  <1>1. NextStep(opType[o], opStep[o]) \in Steps \cup {"none"}
    BY NextStepType DEF TypeOK
  <1>2. QED
    BY <1>1 DEF StepDone, TypeOK, OpStatus, Marks

-----------------------------------------------------------------------------
(* Type correctness *)

LEMMA TypeInit == Init => TypeOK
  BY DEF Init, TypeOK, OpStatus, Types, Steps, Marks, VmStatus, Replies

LEMMA TypeRequest == TypeOK /\ Request => TypeOK'
  <1>1. ASSUME TypeOK, NEW o \in Ops, NEW v \in Vms, CreateVm(o, v) PROVE TypeOK'
    BY <1>1 DEF CreateVm, TypeOK, OpStatus, Types, Steps, VmStatus, calls, prov
  <1>2. ASSUME TypeOK, NEW o \in Ops, NEW v \in Vms, NEW t \in Types,
               EnqueueVmOperation(o, v, t)
        PROVE  TypeOK'
    BY <1>2, Step1Type DEF EnqueueVmOperation, TypeOK, OpStatus, calls, prov
  <1>3. QED
    BY <1>1, <1>2 DEF Request

LEMMA TypeAdvance == ASSUME TypeOK, NEW o \in Ops, Advance(o) PROVE TypeOK'
  <1>1. CASE ChoosePlacement(o)
    BY <1>1 DEF ChoosePlacement, TypeOK, opRows, calls, prov
  <1>2. CASE PollRunning(o)
    BY <1>2 DEF PollRunning, SetMark, MarkAfterPoll, TypeOK, Marks, calls, prov
  <1>3. CASE PollError(o)
    BY <1>3 DEF PollError, SetMark, TypeOK, Marks, calls, prov
  <1>4. CASE PollSucceeded(o)
    <2>1. VmAfter(opStep[o], vmStatus[opVm[o]]) \in VmStatus /\ vmStatus[opVm[o]] \in VmStatus
      BY VmAfterType DEF TypeOK
    <2>2. vmStatus' \in [Vms -> VmStatus]
      BY <1>4, <2>1 DEF PollSucceeded, SetVm, TypeOK
    <2>3. StepDone(o)
      BY <1>4 DEF PollSucceeded
    <2>4. QED
      BY <1>4, <2>2, <2>3, StepDoneType DEF PollSucceeded, TypeOK, calls, prov
  <1>5. CASE PollFailed(o)
    BY <1>5 DEF PollFailed, SetVm, TypeOK, Marks, OpStatus, VmStatus, calls, prov
  <1>6. CASE ReconcileConfirmed(o)
    <2>1. VmAfter(opStep[o], vmStatus[opVm[o]]) \in VmStatus
      BY VmAfterType DEF TypeOK
    <2>2. vmStatus' \in [Vms -> VmStatus]
      BY <1>6, <2>1 DEF ReconcileConfirmed, SetVm, TypeOK
    <2>3. StepDone(o)
      BY <1>6 DEF ReconcileConfirmed
    <2>4. QED
      BY <1>6, <2>2, <2>3, StepDoneType DEF ReconcileConfirmed, TypeOK, calls, prov
  <1>7. CASE ReconcileUnknown(o)
    BY <1>7 DEF ReconcileUnknown, SetMark, TypeOK, Marks, calls, prov
  <1>8. QED
    BY <1>1, <1>2, <1>3, <1>4, <1>5, <1>6, <1>7 DEF Advance

LEMMA TypePrepare ==
    ASSUME TypeOK, NEW w \in Workers, NEW o \in Ops, Prepare(w, o) PROVE TypeOK'
  BY DEF Prepare, TypeOK, OpStatus, Marks, VmStatus, prov

\* A call that is under way names an operation.
LEMMA CallHasOp ==
    ASSUME TypeOK, NEW w \in Workers, wAt[w] # "idle"
    PROVE  wOp[w] \in Ops /\ wStep[w] \in Steps /\ opVm[wOp[w]] \in Vms
  BY DEF TypeOK

\* Hanging up keeps the types of a worker's call.
LEMMA HangUpType ==
    ASSUME TypeOK, NEW w \in Workers, HangUp(w)
    PROVE  /\ wAt' \in [Workers -> {"idle", "probe", "post", "sent", "reply"}]
           /\ wOp' \in [Workers -> Ops \cup {NoOp}]
           /\ \A x \in Workers : wAt'[x] # "idle" => wOp'[x] \in Ops
           /\ wStep' \in [Workers -> Steps]
           /\ wReply' \in [Workers -> Replies]
  BY DEF HangUp, TypeOK, Steps, Replies

LEMMA TypeCall == ASSUME TypeOK, NEW w \in Workers, Call(w) \/ Crash(w) PROVE TypeOK'
  <1>1. CASE Probe(w)
    <2> DEFINE r == ProbeOutcome(wStep[w], power[opVm[wOp[w]]], lock[opVm[wOp[w]]],
                                 sized[opVm[wOp[w]]])
    <2>1. r \in Replies \cup {"post"}
      BY ProbeOutcomeType
    <2>2. /\ wAt' = [wAt EXCEPT ![w] = IF r = "post" THEN "post" ELSE "reply"]
          /\ wReply' = IF r = "post" THEN wReply ELSE [wReply EXCEPT ![w] = r]
          /\ UNCHANGED <<rows, wOp, wStep, prov, posts>>
          /\ wAt[w] = "probe"
      BY <1>1 DEF Probe
    <2> HIDE DEF r
    <2>3. QED
      BY <2>1, <2>2 DEF TypeOK, rows, opRows, prov
  <1>2. CASE Post(w)
    <2>1. wOp[w] \in Ops /\ wStep[w] \in Steps
      BY <1>2, CallHasOp DEF Post
    <2>2. flight' \subseteq Ops \X Steps
      BY <1>2, <2>1 DEF Post, TypeOK
    <2>3. posts' \in [Ops -> [Steps -> Nat]]
      BY <1>2, <2>1 DEF Post, TypeOK
    <2>4. wAt' \in [Workers -> {"idle", "probe", "post", "sent", "reply"}]
          /\ \A x \in Workers : wAt'[x] # "idle" => wOp'[x] \in Ops
      BY <1>2, <2>1 DEF Post, TypeOK
    <2>5. QED
      BY <1>2, <2>2, <2>3, <2>4 DEF Post, TypeOK, rows, opRows
  <1>3. CASE Receive(w)
    <2>1. PICK r \in Replies : wReply' = [wReply EXCEPT ![w] = r]
      BY <1>3 DEF Receive, Replies
    <2>2. QED
      BY <1>3, <2>1 DEF Receive, TypeOK, rows, opRows, prov
  <1>4. CASE CallFails(w)
    BY <1>4 DEF CallFails, TypeOK, Replies, rows, opRows, prov
  <1>5. CASE Crash(w)
    BY <1>5, HangUpType DEF Crash, TypeOK, rows, opRows, prov
  <1>6. CASE StoreRefused(w)
    BY <1>6, HangUpType DEF StoreRefused, TypeOK, rows, opRows, prov
  <1>7. CASE StoreUnknown(w)
    <2>1. wOp[w] \in Ops
      BY <1>7, CallHasOp DEF StoreUnknown
    <2>2. QED
      BY <1>7, <2>1, HangUpType DEF StoreUnknown, SetMark, TypeOK, Marks, prov
  <1>8. CASE StoreTask(w)
    <2>1. wOp[w] \in Ops /\ wStep[w] \in Steps /\ opVm[wOp[w]] \in Vms
      BY <1>8, CallHasOp DEF StoreTask
    <2>2. QED
      BY <1>8, <2>1, HangUpType DEF StoreTask, SetVm, TypeOK, Marks, VmStatus, prov
  <1>9. CASE StoreInProgress(w)
    <2>1. wOp[w] \in Ops /\ opVm[wOp[w]] \in Vms
      BY <1>9, CallHasOp DEF StoreInProgress
    <2>2. QED
      BY <1>9, <2>1, HangUpType DEF StoreInProgress, SetMark, SetVm, TypeOK, Marks, VmStatus, prov
  <1>10. CASE StoreDone(w)
    <2>1. wOp[w] \in Ops /\ opVm[wOp[w]] \in Vms
      BY <1>10, CallHasOp DEF StoreDone
    <2>2. VmAfter(opStep[wOp[w]], vmStatus[opVm[wOp[w]]]) \in VmStatus
      BY <2>1, VmAfterType DEF TypeOK
    <2>3. vmStatus' \in [Vms -> VmStatus]
      BY <1>10, <2>1, <2>2 DEF StoreDone, SetVm, TypeOK
    <2>4. StepDone(wOp[w]) /\ HangUp(w)
      BY <1>10 DEF StoreDone
    <2>5. QED
      BY <1>10, <2>1, <2>3, <2>4, HangUpType, StepDoneType DEF StoreDone, TypeOK, prov
  <1>11. QED
    BY <1>1, <1>2, <1>3, <1>4, <1>5, <1>6, <1>7, <1>8, <1>9, <1>10 DEF Call

LEMMA TypeProvider ==
    ASSUME TypeOK, NEW o \in Ops, NEW s \in Steps, Provider(o, s) PROVE TypeOK'
  <1>1. CASE Accept(o, s)
    <2>1. PICK t \in {"running", "ok"} :
              /\ taskState' = [taskState EXCEPT ![o][s] = t]
              /\ conf' = [conf EXCEPT ![opVm[o]] = @ \/ t = "ok"]
      BY <1>1 DEF Accept
    <2>2. opVm[o] \in Vms
      BY DEF TypeOK
    <2>3. taskState' \in [Ops -> [Steps -> {"none", "running", "ok", "failed"}]]
      BY <2>1 DEF TypeOK
    <2>4. conf' \in [Vms -> BOOLEAN]
      <3>1. (conf[opVm[o]] \/ t = "ok") \in BOOLEAN
        OBVIOUS
      <3>2. QED
        BY <2>1, <2>2, <3>1, Zenon DEF TypeOK
    <2>5. /\ power' \in [Vms -> {"missing", "stopped", "running"}]
          /\ lock' \in [Vms -> {"none", "clone", "other"}]
          /\ sized' \in [Vms -> BOOLEAN]
      <3>1. CASE s = "clone"
        <4>1. PICK fits \in BOOLEAN : sized' = [sized EXCEPT ![opVm[o]] = fits]
          BY <1>1, <3>1 DEF Accept
        <4>2. sized' \in [Vms -> BOOLEAN]
          BY <4>1, <2>2, Zenon DEF TypeOK
        <4>3. QED
          BY <1>1, <3>1, <2>2, <4>2 DEF Accept, TypeOK
      <3>2. CASE s # "clone"
        BY <1>1, <3>2 DEF Accept, TypeOK
      <3>3. QED
        BY <3>1, <3>2
    <2>6. flight' \subseteq Ops \X Steps /\ UNCHANGED <<rows, calls, posts>>
      BY <1>1 DEF Accept, TypeOK
    <2>7. QED
      BY <2>3, <2>4, <2>5, <2>6 DEF TypeOK, rows, opRows, calls
  <1>2. CASE Drop(o, s)
    BY <1>2 DEF Drop, TypeOK, rows, opRows, calls
  <1>3. CASE TaskOk(o, s)
    <2>1. opVm[o] \in Vms /\ PowerAfter(s, power[opVm[o]]) \in {"missing", "stopped", "running"}
      BY PowerAfterType DEF TypeOK
    <2>2. power' \in [Vms -> {"missing", "stopped", "running"}]
      BY <1>3, <2>1 DEF TaskOk, TypeOK
    <2>3. /\ taskState' \in [Ops -> [Steps -> {"none", "running", "ok", "failed"}]]
          /\ lock' \in [Vms -> {"none", "clone", "other"}]
          /\ conf' \in [Vms -> BOOLEAN] /\ sized' \in [Vms -> BOOLEAN]
      BY <1>3, <2>1 DEF TaskOk, TypeOK
    <2>4. UNCHANGED <<rows, calls, flight, posts>>
      BY <1>3 DEF TaskOk
    <2>5. QED
      BY <2>2, <2>3, <2>4 DEF TypeOK, rows, opRows, calls
  <1>4. CASE TaskFail(o, s)
    BY <1>4 DEF TaskFail, TypeOK, rows, opRows, calls
  <1>5. QED
    BY <1>1, <1>2, <1>3, <1>4 DEF Provider

LEMMA TypeEnvironment == ASSUME TypeOK, NEW v \in Vms, Environment(v) PROVE TypeOK'
  <1>1. CASE ForeignLock(v)
    BY <1>1 DEF ForeignLock, TypeOK, rows, opRows, calls
  <1>2. CASE ForeignUnlock(v)
    BY <1>2 DEF ForeignUnlock, TypeOK, rows, opRows, calls
  <1>3. CASE GuestPowerOff(v)
    BY <1>3 DEF GuestPowerOff, TypeOK, rows, opRows, calls
  <1>4. QED
    BY <1>1, <1>2, <1>3 DEF Environment

LEMMA TypeStep == TypeOK /\ [Next]_vars => TypeOK'
  <1>1. CASE UNCHANGED vars
    BY <1>1 DEF vars, rows, opRows, calls, prov, TypeOK
  <1>2. QED
    BY <1>1, TypeRequest, TypeAdvance, TypePrepare, TypeCall, TypeProvider, TypeEnvironment DEF Next

\* Every column and every external variable keeps to its values.
THEOREM TypeCorrect == Spec => []TypeOK
  BY TypeInit, TypeStep, PTL DEF Spec

-----------------------------------------------------------------------------
(* At most one POST for a step *)

\* Every operation goes through steps of growing rank.
Rank == [clone |-> 1, configure |-> 2, resize |-> 3, shutdown |-> 3, stop |-> 3,
         delete |-> 3, start |-> 4]

\* Row o can no longer prepare step s: it has taken it up, or is past it.
Behind(o, s) ==
    /\ Rank[s] <= Rank[opStep[o]]
    /\ opStatus[o] = "pending" => Rank[s] < Rank[opStep[o]]

NoTrace ==
    \A o \in Ops : opStatus[o] = "none" =>
        /\ \A s \in Steps : posts[o][s] = 0
        /\ \A w \in Workers : wAt[w] # "idle" => wOp[w] # o

PostedBehind == \A o \in Ops, s \in Steps : posts[o][s] # 0 => Behind(o, s)

CallBehind == \A w \in Workers : wAt[w] # "idle" => Behind(wOp[w], wStep[w])

NotPostedYet ==
    \A w \in Workers : wAt[w] \in {"probe", "post"} => posts[wOp[w]][wStep[w]] = 0

OneCallPerStep ==
    \A w, x \in Workers :
        w # x /\ wAt[w] # "idle" /\ wAt[x] # "idle" /\ wOp[w] = wOp[x] => wStep[w] # wStep[x]

PostInv ==
    /\ NoTrace /\ PostedBehind /\ CallBehind /\ NotPostedYet /\ OneCallPerStep
    /\ AtMostOnePost

\* What most steps do: no row falls back, and calls only go on or end.
RowsKeep ==
    \A o \in Ops :
        /\ opStatus'[o] = "none" => opStatus[o] = "none"
        /\ \A s \in Steps : Behind(o, s) => Behind(o, s)'

CallsKeep ==
    \A w \in Workers : wAt'[w] # "idle" =>
        /\ wAt[w] # "idle" /\ wOp'[w] = wOp[w] /\ wStep'[w] = wStep[w]
        /\ wAt'[w] \in {"probe", "post"} => wAt[w] \in {"probe", "post"}

LEMMA RankType == \A s \in Steps : Rank[s] \in Nat
  BY DEF Rank, Steps

LEMMA NextStepRank ==
    ASSUME NEW t \in Types, NEW s \in Steps, NextStep(t, s) # "none"
    PROVE  Rank[s] < Rank[NextStep(t, s)]
  <1>1. CASE t = "create" /\ s = "clone"
    <2>1. NextStep(t, s) = "configure"
      BY <1>1 DEF NextStep
    <2>2. QED
      BY <1>1, <2>1 DEF Rank
  <1>2. CASE t = "create" /\ s = "configure"
    <2>1. NextStep(t, s) = "resize"
      BY <1>2 DEF NextStep
    <2>2. QED
      BY <1>2, <2>1 DEF Rank
  <1>3. CASE t = "create" /\ s = "resize"
    <2>1. NextStep(t, s) = "start"
      BY <1>3 DEF NextStep
    <2>2. QED
      BY <1>3, <2>1 DEF Rank
  <1>4. CASE t = "reboot" /\ s = "shutdown"
    <2>1. NextStep(t, s) = "start"
      BY <1>4 DEF NextStep
    <2>2. QED
      BY <1>4, <2>1 DEF Rank
  <1>5. QED
    BY <1>1, <1>2, <1>3, <1>4 DEF NextStep

LEMMA SameRowsKeep == UNCHANGED <<opStatus, opStep>> => RowsKeep
  BY DEF RowsKeep, Behind

LEMMA SameCallsKeep == UNCHANGED calls => CallsKeep
  BY DEF CallsKeep, calls

LEMMA HangUpKeeps == ASSUME TypeOK, NEW w \in Workers, HangUp(w) PROVE CallsKeep
  BY DEF HangUp, CallsKeep, TypeOK

\* Finishing a step moves its row to a step of higher rank, or ends it.
LEMMA StepDoneKeeps == ASSUME TypeOK, NEW o \in Ops, StepDone(o) PROVE RowsKeep
  <1> DEFINE n == NextStep(opType[o], opStep[o])
  <1>1. n \in Steps \cup {"none"} /\ (n # "none" => Rank[opStep[o]] < Rank[n])
    BY NextStepType, NextStepRank DEF TypeOK
  <1>2. /\ opStatus' = [opStatus EXCEPT ![o] = IF n = "none" THEN "succeeded" ELSE "pending"]
        /\ opStep' = [opStep EXCEPT ![o] = IF n = "none" THEN @ ELSE n]
    BY DEF StepDone
  <1> HIDE DEF n
  <1>3. SUFFICES ASSUME NEW p \in Ops
                 PROVE  /\ opStatus'[p] = "none" => opStatus[p] = "none"
                        /\ \A s \in Steps : Behind(p, s) => Behind(p, s)'
    BY DEF RowsKeep
  <1>4. CASE p # o
    BY <1>2, <1>4 DEF Behind, TypeOK
  <1>5. CASE p = o /\ n = "none"
    BY <1>2, <1>5 DEF Behind, TypeOK
  <1>6. CASE p = o /\ n # "none"
    BY <1>1, <1>2, <1>6, RankType DEF Behind, TypeOK
  <1>7. QED
    BY <1>4, <1>5, <1>6

\* A step that keeps rows, calls and posts in this sense keeps the invariant.
LEMMA KeepPostInv ==
    ASSUME TypeOK, TypeOK', PostInv, RowsKeep, CallsKeep, UNCHANGED posts
    PROVE  PostInv'
  <1>1. NoTrace'
    BY DEF PostInv, NoTrace, RowsKeep, CallsKeep
  <1>2. PostedBehind'
    BY DEF PostInv, PostedBehind, RowsKeep
  <1>3. CallBehind'
    BY DEF PostInv, CallBehind, RowsKeep, CallsKeep, TypeOK
  <1>4. NotPostedYet'
    BY DEF PostInv, NotPostedYet, CallsKeep
  <1>5. OneCallPerStep'
    BY DEF PostInv, OneCallPerStep, CallsKeep
  <1>6. AtMostOnePost'
    BY DEF PostInv, AtMostOnePost
  <1>7. QED
    BY <1>1, <1>2, <1>3, <1>4, <1>5, <1>6 DEF PostInv

LEMMA PostInit == Init => PostInv
  BY DEF Init, PostInv, NoTrace, PostedBehind, CallBehind, NotPostedYet, OneCallPerStep,
         AtMostOnePost

LEMMA PostAdvance ==
    ASSUME TypeOK, TypeOK', PostInv, NEW o \in Ops, Advance(o) PROVE PostInv'
  <1>1. UNCHANGED <<calls, posts>>
    BY DEF Advance, ChoosePlacement, PollRunning, PollSucceeded, PollFailed, PollError,
           ReconcileConfirmed, ReconcileUnknown
  <1>2. RowsKeep
    <2>1. CASE StepDone(o)
      BY <2>1, StepDoneKeeps
    <2>2. CASE UNCHANGED <<opStatus, opStep>>
      BY <2>2, SameRowsKeep
    <2>3. CASE PollFailed(o)
      BY <2>3 DEF PollFailed, Polled, RowsKeep, Behind, TypeOK
    <2>4. QED
      BY <2>1, <2>2, <2>3 DEF Advance, ChoosePlacement, PollRunning, PollSucceeded, PollError,
             ReconcileConfirmed, ReconcileUnknown, SetMark, opRows
  <1>3. QED
    BY <1>1, <1>2, SameCallsKeep, KeepPostInv

LEMMA PostCall ==
    ASSUME TypeOK, TypeOK', PostInv, NEW w \in Workers, Call(w) \/ Crash(w) PROVE PostInv'
  <1>1. CASE Post(w)
    <2> DEFINE o == wOp[w]
               s == wStep[w]
    <2>1. /\ o \in Ops /\ s \in Steps /\ wAt[w] = "post"
          /\ wAt' = [wAt EXCEPT ![w] = "sent"]
          /\ posts' = [posts EXCEPT ![o][s] = @ + 1]
          /\ UNCHANGED <<opStatus, opStep, wOp, wStep>>
      BY <1>1, CallHasOp DEF Post, rows, opRows
    <2>2. posts[o][s] = 0 /\ Behind(o, s) /\ opStatus[o] # "none"
      BY <2>1 DEF PostInv, NotPostedYet, CallBehind, NoTrace
    <2>3. \A p \in Ops, q \in Steps :
              posts'[p][q] = IF p = o /\ q = s THEN 1 ELSE posts[p][q]
      BY <2>1, <2>2 DEF TypeOK
    <2> HIDE DEF o, s
    <2>4. NoTrace'
      BY <2>1, <2>2, <2>3 DEF PostInv, NoTrace, TypeOK, o
    <2>5. PostedBehind'
      BY <2>1, <2>2, <2>3 DEF PostInv, PostedBehind, Behind
    <2>6. CallBehind'
      BY <2>1, <2>2 DEF PostInv, CallBehind, Behind, TypeOK, o, s
    <2>7. NotPostedYet'
      <3>1. SUFFICES ASSUME NEW x \in Workers, wAt'[x] \in {"probe", "post"}
                     PROVE  posts'[wOp[x]][wStep[x]] = 0
        BY <2>1 DEF NotPostedYet
      <3>2. x # w /\ wAt[x] \in {"probe", "post"}
        BY <2>1, <3>1 DEF TypeOK
      <3>3. wOp[x] \in Ops /\ wStep[x] \in Steps /\ posts[wOp[x]][wStep[x]] = 0
        BY <3>2 DEF PostInv, NotPostedYet, TypeOK
      <3>4. ~(wOp[x] = o /\ wStep[x] = s)
        BY <2>1, <3>2 DEF PostInv, OneCallPerStep, o, s
      <3>5. QED
        BY <2>3, <3>3, <3>4
    <2>8. OneCallPerStep'
      BY <2>1 DEF PostInv, OneCallPerStep, TypeOK
    <2>9. AtMostOnePost'
      BY <2>3 DEF PostInv, AtMostOnePost
    <2>10. QED
      BY <2>4, <2>5, <2>6, <2>7, <2>8, <2>9 DEF PostInv
  <1>2. CASE ~Post(w)
    <2>1. UNCHANGED posts
      BY <1>2 DEF Call, Crash, Probe, Receive, CallFails, StoreTask, StoreDone, StoreInProgress,
             StoreUnknown, StoreRefused
    <2>2. CallsKeep
      <3>1. CASE HangUp(w)
        BY <3>1, HangUpKeeps
      <3>2. CASE Probe(w)
        BY <3>2 DEF Probe, CallsKeep, TypeOK
      <3>3. CASE Receive(w) \/ CallFails(w)
        BY <3>3 DEF Receive, CallFails, CallsKeep, TypeOK
      <3>4. QED
        BY <1>2, <3>1, <3>2, <3>3 DEF Call, Crash, StoreTask, StoreDone, StoreInProgress,
               StoreUnknown, StoreRefused
    <2>3. RowsKeep
      <3>1. CASE StoreDone(w)
        <4>1. wOp[w] \in Ops /\ StepDone(wOp[w])
          BY <3>1, CallHasOp DEF StoreDone
        <4>2. QED
          BY <4>1, StepDoneKeeps
      <3>2. CASE ~StoreDone(w)
        <4>1. UNCHANGED <<opStatus, opStep>>
          BY <1>2, <3>2 DEF Call, Crash, Probe, Receive, CallFails, StoreTask,
                 StoreInProgress, StoreUnknown, StoreRefused, SetMark, rows, opRows
        <4>2. QED
          BY <4>1, SameRowsKeep
      <3>3. QED
        BY <3>1, <3>2
    <2>4. QED
      BY <2>1, <2>2, <2>3, KeepPostInv
  <1>3. QED
    BY <1>1, <1>2

\* A pending row has neither a call nor a POST for the step it is in.
LEMMA PostPrepare ==
    ASSUME TypeOK, TypeOK', PostInv, NEW w \in Workers, NEW o \in Ops, Prepare(w, o)
    PROVE  PostInv'
  <1>1. /\ wAt[w] = "idle" /\ opStatus[o] = "pending"
        /\ opStatus' = [opStatus EXCEPT ![o] = "processing"]
        /\ wAt' = [wAt EXCEPT ![w] = "probe"]
        /\ wOp' = [wOp EXCEPT ![w] = o]
        /\ wStep' = [wStep EXCEPT ![w] = opStep[o]]
        /\ UNCHANGED <<opStep, posts>>
    BY DEF Prepare
  <1>2. opStep[o] \in Steps /\ Rank[opStep[o]] \in Nat
    BY RankType DEF TypeOK
  <1>3. posts[o][opStep[o]] = 0
    BY <1>1, <1>2 DEF PostInv, PostedBehind, Behind
  <1>4. \A x \in Workers : wAt[x] # "idle" /\ wOp[x] = o => wStep[x] # opStep[o]
    BY <1>1, <1>2 DEF PostInv, CallBehind, Behind
  <1>5. \A p \in Ops, s \in Steps : Behind(p, s) => Behind(p, s)'
    BY <1>1 DEF Behind, TypeOK
  <1>6. NoTrace'
    BY <1>1 DEF PostInv, NoTrace, TypeOK
  <1>7. PostedBehind'
    BY <1>1, <1>5 DEF PostInv, PostedBehind
  <1>8. CallBehind'
    <2>1. SUFFICES ASSUME NEW x \in Workers, wAt'[x] # "idle"
                   PROVE  Behind(wOp[x], wStep[x])'
      BY DEF CallBehind
    <2>2. CASE x = w
      BY <1>1, <1>2, <2>2 DEF Behind, TypeOK
    <2>3. CASE x # w
      BY <1>1, <1>5, <2>1, <2>3 DEF PostInv, CallBehind, TypeOK
    <2>4. QED
      BY <2>2, <2>3
  <1>9. NotPostedYet'
    BY <1>1, <1>3 DEF PostInv, NotPostedYet, TypeOK
  <1>10. OneCallPerStep'
    BY <1>1, <1>4 DEF PostInv, OneCallPerStep, TypeOK
  <1>11. AtMostOnePost'
    BY <1>1 DEF PostInv, AtMostOnePost
  <1>12. QED
    BY <1>6, <1>7, <1>8, <1>9, <1>10, <1>11 DEF PostInv

\* A row that did not exist has no calls and no posts.
LEMMA PostRequest == ASSUME TypeOK, TypeOK', PostInv, Request PROVE PostInv'
  <1>1. PICK o \in Ops, t \in Steps :
            /\ opStatus[o] = "none"
            /\ opStatus' = [opStatus EXCEPT ![o] = "pending"]
            /\ opStep' = [opStep EXCEPT ![o] = t]
            /\ UNCHANGED <<calls, posts>>
    <2>1. ASSUME NEW o \in Ops, NEW v \in Vms, CreateVm(o, v)
          PROVE  /\ opStatus[o] = "none" /\ "clone" \in Steps
                 /\ opStatus' = [opStatus EXCEPT ![o] = "pending"]
                 /\ opStep' = [opStep EXCEPT ![o] = "clone"]
                 /\ UNCHANGED <<calls, posts>>
      BY <2>1 DEF CreateVm, Steps
    <2>2. ASSUME NEW o \in Ops, NEW v \in Vms, NEW t \in Types, EnqueueVmOperation(o, v, t)
          PROVE  /\ opStatus[o] = "none" /\ Step1[t] \in Steps
                 /\ opStatus' = [opStatus EXCEPT ![o] = "pending"]
                 /\ opStep' = [opStep EXCEPT ![o] = Step1[t]]
                 /\ UNCHANGED <<calls, posts>>
      BY <2>2, Step1Type DEF EnqueueVmOperation
    <2>3. QED
      BY <2>1, <2>2 DEF Request
  <1>2. \A s \in Steps : posts[o][s] = 0
    BY <1>1 DEF PostInv, NoTrace
  <1>3. \A w \in Workers : wAt[w] # "idle" => wOp[w] # o
    BY <1>1 DEF PostInv, NoTrace
  <1>4. \A p \in Ops : p # o => opStatus'[p] = opStatus[p] /\ opStep'[p] = opStep[p]
    BY <1>1 DEF TypeOK
  <1>5. \A p \in Ops, s \in Steps : p # o => (Behind(p, s) => Behind(p, s)')
    BY <1>4 DEF Behind
  <1>6. opStatus'[o] = "pending"
    BY <1>1 DEF TypeOK
  <1>7. NoTrace'
    BY <1>1, <1>4, <1>6 DEF PostInv, NoTrace, calls
  <1>8. PostedBehind'
    BY <1>1, <1>2, <1>5 DEF PostInv, PostedBehind
  <1>9. CallBehind'
    BY <1>1, <1>3, <1>5 DEF PostInv, CallBehind, TypeOK, calls
  <1>10. NotPostedYet' /\ OneCallPerStep' /\ AtMostOnePost'
    BY <1>1 DEF PostInv, NotPostedYet, OneCallPerStep, AtMostOnePost, calls
  <1>11. QED
    BY <1>7, <1>8, <1>9, <1>10 DEF PostInv

LEMMA PostElsewhere ==
    ASSUME TypeOK, TypeOK', PostInv,
           \/ \E o \in Ops, s \in Steps : Provider(o, s)
           \/ \E v \in Vms : Environment(v)
           \/ UNCHANGED vars
    PROVE  PostInv'
  <1>1. UNCHANGED <<rows, calls, posts>>
    BY DEF Provider, Accept, Drop, TaskOk, TaskFail, Environment, ForeignLock, ForeignUnlock,
           GuestPowerOff, vars
  <1>2. UNCHANGED <<opStatus, opStep>>
    BY <1>1 DEF rows, opRows
  <1>3. QED
    BY <1>1, <1>2, SameRowsKeep, SameCallsKeep, KeepPostInv

LEMMA PostKept == PostInv /\ TypeOK /\ TypeOK' /\ [Next]_vars => PostInv'
  BY PostAdvance, PostCall, PostPrepare, PostRequest, PostElsewhere DEF Next

\* No operation ever sends a command twice, whatever crashes, is lost or takes
\* longer than the grace period, with any number of workers.
THEOREM NeverSentTwice == Spec => []AtMostOnePost
  <1>1. PostInv => AtMostOnePost
    BY DEF PostInv
  <1>2. QED
    BY <1>1, PostKept, PostInit, TypeCorrect, PTL DEF Spec

-----------------------------------------------------------------------------
(* What a step does to the rows: EffectOfStep reduces every step of the    *)
(* specification to one of six effects, so that an invariant of the rows   *)
(* is proved once for each effect.                                         *)

Bad == {"none", "failed", "deleted"}

Same == UNCHANGED <<opRows, vmStatus>>

New(o, v) ==
    /\ opStatus[o] = "none"
    /\ opStatus' = [opStatus EXCEPT ![o] = "pending"]
    /\ opVm' = [opVm EXCEPT ![o] = v]
    /\ UNCHANGED <<opMark, opTask>>
    /\ \A p \in Ops : p # o => opStep'[p] = opStep[p]
    /\ \/ vmStatus[v] = "none" /\ vmStatus' = [vmStatus EXCEPT ![v] = "pending"]
       \/ /\ vmStatus[v] \notin Bad /\ UNCHANGED vmStatus
          /\ \A p \in Ops : Active(p) => opVm[p] # v

Taken(o) ==
    /\ opStatus[o] = "pending" /\ opTask[o] = "none"
    /\ opStatus' = [opStatus EXCEPT ![o] = "processing"]
    /\ opMark' = [opMark EXCEPT ![o] = "dispatch"]
    /\ \E st \in {"deleting", vmStatus[opVm[o]]} : SetVm(o, st)
    /\ UNCHANGED <<opStep, opVm, opTask>>

Done(o) ==
    /\ opStatus[o] = "processing"
    /\ StepDone(o)
    /\ \E st \in {vmStatus[opVm[o]], VmAfter(opStep[o], vmStatus[opVm[o]])} : SetVm(o, st)

Failed(o) ==
    /\ opStatus[o] = "processing" /\ opTask[o] # "none"
    /\ opStatus' = [opStatus EXCEPT ![o] = "failed"]
    /\ \E m \in {"plain", opMark[o]} : opMark' = [opMark EXCEPT ![o] = m]
    /\ \E st \in VmStatus : SetVm(o, st)
    /\ UNCHANGED <<opStep, opVm, opTask>>

\* A new marker: after a poll, after a read that settled nothing, or after a
\* call that raised.
Marked(o) ==
    /\ \E m \in Marks :
          /\ opMark' = [opMark EXCEPT ![o] = m]
          /\ \/ opStatus[o] = "processing" /\ opTask[o] # "none" /\ m \in {"plain", "backoff", opMark[o]}
             \/ opStatus[o] = "processing" /\ opTask[o] = "none" /\ m \in {"reconcile", "review"}
             \/ opMark[o] = "dispatch" /\ m = "reconcile" /\ UNCHANGED vmStatus
    /\ \E st \in {"provisioning", vmStatus[opVm[o]]} : SetVm(o, st)
    /\ UNCHANGED <<opStatus, opStep, opVm, opTask>>

Stored(o) ==
    /\ opStatus[o] = "processing" /\ opTask[o] = "none"
    /\ \E s \in Steps : opTask' = [opTask EXCEPT ![o] = s]
    /\ opMark' = [opMark EXCEPT ![o] = "plain"]
    /\ \E st \in {"provisioning", vmStatus[opVm[o]]} : SetVm(o, st)
    /\ UNCHANGED <<opStatus, opStep, opVm>>

Effect ==
    \/ Same
    \/ \E o \in Ops, v \in Vms : New(o, v)
    \/ \E o \in Ops : Taken(o) \/ Done(o) \/ Failed(o) \/ Marked(o) \/ Stored(o)

-----------------------------------------------------------------------------
LEMMA SameVm ==
    ASSUME TypeOK, NEW o \in Ops, UNCHANGED vmStatus
    PROVE  SetVm(o, vmStatus[opVm[o]])
  BY DEF SetVm, TypeOK

LEMMA EffectOfRequest == ASSUME TypeOK, Request PROVE Effect
  <1>1. ASSUME NEW o \in Ops, NEW v \in Vms, CreateVm(o, v) PROVE New(o, v)
    BY <1>1 DEF CreateVm, New, TypeOK
  <1>2. ASSUME NEW o \in Ops, NEW v \in Vms, NEW t \in Types \ {"create"},
               EnqueueVmOperation(o, v, t)
        PROVE  New(o, v)
    <2>1. AllowedStatus[t] \in {"running", "stopped"}
      BY DEF AllowedStatus, Types
    <2>2. vmStatus[v] \notin Bad
      BY <1>2, <2>1 DEF EnqueueVmOperation, Bad
    <2>3. QED
      BY <1>2, <2>2 DEF EnqueueVmOperation, New, TypeOK
  <1>3. QED
    BY <1>1, <1>2 DEF Request, Effect

LEMMA EffectOfAdvance == ASSUME TypeOK, NEW o \in Ops, Advance(o) PROVE Effect
  <1>1. CASE ChoosePlacement(o)
    BY <1>1 DEF ChoosePlacement, Effect, Same
  <1>2. CASE PollRunning(o)
    <2>1. MarkAfterPoll(o) \in {"plain", opMark[o]} /\ MarkAfterPoll(o) \in Marks
      BY DEF MarkAfterPoll, TypeOK, Marks
    <2>2. Marked(o)
      BY <1>2, <2>1, SameVm DEF PollRunning, Polled, SetMark, Marked
    <2>3. QED
      BY <2>2 DEF Effect
  <1>3. CASE PollError(o)
    <2>1. Marked(o)
      BY <1>3, SameVm DEF PollError, Polled, SetMark, Marked, Marks
    <2>2. QED
      BY <2>1 DEF Effect
  <1>4. CASE PollSucceeded(o)
    <2>1. Done(o)
      BY <1>4 DEF PollSucceeded, Polled, Done
    <2>2. QED
      BY <2>1 DEF Effect
  <1>5. CASE PollFailed(o)
    <2>1. /\ opStatus[o] = "processing" /\ opTask[o] # "none"
          /\ opStatus' = [opStatus EXCEPT ![o] = "failed"]
          /\ \E m \in {"plain", opMark[o]} : opMark' = [opMark EXCEPT ![o] = m]
          /\ UNCHANGED <<opStep, opVm, opTask>>
      BY <1>5 DEF PollFailed, Polled
    <2>2. \E st \in VmStatus : SetVm(o, st)
      <3>1. vmStatus[opVm[o]] \in VmStatus /\ "failed" \in VmStatus /\ "deleting" \in VmStatus
        BY DEF TypeOK, VmStatus
      <3>2. CASE opType[o] = "create"
        <4>1. SetVm(o, "failed")
          BY <1>5, <3>2 DEF PollFailed
        <4>2. QED
          BY <3>1, <4>1
      <3>3. CASE opType[o] = "delete"
        <4>1. SetVm(o, "deleting")
          BY <1>5, <3>3 DEF PollFailed
        <4>2. QED
          BY <3>1, <4>1
      <3>4. CASE opType[o] \notin {"create", "delete"}
        <4>1. SetVm(o, vmStatus[opVm[o]])
          BY <1>5, <3>4 DEF PollFailed
        <4>2. QED
          BY <3>1, <4>1
      <3>5. QED
        BY <3>2, <3>3, <3>4
    <2>3. QED
      BY <2>1, <2>2 DEF Effect, Failed
  <1>6. CASE ReconcileConfirmed(o)
    <2>1. Done(o)
      BY <1>6 DEF ReconcileConfirmed, Reconcilable, Done
    <2>2. QED
      BY <2>1 DEF Effect
  <1>7. CASE ReconcileUnknown(o)
    <2>1. Marked(o)
      BY <1>7, SameVm DEF ReconcileUnknown, Reconcilable, SetMark, Marked, Marks
    <2>2. QED
      BY <2>1 DEF Effect
  <1>8. QED
    BY <1>1, <1>2, <1>3, <1>4, <1>5, <1>6, <1>7 DEF Advance

LEMMA EffectOfPrepare ==
    ASSUME TypeOK, NEW w \in Workers, NEW o \in Ops, Prepare(w, o) PROVE Effect
  <1>1. Taken(o)
    BY DEF Prepare, Taken, SetVm
  <1>2. QED
    BY <1>1 DEF Effect

LEMMA EffectOfCall == ASSUME TypeOK, NEW w \in Workers, Call(w) \/ Crash(w) PROVE Effect
  <1>1. CASE Probe(w) \/ Post(w) \/ Receive(w) \/ CallFails(w) \/ StoreRefused(w) \/ Crash(w)
    BY <1>1 DEF Probe, Post, Receive, CallFails, StoreRefused, Crash, rows, Effect, Same
  <1>2. CASE StoreTask(w)
    <2>1. wOp[w] \in Ops /\ wStep[w] \in Steps
      BY <1>2, CallHasOp DEF StoreTask
    <2>2. Stored(wOp[w])
      BY <1>2, <2>1 DEF StoreTask, FinishAccepts, Stored
    <2>3. QED
      BY <2>1, <2>2 DEF Effect
  <1>3. CASE StoreDone(w)
    <2>1. wOp[w] \in Ops
      BY <1>3, CallHasOp DEF StoreDone
    <2>2. Done(wOp[w])
      BY <1>3 DEF StoreDone, FinishAccepts, Done
    <2>3. QED
      BY <2>1, <2>2 DEF Effect
  <1>4. CASE StoreInProgress(w)
    <2>1. wOp[w] \in Ops
      BY <1>4, CallHasOp DEF StoreInProgress
    <2>2. Marked(wOp[w])
      BY <1>4 DEF StoreInProgress, FinishAccepts, SetMark, Marked, Marks
    <2>3. QED
      BY <2>1, <2>2 DEF Effect
  <1>5. CASE StoreUnknown(w)
    <2>1. wOp[w] \in Ops
      BY <1>5, CallHasOp DEF StoreUnknown
    <2>2. Marked(wOp[w])
      BY <1>5, <2>1, SameVm DEF StoreUnknown, UnknownAccepts, SetMark, Marked, Marks
    <2>3. QED
      BY <2>1, <2>2 DEF Effect
  <1>6. QED
    BY <1>1, <1>2, <1>3, <1>4, <1>5 DEF Call

\* Every step has one of the effects.
LEMMA EffectOfStep == TypeOK /\ [Next]_vars => Effect
  <1>1. ASSUME TypeOK, NEW o \in Ops, NEW s \in Steps, Provider(o, s) PROVE Effect
    BY <1>1 DEF Provider, Accept, Drop, TaskOk, TaskFail, rows, Effect, Same
  <1>2. ASSUME TypeOK, NEW v \in Vms, Environment(v) PROVE Effect
    BY <1>2 DEF Environment, ForeignLock, ForeignUnlock, GuestPowerOff, rows, Effect, Same
  <1>3. ASSUME UNCHANGED vars PROVE Effect
    BY <1>3 DEF vars, rows, Effect, Same
  <1>4. QED
    BY <1>1, <1>2, <1>3, EffectOfRequest, EffectOfAdvance, EffectOfPrepare, EffectOfCall DEF Next

-----------------------------------------------------------------------------
(* The invariant of the rows *)

\* Only a row in processing or a failed one has a UPID, and then no
\* "dispatch" marker; a settled row has no such marker either.
TaskRows ==
    \A o \in Ops :
        /\ opTask[o] # "none" => opStatus[o] \in {"processing", "failed"} /\ opMark[o] # "dispatch"
        /\ opStatus[o] = "failed" => opTask[o] # "none"
        /\ opStatus[o] = "succeeded" => opMark[o] = "complete"

\* A VM has one active operation, and only while its row is in use.
VmRows ==
    /\ \A o, p \in Ops : Active(o) /\ Active(p) /\ opVm[o] = opVm[p] => o = p
    /\ \A o \in Ops : Active(o) => vmStatus[opVm[o]] \notin Bad

RowInv == NoStrandedOperation /\ TaskRows /\ VmRows

LEMMA RowInit == Init => RowInv
  BY DEF Init, RowInv, NoStrandedOperation, TaskRows, VmRows, Active

\* A finished step that leaves its row active leaves its VM in use.
LEMMA VmAfterInUse ==
    ASSUME NEW t \in Types, NEW s \in Steps, NEW v \in VmStatus \ Bad, NextStep(t, s) # "none"
    PROVE  VmAfter(s, v) \notin Bad
  <1>1. s # "delete"
    BY DEF NextStep
  <1>2. QED
    BY <1>1 DEF VmAfter, Bad

LEMMA DoneKeepsRows == ASSUME TypeOK, RowInv, NEW o \in Ops, Done(o) PROVE RowInv'
  <1> DEFINE n == NextStep(opType[o], opStep[o])
  <1>1. /\ opStatus[o] = "processing"
        /\ opStatus' = [opStatus EXCEPT ![o] = IF n = "none" THEN "succeeded" ELSE "pending"]
        /\ opMark' = [opMark EXCEPT ![o] = IF n = "none" THEN "complete" ELSE "plain"]
        /\ opTask' = [opTask EXCEPT ![o] = "none"]
        /\ UNCHANGED opVm
    BY DEF Done, StepDone
  <1>2. PICK st \in {vmStatus[opVm[o]], VmAfter(opStep[o], vmStatus[opVm[o]])} : SetVm(o, st)
    BY DEF Done
  <1>3. n # "none" => st \notin Bad
    <2>1. opType[o] \in Types /\ opStep[o] \in Steps /\ vmStatus[opVm[o]] \in VmStatus
      BY DEF TypeOK
    <2>2. vmStatus[opVm[o]] \notin Bad
      BY <1>1 DEF RowInv, VmRows, Active
    <2>3. QED
      BY <1>2, <2>1, <2>2, VmAfterInUse
  <1> HIDE DEF n
  <1>4. NoStrandedOperation'
    BY <1>1 DEF RowInv, NoStrandedOperation, TypeOK
  <1>5. TaskRows'
    BY <1>1 DEF RowInv, TaskRows, TypeOK
  <1>6. VmRows'
    <2>1. \A p \in Ops : Active(p)' => Active(p)
      BY <1>1 DEF Active, TypeOK
    <2>2. \A p \in Ops : p # o /\ Active(p) => opVm[p] # opVm[o]
      BY <1>1 DEF RowInv, VmRows, Active
    <2>3. \A p \in Ops : p # o /\ Active(p) => vmStatus'[opVm[p]] = vmStatus[opVm[p]]
      BY <1>2, <2>2 DEF SetVm, TypeOK
    <2>4. Active(o)' => vmStatus'[opVm[o]] \notin Bad
      BY <1>1, <1>2, <1>3 DEF SetVm, Active, TypeOK
    <2>5. QED
      BY <1>1, <2>1, <2>3, <2>4 DEF RowInv, VmRows
  <1>7. QED
    BY <1>4, <1>5, <1>6 DEF RowInv

LEMMA NewKeepsRows == ASSUME TypeOK, RowInv, NEW o \in Ops, NEW v \in Vms, New(o, v) PROVE RowInv'
  <1>1. /\ opStatus[o] = "none"
        /\ opStatus' = [opStatus EXCEPT ![o] = "pending"]
        /\ opVm' = [opVm EXCEPT ![o] = v]
        /\ UNCHANGED <<opMark, opTask>>
    BY DEF New
  <1>2. NoStrandedOperation' /\ TaskRows'
    BY <1>1 DEF RowInv, NoStrandedOperation, TaskRows, TypeOK
  <1>3. \A p \in Ops : Active(p) => p # o /\ opVm[p] # v
    BY <1>1 DEF New, RowInv, VmRows, Active, Bad
  <1>4. \A p \in Ops : p # o => (Active(p)' <=> Active(p)) /\ opVm'[p] = opVm[p]
    BY <1>1 DEF Active, TypeOK
  <1>5. opVm'[o] = v
    BY <1>1 DEF TypeOK
  <1>6. vmStatus'[v] \notin Bad
    BY DEF New, Bad, TypeOK
  <1>7. \A x \in Vms : x # v => vmStatus'[x] = vmStatus[x]
    BY DEF New, TypeOK
  <1>8. VmRows'
    <2>1. \A p \in Ops : Active(p) => opVm[p] \in Vms /\ vmStatus[opVm[p]] \notin Bad
      BY DEF RowInv, VmRows, TypeOK
    <2>2. QED
      BY <1>3, <1>4, <1>5, <1>6, <1>7, <2>1 DEF RowInv, VmRows
  <1>9. QED
    BY <1>2, <1>8 DEF RowInv

\* An effect on a single row that sets its VM to something in use, or ends it.
LEMMA OneRowVm ==
    ASSUME TypeOK, VmRows, NEW o \in Ops, NEW st, SetVm(o, st), UNCHANGED opVm, Active(o),
           \A p \in Ops : Active(p)' => Active(p),
           Active(o)' => st \notin Bad
    PROVE  VmRows'
  <1>1. \A p \in Ops : p # o /\ Active(p) => opVm[p] # opVm[o]
    BY DEF VmRows
  <1>2. \A p \in Ops : p # o /\ Active(p) => vmStatus'[opVm[p]] = vmStatus[opVm[p]]
    BY <1>1 DEF SetVm, TypeOK
  <1>3. vmStatus'[opVm[o]] = st
    BY DEF SetVm, TypeOK
  <1>4. QED
    BY <1>2, <1>3 DEF VmRows

LEMMA OtherEffectsKeepRows ==
    ASSUME TypeOK, RowInv, NEW o \in Ops, Taken(o) \/ Failed(o) \/ Marked(o) \/ Stored(o)
    PROVE  RowInv'
  <1>1. NoStrandedOperation'
    BY DEF RowInv, NoStrandedOperation, TaskRows, Taken, Failed, Marked, Stored, TypeOK, Steps
  <1>2. TaskRows'
    BY DEF RowInv, TaskRows, Taken, Failed, Marked, Stored, TypeOK, Steps
  <1>3. VmRows'
    <2>1. VmRows
      BY DEF RowInv
    <2>2. \A p \in Ops : Active(p)' => Active(p)
      BY DEF Taken, Failed, Marked, Stored, Active, TypeOK
    <2>3. CASE Active(o)
      <3>1. vmStatus[opVm[o]] \notin Bad /\ UNCHANGED opVm
        BY <2>1, <2>3 DEF VmRows, Taken, Failed, Marked, Stored
      <3>2. CASE Failed(o)
        <4>1. PICK st \in VmStatus : SetVm(o, st)
          BY <3>2 DEF Failed
        <4>2. ~Active(o)'
          BY <3>2 DEF Failed, Active, TypeOK
        <4>3. QED
          BY <2>1, <2>2, <2>3, <3>1, <4>1, <4>2, OneRowVm
      <3>3. CASE Taken(o) \/ Marked(o) \/ Stored(o)
        <4>1. PICK st \in {"deleting", "provisioning", vmStatus[opVm[o]]} : SetVm(o, st)
          BY <3>3 DEF Taken, Marked, Stored
        <4>2. st \notin Bad
          BY <3>1, <4>1 DEF Bad
        <4>3. QED
          BY <2>1, <2>2, <2>3, <3>1, <4>1, <4>2, OneRowVm
      <3>4. QED
        BY <3>2, <3>3
    <2>4. CASE ~Active(o)
      <3>1. UNCHANGED <<opStatus, opVm, vmStatus>>
        BY <2>4 DEF Taken, Failed, Marked, Stored, Active
      <3>2. QED
        BY <2>1, <3>1 DEF VmRows, Active
    <2>5. QED
      BY <2>3, <2>4
  <1>4. QED
    BY <1>1, <1>2, <1>3 DEF RowInv

LEMMA RowStep == ASSUME TypeOK, RowInv, Effect PROVE RowInv'
  <1>1. CASE Same
    BY <1>1 DEF Same, opRows, RowInv, NoStrandedOperation, TaskRows, VmRows, Active
  <1>2. QED
    BY <1>1, NewKeepsRows, DoneKeepsRows, OtherEffectsKeepRows DEF Effect

LEMMA RowsInvariant == Spec => []RowInv
  BY RowInit, RowStep, EffectOfStep, TypeCorrect, PTL DEF Spec

-----------------------------------------------------------------------------
\* run_once leaves no row where none of its branches takes it up.
THEOREM NothingStranded == Spec => []NoStrandedOperation
  <1>1. RowInv => NoStrandedOperation
    BY DEF RowInv
  <1>2. QED
    BY <1>1, RowsInvariant, PTL

\* The row of operation o is left as it is.
SameRow(o) ==
    /\ opStatus'[o] = opStatus[o] /\ opStep'[o] = opStep[o]
    /\ opMark'[o] = opMark[o] /\ opTask'[o] = opTask[o]

\* An effect needs an operation that is not settled, and a settled VM has no
\* active operation.
LEMMA EffectKeepsSettled == ASSUME TypeOK, RowInv, Effect PROVE SettledKept
  <1>1. CASE Same
    BY <1>1 DEF Same, opRows, SettledKept
  <1>2. ASSUME NEW o \in Ops, NEW v \in Vms, New(o, v) PROVE SettledKept
    BY <1>2 DEF New, TypeOK, Bad, SettledKept
  <1>3. ASSUME NEW o \in Ops, Taken(o) \/ Done(o) \/ Failed(o) \/ Stored(o) PROVE SettledKept
    <2>1. Active(o)
      BY <1>3 DEF Taken, Done, Failed, Stored, Active
    <2>2. \A p \in Ops : p # o => SameRow(p)
      BY <1>3 DEF Taken, Done, StepDone, Failed, Stored, TypeOK, SameRow
    <2>3. vmStatus[opVm[o]] \notin {"failed", "deleted"}
      BY <2>1 DEF RowInv, VmRows, Bad
    <2>4. \A v \in Vms : v # opVm[o] => vmStatus'[v] = vmStatus[v]
      BY <1>3 DEF Taken, Done, Failed, Stored, SetVm, TypeOK
    <2>5. QED
      BY <2>1, <2>2, <2>3, <2>4 DEF Active, SettledKept, SameRow
  <1>4. ASSUME NEW o \in Ops, Marked(o) PROVE SettledKept
    <2>1. opStatus[o] \notin {"succeeded", "failed"}
      BY <1>4 DEF Marked, RowInv, TaskRows
    <2>2. \A p \in Ops : p # o => SameRow(p)
      BY <1>4 DEF Marked, TypeOK, SameRow
    <2>3. \A v \in Vms : vmStatus[v] \in {"failed", "deleted"} => vmStatus'[v] = vmStatus[v]
      <3>1. CASE UNCHANGED vmStatus
        BY <3>1
      <3>2. CASE opStatus[o] = "processing"
        <4>1. vmStatus[opVm[o]] \notin {"failed", "deleted"}
          BY <3>2 DEF RowInv, VmRows, Active, Bad
        <4>2. QED
          BY <1>4, <4>1 DEF Marked, SetVm, TypeOK
      <3>3. QED
        BY <1>4, <3>1, <3>2 DEF Marked
    <2>4. QED
      BY <2>1, <2>2, <2>3 DEF SettledKept, SameRow
  <1>5. QED
    BY <1>1, <1>2, <1>3, <1>4 DEF Effect

\* No late worker and no poll touches a settled operation, and a VM that failed
\* or was deleted keeps that status.
THEOREM SettledStays == Spec => FinalStays
  <1>1. TypeOK /\ RowInv /\ [Next]_vars => [SettledKept]_vars
    BY EffectOfStep, EffectKeepsSettled
  <1>2. QED
    BY <1>1, TypeCorrect, RowsInvariant, PTL DEF Spec, FinalStays

-----------------------------------------------------------------------------
(* vm.create keeps its task and its step together *)

\* What a step may do to the task of a row, seen by vm.create.
TaskFollows(o) ==
    \/ opTask'[o] = "none"
    \/ opTask'[o] = opStep'[o]
    \/ opTask'[o] = opTask[o] /\ opStep'[o] = opStep[o] /\ opType'[o] = opType[o]

LEMMA TasksFollow ==
    ASSUME TypeOK, RowInv, [Next]_vars
    PROVE  \A o \in Ops : opType'[o] = "create" => TaskFollows(o)
  <1>1. CASE Request
    <2>1. PICK o \in Ops : /\ opStatus[o] = "none" /\ UNCHANGED opTask
                           /\ \A p \in Ops : p # o => opStep'[p] = opStep[p] /\ opType'[p] = opType[p]
      BY <1>1 DEF Request, CreateVm, EnqueueVmOperation, TypeOK
    <2>2. opTask[o] = "none"
      BY <2>1 DEF RowInv, TaskRows
    <2>3. QED
      BY <2>1, <2>2 DEF TaskFollows
  <1>2. ASSUME NEW o \in Ops, StepDone(o) PROVE \A p \in Ops : TaskFollows(p)
    BY <1>2 DEF StepDone, TaskFollows, TypeOK
  <1>3. ASSUME NEW w \in Workers, StoreTask(w)
        PROVE  \A o \in Ops : opType'[o] = "create" => TaskFollows(o)
    <2>1. /\ wOp[w] \in Ops
          /\ opTask' = [opTask EXCEPT ![wOp[w]] = wStep[w]] /\ UNCHANGED <<opStep, opType>>
          /\ opType[wOp[w]] = "create" => opStep[wOp[w]] = wStep[w]
      BY <1>3, CallHasOp DEF StoreTask, FinishAccepts
    <2>2. QED
      BY <2>1 DEF TaskFollows, TypeOK
  <1>4. CASE UNCHANGED <<opTask, opStep, opType>>
    BY <1>4 DEF TaskFollows
  <1>5. ASSUME NEW o \in Ops, Advance(o) PROVE StepDone(o) \/ UNCHANGED <<opTask, opStep, opType>>
    BY <1>5 DEF Advance, ChoosePlacement, PollRunning, PollError, PollSucceeded, PollFailed,
           ReconcileConfirmed, ReconcileUnknown, SetMark, opRows
  <1>6. ASSUME NEW w \in Workers, Call(w) \/ Crash(w)
        PROVE  \/ StoreTask(w)
               \/ wOp[w] \in Ops /\ StepDone(wOp[w])
               \/ UNCHANGED <<opTask, opStep, opType>>
    BY <1>6, CallHasOp DEF Call, Crash, Probe, Post, Receive, CallFails, StoreDone, StoreInProgress,
           StoreUnknown, StoreRefused, SetMark, rows, opRows
  <1>7. ASSUME \/ \E w \in Workers, o \in Ops : Prepare(w, o)
               \/ \E o \in Ops, s \in Steps : Provider(o, s)
               \/ \E v \in Vms : Environment(v)
               \/ UNCHANGED vars
        PROVE  UNCHANGED <<opTask, opStep, opType>>
    <2>1. ASSUME NEW w \in Workers, NEW o \in Ops, Prepare(w, o)
          PROVE  UNCHANGED <<opTask, opStep, opType>>
      BY <2>1 DEF Prepare
    <2>2. ASSUME NEW o \in Ops, NEW s \in Steps, Provider(o, s) PROVE UNCHANGED rows
      BY <2>2 DEF Provider, Accept, Drop, TaskOk, TaskFail
    <2>3. ASSUME NEW v \in Vms, Environment(v) PROVE UNCHANGED rows
      BY <2>3 DEF Environment, ForeignLock, ForeignUnlock, GuestPowerOff
    <2>4. QED
      BY <1>7, <2>1, <2>2, <2>3 DEF vars, rows, opRows
  <1>8. QED
    BY <1>1, <1>2, <1>3, <1>4, <1>5, <1>6, <1>7 DEF Next

\* The task of a vm.create is that of its step even when a worker comes back
\* after others took its row over: finish_create_vm_dispatch compares the phase.
THEOREM CreateTasksMatch == Spec => []CreateTaskMatchesStep
  <1>1. Init => CreateTaskMatchesStep
    BY DEF Init, CreateTaskMatchesStep
  <1>2. TypeOK /\ RowInv /\ CreateTaskMatchesStep /\ [Next]_vars => CreateTaskMatchesStep'
    BY TasksFollow DEF TaskFollows, CreateTaskMatchesStep
  <1>3. QED
    BY <1>1, <1>2, TypeCorrect, RowsInvariant, PTL DEF Spec

-----------------------------------------------------------------------------
(* Calls own their rows *)

\* A call owns the row it was made for: nothing else has moved it.
CallOwn ==
    /\ \A w \in Workers : wAt[w] # "idle" =>
          /\ opStatus[wOp[w]] = "processing" /\ opMark[wOp[w]] = "dispatch"
          /\ opTask[wOp[w]] = "none" /\ opStep[wOp[w]] = wStep[w]
    /\ \A w, x \in Workers :
          wAt[w] # "idle" /\ wAt[x] # "idle" /\ wOp[w] = wOp[x] => w = x

StepsOf == [create |-> {"clone", "configure", "resize", "start"}, start |-> {"start"},
            shutdown |-> {"shutdown"}, stop |-> {"stop"}, reboot |-> {"shutdown", "start"},
            delete |-> {"delete"}]

StepFits == \A o \in Ops : opStep[o] \in StepsOf[opType[o]]

\* What the VM of an active operation may show.
Shows(o, status) ==
    /\ opType[o] = "create" => status = "provisioning" \/ (opStep[o] = "clone" /\ status = "pending")
    /\ opType[o] = "start" => status = "stopped"
    /\ opType[o] \in {"shutdown", "stop"} => status = "running"
    /\ opType[o] = "reboot" => status = IF opStep[o] = "shutdown" THEN "running" ELSE "stopped"
    /\ opType[o] = "delete" => status = IF opStatus[o] = "pending" THEN "stopped" ELSE "deleting"

\* The clone shows from the moment its answer is stored.
CloneShown(o) ==
    opType[o] = "create" /\ opStep[o] = "clone" =>
        /\ opTask[o] # "none" => vmStatus[opVm[o]] = "provisioning"
        /\ opStatus[o] = "pending" \/ opMark[o] = "dispatch" => vmStatus[opVm[o]] = "pending"

ShownInv == \A o \in Ops : Active(o) => Shows(o, vmStatus[opVm[o]]) /\ CloneShown(o)

PromiseInv == TypeOK /\ PostInv /\ RowInv /\ CallOwn /\ StepFits /\ ShownInv /\ TaskMatchesStep

LEMMA CallOwnKept ==
  ASSUME TypeOK, CallOwn, CallsKeep, \A p \in Ops : LiveCall(p)' => SameRow(p)
  PROVE  CallOwn'
<1>1. ASSUME NEW w \in Workers, wAt'[w] # "idle"
      PROVE  /\ opStatus'[wOp'[w]] = "processing" /\ opMark'[wOp'[w]] = "dispatch"
             /\ opTask'[wOp'[w]] = "none" /\ opStep'[wOp'[w]] = wStep'[w]
  <2>1. wAt[w] # "idle" /\ wOp'[w] = wOp[w] /\ wStep'[w] = wStep[w] /\ wOp[w] \in Ops
    BY <1>1 DEF CallsKeep, TypeOK
  <2>2. SameRow(wOp[w])
    BY <1>1, <2>1 DEF LiveCall
  <2> QED  BY <2>1, <2>2 DEF CallOwn, SameRow
<1>2. \A w, x \in Workers :
         wAt'[w] # "idle" /\ wAt'[x] # "idle" /\ wOp'[w] = wOp'[x] => w = x
  BY DEF CallOwn, CallsKeep
<1> QED  BY <1>1, <1>2 DEF CallOwn

LEMMA AdvanceFree ==
  ASSUME GraceCoversCall, TypeOK, CallOwn, NEW o \in Ops, Advance(o), ~ChoosePlacement(o)
  PROVE  ~LiveCall(o)
<1>1. CASE Polled(o)
  BY <1>1 DEF Polled, CallOwn, LiveCall
<1>2. CASE Reconcilable(o)
  BY <1>2 DEF Reconcilable, CallOwn, LiveCall
<1> QED
  BY <1>1, <1>2 DEF Advance, PollRunning, PollSucceeded, PollFailed, PollError,
         ReconcileConfirmed, ReconcileUnknown

LEMMA CallOwnAdvance ==
  ASSUME GraceCoversCall, TypeOK, CallOwn, NEW o \in Ops, Advance(o)
  PROVE  CallOwn'
<1>1. UNCHANGED calls
  BY DEF Advance, ChoosePlacement, PollRunning, PollSucceeded, PollFailed, PollError,
         ReconcileConfirmed, ReconcileUnknown
<1>2. \A p \in Ops : (LiveCall(p)' <=> LiveCall(p))
  BY <1>1 DEF LiveCall, calls
<1>3. CASE ChoosePlacement(o)
  BY <1>1, <1>3, SameCallsKeep, CallOwnKept DEF ChoosePlacement, opRows, SameRow
<1>4. CASE ~ChoosePlacement(o)
  <2>1. \A p \in Ops : p # o => SameRow(p)
    BY <1>4 DEF Advance, PollRunning, PollSucceeded, PollFailed, PollError,
           ReconcileConfirmed, ReconcileUnknown, StepDone, SetMark, SameRow, TypeOK
  <2> QED  BY <1>1, <1>2, <1>4, <2>1, AdvanceFree, SameCallsKeep, CallOwnKept
<1> QED  BY <1>3, <1>4

LEMMA CallOwnRequest == ASSUME TypeOK, PostInv, CallOwn, Request PROVE CallOwn'
<1>1. PICK o \in Ops : /\ opStatus[o] = "none" /\ UNCHANGED calls
                       /\ \A p \in Ops : p # o => SameRow(p)
  BY DEF Request, CreateVm, EnqueueVmOperation, SameRow, TypeOK
<1>2. ~LiveCall(o)
  BY <1>1 DEF PostInv, NoTrace, LiveCall
<1>3. \A p \in Ops : (LiveCall(p)' <=> LiveCall(p))
  BY <1>1 DEF LiveCall, calls
<1> QED  BY <1>1, <1>2, <1>3, SameCallsKeep, CallOwnKept

LEMMA CallOwnPrepare ==
  ASSUME TypeOK, CallOwn, NEW w \in Workers, NEW o \in Ops, Prepare(w, o)
  PROVE  CallOwn'
<1>1. /\ wAt[w] = "idle" /\ opStatus[o] = "pending" /\ opTask[o] = "none"
      /\ opStatus' = [opStatus EXCEPT ![o] = "processing"]
      /\ opMark' = [opMark EXCEPT ![o] = "dispatch"]
      /\ wAt' = [wAt EXCEPT ![w] = "probe"]
      /\ wOp' = [wOp EXCEPT ![w] = o]
      /\ wStep' = [wStep EXCEPT ![w] = opStep[o]]
      /\ UNCHANGED <<opStep, opTask>>
  BY DEF Prepare
<1>2. \A x \in Workers : wAt[x] # "idle" => wOp[x] # o
  BY <1>1 DEF CallOwn
<1>3. \A x \in Workers : x # w => wAt'[x] = wAt[x] /\ wOp'[x] = wOp[x] /\ wStep'[x] = wStep[x]
  BY <1>1 DEF TypeOK
<1>4. wAt'[w] = "probe" /\ wOp'[w] = o /\ wStep'[w] = opStep[o]
  BY <1>1 DEF TypeOK
<1>5. \A p \in Ops : p # o => SameRow(p)
  BY <1>1 DEF SameRow, TypeOK
<1>6. opStatus'[o] = "processing" /\ opMark'[o] = "dispatch" /\ opTask'[o] = "none" /\ opStep'[o] = opStep[o]
  BY <1>1 DEF TypeOK
<1>7. \A x \in Workers : wAt[x] # "idle" => wOp[x] \in Ops
  BY DEF TypeOK
<1>8. ASSUME NEW x \in Workers, wAt'[x] # "idle"
      PROVE  /\ opStatus'[wOp'[x]] = "processing" /\ opMark'[wOp'[x]] = "dispatch"
             /\ opTask'[wOp'[x]] = "none" /\ opStep'[wOp'[x]] = wStep'[x]
  <2>1. CASE x = w
    BY <1>4, <1>6, <2>1
  <2>2. CASE x # w
    <3>1. wAt[x] # "idle" /\ wOp'[x] = wOp[x] /\ wStep'[x] = wStep[x] /\ wOp[x] # o /\ wOp[x] \in Ops
      BY <1>2, <1>3, <1>7, <1>8, <2>2
    <3> QED  BY <1>5, <3>1 DEF CallOwn, SameRow
  <2> QED  BY <2>1, <2>2
<1>9. \A x, y \in Workers :
         wAt'[x] # "idle" /\ wAt'[y] # "idle" /\ wOp'[x] = wOp'[y] => x = y
  BY <1>2, <1>3, <1>4 DEF CallOwn
<1> QED  BY <1>8, <1>9 DEF CallOwn

LEMMA CallOwnCall ==
  ASSUME TypeOK, CallOwn, NEW w \in Workers, Call(w) \/ Crash(w)
  PROVE  CallOwn'
<1>1. CASE Probe(w) \/ Post(w) \/ Receive(w) \/ CallFails(w)
  <2>1. /\ wAt[w] # "idle" /\ UNCHANGED <<opRows, wOp, wStep>>
        /\ \A x \in Workers : x # w => wAt'[x] = wAt[x]
    BY <1>1 DEF Probe, Post, Receive, CallFails, rows, TypeOK
  <2> QED  BY <2>1 DEF CallOwn, opRows
<1>2. CASE ~(Probe(w) \/ Post(w) \/ Receive(w) \/ CallFails(w))
  <2>1. HangUp(w) /\ wAt[w] # "idle"
    BY <1>2 DEF Call, Crash, StoreTask, StoreDone, StoreInProgress, StoreUnknown, StoreRefused
  <2>2. wOp[w] \in Ops
    BY <2>1, CallHasOp
  <2>3. \A p \in Ops : p # wOp[w] => SameRow(p)
    BY <1>2, <2>2 DEF Call, Crash, StoreTask, StoreDone, StoreInProgress, StoreUnknown, StoreRefused,
           StepDone, SetMark, rows, opRows, SameRow, TypeOK
  <2>4. \A p \in Ops : p = wOp[w] => ~LiveCall(p)'
    <3>1. ASSUME NEW x \in Workers, wAt'[x] # "idle" PROVE wOp'[x] # wOp[w]
      BY <2>1, <3>1 DEF HangUp, CallOwn, TypeOK
    <3> QED  BY <3>1 DEF LiveCall
  <2> QED  BY <2>1, <2>3, <2>4, HangUpKeeps, CallOwnKept
<1> QED  BY <1>1, <1>2

LEMMA CallOwnStep == GraceCoversCall /\ TypeOK /\ PostInv /\ CallOwn /\ [Next]_vars => CallOwn'
<1> SUFFICES ASSUME GraceCoversCall, TypeOK, PostInv, CallOwn, [Next]_vars PROVE CallOwn'
  OBVIOUS
<1>1. CASE \/ \E o \in Ops, s \in Steps : Provider(o, s)
           \/ \E v \in Vms : Environment(v)
           \/ UNCHANGED vars
  <2>1. UNCHANGED <<rows, calls>>
    BY <1>1 DEF Provider, Accept, Drop, TaskOk, TaskFail, Environment, ForeignLock, ForeignUnlock,
           GuestPowerOff, vars
  <2> QED  BY <2>1 DEF rows, opRows, calls, CallOwn
<1> QED
  BY <1>1, CallOwnRequest, CallOwnAdvance, CallOwnPrepare, CallOwnCall DEF Next

-----------------------------------------------------------------------------
(* What a step does to what VmPromise sees *)

Quiet == UNCHANGED <<opRows, vmStatus, posts>>

Asked(o, v, t) ==
    /\ opStatus[o] = "none" /\ \A p \in Ops : Active(p) => opVm[p] # v
    /\ IF t = "create" THEN vmStatus[v] = "none" /\ vmStatus' = [vmStatus EXCEPT ![v] = "pending"]
                       ELSE vmStatus[v] = AllowedStatus[t] /\ UNCHANGED vmStatus
    /\ opStatus' = [opStatus EXCEPT ![o] = "pending"]
    /\ opType' = [opType EXCEPT ![o] = t]
    /\ opVm' = [opVm EXCEPT ![o] = v]
    /\ opStep' = [opStep EXCEPT ![o] = Step1[t]]
    /\ UNCHANGED <<opMark, opTask, posts>>

Begun(o) ==
    /\ opStatus[o] = "pending"
    /\ opStatus' = [opStatus EXCEPT ![o] = "processing"]
    /\ opMark' = [opMark EXCEPT ![o] = "dispatch"]
    /\ SetVm(o, IF opStep[o] = "delete" THEN "deleting" ELSE vmStatus[opVm[o]])
    /\ UNCHANGED <<opType, opVm, opStep, opTask, posts>>

Sent(o) ==
    /\ opStatus[o] = "processing" /\ opMark[o] = "dispatch"
    /\ posts[o][opStep[o]] = 0
    /\ posts' = [posts EXCEPT ![o][opStep[o]] = 1]
    /\ UNCHANGED <<opRows, vmStatus>>

Kept(o) ==
    /\ opStatus[o] = "processing"
    /\ \E m \in Marks \ {"dispatch"} : opMark' = [opMark EXCEPT ![o] = m]
    /\ UNCHANGED <<opStatus, opType, opVm, opStep, opTask, vmStatus, posts>>

Cloned(o) ==
    /\ opStatus[o] = "processing" /\ opStep[o] = "clone" /\ opMark[o] = "dispatch"
    /\ SetVm(o, "provisioning")
    /\ \E m \in Marks \ {"dispatch"} : opMark' = [opMark EXCEPT ![o] = m]
    /\ opTask' = [opTask EXCEPT ![o] = "clone"] \/ UNCHANGED opTask
    /\ UNCHANGED <<opStatus, opType, opVm, opStep, posts>>

Tasked(o) ==
    /\ opStatus[o] = "processing" /\ opStep[o] # "clone"
    /\ opMark' = [opMark EXCEPT ![o] = "plain"]
    /\ opTask' = [opTask EXCEPT ![o] = opStep[o]]
    /\ UNCHANGED <<opStatus, opType, opVm, opStep, vmStatus, posts>>

Moved(o) ==
    /\ opStatus[o] = "processing"
    /\ StepDone(o)
    /\ SetVm(o, VmAfter(opStep[o], vmStatus[opVm[o]]))
    /\ UNCHANGED posts

Ended(o) ==
    /\ opStatus[o] = "processing"
    /\ opStatus' = [opStatus EXCEPT ![o] = "failed"]
    /\ \E m \in Marks : opMark' = [opMark EXCEPT ![o] = m]
    /\ SetVm(o, IF opType[o] = "create" THEN "failed" ELSE vmStatus[opVm[o]])
    /\ UNCHANGED <<opType, opVm, opStep, opTask, posts>>

Seen ==
    \/ Quiet
    \/ \E o \in Ops, v \in Vms, t \in Types : Asked(o, v, t)
    \/ \E o \in Ops : Begun(o) \/ Sent(o) \/ Kept(o) \/ Cloned(o) \/ Tasked(o) \/ Moved(o) \/ Ended(o)

LEMMA StepsOfFacts ==
  /\ StepsOf["create"] = {"clone", "configure", "resize", "start"}
  /\ StepsOf["start"] = {"start"} /\ StepsOf["shutdown"] = {"shutdown"}
  /\ StepsOf["stop"] = {"stop"} /\ StepsOf["reboot"] = {"shutdown", "start"}
  /\ StepsOf["delete"] = {"delete"}
BY DEF StepsOf

\* The types with their steps.
LEMMA TypeSteps ==
  ASSUME TypeOK, StepFits, NEW o \in Ops
  PROVE  \/ opType[o] = "create" /\ opStep[o] \in {"clone", "configure", "resize", "start"}
         \/ opType[o] = "start" /\ opStep[o] = "start"
         \/ opType[o] = "shutdown" /\ opStep[o] = "shutdown"
         \/ opType[o] = "stop" /\ opStep[o] = "stop"
         \/ opType[o] = "reboot" /\ opStep[o] \in {"shutdown", "start"}
         \/ opType[o] = "delete" /\ opStep[o] = "delete"
<1>1. opType[o] \in Types /\ opStep[o] \in StepsOf[opType[o]]
  BY DEF TypeOK, StepFits
<1> QED  BY <1>1, StepsOfFacts DEF Types

\* Without a change of status nothing is set.
LEMMA SetSame ==
  ASSUME TypeOK, NEW o \in Ops, SetVm(o, vmStatus[opVm[o]])
  PROVE  UNCHANGED vmStatus
BY DEF SetVm, TypeOK

LEMMA SeenRequest ==
  ASSUME TypeOK, RowInv, Request PROVE \E o \in Ops, v \in Vms, t \in Types : Asked(o, v, t)
<1>1. ASSUME NEW o \in Ops, NEW v \in Vms, CreateVm(o, v) PROVE Asked(o, v, "create")
  <2>1. \A p \in Ops : Active(p) => opVm[p] # v
    BY <1>1 DEF CreateVm, RowInv, VmRows, Bad
  <2>2. Step1["create"] = "clone"
    BY DEF Step1
  <2> QED  BY <1>1, <2>1, <2>2 DEF CreateVm, Asked
<1>2. ASSUME NEW o \in Ops, NEW v \in Vms, NEW t \in Types \ {"create"}, EnqueueVmOperation(o, v, t)
      PROVE  Asked(o, v, t)
  BY <1>2 DEF EnqueueVmOperation, Asked
<1>3. "create" \in Types
  BY DEF Types
<1> QED  BY <1>1, <1>2, <1>3 DEF Request

LEMMA SeenAdvance ==
  ASSUME PromiseInv, NEW o \in Ops, Advance(o)
  PROVE  Quiet \/ Kept(o) \/ Moved(o) \/ Ended(o)
<1> USE DEF PromiseInv
<1>1. CASE ChoosePlacement(o)
  BY <1>1 DEF ChoosePlacement, Quiet
<1>2. CASE PollRunning(o)
  <2>1. MarkAfterPoll(o) \in Marks \ {"dispatch"}
    BY <1>2 DEF PollRunning, Polled, MarkAfterPoll, RowInv, TaskRows, TypeOK, Marks
  <2> QED  BY <1>2, <2>1 DEF PollRunning, Polled, SetMark, Kept
<1>3. CASE PollError(o)
  BY <1>3 DEF PollError, Polled, SetMark, Kept, Marks
<1>4. CASE PollSucceeded(o)
  <2>1. /\ opStatus[o] = "processing" /\ opTask[o] # "none" /\ StepDone(o) /\ UNCHANGED posts
        /\ SetVm(o, IF opStep[o] = "clone" THEN vmStatus[opVm[o]]
                                           ELSE VmAfter(opStep[o], vmStatus[opVm[o]]))
    BY <1>4 DEF PollSucceeded, Polled
  <2>2. CASE opStep[o] = "clone"
    <3>1. opType[o] = "create"
      BY <2>2, TypeSteps
    <3>2. vmStatus[opVm[o]] = "provisioning"
      BY <2>1, <2>2, <3>1 DEF ShownInv, CloneShown, Active
    <3>3. VmAfter(opStep[o], vmStatus[opVm[o]]) = "provisioning"
      BY <2>2 DEF VmAfter
    <3> QED  BY <2>1, <2>2, <3>2, <3>3 DEF Moved
  <2>3. CASE opStep[o] # "clone"
    BY <2>1, <2>3 DEF Moved
  <2> QED  BY <2>2, <2>3
<1>5. CASE PollFailed(o)
  <2>1. /\ opStatus[o] = "processing"
        /\ opStatus' = [opStatus EXCEPT ![o] = "failed"]
        /\ UNCHANGED <<opType, opVm, opStep, opTask, posts>>
    BY <1>5 DEF PollFailed, Polled
  <2>3. \E m \in Marks : opMark' = [opMark EXCEPT ![o] = m]
    <3>1. PICK m \in Marks : m = IF opType[o] \in {"create", "reboot"} THEN "plain" ELSE opMark[o]
      BY DEF TypeOK, Marks
    <3> QED  BY <1>5, <3>1 DEF PollFailed
  <2>2. SetVm(o, IF opType[o] = "create" THEN "failed" ELSE vmStatus[opVm[o]])
    <3>1. CASE opType[o] = "create"
      BY <1>5, <3>1 DEF PollFailed
    <3>2. CASE opType[o] = "delete"
      <4>1. vmStatus[opVm[o]] = "deleting"
        BY <2>1, <3>2 DEF ShownInv, Shows, Active
      <4>2. SetVm(o, "deleting")
        BY <1>5, <3>2 DEF PollFailed
      <4> QED  BY <3>2, <4>1, <4>2
    <3>3. CASE opType[o] \notin {"create", "delete"}
      BY <1>5, <3>3 DEF PollFailed
    <3> QED  BY <3>1, <3>2, <3>3
  <2> QED  BY <2>1, <2>2, <2>3 DEF Ended
<1>6. CASE ReconcileConfirmed(o)
  BY <1>6 DEF ReconcileConfirmed, Reconcilable, Moved
<1>7. CASE ReconcileUnknown(o)
  BY <1>7 DEF ReconcileUnknown, Reconcilable, SetMark, Kept, Marks
<1> QED
  BY <1>1, <1>2, <1>3, <1>4, <1>5, <1>6, <1>7 DEF Advance

LEMMA SeenPrepare ==
  ASSUME NEW w \in Workers, NEW o \in Ops, Prepare(w, o) PROVE Begun(o)
<1>1. SetVm(o, IF opStep[o] = "delete" THEN "deleting" ELSE vmStatus[opVm[o]])
  BY DEF Prepare, SetVm
<1> QED  BY <1>1 DEF Prepare, Begun

LEMMA SeenCall ==
  ASSUME PromiseInv, NEW w \in Workers, Call(w) \/ Crash(w)
  PROVE  \/ Quiet
         \/ /\ wOp[w] \in Ops
            /\ Sent(wOp[w]) \/ Kept(wOp[w]) \/ Cloned(wOp[w]) \/ Tasked(wOp[w]) \/ Moved(wOp[w])
<1> USE DEF PromiseInv
<1>1. CASE Probe(w) \/ Receive(w) \/ CallFails(w) \/ StoreRefused(w) \/ Crash(w)
  BY <1>1 DEF Probe, Receive, CallFails, StoreRefused, Crash, rows, Quiet
<1>2. CASE ~(Probe(w) \/ Receive(w) \/ CallFails(w) \/ StoreRefused(w) \/ Crash(w))
  <2> DEFINE o == wOp[w]
  <2>1. /\ wAt[w] # "idle"
        /\ Post(w) \/ StoreTask(w) \/ StoreDone(w) \/ StoreInProgress(w) \/ StoreUnknown(w)
    BY <1>2 DEF Call, Post, StoreTask, StoreDone, StoreInProgress, StoreUnknown
  <2>2. /\ o \in Ops /\ opStatus[o] = "processing" /\ opMark[o] = "dispatch" /\ opTask[o] = "none"
        /\ opStep[o] = wStep[w] /\ wStep[w] \in Steps
    BY <2>1, CallHasOp DEF CallOwn
  <2>3. CASE Post(w)
    <3>1. posts[o][opStep[o]] = 0
      BY <2>2, <2>3 DEF Post, PostInv, NotPostedYet
    <3>2. posts' = [posts EXCEPT ![o][opStep[o]] = 1]
      BY <2>2, <2>3, <3>1 DEF Post, TypeOK
    <3>3. Sent(o)
      BY <2>2, <2>3, <3>1, <3>2 DEF Post, Sent, rows
    <3> QED  BY <2>2, <3>3
  <2>4. CASE StoreTask(w)
    <3>1. CASE wStep[w] = "clone"
      <4>1. Cloned(o)
        BY <2>2, <2>4, <3>1 DEF StoreTask, Cloned, Marks
      <4> QED  BY <2>2, <4>1
    <3>2. CASE wStep[w] # "clone"
      <4>1. UNCHANGED vmStatus
        BY <2>2, <2>4, <3>2, SetSame DEF StoreTask
      <4>2. Tasked(o)
        BY <2>2, <2>4, <3>2, <4>1 DEF StoreTask, Tasked
      <4> QED  BY <2>2, <4>2
    <3> QED  BY <3>1, <3>2
  <2>5. CASE StoreDone(w)
    <3>1. Moved(o)
      BY <2>2, <2>5 DEF StoreDone, Moved
    <3> QED  BY <2>2, <3>1
  <2>6. CASE StoreInProgress(w)
    <3>1. CASE wStep[w] = "clone"
      <4>1. Cloned(o)
        BY <2>2, <2>6, <3>1 DEF StoreInProgress, SetMark, Cloned, Marks
      <4> QED  BY <2>2, <4>1
    <3>2. CASE wStep[w] # "clone"
      <4>1. UNCHANGED vmStatus
        BY <2>2, <2>6, <3>2, SetSame DEF StoreInProgress
      <4>2. Kept(o)
        BY <2>2, <2>6, <4>1 DEF StoreInProgress, SetMark, Kept, Marks
      <4> QED  BY <2>2, <4>2
    <3> QED  BY <3>1, <3>2
  <2>7. CASE StoreUnknown(w)
    <3>1. Kept(o)
      BY <2>2, <2>7 DEF StoreUnknown, SetMark, Kept, Marks
    <3> QED  BY <2>2, <3>1
  <2> QED  BY <2>1, <2>3, <2>4, <2>5, <2>6, <2>7
<1> QED  BY <1>1, <1>2

LEMMA SeenStep == PromiseInv /\ [Next]_vars => Seen
<1> SUFFICES ASSUME PromiseInv, [Next]_vars PROVE Seen
  OBVIOUS
<1>1. CASE \/ \E o \in Ops, s \in Steps : Provider(o, s)
           \/ \E v \in Vms : Environment(v)
           \/ UNCHANGED vars
  <2>1. UNCHANGED <<rows, posts>>
    BY <1>1 DEF Provider, Accept, Drop, TaskOk, TaskFail, Environment, ForeignLock, ForeignUnlock,
           GuestPowerOff, vars
  <2> QED  BY <2>1 DEF rows, Quiet, Seen
<1>2. TypeOK /\ RowInv
  BY DEF PromiseInv
<1> QED
  BY <1>1, <1>2, SeenRequest, SeenAdvance, SeenPrepare, SeenCall DEF Next, Seen

-----------------------------------------------------------------------------
(* Every effect keeps what the rows show *)

Fits == StepFits /\ ShownInv /\ TaskMatchesStep

\* A change of one active row that sets its VM.
LEMMA OneRowFits ==
  ASSUME TypeOK, TypeOK', RowInv, Fits, NEW o \in Ops, NEW st, Active(o), SetVm(o, st),
         UNCHANGED <<opType, opVm>>, \A p \in Ops : p # o => SameRow(p),
         opStep'[o] \in StepsOf[opType[o]],
         Active(o)' => Shows(o, st)' /\ CloneShown(o)',
         opTask'[o] # "none" => opTask'[o] = opStep'[o]
  PROVE  Fits'
<1>1. StepFits'
  BY DEF Fits, StepFits, SameRow
<1>2. TaskMatchesStep'
  BY DEF Fits, TaskMatchesStep, SameRow
<1>3. ShownInv'
  <2>1. vmStatus'[opVm[o]] = st /\ \A v \in Vms : v # opVm[o] => vmStatus'[v] = vmStatus[v]
    BY DEF SetVm, TypeOK
  <2>2. ASSUME NEW p \in Ops, p # o, Active(p)'
        PROVE  Shows(p, vmStatus[opVm[p]])' /\ CloneShown(p)'
    <3>1. Active(p) /\ SameRow(p)
      BY <2>2 DEF Active, SameRow
    <3>2. opVm[p] # opVm[o]
      BY <2>2, <3>1 DEF RowInv, VmRows
    <3>3. vmStatus'[opVm[p]] = vmStatus[opVm[p]]
      BY <2>1, <3>2 DEF TypeOK
    <3>4. Shows(p, vmStatus[opVm[p]]) /\ CloneShown(p)
      BY <3>1 DEF Fits, ShownInv
    <3> QED  BY <3>1, <3>3, <3>4 DEF Shows, CloneShown, SameRow
  <2> QED  BY <2>1, <2>2 DEF ShownInv
<1> QED  BY <1>1, <1>2, <1>3 DEF Fits


\* The moves of a finished step, one for each step of each type.
Goes(o, t, s, n, st) ==
    /\ opType[o] = t /\ opStep[o] = s
    /\ opStatus' = [opStatus EXCEPT ![o] = "pending"]
    /\ opStep' = [opStep EXCEPT ![o] = n]
    /\ opMark' = [opMark EXCEPT ![o] = "plain"]
    /\ SetVm(o, st)

Succeeds(o, t, s, st) ==
    /\ opType[o] = t /\ opStep[o] = s
    /\ opStatus' = [opStatus EXCEPT ![o] = "succeeded"]
    /\ opStep' = [opStep EXCEPT ![o] = s]
    /\ opMark' = [opMark EXCEPT ![o] = "complete"]
    /\ SetVm(o, st)

GoesOn(o) ==
    \/ Goes(o, "create", "clone", "configure", "provisioning")
    \/ Goes(o, "create", "configure", "resize", "provisioning")
    \/ Goes(o, "create", "resize", "start", "provisioning")
    \/ Goes(o, "reboot", "shutdown", "start", "stopped")

SucceedsNow(o) ==
    \/ Succeeds(o, "create", "start", "running")
    \/ Succeeds(o, "start", "start", "running")
    \/ Succeeds(o, "reboot", "start", "running")
    \/ Succeeds(o, "shutdown", "shutdown", "stopped")
    \/ Succeeds(o, "stop", "stop", "stopped")
    \/ Succeeds(o, "delete", "delete", "deleted")

LEMMA MovedCases ==
  ASSUME PromiseInv, NEW o \in Ops, Moved(o)
  PROVE  /\ opStatus[o] = "processing" /\ opTask' = [opTask EXCEPT ![o] = "none"]
         /\ UNCHANGED <<opType, opVm, posts>>
         /\ GoesOn(o) \/ SucceedsNow(o)
<1> USE DEF PromiseInv
<1> DEFINE n == NextStep(opType[o], opStep[o])
           a == VmAfter(opStep[o], vmStatus[opVm[o]])
<1>1. /\ opStatus[o] = "processing"
      /\ opStatus' = [opStatus EXCEPT ![o] = IF n = "none" THEN "succeeded" ELSE "pending"]
      /\ opStep' = [opStep EXCEPT ![o] = IF n = "none" THEN @ ELSE n]
      /\ opMark' = [opMark EXCEPT ![o] = IF n = "none" THEN "complete" ELSE "plain"]
      /\ opTask' = [opTask EXCEPT ![o] = "none"]
      /\ SetVm(o, a) /\ UNCHANGED <<opType, opVm, posts>>
  BY DEF Moved, StepDone
<1>2. Shows(o, vmStatus[opVm[o]])
  BY <1>1 DEF ShownInv, Active
<1>3. CASE opType[o] = "create" /\ opStep[o] = "clone"
  <2>1. n = "configure" /\ a = "provisioning"
    BY <1>3 DEF NextStep, VmAfter
  <2> HIDE DEF n, a
  <2> QED  BY <1>1, <1>3, <2>1 DEF GoesOn, Goes
<1>4. CASE opType[o] = "create" /\ opStep[o] = "configure"
  <2>1. n = "resize" /\ a = "provisioning"
    BY <1>2, <1>4 DEF NextStep, VmAfter, Shows
  <2> HIDE DEF n, a
  <2> QED  BY <1>1, <1>4, <2>1 DEF GoesOn, Goes
<1>5. CASE opType[o] = "create" /\ opStep[o] = "resize"
  <2>1. n = "start" /\ a = "provisioning"
    BY <1>2, <1>5 DEF NextStep, VmAfter, Shows
  <2> HIDE DEF n, a
  <2> QED  BY <1>1, <1>5, <2>1 DEF GoesOn, Goes
<1>6. CASE opType[o] = "reboot" /\ opStep[o] = "shutdown"
  <2>1. n = "start" /\ a = "stopped"
    BY <1>6 DEF NextStep, VmAfter
  <2> HIDE DEF n, a
  <2> QED  BY <1>1, <1>6, <2>1 DEF GoesOn, Goes
<1>7. CASE opStep[o] = "start"
  <2>1. n = "none" /\ a = "running"
    BY <1>7 DEF NextStep, VmAfter
  <2>2. opType[o] \in {"create", "start", "reboot"}
    BY <1>7, TypeSteps
  <2> HIDE DEF n, a
  <2> QED  BY <1>1, <1>7, <2>1, <2>2 DEF SucceedsNow, Succeeds
<1>8. CASE opType[o] \in {"shutdown", "stop"}
  <2>1. opStep[o] = opType[o]
    BY <1>8, TypeSteps
  <2>2. n = "none" /\ a = "stopped"
    BY <1>8, <2>1 DEF NextStep, VmAfter
  <2> HIDE DEF n, a
  <2> QED  BY <1>1, <1>8, <2>1, <2>2 DEF SucceedsNow, Succeeds
<1>9. CASE opType[o] = "delete"
  <2>1. opStep[o] = "delete"
    BY <1>9, TypeSteps
  <2>2. n = "none" /\ a = "deleted"
    BY <1>9, <2>1 DEF NextStep, VmAfter
  <2> HIDE DEF n, a
  <2> QED  BY <1>1, <1>9, <2>1, <2>2 DEF SucceedsNow, Succeeds
<1> HIDE DEF n, a
<1>10. \/ opType[o] = "create" /\ opStep[o] \in {"clone", "configure", "resize"}
       \/ opType[o] = "reboot" /\ opStep[o] = "shutdown"
       \/ opStep[o] = "start" \/ opType[o] \in {"shutdown", "stop", "delete"}
  BY TypeSteps
<1> QED  BY <1>1, <1>3, <1>4, <1>5, <1>6, <1>7, <1>8, <1>9, <1>10

LEMMA MovedFits ==
  ASSUME PromiseInv, TypeOK', NEW o \in Ops, Moved(o)
  PROVE  Fits'
<1>1. /\ opStatus[o] = "processing" /\ opTask' = [opTask EXCEPT ![o] = "none"]
      /\ UNCHANGED <<opType, opVm, posts>>
      /\ GoesOn(o) \/ SucceedsNow(o)
  BY MovedCases
<1>2. TypeOK /\ RowInv /\ Fits /\ Active(o)
  BY <1>1 DEF PromiseInv, Fits, Active
<1>3. \A p \in Ops : p # o => SameRow(p)
  BY <1>1, <1>2 DEF GoesOn, SucceedsNow, Goes, Succeeds, SameRow, TypeOK
<1>4. opTask'[o] = "none"
  BY <1>1, <1>2 DEF TypeOK
<1>5. CASE SucceedsNow(o)
  <2>1. PICK st : SetVm(o, st)
    BY <1>5 DEF SucceedsNow, Succeeds
  <2>2. ~Active(o)' /\ opStep'[o] = opStep[o]
    BY <1>2, <1>5 DEF SucceedsNow, Succeeds, Active, TypeOK
  <2>3. opStep'[o] \in StepsOf[opType[o]]
    BY <1>2, <2>2 DEF Fits, StepFits
  <2> QED  BY <1>1, <1>2, <1>3, <1>4, <2>1, <2>2, <2>3, OneRowFits
<1>6. CASE GoesOn(o)
  <2>1. PICK t \in Types, s \in Steps, n \in Steps, st \in VmStatus :
           /\ Goes(o, t, s, n, st)
           /\ \/ t = "create" /\ n \in {"configure", "resize", "start"} /\ st = "provisioning"
              \/ t = "reboot" /\ n = "start" /\ st = "stopped"
    BY <1>6 DEF GoesOn, Types, Steps, VmStatus
  <2>2. SetVm(o, st) /\ opStep'[o] = n /\ opType'[o] = t /\ opType[o] = t
    BY <1>1, <1>2, <2>1 DEF Goes, TypeOK
  <2>3. opStep'[o] \in StepsOf[opType[o]]
    BY <2>1, <2>2, StepsOfFacts
  <2>4. Shows(o, st)' /\ CloneShown(o)'
    BY <2>1, <2>2 DEF Shows, CloneShown
  <2> QED  BY <1>1, <1>2, <1>3, <1>4, <2>2, <2>3, <2>4, OneRowFits
<1> QED  BY <1>1, <1>5, <1>6

LEMMA QuietFits ==
  ASSUME TypeOK, Fits, UNCHANGED <<opRows, vmStatus>> PROVE Fits'
BY DEF opRows, Fits, StepFits, ShownInv, TaskMatchesStep, Shows, CloneShown, Active

\* The new row has no task yet, and its VM no other active row.
LEMMA AskedFits ==
  ASSUME TypeOK, RowInv, Fits, NEW o \in Ops, NEW v \in Vms, NEW t \in Types, Asked(o, v, t)
  PROVE  Fits'
<1>1. /\ opStatus'[o] = "pending" /\ opType'[o] = t /\ opVm'[o] = v /\ opStep'[o] = Step1[t]
      /\ \A p \in Ops : p # o => SameRow(p) /\ opType'[p] = opType[p] /\ opVm'[p] = opVm[p]
      /\ UNCHANGED <<opTask, opMark>>
  BY DEF Asked, SameRow, TypeOK
<1>2. opTask[o] = "none"
  BY DEF Asked, RowInv, TaskRows
<1>3. \A x \in Vms : x # v => vmStatus'[x] = vmStatus[x]
  BY DEF Asked, TypeOK
<1>4. Step1[t] \in StepsOf[t] /\ Shows(o, vmStatus[opVm[o]])'
  <2>1. /\ Step1["create"] = "clone" /\ Step1["start"] = "start" /\ Step1["shutdown"] = "shutdown"
        /\ Step1["stop"] = "stop" /\ Step1["reboot"] = "shutdown" /\ Step1["delete"] = "delete"
    BY DEF Step1
  <2>2. /\ AllowedStatus["start"] = "stopped" /\ AllowedStatus["shutdown"] = "running"
        /\ AllowedStatus["stop"] = "running" /\ AllowedStatus["reboot"] = "running"
        /\ AllowedStatus["delete"] = "stopped"
    BY DEF AllowedStatus
  <2>3. vmStatus'[v] = IF t = "create" THEN "pending" ELSE AllowedStatus[t]
    BY DEF Asked, TypeOK
  <2> QED  BY <1>1, <2>1, <2>2, <2>3, StepsOfFacts DEF Types, Shows
<1>5. CloneShown(o)'
  BY <1>1, <1>2 DEF Asked, CloneShown, TypeOK
<1>6. ASSUME NEW p \in Ops, p # o, Active(p)'
      PROVE  Shows(p, vmStatus[opVm[p]])' /\ CloneShown(p)'
  <2>1. Active(p) /\ SameRow(p) /\ opType'[p] = opType[p] /\ opVm'[p] = opVm[p]
    BY <1>1, <1>6 DEF Active, SameRow
  <2>2. opVm[p] # v /\ opVm[p] \in Vms
    BY <2>1 DEF Asked, TypeOK
  <2>3. vmStatus'[opVm'[p]] = vmStatus[opVm[p]]
    BY <1>3, <2>1, <2>2
  <2>4. Shows(p, vmStatus[opVm[p]]) /\ CloneShown(p)
    BY <2>1 DEF Fits, ShownInv
  <2> QED  BY <2>1, <2>3, <2>4 DEF Shows, CloneShown, SameRow
<1>7. ShownInv'
  BY <1>4, <1>5, <1>6 DEF ShownInv
<1>8. StepFits' /\ TaskMatchesStep'
  BY <1>1, <1>2, <1>4 DEF Fits, StepFits, TaskMatchesStep, SameRow
<1> QED  BY <1>7, <1>8 DEF Fits

LEMMA RowEffectFits ==
  ASSUME TypeOK, TypeOK', RowInv, Fits, NEW o \in Ops,
         Begun(o) \/ Kept(o) \/ Cloned(o) \/ Tasked(o) \/ Ended(o)
  PROVE  Fits'
<1>1. /\ Active(o) /\ UNCHANGED <<opType, opVm, opStep>>
      /\ \A p \in Ops : p # o => SameRow(p)
  BY DEF Begun, Kept, Cloned, Tasked, Ended, Active, SameRow, TypeOK
<1>2. opStep'[o] \in StepsOf[opType[o]]
  BY <1>1 DEF Fits, StepFits
<1>3. Shows(o, vmStatus[opVm[o]]) /\ CloneShown(o)
  BY <1>1 DEF Fits, ShownInv
<1>4. CASE Begun(o)
  <2>1. opTask[o] = "none"
    BY <1>4 DEF Begun, RowInv, TaskRows
  <2>2. PICK st \in VmStatus : st = IF opStep[o] = "delete" THEN "deleting" ELSE vmStatus[opVm[o]]
    BY DEF TypeOK, VmStatus
  <2>3. SetVm(o, st) /\ opStatus'[o] = "processing" /\ opTask'[o] = "none" /\ vmStatus'[opVm[o]] = st
    BY <1>4, <2>1, <2>2 DEF Begun, SetVm, TypeOK
  <2>4. Shows(o, st)' /\ CloneShown(o)'
    BY <1>1, <1>3, <1>4, <2>2, <2>3, TypeSteps DEF Fits, Begun, Shows, CloneShown
  <2> QED  BY <1>1, <1>2, <2>3, <2>4, OneRowFits
<1>5. CASE Kept(o)
  <2>1. PICK st \in VmStatus : st = vmStatus[opVm[o]]
    BY DEF TypeOK
  <2>2. SetVm(o, st) /\ UNCHANGED <<opStatus, opTask, vmStatus>> /\ opMark'[o] # "dispatch"
    BY <1>5, <2>1 DEF Kept, SetVm, TypeOK
  <2>3. Shows(o, st)' /\ CloneShown(o)'
    BY <1>1, <1>3, <1>5, <2>1, <2>2 DEF Kept, Shows, CloneShown
  <2>4. opTask'[o] # "none" => opTask'[o] = opStep'[o]
    BY <1>1, <2>2 DEF Fits, TaskMatchesStep
  <2> QED  BY <1>1, <1>2, <2>2, <2>3, <2>4, OneRowFits
<1>6. CASE Cloned(o)
  <2>1. /\ SetVm(o, "provisioning") /\ vmStatus'[opVm[o]] = "provisioning"
        /\ opStatus'[o] = "processing" /\ opMark'[o] # "dispatch"
    BY <1>6 DEF Cloned, SetVm, TypeOK, VmStatus
  <2>2. opType'[o] = "create" /\ opStep'[o] = "clone"
    BY <1>1, <1>6, TypeSteps DEF Cloned, Fits
  <2>3. Shows(o, "provisioning")' /\ CloneShown(o)'
    BY <1>1, <2>1, <2>2 DEF Shows, CloneShown
  <2>4. opTask'[o] # "none" => opTask'[o] = opStep'[o]
    BY <1>1, <1>6, <2>2 DEF Fits, TaskMatchesStep, Cloned, TypeOK
  <2> QED  BY <1>1, <1>2, <2>1, <2>3, <2>4, OneRowFits
<1>7. CASE Tasked(o)
  <2>1. PICK st \in VmStatus : st = vmStatus[opVm[o]]
    BY DEF TypeOK
  <2>2. /\ SetVm(o, st) /\ UNCHANGED <<opStatus, vmStatus>> /\ opStep[o] # "clone"
        /\ opTask'[o] = opStep'[o]
    BY <1>1, <1>7, <2>1 DEF Tasked, SetVm, TypeOK
  <2>3. Shows(o, st)' /\ CloneShown(o)'
    BY <1>1, <1>3, <2>1, <2>2 DEF Shows, CloneShown
  <2> QED  BY <1>1, <1>2, <2>2, <2>3, OneRowFits
<1>8. CASE Ended(o)
  <2>1. PICK st : SetVm(o, st)
    BY <1>8 DEF Ended
  <2>2. ~Active(o)' /\ UNCHANGED opTask
    BY <1>8 DEF Ended, Active, TypeOK
  <2>3. opTask'[o] # "none" => opTask'[o] = opStep'[o]
    BY <1>1, <2>2 DEF Fits, TaskMatchesStep
  <2> QED  BY <1>1, <1>2, <2>1, <2>2, <2>3, OneRowFits
<1> QED  BY <1>4, <1>5, <1>6, <1>7, <1>8

LEMMA FitsStep ==
  ASSUME PromiseInv, TypeOK', Seen PROVE Fits'
<1>1. TypeOK /\ RowInv /\ Fits
  BY DEF PromiseInv, Fits
<1>2. CASE Quiet \/ \E o \in Ops : Sent(o)
  BY <1>1, <1>2, QuietFits DEF Quiet, Sent
<1> QED
  BY <1>1, <1>2, AskedFits, RowEffectFits, MovedFits DEF Seen

LEMMA PromiseInit == Init => PromiseInv
BY TypeInit, PostInit, RowInit
   DEF Init, PromiseInv, CallOwn, StepFits, StepsOf, ShownInv, Active, TaskMatchesStep

LEMMA PromiseStep == GraceCoversCall /\ PromiseInv /\ [Next]_vars => PromiseInv'
<1> SUFFICES ASSUME GraceCoversCall, PromiseInv, [Next]_vars PROVE PromiseInv'
  OBVIOUS
<1>1. TypeOK'
  BY TypeStep DEF PromiseInv
<1>2. PostInv'
  BY <1>1, PostAdvance, PostCall, PostPrepare, PostRequest, PostElsewhere DEF PromiseInv, Next
<1>3. RowInv'
  BY EffectOfStep, RowStep DEF PromiseInv
<1>4. CallOwn'
  BY CallOwnStep DEF PromiseInv
<1>5. Fits'
  BY <1>1, SeenStep, FitsStep
<1> QED  BY <1>1, <1>2, <1>3, <1>4, <1>5 DEF PromiseInv, Fits

-----------------------------------------------------------------------------
(* Every effect is a step of VmPromise or none *)

LEMMA PathFacts ==
  /\ Promise!Path["create"] = <<"pending", "provisioning", "running">>
  /\ Promise!Path["start"] = <<"stopped", "running">>
  /\ Promise!Path["shutdown"] = <<"running", "stopped">>
  /\ Promise!Path["stop"] = <<"running", "stopped">>
  /\ Promise!Path["reboot"] = <<"running", "stopped", "running">>
  /\ Promise!Path["delete"] = <<"stopped", "deleting", "deleted">>
  /\ DOMAIN Promise!Path = Types
BY DEF Promise!Path, Types

LEMMA PlanFacts ==
  /\ Promise!Plan["create"] = << <<"clone", 1>>, <<"configure", 2>>, <<"resize", 2>>, <<"start", 2>> >>
  /\ Promise!Plan["start"] = << <<"start", 1>> >>
  /\ Promise!Plan["shutdown"] = << <<"shutdown", 1>> >>
  /\ Promise!Plan["stop"] = << <<"stop", 1>> >>
  /\ Promise!Plan["reboot"] = << <<"shutdown", 1>>, <<"start", 2>> >>
  /\ Promise!Plan["delete"] = << <<"delete", 2>> >>
BY DEF Promise!Plan

\* A request is asked for, open, or as its row says.
LEMMA SameStates ==
  ASSUME \A o \in Ops : RequestState(o)' = RequestState(o)
  PROVE  UNCHANGED [o \in Ops |-> RequestState(o)]
OBVIOUS

LEMMA StutterFact ==
  ASSUME UNCHANGED <<opType, opVm, vmStatus, posts>>,
         \A o \in Ops : RequestState(o)' = RequestState(o)
  PROVE  UNCHANGED Promise!vars
BY SameStates DEF Promise!vars

\* The VM of an open request goes from place i of the path to the next one.
LEMMA AdvanceFact ==
  ASSUME TypeOK, NEW o \in Ops, Active(o), NEW i \in {1, 2},
         i \in 1..(Len(Promise!Path[opType[o]]) - 1),
         vmStatus[opVm[o]] = Promise!Path[opType[o]][i],
         SetVm(o, Promise!Path[opType[o]][i + 1]),
         UNCHANGED <<opType, opVm, posts>>,
         \A p \in Ops : p # o => opStatus'[p] = opStatus[p],
         IF i + 1 = Len(Promise!Path[opType[o]]) THEN opStatus'[o] = "succeeded" ELSE Active(o)'
  PROVE  Promise!Next
<1>1. RequestState(o) = "open" /\ \A p \in Ops : p # o => RequestState(p)' = RequestState(p)
  BY DEF RequestState, Active
<1>2. CASE i + 1 = Len(Promise!Path[opType[o]])
  <2>1. RequestState(o)' = "succeeded"
    BY <1>2 DEF RequestState, Active
  <2>2. [p \in Ops |-> RequestState(p)]' = [[p \in Ops |-> RequestState(p)] EXCEPT ![o] = "succeeded"]
    BY <1>1, <2>1
  <2>3. Promise!Advance(o, i)
    BY <1>1, <1>2, <2>2 DEF Promise!Advance, SetVm
  <2> QED  BY <2>3 DEF Promise!Next
<1>3. CASE i + 1 # Len(Promise!Path[opType[o]])
  <2>1. RequestState(o)' = "open"
    BY <1>3 DEF RequestState
  <2>2. UNCHANGED [p \in Ops |-> RequestState(p)]
    BY <1>1, <2>1
  <2>3. Promise!Advance(o, i)
    BY <1>1, <1>3, <2>2 DEF Promise!Advance, SetVm
  <2> QED  BY <2>3 DEF Promise!Next
<1> QED  BY <1>2, <1>3

LEMMA FirstAdvance ==
  ASSUME TypeOK, NEW o \in Ops, Active(o), Len(Promise!Path[opType[o]]) \in {2, 3},
         vmStatus[opVm[o]] = Promise!Path[opType[o]][1],
         SetVm(o, Promise!Path[opType[o]][2]),
         UNCHANGED <<opType, opVm, posts>>,
         \A p \in Ops : p # o => opStatus'[p] = opStatus[p],
         IF Len(Promise!Path[opType[o]]) = 2 THEN opStatus'[o] = "succeeded" ELSE Active(o)'
  PROVE  Promise!Next
<1>1. /\ 1 \in {1, 2} /\ 1 \in 1..(Len(Promise!Path[opType[o]]) - 1) /\ 1 + 1 = 2
      /\ IF 1 + 1 = Len(Promise!Path[opType[o]]) THEN opStatus'[o] = "succeeded" ELSE Active(o)'
  OBVIOUS
<1>2. SetVm(o, Promise!Path[opType[o]][1 + 1])
  BY <1>1
<1> QED  BY <1>1, <1>2, AdvanceFact

LEMMA LastAdvance ==
  ASSUME TypeOK, NEW o \in Ops, Active(o), Len(Promise!Path[opType[o]]) = 3,
         vmStatus[opVm[o]] = Promise!Path[opType[o]][2],
         SetVm(o, Promise!Path[opType[o]][3]),
         UNCHANGED <<opType, opVm, posts>>,
         \A p \in Ops : p # o => opStatus'[p] = opStatus[p],
         opStatus'[o] = "succeeded"
  PROVE  Promise!Next
<1>1. /\ 2 \in {1, 2} /\ 2 \in 1..(Len(Promise!Path[opType[o]]) - 1) /\ 2 + 1 = 3
      /\ IF 2 + 1 = Len(Promise!Path[opType[o]]) THEN opStatus'[o] = "succeeded" ELSE Active(o)'
  OBVIOUS
<1>2. SetVm(o, Promise!Path[opType[o]][2 + 1])
  BY <1>1
<1> QED  BY <1>1, <1>2, AdvanceFact

LEMMA AskStep ==
  ASSUME TypeOK, NEW o \in Ops, NEW v \in Vms, NEW t \in Types, Asked(o, v, t)
  PROVE  Promise!Next
<1>1. RequestState(o) = "none" /\ RequestState(o)' = "open"
  BY DEF Asked, RequestState, Active, TypeOK
<1>2. \A p \in Ops : p # o => RequestState(p)' = RequestState(p)
  BY DEF Asked, RequestState, Active, TypeOK
<1>3. [p \in Ops |-> RequestState(p)]' = [[p \in Ops |-> RequestState(p)] EXCEPT ![o] = "open"]
  BY <1>1, <1>2
<1>4. Promise!Open(v) = {}
  BY DEF Promise!Open, RequestState, Active, Asked, TypeOK, OpStatus
<1>5. /\ vmStatus[v] = IF t = "create" THEN "none" ELSE Promise!Path[t][1]
      /\ vmStatus' = [vmStatus EXCEPT ![v] = Promise!Path[t][1]]
  <2>1. CASE t = "create"
    BY <2>1, PathFacts DEF Asked
  <2>2. CASE t # "create"
    <3>1. AllowedStatus[t] = Promise!Path[t][1]
      BY <2>2, PathFacts DEF AllowedStatus, Types
    <3> QED  BY <2>2, <3>1 DEF Asked, TypeOK
  <2> QED  BY <2>1, <2>2
<1>6. Promise!Ask(o, v, t)
  BY <1>1, <1>3, <1>4, <1>5 DEF Promise!Ask, Asked
<1> QED  BY <1>6, PathFacts DEF Promise!Next

LEMMA SendFact ==
  ASSUME NEW o \in Ops, Sent(o), NEW i \in 1..Len(Promise!Plan[opType[o]]),
         Promise!Plan[opType[o]][i][1] = opStep[o],
         vmStatus[opVm[o]] = Promise!Path[opType[o]][Promise!Plan[opType[o]][i][2]],
         \A j \in i..Len(Promise!Plan[opType[o]]) : posts[o][Promise!Plan[opType[o]][j][1]] = 0
  PROVE  Promise!Next
<1>1. RequestState(o) = "open"
  BY DEF Sent, RequestState, Active
<1>2. UNCHANGED [p \in Ops |-> RequestState(p)]
  BY DEF Sent, opRows, RequestState, Active
<1>3. Promise!Send(o, i)
  BY <1>1, <1>2 DEF Promise!Send, Sent, opRows
<1> QED  BY <1>3 DEF Promise!Next

\* A step of higher rank than the row's has not been sent.
LEMMA LaterUnsent ==
  ASSUME TypeOK, PostInv, NEW o \in Ops, NEW s \in Steps, Rank[opStep[o]] < Rank[s]
  PROVE  posts[o][s] = 0
<1>1. Rank[opStep[o]] \in Nat /\ Rank[s] \in Nat
  BY RankType DEF TypeOK
<1> QED  BY <1>1 DEF PostInv, PostedBehind, Behind

LEMMA SendStep == ASSUME PromiseInv, NEW o \in Ops, Sent(o) PROVE Promise!Next
<1> USE DEF PromiseInv
<1>1. /\ Shows(o, vmStatus[opVm[o]]) /\ CloneShown(o) /\ posts[o][opStep[o]] = 0
      /\ opStatus[o] = "processing" /\ opMark[o] = "dispatch"
  BY DEF Sent, ShownInv, Active
<1>2. \A s \in Steps : Rank[opStep[o]] < Rank[s] => posts[o][s] = 0
  BY LaterUnsent
<1>3. /\ Rank["clone"] = 1 /\ Rank["configure"] = 2 /\ Rank["resize"] = 3 /\ Rank["start"] = 4
      /\ Rank["shutdown"] = 3
      /\ {"clone", "configure", "resize", "start", "shutdown"} \subseteq Steps
  BY DEF Rank, Steps
<1>4. CASE opType[o] = "create"
  <2>1. Len(Promise!Plan[opType[o]]) = 4
    BY <1>4, PlanFacts
  <2>2. CASE opStep[o] = "clone"
    <3>1. vmStatus[opVm[o]] = "pending"
      BY <1>1, <1>4, <2>2 DEF CloneShown
    <3>2. posts[o]["configure"] = 0 /\ posts[o]["resize"] = 0 /\ posts[o]["start"] = 0
      BY <1>2, <1>3, <2>2
    <3>3. \A j \in 1..4 : posts[o][Promise!Plan[opType[o]][j][1]] = 0
      BY <1>1, <1>4, <2>2, <3>2, PlanFacts
    <3>4. /\ Promise!Plan[opType[o]][1][1] = opStep[o]
          /\ vmStatus[opVm[o]] = Promise!Path[opType[o]][Promise!Plan[opType[o]][1][2]]
      BY <1>4, <2>2, <3>1, PlanFacts, PathFacts
    <3>5. /\ 1 \in 1..Len(Promise!Plan[opType[o]])
          /\ \A j \in 1..Len(Promise!Plan[opType[o]]) : posts[o][Promise!Plan[opType[o]][j][1]] = 0
      BY <2>1, <3>3
    <3> QED  BY <3>4, <3>5, SendFact
  <2>3. CASE opStep[o] = "configure"
    <3>1. vmStatus[opVm[o]] = "provisioning"
      BY <1>1, <1>4, <2>3 DEF Shows
    <3>2. posts[o]["resize"] = 0 /\ posts[o]["start"] = 0
      BY <1>2, <1>3, <2>3
    <3>3. \A j \in 2..4 : posts[o][Promise!Plan[opType[o]][j][1]] = 0
      BY <1>1, <1>4, <2>3, <3>2, PlanFacts
    <3>4. /\ Promise!Plan[opType[o]][2][1] = opStep[o]
          /\ vmStatus[opVm[o]] = Promise!Path[opType[o]][Promise!Plan[opType[o]][2][2]]
      BY <1>4, <2>3, <3>1, PlanFacts, PathFacts
    <3>5. /\ 2 \in 1..Len(Promise!Plan[opType[o]])
          /\ \A j \in 2..Len(Promise!Plan[opType[o]]) : posts[o][Promise!Plan[opType[o]][j][1]] = 0
      BY <2>1, <3>3
    <3> QED  BY <3>4, <3>5, SendFact
  <2>4. CASE opStep[o] = "resize"
    <3>1. vmStatus[opVm[o]] = "provisioning"
      BY <1>1, <1>4, <2>4 DEF Shows
    <3>2. posts[o]["start"] = 0
      BY <1>2, <1>3, <2>4
    <3>3. \A j \in 3..4 : posts[o][Promise!Plan[opType[o]][j][1]] = 0
      BY <1>1, <1>4, <2>4, <3>2, PlanFacts
    <3>4. /\ Promise!Plan[opType[o]][3][1] = opStep[o]
          /\ vmStatus[opVm[o]] = Promise!Path[opType[o]][Promise!Plan[opType[o]][3][2]]
      BY <1>4, <2>4, <3>1, PlanFacts, PathFacts
    <3>5. /\ 3 \in 1..Len(Promise!Plan[opType[o]])
          /\ \A j \in 3..Len(Promise!Plan[opType[o]]) : posts[o][Promise!Plan[opType[o]][j][1]] = 0
      BY <2>1, <3>3
    <3> QED  BY <3>4, <3>5, SendFact
  <2>5. CASE opStep[o] = "start"
    <3>1. vmStatus[opVm[o]] = "provisioning"
      BY <1>1, <1>4, <2>5 DEF Shows
    <3>2. \A j \in 4..4 : posts[o][Promise!Plan[opType[o]][j][1]] = 0
      BY <1>1, <1>4, <2>5, PlanFacts
    <3>4. /\ Promise!Plan[opType[o]][4][1] = opStep[o]
          /\ vmStatus[opVm[o]] = Promise!Path[opType[o]][Promise!Plan[opType[o]][4][2]]
      BY <1>4, <2>5, <3>1, PlanFacts, PathFacts
    <3>5. /\ 4 \in 1..Len(Promise!Plan[opType[o]])
          /\ \A j \in 4..Len(Promise!Plan[opType[o]]) : posts[o][Promise!Plan[opType[o]][j][1]] = 0
      BY <2>1, <3>2
    <3> QED  BY <3>4, <3>5, SendFact
  <2> QED  BY <1>4, <2>2, <2>3, <2>4, <2>5, TypeSteps
<1>5. CASE opType[o] = "reboot"
  <2>1. Len(Promise!Plan[opType[o]]) = 2
    BY <1>5, PlanFacts
  <2>2. CASE opStep[o] = "shutdown"
    <3>1. vmStatus[opVm[o]] = "running"
      BY <1>1, <1>5, <2>2 DEF Shows
    <3>2. posts[o]["start"] = 0
      BY <1>2, <1>3, <2>2
    <3>3. \A j \in 1..2 : posts[o][Promise!Plan[opType[o]][j][1]] = 0
      BY <1>1, <1>5, <2>2, <3>2, PlanFacts
    <3>4. /\ Promise!Plan[opType[o]][1][1] = opStep[o]
          /\ vmStatus[opVm[o]] = Promise!Path[opType[o]][Promise!Plan[opType[o]][1][2]]
      BY <1>5, <2>2, <3>1, PlanFacts, PathFacts
    <3>5. /\ 1 \in 1..Len(Promise!Plan[opType[o]])
          /\ \A j \in 1..Len(Promise!Plan[opType[o]]) : posts[o][Promise!Plan[opType[o]][j][1]] = 0
      BY <2>1, <3>3
    <3> QED  BY <3>4, <3>5, SendFact
  <2>3. CASE opStep[o] = "start"
    <3>1. vmStatus[opVm[o]] = "stopped"
      BY <1>1, <1>5, <2>3 DEF Shows
    <3>2. \A j \in 2..2 : posts[o][Promise!Plan[opType[o]][j][1]] = 0
      BY <1>1, <1>5, <2>3, PlanFacts
    <3>4. /\ Promise!Plan[opType[o]][2][1] = opStep[o]
          /\ vmStatus[opVm[o]] = Promise!Path[opType[o]][Promise!Plan[opType[o]][2][2]]
      BY <1>5, <2>3, <3>1, PlanFacts, PathFacts
    <3>5. /\ 2 \in 1..Len(Promise!Plan[opType[o]])
          /\ \A j \in 2..Len(Promise!Plan[opType[o]]) : posts[o][Promise!Plan[opType[o]][j][1]] = 0
      BY <2>1, <3>2
    <3> QED  BY <3>4, <3>5, SendFact
  <2> QED  BY <1>5, <2>2, <2>3, TypeSteps
<1>6. CASE opType[o] \in {"start", "shutdown", "stop", "delete"}
  <2>1. opStep[o] = opType[o] /\ Len(Promise!Plan[opType[o]]) = 1
    BY <1>6, PlanFacts, TypeSteps
  <2>2. /\ Promise!Plan[opType[o]][1][1] = opStep[o]
        /\ vmStatus[opVm[o]] = Promise!Path[opType[o]][Promise!Plan[opType[o]][1][2]]
    BY <1>1, <1>6, <2>1, PlanFacts, PathFacts DEF Shows
  <2>3. \A j \in 1..1 : posts[o][Promise!Plan[opType[o]][j][1]] = 0
    BY <1>1, <2>2
  <2>4. /\ 1 \in 1..Len(Promise!Plan[opType[o]])
        /\ \A j \in 1..Len(Promise!Plan[opType[o]]) : posts[o][Promise!Plan[opType[o]][j][1]] = 0
    BY <2>1, <2>3
  <2> QED  BY <2>2, <2>4, SendFact
<1> QED  BY <1>4, <1>5, <1>6, TypeSteps

LEMMA FailStep == ASSUME TypeOK, NEW o \in Ops, Ended(o) PROVE Promise!Next
<1>1. RequestState(o) = "open" /\ RequestState(o)' = "failed"
  BY DEF Ended, RequestState, Active, TypeOK
<1>2. \A p \in Ops : p # o => RequestState(p)' = RequestState(p)
  BY DEF Ended, RequestState, Active, TypeOK
<1>3. [p \in Ops |-> RequestState(p)]' = [[p \in Ops |-> RequestState(p)] EXCEPT ![o] = "failed"]
  BY <1>1, <1>2
<1>4. vmStatus' = IF opType[o] = "create" THEN [vmStatus EXCEPT ![opVm[o]] = "failed"] ELSE vmStatus
  BY SetSame DEF Ended, SetVm
<1>5. Promise!Fail(o)
  BY <1>1, <1>3, <1>4 DEF Promise!Fail, Ended
<1> QED  BY <1>5 DEF Promise!Next

\* The VM of a finished step goes on with its path, or showed its place already.
LEMMA MoveStep ==
  ASSUME PromiseInv, NEW o \in Ops, Moved(o)
  PROVE  Promise!Next \/ UNCHANGED Promise!vars
<1>1. /\ opStatus[o] = "processing" /\ UNCHANGED <<opType, opVm, posts>>
      /\ GoesOn(o) \/ SucceedsNow(o)
  BY MovedCases
<1>2. TypeOK /\ StepFits /\ Active(o) /\ Shows(o, vmStatus[opVm[o]])
  BY <1>1 DEF PromiseInv, ShownInv, Active
<1>3. \A p \in Ops : p # o => opStatus'[p] = opStatus[p]
  BY <1>1, <1>2 DEF GoesOn, SucceedsNow, Goes, Succeeds, TypeOK
<1>4. \A p \in Ops : p # o => RequestState(p)' = RequestState(p)
  BY <1>3 DEF RequestState, Active
<1>5. CASE GoesOn(o)
  <2>1. Active(o)' /\ RequestState(o)' = RequestState(o)
    BY <1>2, <1>5 DEF GoesOn, Goes, RequestState, Active, TypeOK
  <2>2. CASE vmStatus[opVm[o]] = "provisioning"
    <3>1. SetVm(o, "provisioning")
      BY <1>2, <1>5, <2>2 DEF GoesOn, Goes, Shows
    <3>2. UNCHANGED vmStatus
      BY <1>2, <2>2, <3>1, SetSame
    <3> QED  BY <1>1, <1>4, <2>1, <3>2, StutterFact
  <2>3. CASE opType[o] = "create" /\ vmStatus[opVm[o]] # "provisioning"
    <3>1. vmStatus[opVm[o]] = "pending" /\ SetVm(o, "provisioning")
      BY <1>2, <1>5, <2>3 DEF GoesOn, Goes, Shows
    <3>2. /\ Len(Promise!Path[opType[o]]) = 3
          /\ vmStatus[opVm[o]] = Promise!Path[opType[o]][1]
          /\ SetVm(o, Promise!Path[opType[o]][2])
      BY <2>3, <3>1, PathFacts
    <3> QED  BY <1>1, <1>2, <1>3, <2>1, <3>2, FirstAdvance
  <2>4. CASE opType[o] = "reboot"
    <3>1. vmStatus[opVm[o]] = "running" /\ SetVm(o, "stopped")
      BY <1>2, <1>5, <2>4 DEF GoesOn, Goes, Shows
    <3>2. /\ Len(Promise!Path[opType[o]]) = 3
          /\ vmStatus[opVm[o]] = Promise!Path[opType[o]][1]
          /\ SetVm(o, Promise!Path[opType[o]][2])
      BY <2>4, <3>1, PathFacts
    <3> QED  BY <1>1, <1>2, <1>3, <2>1, <3>2, FirstAdvance
  <2> QED  BY <1>5, <2>2, <2>3, <2>4 DEF GoesOn, Goes
<1>6. CASE SucceedsNow(o)
  <2>1. opStatus'[o] = "succeeded"
    BY <1>2, <1>6 DEF SucceedsNow, Succeeds, TypeOK
  <2>2. CASE opType[o] \in {"create", "reboot", "delete"}
    <3>1. \/ opType[o] = "create" /\ vmStatus[opVm[o]] = "provisioning" /\ SetVm(o, "running")
          \/ opType[o] = "reboot" /\ vmStatus[opVm[o]] = "stopped" /\ SetVm(o, "running")
          \/ opType[o] = "delete" /\ vmStatus[opVm[o]] = "deleting" /\ SetVm(o, "deleted")
      BY <1>1, <1>2, <1>6, <2>2 DEF SucceedsNow, Succeeds, Shows
    <3>2. /\ Len(Promise!Path[opType[o]]) = 3
          /\ vmStatus[opVm[o]] = Promise!Path[opType[o]][2]
          /\ SetVm(o, Promise!Path[opType[o]][3])
      BY <3>1, PathFacts
    <3> QED  BY <1>1, <1>2, <1>3, <2>1, <3>2, LastAdvance
  <2>3. CASE opType[o] \in {"start", "shutdown", "stop"}
    <3>1. \/ opType[o] = "start" /\ vmStatus[opVm[o]] = "stopped" /\ SetVm(o, "running")
          \/ opType[o] \in {"shutdown", "stop"} /\ vmStatus[opVm[o]] = "running" /\ SetVm(o, "stopped")
      BY <1>1, <1>2, <1>6, <2>3 DEF SucceedsNow, Succeeds, Shows
    <3>2. /\ Len(Promise!Path[opType[o]]) = 2
          /\ vmStatus[opVm[o]] = Promise!Path[opType[o]][1]
          /\ SetVm(o, Promise!Path[opType[o]][2])
      BY <3>1, PathFacts
    <3> QED  BY <1>1, <1>2, <1>3, <2>1, <3>2, FirstAdvance
  <2> QED  BY <1>6, <2>2, <2>3 DEF SucceedsNow, Succeeds
<1> QED  BY <1>1, <1>5, <1>6

\* The other effects: a clone or a delete under way is shown, the rest is not.
LEMMA RowEffectStep ==
  ASSUME PromiseInv, NEW o \in Ops, Begun(o) \/ Kept(o) \/ Cloned(o) \/ Tasked(o)
  PROVE  Promise!Next \/ UNCHANGED Promise!vars
<1>1. Active(o) /\ UNCHANGED <<opType, opVm, posts>>
  BY DEF Begun, Kept, Cloned, Tasked, Active
<1>2. TypeOK /\ StepFits /\ Shows(o, vmStatus[opVm[o]]) /\ CloneShown(o)
  BY <1>1 DEF PromiseInv, ShownInv
<1>3. Active(o)' /\ \A p \in Ops : p # o => opStatus'[p] = opStatus[p]
  BY <1>2 DEF Begun, Kept, Cloned, Tasked, Active, TypeOK
<1>4. \A p \in Ops : RequestState(p)' = RequestState(p)
  BY <1>1, <1>3 DEF RequestState, Active
<1>5. CASE UNCHANGED vmStatus
  BY <1>1, <1>4, <1>5, StutterFact
<1>6. CASE Cloned(o)
  <2>1. opType[o] = "create" /\ vmStatus[opVm[o]] = "pending" /\ SetVm(o, "provisioning")
    BY <1>2, <1>6, TypeSteps DEF Cloned, CloneShown
  <2>2. /\ Len(Promise!Path[opType[o]]) = 3
        /\ vmStatus[opVm[o]] = Promise!Path[opType[o]][1]
        /\ SetVm(o, Promise!Path[opType[o]][2])
    BY <2>1, PathFacts
  <2> QED  BY <1>1, <1>2, <1>3, <2>2, FirstAdvance
<1>7. CASE Begun(o) /\ opStep[o] = "delete"
  <2>1. opType[o] = "delete" /\ vmStatus[opVm[o]] = "stopped" /\ SetVm(o, "deleting")
    BY <1>2, <1>7, TypeSteps DEF Begun, Shows
  <2>2. /\ Len(Promise!Path[opType[o]]) = 3
        /\ vmStatus[opVm[o]] = Promise!Path[opType[o]][1]
        /\ SetVm(o, Promise!Path[opType[o]][2])
    BY <2>1, PathFacts
  <2> QED  BY <1>1, <1>2, <1>3, <2>2, FirstAdvance
<1>8. CASE Begun(o) /\ opStep[o] # "delete"
  <2>1. SetVm(o, vmStatus[opVm[o]])
    BY <1>8 DEF Begun
  <2>2. UNCHANGED vmStatus
    BY <1>2, <2>1, SetSame
  <2> QED  BY <1>5, <2>2
<1> QED  BY <1>5, <1>6, <1>7, <1>8 DEF Kept, Tasked

LEMMA EffectIsStep == PromiseInv /\ Seen => Promise!Next \/ UNCHANGED Promise!vars
<1> SUFFICES ASSUME PromiseInv, Seen PROVE Promise!Next \/ UNCHANGED Promise!vars
  OBVIOUS
<1>1. CASE Quiet
  <2>1. \A p \in Ops : RequestState(p)' = RequestState(p)
    BY <1>1 DEF Quiet, opRows, RequestState, Active
  <2> QED  BY <1>1, <2>1, StutterFact DEF Quiet, opRows
<1>2. TypeOK
  BY DEF PromiseInv
<1> QED
  BY <1>1, <1>2, AskStep, SendStep, FailStep, MoveStep, RowEffectStep DEF Seen

LEMMA PromiseStart == Init => Promise!Init
<1> SUFFICES ASSUME Init PROVE Promise!Init
  OBVIOUS
<1>1. [o \in Ops |-> RequestState(o)] = [o \in Ops |-> "none"]
  BY DEF Init, RequestState, Active
<1>2. opType \in [Ops -> DOMAIN Promise!Path] /\ opVm \in [Ops -> Vms]
  BY PathFacts DEF Init, Types
<1>3. Promise!Commands = Steps
  BY DEF Promise!Commands, Steps
<1> QED  BY <1>1, <1>2, <1>3 DEF Promise!Init, Init

-----------------------------------------------------------------------------
LEMMA PromiseInvariant == ASSUME GraceCoversCall PROVE Spec => []PromiseInv
<1>1. PromiseInv /\ [Next]_vars => PromiseInv'
  BY PromiseStep
<1> QED  BY <1>1, PromiseInit, PTL DEF Spec

\* A poll credits a step with its own task and no other: the UPID on a row is
\* the one of the step the row is in (finish_*_dispatch writes them together).
THEOREM TasksMatch == ASSUME GraceCoversCall PROVE Spec => []TaskMatchesStep
<1>1. PromiseInv => TaskMatchesStep
  BY DEF PromiseInv
<1> QED  BY <1>1, PromiseInvariant, PTL

\* The worker implements VmPromise: crashes, losses, time-outs and any
\* interleaving of workers are invisible in the statuses and in the commands.
THEOREM WorkerKeepsPromise == ASSUME GraceCoversCall PROVE Spec => PromiseKept
<1>1. PromiseInv /\ [Next]_vars => [Promise!Next]_(Promise!vars)
  BY SeenStep, EffectIsStep
<1> QED  BY <1>1, PromiseInvariant, PromiseStart, PTL DEF Spec, PromiseKept, Promise!Spec

-----------------------------------------------------------------------------
(* The rows and the provider *)

\* On its way to the provider, or running there.
Under(o, s) == <<o, s>> \in flight \/ taskState[o][s] = "running"

\* Only a command that a guest can forestall outlives its step.
Anchored(s) == s \in {"shutdown", "stop"} => ~Fault("guest")

\* The effect of step s is there; a guest may have undone a start.
Reached(s, v) ==
    /\ s = "configure" => conf[v]
    /\ s = "resize" => sized[v]
    /\ s = "start" => Fault("guest") \/ power[v] = "running"
    /\ s \in {"shutdown", "stop"} => power[v] = "stopped"
    /\ s = "delete" => power[v] = "missing"

\* The effect of step s is still to come.
Ahead(s, v) ==
    /\ s = "start" => power[v] # "running"
    /\ s \in {"shutdown", "stop"} => Fault("guest") \/ power[v] = "running"
    /\ s = "delete" => power[v] # "missing"

-----------------------------------------------------------------------------
\* A POST that was sent is on its way or was taken; nothing else is there.
Traces ==
    \A o \in Ops, s \in Steps :
        /\ <<o, s>> \in flight => posts[o][s] # 0 /\ taskState[o][s] = "none"
        /\ taskState[o][s] # "none" => posts[o][s] # 0

NoStray ==
    \A o \in Ops, s \in Steps :
        Under(o, s) /\ Anchored(s) => opStatus[o] = "processing" /\ opStep[o] = s

UnderAhead ==
    /\ \A o \in Ops, s \in Steps : Under(o, s) => Ahead(s, opVm[o])
    /\ \A o \in Ops :
          /\ <<o, "clone">> \in flight => power[opVm[o]] = "missing"
          /\ taskState[o]["clone"] = "running" => lock[opVm[o]] = "clone"

\* What a worker read before its POST is still so.
ReadHolds ==
    \A w \in Workers : wAt[w] = "post" =>
        /\ Ahead(wStep[w], opVm[wOp[w]])
        /\ wStep[w] = "clone" => power[opVm[wOp[w]]] = "missing"

AnswerKnows ==
    \A w \in Workers : wAt[w] = "reply" /\ wReply[w] = "done" =>
        /\ Reached(wStep[w], opVm[wOp[w]])
        /\ posts[wOp[w]][wStep[w]] = 0 \/ taskState[wOp[w]][wStep[w]] = "ok"

StepKnows ==
    \A o \in Ops :
        opStatus[o] = "processing" /\ taskState[o][opStep[o]] = "ok" => Reached(opStep[o], opVm[o])

\* Cloud-init and the disk are applied before a VM may be started.
Prepared ==
    /\ \A o \in Ops : Active(o) /\ opType[o] = "create" =>
          /\ opStep[o] \in {"resize", "start"} => conf[opVm[o]]
          /\ opStep[o] = "start" => sized[opVm[o]]
    /\ \A v \in Vms : vmStatus[v] \in {"running", "stopped", "deleting"} => conf[v] /\ sized[v]

\* A step of operation o on v is done at the provider and not yet on the row.
Due(v, S) ==
    \E o \in Ops : /\ opVm[o] = v /\ opStatus[o] = "processing" /\ opStep[o] \in S
                   /\ taskState[o][opStep[o]] = "ok"

StoppedIsTrue ==
    \A v \in Vms : vmStatus[v] = "stopped" =>
        power[v] = "stopped" \/ (power[v] = "running" /\ Due(v, {"start"}))

RunningIsTrue ==
    \A v \in Vms : vmStatus[v] = "running" =>
        Fault("guest") \/ power[v] = "running" \/ Due(v, {"shutdown", "stop"})

Linked ==
    /\ Traces /\ NoStray /\ UnderAhead /\ ReadHolds /\ AnswerKnows /\ StepKnows
    /\ Prepared /\ StoppedIsTrue /\ RunningIsTrue
    /\ NeverBootsUnconfigured /\ DeletedIsGone

ProviderInv == PromiseInv /\ Linked

-----------------------------------------------------------------------------
(* A command under way and the operation it belongs to *)

LEMMA OneActive ==
  ASSUME PromiseInv, NEW o \in Ops, NEW p \in Ops, Active(o), Active(p), opVm[p] = opVm[o]
  PROVE  p = o
BY DEF PromiseInv, RowInv, VmRows

\* A live call is made for an active row, in the step the row is in.
LEMMA CallRow ==
  ASSUME PromiseInv, NEW w \in Workers, wAt[w] # "idle"
  PROVE  /\ wOp[w] \in Ops /\ wStep[w] \in Steps /\ opVm[wOp[w]] \in Vms
         /\ opStatus[wOp[w]] = "processing" /\ opStep[wOp[w]] = wStep[w] /\ Active(wOp[w])
BY CallHasOp DEF PromiseInv, CallOwn, Active

\* What is under way for an operation is what its row stands at, and nothing
\* else is under way for its VM.
LEMMA Sole ==
  ASSUME ProviderInv, NEW o \in Ops, NEW s \in Steps, Under(o, s), Anchored(s)
  PROVE  /\ opStatus[o] = "processing" /\ opStep[o] = s /\ Active(o)
         /\ opVm[o] \in Vms /\ Shows(o, vmStatus[opVm[o]])
         /\ posts[o][s] # 0 /\ taskState[o][s] # "ok"
         /\ \A p \in Ops, t \in Steps :
               Under(p, t) /\ Anchored(t) /\ opVm[p] = opVm[o] => p = o /\ t = s
         /\ \A p \in Ops : Active(p) /\ opVm[p] = opVm[o] => p = o
<1> USE DEF ProviderInv, Linked
<1>1. opStatus[o] = "processing" /\ opStep[o] = s /\ Active(o)
  BY DEF NoStray, Active
<1>2. opVm[o] \in Vms /\ Shows(o, vmStatus[opVm[o]])
  BY <1>1 DEF PromiseInv, TypeOK, ShownInv
<1>3. posts[o][s] # 0 /\ taskState[o][s] # "ok"
  BY DEF Under, Traces
<1>4. \A p \in Ops : Active(p) /\ opVm[p] = opVm[o] => p = o
  BY <1>1, OneActive
<1>5. ASSUME NEW p \in Ops, NEW t \in Steps, Under(p, t), Anchored(t), opVm[p] = opVm[o]
      PROVE  p = o /\ t = s
  <2>1. opStatus[p] = "processing" /\ opStep[p] = t /\ Active(p)
    BY <1>5 DEF NoStray, Active
  <2> QED  BY <1>1, <1>4, <1>5, <2>1
<1> QED  BY <1>1, <1>2, <1>3, <1>4, <1>5

\* No call is between its reads and its POST, nor has it found its step done,
\* while a command is under way for the VM.
LEMMA SoleCall ==
  ASSUME ProviderInv, NEW o \in Ops, NEW s \in Steps, Under(o, s), Anchored(s), NEW w \in Workers,
         wAt[w] = "post" \/ (wAt[w] = "reply" /\ wReply[w] = "done")
  PROVE  opVm[wOp[w]] # opVm[o]
<1> USE DEF ProviderInv, Linked
<1>1. SUFFICES ASSUME opVm[wOp[w]] = opVm[o] PROVE FALSE
  OBVIOUS
<1>2. wOp[w] \in Ops /\ opStep[wOp[w]] = wStep[w] /\ Active(wOp[w])
  BY CallRow
<1>3. wOp[w] = o /\ wStep[w] = s /\ posts[o][s] # 0 /\ taskState[o][s] # "ok"
  BY <1>1, <1>2, Sole
<1> QED  BY <1>3 DEF AnswerKnows, PromiseInv, PostInv, NotPostedYet

\* A provider step of command s of o touches its task and its VM only.
Own(o, s) ==
    /\ \A p \in Ops, t \in Steps : ~(p = o /\ t = s) =>
          taskState'[p][t] = taskState[p][t] /\ (<<p, t>> \in flight' <=> <<p, t>> \in flight)
    /\ \A x \in Vms : x # opVm[o] =>
          /\ power'[x] = power[x] /\ lock'[x] = lock[x]
          /\ (conf'[x] <=> conf[x]) /\ (sized'[x] <=> sized[x])
    /\ UNCHANGED <<rows, calls, posts>>

\* What an anchored command may do to its VM: what is left to show for each.
Lands(o, s) ==
    /\ Own(o, s) /\ Under(o, s) /\ Anchored(s)
    /\ <<o, s>> \in flight' => <<o, s>> \in flight /\ taskState'[o][s] = "none"
    /\ Under(o, s)' => Ahead(s, opVm[o])'
    /\ s = "clone" =>
          /\ <<o, s>> \in flight' => power'[opVm[o]] = "missing"
          /\ taskState'[o][s] = "running" => lock'[opVm[o]] = "clone"
    /\ taskState'[o][s] = "ok" => Reached(s, opVm[o])'
    /\ conf[opVm[o]] => conf'[opVm[o]]
    /\ s # "clone" /\ sized[opVm[o]] => sized'[opVm[o]]
    /\ power'[opVm[o]] = "running" => conf'[opVm[o]] /\ sized'[opVm[o]]
    /\ vmStatus[opVm[o]] = "stopped" => \/ power'[opVm[o]] = power[opVm[o]]
                                       \/ power'[opVm[o]] = "stopped"
                                       \/ (power'[opVm[o]] = "running" /\ s = "start" /\ taskState'[o][s] = "ok")
    /\ vmStatus[opVm[o]] = "running" => \/ power'[opVm[o]] = power[opVm[o]]
                                       \/ power'[opVm[o]] = "running"
                                       \/ (s \in {"shutdown", "stop"} /\ taskState'[o][s] = "ok")

\* A VM other than that of the command.
LEMMA OtherVm ==
  ASSUME NEW o \in Ops, NEW s \in Steps, NEW x \in Vms, Own(o, s), x # opVm[o]
  PROVE  /\ \A t \in Steps : (Ahead(t, x)' <=> Ahead(t, x)) /\ (Reached(t, x)' <=> Reached(t, x))
         /\ power'[x] = power[x] /\ lock'[x] = lock[x]
         /\ (conf'[x] <=> conf[x]) /\ (sized'[x] <=> sized[x])
BY DEF Own, Ahead, Reached

\* What is due stays due.
LEMMA DueStays ==
  ASSUME ProviderInv, NEW o \in Ops, NEW s \in Steps, Own(o, s), taskState[o][s] # "ok",
         NEW v \in Vms, NEW S, Due(v, S)
  PROVE  Due(v, S)'
<1>1. PICK p \in Ops : /\ opVm[p] = v /\ opStatus[p] = "processing" /\ opStep[p] \in S
                       /\ taskState[p][opStep[p]] = "ok"
  BY DEF Due
<1>2. opStep[p] \in Steps
  BY DEF ProviderInv, PromiseInv, TypeOK
<1>3. \A t \in Steps : ~(p = o /\ t = s) => taskState'[p][t] = taskState[p][t]
  BY DEF Own
<1>4. taskState'[p][opStep[p]] = "ok"
  BY <1>1, <1>2, <1>3
<1>5. UNCHANGED <<opVm, opStatus, opStep>>
  BY DEF Own, rows, opRows
<1> QED  BY <1>1, <1>4, <1>5 DEF Due

LEMMA LandsKeeps ==
  ASSUME ProviderInv, NEW o \in Ops, NEW s \in Steps, Lands(o, s)
  PROVE  Linked'
<1> DEFINE v == opVm[o]
<1>1. /\ Own(o, s) /\ UNCHANGED <<opStatus, opType, opVm, opStep, vmStatus, calls, posts>>
      /\ Under(o, s) /\ Anchored(s)
  BY DEF Lands, Own, rows, opRows
<1>2. /\ opStatus[o] = "processing" /\ opStep[o] = s /\ Active(o) /\ v \in Vms
      /\ Shows(o, vmStatus[v]) /\ posts[o][s] # 0 /\ taskState[o][s] # "ok"
      /\ \A p \in Ops, t \in Steps : Under(p, t) /\ Anchored(t) /\ opVm[p] = v => p = o /\ t = s
      /\ \A p \in Ops : Active(p) /\ opVm[p] = v => p = o
  BY <1>1, Sole
<1>3. TypeOK /\ PromiseInv /\ Linked /\ \A p \in Ops : opStep[p] \in Steps /\ opVm[p] \in Vms
  BY DEF ProviderInv, PromiseInv, TypeOK
<1>4. \A p \in Ops, t \in Steps : ~(p = o /\ t = s) => (Under(p, t)' <=> Under(p, t))
  BY <1>1 DEF Own, Under
<1>5. \A x \in Vms : x # v =>
         /\ \A t \in Steps : (Ahead(t, x)' <=> Ahead(t, x)) /\ (Reached(t, x)' <=> Reached(t, x))
         /\ power'[x] = power[x] /\ lock'[x] = lock[x]
         /\ (conf'[x] <=> conf[x]) /\ (sized'[x] <=> sized[x])
  BY <1>1, OtherVm
<1> HIDE DEF v
<1>6. Traces'
  <2>1. ASSUME NEW p \in Ops, NEW t \in Steps
        PROVE  /\ <<p, t>> \in flight' => posts[p][t] # 0 /\ taskState'[p][t] = "none"
               /\ taskState'[p][t] # "none" => posts[p][t] # 0
    <3>1. CASE p = o /\ t = s
      BY <1>2, <3>1 DEF Lands
    <3>2. CASE ~(p = o /\ t = s)
      BY <1>1, <1>3, <3>2 DEF Own, Linked, Traces
    <3> QED  BY <3>1, <3>2
  <2> QED  BY <1>1, <2>1 DEF Traces
<1>7. NoStray'
  <2>1. \A p \in Ops, t \in Steps : Under(p, t)' => Under(p, t)
    BY <1>1, <1>4
  <2> QED  BY <1>1, <1>3, <2>1 DEF Linked, NoStray, Anchored
<1>8. UnderAhead'
  <2>1. ASSUME NEW p \in Ops, NEW t \in Steps, Under(p, t)' PROVE Ahead(t, opVm[p])'
    <3>1. CASE p = o /\ t = s
      BY <2>1, <3>1 DEF Lands
    <3>2. CASE ~(p = o /\ t = s) /\ opVm[p] # v
      BY <1>1, <1>3, <1>4, <1>5, <2>1, <3>2 DEF Linked, UnderAhead
    <3>3. CASE ~(p = o /\ t = s) /\ opVm[p] = v
      <4>1. ~Anchored(t)
        BY <1>2, <1>4, <2>1, <3>3
      <4> QED  BY <4>1 DEF Anchored, Ahead
    <3> QED  BY <3>1, <3>2, <3>3
  <2>2. ASSUME NEW p \in Ops
        PROVE  /\ <<p, "clone">> \in flight' => power'[opVm[p]] = "missing"
               /\ taskState'[p]["clone"] = "running" => lock'[opVm[p]] = "clone"
    <3>1. "clone" \in Steps /\ Anchored("clone")
      BY DEF Steps, Anchored
    <3>2. CASE p = o /\ s = "clone"
      BY <3>2 DEF Lands, v
    <3>3. CASE ~(p = o /\ s = "clone") /\ opVm[p] # v
      BY <1>1, <1>3, <1>5, <3>1, <3>3 DEF Linked, UnderAhead, Own
    <3>4. CASE ~(p = o /\ s = "clone") /\ opVm[p] = v
      BY <1>1, <1>2, <3>1, <3>4 DEF Own, Under
    <3> QED  BY <3>2, <3>3, <3>4
  <2> QED  BY <1>1, <2>1, <2>2 DEF UnderAhead
<1>9. ASSUME NEW w \in Workers, wAt[w] = "post" \/ (wAt[w] = "reply" /\ wReply[w] = "done")
      PROVE  /\ wOp[w] \in Ops /\ wStep[w] \in Steps /\ opVm[wOp[w]] # v /\ opVm[wOp[w]] \in Vms
  BY <1>1, <1>3, <1>9, CallRow, SoleCall DEF v
<1>10. ReadHolds'
  BY <1>1, <1>3, <1>5, <1>9 DEF Linked, ReadHolds, calls
<1>11. AnswerKnows'
  <2>1. \A p \in Ops, t \in Steps : p # o => taskState'[p][t] = taskState[p][t]
    BY <1>1 DEF Own
  <2>2. ASSUME NEW w \in Workers, wAt[w] = "reply" /\ wReply[w] = "done"
        PROVE  /\ Reached(wStep[w], opVm[wOp[w]])'
               /\ posts[wOp[w]][wStep[w]] = 0 \/ taskState'[wOp[w]][wStep[w]] = "ok"
    <3>1. wOp[w] # o
      BY <1>9, <2>2 DEF v
    <3>2. /\ Reached(wStep[w], opVm[wOp[w]])
          /\ posts[wOp[w]][wStep[w]] = 0 \/ taskState[wOp[w]][wStep[w]] = "ok"
      BY <1>3, <2>2 DEF Linked, AnswerKnows
    <3>3. taskState'[wOp[w]][wStep[w]] = taskState[wOp[w]][wStep[w]]
      BY <1>9, <2>2, <2>1, <3>1
    <3>4. PICK q \in Ops, t \in Steps, x \in Vms : q = wOp[w] /\ t = wStep[w] /\ x = opVm[q] /\ x # v
      BY <1>9, <2>2
    <3>5. Reached(t, x)'
      BY <1>5, <3>2, <3>4
    <3> QED  BY <1>1, <3>2, <3>3, <3>4, <3>5 DEF calls, Reached
  <2> QED  BY <1>1, <2>2 DEF AnswerKnows, calls, Reached
<1>12. StepKnows'
  <2>1. ASSUME NEW p \in Ops, opStatus[p] = "processing", taskState'[p][opStep[p]] = "ok"
        PROVE  Reached(opStep[p], opVm[p])'
    <3>1. CASE p = o
      BY <1>1, <1>2, <2>1, <3>1 DEF Lands, Reached
    <3>2. CASE p # o
      <4>1. opVm[p] # v
        BY <1>2, <2>1, <3>2 DEF Active
      <4>2. Reached(opStep[p], opVm[p])
        BY <1>1, <1>3, <2>1, <3>2 DEF Own, Linked, StepKnows
      <4>3. PICK t \in Steps, x \in Vms : t = opStep[p] /\ x = opVm[p]
        BY <1>3
      <4>4. Reached(t, x)'
        BY <1>5, <4>1, <4>2, <4>3
      <4> QED  BY <1>1, <4>3, <4>4 DEF Reached
    <3> QED  BY <3>1, <3>2
  <2> QED  BY <1>1, <2>1 DEF StepKnows
<1>13. \A x \in Vms : (conf[x] => conf'[x]) /\ (s # "clone" /\ sized[x] => sized'[x])
  BY <1>5 DEF Lands, v
<1>14. s = "clone" => opType[o] = "create" /\ vmStatus[v] \in {"pending", "provisioning"}
  BY <1>2, <1>3, TypeSteps DEF PromiseInv, Shows
<1>15. Prepared'
  <2>1. ASSUME NEW p \in Ops, Active(p), opType[p] = "create"
        PROVE  /\ opStep[p] \in {"resize", "start"} => conf'[opVm[p]]
               /\ opStep[p] = "start" => sized'[opVm[p]]
    <3>1. opStep[p] = "start" => s # "clone" \/ opVm[p] # v
      BY <1>2, <2>1
    <3> QED  BY <1>3, <1>5, <1>13, <2>1, <3>1 DEF Linked, Prepared
  <2>2. ASSUME NEW x \in Vms, vmStatus[x] \in {"running", "stopped", "deleting"}
        PROVE  conf'[x] /\ sized'[x]
    BY <1>3, <1>5, <1>13, <1>14, <2>2 DEF Linked, Prepared
  <2> QED  BY <1>1, <2>1, <2>2 DEF Prepared, Active
<1>16. StoppedIsTrue'
  <2>1. ASSUME NEW x \in Vms, vmStatus[x] = "stopped"
        PROVE  power'[x] = "stopped" \/ (power'[x] = "running" /\ Due(x, {"start"})')
    <3>1. Due(x, {"start"}) => Due(x, {"start"})'
      BY <1>1, <1>2, DueStays
    <3>2. power[x] = "stopped" \/ (power[x] = "running" /\ Due(x, {"start"}))
      BY <1>3, <2>1 DEF Linked, StoppedIsTrue
    <3>3. CASE power'[x] = power[x]
      BY <3>1, <3>2, <3>3
    <3>4. CASE power'[x] # power[x] /\ power'[x] # "stopped"
      <4>1. x = v /\ power'[x] = "running" /\ s = "start" /\ taskState'[o][s] = "ok"
        BY <1>5, <2>1, <3>4 DEF Lands, v
      <4> QED  BY <1>1, <1>2, <4>1 DEF Due, v
    <3> QED  BY <3>3, <3>4
  <2> QED  BY <1>1, <2>1 DEF StoppedIsTrue
<1>17. RunningIsTrue'
  <2>1. ASSUME NEW x \in Vms, vmStatus[x] = "running", ~Fault("guest")
        PROVE  power'[x] = "running" \/ Due(x, {"shutdown", "stop"})'
    <3>1. Due(x, {"shutdown", "stop"}) => Due(x, {"shutdown", "stop"})'
      BY <1>1, <1>2, DueStays
    <3>2. power[x] = "running" \/ Due(x, {"shutdown", "stop"})
      BY <1>3, <2>1 DEF Linked, RunningIsTrue
    <3>3. CASE power'[x] = power[x]
      BY <3>1, <3>2, <3>3
    <3>4. CASE power'[x] # power[x] /\ power'[x] # "running"
      <4>1. x = v /\ s \in {"shutdown", "stop"} /\ taskState'[o][s] = "ok"
        BY <1>5, <2>1, <3>4 DEF Lands, v
      <4> QED  BY <1>1, <1>2, <4>1 DEF Due, v
    <3> QED  BY <3>3, <3>4
  <2> QED  BY <1>1, <2>1 DEF RunningIsTrue, Fault
<1>18. NeverBootsUnconfigured'
  BY <1>3, <1>5 DEF Linked, NeverBootsUnconfigured, Lands, v
<1>19. DeletedIsGone'
  <2>1. vmStatus[v] # "deleted"
    BY <1>2, <1>3 DEF PromiseInv, RowInv, VmRows, Bad, v
  <2>2. \A p \in Ops : <<p, "clone">> \in flight' => <<p, "clone">> \in flight
    BY <1>1 DEF Lands, Own, Steps
  <2> QED  BY <1>1, <1>3, <1>5, <2>1, <2>2 DEF Linked, DeletedIsGone
<1> QED
  BY <1>6, <1>7, <1>8, <1>10, <1>11, <1>12, <1>15, <1>16, <1>17, <1>18, <1>19 DEF Linked

\* A foreign lock, a guest that powers itself off, and a command that a guest
\* forestalled: nothing of it is anchored, and a VM can only end up stopped.
Aside ==
    /\ UNCHANGED <<rows, calls, posts, conf, sized>>
    /\ \A x \in Vms :
          /\ \/ power'[x] = power[x]
             \/ Fault("guest") /\ power[x] # "missing" /\ power'[x] = "stopped"
          /\ lock[x] = "clone" => lock'[x] = "clone"
    /\ \A p \in Ops, t \in Steps :
          /\ Anchored(t) => taskState'[p][t] = taskState[p][t]
          /\ <<p, t>> \in flight' => <<p, t>> \in flight /\ taskState'[p][t] = "none"
          /\ taskState'[p][t] # "none" => Under(p, t) \/ taskState[p][t] # "none"
          /\ Under(p, t)' => Under(p, t)
          /\ taskState[p][t] = "ok" => taskState'[p][t] = "ok"
          /\ taskState'[p][t] = "ok" /\ taskState[p][t] # "ok" =>
                t \in {"shutdown", "stop"} /\ power'[opVm[p]] = "stopped"

LEMMA AsideKeeps == ASSUME ProviderInv, Aside PROVE Linked'
<1>1. /\ UNCHANGED <<opStatus, opType, opVm, opStep, vmStatus, calls, posts, conf, sized>>
      /\ Linked /\ \A p \in Ops : opStep[p] \in Steps /\ opVm[p] \in Vms
  BY DEF Aside, rows, opRows, ProviderInv, PromiseInv, TypeOK
<1>2. \A t \in Steps, x \in Vms : Ahead(t, x) => Ahead(t, x)'
  BY DEF Aside, Ahead
<1>3. \A t \in Steps, x \in Vms : Reached(t, x) => Reached(t, x)'
  BY DEF Aside, Reached
<1>4. \A v \in Vms, S \in {{"start"}, {"shutdown", "stop"}} : Due(v, S) => Due(v, S)'
  <2>1. \A p \in Ops, t \in Steps : taskState[p][t] = "ok" => taskState'[p][t] = "ok"
    BY DEF Aside
  <2> QED  BY <1>1, <2>1 DEF Due
<1>5. "clone" \in Steps /\ Anchored("clone")
  BY DEF Steps, Anchored
<1>6. Traces'
  <2>1. ASSUME NEW p \in Ops, NEW t \in Steps
        PROVE  /\ <<p, t>> \in flight' => posts[p][t] # 0 /\ taskState'[p][t] = "none"
               /\ taskState'[p][t] # "none" => posts[p][t] # 0
    <3>1. /\ <<p, t>> \in flight => posts[p][t] # 0
          /\ taskState[p][t] # "none" => posts[p][t] # 0
      BY <1>1 DEF Linked, Traces
    <3>2. Under(p, t) => posts[p][t] # 0
      BY <3>1 DEF Under
    <3> QED  BY <3>1, <3>2 DEF Aside
  <2> QED  BY <1>1, <2>1 DEF Traces
<1>7. NoStray'
  <2>1. ASSUME NEW p \in Ops, NEW t \in Steps, Under(p, t)', Anchored(t)
        PROVE  opStatus[p] = "processing" /\ opStep[p] = t
    <3>1. Under(p, t)
      BY <2>1 DEF Aside
    <3> QED  BY <1>1, <2>1, <3>1 DEF Linked, NoStray
  <2> QED  BY <1>1, <2>1 DEF NoStray, Anchored, Fault
<1>8. UnderAhead'
  <2>1. ASSUME NEW p \in Ops, NEW t \in Steps, Under(p, t)' PROVE Ahead(t, opVm[p])'
    <3>1. PICK x \in Vms : x = opVm[p]
      BY <1>1
    <3>2. Under(p, t)
      BY <2>1 DEF Aside
    <3>3. Ahead(t, x)
      BY <1>1, <3>1, <3>2 DEF Linked, UnderAhead
    <3>4. Ahead(t, x)'
      BY <1>2, <3>3
    <3> QED  BY <1>1, <3>1, <3>4 DEF Ahead
  <2>2. ASSUME NEW p \in Ops
        PROVE  /\ <<p, "clone">> \in flight' => power'[opVm[p]] = "missing"
               /\ taskState'[p]["clone"] = "running" => lock'[opVm[p]] = "clone"
    BY <1>1, <1>5 DEF Aside, Linked, UnderAhead
  <2> QED  BY <1>1, <2>1, <2>2 DEF UnderAhead
<1>9. ReadHolds'
  <2>1. ASSUME NEW w \in Workers, wAt[w] = "post"
        PROVE  /\ Ahead(wStep[w], opVm[wOp[w]])'
               /\ wStep[w] = "clone" => power'[opVm[wOp[w]]] = "missing"
    <3>1. PICK t \in Steps, x \in Vms : t = wStep[w] /\ x = opVm[wOp[w]]
      BY <2>1, CallRow DEF ProviderInv
    <3>2. Ahead(t, x) /\ (t = "clone" => power[x] = "missing")
      BY <1>1, <2>1, <3>1 DEF Linked, ReadHolds
    <3>3. Ahead(t, x)' /\ (t = "clone" => power'[x] = "missing")
      BY <1>2, <3>2 DEF Aside
    <3> QED  BY <1>1, <3>1, <3>3 DEF Ahead, calls
  <2> QED  BY <1>1, <2>1 DEF ReadHolds, calls, Ahead
<1>10. AnswerKnows'
  <2>1. ASSUME NEW w \in Workers, wAt[w] = "reply" /\ wReply[w] = "done"
        PROVE  /\ Reached(wStep[w], opVm[wOp[w]])'
               /\ posts[wOp[w]][wStep[w]] = 0 \/ taskState'[wOp[w]][wStep[w]] = "ok"
    <3>1. PICK q \in Ops, t \in Steps, x \in Vms : q = wOp[w] /\ t = wStep[w] /\ x = opVm[q]
      BY <2>1, CallRow DEF ProviderInv
    <3>2. Reached(t, x) /\ (posts[q][t] = 0 \/ taskState[q][t] = "ok")
      BY <1>1, <2>1, <3>1 DEF Linked, AnswerKnows
    <3>3. Reached(t, x)' /\ (posts[q][t] = 0 \/ taskState'[q][t] = "ok")
      BY <1>3, <3>2 DEF Aside
    <3> QED  BY <1>1, <3>1, <3>3 DEF Reached, calls
  <2> QED  BY <1>1, <2>1 DEF AnswerKnows, calls, Reached
<1>11. StepKnows'
  <2>1. ASSUME NEW p \in Ops, opStatus[p] = "processing", taskState'[p][opStep[p]] = "ok"
        PROVE  Reached(opStep[p], opVm[p])'
    <3>1. PICK t \in Steps, x \in Vms : t = opStep[p] /\ x = opVm[p]
      BY <1>1
    <3>2. CASE taskState[p][t] = "ok"
      <4>1. Reached(t, x)
        BY <1>1, <2>1, <3>1, <3>2 DEF Linked, StepKnows
      <4>2. Reached(t, x)'
        BY <1>3, <4>1
      <4> QED  BY <1>1, <3>1, <4>2 DEF Reached
    <3>3. CASE taskState[p][t] # "ok"
      BY <1>1, <2>1, <3>1, <3>3 DEF Aside, Reached
    <3> QED  BY <3>2, <3>3
  <2> QED  BY <1>1, <2>1 DEF StepKnows
<1>12. Prepared'
  BY <1>1 DEF Linked, Prepared, Active
<1>13. StoppedIsTrue'
  BY <1>1, <1>4 DEF Aside, Linked, StoppedIsTrue
<1>14. RunningIsTrue'
  BY <1>1, <1>4 DEF Aside, Linked, RunningIsTrue, Fault
<1>15. NeverBootsUnconfigured'
  BY <1>1 DEF Aside, Linked, NeverBootsUnconfigured
<1>16. DeletedIsGone'
  BY <1>1, <1>5 DEF Aside, Linked, DeletedIsGone
<1> QED
  BY <1>6, <1>7, <1>8, <1>9, <1>10, <1>11, <1>12, <1>13, <1>14, <1>15, <1>16 DEF Linked

-----------------------------------------------------------------------------
(* The provider's steps *)

\* The other commands and VMs, when a provider step writes one of each.
LEMMA OwnOnly ==
  ASSUME TypeOK, NEW o \in Ops, NEW s \in Steps, NEW t, UNCHANGED <<rows, calls, posts>>,
         taskState' = [taskState EXCEPT ![o][s] = t],
         flight' = flight \/ flight' = flight \ {<<o, s>>},
         NEW a, NEW b, power' = [power EXCEPT ![opVm[o]] = a], lock' = [lock EXCEPT ![opVm[o]] = b],
         \A x \in Vms : x # opVm[o] => (conf'[x] <=> conf[x]) /\ (sized'[x] <=> sized[x])
  PROVE  /\ Own(o, s) /\ taskState'[o][s] = t
         /\ power'[opVm[o]] = a /\ lock'[opVm[o]] = b
BY DEF Own, TypeOK

\* Before a start lands, the VM has been configured and has its disk.
LEMMA StartIsPrepared ==
  ASSUME ProviderInv, NEW o \in Ops, Under(o, "start"), Anchored("start")
  PROVE  conf[opVm[o]] /\ sized[opVm[o]]
<1>1. "start" \in Steps
  BY DEF Steps
<1>2. opStep[o] = "start" /\ Active(o) /\ opVm[o] \in Vms /\ Shows(o, vmStatus[opVm[o]])
  BY <1>1, Sole
<1>3. opType[o] \in {"create", "start", "reboot"}
  BY <1>2, TypeSteps DEF ProviderInv, PromiseInv
<1> QED  BY <1>2, <1>3 DEF ProviderInv, Linked, Prepared, Shows

LEMMA DropStep ==
  ASSUME ProviderInv, NEW o \in Ops, NEW s \in Steps, Drop(o, s)
  PROVE  Linked'
<1>1. /\ <<o, s>> \in flight /\ flight' = flight \ {<<o, s>>}
      /\ UNCHANGED <<rows, calls, taskState, power, lock, conf, sized, posts>>
  BY DEF Drop
<1>2. Aside
  BY <1>1 DEF Aside, Under, ProviderInv, Linked, Traces
<1> QED  BY <1>2, AsideKeeps

LEMMA EnvironmentStep ==
  ASSUME ProviderInv, NEW v \in Vms, Environment(v)
  PROVE  Linked'
<1>1. CASE ForeignLock(v) \/ ForeignUnlock(v)
  <2>1. Aside
    BY <1>1 DEF ForeignLock, ForeignUnlock, Aside, Under, ProviderInv, Linked, Traces, PromiseInv, TypeOK
  <2> QED  BY <2>1, AsideKeeps
<1>2. CASE GuestPowerOff(v)
  <2>1. Aside
    BY <1>2 DEF GuestPowerOff, Aside, Under, ProviderInv, Linked, Traces, PromiseInv, TypeOK
  <2> QED  BY <2>1, AsideKeeps
<1> QED  BY <1>1, <1>2 DEF Environment

\* A command that a guest may have forestalled can only stop the VM.
LEMMA StrayStep ==
  ASSUME ProviderInv, NEW o \in Ops, NEW s \in Steps, ~Anchored(s),
         Accept(o, s) \/ TaskOk(o, s) \/ TaskFail(o, s)
  PROVE  Linked'
<1>1. s \in {"shutdown", "stop"} /\ Fault("guest") /\ TypeOK /\ Traces /\ opVm[o] \in Vms
  BY DEF Anchored, ProviderInv, PromiseInv, Linked, TypeOK
<1>2. /\ UNCHANGED <<rows, calls, posts>> /\ UNCHANGED lock
      /\ flight' = flight \/ flight' = flight \ {<<o, s>>}
      /\ <<o, s>> \in flight => taskState[o][s] = "none"
      /\ Under(o, s) /\ taskState[o][s] # "ok"
  BY <1>1 DEF Accept, TaskOk, TaskFail, Under, Traces, TypeOK
<1>3. UNCHANGED <<conf, sized>>
  BY <1>1 DEF Accept, TaskOk, TaskFail, TypeOK
<1>4. /\ \A x \in Vms : power'[x] = power[x] \/ (power[x] # "missing" /\ power'[x] = "stopped")
      /\ \E t \in {"running", "ok", "failed"} :
            /\ taskState' = [taskState EXCEPT ![o][s] = t]
            /\ t = "ok" => power'[opVm[o]] = "stopped"
            /\ t = "running" <=> <<o, s>> \in flight
            /\ t = "running" => <<o, s>> \notin flight'
  BY <1>1 DEF Accept, TaskOk, TaskFail, Applies, PowerAfter, TypeOK, Traces
<1>5. PICK u \in {"running", "ok", "failed"} :
         /\ taskState' = [taskState EXCEPT ![o][s] = u]
         /\ u = "ok" => power'[opVm[o]] = "stopped"
         /\ u = "running" <=> <<o, s>> \in flight
         /\ u = "running" => <<o, s>> \notin flight'
  BY <1>4
<1>6. taskState'[o][s] = u /\ (<<o, s>> \in flight' => u = "none")
  BY <1>1, <1>2, <1>5 DEF TypeOK, Under
<1>7. ASSUME NEW p \in Ops, NEW t \in Steps
      PROVE  /\ Anchored(t) => taskState'[p][t] = taskState[p][t]
             /\ <<p, t>> \in flight' => <<p, t>> \in flight /\ taskState'[p][t] = "none"
             /\ taskState'[p][t] # "none" => Under(p, t) \/ taskState[p][t] # "none"
             /\ Under(p, t)' => Under(p, t)
             /\ taskState[p][t] = "ok" => taskState'[p][t] = "ok"
             /\ taskState'[p][t] = "ok" /\ taskState[p][t] # "ok" =>
                   t \in {"shutdown", "stop"} /\ power'[opVm[p]] = "stopped"
  <2>1. CASE p = o /\ t = s
    BY <1>1, <1>2, <1>5, <1>6, <2>1 DEF Under
  <2>2. CASE ~(p = o /\ t = s)
    <3>1. taskState'[p][t] = taskState[p][t]
      BY <1>1, <1>5, <2>2 DEF TypeOK
    <3>2. <<p, t>> \in flight' <=> <<p, t>> \in flight
      BY <1>2, <2>2
    <3> QED  BY <1>1, <3>1, <3>2 DEF Under, Traces
  <2> QED  BY <2>1, <2>2
<1>8. Aside
  BY <1>1, <1>2, <1>3, <1>4, <1>7 DEF Aside
<1> QED  BY <1>8, AsideKeeps

\* While a clone or a deletion is under way the VM shows it.
LEMMA UnderShows ==
  ASSUME ProviderInv, NEW o \in Ops, NEW s \in Steps, Under(o, s), Anchored(s)
  PROVE  /\ s = "clone" => vmStatus[opVm[o]] \in {"pending", "provisioning"}
         /\ s = "delete" => vmStatus[opVm[o]] = "deleting"
<1>1. opStep[o] = s /\ Shows(o, vmStatus[opVm[o]]) /\ opStatus[o] = "processing"
  BY Sole
<1> QED  BY <1>1, TypeSteps DEF ProviderInv, PromiseInv, Shows

LEMMA AcceptLands ==
  ASSUME ProviderInv, NEW o \in Ops, NEW s \in Steps, Anchored(s), Accept(o, s)
  PROVE  Lands(o, s)
<1> DEFINE v == opVm[o]
<1>1. /\ TypeOK /\ v \in Vms /\ Linked /\ Under(o, s)
      /\ UNCHANGED <<rows, calls, posts>> /\ flight' = flight \ {<<o, s>>}
  BY DEF Accept, Under, ProviderInv, PromiseInv, TypeOK
<1>2. PICK t \in {"running", "ok"} :
         /\ t = "ok" => s = "configure"
         /\ taskState' = [taskState EXCEPT ![o][s] = t]
         /\ conf' = [conf EXCEPT ![v] = @ \/ t = "ok"]
  BY DEF Accept
<1>3. PICK a \in {"missing", "stopped", "running"}, b \in {"none", "clone", "other"} :
         /\ power' = [power EXCEPT ![v] = a] /\ lock' = [lock EXCEPT ![v] = b]
         /\ IF s = "clone" THEN a = "stopped" /\ b = "clone" ELSE a = power[v] /\ b = lock[v]
  <2>1. CASE s = "clone"
    BY <2>1 DEF Accept
  <2>2. CASE s # "clone"
    BY <1>1, <2>2 DEF Accept, TypeOK
  <2> QED  BY <2>1, <2>2
<1>4. /\ \A x \in Vms : x # v => (conf'[x] <=> conf[x]) /\ (sized'[x] <=> sized[x])
      /\ s # "clone" => sized' = sized
      /\ conf'[v] <=> conf[v] \/ t = "ok"
  <2>1. /\ conf'[v] <=> conf[v] \/ t = "ok"
        /\ \A x \in Vms : x # v => (conf'[x] <=> conf[x])
    BY <1>1, <1>2 DEF TypeOK
  <2>2. s # "clone" => sized' = sized
    BY DEF Accept
  <2>3. CASE s # "clone"
    BY <2>1, <2>2, <2>3
  <2>4. CASE s = "clone"
    <3>1. PICK fits \in BOOLEAN : sized' = [sized EXCEPT ![v] = fits]
      BY <2>4 DEF Accept
    <3>2. \A x \in Vms : x # v => sized'[x] = sized[x]
      BY <1>1, <3>1 DEF TypeOK
    <3> QED  BY <2>1, <2>2, <3>2
  <2> QED  BY <2>3, <2>4
<1>5. Own(o, s) /\ taskState'[o][s] = t /\ power'[v] = a /\ lock'[v] = b
  BY <1>1, <1>2, <1>3, <1>4 DEF Own, TypeOK
<1>6. opVm'[o] = v
  BY <1>1 DEF rows, opRows
<1>7. Ahead(s, v)
  BY <1>1 DEF Linked, UnderAhead
<1>8. Under(o, s)' => Ahead(s, v)'
  BY <1>3, <1>5, <1>7, <1>6 DEF Ahead, Fault
<1>9. taskState'[o][s] = "ok" => Reached(s, v)'
  BY <1>2, <1>4, <1>5, <1>6 DEF Reached
<1>10. power'[v] = "running" => conf'[v] /\ sized'[v]
  BY <1>1, <1>3, <1>4, <1>5 DEF Linked, NeverBootsUnconfigured
<1>11. s = "clone" => vmStatus[v] \in {"pending", "provisioning"}
  BY <1>1, UnderShows
<1>12. <<o, s>> \notin flight'
  BY <1>1
<1> HIDE DEF v
<1>13. Lands(o, s)
  BY <1>1, <1>3, <1>4, <1>5, <1>6, <1>8, <1>9, <1>10, <1>11, <1>12 DEF Lands, v
<1> QED  BY <1>13

\* What a finished or failed task leaves.
LEMMA TaskLands ==
  ASSUME ProviderInv, NEW o \in Ops, NEW s \in Steps, Anchored(s), TaskOk(o, s) \/ TaskFail(o, s)
  PROVE  Lands(o, s)
<1> DEFINE v == opVm[o]
<1>1. /\ TypeOK /\ v \in Vms /\ Linked /\ Under(o, s) /\ taskState[o][s] = "running"
      /\ UNCHANGED <<rows, calls, posts, flight>> /\ opVm' = opVm
  BY DEF TaskOk, TaskFail, Under, ProviderInv, PromiseInv, TypeOK, rows, opRows
<1>2. <<o, s>> \notin flight /\ <<o, s>> \notin flight'
  BY <1>1 DEF Linked, Traces
<1>3. PICK t \in {"ok", "failed"}, a \in {"missing", "stopped", "running"}, b \in {"none", "clone", "other"} :
         /\ taskState' = [taskState EXCEPT ![o][s] = t]
         /\ power' = [power EXCEPT ![v] = a] /\ lock' = [lock EXCEPT ![v] = b]
         /\ t = "ok" => /\ Applies(s, v) /\ a = PowerAfter(s, power[v])
                        /\ conf' = [conf EXCEPT ![v] = @ \/ s = "configure"]
                        /\ sized' = [sized EXCEPT ![v] = @ \/ s = "resize"]
         /\ t = "failed" => (a = IF s = "clone" THEN "missing" ELSE power[v]) /\ UNCHANGED <<conf, sized>>
  <2>1. CASE TaskOk(o, s)
    <3>1. PowerAfter(s, power[v]) \in {"missing", "stopped", "running"}
      BY <1>1 DEF PowerAfter, TypeOK
    <3>2. power' = [power EXCEPT ![v] = PowerAfter(s, power[v])]
      BY <2>1 DEF TaskOk
    <3>3. PICK b \in {"none", "clone", "other"} : lock' = [lock EXCEPT ![v] = b]
      BY <1>1, <2>1 DEF TaskOk, TypeOK
    <3> QED  BY <2>1, <3>1, <3>2, <3>3 DEF TaskOk
  <2>2. CASE TaskFail(o, s)
    <3>1. PICK b \in {"none", "clone", "other"} : lock' = [lock EXCEPT ![v] = b]
      BY <1>1, <2>2 DEF TaskFail, TypeOK
    <3>2. PICK a \in {"missing", "stopped", "running"} :
             /\ power' = [power EXCEPT ![v] = a]
             /\ a = IF s = "clone" THEN "missing" ELSE power[v]
      BY <1>1, <2>2 DEF TaskFail, TypeOK
    <3> QED  BY <2>2, <3>1, <3>2 DEF TaskFail
  <2> QED  BY <2>1, <2>2
<1>4. /\ \A x \in Vms : x # v => (conf'[x] <=> conf[x]) /\ (sized'[x] <=> sized[x])
      /\ conf'[v] <=> conf[v] \/ (t = "ok" /\ s = "configure")
      /\ sized'[v] <=> sized[v] \/ (t = "ok" /\ s = "resize")
  <2>1. CASE t = "ok"
    <3>1. /\ conf' = [conf EXCEPT ![v] = conf[v] \/ s = "configure"]
          /\ sized' = [sized EXCEPT ![v] = sized[v] \/ s = "resize"]
      BY <1>3, <2>1
    <3>2. /\ conf'[v] <=> conf[v] \/ s = "configure"
          /\ \A x \in Vms : x # v => (conf'[x] <=> conf[x])
      BY <1>1, <3>1 DEF TypeOK
    <3>3. /\ sized'[v] <=> sized[v] \/ s = "resize"
          /\ \A x \in Vms : x # v => (sized'[x] <=> sized[x])
      BY <1>1, <3>1 DEF TypeOK
    <3> QED  BY <2>1, <3>2, <3>3
  <2>2. CASE t = "failed"
    BY <1>3, <2>2
  <2> QED  BY <2>1, <2>2
<1>5. Own(o, s) /\ taskState'[o][s] = t /\ power'[v] = a
  BY <1>1, <1>3, <1>4 DEF Own, TypeOK
<1>6. ~Under(o, s)'
  BY <1>2, <1>3, <1>5 DEF Under
<1>7. /\ t = "ok" /\ s = "start" => a = "running"
      /\ t = "ok" /\ s \in {"shutdown", "stop"} => a = "stopped"
      /\ t = "ok" /\ s = "delete" => a = "missing"
      /\ t = "failed" \/ s \in {"clone", "configure", "resize"} => a = power[v] \/ a = "missing"
      /\ (t = "failed" \/ s \in {"clone", "configure", "resize"}) /\ s # "clone" => a = power[v]
  BY <1>3 DEF PowerAfter
<1>8. t = "ok" => Reached(s, v)'
  BY <1>1, <1>4, <1>5, <1>7 DEF Reached, Steps
<1>9. s = "start" => conf[v] /\ sized[v]
  BY <1>1, StartIsPrepared
<1>10. a = "running" => conf'[v] /\ sized'[v]
  <2>1. power[v] = "running" => conf[v] /\ sized[v]
    BY <1>1 DEF Linked, NeverBootsUnconfigured
  <2> QED  BY <1>4, <1>7, <1>9, <2>1 DEF Steps
<1>11. /\ s = "clone" => vmStatus[v] \in {"pending", "provisioning"}
       /\ s = "delete" => vmStatus[v] = "deleting"
  BY <1>1, UnderShows
<1>12. vmStatus[v] \in {"stopped", "running"} =>
          \/ a = power[v]
          \/ t = "ok" /\ s = "start" /\ a = "running"
          \/ t = "ok" /\ s \in {"shutdown", "stop"} /\ a = "stopped"
  BY <1>7, <1>11 DEF Steps
<1> HIDE DEF v
<1>13. Lands(o, s)
  BY <1>1, <1>2, <1>3, <1>4, <1>5, <1>6, <1>8, <1>10, <1>12 DEF Lands, v
<1> QED  BY <1>13

LEMMA ProviderStep ==
  ASSUME ProviderInv, NEW o \in Ops, NEW s \in Steps, Provider(o, s)
  PROVE  Linked'
<1>1. CASE Drop(o, s)
  BY <1>1, DropStep
<1>2. CASE (Accept(o, s) \/ TaskOk(o, s) \/ TaskFail(o, s)) /\ Anchored(s)
  BY <1>2, AcceptLands, TaskLands, LandsKeeps
<1>3. CASE (Accept(o, s) \/ TaskOk(o, s) \/ TaskFail(o, s)) /\ ~Anchored(s)
  BY <1>3, StrayStep
<1> QED  BY <1>1, <1>2, <1>3 DEF Provider

-----------------------------------------------------------------------------
(* A call's steps *)

\* What a command's GETs mean for its step.
LEMMA OutcomeMeans ==
  ASSUME NEW s \in Steps, NEW p \in {"missing", "stopped", "running"}, NEW l, NEW f \in BOOLEAN
  PROVE  /\ ProbeOutcome(s, p, l, f) = "post" =>
               /\ s = "clone" => p = "missing"
               /\ s = "start" => p # "running"
               /\ s \in {"shutdown", "stop"} => p = "running"
               /\ s = "delete" => p # "missing"
         /\ ProbeOutcome(s, p, l, f) = "done" =>
               /\ s # "configure"
               /\ s = "resize" => f
               /\ s = "start" => p = "running"
               /\ s \in {"shutdown", "stop"} => p = "stopped"
               /\ s = "delete" => p = "missing"
<1>1. CASE s = "clone"
  BY <1>1 DEF ProbeOutcome, CloneOutcome
<1>2. CASE s = "configure"
  BY <1>2 DEF ProbeOutcome, ConfigureOutcome
<1>3. CASE s = "resize"
  BY <1>3 DEF ProbeOutcome, ResizeOutcome
<1>4. CASE s = "delete"
  BY <1>4 DEF ProbeOutcome, DeleteOutcome
<1>5. CASE s \in {"start", "shutdown", "stop"}
  <2>1. Goal["start"] = "running" /\ Goal["shutdown"] = "stopped" /\ Goal["stop"] = "stopped"
    BY DEF Goal
  <2>2. ProbeOutcome(s, p, l, f) = PowerOutcome(p, l, Goal[s])
    BY <1>5 DEF ProbeOutcome
  <2> QED  BY <1>5, <2>1, <2>2 DEF PowerOutcome
<1> QED  BY <1>1, <1>2, <1>3, <1>4, <1>5 DEF Steps

\* Only a call has moved.
LEMMA CallMoves ==
  ASSUME ProviderInv, UNCHANGED <<opRows, vmStatus, prov, posts>>, NEW w \in Workers,
         \A x \in Workers : x # w => /\ wAt'[x] = wAt[x] /\ wOp'[x] = wOp[x]
                                    /\ wStep'[x] = wStep[x] /\ wReply'[x] = wReply[x],
         wAt'[w] = "post" => /\ wOp'[w] = wOp[w] /\ wStep'[w] = wStep[w]
                             /\ Ahead(wStep[w], opVm[wOp[w]])
                             /\ wStep[w] = "clone" => power[opVm[wOp[w]]] = "missing",
         wAt'[w] = "reply" /\ wReply'[w] = "done" =>
                             /\ wOp'[w] = wOp[w] /\ wStep'[w] = wStep[w]
                             /\ Reached(wStep[w], opVm[wOp[w]])
                             /\ posts[wOp[w]][wStep[w]] = 0 \/ taskState[wOp[w]][wStep[w]] = "ok"
  PROVE  Linked'
<1>1. /\ UNCHANGED <<opStatus, opType, opVm, opStep, vmStatus, posts>>
      /\ UNCHANGED <<flight, taskState, power, lock, conf, sized>> /\ Linked
  BY DEF ProviderInv, opRows, prov
<1>2. ReadHolds'
  <2>1. ASSUME NEW x \in Workers, wAt'[x] = "post"
        PROVE  /\ Ahead(wStep'[x], opVm[wOp'[x]])
               /\ wStep'[x] = "clone" => power[opVm[wOp'[x]]] = "missing"
    BY <1>1, <2>1 DEF Linked, ReadHolds
  <2> QED  BY <1>1, <2>1 DEF ReadHolds, Ahead, Fault
<1>3. AnswerKnows'
  <2>1. ASSUME NEW x \in Workers, wAt'[x] = "reply" /\ wReply'[x] = "done"
        PROVE  /\ Reached(wStep'[x], opVm[wOp'[x]])
               /\ posts[wOp'[x]][wStep'[x]] = 0 \/ taskState[wOp'[x]][wStep'[x]] = "ok"
    BY <1>1, <2>1 DEF Linked, AnswerKnows
  <2> QED  BY <1>1, <2>1 DEF AnswerKnows, Reached, Fault
<1>4. Traces' /\ NoStray' /\ StepKnows'
  BY <1>1 DEF Linked, Traces, NoStray, Under, Anchored, StepKnows, Reached, Fault
<1>5. UnderAhead'
  BY <1>1 DEF Linked, UnderAhead, Under, Ahead, Fault
<1>6. Prepared' /\ NeverBootsUnconfigured' /\ DeletedIsGone'
  BY <1>1 DEF Linked, Prepared, Active, NeverBootsUnconfigured, DeletedIsGone
<1>7. StoppedIsTrue' /\ RunningIsTrue'
  BY <1>1 DEF Linked, StoppedIsTrue, RunningIsTrue, Due, Fault
<1> QED  BY <1>2, <1>3, <1>4, <1>5, <1>6, <1>7 DEF Linked

LEMMA ProbeStep == ASSUME ProviderInv, NEW w \in Workers, Probe(w) PROVE Linked'
<1> DEFINE o == wOp[w]
           v == opVm[o]
           r == ProbeOutcome(wStep[w], power[v], lock[v], sized[v])
<1>1. /\ wAt[w] = "probe" /\ UNCHANGED <<rows, wOp, wStep, prov, posts>>
      /\ IF r = "post" THEN wAt' = [wAt EXCEPT ![w] = "post"] /\ UNCHANGED wReply
                       ELSE /\ wAt' = [wAt EXCEPT ![w] = "reply"]
                            /\ wReply' = [wReply EXCEPT ![w] = r]
  BY DEF Probe
<1>2. /\ o \in Ops /\ wStep[w] \in Steps /\ v \in Vms /\ TypeOK
      /\ power[v] \in {"missing", "stopped", "running"} /\ sized[v] \in BOOLEAN
  BY <1>1, CallRow DEF ProviderInv, PromiseInv, TypeOK
<1>3. posts[o][wStep[w]] = 0
  BY <1>1 DEF ProviderInv, PromiseInv, PostInv, NotPostedYet
<1>4. r = "post" => Ahead(wStep[w], v) /\ (wStep[w] = "clone" => power[v] = "missing")
  BY <1>2, OutcomeMeans DEF Ahead
<1>5. r = "done" => Reached(wStep[w], v)
  BY <1>2, OutcomeMeans DEF Reached
<1>6. \A x \in Workers : x # w => wAt'[x] = wAt[x] /\ wReply'[x] = wReply[x]
  BY <1>1, <1>2 DEF TypeOK
<1>7. /\ wAt'[w] = "post" => r = "post"
      /\ wAt'[w] = "reply" /\ wReply'[w] = "done" => r = "done"
  BY <1>1, <1>2 DEF TypeOK
<1> HIDE DEF r
<1> QED  BY <1>1, <1>3, <1>4, <1>5, <1>6, <1>7, CallMoves DEF rows

\* A null answer says that the configuration was applied.
LEMMA ReceiveStep == ASSUME ProviderInv, NEW w \in Workers, Receive(w) PROVE Linked'
<1> DEFINE o == wOp[w]
<1>1. PICK r \in {"task", "done"} :
         /\ wAt[w] = "sent" /\ UNCHANGED <<rows, wOp, wStep, prov, posts>>
         /\ wAt' = [wAt EXCEPT ![w] = "reply"] /\ wReply' = [wReply EXCEPT ![w] = r]
         /\ r = "done" => wStep[w] = "configure" /\ taskState[o][wStep[w]] = "ok"
  BY DEF Receive
<1>2. /\ o \in Ops /\ opStatus[o] = "processing" /\ opStep[o] = wStep[w]
      /\ TypeOK /\ StepKnows
  BY <1>1, CallRow DEF ProviderInv, PromiseInv, Linked
<1>3. r = "done" => Reached(wStep[w], opVm[o])
  BY <1>1, <1>2 DEF StepKnows
<1>4. \A x \in Workers : x # w => wAt'[x] = wAt[x] /\ wReply'[x] = wReply[x]
  BY <1>1, <1>2 DEF TypeOK
<1>5. wAt'[w] = "reply" /\ wReply'[w] = r
  BY <1>1, <1>2 DEF TypeOK
<1> QED  BY <1>1, <1>3, <1>4, <1>5, CallMoves DEF rows

\* A call that raises, dies or is refused knows nothing.
LEMMA LostStep ==
  ASSUME ProviderInv, NEW w \in Workers, CallFails(w) \/ Crash(w) \/ StoreRefused(w)
  PROVE  Linked'
<1>1. TypeOK /\ UNCHANGED <<rows, prov, posts>>
  BY DEF CallFails, Crash, StoreRefused, ProviderInv, PromiseInv
<1>2. \A x \in Workers : x # w => /\ wAt'[x] = wAt[x] /\ wOp'[x] = wOp[x]
                                 /\ wStep'[x] = wStep[x] /\ wReply'[x] = wReply[x]
  BY <1>1 DEF CallFails, Crash, StoreRefused, HangUp, TypeOK
<1>3. wAt'[w] # "post" /\ ~(wAt'[w] = "reply" /\ wReply'[w] = "done")
  BY <1>1 DEF CallFails, Crash, StoreRefused, HangUp, TypeOK
<1> QED  BY <1>1, <1>2, <1>3, CallMoves DEF rows

LEMMA PostStep == ASSUME ProviderInv, NEW w \in Workers, Post(w) PROVE Linked'
<1>1. PICK o \in Ops, s \in Steps : o = wOp[w] /\ s = wStep[w]
  BY CallRow DEF Post, ProviderInv
<1>2. /\ wAt[w] = "post" /\ wAt' = [wAt EXCEPT ![w] = "sent"]
      /\ flight' = flight \cup {<<o, s>>}
      /\ posts' = [posts EXCEPT ![o][s] = @ + 1]
      /\ UNCHANGED <<opStatus, opType, opVm, opStep, vmStatus>>
      /\ UNCHANGED <<wOp, wStep, wReply, taskState, power, lock, conf, sized>>
  BY <1>1 DEF Post, rows, opRows
<1>3. TypeOK /\ Linked /\ PromiseInv
  BY DEF ProviderInv, PromiseInv
<1>4. opStatus[o] = "processing" /\ opStep[o] = s /\ Active(o) /\ opVm[o] \in Vms
  BY <1>1, <1>2, CallRow DEF ProviderInv
<1>5. posts[o][s] = 0
  BY <1>1, <1>2, <1>3 DEF PromiseInv, PostInv, NotPostedYet
<1>6. taskState[o][s] = "none"
  BY <1>3, <1>5 DEF Linked, Traces
<1>7. posts'[o][s] = 1 /\ \A p \in Ops, t \in Steps : ~(p = o /\ t = s) => posts'[p][t] = posts[p][t]
  BY <1>2, <1>3, <1>5 DEF TypeOK
<1>8. \A p \in Ops, t \in Steps : <<p, t>> \in flight' <=> <<p, t>> \in flight \/ (p = o /\ t = s)
  BY <1>2
<1>9. \A x \in Workers : x # w => wAt'[x] = wAt[x]
  BY <1>2, <1>3 DEF TypeOK
<1>10. wAt'[w] = "sent"
  BY <1>2, <1>3 DEF TypeOK
<1>11. Ahead(s, opVm[o]) /\ (s = "clone" => power[opVm[o]] = "missing")
  BY <1>1, <1>2, <1>3 DEF Linked, ReadHolds
<1>12. Traces'
  <2>1. ASSUME NEW p \in Ops, NEW t \in Steps
        PROVE  /\ <<p, t>> \in flight' => posts'[p][t] # 0 /\ taskState[p][t] = "none"
               /\ taskState[p][t] # "none" => posts'[p][t] # 0
    BY <1>3, <1>6, <1>7, <1>8 DEF Linked, Traces
  <2> QED  BY <1>2, <2>1 DEF Traces
<1>13. NoStray'
  <2>1. \A p \in Ops, t \in Steps : Under(p, t)' => Under(p, t) \/ (p = o /\ t = s)
    BY <1>2, <1>8 DEF Under
  <2> QED  BY <1>2, <1>3, <1>4, <2>1 DEF Linked, NoStray, Anchored, Fault
<1>14. UnderAhead'
  <2>1. ASSUME NEW p \in Ops, NEW t \in Steps, Under(p, t)' PROVE Ahead(t, opVm[p])
    BY <1>2, <1>3, <1>8, <1>11, <2>1 DEF Under, Linked, UnderAhead
  <2>2. ASSUME NEW p \in Ops, <<p, "clone">> \in flight' PROVE power[opVm[p]] = "missing"
    BY <1>3, <1>8, <1>11, <2>2 DEF Linked, UnderAhead, Steps
  <2> QED  BY <1>2, <1>3, <2>1, <2>2 DEF Linked, UnderAhead, Ahead, Fault
<1>15. ReadHolds'
  BY <1>2, <1>3, <1>9, <1>10 DEF Linked, ReadHolds, Ahead, Fault
<1>16. AnswerKnows'
  <2>1. ASSUME NEW x \in Workers, wAt'[x] = "reply" /\ wReply[x] = "done"
        PROVE  /\ Reached(wStep[x], opVm[wOp[x]])
               /\ posts'[wOp[x]][wStep[x]] = 0 \/ taskState[wOp[x]][wStep[x]] = "ok"
    <3>1. x # w /\ wAt[x] = "reply"
      BY <1>9, <1>10, <2>1
    <3>2. wOp[x] # o /\ wOp[x] \in Ops /\ wStep[x] \in Steps
      BY <1>1, <1>2, <1>3, <3>1, CallHasOp DEF PromiseInv, CallOwn
    <3>3. posts'[wOp[x]][wStep[x]] = posts[wOp[x]][wStep[x]]
      BY <1>7, <3>2
    <3> QED  BY <1>3, <2>1, <3>1, <3>3 DEF Linked, AnswerKnows
  <2> QED  BY <1>2, <2>1 DEF AnswerKnows, Reached, Fault
<1>17. StepKnows' /\ Prepared' /\ NeverBootsUnconfigured'
  BY <1>2, <1>3 DEF Linked, StepKnows, Reached, Fault, Prepared, Active, NeverBootsUnconfigured
<1>18. StoppedIsTrue' /\ RunningIsTrue'
  BY <1>2, <1>3 DEF Linked, StoppedIsTrue, RunningIsTrue, Due, Fault
<1>19. DeletedIsGone'
  <2>1. vmStatus[opVm[o]] # "deleted"
    BY <1>3, <1>4 DEF PromiseInv, RowInv, VmRows, Bad
  <2> QED  BY <1>2, <1>3, <1>8, <2>1 DEF Linked, DeletedIsGone
<1> QED
  BY <1>12, <1>13, <1>14, <1>15, <1>16, <1>17, <1>18, <1>19 DEF Linked

-----------------------------------------------------------------------------
(* Steps of the rows *)

\* The provider stands still while row o and the VM of o are written; a call
\* may begin, or end.
RowMoves(o) ==
    /\ UNCHANGED <<prov, posts>>
    /\ \A p \in Ops : p # o => /\ opStatus'[p] = opStatus[p] /\ opStep'[p] = opStep[p]
                              /\ opType'[p] = opType[p] /\ opVm'[p] = opVm[p]
    /\ opStatus[o] = "none" \/ opVm'[o] = opVm[o]
    /\ \A x \in Vms : x # opVm'[o] => vmStatus'[x] = vmStatus[x]
    /\ \A w \in Workers : wAt'[w] \in {"post", "reply"} =>
          /\ wAt'[w] = wAt[w] /\ wOp'[w] = wOp[w] /\ wStep'[w] = wStep[w] /\ wReply'[w] = wReply[w]

\* Nothing is sent, under way or called for an operation that is not there yet.
LEMMA NoneUnder ==
  ASSUME ProviderInv, NEW o \in Ops, opStatus[o] = "none"
  PROVE  /\ \A s \in Steps : ~Under(o, s) /\ <<o, s>> \notin flight
         /\ \A w \in Workers : wAt[w] # "idle" => wOp[w] # o
BY DEF ProviderInv, Linked, Traces, PromiseInv, PostInv, NoTrace, Under

\* What is due for a VM, unless by the row that is written, stays due.
LEMMA DueRowStays ==
  ASSUME NEW o \in Ops, RowMoves(o), NEW v, NEW S, Due(v, S),
         /\ opStatus[o] = "processing" /\ taskState[o][opStep[o]] = "ok" =>
               opStatus'[o] = "processing" /\ opStep'[o] = opStep[o] /\ opVm'[o] = opVm[o]
  PROVE  Due(v, S)'
<1>1. PICK p \in Ops : /\ opVm[p] = v /\ opStatus[p] = "processing" /\ opStep[p] \in S
                       /\ taskState[p][opStep[p]] = "ok"
  BY DEF Due
<1>2. opVm'[p] = v /\ opStatus'[p] = "processing" /\ opStep'[p] = opStep[p] /\ taskState' = taskState
  BY <1>1 DEF RowMoves, prov
<1> QED  BY <1>1, <1>2 DEF Due

\* What is left to show of a step that writes one row.
RowHolds(o, v) ==
    /\ \A s \in Steps : Under(o, s) /\ Anchored(s) => opStatus'[o] = "processing" /\ opStep'[o] = s
    /\ opStatus'[o] = "processing" /\ taskState[o][opStep'[o]] = "ok" => Reached(opStep'[o], v)
    /\ opStatus'[o] \in {"pending", "processing"} /\ opType'[o] = "create" =>
          /\ opStep'[o] \in {"resize", "start"} => conf[v]
          /\ opStep'[o] = "start" => sized[v]
    /\ vmStatus'[v] \in {"running", "stopped", "deleting"} => conf[v] /\ sized[v]
    /\ vmStatus'[v] = "stopped" => power[v] = "stopped" \/ (power[v] = "running" /\ Due(v, {"start"})')
    /\ vmStatus'[v] = "running" =>
          Fault("guest") \/ power[v] = "running" \/ Due(v, {"shutdown", "stop"})'
    /\ vmStatus'[v] = "deleted" =>
          power[v] = "missing" /\ \A p \in Ops : opVm'[p] = v => <<p, "clone">> \notin flight

LEMMA RowStepKeeps ==
  ASSUME ProviderInv, NEW o \in Ops, RowMoves(o), NEW v \in Vms, opVm'[o] = v, RowHolds(o, v)
  PROVE  Linked'
<1>1. TypeOK /\ Linked /\ UNCHANGED <<flight, taskState, power, lock, conf, sized, posts>>
  BY DEF ProviderInv, PromiseInv, RowMoves, prov
<1>2. \A p \in Ops : p # o => /\ opStatus'[p] = opStatus[p] /\ opStep'[p] = opStep[p]
                             /\ opType'[p] = opType[p] /\ opVm'[p] = opVm[p]
  BY DEF RowMoves
<1>3. opVm'[o] = opVm[o] \/ /\ opStatus[o] = "none"
                            /\ \A s \in Steps : ~Under(o, s) /\ <<o, s>> \notin flight
                            /\ \A w \in Workers : wAt[w] # "idle" => wOp[w] # o
  BY NoneUnder DEF RowMoves
<1>4. \A p \in Ops, s \in Steps : <<p, s>> \in flight \/ taskState[p][s] = "running" => opVm'[p] = opVm[p]
  BY <1>2, <1>3 DEF Under
<1>5. Traces'
  BY <1>1 DEF Linked, Traces
<1>6. NoStray'
  <2>1. ASSUME NEW p \in Ops, NEW s \in Steps, Under(p, s), Anchored(s)
        PROVE  opStatus'[p] = "processing" /\ opStep'[p] = s
    BY <1>1, <1>2, <2>1 DEF Linked, NoStray, RowHolds
  <2> QED  BY <1>1, <2>1 DEF NoStray, Anchored, Fault, Under
<1>7. UnderAhead'
  <2>1. ASSUME NEW p \in Ops, NEW s \in Steps, Under(p, s) PROVE Ahead(s, opVm'[p])
    BY <1>1, <1>4, <2>1 DEF Linked, UnderAhead, Under
  <2>2. ASSUME NEW p \in Ops
        PROVE  /\ <<p, "clone">> \in flight => power[opVm'[p]] = "missing"
               /\ taskState[p]["clone"] = "running" => lock[opVm'[p]] = "clone"
    <3>1. /\ <<p, "clone">> \in flight => power[opVm[p]] = "missing"
          /\ taskState[p]["clone"] = "running" => lock[opVm[p]] = "clone"
      BY <1>1 DEF Linked, UnderAhead
    <3> QED  BY <1>4, <3>1 DEF Steps
  <2> QED  BY <1>1, <2>1, <2>2 DEF UnderAhead, Ahead, Fault, Under
<1>8. \A w \in Workers : wAt'[w] \in {"post", "reply"} =>
         /\ wAt[w] = wAt'[w] /\ wOp'[w] = wOp[w] /\ wStep'[w] = wStep[w] /\ wReply'[w] = wReply[w]
         /\ opVm'[wOp[w]] = opVm[wOp[w]]
  <2>1. ASSUME NEW w \in Workers, wAt'[w] \in {"post", "reply"}
        PROVE  opVm'[wOp[w]] = opVm[wOp[w]]
    <3>1. wAt[w] # "idle"
      BY <2>1 DEF RowMoves
    <3> QED  BY <1>1, <1>2, <1>3, <3>1, CallHasOp
  <2> QED  BY <2>1 DEF RowMoves
<1>9. ReadHolds'
  BY <1>1, <1>8 DEF Linked, ReadHolds, Ahead, Fault
<1>10. AnswerKnows'
  BY <1>1, <1>8 DEF Linked, AnswerKnows, Reached, Fault
<1>11. StepKnows'
  <2>1. ASSUME NEW p \in Ops, opStatus'[p] = "processing", taskState[p][opStep'[p]] = "ok"
        PROVE  Reached(opStep'[p], opVm'[p])
    BY <1>1, <1>2, <2>1 DEF Linked, StepKnows, RowHolds
  <2> QED  BY <1>1, <2>1 DEF StepKnows, Reached, Fault
<1>12. Prepared'
  <2>1. ASSUME NEW p \in Ops, opStatus'[p] \in {"pending", "processing"}, opType'[p] = "create"
        PROVE  /\ opStep'[p] \in {"resize", "start"} => conf[opVm'[p]]
               /\ opStep'[p] = "start" => sized[opVm'[p]]
    BY <1>1, <1>2, <2>1 DEF Linked, Prepared, Active, RowHolds
  <2>2. ASSUME NEW x \in Vms, vmStatus'[x] \in {"running", "stopped", "deleting"}
        PROVE  conf[x] /\ sized[x]
    <3>1. CASE x = v
      BY <2>2, <3>1 DEF RowHolds
    <3>2. CASE x # v
      BY <1>1, <2>2, <3>2 DEF RowMoves, Linked, Prepared
    <3> QED  BY <3>1, <3>2
  <2> QED  BY <1>1, <2>1, <2>2 DEF Prepared, Active
<1>13. \A x \in Vms : \A S : x # v /\ Due(x, S) => Due(x, S)'
  <2>1. ASSUME NEW x \in Vms, NEW S, x # v, Due(x, S) PROVE Due(x, S)'
    <3>1. PICK p \in Ops : /\ opVm[p] = x /\ opStatus[p] = "processing" /\ opStep[p] \in S
                           /\ taskState[p][opStep[p]] = "ok"
      BY <2>1 DEF Due
    <3>2. p # o
      BY <1>3, <2>1, <3>1
    <3> QED  BY <1>1, <1>2, <3>1, <3>2 DEF Due
  <2> QED  BY <2>1
<1>14. StoppedIsTrue'
  <2>1. ASSUME NEW x \in Vms, vmStatus'[x] = "stopped"
        PROVE  power[x] = "stopped" \/ (power[x] = "running" /\ Due(x, {"start"})')
    <3>1. CASE x = v
      BY <2>1, <3>1 DEF RowHolds
    <3>2. CASE x # v
      BY <1>1, <1>13, <2>1, <3>2 DEF RowMoves, Linked, StoppedIsTrue
    <3> QED  BY <3>1, <3>2
  <2> QED  BY <1>1, <2>1 DEF StoppedIsTrue
<1>15. RunningIsTrue'
  <2>1. ASSUME NEW x \in Vms, vmStatus'[x] = "running"
        PROVE  Fault("guest") \/ power[x] = "running" \/ Due(x, {"shutdown", "stop"})'
    <3>1. CASE x = v
      BY <2>1, <3>1 DEF RowHolds
    <3>2. CASE x # v
      BY <1>1, <1>13, <2>1, <3>2 DEF RowMoves, Linked, RunningIsTrue
    <3> QED  BY <3>1, <3>2
  <2> QED  BY <1>1, <2>1 DEF RunningIsTrue, Fault
<1>16. NeverBootsUnconfigured'
  BY <1>1 DEF Linked, NeverBootsUnconfigured
<1>17. DeletedIsGone'
  <2>1. ASSUME NEW x \in Vms, vmStatus'[x] = "deleted"
        PROVE  power[x] = "missing" /\ \A p \in Ops : opVm'[p] = x => <<p, "clone">> \notin flight
    <3>1. CASE x = v
      BY <2>1, <3>1 DEF RowHolds
    <3>2. CASE x # v
      <4>1. power[x] = "missing" /\ \A p \in Ops : opVm[p] = x => <<p, "clone">> \notin flight
        BY <1>1, <2>1, <3>2 DEF RowMoves, Linked, DeletedIsGone
      <4> QED  BY <1>4, <4>1 DEF Steps
    <3> QED  BY <3>1, <3>2
  <2> QED  BY <1>1, <2>1 DEF DeletedIsGone
<1> QED
  BY <1>5, <1>6, <1>7, <1>9, <1>10, <1>11, <1>12, <1>14, <1>15, <1>16, <1>17 DEF Linked

\* A command is prepared, its answer or its fate is noted: the step stays.
LEMMA StepStays ==
  ASSUME ProviderInv, NEW o \in Ops, RowMoves(o), Begun(o) \/ Kept(o) \/ Cloned(o) \/ Tasked(o)
  PROVE  Linked'
<1>1. TypeOK /\ Linked /\ PromiseInv
  BY DEF ProviderInv, PromiseInv
<1>2. /\ Active(o) /\ UNCHANGED <<opType, opVm, opStep>>
      /\ opStatus'[o] = "processing"
  BY <1>1 DEF Begun, Kept, Cloned, Tasked, Active, TypeOK
<1>3. PICK v \in Vms : v = opVm[o] /\ opVm'[o] = v
  BY <1>1, <1>2 DEF TypeOK
<1>4. Shows(o, vmStatus[v]) /\ vmStatus[v] # "deleted"
  BY <1>1, <1>2, <1>3 DEF PromiseInv, ShownInv, RowInv, VmRows, Bad
<1>5. \/ vmStatus'[v] = vmStatus[v] \/ vmStatus'[v] = "provisioning"
      \/ vmStatus'[v] = "deleting" /\ vmStatus[v] = "stopped"
  <2>1. CASE Begun(o) /\ opStep[o] = "delete"
    <3>1. opType[o] = "delete"
      BY <1>1, <2>1, TypeSteps DEF PromiseInv
    <3> QED  BY <1>1, <1>3, <1>4, <2>1, <3>1 DEF Begun, Shows, SetVm, TypeOK
  <2>2. CASE Begun(o) /\ opStep[o] # "delete"
    BY <1>1, <1>3, <2>2 DEF Begun, SetVm, TypeOK
  <2>3. CASE Kept(o) \/ Tasked(o) \/ Cloned(o)
    BY <1>1, <1>3, <2>3 DEF Kept, Tasked, Cloned, SetVm, TypeOK
  <2> QED  BY <2>1, <2>2, <2>3
<1>6. opStatus[o] = "pending" => taskState[o][opStep[o]] = "none"
  <2>1. opStatus[o] = "pending" => posts[o][opStep[o]] = 0
    <3>1. opStep[o] \in Steps
      BY <1>1 DEF TypeOK
    <3> QED  BY <1>1, <3>1, RankType DEF PromiseInv, PostInv, PostedBehind, Behind
  <2> QED  BY <1>1, <2>1 DEF Linked, Traces, TypeOK
<1>7. taskState[o][opStep[o]] = "ok" => opStatus[o] = "processing" /\ Reached(opStep[o], v)
  BY <1>1, <1>2, <1>3, <1>6 DEF Linked, StepKnows, Active
<1>8. \A s \in Steps : Under(o, s) /\ Anchored(s) => opStep[o] = s
  BY <1>1 DEF Linked, NoStray
<1>9. Due(v, {"start"}) => Due(v, {"start"})'
  BY <1>2, DueRowStays
<1>10. Due(v, {"shutdown", "stop"}) => Due(v, {"shutdown", "stop"})'
  BY <1>2, DueRowStays
<1>11. opType[o] = "create" => /\ opStep[o] \in {"resize", "start"} => conf[v]
                               /\ opStep[o] = "start" => sized[v]
  BY <1>1, <1>2, <1>3 DEF Linked, Prepared
<1>12. vmStatus'[v] \in {"running", "stopped", "deleting"} => conf[v] /\ sized[v]
  BY <1>1, <1>5 DEF Linked, Prepared
<1>13. vmStatus'[v] = "stopped" => power[v] = "stopped" \/ (power[v] = "running" /\ Due(v, {"start"})')
  BY <1>1, <1>5, <1>9 DEF Linked, StoppedIsTrue
<1>14. vmStatus'[v] = "running" =>
          Fault("guest") \/ power[v] = "running" \/ Due(v, {"shutdown", "stop"})'
  BY <1>1, <1>5, <1>10 DEF Linked, RunningIsTrue
<1>15. RowHolds(o, v)
  BY <1>2, <1>4, <1>5, <1>7, <1>8, <1>11, <1>12, <1>13, <1>14 DEF RowHolds
<1> QED  BY <1>3, <1>15, RowStepKeeps

\* A failed task is over: nothing is under way, nothing is due.
LEMMA FailedKeeps ==
  ASSUME ProviderInv, NEW o \in Ops, RowMoves(o), Ended(o), taskState[o][opStep[o]] = "failed"
  PROVE  Linked'
<1>1. TypeOK /\ Linked /\ PromiseInv
  BY DEF ProviderInv, PromiseInv
<1>2. Active(o) /\ UNCHANGED opVm /\ opStatus'[o] = "failed"
  BY <1>1 DEF Ended, Active, TypeOK
<1>3. PICK v \in Vms : v = opVm[o] /\ opVm'[o] = v
  BY <1>1, <1>2 DEF TypeOK
<1>4. vmStatus[v] # "deleted"
  BY <1>1, <1>2, <1>3 DEF PromiseInv, RowInv, VmRows, Bad
<1>5. vmStatus'[v] = vmStatus[v] \/ vmStatus'[v] = "failed"
  BY <1>1, <1>3 DEF Ended, SetVm, TypeOK
<1>6. \A s \in Steps : ~(Under(o, s) /\ Anchored(s))
  BY <1>1 DEF Linked, NoStray, Under, Traces
<1>7. Due(v, {"start"}) => Due(v, {"start"})'
  BY DueRowStays
<1>8. Due(v, {"shutdown", "stop"}) => Due(v, {"shutdown", "stop"})'
  BY DueRowStays
<1>9. vmStatus'[v] \in {"running", "stopped", "deleting"} => conf[v] /\ sized[v]
  BY <1>1, <1>5 DEF Linked, Prepared
<1>10. vmStatus'[v] = "stopped" => power[v] = "stopped" \/ (power[v] = "running" /\ Due(v, {"start"})')
  BY <1>1, <1>5, <1>7 DEF Linked, StoppedIsTrue
<1>11. vmStatus'[v] = "running" =>
          Fault("guest") \/ power[v] = "running" \/ Due(v, {"shutdown", "stop"})'
  BY <1>1, <1>5, <1>8 DEF Linked, RunningIsTrue
<1>12. RowHolds(o, v)
  BY <1>2, <1>4, <1>5, <1>6, <1>9, <1>10, <1>11 DEF RowHolds
<1> QED  BY <1>3, <1>12, RowStepKeeps

\* Nothing is known of a new operation, and its VM is as it was.
LEMMA AskedKeeps ==
  ASSUME ProviderInv, NEW o \in Ops, NEW v \in Vms, NEW t \in Types, RowMoves(o), Asked(o, v, t)
  PROVE  Linked'
<1>1. TypeOK /\ Linked
  BY DEF ProviderInv, PromiseInv
<1>2. /\ opStatus[o] = "none" /\ opStatus'[o] = "pending" /\ opVm'[o] = v
      /\ opType'[o] = t /\ opStep'[o] = Step1[t]
  BY <1>1 DEF Asked, TypeOK
<1>3. t = "create" => opStep'[o] = "clone"
  BY <1>2 DEF Step1
<1>4. vmStatus'[v] = "pending" \/ (vmStatus'[v] = vmStatus[v] /\ vmStatus[v] \in {"running", "stopped"})
  <2>1. \A k \in Types \ {"create"} : AllowedStatus[k] \in {"running", "stopped"}
    BY DEF AllowedStatus, Types
  <2> QED  BY <1>1, <2>1 DEF Asked, TypeOK
<1>5. \A s \in Steps : ~Under(o, s)
  BY <1>2, NoneUnder
<1>6. Due(v, {"start"}) => Due(v, {"start"})'
  BY <1>2, DueRowStays
<1>7. Due(v, {"shutdown", "stop"}) => Due(v, {"shutdown", "stop"})'
  BY <1>2, DueRowStays
<1>8. vmStatus'[v] \in {"running", "stopped", "deleting"} => conf[v] /\ sized[v]
  BY <1>1, <1>4 DEF Linked, Prepared
<1>9. vmStatus'[v] = "stopped" => power[v] = "stopped" \/ (power[v] = "running" /\ Due(v, {"start"})')
  BY <1>1, <1>4, <1>6 DEF Linked, StoppedIsTrue
<1>10. vmStatus'[v] = "running" =>
          Fault("guest") \/ power[v] = "running" \/ Due(v, {"shutdown", "stop"})'
  BY <1>1, <1>4, <1>7 DEF Linked, RunningIsTrue
<1>11. RowHolds(o, v)
  BY <1>2, <1>3, <1>4, <1>5, <1>8, <1>9, <1>10 DEF RowHolds
<1> QED  BY <1>2, <1>11, RowStepKeeps

\* The step of o is done at the provider, and nothing of it is to come.
StepOver(o) ==
    /\ Reached(opStep[o], opVm[o])
    /\ Anchored(opStep[o]) => ~Under(o, opStep[o])

\* The end of a step: the VM row says what the provider has reached.
LEMMA MovedKeeps ==
  ASSUME ProviderInv, NEW o \in Ops, RowMoves(o), Moved(o), StepOver(o)
  PROVE  Linked'
<1>1. TypeOK /\ Linked /\ PromiseInv
  BY DEF ProviderInv, PromiseInv
<1>2. /\ opStatus[o] = "processing" /\ Active(o) /\ UNCHANGED <<opType, opVm>>
      /\ GoesOn(o) \/ SucceedsNow(o)
  BY <1>1, MovedCases DEF Active
<1>3. PICK v \in Vms : v = opVm[o] /\ opVm'[o] = v
  BY <1>1, <1>2 DEF TypeOK
<1>4. Shows(o, vmStatus[v]) /\ Reached(opStep[o], v)
  BY <1>1, <1>2, <1>3 DEF PromiseInv, ShownInv, StepOver
<1>5. \A s \in Steps : ~(Under(o, s) /\ Anchored(s))
  BY <1>1 DEF Linked, NoStray, StepOver
<1>6. /\ vmStatus[v] \in {"running", "stopped"} => conf[v] /\ sized[v]
      /\ opType[o] = "create" /\ opStep[o] \in {"resize", "start"} => conf[v]
      /\ opType[o] = "create" /\ opStep[o] = "start" => sized[v]
  BY <1>1, <1>2, <1>3 DEF Linked, Prepared
<1>7. CASE GoesOn(o)
  <2>1. PICK t, s, n, st :
           /\ Goes(o, t, s, n, st)
           /\ \/ t = "create" /\ s = "clone" /\ n = "configure" /\ st = "provisioning"
              \/ t = "create" /\ s = "configure" /\ n = "resize" /\ st = "provisioning"
              \/ t = "create" /\ s = "resize" /\ n = "start" /\ st = "provisioning"
              \/ t = "reboot" /\ s = "shutdown" /\ n = "start" /\ st = "stopped"
    BY <1>7 DEF GoesOn
  <2>2. /\ opType[o] = t /\ opType'[o] = t /\ opStep[o] = s /\ opStep'[o] = n
        /\ opStatus'[o] = "pending" /\ vmStatus'[v] = st
    BY <1>1, <1>2, <1>3, <2>1 DEF Goes, SetVm, TypeOK
  <2>3. t = "reboot" => power[v] = "stopped" /\ conf[v] /\ sized[v]
    BY <1>4, <1>6, <2>1, <2>2 DEF Reached, Shows
  <2>4. t = "create" => /\ n \in {"resize", "start"} => conf[v]
                        /\ n = "start" => sized[v]
    BY <1>4, <1>6, <2>1, <2>2 DEF Reached
  <2>5. RowHolds(o, v)
    BY <1>5, <2>1, <2>2, <2>3, <2>4 DEF RowHolds
  <2> QED  BY <1>3, <2>5, RowStepKeeps
<1>8. CASE SucceedsNow(o)
  <2>1. PICK t, s, st :
           /\ Succeeds(o, t, s, st)
           /\ \/ t \in {"create", "start", "reboot"} /\ s = "start" /\ st = "running"
              \/ t \in {"shutdown", "stop"} /\ s = t /\ st = "stopped"
              \/ t = "delete" /\ s = "delete" /\ st = "deleted"
    BY <1>8 DEF SucceedsNow
  <2>2. opType[o] = t /\ opStep[o] = s /\ opStatus'[o] = "succeeded" /\ vmStatus'[v] = st
    BY <1>1, <1>3, <2>1 DEF Succeeds, SetVm, TypeOK
  <2>3. st \in {"running", "stopped"} => conf[v] /\ sized[v]
    BY <1>4, <1>6, <2>1, <2>2 DEF Shows
  <2>4. /\ st = "running" => Fault("guest") \/ power[v] = "running"
        /\ st = "stopped" => power[v] = "stopped"
        /\ st = "deleted" => power[v] = "missing"
    BY <1>4, <2>1, <2>2 DEF Reached
  <2>5. ASSUME st = "deleted", NEW p \in Ops, opVm'[p] = v PROVE <<p, "clone">> \notin flight
    <3>1. SUFFICES ASSUME <<p, "clone">> \in flight PROVE FALSE
      OBVIOUS
    <3>2. "clone" \in Steps /\ Anchored("clone") /\ Under(p, "clone")
      BY <3>1 DEF Steps, Anchored, Under
    <3>3. Active(p) /\ opStep[p] = "clone" /\ opVm[p] = opVm[o]
      BY <1>1, <1>2, <1>3, <2>5, <3>2 DEF Linked, NoStray, Active
    <3>4. p = o
      BY <1>1, <1>2, <3>3, OneActive
    <3> QED  BY <2>1, <2>2, <2>5, <3>3, <3>4
  <2>6. RowHolds(o, v)
    BY <1>5, <2>1, <2>2, <2>3, <2>4, <2>5 DEF RowHolds
  <2> QED  BY <1>3, <2>6, RowStepKeeps
<1> QED  BY <1>2, <1>7, <1>8

\* A finished task, and an answer that says done.
LEMMA TaskOver ==
  ASSUME ProviderInv, NEW o \in Ops, opStatus[o] = "processing",
         \/ taskState[o][opStep[o]] = "ok"
         \/ posts[o][opStep[o]] = 0 /\ Reached(opStep[o], opVm[o])
  PROVE  StepOver(o)
<1>1. Traces /\ StepKnows /\ opStep[o] \in Steps
  BY DEF ProviderInv, Linked, PromiseInv, TypeOK
<1>2. Reached(opStep[o], opVm[o])
  BY <1>1 DEF StepKnows
<1>3. ~Under(o, opStep[o])
  BY <1>1 DEF Traces, Under
<1> QED  BY <1>2, <1>3 DEF StepOver

\* The power state that confirms a step is one its command would not act on.
LEMMA ConfirmedOver ==
  ASSUME ProviderInv, NEW o \in Ops, Confirmed(o)
  PROVE  StepOver(o)
<1>1. PICK s \in Steps, v \in Vms : s = opStep[o] /\ v = opVm[o]
  BY DEF ProviderInv, PromiseInv, TypeOK
<1>2. /\ s \in {"clone", "start", "shutdown", "stop", "delete"}
      /\ power[v] = Goal[s] /\ (s = "delete" \/ lock[v] = "none")
  BY <1>1 DEF Confirmed, Goal
<1>3. /\ Goal["clone"] = "stopped" /\ Goal["start"] = "running" /\ Goal["shutdown"] = "stopped"
      /\ Goal["stop"] = "stopped" /\ Goal["delete"] = "missing"
  BY DEF Goal
<1>4. Reached(s, v)
  BY <1>2, <1>3 DEF Reached
<1>5. ASSUME Under(o, s), Anchored(s) PROVE FALSE
  <2>1. Ahead(s, v)
    BY <1>1, <1>5 DEF ProviderInv, Linked, UnderAhead
  <2>2. s = "clone" => power[v] = "missing" \/ lock[v] = "clone"
    BY <1>1, <1>5 DEF ProviderInv, Linked, UnderAhead, Under
  <2> QED  BY <1>2, <1>3, <1>5, <2>1, <2>2 DEF Ahead, Anchored
<1> QED  BY <1>1, <1>4, <1>5 DEF StepOver

LEMMA RequestStep == ASSUME ProviderInv, Request PROVE Linked'
<1>1. TypeOK /\ \A o \in Ops : Active(o) => vmStatus[opVm[o]] \notin Bad
  BY DEF ProviderInv, PromiseInv, RowInv, VmRows
<1>2. ASSUME NEW o \in Ops, NEW v \in Vms, CreateVm(o, v) PROVE Linked'
  <2>1. Asked(o, v, "create") /\ "create" \in Types
    BY <1>1, <1>2 DEF CreateVm, Asked, Step1, Bad, Types
  <2>2. RowMoves(o)
    BY <1>1, <1>2 DEF CreateVm, RowMoves, calls, TypeOK
  <2> QED  BY <2>1, <2>2, AskedKeeps
<1>3. ASSUME NEW o \in Ops, NEW v \in Vms, NEW t \in Types \ {"create"}, EnqueueVmOperation(o, v, t)
      PROVE  Linked'
  <2>1. Asked(o, v, t)
    BY <1>3 DEF EnqueueVmOperation, Asked
  <2>2. RowMoves(o)
    BY <1>1, <1>3 DEF EnqueueVmOperation, RowMoves, calls, TypeOK
  <2> QED  BY <2>1, <2>2, AskedKeeps
<1> QED  BY <1>2, <1>3 DEF Request

\* An effect on row o writes no other row, and no other VM.
LEMMA EffectMoves ==
  ASSUME TypeOK, NEW o \in Ops,
         Begun(o) \/ Kept(o) \/ Cloned(o) \/ Tasked(o) \/ Moved(o) \/ Ended(o),
         UNCHANGED <<prov, posts>>,
         \A w \in Workers : wAt'[w] \in {"post", "reply"} =>
            wAt'[w] = wAt[w] /\ wOp'[w] = wOp[w] /\ wStep'[w] = wStep[w] /\ wReply'[w] = wReply[w]
  PROVE  RowMoves(o)
BY DEF Begun, Kept, Cloned, Tasked, Moved, Ended, StepDone, SetVm, RowMoves, TypeOK

LEMMA AdvanceStep == ASSUME ProviderInv, NEW o \in Ops, Advance(o) PROVE Linked'
<1>1. PromiseInv /\ TypeOK /\ UNCHANGED <<calls, prov, posts>>
  BY DEF ProviderInv, PromiseInv, Advance, ChoosePlacement, PollRunning, PollSucceeded, PollFailed,
         PollError, ReconcileConfirmed, ReconcileUnknown
<1>2. CASE Quiet
  <2>1. PICK w \in Workers : wAt[w] = "idle"
    BY DEF Advance
  <2> QED  BY <1>1, <1>2, <2>1, CallMoves DEF Quiet, calls
<1>3. CASE Kept(o) \/ Moved(o) \/ Ended(o)
  <2>1. RowMoves(o) /\ opStatus[o] = "processing"
    BY <1>1, <1>3, EffectMoves DEF calls, Kept, Moved, Ended
  <2>2. PollSucceeded(o) => taskState[o][opStep[o]] = "ok"
    BY <1>1 DEF PollSucceeded, Polled, PromiseInv, TaskMatchesStep
  <2>3. PollFailed(o) => taskState[o][opStep[o]] = "failed"
    BY <1>1 DEF PollFailed, Polled, PromiseInv, TaskMatchesStep
  <2>4. Moved(o) => PollSucceeded(o) \/ ReconcileConfirmed(o)
    BY <1>1 DEF Moved, StepDone, Advance, ChoosePlacement, PollRunning, PollFailed, PollError,
           ReconcileUnknown, SetMark, opRows, TypeOK
  <2>5. Ended(o) => PollFailed(o)
    BY <1>1 DEF Ended, StepDone, Advance, ChoosePlacement, PollRunning, PollSucceeded, PollError,
           ReconcileConfirmed, ReconcileUnknown, SetMark, opRows, TypeOK
  <2>6. Moved(o) => StepOver(o)
    BY <2>1, <2>2, <2>4, TaskOver, ConfirmedOver DEF ReconcileConfirmed
  <2> QED  BY <1>3, <2>1, <2>3, <2>5, <2>6, StepStays, MovedKeeps, FailedKeeps
<1> QED  BY <1>1, <1>2, <1>3, SeenAdvance

LEMMA PrepareStep ==
  ASSUME ProviderInv, NEW w \in Workers, NEW o \in Ops, Prepare(w, o) PROVE Linked'
<1>1. Begun(o)
  BY SeenPrepare
<1>2. RowMoves(o)
  <2>1. TypeOK
    BY DEF ProviderInv, PromiseInv
  <2>2. \A x \in Workers : wAt'[x] \in {"post", "reply"} =>
           wAt'[x] = wAt[x] /\ wOp'[x] = wOp[x] /\ wStep'[x] = wStep[x] /\ wReply'[x] = wReply[x]
    BY <2>1 DEF Prepare, TypeOK
  <2> QED  BY <1>1, <2>1, <2>2, EffectMoves DEF Prepare
<1> QED  BY <1>1, <1>2, StepStays

LEMMA StoreStep ==
  ASSUME ProviderInv, NEW w \in Workers,
         StoreTask(w) \/ StoreDone(w) \/ StoreInProgress(w) \/ StoreUnknown(w)
  PROVE  Linked'
<1>1. PromiseInv /\ TypeOK /\ Linked /\ wAt[w] = "reply" /\ HangUp(w) /\ UNCHANGED <<prov, posts>>
  BY DEF ProviderInv, PromiseInv, StoreTask, StoreDone, StoreInProgress, StoreUnknown
<1>2. PICK o \in Ops : /\ o = wOp[w] /\ opStatus[o] = "processing" /\ opStep[o] = wStep[w]
  BY <1>1, CallRow
<1>3. \A x \in Workers : wAt'[x] \in {"post", "reply"} =>
         wAt'[x] = wAt[x] /\ wOp'[x] = wOp[x] /\ wStep'[x] = wStep[x] /\ wReply'[x] = wReply[x]
  BY <1>1 DEF HangUp, TypeOK
<1>4. CASE Quiet
  <2>1. /\ wAt'[w] = "idle"
        /\ \A x \in Workers : x # w => /\ wAt'[x] = wAt[x] /\ wOp'[x] = wOp[x]
                                       /\ wStep'[x] = wStep[x] /\ wReply'[x] = wReply[x]
    BY <1>1 DEF HangUp, TypeOK
  <2> QED  BY <1>1, <1>4, <2>1, CallMoves DEF Quiet
<1>5. ASSUME StoreDone(w) PROVE StepOver(o)
  <2>1. /\ wReply[w] = "done" /\ Reached(opStep[o], opVm[o])
        /\ posts[o][opStep[o]] = 0 \/ taskState[o][opStep[o]] = "ok"
    BY <1>1, <1>2, <1>5 DEF StoreDone, Linked, AnswerKnows
  <2> QED  BY <1>2, <2>1, TaskOver
<1>6. CASE Kept(o) \/ Cloned(o) \/ Tasked(o)
  BY <1>1, <1>3, <1>6, EffectMoves, StepStays
<1>7. CASE Moved(o)
  <2>1. StoreDone(w)
    BY <1>1, <1>2, <1>7 DEF Moved, StepDone, StoreTask, StoreInProgress, StoreUnknown, SetMark, TypeOK
  <2> QED  BY <1>1, <1>3, <1>5, <1>7, <2>1, EffectMoves, MovedKeeps
<1>8. ~Sent(o)
  BY <1>1 DEF Sent, TypeOK
<1> QED  BY <1>1, <1>2, <1>4, <1>6, <1>7, <1>8, SeenCall DEF Call

-----------------------------------------------------------------------------
(* The invariant *)

LEMMA ProviderInit == Init => ProviderInv
<1> SUFFICES ASSUME Init PROVE ProviderInv
  OBVIOUS
<1>1. Linked
  BY DEF Init, Linked, Traces, NoStray, UnderAhead, Under, ReadHolds, AnswerKnows, StepKnows, Prepared,
         Active, StoppedIsTrue, RunningIsTrue, NeverBootsUnconfigured, DeletedIsGone, Steps
<1> QED  BY <1>1, PromiseInit DEF ProviderInv

LEMMA LinkedStep == ProviderInv /\ [Next]_vars => Linked'
<1> SUFFICES ASSUME ProviderInv, [Next]_vars PROVE Linked'
  OBVIOUS
<1>1. CASE UNCHANGED vars
  BY <1>1 DEF vars, rows, opRows, calls, prov, ProviderInv, Linked, Traces, NoStray, UnderAhead, Under,
         Ahead, Anchored, Reached, Fault, ReadHolds, AnswerKnows, StepKnows, Prepared, Active, Due,
         StoppedIsTrue, RunningIsTrue, NeverBootsUnconfigured, DeletedIsGone
<1>2. ASSUME NEW w \in Workers, Call(w) \/ Crash(w) PROVE Linked'
  BY <1>2, ProbeStep, PostStep, ReceiveStep, LostStep, StoreStep DEF Call
<1> QED
  BY <1>1, <1>2, RequestStep, AdvanceStep, PrepareStep, ProviderStep, EnvironmentStep DEF Next

LEMMA ProviderInvariant == ASSUME GraceCoversCall PROVE Spec => []ProviderInv
<1>1. ProviderInv /\ [Next]_vars => ProviderInv'
  BY LinkedStep, PromiseStep DEF ProviderInv
<1> QED  BY <1>1, ProviderInit, PTL DEF Spec

\* Whatever is lost or crashes, a VM runs only with its cloud-init and its disk
\* size: run_once starts it as the last step, behind two that it has seen done.
THEOREM NoBootUnconfigured == ASSUME GraceCoversCall PROVE Spec => []NeverBootsUnconfigured
<1>1. ProviderInv => NeverBootsUnconfigured
  BY DEF ProviderInv, Linked
<1> QED  BY <1>1, ProviderInvariant, PTL

\* A deletion that is stored or confirmed found no VM at the provider, and no
\* delayed clone can bring one back under a row that no longer counts.
THEOREM DeletedVmsAreGone == ASSUME GraceCoversCall PROVE Spec => []DeletedIsGone
<1>1. ProviderInv => DeletedIsGone
  BY DEF ProviderInv, Linked
<1> QED  BY <1>1, ProviderInvariant, PTL

\* A VM that is shown as stopped with nothing under way is stopped, even where
\* guests power themselves off and late shutdowns are still on their way.
THEOREM NothingRunsHidden == ASSUME GraceCoversCall PROVE Spec => []NoHiddenRun
<1>1. ProviderInv => NoHiddenRun
  BY DEF ProviderInv, Linked, StoppedIsTrue, Due, NoHiddenRun, Active
<1> QED  BY <1>1, ProviderInvariant, PTL

\* Where no guest powers itself off, the portal shows what the provider runs as
\* soon as no operation is active for the VM.
THEOREM StatusesAgree ==
  ASSUME GraceCoversCall, ~Fault("guest") PROVE Spec => []StatusAgrees
<1>1. ProviderInv => StatusAgrees
  BY DEF ProviderInv, Linked, StoppedIsTrue, RunningIsTrue, Due, StatusAgrees, Active
<1> QED  BY <1>1, ProviderInvariant, PTL

-----------------------------------------------------------------------------
(* The commits VmRequests counts on.  Nothing here needs the grace period:  *)
(* a call that comes back late may credit a row with another step's answer, *)
(* but it finds a row of the type its own step belongs to (CallFits).       *)

CallFits == \A w \in Workers : wAt[w] # "idle" => wStep[w] \in StepsOf[opType[wOp[w]]]

\* The VM of a creation under way has not been anything else yet.
CreatedVm ==
    \A o \in Ops : Active(o) /\ opType[o] = "create" => vmStatus[opVm[o]] \in {"pending", "provisioning"}

TableInv == TypeOK /\ PostInv /\ RowInv /\ StepFits /\ CallFits /\ CreatedVm

(* What a step does to the tables *)

Untouched == UNCHANGED <<opStatus, opType, opVm, opStep, vmStatus>>

Provisioned(o) ==
    /\ opStatus[o] = "processing" /\ opType[o] = "create"
    /\ SetVm(o, "provisioning")
    /\ UNCHANGED <<opStatus, opType, opVm, opStep>>

Finished(o) ==
    /\ opStatus[o] = "processing"
    /\ StepDone(o)
    /\ \/ SetVm(o, VmAfter(opStep[o], vmStatus[opVm[o]]))
       \/ opStep[o] = "clone" /\ SetVm(o, vmStatus[opVm[o]])

Broken(o) ==
    /\ opStatus[o] = "processing"
    /\ opStatus' = [opStatus EXCEPT ![o] = "failed"]
    /\ SetVm(o, CASE opType[o] = "create" -> "failed"
                  [] opType[o] = "delete" -> "deleting"
                  [] OTHER                -> vmStatus[opVm[o]])
    /\ UNCHANGED <<opType, opVm, opStep>>

Written ==
    \/ Untouched
    \/ Request /\ \E o \in Ops, v \in Vms, t \in Types : Asked(o, v, t)
    \/ \E o \in Ops : Begun(o) \/ Provisioned(o) \/ Finished(o) \/ Broken(o)

LEMMA WrittenByAdvance == ASSUME TableInv, NEW o \in Ops, Advance(o) PROVE Written
<1> USE DEF TableInv
<1>1. CASE ChoosePlacement(o)
  BY <1>1 DEF ChoosePlacement, opRows, Untouched, Written
<1>2. CASE PollRunning(o) \/ PollError(o) \/ ReconcileUnknown(o)
  BY <1>2 DEF PollRunning, PollError, ReconcileUnknown, SetMark, Untouched, Written
<1>3. CASE PollSucceeded(o)
  <2>1. Finished(o)
    BY <1>3 DEF PollSucceeded, Polled, Finished
  <2> QED  BY <2>1 DEF Written
<1>4. CASE PollFailed(o)
  <2>1. Broken(o)
    BY <1>4 DEF PollFailed, Polled, Broken
  <2> QED  BY <2>1 DEF Written
<1>5. CASE ReconcileConfirmed(o)
  <2>1. Finished(o)
    BY <1>5 DEF ReconcileConfirmed, Reconcilable, Finished
  <2> QED  BY <2>1 DEF Written
<1> QED  BY <1>1, <1>2, <1>3, <1>4, <1>5 DEF Advance

LEMMA WrittenByCall ==
  ASSUME TableInv, NEW w \in Workers, Call(w) \/ Crash(w)
  PROVE  Written
<1> USE DEF TableInv
<1>1. CASE Probe(w) \/ Post(w) \/ Receive(w) \/ CallFails(w) \/ StoreRefused(w) \/ Crash(w)
  BY <1>1 DEF Probe, Post, Receive, CallFails, StoreRefused, Crash, rows, opRows, Untouched, Written
<1>2. CASE StoreUnknown(w)
  BY <1>2 DEF StoreUnknown, SetMark, Untouched, Written
<1>3. CASE StoreDone(w)
  <2>1. wOp[w] \in Ops
    BY <1>3, CallHasOp DEF StoreDone
  <2>2. Finished(wOp[w])
    BY <1>3 DEF StoreDone, FinishAccepts, Finished
  <2> QED  BY <2>1, <2>2 DEF Written
<1>4. CASE StoreTask(w) \/ StoreInProgress(w)
  <2>1. /\ wOp[w] \in Ops /\ wAt[w] # "idle"
        /\ opStatus[wOp[w]] = "processing"
        /\ UNCHANGED <<opStatus, opType, opVm, opStep>>
        /\ SetVm(wOp[w], IF wStep[w] = "clone" THEN "provisioning" ELSE vmStatus[opVm[wOp[w]]])
    BY <1>4, CallHasOp DEF StoreTask, StoreInProgress, FinishAccepts, SetMark
  <2>2. CASE wStep[w] = "clone"
    <3>1. opType[wOp[w]] \in Types /\ "clone" \in StepsOf[opType[wOp[w]]]
      BY <2>1, <2>2 DEF CallFits, TypeOK
    <3>2. opType[wOp[w]] = "create"
      BY <3>1, StepsOfFacts DEF Types
    <3>3. Provisioned(wOp[w])
      BY <2>1, <2>2, <3>2 DEF Provisioned
    <3> QED  BY <2>1, <3>3 DEF Written
  <2>3. CASE wStep[w] # "clone"
    <3>1. UNCHANGED vmStatus
      BY <2>1, <2>3, SetSame
    <3> QED  BY <2>1, <3>1 DEF Untouched, Written
  <2> QED  BY <2>2, <2>3
<1> QED  BY <1>1, <1>2, <1>3, <1>4 DEF Call

LEMMA ElsewhereKeeps ==
  ASSUME \/ \E o \in Ops, s \in Steps : Provider(o, s)
         \/ \E v \in Vms : Environment(v)
         \/ UNCHANGED vars
  PROVE  UNCHANGED rows /\ UNCHANGED calls
<1>1. ASSUME NEW o \in Ops, NEW s \in Steps, Provider(o, s) PROVE UNCHANGED <<rows, calls>>
  BY <1>1 DEF Provider, Accept, Drop, TaskOk, TaskFail
<1>2. ASSUME NEW v \in Vms, Environment(v) PROVE UNCHANGED <<rows, calls>>
  BY <1>2 DEF Environment, ForeignLock, ForeignUnlock, GuestPowerOff
<1>3. CASE UNCHANGED vars
  BY <1>3 DEF vars
<1> QED  BY <1>1, <1>2, <1>3

LEMMA WrittenByStep == TableInv /\ [Next]_vars => Written
<1> SUFFICES ASSUME TableInv, [Next]_vars PROVE Written
  OBVIOUS
<1> USE DEF TableInv
<1>1. CASE \/ \E o \in Ops, s \in Steps : Provider(o, s)
           \/ \E v \in Vms : Environment(v)
           \/ UNCHANGED vars
  <2>1. UNCHANGED rows
    BY <1>1, ElsewhereKeeps
  <2> QED  BY <2>1 DEF rows, opRows, Untouched, Written
<1>2. CASE Request
  BY <1>2, SeenRequest DEF Written
<1>3. ASSUME NEW w \in Workers, NEW o \in Ops, Prepare(w, o) PROVE Written
  BY <1>3, SeenPrepare DEF Written
<1> QED  BY <1>1, <1>2, <1>3, WrittenByAdvance, WrittenByCall DEF Next

-----------------------------------------------------------------------------
(* The invariant is kept *)

\* The row of a step in a given type.
LEMMA StepOfNext ==
  ASSUME NEW t \in Types, NEW s \in StepsOf[t], NextStep(t, s) # "none"
  PROVE  NextStep(t, s) \in StepsOf[t]
BY StepsOfFacts DEF Types, NextStep

LEMMA Step1Fits == ASSUME NEW t \in Types PROVE Step1[t] \in StepsOf[t]
BY StepsOfFacts DEF Types, Step1

LEMMA StepFitsKept == ASSUME TableInv, Written PROVE StepFits'
<1> USE DEF TableInv
<1>1. CASE Untouched
  BY <1>1 DEF Untouched, StepFits
<1>2. ASSUME NEW o \in Ops, NEW v \in Vms, NEW t \in Types, Asked(o, v, t) PROVE StepFits'
  BY <1>2, Step1Fits DEF Asked, StepFits, TypeOK
<1>3. ASSUME NEW o \in Ops, Begun(o) \/ Provisioned(o) \/ Broken(o) PROVE StepFits'
  BY <1>3 DEF Begun, Provisioned, Broken, StepFits
<1>4. ASSUME NEW o \in Ops, Finished(o) PROVE StepFits'
  <2> DEFINE n == NextStep(opType[o], opStep[o])
  <2>1. n # "none" => n \in StepsOf[opType[o]]
    BY StepOfNext DEF StepFits, TypeOK
  <2>2. opStep' = [opStep EXCEPT ![o] = IF n = "none" THEN @ ELSE n] /\ UNCHANGED opType
    BY <1>4 DEF Finished, StepDone
  <2> HIDE DEF n
  <2> QED  BY <2>1, <2>2 DEF StepFits, TypeOK
<1> QED  BY <1>1, <1>2, <1>3, <1>4 DEF Written

\* One active row writes its VM; the VMs of the others are theirs.
LEMMA CreatedVmKept == ASSUME TableInv, TypeOK', Written PROVE CreatedVm'
<1> USE DEF TableInv
<1>1. CASE Untouched
  BY <1>1 DEF Untouched, CreatedVm, Active
<1>2. ASSUME NEW o \in Ops, NEW v \in Vms, NEW t \in Types, Asked(o, v, t) PROVE CreatedVm'
  <2>1. /\ opType'[o] = t /\ opVm'[o] = v
        /\ \A p \in Ops : p # o => (Active(p)' <=> Active(p)) /\ opType'[p] = opType[p] /\ opVm'[p] = opVm[p]
        /\ \A p \in Ops : Active(p) => opVm[p] # v
        /\ \A u \in Vms : u # v => vmStatus'[u] = vmStatus[u]
        /\ t = "create" => vmStatus'[v] = "pending"
    BY <1>2 DEF Asked, Active, TypeOK
  <2>2. ASSUME NEW p \in Ops, p # o, Active(p)', opType'[p] = "create"
        PROVE  vmStatus'[opVm'[p]] \in {"pending", "provisioning"}
    <3>1. Active(p) /\ opType[p] = "create" /\ opVm'[p] = opVm[p] /\ opVm[p] \in Vms /\ opVm[p] # v
      BY <2>1, <2>2 DEF TypeOK
    <3>2. vmStatus'[opVm[p]] = vmStatus[opVm[p]]
      BY <2>1, <3>1
    <3> QED  BY <3>1, <3>2 DEF CreatedVm
  <2> QED  BY <2>1, <2>2 DEF CreatedVm
<1>3. ASSUME NEW o \in Ops, Begun(o) \/ Provisioned(o) \/ Finished(o) \/ Broken(o) PROVE CreatedVm'
  <2>1. /\ opStatus[o] = "processing" \/ opStatus[o] = "pending"
        /\ UNCHANGED <<opType, opVm>>
        /\ \A p \in Ops : p # o => opStatus'[p] = opStatus[p]
        /\ \A u \in Vms : u # opVm[o] => vmStatus'[u] = vmStatus[u]
    BY <1>3 DEF Begun, Provisioned, Finished, StepDone, Broken, SetVm, TypeOK
  <2>2. Active(o)' /\ opType[o] = "create" => vmStatus'[opVm[o]] \in {"pending", "provisioning"}
    <3> SUFFICES ASSUME Active(o)', opType[o] = "create"
                 PROVE  vmStatus'[opVm[o]] \in {"pending", "provisioning"}
      OBVIOUS
    <3>1. /\ vmStatus[opVm[o]] \in {"pending", "provisioning"} /\ opVm[o] \in Vms
          /\ opStep[o] \in {"clone", "configure", "resize", "start"}
      <4>1. vmStatus[opVm[o]] \in {"pending", "provisioning"}
        BY <2>1 DEF CreatedVm, Active
      <4>2. opVm[o] \in Vms
        BY DEF TypeOK
      <4>3. opStep[o] \in {"clone", "configure", "resize", "start"}
        BY StepsOfFacts DEF StepFits
      <4> QED  BY <4>1, <4>2, <4>3
    <3>2. CASE Begun(o)
      BY <3>1, <3>2 DEF Begun, SetVm, TypeOK
    <3>3. CASE Provisioned(o)
      BY <3>1, <3>3 DEF Provisioned, SetVm, TypeOK
    <3>4. CASE Broken(o)
      BY <3>4 DEF Broken, Active, TypeOK
    <3>5. CASE Finished(o)
      <4>1. opStep[o] # "start"
        <5>1. opStep[o] = "start" => NextStep(opType[o], opStep[o]) = "none"
          BY DEF NextStep
        <5>2. NextStep(opType[o], opStep[o]) # "none"
          BY <3>5 DEF Finished, StepDone, Active, TypeOK
        <5> QED  BY <5>1, <5>2
      <4>2. VmAfter(opStep[o], vmStatus[opVm[o]]) \in {"provisioning", vmStatus[opVm[o]]}
        BY <3>1, <4>1 DEF VmAfter
      <4>3. PICK st \in {"provisioning", vmStatus[opVm[o]]} : SetVm(o, st)
        BY <3>5, <4>2 DEF Finished
      <4> QED  BY <3>1, <4>3 DEF SetVm, TypeOK
    <3> QED  BY <1>3, <3>2, <3>3, <3>4, <3>5
  <2>3. ASSUME NEW p \in Ops, p # o, Active(p)', opType'[p] = "create"
        PROVE  vmStatus'[opVm'[p]] \in {"pending", "provisioning"}
    <3>1. Active(p) /\ opType[p] = "create" /\ opVm'[p] = opVm[p] /\ opVm[p] \in Vms
      BY <2>1, <2>3 DEF Active, TypeOK
    <3>2. opVm[p] # opVm[o]
      BY <2>1, <2>3, <3>1 DEF RowInv, VmRows, Active
    <3> QED  BY <2>1, <3>1, <3>2 DEF CreatedVm
  <2> QED  BY <2>1, <2>2, <2>3 DEF CreatedVm
<1> QED  BY <1>1, <1>2, <1>3 DEF Written

\* A call keeps the type of its row, and is made for the step of the row.
LEMMA CallFitsKept == ASSUME TableInv, TypeOK', Written, [Next]_vars PROVE CallFits'
<1> USE DEF TableInv
<1>1. \A o \in Ops : opStatus[o] # "none" => opType'[o] = opType[o]
  BY DEF Written, Untouched, Asked, Begun, Provisioned, Finished, StepDone, Broken, TypeOK
<1>2. ASSUME NEW x \in Workers, wAt[x] # "idle", wOp'[x] = wOp[x], wStep'[x] = wStep[x]
      PROVE  wStep'[x] \in StepsOf[opType'[wOp'[x]]]
  <2>1. wOp[x] \in Ops /\ LiveCall(wOp[x])
    BY <1>2 DEF TypeOK, LiveCall
  <2>2. opStatus[wOp[x]] # "none"
    BY <1>2, <2>1 DEF PostInv, NoTrace
  <2> QED  BY <1>1, <1>2, <2>1, <2>2 DEF CallFits
<1>3. ASSUME NEW w \in Workers, NEW o \in Ops, Prepare(w, o) PROVE CallFits'
  <2>1. /\ wAt' = [wAt EXCEPT ![w] = "probe"]
        /\ wOp' = [wOp EXCEPT ![w] = o]
        /\ wStep' = [wStep EXCEPT ![w] = opStep[o]]
        /\ opType' = opType
    BY <1>3 DEF Prepare
  <2>2. wStep'[w] \in StepsOf[opType'[wOp'[w]]]
    BY <2>1 DEF StepFits, TypeOK
  <2>3. \A x \in Workers : x # w => wAt'[x] = wAt[x] /\ wOp'[x] = wOp[x] /\ wStep'[x] = wStep[x]
    BY <2>1 DEF TypeOK
  <2> QED  BY <1>2, <2>2, <2>3 DEF CallFits
<1>4. ASSUME CallsKeep PROVE CallFits'
  BY <1>2, <1>4 DEF CallsKeep, CallFits
<1>5. ASSUME NEW w \in Workers, Call(w) \/ Crash(w) PROVE CallsKeep
  <2>1. CASE Probe(w) \/ Post(w) \/ Receive(w) \/ CallFails(w)
    BY <2>1 DEF Probe, Post, Receive, CallFails, CallsKeep, TypeOK
  <2>2. CASE HangUp(w)
    BY <2>2, HangUpKeeps
  <2> QED
    BY <1>5, <2>1, <2>2 DEF Call, Crash, StoreTask, StoreDone, StoreInProgress, StoreUnknown, StoreRefused
<1>6. ASSUME Request \/ \E o \in Ops : Advance(o) PROVE UNCHANGED calls
  BY <1>6 DEF Request, CreateVm, EnqueueVmOperation, Advance, ChoosePlacement, PollRunning, PollSucceeded,
         PollFailed, PollError, ReconcileConfirmed, ReconcileUnknown
<1> QED  BY <1>3, <1>4, <1>5, <1>6, SameCallsKeep, ElsewhereKeeps DEF Next

LEMMA TableInit == Init => TableInv
<1> SUFFICES ASSUME Init PROVE TableInv
  OBVIOUS
<1>1. CallFits /\ CreatedVm /\ StepFits
  BY StepsOfFacts DEF Init, CallFits, CreatedVm, StepFits, Active
<1> QED  BY <1>1, TypeInit, PostInit, RowInit DEF TableInv

LEMMA TableStep == TableInv /\ [Next]_vars => TableInv'
<1> SUFFICES ASSUME TableInv, [Next]_vars PROVE TableInv'
  OBVIOUS
<1>1. TypeOK' /\ PostInv' /\ RowInv'
  BY TypeStep, PostKept, EffectOfStep, RowStep DEF TableInv
<1> QED  BY <1>1, WrittenByStep, StepFitsKept, CreatedVmKept, CallFitsKept DEF TableInv

-----------------------------------------------------------------------------
(* Every write of the worker is a commit that VmRequests allows *)

\* A commit of an active operation, put together from its row and its VM.
LEMMA OutcomeCommits ==
  ASSUME TypeOK, TypeOK', NEW o \in Ops, NEW out \in Table!Outcomes(opType[o], VmState(opVm[o])),
         Active(o), UNCHANGED <<opType, opVm>>,
         \A p \in Ops : p # o => opStatus'[p] = opStatus[p],
         \A u \in Vms : u # opVm[o] => vmStatus'[u] = vmStatus[u],
         RowState(o)' = out[1], VmState(opVm[o])' = out[2]
  PROVE  Table!WorkerCommits(o)
<1> DEFINE row == [p \in Ops |-> RowState(p)]
           vm == [u \in Vms |-> VmState(u)]
<1>1. opVm[o] \in Vms
  BY DEF TypeOK
<1>2. row' = [row EXCEPT ![o] = out[1]]
  BY DEF RowState, Active
<1>3. vm' = [vm EXCEPT ![opVm[o]] = out[2]]
  BY <1>1 DEF VmState
<1>4. row[o] = "active" /\ vm[opVm[o]] = VmState(opVm[o])
  BY <1>1 DEF RowState
<1>5. [u \in Vms |-> NoOp][opVm[o]] = NoOp
  BY <1>1
<1> QED
  BY <1>2, <1>3, <1>4, <1>5 DEF Table!WorkerCommits, Table!locks, Table!input

LEMMA ProvisionedCommits ==
  ASSUME TableInv, NEW o \in Ops, Provisioned(o) PROVE UNCHANGED tables
<1>1. /\ vmStatus[opVm[o]] \in {"pending", "provisioning"}
      /\ vmStatus' = [vmStatus EXCEPT ![opVm[o]] = "provisioning"]
      /\ UNCHANGED <<opStatus, opType, opVm>>
  BY DEF TableInv, CreatedVm, Provisioned, SetVm, Active
<1>2. \A v \in Vms : VmState(v)' = VmState(v)
  BY <1>1 DEF TableInv, TypeOK, VmState
<1>3. \A p \in Ops : RowState(p)' = RowState(p)
  BY <1>1 DEF RowState, Active
<1> QED  BY <1>1, <1>2, <1>3 DEF tables

LEMMA BegunCommits ==
  ASSUME TableInv, TypeOK', NEW o \in Ops, Begun(o)
  PROVE  Table!WorkerCommits(o) \/ UNCHANGED tables
<1> USE DEF TableInv
<1>1. /\ Active(o) /\ UNCHANGED <<opType, opVm>> /\ opVm[o] \in Vms
      /\ \A p \in Ops : p # o => opStatus'[p] = opStatus[p]
      /\ \A p \in Ops : RowState(p)' = RowState(p)
      /\ SetVm(o, IF opStep[o] = "delete" THEN "deleting" ELSE vmStatus[opVm[o]])
  BY DEF Begun, Active, RowState, TypeOK
<1>2. CASE opStep[o] = "delete"
  <2>1. opType[o] = "delete"
    BY <1>2, TypeSteps
  <2>2. vmStatus'[opVm[o]] = "deleting" /\ \A u \in Vms : u # opVm[o] => vmStatus'[u] = vmStatus[u]
    BY <1>1, <1>2 DEF SetVm, TypeOK
  <2>3. RowState(o)' = "active" /\ VmState(opVm[o])' = "deleting"
    BY <1>1, <2>2 DEF RowState, VmState
  <2>4. <<"active", "deleting">> \in Table!Outcomes(opType[o], VmState(opVm[o]))
    BY <2>1 DEF Table!Outcomes
  <2> QED  BY <1>1, <2>2, <2>3, <2>4, OutcomeCommits
<1>3. CASE opStep[o] # "delete"
  <2>1. UNCHANGED vmStatus
    BY <1>1, <1>3, SetSame
  <2>2. \A v \in Vms : VmState(v)' = VmState(v)
    BY <2>1 DEF VmState
  <2> QED  BY <1>1, <2>2 DEF tables
<1> QED  BY <1>2, <1>3

LEMMA BrokenCommits ==
  ASSUME TableInv, TypeOK', NEW o \in Ops, Broken(o)
  PROVE  Table!WorkerCommits(o)
<1> USE DEF TableInv
<1> DEFINE v == opVm[o]
           st == CASE opType[o] = "create" -> "failed"
                   [] opType[o] = "delete" -> "deleting"
                   [] OTHER                -> vmStatus[v]
<1>1. /\ Active(o) /\ UNCHANGED <<opType, opVm>> /\ v \in Vms /\ opType[o] \in Types
      /\ \A p \in Ops : p # o => opStatus'[p] = opStatus[p]
      /\ RowState(o)' = "failed"
      /\ SetVm(o, st)
  BY DEF Broken, Active, RowState, TypeOK
<1>2. vmStatus'[v] = st /\ \A u \in Vms : u # v => vmStatus'[u] = vmStatus[u]
  BY <1>1 DEF SetVm, TypeOK
<1>3. <<"failed", VmState(v)'>> \in Table!Outcomes(opType[o], VmState(v))
  <2>1. CASE opType[o] = "create"
    <3>1. VmState(v)' = "failed"
      BY <1>1, <1>2, <2>1 DEF VmState
    <3> QED  BY <2>1, <3>1 DEF Table!Outcomes
  <2>2. CASE opType[o] = "delete"
    <3>1. VmState(v)' = "deleting"
      BY <1>1, <1>2, <2>2 DEF VmState
    <3> QED  BY <2>2, <3>1 DEF Table!Outcomes
  <2>3. CASE opType[o] \notin {"create", "delete"}
    <3>1. VmState(v)' = VmState(v)
      BY <1>1, <1>2, <2>3 DEF VmState
    <3> QED  BY <1>1, <2>3, <3>1 DEF Table!Outcomes, Types
  <2> QED  BY <2>1, <2>2, <2>3
<1> QED  BY <1>1, <1>2, <1>3, OutcomeCommits

LEMMA FinishedCommits ==
  ASSUME TableInv, TypeOK', NEW o \in Ops, Finished(o)
  PROVE  Table!WorkerCommits(o) \/ UNCHANGED tables
<1> USE DEF TableInv
<1> DEFINE v == opVm[o]
           n == NextStep(opType[o], opStep[o])
<1>1. /\ Active(o) /\ UNCHANGED <<opType, opVm>> /\ v \in Vms
      /\ \A p \in Ops : p # o => opStatus'[p] = opStatus[p]
      /\ opStatus'[o] = IF n = "none" THEN "succeeded" ELSE "pending"
  BY DEF Finished, StepDone, Active, TypeOK
<1>2. PICK st \in VmStatus :
         /\ vmStatus'[v] = st /\ \A u \in Vms : u # v => vmStatus'[u] = vmStatus[u]
         /\ \/ st = VmAfter(opStep[o], vmStatus[v])
            \/ opStep[o] = "clone" /\ st = vmStatus[v]
  <2>1. vmStatus[v] \in VmStatus /\ VmAfter(opStep[o], vmStatus[v]) \in VmStatus
    BY <1>1, VmAfterType DEF TypeOK
  <2> QED  BY <1>1, <2>1 DEF Finished, SetVm, TypeOK
<1>3. \/ opType[o] = "create" /\ opStep[o] \in {"clone", "configure", "resize"}
      \/ opType[o] \in {"create", "start", "reboot"} /\ opStep[o] = "start"
      \/ opType[o] = "reboot" /\ opStep[o] = "shutdown"
      \/ opType[o] \in {"shutdown", "stop"} /\ opStep[o] = opType[o]
      \/ opType[o] = "delete" /\ opStep[o] = "delete"
  BY TypeSteps
<1>4. CASE opType[o] = "create" /\ opStep[o] \in {"clone", "configure", "resize"}
  <2>1. n # "none" /\ vmStatus[v] \in {"pending", "provisioning"} /\ st \in {"provisioning", vmStatus[v]}
    BY <1>1, <1>2, <1>4 DEF NextStep, CreatedVm, VmAfter
  <2>2. \A p \in Ops : RowState(p)' = RowState(p)
    BY <1>1, <2>1 DEF RowState, Active
  <2>3. \A u \in Vms : VmState(u)' = VmState(u)
    BY <1>2, <2>1 DEF VmState
  <2> QED  BY <1>1, <2>2, <2>3 DEF tables
<1>5. CASE opType[o] \in {"create", "start", "reboot"} /\ opStep[o] = "start"
  <2>1. n = "none" /\ st = "running"
    BY <1>2, <1>5 DEF NextStep, VmAfter
  <2>2. RowState(o)' = "succeeded" /\ VmState(v)' = "running"
    BY <1>1, <1>2, <2>1 DEF RowState, Active, VmState
  <2>3. <<"succeeded", "running">> \in Table!Outcomes(opType[o], VmState(v))
    BY <1>5 DEF Table!Outcomes
  <2> QED  BY <1>1, <1>2, <2>2, <2>3, OutcomeCommits
<1>6. CASE opType[o] = "reboot" /\ opStep[o] = "shutdown"
  <2>1. n = "start" /\ st = "stopped"
    BY <1>2, <1>6 DEF NextStep, VmAfter
  <2>2. RowState(o)' = "active" /\ VmState(v)' = "stopped"
    BY <1>1, <1>2, <2>1 DEF RowState, Active, VmState
  <2>3. <<"active", "stopped">> \in Table!Outcomes(opType[o], VmState(v))
    BY <1>6 DEF Table!Outcomes
  <2> QED  BY <1>1, <1>2, <2>2, <2>3, OutcomeCommits
<1>7. CASE opType[o] \in {"shutdown", "stop"} /\ opStep[o] = opType[o]
  <2>1. n = "none" /\ st = "stopped"
    BY <1>2, <1>7 DEF NextStep, VmAfter
  <2>2. RowState(o)' = "succeeded" /\ VmState(v)' = "stopped"
    BY <1>1, <1>2, <2>1 DEF RowState, Active, VmState
  <2>3. <<"succeeded", "stopped">> \in Table!Outcomes(opType[o], VmState(v))
    BY <1>7 DEF Table!Outcomes
  <2> QED  BY <1>1, <1>2, <2>2, <2>3, OutcomeCommits
<1>8. CASE opType[o] = "delete" /\ opStep[o] = "delete"
  <2>1. n = "none" /\ st = "deleted"
    BY <1>2, <1>8 DEF NextStep, VmAfter
  <2>2. RowState(o)' = "succeeded" /\ VmState(v)' = "deleted"
    BY <1>1, <1>2, <2>1 DEF RowState, Active, VmState
  <2>3. <<"succeeded", "deleted">> \in Table!Outcomes(opType[o], VmState(v))
    BY <1>8 DEF Table!Outcomes
  <2> QED  BY <1>1, <1>2, <2>2, <2>3, OutcomeCommits
<1> QED  BY <1>3, <1>4, <1>5, <1>6, <1>7, <1>8

LEMMA StepCommits ==
  TableInv /\ [Next]_vars => [Request \/ \E o \in Ops : Table!WorkerCommits(o)]_tables
<1> SUFFICES ASSUME TableInv, [Next]_vars
             PROVE  Request \/ (\E o \in Ops : Table!WorkerCommits(o)) \/ UNCHANGED tables
  OBVIOUS
<1>1. TypeOK'
  BY TypeStep DEF TableInv
<1>2. CASE Untouched
  <2>1. (\A p \in Ops : RowState(p)' = RowState(p)) /\ (\A v \in Vms : VmState(v)' = VmState(v))
    BY <1>2 DEF Untouched, RowState, Active, VmState
  <2> QED  BY <1>2, <2>1 DEF Untouched, tables
<1>3. CASE \E o \in Ops : Begun(o) \/ Provisioned(o) \/ Finished(o) \/ Broken(o)
  BY <1>1, <1>3, BegunCommits, ProvisionedCommits, FinishedCommits, BrokenCommits
<1> QED  BY <1>2, <1>3, WrittenByStep DEF Written

LEMMA TableInvariant == Spec => []TableInv
BY TableInit, TableStep, PTL DEF Spec

\* VmRequests may count on the worker: run_once writes a row and its VM only as
\* one of the outcomes WorkerCommits allows, for any number of workers and even
\* when a call comes back after others have taken its row over.
THEOREM OnlyOutcomesCommitted == Spec => CommitsAreOutcomes
BY TableInvariant, StepCommits, PTL DEF Spec, CommitsAreOutcomes
=============================================================================
