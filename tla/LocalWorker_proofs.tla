------------------------- MODULE LocalWorker_proofs -------------------------
(***************************************************************************)
(* The local worker for any number of operations, VMs and restarts: it     *)
(* implements VmPromise, and a restart is never taken for a result.        *)
(*                                                                         *)
(* The argument: a VM has one active operation (OneActive), a row says     *)
(* only what its type and its step allow, its VM shows the status that     *)
(* belongs to it, and what comes later was not sent (Good).  A restart     *)
(* empties the fake; the VM of an operation that was cut off stays unknown *)
(* to it, because only that operation could send a command (CutInv).       *)
(***************************************************************************)
EXTENDS LocalWorker, Sequences, TLAPS

StepsOf == [create |-> {"clone", "configure", "resize", "start"}, start |-> {"start"},
            shutdown |-> {"shutdown"}, stop |-> {"stop"}, reboot |-> {"shutdown", "start"},
            delete |-> {"delete"}]

\* The steps that may follow a step.
Later == [clone |-> {"configure", "resize", "start"}, configure |-> {"resize", "start"},
          resize |-> {"start"}, shutdown |-> {"start"}, start |-> {}, stop |-> {}, delete |-> {}]

Statuses == {"none", "pending", "provisioning", "running", "stopped", "deleting", "deleted"}

\* What the VM of an active row r shows.
Shows(r, status) ==
    /\ r.type = "create" =>
          status = IF r.step = "clone" /\ r.task = NoTask THEN "pending" ELSE "provisioning"
    /\ r.type = "start" => status = "stopped"
    /\ r.type \in PowerOff => status = "running"
    /\ r.type = "reboot" => status = IF r.step = "shutdown" THEN "running" ELSE "stopped"
    /\ r.type = "delete" => status = IF r.status = "pending" THEN "stopped" ELSE "deleting"

\* The command of the row was called, or is about to be, and has no result.
Pends(r) == r.status = "processing" /\ r.task = NoTask /\ r.mark \in {"dispatch", "reconcile", "review"}

\* Row r, with its VM shown as status and its commands sent as often as in n.
Good(r, status, n) ==
    /\ r \in RowType /\ r.step \in StepsOf[r.type]
    /\ r.task # NoTask => r.task = <<r.step, r.vm>> /\ r.status = "processing" /\ r.step # "configure"
    /\ r.status = "processing" /\ r.task = NoTask => Pends(r)
    /\ r.status \in {"pending", "processing"} => Shows(r, status)
    /\ r.status = "pending" => n[r.step] = 0
    /\ \A c \in Later[r.step] : n[c] = 0

New(o) ==
    /\ row[o].type = "create" /\ row[o].step = "clone" /\ row[o].task = NoTask
    /\ \A c \in Commands : sent[o][c] = 0

RowInv ==
    \A o \in Ops : /\ Good(row[o], shown[row[o].vm], sent[o])
                   /\ row[o].status = "none" => New(o)

OneActive ==
    \A o, p \in Ops : Active(o) /\ Active(p) /\ row[o].vm = row[p].vm => o = p

CallInv ==
    call # NoCall =>
        /\ Pends(row[call.op]) /\ row[call.op].mark = "dispatch" /\ call.cmd = row[call.op].step
        /\ call.at = "send" => sent[call.op][call.cmd] = 0
        /\ call.at = "reply" => /\ call.reply = "none" <=> call.cmd = "configure"
                                /\ call.reply = "succeeded" => call.cmd = "delete"

\* Nothing is known of the VM of an operation that was cut off, and nothing is
\* under way for it.
CutInv ==
    \A o \in cut : row[o].type # "delete" =>
        /\ Pends(row[o]) /\ fake.power[row[o].vm] = "none"
        /\ call # NoCall => call.op # o

LInv == TypeOK /\ RowInv /\ OneActive /\ CallInv /\ CutInv

-----------------------------------------------------------------------------
(* Facts about the constants *)

LEMMA StepsOfFacts ==
  /\ StepsOf["create"] = {"clone", "configure", "resize", "start"}
  /\ StepsOf["start"] = {"start"} /\ StepsOf["shutdown"] = {"shutdown"}
  /\ StepsOf["stop"] = {"stop"} /\ StepsOf["reboot"] = {"shutdown", "start"}
  /\ StepsOf["delete"] = {"delete"}
BY DEF StepsOf

LEMMA LaterFacts ==
  /\ Later["clone"] = {"configure", "resize", "start"} /\ Later["configure"] = {"resize", "start"}
  /\ Later["resize"] = {"start"} /\ Later["shutdown"] = {"start"}
  /\ Later["start"] = {} /\ Later["stop"] = {} /\ Later["delete"] = {}
BY DEF Later

LEMMA TaskIsATask == \A c \in Commands, v \in Vms : <<c, v>> # NoTask
BY DEF NoTask

LEMMA CallFacts ==
  ASSUME TypeOK
  PROVE  /\ NoCall.at = "none"
         /\ call # NoCall => call.op \in Ops /\ call.cmd \in Commands /\ call.at \in {"send", "reply"}
BY DEF TypeOK, NoCall

LEMMA RowFacts ==
  ASSUME RowInv, NEW o \in Ops
  PROVE  /\ row[o].type \in Types /\ row[o].vm \in Vms /\ row[o].step \in Commands
         /\ row[o].status \in {"none", "pending", "processing", "succeeded"}
         /\ row[o].mark \in {"plain", "dispatch", "reconcile", "review", "complete"}
         /\ row[o].task \in Tasks \cup {NoTask}
BY DEF RowInv, Good, RowType

\* The steps of each type.
LEMMA TypeSteps ==
  ASSUME RowInv, NEW o \in Ops
  PROVE  \/ row[o].type = "create" /\ row[o].step \in {"clone", "configure", "resize", "start"}
         \/ row[o].type = "start" /\ row[o].step = "start"
         \/ row[o].type = "shutdown" /\ row[o].step = "shutdown"
         \/ row[o].type = "stop" /\ row[o].step = "stop"
         \/ row[o].type = "reboot" /\ row[o].step \in {"shutdown", "start"}
         \/ row[o].type = "delete" /\ row[o].step = "delete"
<1>1. row[o].type \in Types /\ row[o].step \in StepsOf[row[o].type]
  BY RowFacts DEF RowInv, Good
<1> QED  BY <1>1, StepsOfFacts DEF Types

-----------------------------------------------------------------------------
(* What a transaction makes of its row *)

\* The statuses an operation leads its VM through, before and with success.
Goes(r, old, new) ==
    \/ new = old
    \/ r.type = "create" /\ old = "pending" /\ new = "provisioning"
    \/ r.type = "reboot" /\ old = "running" /\ new = "stopped"
    \/ r.type = "delete" /\ old = "stopped" /\ new = "deleting"

Ends(r, old, new) ==
    \/ r.type = "create" /\ old = "provisioning" /\ new = "running"
    \/ r.type = "start" /\ old = "stopped" /\ new = "running"
    \/ r.type \in PowerOff /\ old = "running" /\ new = "stopped"
    \/ r.type = "reboot" /\ old = "stopped" /\ new = "running"
    \/ r.type = "delete" /\ old = "deleting" /\ new = "deleted"

\* Row o becomes r, and its VM shows status.
Moves(o, r, status) ==
    /\ Active(o) /\ r.type = row[o].type /\ r.vm = row[o].vm
    /\ Set(o, r) /\ Show(o, status)
    /\ status \in Statuses /\ Good(r, status, sent[o])
    /\ \/ r.status \in {"pending", "processing"} /\ Goes(r, shown[row[o].vm], status)
       \/ r.status = "succeeded" /\ Ends(r, shown[row[o].vm], status)
    /\ o \in cut /\ r.type # "delete" => Pends(r)

\* No command is under way after it, or the one of a row that was pending.
Calls(o, r) ==
    \/ call' = NoCall
    \/ /\ row[o].status = "pending" /\ Pends(r) /\ r.mark = "dispatch"
       /\ call' = [at |-> "send", op |-> o, cmd |-> r.step] /\ sent[o][r.step] = 0

Transacts(o) ==
    /\ \E r \in RowType, status \in Statuses : Moves(o, r, status) /\ Calls(o, r)
    /\ UNCHANGED <<placed, fake, history>>

\* A VM that shows what it showed.
LEMMA ShowSame ==
  ASSUME TypeOK, NEW o \in Ops, row[o].vm \in Vms, UNCHANGED shown
  PROVE  Show(o, shown[row[o].vm]) /\ shown[row[o].vm] \in Statuses
BY DEF Show, TypeOK, Statuses

LEMMA PrepareMoves ==
  ASSUME LInv, NEW o \in Ops, PrepareCreate(o) \/ PrepareStart(o) \/ PrepareLifecycle(o)
  PROVE  Transacts(o)
<1> DEFINE r == Dispatching(row[o])
           status == IF row[o].type = "delete" THEN "deleting" ELSE shown[row[o].vm]
<1>1. /\ row[o].status = "pending" /\ Active(o) /\ Set(o, r)
      /\ call' = [at |-> "send", op |-> o, cmd |-> row[o].step]
      /\ UNCHANGED <<placed, fake, history>>
  BY DEF PrepareCreate, PrepareStart, PrepareLifecycle, Ready, Dispatch, Active
<1>2. IF row[o].type = "delete" THEN Show(o, "deleting") ELSE UNCHANGED shown
  BY DEF PrepareCreate, PrepareStart, PrepareLifecycle
<1>3. RowInv /\ TypeOK /\ Good(row[o], shown[row[o].vm], sent[o]) /\ row[o].vm \in Vms
  BY RowFacts DEF LInv, RowInv
<1>4. Show(o, status) /\ status \in Statuses
  BY <1>2, <1>3, ShowSame DEF Statuses
<1>5. /\ r \in RowType /\ r.type = row[o].type /\ r.vm = row[o].vm /\ r.step = row[o].step
      /\ r.task = row[o].task /\ r.status = "processing" /\ r.mark = "dispatch"
  BY <1>3 DEF Dispatching, Good, RowType
<1>6. r.task = NoTask /\ Pends(r) /\ sent[o][r.step] = 0
  BY <1>1, <1>3, <1>5 DEF Good, Pends
<1>7. Shows(row[o], shown[row[o].vm])
  BY <1>1, <1>3 DEF Good
<1>8. Shows(r, status) /\ Goes(r, shown[row[o].vm], status)
  BY <1>1, <1>5, <1>6, <1>7 DEF Shows, Goes, PowerOff
<1>9. Good(r, status, sent[o])
  BY <1>3, <1>5, <1>6, <1>8 DEF Good
<1>10. o \in cut /\ r.type # "delete" => Pends(r)
  BY <1>6
<1> HIDE DEF r, status
<1>11. Moves(o, r, status)
  BY <1>1, <1>4, <1>5, <1>8, <1>9, <1>10 DEF Moves
<1>12. Calls(o, r)
  BY <1>1, <1>5, <1>6 DEF Calls
<1> QED  BY <1>1, <1>4, <1>5, <1>11, <1>12 DEF Transacts

\* The end of an operation, and its next step.
LEMMA DoneMoves ==
  ASSUME LInv, NEW o \in Ops, row[o].status = "processing", NEW status \in Statuses,
         Set(o, Done(row[o])), Show(o, status), call' = NoCall,
         Ends(row[o], shown[row[o].vm], status),
         o \in cut => row[o].type = "delete",
         UNCHANGED <<placed, fake, history>>
  PROVE  Transacts(o)
<1> DEFINE r == Done(row[o])
<1>1. Good(row[o], shown[row[o].vm], sent[o])
  BY DEF LInv, RowInv
<1>2. /\ r \in RowType /\ r.type = row[o].type /\ r.vm = row[o].vm /\ r.step = row[o].step
      /\ r.task = NoTask /\ r.status = "succeeded"
  BY <1>1 DEF Done, Good, RowType
<1>3. Good(r, status, sent[o])
  BY <1>1, <1>2 DEF Good
<1>4. Ends(r, shown[row[o].vm], status) /\ Active(o)
  BY <1>2 DEF Ends, Active
<1> HIDE DEF r
<1>5. Moves(o, r, status)
  BY <1>2, <1>3, <1>4 DEF Moves, r
<1>6. Calls(o, r)
  BY DEF Calls
<1> QED  BY <1>2, <1>5, <1>6 DEF Transacts

LEMMA PendingMoves ==
  ASSUME LInv, NEW o \in Ops, row[o].status = "processing", NEW s \in Later[row[o].step],
         s \in StepsOf[row[o].type], NEW status \in Statuses,
         Set(o, Pending(row[o], s)), Show(o, status), call' = NoCall,
         \/ row[o].type = "create" /\ status = "provisioning"
         \/ row[o].type = "reboot" /\ row[o].step = "shutdown" /\ status = "stopped",
         o \notin cut,
         UNCHANGED <<placed, fake, history>>
  PROVE  Transacts(o)
<1> DEFINE r == Pending(row[o], s)
<1>1. /\ Good(row[o], shown[row[o].vm], sent[o]) /\ Shows(row[o], shown[row[o].vm])
      /\ row[o].step \in Commands /\ RowInv
  BY RowFacts DEF LInv, RowInv, Good
<1>2. s \in {"configure", "resize", "start"}
  BY <1>1, LaterFacts DEF Commands
<1>3. /\ r \in RowType /\ r.type = row[o].type /\ r.vm = row[o].vm /\ r.step = s
      /\ r.task = NoTask /\ r.status = "pending"
  BY <1>1, <1>2 DEF Pending, Good, RowType, Commands
<1>4. sent[o][s] = 0 /\ \A c \in Later[s] : sent[o][c] = 0
  BY <1>1, LaterFacts DEF Good, Commands
<1>5. Shows(r, status)
  BY <1>2, <1>3 DEF Shows, PowerOff
<1>6. Good(r, status, sent[o])
  BY <1>1, <1>3, <1>4, <1>5 DEF Good
<1>7. Goes(r, shown[row[o].vm], status) /\ Active(o)
  BY <1>1, <1>3 DEF Goes, Shows, Active
<1> HIDE DEF r
<1>8. Moves(o, r, status)
  BY <1>3, <1>6, <1>7 DEF Moves, r
<1>9. Calls(o, r)
  BY DEF Calls
<1> QED  BY <1>3, <1>8, <1>9 DEF Transacts

\* A task is saved, and shows that a clone is under way.
LEMMA AwaitingMoves ==
  ASSUME LInv, NEW o \in Ops, row[o].status = "processing", row[o].step # "configure",
         row[o].task = NoTask,
         Set(o, Awaiting(row[o], <<row[o].step, row[o].vm>>)), call' = NoCall,
         Show(o, IF row[o].step = "clone" THEN "provisioning" ELSE shown[row[o].vm]),
         o \in cut => row[o].type = "delete",
         UNCHANGED <<placed, fake, history>>
  PROVE  Transacts(o)
<1> DEFINE t == <<row[o].step, row[o].vm>>
           r == Awaiting(row[o], t)
           status == IF row[o].step = "clone" THEN "provisioning" ELSE shown[row[o].vm]
<1>1. /\ Good(row[o], shown[row[o].vm], sent[o]) /\ Shows(row[o], shown[row[o].vm])
      /\ row[o].step \in Commands /\ row[o].vm \in Vms /\ TypeOK /\ RowInv
  BY RowFacts DEF LInv, RowInv, Good
<1>2. t # NoTask /\ t \in Tasks
  BY <1>1, TaskIsATask DEF Tasks
<1>3. /\ r \in RowType /\ r.type = row[o].type /\ r.vm = row[o].vm /\ r.step = row[o].step
      /\ r.task = t /\ r.status = "processing"
  BY <1>1, <1>2 DEF Awaiting, Good, RowType
<1>4. status \in Statuses
  BY <1>1 DEF TypeOK, Statuses
<1>5. Shows(r, status)
  BY <1>1, <1>2, <1>3, TypeSteps DEF Shows, PowerOff
<1>6. Good(r, status, sent[o])
  BY <1>1, <1>2, <1>3, <1>5 DEF Good
<1>7. Goes(r, shown[row[o].vm], status) /\ Active(o)
  BY <1>1, <1>3, TypeSteps DEF Goes, Shows, Active
<1> HIDE DEF r
<1>8. Moves(o, r, status)
  BY <1>3, <1>4, <1>6, <1>7 DEF Moves, r
<1>9. Calls(o, r)
  BY DEF Calls
<1> QED  BY <1>3, <1>4, <1>8, <1>9 DEF Transacts

LEMMA UnprovedMoves ==
  ASSUME LInv, NEW o \in Ops, Pends(row[o]), NEW m \in {"reconcile", "review"}, Unproved(o, m),
         call' = NoCall, UNCHANGED <<placed, fake, history>>
  PROVE  Transacts(o)
<1> DEFINE r == [row[o] EXCEPT !.mark = m]
           status == shown[row[o].vm]
<1>1. Good(row[o], status, sent[o]) /\ row[o].vm \in Vms /\ TypeOK /\ RowInv
  BY RowFacts DEF LInv, RowInv
<1>2. /\ r \in RowType /\ r.type = row[o].type /\ r.vm = row[o].vm /\ r.step = row[o].step
      /\ r.task = row[o].task /\ r.status = row[o].status /\ r.mark = m
  BY <1>1 DEF Good, RowType
<1>3. Pends(r) /\ Shows(r, status)
  BY <1>1, <1>2 DEF Pends, Good, Shows
<1>4. Good(r, status, sent[o])
  BY <1>1, <1>2, <1>3 DEF Good, Pends
<1>5. Active(o) /\ Show(o, status) /\ status \in Statuses /\ Set(o, r)
  BY <1>1, ShowSame DEF Pends, Active, Unproved
<1> HIDE DEF r, status
<1>6. Moves(o, r, status)
  BY <1>2, <1>3, <1>4, <1>5 DEF Moves, Pends, Goes, status
<1>7. Calls(o, r)
  BY DEF Calls
<1> QED  BY <1>2, <1>5, <1>6, <1>7 DEF Transacts

-----------------------------------------------------------------------------
(* The transactions of run_once *)

LEMMA FinishMoves ==
  ASSUME LInv, NEW o \in Ops, FinishCreate(o) \/ FinishStart(o) \/ FinishLifecycle(o)
  PROVE  Transacts(o)
<1>1. /\ call # NoCall /\ call.at = "reply" /\ call.op = o
      /\ call' = NoCall /\ UNCHANGED <<placed, fake, history>>
  BY DEF FinishCreate, FinishStart, FinishLifecycle, Answered, Finish
<1>2. /\ Pends(row[o]) /\ call.cmd = row[o].step
      /\ call.reply = "none" <=> call.cmd = "configure"
      /\ call.reply = "succeeded" => call.cmd = "delete"
      /\ o \in cut => row[o].type = "delete"
  BY <1>1 DEF LInv, CallInv, CutInv
<1>3. call.reply \in {"none", "task", "succeeded"}
  BY <1>1 DEF LInv, TypeOK, NoCall
<1>4. /\ row[o].status = "processing" /\ row[o].task = NoTask /\ RowInv /\ TypeOK
      /\ row[o].vm \in Vms /\ Shows(row[o], shown[row[o].vm]) /\ row[o].step \in StepsOf[row[o].type]
  BY <1>2, RowFacts DEF Pends, LInv, RowInv, Good
<1>5. UNCHANGED shown => Show(o, shown[row[o].vm])
  BY <1>4, ShowSame
<1>6. CASE call.reply = "task"
  <2>1. Set(o, Awaiting(row[o], <<row[o].step, row[o].vm>>)) /\ row[o].step # "configure"
    BY <1>2, <1>4, <1>6, TypeSteps DEF FinishCreate, FinishStart, FinishLifecycle
  <2>2. Show(o, IF row[o].step = "clone" THEN "provisioning" ELSE shown[row[o].vm])
    BY <1>2, <1>4, <1>5, <1>6, TypeSteps DEF FinishCreate, FinishStart, FinishLifecycle, PowerOff
  <2> QED  BY <1>1, <1>2, <1>4, <2>1, <2>2, AwaitingMoves
<1>7. CASE call.reply = "none"
  <2>1. row[o].type = "create" /\ row[o].step = "configure"
    BY <1>2, <1>4, <1>7, TypeSteps
  <2>2. Set(o, Pending(row[o], "resize")) /\ UNCHANGED shown
    BY <1>2, <1>7, <2>1 DEF FinishCreate, FinishStart, FinishLifecycle, PowerOff
  <2>3. shown[row[o].vm] = "provisioning"
    BY <1>4, <2>1 DEF Shows
  <2>4. "resize" \in Later[row[o].step] /\ "resize" \in StepsOf[row[o].type] /\ o \notin cut
    BY <1>2, <2>1, LaterFacts, StepsOfFacts
  <2> QED  BY <1>1, <1>4, <1>5, <2>1, <2>2, <2>3, <2>4, PendingMoves DEF Statuses
<1>8. CASE call.reply = "succeeded"
  <2>1. row[o].type = "delete"
    BY <1>2, <1>4, <1>8, TypeSteps
  <2>2. Set(o, Done(row[o])) /\ Show(o, "deleted")
    BY <1>8, <2>1 DEF FinishCreate, FinishStart, FinishLifecycle
  <2>3. Ends(row[o], shown[row[o].vm], "deleted")
    BY <1>4, <2>1 DEF Shows, Ends
  <2> QED  BY <1>1, <1>4, <2>1, <2>2, <2>3, DoneMoves DEF Statuses
<1> QED  BY <1>3, <1>6, <1>7, <1>8

LEMMA PollMoves ==
  ASSUME LInv, NEW o \in Ops,
         RefreshCreate(o) \/ PollStart(o) \/ PollPowerOff(o) \/ PollReboot(o) \/ PollDelete(o)
  PROVE  Transacts(o)
<1>1. /\ call = NoCall /\ row[o].status = "processing" /\ row[o].task # NoTask
      /\ call' = NoCall /\ UNCHANGED <<placed, fake, history>>
  BY DEF RefreshCreate, PollStart, PollPowerOff, PollReboot, PollDelete, Polled
<1>2. /\ RowInv /\ TypeOK /\ Shows(row[o], shown[row[o].vm]) /\ row[o].vm \in Vms
      /\ row[o].step # "configure"
  BY <1>1, RowFacts DEF LInv, RowInv, Good
<1>3. o \in cut => row[o].type = "delete"
  BY <1>1 DEF LInv, CutInv, Pends
<1>4. CASE row[o].type = "create" /\ row[o].step = "start"
  <2>1. Set(o, Done(row[o])) /\ Show(o, "running")
    BY <1>4 DEF RefreshCreate, PollStart, PollPowerOff, PollReboot, PollDelete, PowerOff
  <2>2. Ends(row[o], shown[row[o].vm], "running")
    BY <1>2, <1>4 DEF Shows, Ends
  <2> QED  BY <1>1, <1>3, <2>1, <2>2, DoneMoves DEF Statuses
<1>5. CASE row[o].type = "create" /\ row[o].step \in {"clone", "resize"}
  <2>1. Set(o, Pending(row[o], AfterCreate[row[o].step])) /\ UNCHANGED shown
    BY <1>5 DEF RefreshCreate, PollStart, PollPowerOff, PollReboot, PollDelete, PowerOff
  <2>2. shown[row[o].vm] = "provisioning" /\ Show(o, "provisioning")
    BY <1>1, <1>2, <1>5, <2>1, ShowSame DEF Shows
  <2>3. AfterCreate[row[o].step] \in Later[row[o].step] /\ AfterCreate[row[o].step] \in StepsOf[row[o].type]
    BY <1>5, LaterFacts, StepsOfFacts DEF AfterCreate
  <2> QED  BY <1>1, <1>3, <1>5, <2>1, <2>2, <2>3, PendingMoves DEF Statuses
<1>6. CASE row[o].type = "reboot" /\ row[o].step = "shutdown"
  <2>1. Set(o, Pending(row[o], "start")) /\ Show(o, "stopped")
    BY <1>6 DEF RefreshCreate, PollStart, PollPowerOff, PollReboot, PollDelete, PowerOff
  <2>2. "start" \in Later[row[o].step] /\ "start" \in StepsOf[row[o].type]
    BY <1>6, LaterFacts, StepsOfFacts
  <2> QED  BY <1>1, <1>3, <1>6, <2>1, <2>2, PendingMoves DEF Statuses
<1>7. CASE (row[o].type = "reboot" /\ row[o].step = "start") \/ row[o].type = "start"
  <2>1. Set(o, Done(row[o])) /\ Show(o, "running")
    BY <1>7 DEF RefreshCreate, PollStart, PollPowerOff, PollReboot, PollDelete, PowerOff
  <2>2. Ends(row[o], shown[row[o].vm], "running")
    BY <1>2, <1>7 DEF Shows, Ends
  <2> QED  BY <1>1, <1>3, <2>1, <2>2, DoneMoves DEF Statuses
<1>8. CASE row[o].type \in PowerOff
  <2>1. Set(o, Done(row[o])) /\ Show(o, "stopped")
    BY <1>8 DEF RefreshCreate, PollStart, PollPowerOff, PollReboot, PollDelete, PowerOff
  <2>2. Ends(row[o], shown[row[o].vm], "stopped")
    BY <1>2, <1>8 DEF Shows, Ends
  <2> QED  BY <1>1, <1>3, <2>1, <2>2, DoneMoves DEF Statuses
<1>9. CASE row[o].type = "delete"
  <2>1. Set(o, Done(row[o])) /\ Show(o, "deleted")
    BY <1>9 DEF RefreshCreate, PollStart, PollPowerOff, PollReboot, PollDelete, PowerOff
  <2>2. shown[row[o].vm] = "deleting"
    BY <1>1, <1>2, <1>9 DEF Shows
  <2>3. Ends(row[o], shown[row[o].vm], "deleted")
    BY <1>9, <2>2 DEF Ends
  <2> QED  BY <1>1, <1>3, <2>1, <2>3, DoneMoves DEF Statuses
<1> QED  BY <1>2, <1>4, <1>5, <1>6, <1>7, <1>8, <1>9, TypeSteps DEF PowerOff

\* The VM of an operation that was cut off looks missing, whatever it is.
LEMMA CutIsUnknown ==
  ASSUME LInv, NEW o \in cut, row[o].type # "delete"
  PROVE  PowerState(o) \notin {"running", "stopped"}
BY DEF LInv, CutInv, PowerState, get_vm_power_state

LEMMA ReconcileMoves ==
  ASSUME LInv, NEW o \in Ops, ReconcileCreate(o) \/ ReconcileStart(o) \/ ReconcileLifecycle(o)
  PROVE  Transacts(o)
<1>1. /\ Pends(row[o]) /\ row[o].status = "processing" /\ row[o].task = NoTask
      /\ call' = NoCall /\ UNCHANGED <<placed, fake, history>>
  BY DEF ReconcileCreate, ReconcileStart, ReconcileLifecycle, Cut, Unanswered, Pends
<1>2. RowInv /\ TypeOK /\ Shows(row[o], shown[row[o].vm]) /\ row[o].vm \in Vms
  BY <1>1, RowFacts DEF LInv, RowInv, Good
<1>3. PowerState(o) \in {"running", "stopped"} /\ o \in cut => row[o].type = "delete"
  BY CutIsUnknown
<1>4. CASE \E m \in {"reconcile", "review"} : Unproved(o, m)
  BY <1>1, <1>4, UnprovedMoves
<1>5. CASE ~\E m \in {"reconcile", "review"} : Unproved(o, m)
  <2>1. CASE ReconcileCreate(o)
    <3>1. CASE row[o].step = "clone" /\ PowerState(o) = "stopped"
      <4>1. row[o].type = "create" /\ Set(o, Pending(row[o], "configure")) /\ Show(o, "provisioning")
        BY <2>1, <3>1 DEF ReconcileCreate
      <4>2. "configure" \in Later[row[o].step] /\ "configure" \in StepsOf[row[o].type]
        BY <3>1, <4>1, LaterFacts, StepsOfFacts
      <4> QED  BY <1>1, <1>3, <3>1, <4>1, <4>2, PendingMoves DEF Statuses
    <3>2. CASE row[o].step = "start" /\ PowerState(o) = "running"
      <4>1. row[o].type = "create" /\ Set(o, Done(row[o])) /\ Show(o, "running")
        BY <2>1, <3>2 DEF ReconcileCreate
      <4>2. Ends(row[o], shown[row[o].vm], "running")
        BY <1>2, <3>2, <4>1 DEF Shows, Ends
      <4> QED  BY <1>1, <1>3, <3>2, <4>1, <4>2, DoneMoves DEF Statuses
    <3> QED  BY <1>5, <2>1, <3>1, <3>2 DEF ReconcileCreate
  <2>2. CASE ReconcileStart(o)
    <3>1. row[o].type = "start" /\ PowerState(o) = "running" /\ Set(o, Done(row[o])) /\ Show(o, "running")
      BY <1>5, <2>2 DEF ReconcileStart
    <3>2. Ends(row[o], shown[row[o].vm], "running")
      BY <1>2, <3>1 DEF Shows, Ends
    <3> QED  BY <1>1, <1>3, <3>1, <3>2, DoneMoves DEF Statuses
  <2>3. CASE ReconcileLifecycle(o)
    <3>1. CASE row[o].type = "delete"
      <4>1. Set(o, Done(row[o])) /\ Show(o, "deleted")
        BY <1>5, <2>3, <3>1 DEF ReconcileLifecycle, PowerOff
      <4>2. shown[row[o].vm] = "deleting"
        BY <1>1, <1>2, <3>1 DEF Shows
      <4>3. Ends(row[o], shown[row[o].vm], "deleted")
        BY <3>1, <4>2 DEF Ends
      <4> QED  BY <1>1, <3>1, <4>1, <4>3, DoneMoves DEF Statuses
    <3>2. CASE row[o].type \in PowerOff
      <4>1. PowerState(o) = "stopped" /\ Set(o, Done(row[o])) /\ Show(o, "stopped")
        BY <1>5, <2>3, <3>2 DEF ReconcileLifecycle, PowerOff
      <4>2. Ends(row[o], shown[row[o].vm], "stopped")
        BY <1>2, <3>2 DEF Shows, Ends
      <4> QED  BY <1>1, <1>3, <4>1, <4>2, DoneMoves DEF Statuses
    <3>3. CASE row[o].type = "reboot" /\ row[o].step = "shutdown"
      <4>1. PowerState(o) = "stopped" /\ Set(o, Pending(row[o], "start")) /\ Show(o, "stopped")
        BY <1>5, <2>3, <3>3 DEF ReconcileLifecycle, PowerOff
      <4>2. "start" \in Later[row[o].step] /\ "start" \in StepsOf[row[o].type]
        BY <3>3, LaterFacts, StepsOfFacts
      <4> QED  BY <1>1, <1>3, <3>3, <4>1, <4>2, PendingMoves DEF Statuses
    <3>4. CASE row[o].type = "reboot" /\ row[o].step = "start"
      <4>1. PowerState(o) = "running" /\ Set(o, Done(row[o])) /\ Show(o, "running")
        BY <1>5, <2>3, <3>4 DEF ReconcileLifecycle, PowerOff
      <4>2. Ends(row[o], shown[row[o].vm], "running")
        BY <1>2, <3>4 DEF Shows, Ends
      <4> QED  BY <1>1, <1>3, <3>4, <4>1, <4>2, DoneMoves DEF Statuses
    <3> QED  BY <1>2, <2>3, <3>1, <3>2, <3>3, <3>4, TypeSteps DEF ReconcileLifecycle
  <2> QED  BY <2>1, <2>2, <2>3
<1> QED  BY <1>4, <1>5

LEMMA RunOnceMoves ==
  ASSUME LInv, NEW o \in Ops, RunOnce(o)
  PROVE  ChoosePlacement(o) \/ Transacts(o)
BY PrepareMoves, FinishMoves, PollMoves, ReconcileMoves DEF RunOnce

-----------------------------------------------------------------------------
(* The invariant is kept *)

\* The VM of a row that is not active says nothing of it.
LEMMA GoodAtRest ==
  ASSUME NEW r, NEW n, NEW s, NEW t, Good(r, s, n), r.status \notin {"pending", "processing"}
  PROVE  Good(r, t, n)
BY DEF Good

LEMMA TransactKeeps == ASSUME LInv, NEW o \in Ops, Transacts(o) PROVE LInv'
<1>1. PICK r \in RowType, status \in Statuses : Moves(o, r, status) /\ Calls(o, r)
  BY DEF Transacts
<1>2. /\ TypeOK /\ RowInv /\ OneActive /\ CutInv
      /\ UNCHANGED <<placed, fake, restarts, sent, cut>>
  BY DEF LInv, Transacts, history
<1>3. /\ Active(o) /\ r.type = row[o].type /\ r.vm = row[o].vm
      /\ row' = [row EXCEPT ![o] = r] /\ shown' = [shown EXCEPT ![row[o].vm] = status]
      /\ Good(r, status, sent[o]) /\ r.status \in {"pending", "processing", "succeeded"}
      /\ o \in cut /\ r.type # "delete" => Pends(r)
  BY <1>1 DEF Moves, Set, Show
<1>4. row'[o] = r /\ \A p \in Ops : p # o => row'[p] = row[p]
  BY <1>2, <1>3 DEF TypeOK
<1>5. row[o].vm \in Vms /\ row[o].step \in Commands /\ r.step \in Commands
  BY <1>1, <1>2, RowFacts DEF RowType
<1>6. TypeOK'
  <2>1. row' \in [Ops -> RowType] /\ shown' \in [Vms -> Statuses]
    BY <1>1, <1>2, <1>3 DEF TypeOK, Statuses
  <2>2. \/ call' = NoCall
        \/ call' \in [at : {"send"}, op : Ops, cmd : Commands]
    BY <1>1, <1>5 DEF Calls
  <2> QED  BY <1>2, <2>1, <2>2 DEF TypeOK, Statuses
<1>7. RowInv'
  <2>1. ASSUME NEW p \in Ops
        PROVE  /\ Good(row'[p], shown'[row'[p].vm], sent'[p])
               /\ row'[p].status = "none" => New(p)'
    <3>1. CASE p = o
      BY <1>2, <1>3, <1>4, <1>5, <3>1 DEF TypeOK
    <3>2. CASE p # o
      <4>1. row'[p] = row[p] /\ row[p].vm \in Vms /\ Good(row[p], shown[row[p].vm], sent[p])
        BY <1>2, <1>4, <3>2, RowFacts DEF RowInv
      <4>2. row'[p].status = "none" => New(p)'
        BY <1>2, <4>1 DEF RowInv, New
      <4>3. CASE row[p].vm = row[o].vm
        <5>1. row[p].status \notin {"pending", "processing"}
          BY <1>2, <1>3, <3>2, <4>3 DEF OneActive, Active
        <5> QED  BY <1>2, <4>1, <4>2, <5>1, GoodAtRest
      <4>4. CASE row[p].vm # row[o].vm
        <5>1. shown'[row[p].vm] = shown[row[p].vm]
          BY <1>2, <1>3, <4>1, <4>4 DEF TypeOK
        <5> QED  BY <1>2, <4>1, <4>2, <5>1
      <4> QED  BY <4>3, <4>4
    <3> QED  BY <3>1, <3>2
  <2> QED  BY <2>1 DEF RowInv
<1>8. OneActive'
  <2>1. \A p \in Ops : Active(p)' => Active(p) /\ row'[p].vm = row[p].vm
    BY <1>3, <1>4 DEF Active
  <2> QED  BY <1>2, <2>1 DEF OneActive
<1>9. CallInv'
  BY <1>1, <1>2, <1>4 DEF CallInv, Calls
<1>10. CutInv'
  <2>1. ASSUME NEW p \in cut, row'[p].type # "delete"
        PROVE  Pends(row'[p]) /\ fake.power[row'[p].vm] = "none" /\ (call' # NoCall => call'.op # p)
    <3>1. p \in Ops /\ row[p].type # "delete" /\ row'[p].vm = row[p].vm
      BY <1>2, <1>3, <1>4, <2>1 DEF TypeOK
    <3>2. Pends(row[p]) /\ fake.power[row[p].vm] = "none"
      BY <1>2, <3>1 DEF CutInv
    <3>3. Pends(row'[p])
      BY <1>3, <1>4, <2>1, <3>1, <3>2
    <3>4. call' # NoCall => call'.op # p
      BY <1>1, <3>2 DEF Calls, Pends
    <3> QED  BY <3>1, <3>2, <3>3, <3>4
  <2> QED  BY <1>2, <2>1 DEF CutInv
<1> QED  BY <1>6, <1>7, <1>8, <1>9, <1>10 DEF LInv

LEMMA PlacementKeeps == ASSUME LInv, NEW o \in Ops, ChoosePlacement(o) PROVE LInv'
<1>1. /\ placed' = placed \cup {row[o].vm} /\ row[o].vm \in Vms
      /\ UNCHANGED <<row, shown, fake, call, restarts, sent, cut>>
  BY RowFacts DEF ChoosePlacement, LInv, history
<1>2. TypeOK'
  BY <1>1 DEF LInv, TypeOK
<1>3. RowInv' /\ OneActive' /\ CallInv' /\ CutInv'
  BY <1>1 DEF LInv, RowInv, New, OneActive, Active, CallInv, CutInv
<1> QED  BY <1>2, <1>3 DEF LInv

\* The step a request of type t starts with.
First(t) == IF t = "create" THEN "clone" ELSE FirstStep(t)

\* A request of type t on VM v.
Asks(o, v, t) ==
    /\ row[o].status = "none" /\ \A p \in Ops : Active(p) => row[p].vm # v
    /\ shown[v] = IF t = "create" THEN "none" ELSE Allowed(t)
    /\ Set(o, [row[o] EXCEPT !.type = t, !.vm = v, !.status = "pending", !.step = First(t)])
    /\ IF t = "create" THEN shown' = [shown EXCEPT ![v] = "pending"] ELSE UNCHANGED shown
    /\ UNCHANGED <<placed, fake, call, history>>

\* An active row's VM shows something.
LEMMA ActiveShown ==
  ASSUME LInv, NEW p \in Ops, Active(p)
  PROVE  shown[row[p].vm] \in Statuses \ {"none"} /\ row[p].vm \in Vms
<1>1. RowInv /\ TypeOK /\ Shows(row[p], shown[row[p].vm])
  BY DEF LInv, RowInv, Good, Active
<1>2. row[p].vm \in Vms /\ row[p].type \in Types
  BY <1>1, RowFacts
<1> QED  BY <1>1, <1>2 DEF Shows, PowerOff, Types, TypeOK, Statuses

LEMMA RequestAsks ==
  ASSUME LInv, NEW o \in Ops, NEW v \in Vms, NEW t \in Types,
         (t = "create" /\ CreateVm(o, v)) \/ EnqueueVmOperation(o, v, t)
  PROVE  Asks(o, v, t)
<1>1. CASE t = "create" /\ CreateVm(o, v)
  <2>1. \A p \in Ops : Active(p) => row[p].vm # v
    BY <1>1, ActiveShown DEF CreateVm
  <2>2. row[o] \in RowType /\ row[o].type = "create" /\ row[o].step = "clone"
    BY <1>1 DEF CreateVm, LInv, TypeOK, RowInv, New
  <2>3. [row[o] EXCEPT !.vm = v, !.status = "pending"]
          = [row[o] EXCEPT !.type = t, !.vm = v, !.status = "pending", !.step = First(t)]
    BY <1>1, <2>2 DEF First, FirstStep, RowType
  <2> QED  BY <1>1, <2>1, <2>3 DEF CreateVm, Asks
<1>2. CASE EnqueueVmOperation(o, v, t)
  BY <1>2 DEF EnqueueVmOperation, Asks, First
<1> QED  BY <1>1, <1>2

LEMMA AskKeeps ==
  ASSUME LInv, NEW o \in Ops, NEW v \in Vms, NEW t \in Types, Asks(o, v, t) PROVE LInv'
<1> DEFINE r == [row[o] EXCEPT !.type = t, !.vm = v, !.status = "pending", !.step = First(t)]
<1>1. /\ TypeOK /\ RowInv /\ OneActive /\ CutInv /\ CallInv
      /\ UNCHANGED <<placed, fake, restarts, sent, cut, call>>
      /\ row' = [row EXCEPT ![o] = r] /\ row[o].status = "none"
      /\ \A p \in Ops : Active(p) => row[p].vm # v
  BY DEF LInv, Asks, history, Set
<1>2. row[o] \in RowType /\ New(o)
  BY <1>1 DEF TypeOK, RowInv
<1>3. First(t) \in StepsOf[t] /\ First(t) \in Commands
  BY StepsOfFacts DEF First, FirstStep, Types, Commands
<1>4. /\ r \in RowType /\ r.type = t /\ r.vm = v /\ r.step = First(t)
      /\ r.task = NoTask /\ r.status = "pending"
  BY <1>2, <1>3 DEF RowType, New
<1>5. \A c \in Later[r.step] : c \in Commands
  BY <1>3, <1>4, LaterFacts DEF Commands
<1>6. shown'[v] = (IF t = "create" THEN "pending" ELSE Allowed(t)) /\ \A x \in Vms : x # v => shown'[x] = shown[x]
  BY <1>1 DEF Asks, TypeOK
<1>7. Good(r, shown'[v], sent[o])
  <2>1. Shows(r, shown'[v])
    BY <1>4, <1>6 DEF Shows, Allowed, First, FirstStep, PowerOff
  <2> QED  BY <1>2, <1>3, <1>4, <1>5, <2>1 DEF Good, New
<1> HIDE DEF r
<1>8. row'[o] = r /\ \A p \in Ops : p # o => row'[p] = row[p]
  BY <1>1 DEF TypeOK
<1>9. TypeOK'
  BY <1>1, <1>4 DEF TypeOK, Asks
<1>10. RowInv'
  <2>1. ASSUME NEW p \in Ops
        PROVE  /\ Good(row'[p], shown'[row'[p].vm], sent'[p])
               /\ row'[p].status = "none" => New(p)'
    <3>1. CASE p = o
      BY <1>1, <1>4, <1>7, <1>8, <3>1
    <3>2. CASE p # o
      <4>1. row'[p] = row[p] /\ row[p].vm \in Vms /\ Good(row[p], shown[row[p].vm], sent[p])
        BY <1>1, <1>8, <3>2, RowFacts DEF RowInv
      <4>2. row'[p].status = "none" => New(p)'
        BY <1>1, <4>1 DEF RowInv, New
      <4>3. CASE row[p].vm = v
        <5>1. row[p].status \notin {"pending", "processing"}
          BY <1>1, <4>3 DEF Active
        <5> QED  BY <1>1, <4>1, <4>2, <5>1, GoodAtRest
      <4>4. CASE row[p].vm # v
        BY <1>1, <1>6, <4>1, <4>2, <4>4
      <4> QED  BY <4>3, <4>4
    <3> QED  BY <3>1, <3>2
  <2> QED  BY <2>1 DEF RowInv
<1>11. OneActive'
  <2>1. \A p \in Ops : p # o /\ Active(p)' => Active(p) /\ row'[p].vm = row[p].vm /\ row[p].vm # v
    BY <1>1, <1>8 DEF Active
  <2> QED  BY <1>1, <1>4, <1>8, <2>1 DEF OneActive
<1>12. CallInv' /\ CutInv'
  <2>1. \A p \in Ops : Pends(row[p]) => row'[p] = row[p]
    BY <1>1, <1>8 DEF Pends
  <2>2. CallInv'
    BY <1>1, <2>1, CallFacts DEF CallInv
  <2>3. ASSUME NEW p \in cut, row'[p].type # "delete"
        PROVE  Pends(row'[p]) /\ fake.power[row'[p].vm] = "none" /\ (call # NoCall => call.op # p)
    <3>1. p \in Ops
      BY <1>1 DEF TypeOK
    <3>2. row[p].type # "delete"
      BY <1>1, <1>2, <1>8, <2>3, <3>1 DEF New
    <3> QED  BY <1>1, <2>1, <3>1, <3>2 DEF CutInv
  <2> QED  BY <1>1, <2>2, <2>3 DEF CutInv
<1> QED  BY <1>9, <1>10, <1>11, <1>12 DEF LInv

\* A command changes the power state of its own VM only.
LEMMA CommandFakes ==
  ASSUME LInv, Command
  PROVE  /\ fake' \in [created : SUBSET Vms, deleted : SUBSET Vms, tasks : SUBSET Tasks,
                       power : [Vms -> {"none", "running", "stopped"}]]
         /\ \A x \in Vms : x # row[call.op].vm => fake'.power[x] = fake.power[x]
<1> DEFINE v == row[call.op].vm
           c == call.cmd
<1>1. /\ call.op \in Ops /\ c \in Commands /\ v \in Vms
      /\ fake \in [created : SUBSET Vms, deleted : SUBSET Vms, tasks : SUBSET Tasks,
                   power : [Vms -> {"none", "running", "stopped"}]]
  BY CallFacts, RowFacts DEF Command, LInv, TypeOK
<1>2. c # "configure" => <<c, v>> \in Tasks
  BY <1>1 DEF Tasks
<1>3. CASE c = "clone"
  <2>1. fake' = clone_vm(v)
    BY <1>3 DEF Command, PowerOff
  <2> HIDE DEF v, c
  <2>2. fake' = [fake EXCEPT !.created = fake.created \cup {v}, !.power = [fake.power EXCEPT ![v] = "stopped"],
                             !.tasks = fake.tasks \cup {<<"clone", v>>}]
    BY <1>1, <2>1 DEF clone_vm, Remember
  <2> QED  BY <1>1, <1>2, <1>3, <2>2 DEF v
<1>4. CASE c = "configure"
  BY <1>1, <1>4 DEF Command, PowerOff
<1>5. CASE c = "resize"
  <2>1. fake' = Remember("resize", v, fake)
    BY <1>5 DEF Command, PowerOff
  <2> QED  BY <1>1, <1>2, <1>5, <2>1 DEF Remember
<1>6. CASE c = "start"
  <2>1. fake' = start_vm(v)
    BY <1>6 DEF Command, PowerOff
  <2> HIDE DEF v, c
  <2>2. fake' = [fake EXCEPT !.power = [fake.power EXCEPT ![v] = "running"],
                             !.tasks = fake.tasks \cup {<<"start", v>>}]
    BY <1>1, <2>1 DEF start_vm, Remember
  <2> QED  BY <1>1, <1>2, <1>6, <2>2 DEF v
<1>7. CASE c \in PowerOff
  <2>1. fake' = power_off(c, v)
    BY <1>7 DEF Command, PowerOff
  <2> HIDE DEF v, c
  <2>2. fake' = [fake EXCEPT !.power = [fake.power EXCEPT ![v] = "stopped"],
                             !.tasks = fake.tasks \cup {<<c, v>>}]
    BY <1>1, <2>1 DEF power_off, Remember
  <2> QED  BY <1>1, <1>2, <1>7, <2>2 DEF v, PowerOff
<1>8. CASE c = "delete" /\ v \in fake.deleted
  <2>1. fake' = fake
    BY <1>8 DEF Command, PowerOff
  <2> QED  BY <1>1, <2>1
<1>9. CASE c = "delete" /\ v \notin fake.deleted
  <2>1. fake' = delete_vm(v)
    BY <1>9 DEF Command, PowerOff
  <2> HIDE DEF v, c
  <2>2. fake' = [fake EXCEPT !.deleted = fake.deleted \cup {v}, !.created = fake.created \ {v},
                             !.power = [fake.power EXCEPT ![v] = "none"],
                             !.tasks = fake.tasks \cup {<<"delete", v>>}]
    BY <1>1, <2>1 DEF delete_vm, Remember
  <2> QED  BY <1>1, <1>2, <1>9, <2>2 DEF v
<1> QED  BY <1>1, <1>3, <1>4, <1>5, <1>6, <1>7, <1>8, <1>9 DEF Commands, PowerOff

LEMMA CommandKeeps == ASSUME LInv, Command PROVE LInv'
<1> DEFINE o == call.op
           c == call.cmd
           a == Answer(c, row[o].vm)
<1>1. /\ TypeOK /\ RowInv /\ OneActive /\ CutInv /\ CallInv
      /\ call # NoCall /\ call.at = "send" /\ o \in Ops /\ c \in Commands
      /\ call' = [at |-> "reply", op |-> o, cmd |-> c, reply |-> a]
      /\ sent' = [sent EXCEPT ![o][c] = @ + 1]
      /\ UNCHANGED <<row, shown, placed, restarts, cut>>
  BY CallFacts DEF LInv, Command
<1>2. Pends(row[o]) /\ row[o].mark = "dispatch" /\ c = row[o].step /\ sent[o][c] = 0
  BY <1>1 DEF CallInv
<1>3. /\ a \in {"none", "task", "succeeded"}
      /\ a = "none" <=> c = "configure"
      /\ a = "succeeded" => c = "delete"
  BY DEF Answer
<1> HIDE DEF o, c, a
<1>4. /\ sent' \in [Ops -> [Commands -> Nat]]
      /\ \A p \in Ops, d \in Commands : ~(p = o /\ d = c) => sent'[p][d] = sent[p][d]
  BY <1>1 DEF TypeOK
<1>5. TypeOK'
  <2>1. /\ row' \in [Ops -> RowType] /\ shown' \in [Vms -> Statuses] /\ placed' \subseteq Vms
        /\ restarts' \in 0..MaxRestarts /\ cut' \subseteq Ops
    BY <1>1 DEF TypeOK, Statuses
  <2>2. call' \in [at : {"reply"}, op : Ops, cmd : Commands, reply : {"none", "task", "succeeded"}]
    BY <1>1, <1>3
  <2> QED  BY <1>4, <2>1, <2>2, CommandFakes DEF TypeOK, Statuses
<1>6. RowInv'
  <2>1. ASSUME NEW p \in Ops
        PROVE  /\ Good(row[p], shown[row[p].vm], sent'[p])
               /\ row[p].status = "none" => New(p)'
    <3>1. Good(row[p], shown[row[p].vm], sent[p]) /\ row[p].step \in Commands
      BY <1>1, RowFacts DEF RowInv
    <3>2. CASE p = o
      <4>1. \A d \in Later[row[p].step] : d \in Commands /\ d # c
        BY <1>2, <3>1, <3>2, LaterFacts DEF Commands
      <4>2. \A d \in Later[row[p].step] : sent'[p][d] = 0
        BY <1>4, <3>1, <4>1 DEF Good
      <4>3. row[p].status = "processing"
        BY <1>2, <3>2 DEF Pends
      <4> QED  BY <3>1, <4>2, <4>3 DEF Good
    <3>3. CASE p # o
      <4>1. \A d \in Commands : sent'[p][d] = sent[p][d]
        BY <1>4, <3>3
      <4>2. \A d \in Later[row[p].step] : d \in Commands
        BY <3>1, LaterFacts DEF Commands
      <4>3. Good(row[p], shown[row[p].vm], sent'[p])
        BY <3>1, <4>1, <4>2 DEF Good
      <4> QED  BY <1>1, <4>1, <4>3 DEF RowInv, New
    <3> QED  BY <3>2, <3>3
  <2> QED  BY <1>1, <2>1 DEF RowInv
<1>7. OneActive'
  BY <1>1 DEF OneActive, Active
<1>8. CallInv'
  <2>1. call'.at = "reply" /\ call'.op = o /\ call'.cmd = c /\ call'.reply = a
    BY <1>1
  <2> QED  BY <1>1, <1>2, <1>3, <2>1 DEF CallInv
<1>9. CutInv'
  <2>1. ASSUME NEW p \in cut, row[p].type # "delete"
        PROVE  Pends(row[p]) /\ fake'.power[row[p].vm] = "none" /\ call'.op # p
    <3>1. p \in Ops /\ Pends(row[p]) /\ fake.power[row[p].vm] = "none" /\ o # p
      BY <1>1, <2>1 DEF TypeOK, CutInv, o
    <3>2. row[p].vm \in Vms /\ row[p].vm # row[o].vm
      BY <1>1, <1>2, <3>1, RowFacts DEF OneActive, Active, Pends
    <3> QED  BY <1>1, <3>1, <3>2, CommandFakes DEF o
  <2> QED  BY <1>1, <2>1 DEF CutInv
<1> QED  BY <1>5, <1>6, <1>7, <1>8, <1>9 DEF LInv

LEMMA LoseKeeps == ASSUME LInv, LoseResult PROVE LInv'
<1>1. call' = NoCall /\ UNCHANGED <<row, shown, placed, fake, restarts, sent, cut>>
  BY DEF LoseResult, history
<1>2. TypeOK'
  BY <1>1 DEF LInv, TypeOK
<1>3. RowInv' /\ OneActive' /\ CallInv' /\ CutInv'
  BY <1>1 DEF LInv, RowInv, New, OneActive, Active, CallInv, CutInv
<1> QED  BY <1>2, <1>3 DEF LInv

LEMMA NewFakeType ==
  /\ NewFake \in [created : SUBSET Vms, deleted : SUBSET Vms, tasks : SUBSET Tasks,
                  power : [Vms -> {"none", "running", "stopped"}]]
  /\ \A v \in Vms : NewFake.power[v] = "none"
BY DEF NewFake

LEMMA RestartKeeps == ASSUME LInv, Restart PROVE LInv'
<1>1. /\ call' = NoCall /\ fake' = NewFake /\ restarts < MaxRestarts /\ restarts' = restarts + 1
      /\ cut' = cut \cup {o \in Ops : Unanswered(o)}
      /\ UNCHANGED <<row, shown, placed, sent>>
  BY DEF Restart
<1>2. TypeOK'
  BY <1>1, NewFakeType, LocalWorkerAssumption DEF LInv, TypeOK
<1>3. RowInv' /\ OneActive' /\ CallInv'
  BY <1>1 DEF LInv, RowInv, New, OneActive, Active, CallInv
<1>4. CutInv'
  <2>1. ASSUME NEW o \in cut', row[o].type # "delete"
        PROVE  Pends(row[o]) /\ NewFake.power[row[o].vm] = "none"
    <3>1. o \in Ops /\ row[o].vm \in Vms
      BY <1>1, <2>1, RowFacts DEF LInv, TypeOK
    <3>2. Pends(row[o])
      BY <1>1, <2>1 DEF LInv, CutInv, Unanswered, Pends
    <3> QED  BY <3>1, <3>2, NewFakeType
  <2> QED  BY <1>1, <2>1 DEF CutInv
<1> QED  BY <1>2, <1>3, <1>4 DEF LInv

LEMMA LStart == Init => LInv
<1> SUFFICES ASSUME Init PROVE LInv
  OBVIOUS
<1>1. PICK v \in Vms : row = [o \in Ops |-> [type |-> "create", vm |-> v, status |-> "none",
                                            mark |-> "plain", step |-> "clone", task |-> NoTask]]
  BY DEF Init
<1>2. /\ row \in [Ops -> RowType]
      /\ \A o \in Ops : /\ row[o].status = "none" /\ row[o].type = "create"
                        /\ row[o].step = "clone" /\ row[o].task = NoTask
  BY <1>1 DEF RowType, Types, Commands
<1>3. TypeOK
  BY <1>2, NewFakeType, LocalWorkerAssumption DEF Init, TypeOK
<1>4. sent = [o \in Ops |-> [c \in Commands |-> 0]] /\ call = NoCall /\ cut = {}
  BY DEF Init
<1>5. RowInv
  BY <1>2, <1>4, StepsOfFacts, LaterFacts DEF RowInv, Good, New, Commands
<1> QED  BY <1>2, <1>3, <1>4, <1>5 DEF LInv, OneActive, Active, CallInv, CutInv

LEMMA LStep == LInv /\ [Next]_vars => LInv'
<1> SUFFICES ASSUME LInv, [Next]_vars PROVE LInv'
  OBVIOUS
<1>1. ASSUME NEW o \in Ops, RunOnce(o) PROVE LInv'
  BY <1>1, RunOnceMoves, TransactKeeps, PlacementKeeps
<1>2. ASSUME NEW o \in Ops, NEW v \in Vms, CreateVm(o, v) PROVE LInv'
  <2>1. "create" \in Types
    BY DEF Types
  <2> QED  BY <1>2, <2>1, RequestAsks, AskKeeps
<1>3. ASSUME NEW o \in Ops, NEW v \in Vms, NEW t \in Types, EnqueueVmOperation(o, v, t) PROVE LInv'
  BY <1>3, RequestAsks, AskKeeps
<1>4. CASE UNCHANGED vars
  <2>1. TypeOK'
    BY <1>4 DEF LInv, TypeOK, vars
  <2>2. RowInv' /\ OneActive' /\ CallInv' /\ CutInv'
    BY <1>4 DEF LInv, vars, RowInv, New, OneActive, Active, CallInv, CutInv
  <2> QED  BY <2>1, <2>2 DEF LInv
<1> QED  BY <1>1, <1>2, <1>3, <1>4, CommandKeeps, LoseKeeps, RestartKeeps DEF Next

LEMMA LInvariant == Spec => []LInv
BY LStart, LStep, PTL DEF Spec

\* Rows, calls and the fake have the values the code gives them.
THEOREM TypeCorrect == Spec => []TypeOK
<1>1. LInv => TypeOK
  BY DEF LInv
<1> QED  BY <1>1, LInvariant, PTL

\* A restart is never taken for a result: but for a deletion, whose VM is
\* rightly missing, a command that was cut off leaves its operation open until
\* an operator looks at it (get_vm_power_state of the new fake, reconcile_*).
THEOREM ForgottenStaysOpen == Spec => []ForgottenIsNotConfirmed
<1>1. LInv => ForgottenIsNotConfirmed
  BY DEF LInv, CutInv, Pends, ForgottenIsNotConfirmed, Active
<1> QED  BY <1>1, LInvariant, PTL

-----------------------------------------------------------------------------
(* Every step is one of VmPromise, or none *)

State(o) == IF Active(o) THEN "open" ELSE row[o].status

LEMMA PathFacts ==
  /\ Promise!Path["create"] = <<"pending", "provisioning", "running">>
  /\ Promise!Path["start"] = <<"stopped", "running">>
  /\ Promise!Path["shutdown"] = <<"running", "stopped">>
  /\ Promise!Path["stop"] = <<"running", "stopped">>
  /\ Promise!Path["reboot"] = <<"running", "stopped", "running">>
  /\ Promise!Path["delete"] = <<"stopped", "deleting", "deleted">>
  /\ DOMAIN Promise!Path = Types
BY DEF Promise!Path, Types

LEMMA PlanFacts ==
  /\ Promise!Plan["create"] = << <<"clone", 1>>, <<"configure", 2>>, <<"resize", 2>>, <<"start", 2>> >>
  /\ Promise!Plan["start"] = << <<"start", 1>> >>
  /\ Promise!Plan["shutdown"] = << <<"shutdown", 1>> >>
  /\ Promise!Plan["stop"] = << <<"stop", 1>> >>
  /\ Promise!Plan["reboot"] = << <<"shutdown", 1>>, <<"start", 2>> >>
  /\ Promise!Plan["delete"] = << <<"delete", 2>> >>
BY DEF Promise!Plan

LEMMA SinglePlans ==
  \A t \in {"start", "shutdown", "stop", "delete"} : Len(Promise!Plan[t]) = 1
<1>1. Len(Promise!Plan["start"]) = 1
  BY PlanFacts
<1>2. Len(Promise!Plan["shutdown"]) = 1
  BY PlanFacts
<1>3. Len(Promise!Plan["stop"]) = 1
  BY PlanFacts
<1>4. Len(Promise!Plan["delete"]) = 1
  BY PlanFacts
<1> QED  BY <1>1, <1>2, <1>3, <1>4

LEMMA StutterFact ==
  ASSUME UNCHANGED <<shown, sent>>,
         \A o \in Ops : State(o)' = State(o) /\ row'[o].type = row[o].type /\ row'[o].vm = row[o].vm
  PROVE  UNCHANGED Promise!vars
<1>1. /\ [o \in Ops |-> IF Active(o) THEN "open" ELSE row[o].status]'
            = [o \in Ops |-> IF Active(o) THEN "open" ELSE row[o].status]
      /\ [o \in Ops |-> row[o].type]' = [o \in Ops |-> row[o].type]
      /\ [o \in Ops |-> row[o].vm]' = [o \in Ops |-> row[o].vm]
  BY DEF State
<1> QED  BY <1>1 DEF Promise!vars

LEMMA AskStep ==
  ASSUME LInv, NEW o \in Ops, NEW v \in Vms, NEW t \in Types, Asks(o, v, t)
  PROVE  Promise!Next
<1> DEFINE r == [row[o] EXCEPT !.type = t, !.vm = v, !.status = "pending", !.step = First(t)]
<1>1. /\ row' = [row EXCEPT ![o] = r] /\ row[o].status = "none" /\ UNCHANGED sent
      /\ row \in [Ops -> RowType] /\ shown \in [Vms -> Statuses]
      /\ \A p \in Ops : Active(p) => row[p].vm # v
  BY DEF LInv, TypeOK, Statuses, Asks, history, Set
<1>2. r.type = t /\ r.vm = v /\ r.status = "pending"
  BY <1>1 DEF RowType
<1> HIDE DEF r
<1>3. row'[o] = r /\ \A p \in Ops : p # o => row'[p] = row[p]
  BY <1>1
<1>4. /\ State(o) = "none" /\ State(o)' = "open"
      /\ \A p \in Ops : p # o => State(p)' = State(p)
  BY <1>1, <1>2, <1>3 DEF State, Active
<1>5. /\ [p \in Ops |-> State(p)]' = [[p \in Ops |-> State(p)] EXCEPT ![o] = "open"]
      /\ [p \in Ops |-> row[p].type]' = [[p \in Ops |-> row[p].type] EXCEPT ![o] = t]
      /\ [p \in Ops |-> row[p].vm]' = [[p \in Ops |-> row[p].vm] EXCEPT ![o] = v]
  BY <1>2, <1>3, <1>4
<1>6. Promise!Open(v) = {}
  <2>1. \A p \in Ops : row[p].status # "open"
    BY RowFacts DEF LInv
  <2> QED  BY <1>1, <2>1 DEF Promise!Open, Active
<1>7. /\ shown[v] = IF t = "create" THEN "none" ELSE Promise!Path[t][1]
      /\ shown' = [shown EXCEPT ![v] = Promise!Path[t][1]]
  <2>1. CASE t = "create"
    BY <2>1, PathFacts DEF Asks
  <2>2. CASE t # "create"
    <3>1. Allowed(t) = Promise!Path[t][1]
      BY <2>2, PathFacts DEF Allowed, Types
    <3> QED  BY <1>1, <2>2, <3>1 DEF Asks
  <2> QED  BY <2>1, <2>2
<1>8. Promise!Ask(o, v, t)
  BY <1>1, <1>4, <1>5, <1>6, <1>7 DEF Promise!Ask, State
<1> QED  BY <1>8, PathFacts DEF Promise!Next

\* The VM of an open request goes from place i of the path to the next one.
LEMMA AdvanceFact ==
  ASSUME LInv, NEW o \in Ops, NEW r \in RowType, Active(o), Set(o, r), UNCHANGED sent,
         r.type = row[o].type, r.vm = row[o].vm, NEW i \in {1, 2},
         i \in 1..(Len(Promise!Path[row[o].type]) - 1),
         shown[row[o].vm] = Promise!Path[row[o].type][i],
         Show(o, Promise!Path[row[o].type][i + 1]),
         IF i + 1 = Len(Promise!Path[row[o].type]) THEN r.status = "succeeded"
                                                  ELSE r.status \in {"pending", "processing"}
  PROVE  Promise!Next
<1>1. row'[o] = r /\ \A p \in Ops : p # o => row'[p] = row[p]
  BY DEF LInv, TypeOK, Set
<1>2. /\ State(o) = "open" /\ \A p \in Ops : p # o => State(p)' = State(p)
      /\ [p \in Ops |-> row[p].type]' = [p \in Ops |-> row[p].type]
      /\ [p \in Ops |-> row[p].vm]' = [p \in Ops |-> row[p].vm]
  BY <1>1 DEF State, Active
<1>3. CASE i + 1 = Len(Promise!Path[row[o].type])
  <2>1. State(o)' = "succeeded"
    BY <1>1, <1>3 DEF State, Active
  <2>2. [p \in Ops |-> State(p)]' = [[p \in Ops |-> State(p)] EXCEPT ![o] = "succeeded"]
    BY <1>2, <2>1
  <2>3. Promise!Advance(o, i)
    BY <1>2, <1>3, <2>2 DEF Promise!Advance, Show, State
  <2> QED  BY <2>3 DEF Promise!Next
<1>4. CASE i + 1 # Len(Promise!Path[row[o].type])
  <2>1. State(o)' = "open"
    BY <1>1, <1>4 DEF State, Active
  <2>2. [p \in Ops |-> State(p)]' = [p \in Ops |-> State(p)]
    BY <1>2, <2>1
  <2>3. Promise!Advance(o, i)
    BY <1>2, <1>4, <2>2 DEF Promise!Advance, Show, State
  <2> QED  BY <2>3 DEF Promise!Next
<1> QED  BY <1>3, <1>4

LEMMA FirstAdvance ==
  ASSUME LInv, NEW o \in Ops, NEW r \in RowType, Active(o), Set(o, r), UNCHANGED sent,
         r.type = row[o].type, r.vm = row[o].vm, Len(Promise!Path[row[o].type]) \in {2, 3},
         shown[row[o].vm] = Promise!Path[row[o].type][1],
         Show(o, Promise!Path[row[o].type][2]),
         IF Len(Promise!Path[row[o].type]) = 2 THEN r.status = "succeeded"
                                               ELSE r.status \in {"pending", "processing"}
  PROVE  Promise!Next
<1>1. /\ 1 \in {1, 2} /\ 1 \in 1..(Len(Promise!Path[row[o].type]) - 1) /\ 1 + 1 = 2
      /\ IF 1 + 1 = Len(Promise!Path[row[o].type]) THEN r.status = "succeeded"
                                                   ELSE r.status \in {"pending", "processing"}
  OBVIOUS
<1>2. Show(o, Promise!Path[row[o].type][1 + 1])
  BY <1>1
<1> QED  BY <1>1, <1>2, AdvanceFact

LEMMA LastAdvance ==
  ASSUME LInv, NEW o \in Ops, NEW r \in RowType, Active(o), Set(o, r), UNCHANGED sent,
         r.type = row[o].type, r.vm = row[o].vm, Len(Promise!Path[row[o].type]) = 3,
         shown[row[o].vm] = Promise!Path[row[o].type][2],
         Show(o, Promise!Path[row[o].type][3]), r.status = "succeeded"
  PROVE  Promise!Next
<1>1. /\ 2 \in {1, 2} /\ 2 \in 1..(Len(Promise!Path[row[o].type]) - 1) /\ 2 + 1 = 3
      /\ IF 2 + 1 = Len(Promise!Path[row[o].type]) THEN r.status = "succeeded"
                                                   ELSE r.status \in {"pending", "processing"}
  OBVIOUS
<1>2. Show(o, Promise!Path[row[o].type][2 + 1])
  BY <1>1
<1> QED  BY <1>1, <1>2, AdvanceFact

LEMMA MoveStep ==
  ASSUME LInv, NEW o \in Ops, NEW r \in RowType, NEW status \in Statuses, Moves(o, r, status),
         UNCHANGED sent
  PROVE  Promise!Next \/ UNCHANGED Promise!vars
<1>1. /\ Active(o) /\ r.type = row[o].type /\ r.vm = row[o].vm /\ Set(o, r) /\ Show(o, status)
      /\ row[o].vm \in Vms /\ row[o].type \in Types
  BY RowFacts DEF Moves, LInv
<1>2. row'[o] = r /\ \A p \in Ops : p # o => row'[p] = row[p]
  BY <1>1 DEF LInv, TypeOK, Set
<1>3. CASE r.status \in {"pending", "processing"} /\ status = shown[row[o].vm]
  <2>1. \A p \in Ops : State(p)' = State(p) /\ row'[p].type = row[p].type /\ row'[p].vm = row[p].vm
    BY <1>1, <1>2, <1>3 DEF State, Active
  <2>2. UNCHANGED shown
    BY <1>1, <1>3 DEF Show, LInv, TypeOK
  <2> QED  BY <2>1, <2>2, StutterFact
<1>4. CASE r.status \in {"pending", "processing"} /\ status # shown[row[o].vm]
  <2>1. \/ row[o].type = "create" /\ shown[row[o].vm] = "pending" /\ Show(o, "provisioning")
        \/ row[o].type = "reboot" /\ shown[row[o].vm] = "running" /\ Show(o, "stopped")
        \/ row[o].type = "delete" /\ shown[row[o].vm] = "stopped" /\ Show(o, "deleting")
    BY <1>1, <1>4 DEF Moves, Goes
  <2>2. /\ Len(Promise!Path[row[o].type]) = 3 /\ shown[row[o].vm] = Promise!Path[row[o].type][1]
        /\ Show(o, Promise!Path[row[o].type][2])
    BY <2>1, PathFacts
  <2> QED  BY <1>1, <1>4, <2>2, FirstAdvance
<1>5. CASE r.status = "succeeded" /\ r.type \in {"create", "reboot", "delete"}
  <2>1. \/ row[o].type = "create" /\ shown[row[o].vm] = "provisioning" /\ Show(o, "running")
        \/ row[o].type = "reboot" /\ shown[row[o].vm] = "stopped" /\ Show(o, "running")
        \/ row[o].type = "delete" /\ shown[row[o].vm] = "deleting" /\ Show(o, "deleted")
    BY <1>1, <1>5 DEF Moves, Ends, PowerOff
  <2>2. Len(Promise!Path[row[o].type]) = 3
    BY <2>1, PathFacts
  <2>3. shown[row[o].vm] = Promise!Path[row[o].type][2]
    BY <2>1, PathFacts
  <2>4. Show(o, Promise!Path[row[o].type][3])
    BY <2>1, PathFacts
  <2> QED  BY <1>1, <1>5, <2>2, <2>3, <2>4, LastAdvance
<1>6. CASE r.status = "succeeded" /\ r.type \notin {"create", "reboot", "delete"}
  <2>1. \/ row[o].type = "start" /\ shown[row[o].vm] = "stopped" /\ Show(o, "running")
        \/ row[o].type \in {"shutdown", "stop"} /\ shown[row[o].vm] = "running" /\ Show(o, "stopped")
    BY <1>1, <1>6 DEF Moves, Ends, PowerOff
  <2>2. Len(Promise!Path[row[o].type]) = 2
    BY <2>1, PathFacts
  <2>3. shown[row[o].vm] = Promise!Path[row[o].type][1]
    BY <2>1, PathFacts
  <2>4. Show(o, Promise!Path[row[o].type][2])
    BY <2>1, PathFacts
  <2> QED  BY <1>1, <1>6, <2>2, <2>3, <2>4, FirstAdvance
<1> QED  BY <1>3, <1>4, <1>5, <1>6 DEF Moves

\* A command is called for the step of its row, and for the first time.
LEMMA FirstSending ==
  ASSUME LInv, Command
  PROVE  sent' = [sent EXCEPT ![call.op][row[call.op].step] = 1]
<1>1. /\ call.cmd = row[call.op].step /\ sent[call.op][call.cmd] = 0
      /\ sent' = [sent EXCEPT ![call.op][call.cmd] = sent[call.op][call.cmd] + 1]
  BY DEF Command, LInv, CallInv
<1>2. 0 + 1 = 1
  OBVIOUS
<1> QED  BY <1>1, <1>2

\* Step i of the plan is the one the row is in, and nothing later was sent.
LEMMA SendFact ==
  ASSUME LInv, Command, NEW o \in Ops, o = call.op, NEW i \in 1..Len(Promise!Plan[row[o].type]),
         Promise!Plan[row[o].type][i][1] = row[o].step,
         shown[row[o].vm] = Promise!Path[row[o].type][Promise!Plan[row[o].type][i][2]],
         \A j \in i..Len(Promise!Plan[row[o].type]) : sent[o][Promise!Plan[row[o].type][j][1]] = 0
  PROVE  Promise!Next
<1>1. Pends(row[o]) /\ UNCHANGED <<row, shown>>
  BY DEF Command, LInv, CallInv
<1>2. sent' = [sent EXCEPT ![o][row[o].step] = 1]
  BY FirstSending
<1>3. UNCHANGED <<[p \in Ops |-> IF Active(p) THEN "open" ELSE row[p].status],
                  [p \in Ops |-> row[p].type], [p \in Ops |-> row[p].vm]>>
  BY <1>1 DEF Active
<1>4. Active(o)
  BY <1>1 DEF Active, Pends
<1>5. Promise!Send(o, i)
  BY <1>1, <1>2, <1>3, <1>4 DEF Promise!Send
<1> QED  BY <1>5 DEF Promise!Next

LEMMA SendStep == ASSUME LInv, Command PROVE Promise!Next
<1>1. PICK o \in Ops : o = call.op
  BY CallFacts DEF Command, LInv
<1>2. /\ row[o].status = "processing" /\ row[o].task = NoTask /\ sent[o][row[o].step] = 0 /\ RowInv
  BY <1>1 DEF Command, LInv, CallInv, Pends
<1>3. Shows(row[o], shown[row[o].vm]) /\ \A c \in Later[row[o].step] : sent[o][c] = 0
  BY <1>2 DEF RowInv, Good
<1>4. CASE row[o].type = "create"
  <2>1. Len(Promise!Plan[row[o].type]) = 4
    BY <1>4, PlanFacts
  <2>2. CASE row[o].step = "clone"
    <3>1. shown[row[o].vm] = "pending"
      BY <1>2, <1>3, <1>4, <2>2 DEF Shows
    <3>2. sent[o]["clone"] = 0 /\ sent[o]["configure"] = 0 /\ sent[o]["resize"] = 0 /\ sent[o]["start"] = 0
      BY <1>2, <1>3, <2>2, LaterFacts
    <3>3. \A j \in 1..4 : sent[o][Promise!Plan[row[o].type][j][1]] = 0
      BY <1>4, <3>2, PlanFacts
    <3>4. /\ Promise!Plan[row[o].type][1][1] = row[o].step
          /\ shown[row[o].vm] = Promise!Path[row[o].type][Promise!Plan[row[o].type][1][2]]
      BY <1>4, <2>2, <3>1, PlanFacts, PathFacts
    <3>5. /\ 1 \in 1..Len(Promise!Plan[row[o].type])
          /\ \A j \in 1..Len(Promise!Plan[row[o].type]) : sent[o][Promise!Plan[row[o].type][j][1]] = 0
      BY <2>1, <3>3
    <3> QED  BY <1>1, <3>4, <3>5, SendFact
  <2>3. CASE row[o].step = "configure"
    <3>1. shown[row[o].vm] = "provisioning"
      BY <1>2, <1>3, <1>4, <2>3 DEF Shows
    <3>2. sent[o]["configure"] = 0 /\ sent[o]["resize"] = 0 /\ sent[o]["start"] = 0
      BY <1>2, <1>3, <2>3, LaterFacts
    <3>3. \A j \in 2..4 : sent[o][Promise!Plan[row[o].type][j][1]] = 0
      BY <1>4, <3>2, PlanFacts
    <3>4. /\ Promise!Plan[row[o].type][2][1] = row[o].step
          /\ shown[row[o].vm] = Promise!Path[row[o].type][Promise!Plan[row[o].type][2][2]]
      BY <1>4, <2>3, <3>1, PlanFacts, PathFacts
    <3>5. /\ 2 \in 1..Len(Promise!Plan[row[o].type])
          /\ \A j \in 2..Len(Promise!Plan[row[o].type]) : sent[o][Promise!Plan[row[o].type][j][1]] = 0
      BY <2>1, <3>3
    <3> QED  BY <1>1, <3>4, <3>5, SendFact
  <2>4. CASE row[o].step = "resize"
    <3>1. shown[row[o].vm] = "provisioning"
      BY <1>2, <1>3, <1>4, <2>4 DEF Shows
    <3>2. sent[o]["resize"] = 0 /\ sent[o]["start"] = 0
      BY <1>2, <1>3, <2>4, LaterFacts
    <3>3. \A j \in 3..4 : sent[o][Promise!Plan[row[o].type][j][1]] = 0
      BY <1>4, <3>2, PlanFacts
    <3>4. /\ Promise!Plan[row[o].type][3][1] = row[o].step
          /\ shown[row[o].vm] = Promise!Path[row[o].type][Promise!Plan[row[o].type][3][2]]
      BY <1>4, <2>4, <3>1, PlanFacts, PathFacts
    <3>5. /\ 3 \in 1..Len(Promise!Plan[row[o].type])
          /\ \A j \in 3..Len(Promise!Plan[row[o].type]) : sent[o][Promise!Plan[row[o].type][j][1]] = 0
      BY <2>1, <3>3
    <3> QED  BY <1>1, <3>4, <3>5, SendFact
  <2>5. CASE row[o].step = "start"
    <3>1. shown[row[o].vm] = "provisioning"
      BY <1>2, <1>3, <1>4, <2>5 DEF Shows
    <3>2. sent[o]["start"] = 0
      BY <1>2, <1>3, <2>5, LaterFacts
    <3>3. \A j \in 4..4 : sent[o][Promise!Plan[row[o].type][j][1]] = 0
      BY <1>4, <3>2, PlanFacts
    <3>4. /\ Promise!Plan[row[o].type][4][1] = row[o].step
          /\ shown[row[o].vm] = Promise!Path[row[o].type][Promise!Plan[row[o].type][4][2]]
      BY <1>4, <2>5, <3>1, PlanFacts, PathFacts
    <3>5. /\ 4 \in 1..Len(Promise!Plan[row[o].type])
          /\ \A j \in 4..Len(Promise!Plan[row[o].type]) : sent[o][Promise!Plan[row[o].type][j][1]] = 0
      BY <2>1, <3>3
    <3> QED  BY <1>1, <3>4, <3>5, SendFact
  <2> QED  BY <1>2, <1>4, <2>2, <2>3, <2>4, <2>5, TypeSteps
<1>5. CASE row[o].type = "reboot"
  <2>1. Len(Promise!Plan[row[o].type]) = 2
    BY <1>5, PlanFacts
  <2>2. CASE row[o].step = "shutdown"
    <3>1. shown[row[o].vm] = "running"
      BY <1>2, <1>3, <1>5, <2>2 DEF Shows, PowerOff
    <3>2. sent[o]["shutdown"] = 0 /\ sent[o]["start"] = 0
      BY <1>2, <1>3, <2>2, LaterFacts
    <3>3. \A j \in 1..2 : sent[o][Promise!Plan[row[o].type][j][1]] = 0
      BY <1>5, <3>2, PlanFacts
    <3>4. /\ Promise!Plan[row[o].type][1][1] = row[o].step
          /\ shown[row[o].vm] = Promise!Path[row[o].type][Promise!Plan[row[o].type][1][2]]
      BY <1>5, <2>2, <3>1, PlanFacts, PathFacts
    <3>5. /\ 1 \in 1..Len(Promise!Plan[row[o].type])
          /\ \A j \in 1..Len(Promise!Plan[row[o].type]) : sent[o][Promise!Plan[row[o].type][j][1]] = 0
      BY <2>1, <3>3
    <3> QED  BY <1>1, <3>4, <3>5, SendFact
  <2>3. CASE row[o].step = "start"
    <3>1. shown[row[o].vm] = "stopped"
      BY <1>2, <1>3, <1>5, <2>3 DEF Shows, PowerOff
    <3>2. sent[o]["start"] = 0
      BY <1>2, <1>3, <2>3, LaterFacts
    <3>3. \A j \in 2..2 : sent[o][Promise!Plan[row[o].type][j][1]] = 0
      BY <1>5, <3>2, PlanFacts
    <3>4. /\ Promise!Plan[row[o].type][2][1] = row[o].step
          /\ shown[row[o].vm] = Promise!Path[row[o].type][Promise!Plan[row[o].type][2][2]]
      BY <1>5, <2>3, <3>1, PlanFacts, PathFacts
    <3>5. /\ 2 \in 1..Len(Promise!Plan[row[o].type])
          /\ \A j \in 2..Len(Promise!Plan[row[o].type]) : sent[o][Promise!Plan[row[o].type][j][1]] = 0
      BY <2>1, <3>3
    <3> QED  BY <1>1, <3>4, <3>5, SendFact
  <2> QED  BY <1>2, <1>5, <2>2, <2>3, TypeSteps
<1>6. CASE row[o].type \in {"start", "shutdown", "stop", "delete"}
  <2>1. row[o].step = row[o].type /\ Len(Promise!Plan[row[o].type]) = 1
    <3>1. row[o].step = row[o].type
      BY <1>2, <1>6, TypeSteps
    <3>2. Len(Promise!Plan[row[o].type]) = 1
      BY <1>6, SinglePlans
    <3> QED  BY <3>1, <3>2
  <2>2. /\ Promise!Plan[row[o].type][1][1] = row[o].step
        /\ shown[row[o].vm] = Promise!Path[row[o].type][Promise!Plan[row[o].type][1][2]]
    BY <1>2, <1>3, <1>6, <2>1, PlanFacts, PathFacts DEF Shows, PowerOff
  <2>3. \A j \in 1..1 : sent[o][Promise!Plan[row[o].type][j][1]] = 0
    BY <1>2, <2>2
  <2>4. /\ 1 \in 1..Len(Promise!Plan[row[o].type])
        /\ \A j \in 1..Len(Promise!Plan[row[o].type]) : sent[o][Promise!Plan[row[o].type][j][1]] = 0
    BY <2>1, <2>3
  <2> QED  BY <1>1, <2>2, <2>4, SendFact
<1> QED  BY <1>2, <1>4, <1>5, <1>6, TypeSteps

LEMMA PromiseStart == Init => Promise!Init
<1> SUFFICES ASSUME Init PROVE Promise!Init
  OBVIOUS
<1>1. PICK v \in Vms : row = [o \in Ops |-> [type |-> "create", vm |-> v, status |-> "none",
                                            mark |-> "plain", step |-> "clone", task |-> NoTask]]
  BY DEF Init
<1>2. \A o \in Ops : State(o) = "none" /\ row[o].type = "create" /\ row[o].vm = v
  BY <1>1 DEF State, Active
<1>3. /\ [o \in Ops |-> State(o)] = [o \in Ops |-> "none"]
      /\ [o \in Ops |-> row[o].type] \in [Ops -> DOMAIN Promise!Path]
      /\ [o \in Ops |-> row[o].vm] \in [Ops -> Vms]
  BY <1>2, PathFacts DEF Types
<1>4. Promise!Commands = Commands
  BY DEF Promise!Commands, Commands
<1> QED  BY <1>3, <1>4 DEF Promise!Init, Init, State

LEMMA StepIsPromised == LInv /\ [Next]_vars => [Promise!Next]_(Promise!vars)
<1> SUFFICES ASSUME LInv, [Next]_vars PROVE Promise!Next \/ UNCHANGED Promise!vars
  OBVIOUS
<1>1. ASSUME NEW o \in Ops, RunOnce(o) PROVE Promise!Next \/ UNCHANGED Promise!vars
  <2>1. CASE ChoosePlacement(o)
    BY <2>1, StutterFact DEF ChoosePlacement, history, State, Active
  <2>2. CASE Transacts(o)
    BY <2>2, MoveStep DEF Transacts, history
  <2> QED  BY <1>1, <2>1, <2>2, RunOnceMoves
<1>2. ASSUME NEW o \in Ops, NEW v \in Vms, CreateVm(o, v) PROVE Promise!Next
  <2>1. "create" \in Types
    BY DEF Types
  <2> QED  BY <1>2, <2>1, RequestAsks, AskStep
<1>3. ASSUME NEW o \in Ops, NEW v \in Vms, NEW t \in Types, EnqueueVmOperation(o, v, t)
      PROVE  Promise!Next
  BY <1>3, RequestAsks, AskStep
<1>4. CASE LoseResult \/ Restart \/ UNCHANGED vars
  BY <1>4, StutterFact DEF LoseResult, Restart, vars, history, State, Active
<1> QED  BY <1>1, <1>2, <1>3, <1>4, SendStep DEF Next

\* The worker with the fake adapter implements VmPromise: restarts, lost
\* results and reconciliation are invisible in the statuses and the commands.
THEOREM LocalKeepsPromise == Spec => PromiseKept
BY LInvariant, StepIsPromised, PromiseStart, PTL DEF Spec, PromiseKept, Promise!Spec
=============================================================================
