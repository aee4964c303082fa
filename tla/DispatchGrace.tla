---------------------------- MODULE DispatchGrace ----------------------------
(***************************************************************************)
(* The clock behind OperationWorker's GraceCoversCall.  A dispatch marker  *)
(* is committed with updated_at = now; the command then makes up to        *)
(* Requests HTTP requests one after the other (client.py, http_adapter.py),*)
(* and the HTTP client (external) applies proxmox_timeout_seconds to every *)
(* wait of every request, not to the command.  Another worker takes the    *)
(* row up once the marker is DISPATCH_GRACE old, a reconcile_* row again   *)
(* every RECONCILE_DELAY.  One unit of time is one second; time passes in  *)
(* Tick, and everything else is immediate.                                 *)
(***************************************************************************)
EXTENDS Integers

CONSTANTS
    Timeout,   \* proxmox_timeout_seconds
    Requests,  \* requests of the longest command
    Waits,     \* bounded waits of one request: connect, write, read
    Grace,     \* DISPATCH_GRACE
    Delay      \* RECONCILE_DELAY

ASSUME TimesAssumption ==
    /\ Timeout \in Nat \ {0} /\ Requests \in Nat \ {0} /\ Waits \in Nat \ {0}
    /\ Grace \in Nat \ {0} /\ Delay \in Nat \ {0}
    /\ Delay <= Grace

VARIABLES
    marker,  \* the row's marker, as far as time matters
    age,     \* now - updated_at, no longer counted beyond Grace
    call,    \* the wait the command is in, 0 when no command is running
    waited   \* time spent in that wait

vars == <<marker, age, call, waited>>

\* Waits of the longest command.
LastWait == Requests * Waits

TypeOK ==
    /\ marker \in {"ready", "dispatch", "reconcile"}
    /\ age \in 0..Grace
    /\ call \in 0..LastWait
    /\ waited \in 0..Timeout

Init == marker = "ready" /\ age = 0 /\ call = 0 /\ waited = 0

\* A wait that has used up its timeout cannot go on.
Tick ==
    /\ call = 0 \/ waited < Timeout
    /\ age' = IF age < Grace THEN age + 1 ELSE age
    /\ waited' = IF call = 0 THEN 0 ELSE waited + 1
    /\ UNCHANGED <<marker, call>>

\* Transaction A commits the marker, then the first request starts.
Prepare ==
    /\ marker = "ready"
    /\ marker' = "dispatch" /\ age' = 0
    /\ call' = 1 /\ waited' = 0

\* A wait ends in time and the next one begins.
NextWait ==
    /\ call \in 1..(LastWait - 1)
    /\ call' = call + 1 /\ waited' = 0
    /\ UNCHANGED <<marker, age>>

\* The command answers or raises, and transaction B keeps its result if the
\* row still has the marker.
Return(m) ==
    /\ call # 0
    /\ call' = 0 /\ waited' = 0
    /\ marker' = IF marker = "dispatch" THEN m ELSE marker
    /\ age' = IF marker = "dispatch" THEN 0 ELSE age

\* The process dies, or transaction B fails.
Crash ==
    /\ call # 0
    /\ call' = 0 /\ waited' = 0
    /\ UNCHANGED <<marker, age>>

\* Mutated: dispatch_* is taken up as soon as reconcile_*.
DueAfterDelay == marker # "ready" /\ age >= Delay

\* run_once selects the row for a read of the VM's state.
Due ==
    \/ marker = "dispatch" /\ age >= Grace
    \/ marker = "reconcile" /\ age >= Delay

\* The step is found done, or its outcome stays unknown.
Reconcile(m) ==
    /\ Due
    /\ marker' = m /\ age' = 0
    /\ UNCHANGED <<call, waited>>

Next ==
    \/ Tick \/ Prepare \/ NextWait \/ Crash
    \/ \E m \in {"ready", "reconcile"} : Return(m) \/ Reconcile(m)

Spec == Init /\ [][Next]_vars

-----------------------------------------------------------------------------
(* Properties *)

\* While the first call is still running, no other worker takes it for cut
\* off: its row keeps the dispatch marker until the call has ended.
RunningCallIsNotCut == call # 0 => marker = "dispatch"

\* The time already spent is what the waits so far can have taken.
AgeWithinWaits ==
    call # 0 => call >= 1 /\ age <= (call - 1) * Timeout + waited
=============================================================================
