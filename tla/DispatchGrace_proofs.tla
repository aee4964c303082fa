------------------------ MODULE DispatchGrace_proofs ------------------------
(***************************************************************************)
(* A command whose requests fit into DISPATCH_GRACE together is never      *)
(* taken for cut off while it runs, whatever the settings.                 *)
(***************************************************************************)
EXTENDS DispatchGrace, TLAPS

\* The time the waits of a command can take together is below the grace.
Fits == LastWait * Timeout < Grace

IInv == TypeOK /\ RunningCallIsNotCut /\ AgeWithinWaits

\* Waiting in full for the first waits of a command, and for part of the next,
\* stays below the grace period.
LEMMA WaitsBelowGrace ==
    ASSUME Fits, NEW c \in 1..LastWait, NEW t \in 0..Timeout
    PROVE  (c - 1) * Timeout + t < Grace
  <1>1. LastWait \in Nat /\ Timeout \in Nat /\ Grace \in Nat /\ c \in Nat /\ t \in Nat
    BY TimesAssumption DEF LastWait
  <1>2. (c - 1) * Timeout + t <= c * Timeout
    BY <1>1
  <1>3. PICK d \in Nat : LastWait = c + d
    <2>1. LastWait - c \in Nat /\ LastWait = c + (LastWait - c)
      BY <1>1
    <2>2. QED
      BY <2>1
  <1>4. LastWait * Timeout = c * Timeout + d * Timeout
    BY <1>1, <1>3
  <1>5. d * Timeout \in Nat
    BY <1>1, <1>3
  <1>6. c * Timeout \in Nat /\ (c - 1) * Timeout \in Nat
    BY <1>1
  <1>7. c * Timeout <= LastWait * Timeout
    BY <1>4, <1>5, <1>6
  <1>8. QED
    BY <1>1, <1>2, <1>6, <1>7 DEF Fits

\* The inductive invariant: the marker is as old as the waits so far can have
\* made it, so a running command keeps it.
LEMMA Inductive == Fits => (Spec => []IInv)
  <1>1. SUFFICES ASSUME Fits PROVE Spec => []IInv
    OBVIOUS
  <1>2. Timeout \in Nat \ {0} /\ Grace \in Nat \ {0} /\ Delay \in Nat \ {0} /\ LastWait \in Nat \ {0}
    BY TimesAssumption DEF LastWait
  <1>3. Init => IInv
    BY <1>2 DEF Init, IInv, TypeOK, RunningCallIsNotCut, AgeWithinWaits
  <1>4. IInv /\ [Next]_vars => IInv'
    <2>1. SUFFICES ASSUME IInv, [Next]_vars PROVE IInv'
      OBVIOUS
    <2>2. TypeOK /\ RunningCallIsNotCut /\ AgeWithinWaits
      BY <2>1 DEF IInv
    <2>3. call # 0 => age < Grace
      BY <2>2, <1>1, <1>2, WaitsBelowGrace DEF TypeOK, AgeWithinWaits
    <2>4. CASE Tick
      <3>1. TypeOK' /\ RunningCallIsNotCut'
        BY <2>2, <2>4, <1>2 DEF Tick, TypeOK, RunningCallIsNotCut
      <3>2. AgeWithinWaits'
        <4>1. (call - 1) * Timeout \in Int
          BY <2>2, <1>2 DEF TypeOK
        <4>2. QED
          BY <2>2, <2>4, <1>2, <4>1 DEF Tick, TypeOK, AgeWithinWaits
      <3>3. QED
        BY <3>1, <3>2 DEF IInv
    <2>5. CASE Prepare
      BY <2>2, <2>5, <1>2 DEF Prepare, IInv, TypeOK, RunningCallIsNotCut, AgeWithinWaits
    <2>6. CASE NextWait
      <3>1. TypeOK' /\ RunningCallIsNotCut'
        BY <2>2, <2>6, <1>2 DEF NextWait, TypeOK, RunningCallIsNotCut
      <3>2. call \in Nat /\ call # 0 /\ call' = call + 1 /\ waited' = 0 /\ age' = age
        BY <2>6, <1>2 DEF NextWait
      <3>3. (call - 1) * Timeout + Timeout = call * Timeout
        BY <3>2, <1>2
      <3>4. age <= call * Timeout
        <4>1. age <= (call - 1) * Timeout + waited /\ waited <= Timeout
          BY <2>2, <3>2, <1>2 DEF AgeWithinWaits, TypeOK
        <4>2. (call - 1) * Timeout \in Int /\ call * Timeout \in Int /\ age \in Int /\ waited \in Int
          BY <2>2, <3>2, <1>2 DEF TypeOK
        <4>3. QED
          BY <4>1, <4>2, <3>3, <1>2
      <3>5. AgeWithinWaits'
        BY <3>2, <3>4, <1>2 DEF AgeWithinWaits
      <3>6. QED
        BY <3>1, <3>5 DEF IInv
    <2>7. CASE Crash
      BY <2>2, <2>7, <1>2 DEF Crash, IInv, TypeOK, RunningCallIsNotCut, AgeWithinWaits
    <2>8. ASSUME NEW m \in {"ready", "reconcile"}, Return(m) PROVE IInv'
      BY <2>2, <2>8, <1>2 DEF Return, IInv, TypeOK, RunningCallIsNotCut, AgeWithinWaits
    <2>9. ASSUME NEW m \in {"ready", "reconcile"}, Reconcile(m) PROVE IInv'
      BY <2>2, <2>3, <2>9, <1>2 DEF Reconcile, Due, IInv, TypeOK, RunningCallIsNotCut, AgeWithinWaits
    <2>10. CASE UNCHANGED vars
      BY <2>2, <2>10 DEF vars, IInv, TypeOK, RunningCallIsNotCut, AgeWithinWaits
    <2>11. QED
      BY <2>1, <2>4, <2>5, <2>6, <2>7, <2>8, <2>9, <2>10 DEF Next
  <1>5. QED
    BY <1>3, <1>4, PTL DEF Spec

\* If all waits of the longest command fit into DISPATCH_GRACE, the row of a
\* running command is never taken up by another worker (OperationWorker's
\* GraceCoversCall); run GraceLongest shows that the settings do not ensure it.
THEOREM GraceCoversEveryCall == Fits => (Spec => []RunningCallIsNotCut)
  <1>1. IInv => RunningCallIsNotCut
    BY DEF IInv
  <1>2. QED
    BY <1>1, Inductive, PTL
=============================================================================
