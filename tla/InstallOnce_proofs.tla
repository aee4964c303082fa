------------------------- MODULE InstallOnce_proofs -------------------------
(***************************************************************************)
(* InstallOnce for any number of authorizations, nodes and boots: a flag   *)
(* is moved away only when it was served itself, and it reinstalls its     *)
(* node once, until its own watcher reaches its time limit, or lost a race *)
(* and another one reached it.  Nobody acts within the second a script or  *)
(* a round of a watcher takes ("hasty" is not in World).                   *)
(*                                                                         *)
(* The argument: what a watcher has not read yet is of flags that were     *)
(* served since (LogInv).  A flag that was served is still ahead of a      *)
(* watcher that will not die before it gets there (SeenInv): of two        *)
(* watchers that race for a flag the slower one dies, but the faster one   *)
(* has every later line ahead of it, too (SameLine).                       *)
(***************************************************************************)
EXTENDS InstallOnce, TLAPS

Live(w) == watcher[w] \in {"loop", "read", "line", "move"}

Handles(w) == watcher[w] \in {"line", "move"}

\* Another watcher was faster: its mv will fail.
Doomed(w) == watcher[w] = "move" /\ flag[log[line[w]]] = NoAuth

\* It gets through the line it handles, and to what follows.
Goes(w) == Live(w) /\ ~Doomed(w)

\* The next line of the log that watcher w looks at.
Ahead(w) == IF Handles(w) THEN line[w] ELSE offset[w] + 1

\* Watcher w will come across a line of node m.
Sees(w, m) == Live(w) /\ \E p \in 1..Len(log) : p >= Ahead(w) /\ log[p] = m

Expired == \E w \in Auths : watcher[w] = "expired"

\* Where watcher w stands in the log.
Placed(w) ==
    /\ offset[w] <= Len(log)
    /\ watcher[w] \in {"read", "line", "move"} => offset[w] <= size[w] /\ size[w] <= Len(log)
    /\ Handles(w) => /\ offset[w] < line[w] /\ line[w] <= end[w]
                     /\ end[w] <= Len(log) /\ size[w] <= end[w]

PlaceInv == \A w \in Auths : Placed(w)

\* A flag was made by a script.
FlagInv == \A m \in Macs : flag[m] # NoAuth => script[flag[m]] # "idle"

\* A script starts its watcher last, and its flags are served after that.
ScriptInv ==
    \A c \in Auths :
        /\ script[c] = "done" <=> watcher[c] # "off"
        /\ \A m \in Macs : installs[c][m] > 0 => watcher[c] \notin {"off", "starting"}

\* Line i, which watcher w has not read to its end: the flag of its node was
\* served itself, no script is about to make one, and it is the only line of
\* that node which w has not read.
Fresh(w, i) ==
    /\ flag[log[i]] # NoAuth => installs[flag[log[i]]][log[i]] >= 1
    /\ \A c \in Auths : log[i] \notin todo[c]
    /\ \A j \in 1..Len(log) : j > offset[w] /\ log[j] = log[i] => j = i

LogInv == \A w \in Auths : Live(w) => \A i \in 1..Len(log) : i > offset[w] => Fresh(w, i)

\* Once there was a watcher, one goes on until a time limit ends it.
WatchInv ==
    (\E w \in Auths : watcher[w] # "off") =>
        Expired \/ \E w \in Auths : watcher[w] = "starting" \/ Goes(w)

\* The flag of m is ahead of a watcher that goes on, and of its own one if
\* that lives.
Followed(m) ==
    /\ Expired \/ \E w \in Auths : Goes(w) /\ Sees(w, m)
    /\ Live(flag[m]) => Sees(flag[m], m)

Served(m) == flag[m] # NoAuth /\ installs[flag[m]][m] >= 1

SeenInv == \A m \in Macs : Served(m) => Followed(m)

IInv == TypeOK /\ PlaceInv /\ FlagInv /\ ScriptInv /\ LogInv /\ WatchInv /\ SeenInv

-----------------------------------------------------------------------------
(* Types and places *)

LEMMA TypeStart == Init => TypeOK
BY DEF Init, TypeOK, Gone

Labels == Gone \cup {"starting", "loop", "read", "line", "move"}

LEMMA RoundType ==
  ASSUME TypeOK, NEW a \in Auths, NextRound(a) \/ (Goto(a, "line") /\ UNCHANGED offset)
  PROVE  offset' \in [Auths -> Nat] /\ watcher' \in [Auths -> Labels]
<1>1. CASE NextRound(a)
  BY <1>1 DEF NextRound, Goto, TypeOK, Labels
<1>2. CASE Goto(a, "line") /\ UNCHANGED offset
  BY <1>2 DEF Goto, TypeOK, Labels
<1> QED  BY <1>1, <1>2

LEMMA DropType ==
  ASSUME TypeOK, NEW a \in Auths, DropLine(a)
  PROVE  /\ offset' \in [Auths -> Nat] /\ watcher' \in [Auths -> Labels]
         /\ line' \in [Auths -> Nat] /\ end' \in [Auths -> Nat]
<1>1. line' \in [Auths -> Nat] /\ end' \in [Auths -> Nat]
  BY DEF DropLine, TypeOK
<1>2. NextRound(a) \/ (Goto(a, "line") /\ UNCHANGED offset)
  BY DEF DropLine
<1> QED  BY <1>1, <1>2, RoundType

\* The two ways the mv of watcher a goes.
Takes(a) ==
    /\ watcher[a] = "move" /\ flag[log[line[a]]] # NoAuth
    /\ flag' = [flag EXCEPT ![log[line[a]]] = NoAuth]
    /\ moved' = moved \cup {<<flag[log[line[a]]], log[line[a]]>>}
    /\ DropLine(a)

Dies(a) ==
    /\ Doomed(a) /\ Goto(a, "dead")
    /\ UNCHANGED <<flag, moved, offset, line, end>>

LEMMA MoveCases == ASSUME NEW a \in Auths, Move(a) PROVE Takes(a) \/ Dies(a)
BY DEF Move, Takes, Dies, Doomed

LEMMA LineInHand ==
  ASSUME TypeOK, PlaceInv, NEW a \in Auths, Handles(a)
  PROVE  line[a] \in 1..Len(log) /\ log[line[a]] \in Macs /\ end[a] \in 1..Len(log)
BY DEF TypeOK, PlaceInv, Placed, Handles

\* What a boot does.
Booted(m) ==
    /\ flag[m] \in Auths
    /\ "hasty" \notin World => script[flag[m]] # "flags"
    /\ Len(log) \in Nat /\ Len(log') = Len(log) + 1 /\ log'[Len(log) + 1] = m
    /\ \A i \in 1..Len(log) : log'[i] = log[i]
    /\ installs' \in [Auths -> [Macs -> Nat]] /\ installs[flag[m]][m] \in Nat
    /\ installs'[flag[m]][m] = installs[flag[m]][m] + 1
    /\ \A c \in Auths, n \in Macs : c # flag[m] \/ n # m => installs'[c][n] = installs[c][n]
    /\ UNCHANGED <<script, todo, flag, watcher, offset, size, line, end, moved>>

LEMMA BootFacts == ASSUME TypeOK, NEW m \in Macs, Boot(m) PROVE Booted(m)
<1>1. log' = Append(log, m) /\ log \in Seq(Macs)
  BY DEF Boot, TypeOK
<1>2. Len(log) \in Nat /\ Len(log') = Len(log) + 1 /\ log'[Len(log) + 1] = m
      /\ \A i \in 1..Len(log) : log'[i] = log[i]
  BY <1>1
<1>3. flag[m] \in Auths /\ installs' = [installs EXCEPT ![flag[m]][m] = @ + 1]
  BY DEF Boot, TypeOK
<1>4. /\ installs' \in [Auths -> [Macs -> Nat]] /\ installs[flag[m]][m] \in Nat
      /\ installs'[flag[m]][m] = installs[flag[m]][m] + 1
      /\ \A c \in Auths, n \in Macs : c # flag[m] \/ n # m => installs'[c][n] = installs[c][n]
  BY <1>3 DEF TypeOK
<1>5. "hasty" \notin World => script[flag[m]] # "flags"
  BY <1>3 DEF Boot, Patient, Settled
<1>6. UNCHANGED <<script, todo, flag, watcher, offset, size, line, end, moved>>
  BY DEF Boot, mine
<1> QED  BY <1>2, <1>3, <1>4, <1>5, <1>6 DEF Booted

LEMMA TypeStep == TypeOK /\ PlaceInv /\ [Next]_vars => TypeOK'
<1> SUFFICES ASSUME TypeOK, PlaceInv, [Next]_vars PROVE TypeOK'
  OBVIOUS
<1> USE DEF TypeOK, Gone, mine, Goto
<1>1. ASSUME NEW a \in Auths, NEW ms \in SUBSET Macs, Authorize(a, ms) PROVE TypeOK'
  BY <1>1 DEF Authorize
<1>2. ASSUME NEW a \in Auths, NEW m \in Macs, CreateFlag(a, m) PROVE TypeOK'
  BY <1>2 DEF CreateFlag
<1>3. ASSUME NEW a \in Auths, StartWatcher(a) PROVE TypeOK'
  BY <1>3 DEF StartWatcher
<1>4. ASSUME NEW a \in Auths, Snapshot(a) PROVE TypeOK'
  <2>1. offset' \in [Auths -> Nat]
    BY <1>4 DEF Snapshot
  <2> QED  BY <1>4, <2>1 DEF Snapshot
<1>5. ASSUME NEW a \in Auths, Measure(a) PROVE TypeOK'
  <2>1. size' \in [Auths -> Nat]
    BY <1>5 DEF Measure
  <2> QED  BY <1>5, <2>1 DEF Measure
<1>6. ASSUME NEW a \in Auths, Read(a) PROVE TypeOK'
  <2>1. line' \in [Auths -> Nat] /\ end' \in [Auths -> Nat]
    BY <1>6 DEF Read
  <2>2. NextRound(a) \/ (Goto(a, "line") /\ UNCHANGED offset)
    BY <1>6 DEF Read
  <2>3. offset' \in [Auths -> Nat] /\ watcher' \in [Auths -> Labels]
    BY <2>2, RoundType
  <2>4. UNCHANGED <<script, todo, flag, log, size, installs, moved>>
    BY <1>6 DEF Read
  <2> QED  BY <2>1, <2>3, <2>4 DEF Labels
<1>7. ASSUME NEW a \in Auths, TestFlag(a) PROVE TypeOK'
  <2>1. UNCHANGED <<script, todo, flag, log, size, installs, moved>>
    BY <1>7 DEF TestFlag
  <2>2. CASE DropLine(a)
    BY <2>1, <2>2, DropType DEF Labels
  <2>3. CASE Goto(a, "move") /\ UNCHANGED <<offset, line, end>>
    BY <2>1, <2>3
  <2> QED  BY <1>7, <2>2, <2>3 DEF TestFlag
<1>8. ASSUME NEW a \in Auths, Move(a) PROVE TypeOK'
  <2>1. UNCHANGED <<script, todo, log, size, installs>>
    BY <1>8 DEF Move
  <2>2. CASE Takes(a)
    <3>1. log[line[a]] \in Macs /\ flag[log[line[a]]] \in Auths
      BY <2>2, LineInHand DEF Takes, Handles
    <3>2. moved' \subseteq Auths \X Macs
      <4>1. <<flag[log[line[a]]], log[line[a]]>> \in Auths \X Macs
        BY <3>1
      <4>2. moved' = moved \cup {<<flag[log[line[a]]], log[line[a]]>>} /\ moved \subseteq Auths \X Macs
        BY <2>2 DEF Takes
      <4> HIDE DEF TypeOK
      <4> QED  BY <4>1, <4>2
    <3>3. flag' \in [Macs -> Auths \cup {NoAuth}]
      BY <2>2 DEF Takes
    <3> QED  BY <2>1, <2>2, <3>2, <3>3, DropType DEF Takes, Labels
  <2>3. CASE Dies(a)
    BY <2>1, <2>3 DEF Dies
  <2> QED  BY <1>8, <2>2, <2>3, MoveCases
<1>9. ASSUME NEW a \in Auths, Expire(a) PROVE TypeOK'
  BY <1>9 DEF Expire
<1>10. ASSUME NEW m \in Macs, Boot(m) PROVE TypeOK'
  <2>1. log' \in Seq(Macs)
    BY <1>10 DEF Boot
  <2>2. installs' \in [Auths -> [Macs -> Nat]]
    BY <1>10, BootFacts DEF Booted
  <2> QED  BY <1>10, <2>1, <2>2, BootFacts DEF Booted
<1>11. CASE UNCHANGED vars
  BY <1>11 DEF vars
<1> QED
  BY <1>1, <1>2, <1>3, <1>4, <1>5, <1>6, <1>7, <1>8, <1>9, <1>10, <1>11 DEF Next, Script, Watch

\* A step of one watcher; the others stay where they are.
Steps(a) == Watch(a) \/ Expire(a) \/ StartWatcher(a)

Rests(w) ==
    /\ watcher'[w] = watcher[w] /\ offset'[w] = offset[w] /\ size'[w] = size[w]
    /\ line'[w] = line[w] /\ end'[w] = end[w]

LEMMA OthersRest ==
  ASSUME TypeOK, NEW a \in Auths, Steps(a)
  PROVE  log' = log /\ installs' = installs /\ todo' = todo /\ \A w \in Auths \ {a} : Rests(w)
<1> USE DEF TypeOK, Rests, mine, Goto
<1>1. CASE Snapshot(a)
  BY <1>1 DEF Snapshot
<1>2. CASE Measure(a)
  BY <1>2 DEF Measure
<1>3. CASE Read(a)
  BY <1>3 DEF Read, NextRound
<1>4. CASE TestFlag(a)
  BY <1>4 DEF TestFlag, DropLine, NextRound
<1>5. CASE Move(a)
  BY <1>5 DEF Move, DropLine, NextRound
<1>6. CASE Expire(a)
  BY <1>6 DEF Expire
<1>7. CASE StartWatcher(a)
  BY <1>7 DEF StartWatcher
<1> QED  BY <1>1, <1>2, <1>3, <1>4, <1>5, <1>6, <1>7 DEF Steps, Watch

\* The line is through, with its flag gone; the next line or the next round.
NextLine(a) ==
    /\ Handles(a) /\ flag' = [flag EXCEPT ![log[line[a]]] = NoAuth]
    /\ \/ /\ line[a] # end[a] /\ watcher'[a] = "line" /\ line'[a] = line[a] + 1
          /\ offset'[a] = offset[a] /\ size'[a] = size[a] /\ end'[a] = end[a]
       \/ line[a] = end[a] /\ watcher'[a] = "loop" /\ offset'[a] = size[a]

\* What else a step does to the watcher that takes it.
Paces(a) ==
    \/ script[a] = "flags" /\ watcher'[a] = "starting" /\ offset'[a] = offset[a]
    \/ watcher[a] = "starting" /\ watcher'[a] = "loop" /\ offset'[a] = Len(log)
    \/ watcher[a] = "loop" /\ watcher'[a] = "expired" /\ offset'[a] = offset[a]
    \/ Doomed(a) /\ watcher'[a] = "dead" /\ offset'[a] = offset[a]
    \/ /\ watcher[a] = "loop" /\ watcher'[a] = "read"
       /\ offset'[a] = offset[a] /\ size'[a] = Len(log)
    \/ watcher[a] = "read" /\ Len(log) = offset[a] /\ watcher'[a] = "loop" /\ offset'[a] = size[a]
    \/ /\ watcher[a] = "read" /\ Len(log) # offset[a] /\ watcher'[a] = "line"
       /\ line'[a] = offset[a] + 1 /\ end'[a] = Len(log)
       /\ offset'[a] = offset[a] /\ size'[a] = size[a]
    \/ /\ watcher[a] = "line" /\ watcher'[a] = "move" /\ flag[log[line[a]]] # NoAuth
       /\ offset'[a] = offset[a] /\ size'[a] = size[a] /\ line'[a] = line[a] /\ end'[a] = end[a]

LEMMA WatcherPaces ==
  ASSUME TypeOK, PlaceInv, NEW a \in Auths, Steps(a)
  PROVE  NextLine(a) \/ (Paces(a) /\ flag' = flag)
<1> USE DEF TypeOK, mine, Goto
<1>1. CASE Snapshot(a)
  BY <1>1 DEF Snapshot, Paces
<1>2. CASE Measure(a)
  BY <1>2 DEF Measure, Paces
<1>3. CASE Read(a)
  BY <1>3 DEF Read, NextRound, Paces
<1>4. CASE TestFlag(a)
  <2>1. watcher[a] = "line" /\ Handles(a) /\ UNCHANGED <<flag, size>>
    BY <1>4 DEF TestFlag, Handles
  <2>2. CASE flag[log[line[a]]] # NoAuth
    BY <1>4, <2>1, <2>2 DEF TestFlag, Paces
  <2>3. CASE flag[log[line[a]]] = NoAuth
    <3>1. DropLine(a)
      BY <1>4, <2>3 DEF TestFlag
    <3>2. log[line[a]] \in Macs
      BY <2>1, LineInHand
    <3>3. flag' = [flag EXCEPT ![log[line[a]]] = NoAuth]
      BY <2>1, <2>3, <3>2
    <3> QED  BY <2>1, <3>1, <3>3 DEF DropLine, NextRound, NextLine
  <2> QED  BY <2>2, <2>3
<1>5. CASE Move(a)
  <2>1. size' = size
    BY <1>5 DEF Move
  <2>2. CASE Takes(a)
    BY <2>1, <2>2 DEF Takes, DropLine, NextRound, Handles, NextLine
  <2>3. CASE Dies(a)
    BY <2>3 DEF Dies, Doomed, Paces
  <2> QED  BY <1>5, <2>2, <2>3, MoveCases
<1>6. CASE Expire(a)
  BY <1>6 DEF Expire, Paces
<1>7. CASE StartWatcher(a)
  BY <1>7 DEF StartWatcher, Paces
<1> QED  BY <1>1, <1>2, <1>3, <1>4, <1>5, <1>6, <1>7 DEF Steps, Watch

LEMMA PlaceStep == TypeOK /\ PlaceInv /\ [Next]_vars => PlaceInv'
<1> SUFFICES ASSUME TypeOK, PlaceInv, [Next]_vars, NEW w \in Auths PROVE Placed(w)'
  BY DEF PlaceInv
<1>1. /\ Placed(w) /\ Len(log) \in Nat
      /\ offset[w] \in Nat /\ size[w] \in Nat /\ line[w] \in Nat /\ end[w] \in Nat
  BY DEF PlaceInv, TypeOK
<1>2. ASSUME Rests(w), Len(log') \in Nat, Len(log') >= Len(log) PROVE Placed(w)'
  BY <1>1, <1>2 DEF Rests, Placed, Handles
<1>3. ASSUME NEW a \in Auths, Steps(a) PROVE Placed(w)'
  <2>1. log' = log /\ (w # a => Rests(w))
    BY <1>3, OthersRest
  <2>2. CASE w = a
    <3>1. NextLine(w) \/ Paces(w)
      BY <1>3, <2>2, WatcherPaces
    <3>2. CASE NextLine(w)
      BY <1>1, <2>1, <3>2 DEF NextLine, Placed, Handles
    <3>3. CASE Paces(w)
      BY <1>1, <2>1, <3>3 DEF Paces, Placed, Handles, Doomed
    <3> QED  BY <3>1, <3>2, <3>3
  <2> QED  BY <1>1, <1>2, <2>1, <2>2
<1>4. ASSUME UNCHANGED <<log, watcher, mine>> PROVE Placed(w)'
  BY <1>1, <1>2, <1>4 DEF Rests, mine
<1>5. ASSUME NEW m \in Macs, Boot(m) PROVE Placed(w)'
  <2>1. Len(log') = Len(log) + 1 /\ Rests(w)
    BY <1>5 DEF Boot, TypeOK, Rests, mine
  <2> QED  BY <1>1, <1>2, <2>1
<1>6. ASSUME NEW a \in Auths, NEW ms \in SUBSET Macs, Authorize(a, ms) PROVE Placed(w)'
  BY <1>4, <1>6 DEF Authorize
<1>7. ASSUME NEW a \in Auths, NEW m \in Macs, CreateFlag(a, m) PROVE Placed(w)'
  BY <1>4, <1>7 DEF CreateFlag
<1>8. CASE UNCHANGED vars
  BY <1>4, <1>8 DEF vars
<1> QED  BY <1>3, <1>5, <1>6, <1>7, <1>8 DEF Next, Script, Steps

LEMMA FlagStep == TypeOK /\ PlaceInv /\ FlagInv /\ [Next]_vars => FlagInv'
<1> SUFFICES ASSUME TypeOK, PlaceInv, FlagInv, [Next]_vars PROVE FlagInv'
  OBVIOUS
<1>1. ASSUME \A m \in Macs : flag'[m] \in {flag[m], NoAuth},
             \A c \in Auths : script'[c] = "idle" => script[c] = "idle"
      PROVE  FlagInv'
  BY <1>1 DEF FlagInv, TypeOK
<1>2. ASSUME NEW a \in Auths, Steps(a) PROVE FlagInv'
  <2>1. \A m \in Macs : flag'[m] \in {flag[m], NoAuth}
    BY <1>2, WatcherPaces DEF NextLine, TypeOK
  <2>2. \A c \in Auths : script'[c] \in {script[c], "done"}
    BY <1>2 DEF Steps, Watch, Snapshot, Measure, Read, TestFlag, Move, Expire, StartWatcher, TypeOK
  <2> QED  BY <1>1, <2>1, <2>2
<1>3. ASSUME NEW a \in Auths, NEW ms \in SUBSET Macs, Authorize(a, ms) PROVE FlagInv'
  BY <1>1, <1>3 DEF Authorize, TypeOK
<1>4. ASSUME NEW a \in Auths, NEW m \in Macs, CreateFlag(a, m) PROVE FlagInv'
  BY <1>4 DEF CreateFlag, FlagInv, TypeOK
<1>5. ASSUME UNCHANGED <<flag, script>> PROVE FlagInv'
  BY <1>5 DEF FlagInv
<1>6. ASSUME NEW m \in Macs, Boot(m) PROVE FlagInv'
  BY <1>5, <1>6 DEF Boot
<1>7. CASE UNCHANGED vars
  BY <1>5, <1>7 DEF vars
<1> QED  BY <1>2, <1>3, <1>4, <1>6, <1>7 DEF Next, Script, Steps

LEMMA ScriptStep ==
  ASSUME "hasty" \notin World, TypeOK, PlaceInv, FlagInv, ScriptInv, [Next]_vars
  PROVE  ScriptInv'
<1> USE DEF ScriptInv, TypeOK
<1>1. ASSUME NEW a \in Auths, Steps(a) PROVE ScriptInv'
  <2>1. installs' = installs /\ \A w \in Auths \ {a} : Rests(w)
    BY <1>1, OthersRest
  <2>2. CASE StartWatcher(a)
    BY <2>1, <2>2 DEF StartWatcher
  <2>3. CASE ~StartWatcher(a)
    <3>1. script' = script
      BY <1>1, <2>3 DEF Steps, Watch, Snapshot, Measure, Read, TestFlag, Move, Expire
    <3>2. watcher[a] \notin {"off"} /\ watcher'[a] \notin {"off", "starting"}
      BY <1>1, <2>3 DEF Steps, Watch, Snapshot, Measure, Read, NextRound, TestFlag, Move, DropLine,
             Expire, Goto
    <3> QED  BY <2>1, <3>1, <3>2 DEF Rests
  <2> QED  BY <2>2, <2>3
<1>2. ASSUME NEW m \in Macs, Boot(m) PROVE ScriptInv'
  <2>1. \A a \in Auths : watcher[a] # "starting"
    BY <1>2 DEF Boot, Patient, Settled
  <2>2. Booted(m)
    BY <1>2, BootFacts
  <2>3. script[flag[m]] = "done" /\ UNCHANGED <<script, watcher>> /\ flag[m] \in Auths
    BY <2>2, InstallOnceAssumption DEF Booted, FlagInv
  <2>4. ASSUME NEW c \in Auths, NEW n \in Macs, installs'[c][n] > 0
        PROVE  watcher[c] \notin {"off", "starting"}
    <3>1. CASE c = flag[m]
      BY <2>1, <2>3, <3>1
    <3>2. CASE c # flag[m]
      <4>1. installs'[c][n] = installs[c][n]
        BY <2>2, <3>2 DEF Booted
      <4> QED  BY <2>4, <4>1
    <3> QED  BY <3>1, <3>2
  <2> QED  BY <2>3, <2>4
<1>3. ASSUME NEW a \in Auths, NEW ms \in SUBSET Macs, Authorize(a, ms) PROVE ScriptInv'
  BY <1>3 DEF Authorize
<1>4. ASSUME NEW a \in Auths, NEW m \in Macs, CreateFlag(a, m) PROVE ScriptInv'
  BY <1>4 DEF CreateFlag
<1>5. CASE UNCHANGED vars
  BY <1>5 DEF vars
<1> QED  BY <1>1, <1>2, <1>3, <1>4, <1>5 DEF Next, Script, Steps

-----------------------------------------------------------------------------
(* Unread lines *)

\* Lines are only added to what is unread when a node boots; scripts and flags
\* grow only where a node has settled.
Forth ==
    /\ log' = log /\ installs' = installs
    /\ \A c \in Auths : todo'[c] \subseteq todo[c]
    /\ \A m \in Macs : flag'[m] \in {flag[m], NoAuth}
    /\ \A w \in Auths : Live(w)' =>
          offset'[w] \in Nat /\ ((Live(w) /\ offset'[w] >= offset[w]) \/ offset'[w] = Len(log))

LEMMA ForthKeeps == ASSUME TypeOK, LogInv, Forth PROVE LogInv'
<1>1. log' = log
  BY DEF Forth
<1>2. ASSUME NEW w \in Auths, Live(w)', NEW i \in 1..Len(log), i > offset'[w]
      PROVE  Fresh(w, i)'
  <2>1. Live(w) /\ offset'[w] >= offset[w] /\ offset[w] \in Nat /\ offset'[w] \in Nat
    BY <1>2 DEF Forth, TypeOK
  <2>2. i > offset[w] /\ \A j \in 1..Len(log) : j > offset'[w] => j > offset[w]
    BY <1>2, <2>1 DEF TypeOK
  <2>3. log[i] \in Macs
    BY DEF TypeOK
  <2>4. flag'[log[i]] # NoAuth => flag'[log[i]] = flag[log[i]] /\ installs' = installs
    BY <2>3 DEF Forth
  <2>5. Fresh(w, i)
    BY <2>1, <2>2 DEF LogInv
  <2> QED  BY <1>1, <2>2, <2>4, <2>5 DEF Fresh, Forth
<1> QED  BY <1>1, <1>2 DEF LogInv

LEMMA WatcherForth ==
  ASSUME TypeOK, PlaceInv, NEW a \in Auths, Steps(a)
  PROVE  Forth
<1>1. log' = log /\ installs' = installs /\ todo' = todo /\ \A w \in Auths \ {a} : Rests(w)
  BY OthersRest
<1>2. NextLine(a) \/ (Paces(a) /\ flag' = flag)
  BY WatcherPaces
<1>3. \A m \in Macs : flag'[m] \in {flag[m], NoAuth}
  BY <1>2 DEF NextLine, TypeOK
<1>4. /\ Placed(a) /\ Len(log) \in Nat /\ \A w \in Auths : offset[w] \in Nat
      /\ size[a] \in Nat /\ line[a] \in Nat /\ end[a] \in Nat
  BY DEF TypeOK, PlaceInv
<1>5. ASSUME NEW w \in Auths, Live(w)'
      PROVE  offset'[w] \in Nat /\ ((Live(w) /\ offset'[w] >= offset[w]) \/ offset'[w] = Len(log))
  <2>1. CASE w = a
    <3>1. CASE NextLine(a)
      BY <1>4, <1>5, <2>1, <3>1 DEF NextLine, Placed, Handles, Live
    <3>2. CASE Paces(a)
      BY <1>4, <1>5, <2>1, <3>2 DEF Paces, Placed, Handles, Live, Doomed
    <3> QED  BY <1>2, <3>1, <3>2
  <2>2. CASE w # a
    BY <1>1, <1>4, <1>5, <2>2 DEF Rests, Live
  <2> QED  BY <2>1, <2>2
<1> QED  BY <1>1, <1>3, <1>5 DEF Forth

\* A node that has settled has no line a watcher has not read.
LEMMA SettledRead ==
  ASSUME "hasty" \notin World, TypeOK, NEW m \in Macs, Patient(m), NEW w \in Auths
  PROVE  /\ watcher[w] # "starting" /\ m \notin todo[w]
         /\ Live(w) => \A i \in 1..Len(log) : i > offset[w] => log[i] # m
<1>1. Settled(m)
  BY DEF Patient
<1>2. ~Unread(w, m) /\ watcher[w] # "starting" /\ m \notin todo[w]
  BY <1>1 DEF Settled
<1> QED  BY <1>2 DEF Unread, Alive, Gone, Live, TypeOK

LEMMA LogBoot ==
  ASSUME "hasty" \notin World, TypeOK, LogInv, NEW m \in Macs, Boot(m)
  PROVE  LogInv'
<1>1. Patient(m)
  BY DEF Boot
<1>2. Booted(m)
  BY BootFacts
<1>3. ASSUME NEW w \in Auths, Live(w)', NEW i \in 1..Len(log'), i > offset'[w]
      PROVE  Fresh(w, i)'
  <2>1. Live(w) /\ offset'[w] = offset[w] /\ i > offset[w]
    BY <1>3, <1>2 DEF Booted, Live
  <2>2. \A c \in Auths : m \notin todo[c]
    BY <1>1, SettledRead
  <2>3. \A j \in 1..Len(log) : j > offset[w] => log[j] # m
    BY <1>1, <2>1, SettledRead
  <2>4. CASE i = Len(log) + 1
    <3>1. log'[i] = m /\ todo' = todo /\ offset' = offset
      BY <2>4, <1>2 DEF Booted
    <3>2. flag'[m] # NoAuth => installs'[flag'[m]][m] >= 1
      BY <1>2 DEF Booted
    <3>3. \A j \in 1..Len(log') : j > offset[w] /\ log'[j] = m => j = i
      BY <2>3, <2>4, <1>2 DEF Booted
    <3> QED  BY <2>2, <3>1, <3>2, <3>3 DEF Fresh
  <2>5. CASE i \in 1..Len(log)
    <3>1. Fresh(w, i) /\ log'[i] = log[i] /\ log[i] # m
      BY <2>1, <2>3, <2>5, <1>2 DEF Booted, LogInv
    <3>2. log[i] \in Macs /\ flag[log[i]] \in Auths \cup {NoAuth}
      BY <2>5 DEF TypeOK
    <3>3. flag'[log[i]] # NoAuth => installs'[flag'[log[i]]][log[i]] >= 1
      BY <3>1, <3>2, <1>2 DEF Booted, Fresh
    <3>4. ASSUME NEW j \in 1..Len(log'), j > offset[w], log'[j] = log[i] PROVE j = i
      <4>1. j # Len(log) + 1
        BY <3>1, <3>4, <1>2 DEF Booted
      <4>2. j \in 1..Len(log) /\ log[j] = log[i]
        BY <3>4, <4>1, <1>2 DEF Booted
      <4> QED  BY <3>1, <3>4, <4>2 DEF Fresh
    <3> QED  BY <2>1, <3>1, <3>3, <3>4, <1>2 DEF Booted, Fresh
  <2> QED  BY <1>3, <2>4, <2>5, <1>2 DEF Booted
<1> QED  BY <1>3 DEF LogInv

LEMMA LogStep ==
  ASSUME "hasty" \notin World, TypeOK, PlaceInv, LogInv, [Next]_vars
  PROVE  LogInv'
<1>1. ASSUME NEW a \in Auths, Steps(a) PROVE LogInv'
  BY <1>1, WatcherForth, ForthKeeps
<1>2. ASSUME NEW m \in Macs, Boot(m) PROVE LogInv'
  BY <1>2, LogBoot
<1>3. ASSUME NEW a \in Auths, NEW ms \in SUBSET Macs, Authorize(a, ms) PROVE LogInv'
  <2>1. /\ UNCHANGED <<log, flag, watcher, offset, installs>>
        /\ todo' = [todo EXCEPT ![a] = ms] /\ \A m \in ms : Patient(m)
    BY <1>3 DEF Authorize, mine
  <2>2. ASSUME NEW w \in Auths, Live(w), NEW i \in 1..Len(log), i > offset[w]
        PROVE  Fresh(w, i)'
    <3>1. Fresh(w, i) /\ log[i] \in Macs
      BY <2>2 DEF LogInv, TypeOK
    <3>2. log[i] \notin ms
      BY <2>1, <2>2, SettledRead
    <3> QED  BY <2>1, <3>1, <3>2 DEF Fresh, TypeOK
  <2> QED  BY <2>1, <2>2 DEF LogInv, Live
<1>4. ASSUME NEW a \in Auths, NEW m \in Macs, CreateFlag(a, m) PROVE LogInv'
  <2>1. /\ UNCHANGED <<log, watcher, offset, installs>> /\ m \in todo[a]
        /\ todo' = [todo EXCEPT ![a] = @ \ {m}] /\ flag' = [flag EXCEPT ![m] = a]
    BY <1>4 DEF CreateFlag, mine
  <2>2. ASSUME NEW w \in Auths, Live(w), NEW i \in 1..Len(log), i > offset[w]
        PROVE  Fresh(w, i)'
    <3>1. Fresh(w, i) /\ log[i] \in Macs
      BY <2>2 DEF LogInv, TypeOK
    <3>2. log[i] # m
      BY <2>1, <3>1 DEF Fresh
    <3> QED  BY <2>1, <3>1, <3>2 DEF Fresh, TypeOK
  <2> QED  BY <2>1, <2>2 DEF LogInv, Live
<1>5. CASE UNCHANGED vars
  BY <1>5 DEF vars, mine, LogInv, Fresh, Live
<1> QED  BY <1>1, <1>2, <1>3, <1>4, <1>5 DEF Next, Script, Steps

-----------------------------------------------------------------------------
(* Watchers that go on *)

\* Two watchers that handle a line of one node handle the same line.
LEMMA SameLine ==
  ASSUME TypeOK, PlaceInv, LogInv, NEW w \in Auths, NEW x \in Auths,
         Handles(w), Handles(x), log[line[w]] = log[line[x]]
  PROVE  line[w] = line[x]
<1>1. /\ line[w] \in 1..Len(log) /\ line[w] > offset[w] /\ offset[w] \in Nat
      /\ line[x] \in 1..Len(log) /\ line[x] > offset[x] /\ offset[x] \in Nat
  BY LineInHand DEF PlaceInv, Placed, TypeOK
<1>2. Fresh(w, line[w]) /\ Fresh(x, line[x])
  BY <1>1 DEF LogInv, Live, Handles
<1>3. CASE line[x] > offset[w]
  BY <1>1, <1>2, <1>3 DEF Fresh
<1>4. CASE ~(line[x] > offset[w])
  <2>1. line[w] > offset[x]
    BY <1>1, <1>4
  <2> QED  BY <1>1, <1>2, <2>1 DEF Fresh
<1> QED  BY <1>3, <1>4

\* A watcher passes over a line only when the flag of its node is gone.
LEMMA SeesOn ==
  ASSUME TypeOK, PlaceInv, ScriptInv, NEW a \in Auths, Steps(a), NEW w \in Auths,
         Live(w), Live(w)', NEW p \in 1..Len(log), p >= Ahead(w), flag'[log[p]] # NoAuth
  PROVE  p >= Ahead(w)'
<1>1. CASE w # a
  BY <1>1, OthersRest DEF Rests, Ahead, Handles
<1>2. CASE w = a
  <2>1. /\ Placed(a) /\ Len(log) \in Nat /\ offset[a] \in Nat
        /\ size[a] \in Nat /\ line[a] \in Nat /\ end[a] \in Nat
    BY DEF TypeOK, PlaceInv
  <2>2. CASE NextLine(a)
    <3>1. flag'[log[line[a]]] = NoAuth /\ p >= line[a]
      BY <1>2, <2>2, LineInHand DEF NextLine, TypeOK, Ahead
    <3>2. p > line[a]
      BY <2>1, <3>1
    <3> QED  BY <1>2, <2>1, <2>2, <3>2 DEF NextLine, Placed, Ahead, Handles
  <2>3. CASE Paces(a)
    <3>1. script[a] # "flags" /\ watcher[a] # "starting"
      BY <1>2 DEF ScriptInv, Live
    <3> QED  BY <1>2, <2>1, <2>3, <3>1 DEF Paces, Placed, Ahead, Handles, Live, Doomed
  <2> QED  BY <2>2, <2>3, WatcherPaces
<1> QED  BY <1>1, <1>2

\* A line ahead of a watcher that goes on stays ahead of one, as long as its
\* flag is there: who dies was overtaken by a watcher in the same line.
LEMMA GoesOn ==
  ASSUME TypeOK, PlaceInv, ScriptInv, LogInv, NEW a \in Auths, Steps(a), ~Expired',
         NEW w \in Auths, Goes(w), NEW p \in 1..Len(log), p >= Ahead(w), flag'[log[p]] # NoAuth
  PROVE  \E x \in Auths : Goes(x)' /\ p >= Ahead(x)'
<1>1. log' = log /\ \A x \in Auths \ {a} : Rests(x)
  BY OthersRest
<1>2. NextLine(a) \/ (Paces(a) /\ flag' = flag)
  BY WatcherPaces
<1>3. CASE w = a
  <2>1. Goes(a)'
    <3>1. CASE NextLine(a)
      BY <3>1 DEF NextLine, Goes, Live, Doomed
    <3>2. CASE Paces(a) /\ flag' = flag
      <4>1. script[a] # "flags" /\ watcher[a] # "starting" /\ watcher'[a] # "expired"
        BY <1>3 DEF ScriptInv, Goes, Live, Expired
      <4> QED  BY <1>1, <1>3, <3>2, <4>1 DEF Paces, Goes, Live, Doomed
    <3> QED  BY <1>2, <3>1, <3>2
  <2> QED  BY <1>3, <2>1, SeesOn DEF Goes
<1>4. CASE w # a /\ ~Doomed(w)'
  <2>1. Goes(w)'
    BY <1>1, <1>4 DEF Rests, Goes, Live
  <2> QED  BY <2>1, SeesOn DEF Goes
<1>5. CASE w # a /\ Doomed(w)'
  <2>1. /\ watcher[w] = "move" /\ line'[w] = line[w] /\ flag[log[line[w]]] # NoAuth
        /\ flag'[log[line[w]]] = NoAuth
    BY <1>1, <1>5 DEF Rests, Goes, Doomed
  <2>2. NextLine(a) /\ log[line[a]] \in Macs /\ log[line[w]] \in Macs
    BY <1>2, <2>1, LineInHand DEF NextLine, Handles
  <2>3. log[line[w]] = log[line[a]]
    BY <2>1, <2>2 DEF NextLine, TypeOK
  <2>4. line[w] = line[a]
    BY <2>1, <2>2, <2>3, SameLine DEF NextLine, Handles
  <2>5. Goes(a)'
    BY <2>2 DEF NextLine, Goes, Live, Doomed
  <2>6. p >= Ahead(a) /\ Live(a)
    BY <2>1, <2>2, <2>4 DEF Ahead, NextLine, Handles, Live
  <2> QED  BY <2>5, <2>6, SeesOn DEF Goes
<1> QED  BY <1>3, <1>4, <1>5

\* Doom comes only by the step of another watcher.
LEMMA DoomStays ==
  ASSUME TypeOK, PlaceInv, watcher' = watcher, line' = line,
         \A i \in 1..Len(log) : log'[i] = log[i],
         \A m \in Macs : flag[m] # NoAuth => flag'[m] # NoAuth
  PROVE  \A w \in Auths : (Live(w)' <=> Live(w)) /\ (Goes(w) => Goes(w)')
<1> SUFFICES ASSUME NEW w \in Auths PROVE Doomed(w)' => Doomed(w)
  BY DEF Goes, Live
<1>1. watcher[w] = "move" => line[w] \in 1..Len(log) /\ log[line[w]] \in Macs
  BY LineInHand DEF Handles
<1> QED  BY <1>1 DEF Doomed

\* A time limit that was reached stays reached, and who is dead stays dead.
LEMMA EndsStay ==
  ASSUME TypeOK, PlaceInv, ScriptInv, [Next]_vars, NEW w \in Auths, watcher[w] \in {"expired", "dead"}
  PROVE  watcher'[w] = watcher[w]
<1>1. ASSUME NEW a \in Auths, Steps(a) PROVE watcher'[w] = watcher[w]
  <2>1. NextLine(a) \/ Paces(a)
    BY <1>1, WatcherPaces
  <2>2. w # a
    BY <2>1 DEF NextLine, Paces, Handles, Doomed, ScriptInv
  <2> QED  BY <1>1, <2>2, OthersRest DEF Rests
<1>2. CASE UNCHANGED watcher
  BY <1>2
<1>3. ASSUME \/ \E a \in Auths, ms \in SUBSET Macs : Authorize(a, ms)
             \/ \E a \in Auths, m \in Macs : CreateFlag(a, m)
             \/ \E m \in Macs : Boot(m)
             \/ UNCHANGED vars
      PROVE  UNCHANGED watcher
  BY <1>3 DEF Authorize, CreateFlag, Boot, vars
<1> QED  BY <1>1, <1>2, <1>3 DEF Next, Script, Steps

LEMMA WatchStep ==
  ASSUME TypeOK, PlaceInv, ScriptInv, WatchInv, [Next]_vars
  PROVE  WatchInv'
<1>1. ASSUME NEW a \in Auths, Steps(a), ~Expired'
      PROVE  \E w \in Auths : watcher'[w] = "starting" \/ Goes(w)'
  <2>1. log' = log /\ \A w \in Auths \ {a} : Rests(w)
    BY <1>1, OthersRest
  <2>2. CASE NextLine(a)
    BY <2>2 DEF NextLine, Goes, Live, Doomed
  <2>3. CASE Paces(a) /\ flag' = flag /\ Doomed(a)
    <3>1. watcher[a] # "off" /\ ~Expired
      BY <1>1, <2>3, EndsStay DEF Doomed, Expired, Next, Steps, Script
    <3>2. PICK w \in Auths : watcher[w] = "starting" \/ Goes(w)
      BY <3>1 DEF WatchInv
    <3>3. w # a
      BY <2>3, <3>2 DEF Doomed, Goes
    <3> QED  BY <2>1, <2>3, <3>2, <3>3 DEF Rests, Goes, Live, Doomed
  <2>4. CASE Paces(a) /\ flag' = flag /\ ~Doomed(a)
    <3>1. watcher'[a] # "expired"
      BY <1>1 DEF Expired
    <3> QED  BY <2>1, <2>4, <3>1 DEF Paces, Goes, Live, Doomed
  <2> QED  BY <1>1, <2>2, <2>3, <2>4, WatcherPaces
<1>2. ASSUME watcher' = watcher, line' = line,
             \A i \in 1..Len(log) : log'[i] = log[i],
             \A m \in Macs : flag[m] # NoAuth => flag'[m] # NoAuth
      PROVE  WatchInv'
  BY <1>2, DoomStays DEF WatchInv, Expired
<1>3. ASSUME NEW m \in Macs, Boot(m) PROVE WatchInv'
  BY <1>2, <1>3, BootFacts DEF Booted
<1>4. ASSUME NEW a \in Auths, NEW ms \in SUBSET Macs, Authorize(a, ms) PROVE WatchInv'
  BY <1>2, <1>4 DEF Authorize, mine
<1>5. ASSUME NEW a \in Auths, NEW m \in Macs, CreateFlag(a, m) PROVE WatchInv'
  <2>1. \A n \in Macs : flag[n] # NoAuth => flag'[n] # NoAuth
    BY <1>5, InstallOnceAssumption DEF CreateFlag, TypeOK
  <2> QED  BY <1>2, <1>5, <2>1 DEF CreateFlag, mine
<1>6. CASE UNCHANGED vars
  BY <1>2, <1>6 DEF vars, mine
<1> QED  BY <1>1, <1>3, <1>4, <1>5, <1>6 DEF Next, Script, Steps, WatchInv

LEMMA SeenWatch ==
  ASSUME IInv, [Next]_vars, NEW a \in Auths, Steps(a), NEW m \in Macs, Served(m)'
  PROVE  Followed(m)'
<1> USE DEF IInv
<1>1. log' = log /\ installs' = installs /\ flag'[m] = flag[m] /\ flag[m] \in Auths
  BY OthersRest, WatcherForth DEF Forth, TypeOK, Served
<1>2. Followed(m)
  BY <1>1 DEF SeenInv, Served
<1>3. ASSUME ~Expired' PROVE \E w \in Auths : Goes(w)' /\ Sees(w, m)'
  <2>1. ~Expired
    BY <1>3, EndsStay DEF Expired
  <2>2. PICK w \in Auths : Goes(w) /\ Sees(w, m)
    BY <1>2, <2>1 DEF Followed
  <2>3. PICK p \in 1..Len(log) : p >= Ahead(w) /\ log[p] = m
    BY <2>2 DEF Sees
  <2>4. PICK x \in Auths : Goes(x)' /\ p >= Ahead(x)'
    BY <1>1, <1>3, <2>2, <2>3, GoesOn DEF Served
  <2> QED  BY <1>1, <2>3, <2>4 DEF Sees, Goes
<1>4. ASSUME Live(flag[m])' PROVE Sees(flag[m], m)'
  <2>1. PICK c \in Auths : c = flag[m] /\ c = flag'[m]
    BY <1>1
  <2>2. Live(c)'
    BY <1>4, <2>1 DEF Live
  <2>3. Live(c)
    <3>1. watcher[c] \notin {"off", "starting"}
      BY <1>1, <2>1 DEF ScriptInv, TypeOK, Served
    <3>2. watcher[c] \notin {"expired", "dead"}
      BY <2>2, EndsStay DEF Live
    <3> QED  BY <3>1, <3>2 DEF TypeOK, Live, Gone
  <2>4. PICK p \in 1..Len(log) : p >= Ahead(c) /\ log[p] = m
    BY <1>2, <2>1, <2>3 DEF Followed, Sees
  <2>5. p >= Ahead(c)'
    BY <1>1, <2>2, <2>3, <2>4, SeesOn DEF Served
  <2>6. Sees(c, m)'
    BY <1>1, <2>2, <2>4, <2>5 DEF Sees
  <2> QED  BY <2>1, <2>6 DEF Sees, Ahead, Handles, Live
<1> QED  BY <1>3, <1>4 DEF Followed

\* What others do leaves the watchers where they are and the lines there.
LEMMA SeenStays ==
  ASSUME IInv, NEW m \in Macs, flag'[m] = flag[m], Served(m),
         Len(log') >= Len(log), Len(log') \in Nat, \A i \in 1..Len(log) : log'[i] = log[i],
         UNCHANGED <<watcher, offset, line>>,
         \A n \in Macs : flag[n] # NoAuth => flag'[n] # NoAuth
  PROVE  Followed(m)'
<1> USE DEF IInv
<1>1. ASSUME NEW w \in Auths, Sees(w, m) PROVE Sees(w, m)'
  <2>1. PICK p \in 1..Len(log) : p >= Ahead(w) /\ log[p] = m
    BY <1>1 DEF Sees
  <2>2. Ahead(w)' = Ahead(w) /\ Live(w)'
    BY <1>1 DEF Ahead, Handles, Sees, Live
  <2>3. p \in 1..Len(log') /\ log'[p] = m
    BY <2>1 DEF TypeOK
  <2> QED  BY <2>1, <2>2, <2>3 DEF Sees
<1>2. Followed(m) /\ flag[m] \in Auths
  BY DEF SeenInv, Served, TypeOK
<1>3. \A w \in Auths : (Live(w)' <=> Live(w)) /\ (Goes(w) => Goes(w)')
  BY DoomStays
<1>4. Expired' \/ \E w \in Auths : Goes(w)' /\ Sees(w, m)'
  BY <1>1, <1>2, <1>3 DEF Followed, Expired
<1>5. PICK c \in Auths : c = flag[m] /\ c = flag'[m]
  BY <1>2
<1>6. Live(c)' => Sees(c, m)'
  BY <1>1, <1>2, <1>3, <1>5 DEF Followed
<1>7. Live(flag[m])' => Sees(flag[m], m)'
  BY <1>5, <1>6 DEF Sees, Ahead, Handles, Live
<1> QED  BY <1>4, <1>7 DEF Followed

LEMMA SeenBoot ==
  ASSUME "hasty" \notin World, IInv, NEW m \in Macs, Boot(m), NEW n \in Macs, Served(n)'
  PROVE  Followed(n)'
<1> USE DEF IInv
<1>1. Booted(m) /\ Patient(m)
  BY BootFacts DEF Boot
<1>2. CASE n # m
  <2>1. flag' = flag /\ Served(n)
    BY <1>1, <1>2 DEF Booted, Served, TypeOK
  <2> QED  BY <1>1, <2>1, SeenStays DEF Booted
<1>3. CASE n = m
  <2>1. ASSUME NEW w \in Auths, Live(w) PROVE Sees(w, m)'
    <3>1. Placed(w) /\ offset[w] \in Nat /\ line[w] \in Nat /\ end[w] \in Nat
      BY DEF PlaceInv, TypeOK
    <3>2. Len(log) + 1 >= Ahead(w)
      <4>1. Len(log) \in Nat /\ offset[w] <= Len(log)
        BY <1>1, <3>1 DEF Booted, Placed
      <4>2. Handles(w) => line[w] <= Len(log)
        BY <3>1, <4>1 DEF Placed
      <4> QED  BY <3>1, <4>1, <4>2 DEF Ahead
    <3>3. Ahead(w)' = Ahead(w) /\ Live(w)'
      BY <1>1, <2>1 DEF Booted, Ahead, Handles, Live
    <3>4. Len(log) + 1 \in 1..Len(log') /\ log'[Len(log) + 1] = m
      BY <1>1 DEF Booted
    <3>5. \E p \in 1..Len(log') : p >= Ahead(w)' /\ log'[p] = m
      BY <3>2, <3>3, <3>4
    <3> QED  BY <3>3, <3>5 DEF Sees
  <2>2. \A w \in Auths : (Live(w)' <=> Live(w)) /\ (Goes(w) => Goes(w)')
    BY <1>1, DoomStays DEF Booted
  <2>3. Expired \/ \E w \in Auths : Goes(w)
    <3>1. watcher[flag[m]] # "off" /\ flag[m] \in Auths
      BY <1>1, InstallOnceAssumption DEF Booted, FlagInv, ScriptInv, TypeOK
    <3>2. \A w \in Auths : watcher[w] # "starting"
      BY <1>1, SettledRead
    <3> QED  BY <3>1, <3>2 DEF WatchInv
  <2>4. watcher' = watcher
    BY <1>1 DEF Booted
  <2>5. Expired' \/ \E w \in Auths : Goes(w)' /\ Sees(w, m)'
    BY <2>1, <2>2, <2>3, <2>4 DEF Expired, Goes
  <2>6. PICK c \in Auths : c = flag[m] /\ c = flag'[m]
    BY <1>1 DEF Booted
  <2>7. Live(c)' => Sees(c, m)'
    BY <2>1, <2>2
  <2>8. Live(flag[m])' => Sees(flag[m], m)'
    BY <2>6, <2>7 DEF Sees, Ahead, Handles, Live
  <2> QED  BY <1>3, <2>5, <2>8 DEF Followed
<1> QED  BY <1>2, <1>3

LEMMA SeenStep ==
  ASSUME "hasty" \notin World, IInv, [Next]_vars
  PROVE  SeenInv'
<1> USE DEF IInv
<1>1. ASSUME NEW a \in Auths, Steps(a) PROVE SeenInv'
  BY <1>1, SeenWatch DEF SeenInv
<1>2. ASSUME NEW m \in Macs, Boot(m) PROVE SeenInv'
  BY <1>2, SeenBoot DEF SeenInv
<1>3. ASSUME NEW a \in Auths, NEW m \in Macs, CreateFlag(a, m) PROVE SeenInv'
  <2>1. /\ flag' = [flag EXCEPT ![m] = a] /\ script[a] = "flags"
        /\ UNCHANGED <<log, watcher, offset, line, installs>>
    BY <1>3 DEF CreateFlag, mine
  <2>2. \A n \in Macs : flag[n] # NoAuth => flag'[n] # NoAuth
    BY <2>1, InstallOnceAssumption DEF TypeOK
  <2>3. ~(installs[a][m] >= 1)
    <3>1. watcher[a] = "off" /\ installs[a][m] \in Nat
      BY <2>1 DEF ScriptInv, TypeOK
    <3>2. ~(installs[a][m] > 0)
      BY <3>1 DEF ScriptInv
    <3> QED  BY <3>1, <3>2
  <2>4. ASSUME NEW n \in Macs, Served(n)' PROVE Followed(n)'
    <3>1. n # m
      BY <2>1, <2>3, <2>4 DEF TypeOK, Served
    <3>2. flag'[n] = flag[n] /\ Served(n)
      BY <2>1, <2>4, <3>1 DEF TypeOK, Served
    <3>3. Len(log) \in Nat
      BY DEF TypeOK
    <3> QED  BY <2>1, <2>2, <3>2, <3>3, SeenStays
  <2> QED  BY <2>4 DEF SeenInv
<1>4. ASSUME UNCHANGED <<flag, log, watcher, offset, line, installs>> PROVE SeenInv'
  BY <1>4 DEF SeenInv, Served, Followed, Expired, Goes, Sees, Ahead, Handles, Live, Doomed
<1>5. ASSUME NEW a \in Auths, NEW ms \in SUBSET Macs, Authorize(a, ms) PROVE SeenInv'
  BY <1>4, <1>5 DEF Authorize, mine
<1>6. CASE UNCHANGED vars
  BY <1>4, <1>6 DEF vars, mine
<1> QED  BY <1>1, <1>2, <1>3, <1>5, <1>6 DEF Next, Script, Steps

-----------------------------------------------------------------------------
(* Theorems *)

LEMMA IInvStart == Init => IInv
<1> SUFFICES ASSUME Init PROVE IInv
  OBVIOUS
<1>1. TypeOK
  BY TypeStart
<1>2. PlaceInv
  BY DEF Init, PlaceInv, Placed, Handles
<1>3. FlagInv /\ ScriptInv
  BY DEF Init, FlagInv, ScriptInv
<1>4. LogInv /\ WatchInv /\ SeenInv
  BY DEF Init, LogInv, Live, WatchInv, SeenInv, Served
<1> QED  BY <1>1, <1>2, <1>3, <1>4 DEF IInv

LEMMA IInvStep == "hasty" \notin World /\ IInv /\ [Next]_vars => IInv'
BY TypeStep, PlaceStep, FlagStep, ScriptStep, LogStep, WatchStep, SeenStep DEF IInv

LEMMA Invariance == "hasty" \notin World => (Spec => []IInv)
<1> SUFFICES ASSUME "hasty" \notin World PROVE Spec => []IInv
  OBVIOUS
<1>1. IInv /\ [Next]_vars => IInv'
  BY IInvStep
<1> QED  BY <1>1, IInvStart, PTL DEF Spec

\* Only a boot counts an installation, only the step of a watcher moves a flag.
LEMMA FreshStep ==
  ASSUME IInv, FreshFlagKept, [Next]_vars
  PROVE  FreshFlagKept'
<1> USE DEF IInv
<1>1. ASSUME NEW a \in Auths, Move(a), Takes(a) PROVE FreshFlagKept'
  <2>1. Live(a) /\ line[a] \in 1..Len(log) /\ line[a] > offset[a]
    BY <1>1, LineInHand DEF Takes, Live, Handles, PlaceInv, Placed, TypeOK
  <2>2. installs[flag[log[line[a]]]][log[line[a]]] >= 1
    BY <1>1, <2>1 DEF LogInv, Fresh, Takes
  <2>3. installs' = installs
    BY <1>1 DEF Move
  <2> QED  BY <1>1, <2>2, <2>3 DEF Takes, FreshFlagKept
<1>2. CASE UNCHANGED <<moved, installs>>
  BY <1>2 DEF FreshFlagKept
<1>3. ASSUME NEW a \in Auths, Move(a), Dies(a) PROVE UNCHANGED <<moved, installs>>
  BY <1>3 DEF Move, Dies
<1>4. ASSUME NEW m \in Macs, Boot(m) PROVE FreshFlagKept'
  <2>1. Booted(m)
    BY <1>4, BootFacts
  <2>2. ASSUME NEW c \in Auths, NEW n \in Macs, installs[c][n] >= 1 PROVE installs'[c][n] >= 1
    <3>1. CASE c # flag[m] \/ n # m
      BY <2>1, <2>2, <3>1 DEF Booted
    <3>2. CASE c = flag[m] /\ n = m
      BY <2>1, <3>2 DEF Booted
    <3> QED  BY <3>1, <3>2
  <2> QED  BY <2>1, <2>2 DEF FreshFlagKept, Booted
<1>5. ASSUME NEW a \in Auths, (Watch(a) /\ ~Move(a)) \/ Expire(a) \/ Script(a)
      PROVE  UNCHANGED <<moved, installs>>
  BY <1>5 DEF Watch, Snapshot, Measure, Read, TestFlag, Expire, Script, StartWatcher, CreateFlag
<1>6. ASSUME NEW a \in Auths, NEW ms \in SUBSET Macs, Authorize(a, ms)
      PROVE  UNCHANGED <<moved, installs>>
  BY <1>6 DEF Authorize
<1>7. CASE UNCHANGED vars
  BY <1>2, <1>7 DEF vars
<1> QED  BY <1>1, <1>2, <1>3, <1>4, <1>5, <1>6, <1>7, MoveCases DEF Next, Watch

\* A flag is moved away because it was served itself, for any number of scripts,
\* watchers and nodes: the offset of install-once-watcher.sh keeps older lines out.
THEOREM FreshFlags == "hasty" \notin World => (Spec => []FreshFlagKept)
<1> SUFFICES ASSUME "hasty" \notin World PROVE Spec => []FreshFlagKept
  OBVIOUS
<1>1. Init => FreshFlagKept
  BY DEF Init, FreshFlagKept
<1>2. IInv /\ FreshFlagKept /\ [Next]_vars => FreshFlagKept'
  BY FreshStep
<1> QED  BY <1>1, <1>2, Invariance, PTL DEF Spec

LEMMA UnwatchedStays ==
  ASSUME IInv, [Next]_vars, NEW a \in Auths, Unwatched(a)
  PROVE  Unwatched(a)'
BY EndsStay DEF IInv, Unwatched

\* A node whose flag was served boots again only after its flag is gone, or
\* nobody is left to move it: its own watcher reached its limit, or died in a
\* race and another one reached its limit.
LEMMA SecondBoot ==
  ASSUME "hasty" \notin World, IInv, NEW m \in Macs, Boot(m), installs[flag[m]][m] >= 1
  PROVE  Unwatched(flag[m])
<1> USE DEF IInv
<1>1. Booted(m) /\ Patient(m) /\ Served(m)
  BY BootFacts DEF Boot, Served
<1>2. ASSUME NEW w \in Auths PROVE ~Sees(w, m)
  <2>1. offset[w] \in Nat /\ line[w] \in Nat /\ Placed(w)
    BY DEF TypeOK, PlaceInv
  <2>2. ASSUME NEW p \in 1..Len(log), p >= Ahead(w) PROVE p > offset[w]
    BY <2>1, <2>2 DEF Ahead, Placed
  <2> QED  BY <1>1, <2>2, SettledRead DEF Sees
<1>3. Expired /\ ~Live(flag[m])
  BY <1>1, <1>2 DEF SeenInv, Followed, Booted
<1>4. watcher[flag[m]] \notin {"off", "starting"}
  BY <1>1 DEF ScriptInv, Booted, Served
<1>5. watcher[flag[m]] \in {"expired", "dead"}
  BY <1>1, <1>3, <1>4 DEF TypeOK, Live, Gone, Booted
<1> QED  BY <1>3, <1>5 DEF Unwatched, Expired

LEMMA OnceStep ==
  ASSUME "hasty" \notin World, IInv, OnceForEachFlag, [Next]_vars
  PROVE  OnceForEachFlag'
<1>1. ASSUME NEW m \in Macs, Boot(m) PROVE OnceForEachFlag'
  <2>1. Booted(m)
    BY <1>1, BootFacts DEF IInv
  <2>2. ASSUME NEW a \in Auths, NEW n \in Macs, installs'[a][n] > 1 PROVE Unwatched(a)
    <3>1. CASE a = flag[m] /\ n = m
      BY <1>1, <2>1, <2>2, <3>1, SecondBoot DEF Booted
    <3>2. CASE ~(a = flag[m] /\ n = m)
      BY <2>1, <2>2, <3>2 DEF Booted, OnceForEachFlag
    <3> QED  BY <3>1, <3>2
  <2> QED  BY <2>2, UnwatchedStays DEF OnceForEachFlag
<1>2. CASE UNCHANGED installs
  BY <1>2, UnwatchedStays DEF OnceForEachFlag
<1>3. ASSUME NEW a \in Auths, Steps(a) PROVE UNCHANGED installs
  BY <1>3, OthersRest DEF IInv
<1>4. ASSUME \/ \E a \in Auths, ms \in SUBSET Macs : Authorize(a, ms)
             \/ \E a \in Auths, m \in Macs : CreateFlag(a, m)
             \/ UNCHANGED vars
      PROVE  UNCHANGED installs
  BY <1>4 DEF Authorize, CreateFlag, vars
<1> QED  BY <1>1, <1>2, <1>3, <1>4 DEF Next, Script, Steps

\* One authorization reinstalls a node once, however many scripts and watchers
\* overlap, race for a flag and die of a failed mv, as long as its own watcher
\* has not reached its time limit, nor, when that one died, any other.
THEOREM OneInstallation == "hasty" \notin World => (Spec => []OnceForEachFlag)
<1> SUFFICES ASSUME "hasty" \notin World PROVE Spec => []OnceForEachFlag
  OBVIOUS
<1>1. Init => OnceForEachFlag
  BY DEF Init, OnceForEachFlag
<1>2. IInv /\ OnceForEachFlag /\ [Next]_vars => OnceForEachFlag'
  BY OnceStep
<1> QED  BY <1>1, <1>2, Invariance, PTL DEF Spec

\* Offsets, sizes, lines, flags and counts keep to their values.
THEOREM TypeCorrect == "hasty" \notin World => (Spec => []TypeOK)
BY Invariance, PTL DEF IInv
=============================================================================
