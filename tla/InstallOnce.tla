----------------------------- MODULE InstallOnce -----------------------------
(***************************************************************************)
(* One-shot reinstallation over PXE: create-install-once.sh and its batch  *)
(* form put a flag file for each node's MAC and start a watcher in the     *)
(* background; a node that boots fetches its flag over HTTP and, if it is  *)
(* there, wipes its disk; install-once-watcher.sh reads the web server's   *)
(* log and moves a flag away once it was served                            *)
(* (infra/pxe, with http/boot.ipxe on the node).                           *)
(*                                                                         *)
(* Every watcher looks after every flag, so watchers of several            *)
(* authorizations run side by side.  The log holds only the lines a        *)
(* watcher's grep lets through (GET of a flag, 200), its size in lines.    *)
(* Rotation of the log is left out.                                        *)
(***************************************************************************)
EXTENDS Naturals, Sequences

CONSTANTS
    Auths,         \* runs of a create script; each starts one watcher
    Macs,          \* nodes
    MaxBoots,      \* bound on fetches of a flag
    World,         \* what people and nodes do; see Habits
    NoAuth         \* "no flag"

\* overlap: a node is authorized while an earlier watcher still runs;
\* expire: watchers reach their time limit; hasty: a node is booted or
\* authorized again before every watcher has read what it fetched.
Habits == {"overlap", "expire", "hasty"}

ASSUME InstallOnceAssumption ==
    NoAuth \notin Auths /\ World \subseteq Habits /\ MaxBoots \in Nat

VARIABLES
    script,        \* a create script
    todo,          \* nodes it still has to make a flag for
    flag,          \* whose flag is in install-once/
    log,           \* access.log
    watcher,       \* the watcher a script started
    offset, size,  \* its variables
    line, end,     \* the line of the log it handles, the last one it has read
    installs,      \* history: fetches of a flag, each one a reinstallation
    moved          \* history: flags moved to used/

mine == <<offset, size, line, end>>
vars == <<script, todo, flag, log, watcher, mine, installs, moved>>

Gone == {"off", "expired", "dead"}

TypeOK ==
    /\ script \in [Auths -> {"idle", "flags", "done"}]
    /\ todo \in [Auths -> SUBSET Macs]
    /\ flag \in [Macs -> Auths \cup {NoAuth}]
    /\ log \in Seq(Macs)
    /\ watcher \in [Auths -> Gone \cup {"starting", "loop", "read", "line", "move"}]
    /\ offset \in [Auths -> Nat] /\ size \in [Auths -> Nat]
    /\ line \in [Auths -> Nat] /\ end \in [Auths -> Nat]
    /\ installs \in [Auths -> [Macs -> Nat]]
    /\ moved \subseteq Auths \X Macs

Init ==
    /\ script = [a \in Auths |-> "idle"]
    /\ todo = [a \in Auths |-> {}]
    /\ flag = [m \in Macs |-> NoAuth]
    /\ log = << >>
    /\ watcher = [a \in Auths |-> "off"]
    /\ offset = [a \in Auths |-> 0]
    /\ size = [a \in Auths |-> 0]
    /\ line = [a \in Auths |-> 0]
    /\ end = [a \in Auths |-> 0]
    /\ installs = [a \in Auths |-> [m \in Macs |-> 0]]
    /\ moved = {}

-----------------------------------------------------------------------------
Alive(a) == watcher[a] \notin Gone

\* Watcher a has still to come across a line of node m, or to be through
\* with its round.
Unread(a, m) == Alive(a) /\ \E i \in (offset[a] + 1)..Len(log) : log[i] = m

\* Scripts and the rounds of a watcher take a second, nodes and operators
\* minutes: nobody acts on m before scripts and watchers have settled.  A
\* watcher that has ended, of its time limit or of an error, is settled.
Settled(m) ==
    \A a \in Auths :
        /\ m \notin todo[a] /\ (flag[m] = a => script[a] # "flags")
        /\ watcher[a] # "starting" /\ ~Unread(a, m)

Patient(m) == "hasty" \notin World => Settled(m)

-----------------------------------------------------------------------------
(* create-install-once.sh (one node), create-install-once-batch.sh *)

Authorize(a, ms) ==
    /\ script[a] = "idle" /\ ms # {}
    /\ \A m \in ms : Patient(m)
    /\ "overlap" \notin World => \A b \in Auths : ~Alive(b) /\ script[b] # "flags"
    /\ script' = [script EXCEPT ![a] = "flags"]
    /\ todo' = [todo EXCEPT ![a] = ms]
    /\ UNCHANGED <<flag, log, watcher, mine, installs, moved>>

\* cat > $mac.ipxe, replacing a flag that is there.
CreateFlag(a, m) ==
    /\ script[a] = "flags" /\ m \in todo[a]
    /\ todo' = [todo EXCEPT ![a] = @ \ {m}]
    /\ flag' = [flag EXCEPT ![m] = a]
    /\ UNCHANGED <<script, log, watcher, mine, installs, moved>>

\* nohup install-once-watcher.sh &
StartWatcher(a) ==
    /\ script[a] = "flags" /\ todo[a] = {}
    /\ script' = [script EXCEPT ![a] = "done"]
    /\ watcher' = [watcher EXCEPT ![a] = "starting"]
    /\ UNCHANGED <<todo, flag, log, mine, installs, moved>>

-----------------------------------------------------------------------------
(* install-once-watcher.sh *)

Goto(a, label) == watcher' = [watcher EXCEPT ![a] = label]

\* Mutated: the log is read from its beginning.
SnapshotNothing(a) ==
    /\ watcher[a] = "starting"
    /\ Goto(a, "loop")
    /\ UNCHANGED <<script, todo, flag, log, mine, installs, moved>>

\* offset=$(wc -c < "$log")
Snapshot(a) ==
    /\ watcher[a] = "starting"
    /\ offset' = [offset EXCEPT ![a] = Len(log)]
    /\ Goto(a, "loop")
    /\ UNCHANGED <<script, todo, flag, log, size, line, end, installs, moved>>

\* size=$(wc -c < "$log")
Measure(a) ==
    /\ watcher[a] = "loop"
    /\ size' = [size EXCEPT ![a] = Len(log)]
    /\ Goto(a, "read")
    /\ UNCHANGED <<script, todo, flag, log, offset, line, end, installs, moved>>

\* Mutated: the size is taken after the lines have been read.
NextRoundLate(a) ==
    /\ offset' = [offset EXCEPT ![a] = Len(log)]
    /\ Goto(a, "loop")

NextRound(a) ==
    /\ offset' = [offset EXCEPT ![a] = size[a]]
    /\ Goto(a, "loop")

\* dd: to the end of the log, which may be past the size measured.
Read(a) ==
    /\ watcher[a] = "read"
    /\ line' = [line EXCEPT ![a] = offset[a] + 1]
    /\ end' = [end EXCEPT ![a] = Len(log)]
    /\ IF Len(log) = offset[a] THEN NextRound(a) ELSE Goto(a, "line") /\ UNCHANGED offset
    /\ UNCHANGED <<script, todo, flag, log, size, installs, moved>>

\* The line is through: the next one, or the next round.
DropLine(a) ==
    /\ line' = [line EXCEPT ![a] = @ + 1]
    /\ IF line[a] = end[a] THEN NextRound(a) ELSE Goto(a, "line") /\ UNCHANGED offset
    /\ UNCHANGED end

\* [ -f "$file" ]
TestFlag(a) ==
    /\ watcher[a] = "line"
    /\ IF flag[log[line[a]]] # NoAuth
       THEN Goto(a, "move") /\ UNCHANGED <<offset, line, end>>
       ELSE DropLine(a)
    /\ UNCHANGED <<script, todo, flag, log, size, installs, moved>>

\* mv; when another watcher was faster it fails, and with set -e so does the
\* watcher.
Move(a) ==
    LET m == log[line[a]] IN
    /\ watcher[a] = "move"
    /\ \/ /\ flag[m] # NoAuth
          /\ flag' = [flag EXCEPT ![m] = NoAuth]
          /\ moved' = moved \cup {<<flag[m], m>>}
          /\ DropLine(a)
       \/ /\ flag[m] = NoAuth
          /\ Goto(a, "dead")
          /\ UNCHANGED <<flag, moved, offset, line, end>>
    /\ UNCHANGED <<script, todo, log, size, installs>>

\* The time limit is looked at once in a round.
Expire(a) ==
    /\ "expire" \in World
    /\ watcher[a] = "loop"
    /\ Goto(a, "expired")
    /\ UNCHANGED <<script, todo, flag, log, mine, installs, moved>>

-----------------------------------------------------------------------------
(* A node: boot.ipxe *)

\* The node fetches its flag and reinstalls itself, also when no watcher is
\* left; without a flag it boots from its disk and nothing changes.
Boot(m) ==
    LET a == flag[m] IN
    /\ a # NoAuth /\ Len(log) < MaxBoots
    /\ Patient(m)
    /\ log' = Append(log, m)
    /\ installs' = [installs EXCEPT ![a][m] = @ + 1]
    /\ UNCHANGED <<script, todo, flag, watcher, mine, moved>>

-----------------------------------------------------------------------------
Script(a) == StartWatcher(a) \/ \E m \in Macs : CreateFlag(a, m)

Watch(a) == Snapshot(a) \/ Measure(a) \/ Read(a) \/ TestFlag(a) \/ Move(a)

Next ==
    \/ \E a \in Auths, ms \in SUBSET Macs : Authorize(a, ms)
    \/ \E a \in Auths : Script(a) \/ Watch(a) \/ Expire(a)
    \/ \E m \in Macs : Boot(m)

Spec == Init /\ [][Next]_vars

\* Scripts and watchers keep running.
FairSpec == Spec /\ \A a \in Auths : WF_vars(Script(a)) /\ WF_vars(Watch(a))

-----------------------------------------------------------------------------
(* Properties *)

\* The watcher of authorization a reached its time limit, or it lost a race
\* for a flag, and another one reached the limit.
Unwatched(a) ==
    \/ watcher[a] = "expired"
    \/ watcher[a] = "dead" /\ \E b \in Auths : watcher[b] = "expired"

\* While its watcher runs, and after that watcher died of a failed mv as long
\* as no other has reached its time limit, an authorization reinstalls a node
\* once, however watchers overlap.  When a limit has passed, the flag may stay
\* and the node is reinstalled at every boot.
OnceForEachFlag == \A a \in Auths, m \in Macs : installs[a][m] > 1 => Unwatched(a)

\* A flag is moved away because it was served itself, not because of a line
\* that an earlier flag of the same node left in the log.
FreshFlagKept == \A a \in Auths, m \in Macs : <<a, m>> \in moved => installs[a][m] >= 1

\* A flag that was served is moved away or replaced, although watchers race
\* for it and die, unless one of them reaches its time limit.
ServedIsMoved ==
    \A a \in Auths, m \in Macs :
        flag[m] = a /\ installs[a][m] > 0
            ~> flag[m] # a \/ \E b \in Auths : watcher[b] = "expired"
=============================================================================
