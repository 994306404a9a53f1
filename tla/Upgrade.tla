------------------------------ MODULE Upgrade ------------------------------
(***************************************************************************)
(* `douglas upgrade` and `douglas rollback`: one installed binary is       *)
(* replaced by another while the services run (src/bootstrap/upgrade.rs).  *)
(* The plan keeps a copy of the installed binary and drops the oldest of   *)
(* the copies, writes a journal, stops the services, puts the new binary   *)
(* in place, runs its `start`, watches the services for a while and clears *)
(* the journal.  A command that fails ends the plan, and the completed     *)
(* ones are rolled back in reverse (module Blueprint).                     *)
(*                                                                         *)
(* `start` spawns the services that do not listen, waits for them and      *)
(* records the binary that did so in the install marker.  The marker is    *)
(* truncated and then written: one that was cut off refuses every later    *)
(* `start`.  A service that is spawned listens and beats some time later:  *)
(* until then the heartbeat file, which is what a service is killed by,    *)
(* names an older process.                                                 *)
(***************************************************************************)
EXTENDS Naturals, FiniteSets, Sequences

CONSTANTS
    Versions,      \* the releases
    Format,        \* what a release expects of the data and core seedlings on the host
    StopOrder,     \* the services, in the order in which they are stopped
    Bract,         \* the one that is asked to stop before it is killed
    Pids,          \* bound: the processes of a service that can be told apart
    RetainedCount, \* how many binaries are kept
    Polls,         \* how often the services' health is looked at after the first time
    AnyTarget,     \* may an operator name a version, or only follow the default
    Hosts,         \* are the hosts slow: may a command go on while a process is still
                   \* coming up or ending
    MaxCommands,   \* bound: commands of the operator, on a host that is slow or not
    MaxFaults,     \* bound: what fails
    MaxCrashes     \* bound: commands that are killed, or hosts that are rebooted

\* A newer release never expects older data.
ASSUME UpgradeAssumption ==
    /\ Versions \subseteq Nat \ {0} /\ IsFiniteSet(Versions) /\ Versions # {}
    /\ Format \in [Versions -> Nat]
    /\ \A v, w \in Versions : v <= w => Format[v] <= Format[w]
    /\ StopOrder \in Seq(STRING)
    /\ Pids \subseteq Nat \ {0} /\ Pids # {}
    /\ {RetainedCount, Polls, MaxFaults, MaxCrashes} \subseteq Nat
    /\ AnyTarget \in BOOLEAN /\ Hosts \subseteq BOOLEAN /\ Hosts # {}
    /\ MaxCommands \in [Hosts -> Nat]

VARIABLES
    slow,      \* is the host slow
    installed, \* the version of the binary that the link leads to
    kept,      \* the versions that are kept beside it
    marker,    \* the version in the install marker (NoVersion: the marker was cut off)
    journal,   \* the upgrade journal
    proc,      \* the processes of each service
    heartbeat, \* the process that each service's heartbeat file names (NoPid: none ever)
    task,      \* the upgrade or rollback that runs
    start,     \* the `start` that runs
    budget     \* what is left of the bounded events

vars == <<slow, installed, kept, marker, journal, proc, heartbeat, task, start, budget>>
binaries == <<slow, installed, kept, marker, journal>>
services == <<proc, heartbeat>>

Services == {StopOrder[i] : i \in 1..Len(StopOrder)}

NoPid == 0
NoVersion == 0
Gone == [version |-> NoVersion, stage |-> "none"]
Process == [version : Versions, stage : {"starting", "up", "stopping"}] \cup {Gone}
Listens(s) == \E p \in Pids : proc[s][p].stage \in {"up", "stopping"}
Quiet == \A s \in Services, p \in Pids : proc[s][p].stage \in {"none", "up"}

Settled == slow \/ Quiet

NoJournal == [from |-> NoVersion, to |-> NoVersion, torn |-> FALSE]
TornJournal == [NoJournal EXCEPT !.torn = TRUE]

NoTask == [mode |-> "idle", from |-> NoVersion, to |-> NoVersion, restorable |-> FALSE,
           at |-> 0, poll |-> 0, seen |-> [s \in Services |-> NoPid], clean |-> TRUE]
NoStart == [by |-> "nobody", version |-> NoVersion, need |-> {}, missing |-> FALSE]

First == CHOOSE p \in Pids : TRUE
Init ==
    /\ slow \in Hosts
    /\ installed \in Versions
    /\ kept = {}
    /\ marker = installed
    /\ journal = NoJournal
    /\ proc = [s \in Services |-> [p \in Pids |->
                  IF p = First THEN [version |-> installed, stage |-> "up"] ELSE Gone]]
    /\ heartbeat = [s \in Services |-> First]
    /\ task = NoTask
    /\ start = NoStart
    /\ budget = [commands |-> MaxCommands[slow], faults |-> MaxFaults, crashes |-> MaxCrashes]

Fault == budget.faults > 0 /\ budget' = [budget EXCEPT !.faults = @ - 1]

-----------------------------------------------------------------------------
(* The processes of the services. *)

\* A spawned process binds its socket and beats at once; one that finds the
\* port of its service taken ends.
ComeUp(s, p) ==
    /\ proc[s][p].stage = "starting"
    /\ \/ /\ proc' = [proc EXCEPT ![s][p].stage = "up"]
          /\ heartbeat' = [heartbeat EXCEPT ![s] = p]
       \/ /\ Listens(s)
          /\ proc' = [proc EXCEPT ![s][p] = Gone]
          /\ UNCHANGED heartbeat
    /\ UNCHANGED <<binaries, task, start, budget>>

Beat(s, p) ==
    /\ proc[s][p].stage \in {"up", "stopping"}
    /\ heartbeat[s] # p
    /\ heartbeat' = [heartbeat EXCEPT ![s] = p]
    /\ UNCHANGED <<binaries, proc, task, start, budget>>

\* bract answers the request to stop before it ends.
Exit(s, p) ==
    /\ proc[s][p].stage = "stopping"
    /\ proc' = [proc EXCEPT ![s][p] = Gone]
    /\ UNCHANGED <<binaries, heartbeat, task, start, budget>>

Die(s, p) ==
    /\ proc[s][p].stage \in {"starting", "up"}
    /\ Fault
    /\ proc' = [proc EXCEPT ![s][p] = Gone]
    /\ UNCHANGED <<binaries, heartbeat, task, start>>

\* What becomes of a service that is killed: does it succeed, and its processes then.
Kill(s) ==
    IF heartbeat[s] # NoPid /\ proc[s][heartbeat[s]] # Gone
    THEN [ok |-> TRUE, now |-> [proc[s] EXCEPT ![heartbeat[s]] = Gone]]
    ELSE [ok |-> FALSE, now |-> proc[s]]

\* bract is asked first, and killed when it does not answer.
Stops(s) ==
    {Kill(s)} \cup
    {[ok |-> TRUE, now |-> [proc[s] EXCEPT ![p].stage = "stopping"]] :
        p \in {q \in Pids : s = Bract /\ proc[s][q].stage = "up"}}

\* Everything is stopped, whatever fails.
MutantStopUntilFailure ==
    \E stop \in [Services -> UNION {Stops(s) : s \in Services}] :
        /\ \A s \in Services : stop[s] \in Stops(s)
        /\ proc' = [s \in Services |->
               IF \A i, j \in 1..Len(StopOrder) :
                      j <= i /\ StopOrder[i] = s => stop[StopOrder[j]].ok
               THEN stop[s].now ELSE proc[s]]
StopAll ==
    \E stop \in [Services -> UNION {Stops(s) : s \in Services}] :
        /\ \A s \in Services : stop[s] \in Stops(s)
        /\ proc' = [s \in Services |-> stop[s].now]

-----------------------------------------------------------------------------
(* `start`, run by the operator or as a command of a plan. *)

Spawned(s, version) ==
    LET free == {p \in Pids : proc[s][p] = Gone /\ p # heartbeat[s]} IN
    [proc[s] EXCEPT ![CHOOSE p \in free : \A q \in free : p <= q] =
        [version |-> version, stage |-> "starting"]]
CanSpawn(s) == \E p \in Pids : proc[s][p] = Gone /\ p # heartbeat[s]

Torn == marker = NoVersion
Compatible(version) == ~Torn /\ Format[marker] <= Format[version]

\* Services start in the order they are stopped in, but the supervisor, which is
\* stopped first, comes last.
StartOrder == Append(Tail(StopOrder), Head(StopOrder))
Earlier(s, t) ==
    \E i, j \in 1..Len(StartOrder) : i < j /\ StartOrder[i] = s /\ StartOrder[j] = t

\* The services that do not listen are spawned, up to one that cannot be.
Start(by) ==
    /\ start = NoStart
    /\ Settled
    /\ LET need == IF Compatible(installed) THEN {s \in Services : ~Listens(s)} ELSE {} IN
           \E spawn \in SUBSET need :
               /\ \A s \in spawn : CanSpawn(s) /\ \A t \in need : Earlier(t, s) => t \in spawn
               /\ spawn # need => budget.faults > 0
               /\ budget' = [budget EXCEPT !.faults = @ - (IF spawn = need THEN 0 ELSE 1),
                                         !.commands = @ - (IF by = "operator" THEN 1 ELSE 0)]
               /\ proc' = [s \in Services |-> IF s \in spawn THEN Spawned(s, installed) ELSE proc[s]]
               /\ start' = [by |-> by, version |-> installed, need |-> need,
                            missing |-> spawn # need \/ ~Compatible(installed)]
    /\ UNCHANGED <<binaries, heartbeat>>

StartReady == start.by # "nobody" /\ ~start.missing /\ \A s \in start.need : Listens(s)

\* A service that was not spawned, or is not there in time; or one of the
\* core seedlings cannot be brought up.
StartFailed ==
    /\ start.by # "nobody"
    /\ Settled
    /\ \/ start.missing /\ UNCHANGED budget
       \/ ~start.missing /\ \E s \in start.need : ~Listens(s) /\ UNCHANGED budget
       \/ StartReady /\ Fault

\* A journal that cannot be deleted is left behind.
ClearJournal ==
    \/ journal' = NoJournal /\ UNCHANGED budget
    \/ UNCHANGED journal /\ Fault

\* Where a `start` that has ended leaves its plan, if it was one's command.
StartEnds(ok) ==
    /\ start' = NoStart
    /\ task' =
        CASE start.by = "operator" -> task
          [] start.by = "run" /\ ok -> [task EXCEPT !.at = @ + 1]
          [] start.by = "run" /\ ~ok -> [task EXCEPT !.mode = "undo", !.at = @ - 1]
          [] start.by = "undo" -> [task EXCEPT !.at = @ - 1, !.clean = @ /\ ok]

\* The install marker is written at the very end: it is truncated first.
MarkerKeptOrCutOff == UNCHANGED marker \/ (StartReady /\ marker' = NoVersion)
StartSucceeds ==
    /\ StartReady
    /\ marker' = start.version
    /\ StartEnds(TRUE)
    /\ IF start.by = "undo"
       THEN ClearJournal
       ELSE UNCHANGED <<journal, budget>>
    /\ UNCHANGED <<slow, installed, kept, services>>

\* A new version that fails to start is stopped, as far as it can be.  The write of the
\* marker may be what fails.
StartFails ==
    /\ StartFailed
    /\ StartEnds(FALSE)
    /\ IF start.by = "run" THEN StopAll ELSE UNCHANGED proc
    /\ MarkerKeptOrCutOff
    /\ UNCHANGED <<slow, installed, kept, journal, heartbeat>>

OperatorStarts ==
    /\ task = NoTask
    /\ budget.commands > 0
    /\ Start("operator")
    /\ UNCHANGED task

-----------------------------------------------------------------------------
(* The plan. *)

MutantRecordsLate ==
    LET do(cmd) == [cmd |-> cmd, service |-> ""] IN
    <<do("RetainPreviousBinary")>>
    \o (IF task.restorable THEN <<do("RestartPreviousVersion")>> ELSE <<>>)
    \o [i \in 1..Len(StopOrder) |-> [cmd |-> "Stop", service |-> StopOrder[i]]]
    \o <<do("OverwriteDouglasExecutable"), do("RecordUpgrade"), do("StartNewVersion"),
         do("ConfirmHealthy"), do("ClearUpgradeRecord")>>
Plan ==
    LET do(cmd) == [cmd |-> cmd, service |-> ""] IN
    <<do("RetainPreviousBinary")>>
    \o (IF task.restorable THEN <<do("RestartPreviousVersion")>> ELSE <<>>)
    \o <<do("RecordUpgrade")>>
    \o [i \in 1..Len(StopOrder) |-> [cmd |-> "Stop", service |-> StopOrder[i]]]
    \o <<do("OverwriteDouglasExecutable"), do("StartNewVersion"), do("ConfirmHealthy"),
         do("ClearUpgradeRecord")>>

\* A rollback is refused across a change of format, an upgrade only without the
\* operator's --allow-one-way.
Same(v) == Format[v] = Format[installed]
Begin(v) ==
    /\ task = NoTask /\ start = NoStart
    /\ Settled
    /\ budget.commands > 0
    /\ budget' = [budget EXCEPT !.commands = @ - 1]
    /\ task' = [NoTask EXCEPT !.mode = "run", !.from = installed, !.to = v,
                             !.restorable = Same(v), !.at = 1]
    /\ UNCHANGED <<binaries, services, start>>

BeginUpgrade ==
    \E v \in Versions :
        /\ v > installed
        /\ AnyTarget \/ \A w \in kept : w < v
        /\ Begin(v)

BeginRollback ==
    \E v \in kept :
        /\ v < installed
        /\ AnyTarget \/ \A w \in kept : w < installed => w <= v
        /\ Same(v)
        /\ Begin(v)

Running(cmd) ==
    task.mode = "run" /\ start = NoStart /\ task.at <= Len(Plan) /\ Plan[task.at].cmd = cmd
Completed == task' = [task EXCEPT !.at = @ + 1]
Failed == task' = [task EXCEPT !.mode = "undo", !.at = @ - 1]

\* The copies that are too many are deleted; one that cannot be is left.
MutantOldest(set) == {v \in set : Cardinality({w \in set : w < v}) < RetainedCount}
Newest(set) == {v \in set : Cardinality({w \in set : w > v}) < RetainedCount}
Prune(set) ==
    \/ kept' = Newest(set) /\ UNCHANGED budget
    \/ \E left \in SUBSET (set \ Newest(set)) : left # {} /\ kept' = Newest(set) \cup left /\ Fault

RetainPreviousBinary ==
    /\ Running("RetainPreviousBinary")
    /\ \/ Prune(kept \cup {task.from}) /\ Completed
       \/ Fault /\ Failed /\ UNCHANGED kept
    /\ UNCHANGED <<slow, installed, marker, journal, services, start>>

RestartPreviousVersion ==
    /\ Running("RestartPreviousVersion")
    /\ Completed
    /\ UNCHANGED <<binaries, services, start, budget>>

RecordUpgrade ==
    /\ Running("RecordUpgrade")
    /\ \/ /\ journal' = [from |-> task.from, to |-> task.to, torn |-> FALSE]
          /\ Completed /\ UNCHANGED budget
       \/ journal' \in {journal, TornJournal} /\ Failed /\ Fault
    /\ UNCHANGED <<slow, installed, kept, marker, services, start>>

Stop ==
    /\ Running("Stop")
    /\ LET s == Plan[task.at].service IN
           \E stop \in Stops(s) :
               /\ proc' = [proc EXCEPT ![s] = stop.now]
               /\ IF stop.ok THEN Completed ELSE Failed
    /\ UNCHANGED <<binaries, heartbeat, start, budget>>

OverwriteDouglasExecutable ==
    /\ Running("OverwriteDouglasExecutable")
    /\ \/ installed' = task.to /\ Completed /\ UNCHANGED budget
       \/ Fault /\ Failed /\ UNCHANGED installed
    /\ UNCHANGED <<slow, kept, marker, journal, services, start>>

StartNewVersion ==
    /\ Running("StartNewVersion")
    /\ Start("run")
    /\ UNCHANGED task

\* Each service's heartbeat names a process that lives and that it named before.
Healthy ==
    \A s \in Services :
        /\ heartbeat[s] # NoPid /\ proc[s][heartbeat[s]] # Gone
        /\ task.seen[s] \in {NoPid, heartbeat[s]}

MutantOneMorePoll == task.poll > Polls
SoakEnds == task.poll = Polls
ConfirmHealthy ==
    /\ Running("ConfirmHealthy")
    /\ Settled
    /\ IF ~Healthy THEN Failed
       ELSE IF SoakEnds THEN Completed
       ELSE task' = [task EXCEPT !.poll = @ + 1, !.seen = heartbeat]
    /\ UNCHANGED <<binaries, services, start, budget>>

ClearUpgradeRecord ==
    /\ Running("ClearUpgradeRecord")
    /\ ClearJournal
    /\ task' = NoTask
    /\ UNCHANGED <<slow, installed, kept, marker, services, start>>

-----------------------------------------------------------------------------
(* The rollback of the plan. *)

Undoing(cmds) ==
    task.mode = "undo" /\ start = NoStart /\ task.at > 0 /\ Plan[task.at].cmd \in cmds
Undone(ok) == task' = [task EXCEPT !.at = @ - 1, !.clean = @ /\ ok]

NothingToUndo ==
    /\ Undoing({"RetainPreviousBinary", "RecordUpgrade", "Stop", "ConfirmHealthy"})
    /\ Undone(TRUE)
    /\ UNCHANGED <<binaries, services, start, budget>>

UndoStartNewVersion ==
    /\ Undoing({"StartNewVersion"})
    /\ StopAll
    /\ Undone(TRUE)
    /\ UNCHANGED <<binaries, heartbeat, start, budget>>

\* The kept copy is put back, unless the upgrade was one-way; a copy that is not
\* there is an error of the rollback.
MutantAlwaysRestored == TRUE
MutantUpgradesOnly == task.restorable /\ task.to > task.from
Restored == task.restorable
UndoOverwrite ==
    /\ Undoing({"OverwriteDouglasExecutable"})
    /\ \/ ~Restored /\ Undone(TRUE) /\ UNCHANGED <<installed, budget>>
       \/ /\ Restored /\ task.from \in kept
          /\ installed' = task.from /\ Undone(TRUE) /\ UNCHANGED budget
       \/ /\ Restored /\ UNCHANGED installed /\ Undone(FALSE)
          /\ \/ task.from \notin kept /\ UNCHANGED budget
             \/ Fault
    /\ UNCHANGED <<slow, kept, marker, journal, services, start>>

UndoRestartPreviousVersion ==
    /\ Undoing({"RestartPreviousVersion"})
    /\ Start("undo")
    /\ UNCHANGED task

GiveUp ==
    /\ task.mode = "undo" /\ task.at = 0 /\ start = NoStart
    /\ task' = NoTask
    /\ UNCHANGED <<binaries, services, start, budget>>

\* The command is killed; or the host goes down, and with it every service.
Crash ==
    /\ budget.crashes > 0
    /\ task # NoTask \/ start # NoStart
    /\ budget' = [budget EXCEPT !.crashes = @ - 1]
    /\ task' = NoTask /\ start' = NoStart
    /\ \/ UNCHANGED proc
       \/ proc' = [s \in Services |-> [p \in Pids |-> Gone]]
    /\ MarkerKeptOrCutOff
    /\ UNCHANGED <<slow, installed, kept, journal, heartbeat>>

Next ==
    \/ \E s \in Services, p \in Pids : ComeUp(s, p) \/ Beat(s, p) \/ Exit(s, p) \/ Die(s, p)
    \/ OperatorStarts \/ StartSucceeds \/ StartFails
    \/ BeginUpgrade \/ BeginRollback
    \/ RetainPreviousBinary \/ RestartPreviousVersion \/ RecordUpgrade \/ Stop
    \/ OverwriteDouglasExecutable \/ StartNewVersion \/ ConfirmHealthy \/ ClearUpgradeRecord
    \/ NothingToUndo \/ UndoStartNewVersion \/ UndoOverwrite \/ UndoRestartPreviousVersion \/ GiveUp
    \/ Crash

Spec == Init /\ [][Next]_vars

-----------------------------------------------------------------------------
(* Properties *)

\* Every variable has its type; a `start` run by a plan belongs to one.
TypeOK ==
    /\ slow \in Hosts /\ installed \in Versions /\ kept \subseteq Versions
    /\ marker \in Versions \cup {NoVersion}
    /\ journal \in [from : Versions \cup {NoVersion}, to : Versions \cup {NoVersion}, torn : BOOLEAN]
    /\ proc \in [Services -> [Pids -> Process]]
    /\ heartbeat \in [Services -> Pids \cup {NoPid}]
    /\ task \in [mode : {"idle", "run", "undo"}, from : Versions \cup {NoVersion},
                 to : Versions \cup {NoVersion}, restorable : BOOLEAN,
                 at : 0..Len(StopOrder) + 7, poll : 0..Polls,
                 seen : [Services -> Pids \cup {NoPid}], clean : BOOLEAN]
    /\ start \in [by : {"nobody", "operator", "run", "undo"}, version : Versions \cup {NoVersion},
                  need : SUBSET Services, missing : BOOLEAN]
    /\ budget \in [commands : 0..MaxCommands[slow], faults : 0..MaxFaults, crashes : 0..MaxCrashes]

\* While an upgrade or rollback is under way the version that it replaces is kept
\* where its journal says: that is what it is undone from, and what the operator
\* is pointed to when it is interrupted.
PreviousKept ==
    task # NoTask /\ journal.from = task.from /\ journal.to = task.to => task.from \in kept

\* The binary that is installed never expects older data than what the last complete
\* start has left (a rollback or the undoing of an upgrade never goes back across a
\* change of format): `start` refuses it only when the marker was cut off.
RefusedOnlyIfTorn == Compatible(installed) \/ Torn

\* A host that no journal marks as in the middle of an upgrade has the binary
\* installed that was last started completely, unless the marker was cut off.
SettledIsStarted ==
    task = NoTask /\ journal = NoJournal => installed = marker \/ Torn

\* A host that is settled runs one version: no process of the other version of
\* a failed or completed upgrade is left beside it.
OneVersion ==
    task = NoTask /\ start = NoStart /\ journal = NoJournal =>
        \A s \in Services, p \in Pids :
            proc[s][p].stage \in {"starting", "up"} => proc[s][p].version = installed

\* It does so when the services come up and end before a command goes on: what
\* is stopped is then what the heartbeat files name.
OneVersionUnlessSlow == ~slow => OneVersion

\* A restorable upgrade or rollback that fails is undone: unless something outside
\* went wrong on the way back as well, the previous binary is installed again.
FailureUndone ==
    [][GiveUp /\ task.restorable /\ task.clean => installed = task.from]_vars
=============================================================================
