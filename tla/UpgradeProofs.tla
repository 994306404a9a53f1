--------------------------- MODULE UpgradeProofs ---------------------------
(* What an upgrade guarantees for any releases and services, any number of   *)
(* kept copies, on a slow host or not, whatever fails or is killed.          *)
EXTENDS Upgrade, Integers, FiniteSetTheorems, WellFoundedInduction, TLAPS

Tasks ==
    [mode : {"idle", "run", "undo"}, from : Versions \cup {NoVersion},
     to : Versions \cup {NoVersion}, restorable : BOOLEAN, at : Int, poll : Nat,
     seen : [Services -> Pids \cup {NoPid}], clean : BOOLEAN]

\* What is installed is one of the two versions of the upgrade or rollback, which
\* never goes back across a change of format, and not across any if it is restorable.
TaskInHand ==
    task.from # NoVersion =>
        /\ task.from \in Versions /\ task.to \in Versions
        /\ installed \in {task.from, task.to}
        /\ Format[task.from] <= Format[task.to]
        /\ task.restorable => Format[task.from] = Format[task.to]

\* A `start` runs the installed binary; one of a plan's belongs to a task.
StartInHand ==
    /\ start.by # "nobody" => start.version = installed
    /\ start.by \in {"run", "undo"} => task.from # NoVersion

Inv ==
    /\ installed \in Versions /\ marker \in Versions \cup {NoVersion} /\ kept \subseteq Versions
    /\ heartbeat \in [Services -> Pids \cup {NoPid}]
    /\ task \in Tasks
    /\ task.mode # "idle" => task.from # NoVersion
    /\ start.by \in {"nobody", "operator", "run", "undo"}
    /\ TaskInHand /\ StartInHand
    /\ RefusedOnlyIfTorn

\* What the assumptions say of the versions.
LEMMA VersionFacts ==
    /\ NoVersion \notin Versions
    /\ \A v \in Versions : Format[v] \in Nat
    /\ \A v, w \in Versions : v < w => Format[v] <= Format[w]
    /\ \A v \in Versions : v \in Nat
    /\ Polls \in Nat
  BY UpgradeAssumption DEF NoVersion

LEMMA NoTaskTyped ==
    /\ NoTask \in Tasks /\ NoTask.mode = "idle" /\ NoTask.from = NoVersion
    /\ NoStart.by = "nobody"
<1>1. [s \in Services |-> NoPid] \in [Services -> Pids \cup {NoPid}]
  OBVIOUS
<1> QED
  BY <1>1 DEF NoTask, Tasks, NoStart

\* A task that goes on within its two versions, while nothing is installed, keeps the invariant.
LEMMA GoesOn ==
    ASSUME Inv, UNCHANGED installed, marker' \in {marker, NoVersion}, kept' \subseteq Versions,
           heartbeat' \in [Services -> Pids \cup {NoPid}],
           task' \in Tasks, task'.from = task.from, task'.to = task.to,
           task'.restorable = task.restorable,
           task'.mode # "idle" => task.from # NoVersion,
           start'.by \in {"nobody", "operator", "run", "undo"},
           start'.by # "nobody" => start'.version = installed,
           start'.by \in {"run", "undo"} => task.from # NoVersion
    PROVE  Inv'
<1>1. RefusedOnlyIfTorn'
  BY DEF Inv, RefusedOnlyIfTorn, Compatible, Torn
<1>2. /\ installed' \in Versions /\ marker' \in Versions \cup {NoVersion}
      /\ task'.mode # "idle" => task'.from # NoVersion
  BY DEF Inv
<1> QED
  BY <1>1, <1>2 DEF Inv, TaskInHand, StartInHand

\* So does a task that ends, or a command that is killed.
LEMMA Ends ==
    ASSUME Inv, UNCHANGED <<installed, kept, heartbeat>>, marker' \in {marker, NoVersion},
           task' = NoTask, start' = NoStart
    PROVE  Inv'
<1>1. RefusedOnlyIfTorn'
  BY DEF Inv, RefusedOnlyIfTorn, Compatible, Torn
<1> QED
  BY <1>1, NoTaskTyped DEF Inv, TaskInHand, StartInHand

\* The moves of a task stay within its two versions.
LEMMA MovesTyped ==
    ASSUME Inv
    PROVE  /\ Completed => /\ task' \in Tasks /\ task'.from = task.from /\ task'.to = task.to
                           /\ task'.restorable = task.restorable /\ task'.mode = task.mode
           /\ Failed => /\ task' \in Tasks /\ task'.from = task.from /\ task'.to = task.to
                        /\ task'.restorable = task.restorable
           /\ \A ok \in BOOLEAN : Undone(ok) =>
                        /\ task' \in Tasks /\ task'.from = task.from /\ task'.to = task.to
                        /\ task'.restorable = task.restorable /\ task'.mode = task.mode
<1>1. Completed => /\ task' \in Tasks /\ task'.from = task.from /\ task'.to = task.to
                   /\ task'.restorable = task.restorable /\ task'.mode = task.mode
  BY DEF Completed, Tasks, Inv
<1>2. Failed => /\ task' \in Tasks /\ task'.from = task.from /\ task'.to = task.to
                /\ task'.restorable = task.restorable
  <2> DEFINE at == task.at - 1
  <2>1. task \in Tasks /\ task.at \in Int
    BY DEF Inv, Tasks
  <2>2. at \in Int
    BY <2>1
  <2>3. Failed => task' = [task EXCEPT !.mode = "undo", !.at = at]
    BY DEF Failed
  <2> HIDE DEF at
  <2>4. [task EXCEPT !.mode = "undo", !.at = at] \in Tasks
    BY <2>1, <2>2 DEF Tasks
  <2>5. ASSUME task' = [task EXCEPT !.mode = "undo", !.at = at]
        PROVE  task'.from = task.from /\ task'.to = task.to /\ task'.restorable = task.restorable
    BY <2>1, <2>5 DEF Tasks
  <2> QED
    BY <2>3, <2>4, <2>5
<1>3. ASSUME NEW ok \in BOOLEAN, Undone(ok)
      PROVE  /\ task' \in Tasks /\ task'.from = task.from /\ task'.to = task.to
             /\ task'.restorable = task.restorable /\ task'.mode = task.mode
  <2>1. (task.clean /\ ok) \in BOOLEAN
    OBVIOUS
  <2>2. task.at - 1 \in Int
    BY DEF Inv, Tasks
  <2> DEFINE clean == task.clean /\ ok
  <2>3. task' = [task EXCEPT !.at = task.at - 1, !.clean = clean]
    BY <1>3 DEF Undone
  <2>4. clean \in BOOLEAN
    BY <2>1
  <2> HIDE DEF clean
  <2> QED
    BY <2>2, <2>3, <2>4 DEF Inv, Tasks
<1> QED
  BY <1>1, <1>2, <1>3

\* While a command of a plan runs, or is undone, no `start` does, and the task is one.
LEMMA CommandInHand ==
    ASSUME Inv
    PROVE  /\ \A cmd : Running(cmd) =>
                 task.mode = "run" /\ start.by = "nobody" /\ task.from # NoVersion
           /\ \A cmds : Undoing(cmds) =>
                 task.mode = "undo" /\ start.by = "nobody" /\ task.from # NoVersion
  BY NoTaskTyped DEF Inv, Running, Undoing

\* Starting runs what is installed.
LEMMA Starts ==
    ASSUME Inv, NEW by \in {"operator", "run", "undo"}, Start(by), UNCHANGED task,
           by # "operator" => task.from # NoVersion
    PROVE  Inv'
<1>1. start'.by = by /\ start'.version = installed
  BY DEF Start
<1>2. UNCHANGED <<installed, marker, kept, heartbeat>>
  BY DEF Start, binaries
<1> QED
  BY <1>1, <1>2, GoesOn DEF Inv

\* Where a `start` leaves its task.
LEMMA StartLeaves ==
    ASSUME Inv, NEW ok \in BOOLEAN, start.by # "nobody", StartEnds(ok)
    PROVE  /\ task' \in Tasks /\ task'.from = task.from /\ task'.to = task.to
           /\ task'.restorable = task.restorable
           /\ task'.mode # "idle" => task.from # NoVersion
           /\ start' = NoStart
<1>1. CASE start.by = "operator"
  BY <1>1 DEF StartEnds, Inv
<1>2. CASE start.by = "run" /\ ok
  <2>1. task' = [task EXCEPT !.at = @ + 1]
    BY <1>2 DEF StartEnds
  <2> QED
    BY <1>2, <2>1, MovesTyped DEF StartEnds, Completed, Inv
<1>3. CASE start.by = "run" /\ ~ok
  <2>1. task' = [task EXCEPT !.mode = "undo", !.at = @ - 1]
    BY <1>3 DEF StartEnds
  <2> QED
    BY <1>3, <2>1, MovesTyped DEF StartEnds, Failed, Inv, StartInHand
<1>4. CASE start.by = "undo"
  <2>1. Undone(ok)
    BY <1>4 DEF StartEnds, Undone
  <2> QED
    BY <1>4, <2>1, MovesTyped DEF StartEnds, Inv
<1> QED
  BY <1>1, <1>2, <1>3, <1>4 DEF Inv

\* An upgrade never goes to an older format, nor a rollback to another.
LEMMA BeginTyped ==
    ASSUME Inv, NEW v \in Versions, Begin(v), Format[installed] <= Format[v]
    PROVE  Inv'
<1>1. task' = [mode |-> "run", from |-> installed, to |-> v, restorable |-> Same(v), at |-> 1,
               poll |-> 0, seen |-> [s \in Services |-> NoPid], clean |-> TRUE]
  BY DEF Begin, NoTask
<1>2. task' \in Tasks
  <2>1. [s \in Services |-> NoPid] \in [Services -> Pids \cup {NoPid}]
    OBVIOUS
  <2>2. Same(v) \in BOOLEAN
    BY DEF Same
  <2> QED
    BY <1>1, <2>1, <2>2 DEF Inv, Tasks
<1>3. task'.from = installed /\ task'.to = v /\ task'.mode = "run"
      /\ (task'.restorable => Format[v] = Format[installed])
  BY <1>1 DEF Same
<1>4. start'.by = "nobody" /\ UNCHANGED <<installed, marker, kept, heartbeat>>
  BY NoTaskTyped DEF Begin, binaries, services
<1> QED
  BY <1>2, <1>3, <1>4, VersionFacts DEF Inv, TaskInHand, StartInHand, RefusedOnlyIfTorn, Compatible, Torn

LEMMA InitInv == Init => Inv
<1> SUFFICES ASSUME Init PROVE Inv
  OBVIOUS
<1>1. heartbeat \in [Services -> Pids \cup {NoPid}]
  BY UpgradeAssumption DEF Init, First
<1> QED
  BY <1>1, NoTaskTyped, VersionFacts DEF Init, Inv, TaskInHand, StartInHand, RefusedOnlyIfTorn,
     Compatible, Torn

\* The steps of the services' processes.
LEMMA ProcessSteps ==
    ASSUME Inv, NEW s \in Services, NEW p \in Pids,
           ComeUp(s, p) \/ Beat(s, p) \/ Exit(s, p) \/ Die(s, p)
    PROVE  Inv'
<1>1. UNCHANGED <<installed, marker, kept, task, start>>
  BY DEF ComeUp, Beat, Exit, Die, binaries
<1>2. heartbeat' \in [Services -> Pids \cup {NoPid}]
  BY DEF ComeUp, Beat, Exit, Die, Inv
<1> QED
  BY <1>1, <1>2, GoesOn DEF Inv, StartInHand

\* The commands of a plan that leave the installed binary alone.
LEMMA CommandSteps ==
    ASSUME Inv,
           \/ RetainPreviousBinary \/ RestartPreviousVersion \/ RecordUpgrade \/ Stop \/ ConfirmHealthy
    PROVE  Inv'
<1>1. UNCHANGED <<installed, marker, heartbeat, start>>
  BY DEF RetainPreviousBinary, RestartPreviousVersion, RecordUpgrade, Stop, ConfirmHealthy,
         binaries, services
<1>2. start.by = "nobody" /\ task.from # NoVersion
  BY CommandInHand DEF RetainPreviousBinary, RestartPreviousVersion, RecordUpgrade, Stop, ConfirmHealthy
<1>3. \/ Completed \/ Failed
      \/ task' = [task EXCEPT !.poll = @ + 1, !.seen = heartbeat]
  BY DEF RetainPreviousBinary, RestartPreviousVersion, RecordUpgrade, Stop, ConfirmHealthy
<1>4. /\ task' \in Tasks /\ task'.from = task.from /\ task'.to = task.to
      /\ task'.restorable = task.restorable
  <2>1. CASE Completed \/ Failed
    BY <2>1, MovesTyped
  <2>2. CASE task' = [task EXCEPT !.poll = @ + 1, !.seen = heartbeat]
    <3> DEFINE poll == task.poll + 1
    <3>1. poll \in Nat
      BY DEF Inv, Tasks
    <3>2. task' = [task EXCEPT !.poll = poll, !.seen = heartbeat]
      BY <2>2
    <3> HIDE DEF poll
    <3> QED
      BY <3>1, <3>2 DEF Inv, Tasks
  <2> QED
    BY <1>3, <2>1, <2>2
<1>5. kept' \subseteq Versions
  <2>1. CASE RetainPreviousBinary
    <3>1. CASE Prune(kept \cup {task.from}) /\ Completed
      <4>1. task.from \in Versions
        BY <2>1, CommandInHand DEF RetainPreviousBinary, Inv, TaskInHand
      <4>2. kept' \subseteq kept \cup {task.from}
        BY <3>1 DEF Prune, Newest
      <4> QED
        BY <4>1, <4>2 DEF Inv
    <3> QED
      BY <2>1, <3>1 DEF RetainPreviousBinary, Inv
  <2> QED
    BY <2>1 DEF RestartPreviousVersion, RecordUpgrade, Stop, ConfirmHealthy, binaries, Inv
<1> QED
  BY <1>1, <1>2, <1>4, <1>5, GoesOn DEF Inv

\* The undoing of those, and of the new version's start.
LEMMA UndoSteps ==
    ASSUME Inv, NothingToUndo \/ UndoStartNewVersion
    PROVE  Inv'
<1>1. UNCHANGED <<installed, marker, kept, heartbeat, start>>
  BY DEF NothingToUndo, UndoStartNewVersion, binaries, services
<1>2. start.by = "nobody" /\ task.from # NoVersion
  BY CommandInHand DEF NothingToUndo, UndoStartNewVersion
<1>3. Undone(TRUE)
  BY DEF NothingToUndo, UndoStartNewVersion
<1> QED
  BY <1>1, <1>2, <1>3, MovesTyped, GoesOn DEF Inv

\* The new binary is put in place, or the previous one put back.
LEMMA InstallSteps ==
    ASSUME Inv, OverwriteDouglasExecutable \/ UndoOverwrite
    PROVE  Inv'
<1>1. UNCHANGED <<marker, kept, heartbeat, start>>
  BY DEF OverwriteDouglasExecutable, UndoOverwrite, services
<1>2. start.by = "nobody" /\ task.from # NoVersion
  BY CommandInHand DEF OverwriteDouglasExecutable, UndoOverwrite
<1>3. Completed \/ Failed \/ \E ok \in BOOLEAN : Undone(ok)
  BY DEF OverwriteDouglasExecutable, UndoOverwrite
<1>4. /\ task' \in Tasks /\ task'.from = task.from /\ task'.to = task.to
      /\ task'.restorable = task.restorable
  BY <1>3, MovesTyped
<1>5. \/ installed' = installed
      \/ installed' = task.to
      \/ task.restorable /\ installed' = task.from
  BY DEF OverwriteDouglasExecutable, UndoOverwrite, Restored
<1>6. installed' \in {task.from, task.to} /\ Format[installed] <= Format[installed']
  BY <1>2, <1>5, VersionFacts DEF Inv, TaskInHand
<1>7. RefusedOnlyIfTorn'
  BY <1>1, <1>2, <1>6, VersionFacts DEF Inv, TaskInHand, RefusedOnlyIfTorn, Compatible, Torn
<1> QED
  BY <1>1, <1>2, <1>4, <1>6, <1>7 DEF Inv, TaskInHand, StartInHand

LEMMA NextInv == Inv /\ [Next]_vars => Inv'
<1> SUFFICES ASSUME Inv, [Next]_vars PROVE Inv'
  OBVIOUS
<1>1. CASE \E s \in Services, p \in Pids : ComeUp(s, p) \/ Beat(s, p) \/ Exit(s, p) \/ Die(s, p)
  BY <1>1, ProcessSteps
<1>2. CASE OperatorStarts
  BY <1>2, Starts DEF OperatorStarts
<1>3. CASE StartSucceeds
  <2>1. /\ start.by # "nobody" /\ StartEnds(TRUE)
        /\ marker' = start.version /\ UNCHANGED <<installed, kept, heartbeat>>
    BY <1>3 DEF StartSucceeds, StartReady, services
  <2>2. marker' = installed
    BY <2>1 DEF Inv, StartInHand
  <2>3. RefusedOnlyIfTorn'
    BY <2>1, <2>2, VersionFacts DEF Inv, RefusedOnlyIfTorn, Compatible, Torn
  <2>4. /\ task' \in Tasks /\ task'.from = task.from /\ task'.to = task.to
        /\ task'.restorable = task.restorable
        /\ task'.mode # "idle" => task.from # NoVersion
        /\ start'.by = "nobody"
    BY <2>1, StartLeaves, NoTaskTyped
  <2> QED
    BY <2>1, <2>2, <2>3, <2>4 DEF Inv, TaskInHand, StartInHand
<1>4. CASE StartFails
  <2>1. /\ start.by # "nobody" /\ StartEnds(FALSE)
        /\ UNCHANGED <<installed, kept, heartbeat>> /\ marker' \in {marker, NoVersion}
    BY <1>4 DEF StartFails, StartFailed, MarkerKeptOrCutOff
  <2> QED
    BY <2>1, StartLeaves, NoTaskTyped, GoesOn DEF Inv
<1>5. CASE BeginUpgrade
  <2>1. PICK v \in Versions : v > installed /\ Begin(v)
    BY <1>5 DEF BeginUpgrade
  <2> QED
    BY <2>1, BeginTyped, VersionFacts DEF Inv
<1>6. CASE BeginRollback
  <2>1. PICK v \in kept : Same(v) /\ Begin(v)
    BY <1>6 DEF BeginRollback
  <2> QED
    BY <2>1, BeginTyped, VersionFacts DEF Inv, Same
<1>7. CASE RetainPreviousBinary \/ RestartPreviousVersion \/ RecordUpgrade \/ Stop \/ ConfirmHealthy
  BY <1>7, CommandSteps
<1>8. CASE OverwriteDouglasExecutable \/ UndoOverwrite
  BY <1>8, InstallSteps
<1>9. CASE StartNewVersion
  <2>1. Start("run") /\ UNCHANGED task /\ task.from # NoVersion
    BY <1>9, CommandInHand DEF StartNewVersion
  <2> QED
    BY <2>1, Starts
<1>10. CASE ClearUpgradeRecord
  <2>1. /\ task' = NoTask /\ UNCHANGED <<installed, marker, kept, heartbeat>>
        /\ start = NoStart /\ start' = start
    BY <1>10 DEF ClearUpgradeRecord, services, Running
  <2> QED
    BY <2>1, Ends
<1>11. CASE NothingToUndo \/ UndoStartNewVersion
  BY <1>11, UndoSteps
<1>12. CASE UndoRestartPreviousVersion
  <2>1. Start("undo") /\ UNCHANGED task /\ task.from # NoVersion
    BY <1>12, CommandInHand DEF UndoRestartPreviousVersion
  <2> QED
    BY <2>1, Starts
<1>13. CASE GiveUp
  <2>1. /\ task' = NoTask /\ UNCHANGED <<installed, marker, kept, heartbeat>>
        /\ start = NoStart /\ start' = start
    BY <1>13 DEF GiveUp, binaries, services
  <2> QED
    BY <2>1, Ends
<1>14. CASE Crash
  <2>1. task' = NoTask /\ start' = NoStart /\ UNCHANGED <<installed, kept, heartbeat>>
        /\ marker' \in {marker, NoVersion}
    BY <1>14 DEF Crash, MarkerKeptOrCutOff
  <2> QED
    BY <2>1, Ends
<1>15. CASE UNCHANGED vars
  BY <1>15 DEF vars, Inv, TaskInHand, StartInHand, RefusedOnlyIfTorn, Compatible, Torn
<1> QED
  BY <1>1, <1>2, <1>3, <1>4, <1>5, <1>6, <1>7, <1>8, <1>9, <1>10, <1>11, <1>12, <1>13, <1>14,
     <1>15 DEF Next

\* Whatever fails or is killed, ensure_compatible lets the installed binary start on the
\* data that the last complete start has left, unless the marker of it was cut off.
THEOREM InstalledCorrect == Spec => []RefusedOnlyIfTorn
<1>1. Inv => RefusedOnlyIfTorn
  BY DEF Inv
<1> QED
  BY InitInv, NextInv, <1>1, PTL DEF Spec

-----------------------------------------------------------------------------
(* Where the commands of a plan are, and what a task knows by its position. *)

RecordAt == IF task.restorable THEN 3 ELSE 2
OverwriteAt == RecordAt + Len(StopOrder) + 1
StartAt == RecordAt + Len(StopOrder) + 2

\* The command at a position of the plan.
CommandAt(i) ==
    IF i = 1 THEN "RetainPreviousBinary"
    ELSE IF i < RecordAt THEN "RestartPreviousVersion"
    ELSE IF i = RecordAt THEN "RecordUpgrade"
    ELSE IF i < OverwriteAt THEN "Stop"
    ELSE IF i = OverwriteAt THEN "OverwriteDouglasExecutable"
    ELSE IF i = StartAt THEN "StartNewVersion"
    ELSE IF i = StartAt + 1 THEN "ConfirmHealthy"
    ELSE "ClearUpgradeRecord"

\* What a concatenation holds.
LEMMA Joined ==
    ASSUME NEW C, NEW a \in Seq(C), NEW b \in Seq(C)
    PROVE  /\ a \o b \in Seq(C)
           /\ Len(a \o b) = Len(a) + Len(b)
           /\ \A i \in 1..Len(a) + Len(b) :
                  (a \o b)[i] = IF i <= Len(a) THEN a[i] ELSE b[i - Len(a)]
  OBVIOUS

LEMMA PlanIs ==
    ASSUME task.restorable \in BOOLEAN
    PROVE  /\ Len(Plan) = StartAt + 2
           /\ \A i \in 1..StartAt + 2 : Plan[i].cmd = CommandAt(i)
           /\ \A i \in 1..Len(StopOrder) : Plan[RecordAt + i].service = StopOrder[i]
<1> DEFINE do(cmd) == [cmd |-> cmd, service |-> ""]
           stop(i) == [cmd |-> "Stop", service |-> StopOrder[i]]
           one == do("RetainPreviousBinary")
           two == do("RestartPreviousVersion")
           three == do("RecordUpgrade")
           four == do("OverwriteDouglasExecutable")
           five == do("StartNewVersion")
           six == do("ConfirmHealthy")
           seven == do("ClearUpgradeRecord")
           C == {one, two, three, four, five, six, seven} \cup {stop(i) : i \in 1..Len(StopOrder)}
           retain == <<one>>
           restart == IF task.restorable THEN <<two>> ELSE <<>>
           record == <<three>>
           stops == [i \in 1..Len(StopOrder) |-> stop(i)]
           last == <<four, five, six, seven>>
           n == Len(StopOrder)
<1>1. Plan = retain \o restart \o record \o stops \o last
  BY DEF Plan
<1>2. n \in Nat /\ StopOrder \in Seq(STRING) /\ \A i \in 1..n : StopOrder[i] \in STRING
  BY UpgradeAssumption
<1>3. /\ stops \in Seq(C) /\ Len(stops) = n
      /\ \A i \in 1..n : stops[i].cmd = "Stop" /\ stops[i].service = StopOrder[i]
  <2>1. \A i \in 1..n : stop(i) \in C
    OBVIOUS
  <2>2. stops \in [1..n -> C]
    BY <2>1
  <2> HIDE DEF C
  <2>3. stops \in Seq(C) /\ Len(stops) = n
    BY <1>2, <2>2
  <2> QED
    BY <2>3
<1>a. /\ one.cmd = "RetainPreviousBinary" /\ two.cmd = "RestartPreviousVersion"
      /\ three.cmd = "RecordUpgrade" /\ four.cmd = "OverwriteDouglasExecutable"
      /\ five.cmd = "StartNewVersion" /\ six.cmd = "ConfirmHealthy"
      /\ seven.cmd = "ClearUpgradeRecord"
  OBVIOUS
<1>b. {one, two, three, four, five, six, seven} \subseteq C
  OBVIOUS
<1>c. /\ retain = <<one>> /\ restart = (IF task.restorable THEN <<two>> ELSE <<>>)
      /\ record = <<three>> /\ last = <<four, five, six, seven>>
  OBVIOUS
<1> HIDE DEF C, do, one, two, three, four, five, six, seven, retain, restart, record, last
<1>4. /\ retain \in Seq(C) /\ Len(retain) = 1 /\ retain[1].cmd = "RetainPreviousBinary"
  BY <1>a, <1>b, <1>c
<1>5. /\ record \in Seq(C) /\ Len(record) = 1 /\ record[1].cmd = "RecordUpgrade"
  BY <1>a, <1>b, <1>c
<1>6. /\ restart \in Seq(C) /\ Len(restart) = RecordAt - 2
      /\ task.restorable => restart[1].cmd = "RestartPreviousVersion"
  BY <1>a, <1>b, <1>c DEF RecordAt
<1>7. /\ last \in Seq(C) /\ Len(last) = 4
      /\ last[1].cmd = "OverwriteDouglasExecutable" /\ last[2].cmd = "StartNewVersion"
      /\ last[3].cmd = "ConfirmHealthy" /\ last[4].cmd = "ClearUpgradeRecord"
  BY <1>a, <1>b, <1>c
<1> DEFINE p2 == retain \o restart
           p3 == p2 \o record
           p4 == p3 \o stops
<1> HIDE DEF C, retain, restart, record, stops, last, n
<1>8. /\ p2 \in Seq(C) /\ Len(p2) = RecordAt - 1
      /\ \A i \in 1..RecordAt - 1 : p2[i].cmd = CommandAt(i)
  <2>1. RecordAt \in {2, 3} /\ (task.restorable <=> RecordAt = 3)
    BY DEF RecordAt
  <2>2. /\ p2 \in Seq(C) /\ Len(p2) = Len(retain) + Len(restart)
        /\ \A i \in 1..Len(retain) + Len(restart) :
               p2[i] = IF i <= Len(retain) THEN retain[i] ELSE restart[i - Len(retain)]
    BY <1>4, <1>6, Joined
  <2> HIDE DEF p2
  <2> QED
    BY <2>1, <2>2, <1>4, <1>6 DEF CommandAt
<1>9. RecordAt \in {2, 3}
  BY DEF RecordAt
<1> HIDE DEF p2
<1>10. /\ p3 \in Seq(C) /\ Len(p3) = RecordAt
       /\ \A i \in 1..RecordAt : p3[i].cmd = CommandAt(i)
  <2>1. /\ p3 \in Seq(C) /\ Len(p3) = Len(p2) + Len(record)
        /\ \A i \in 1..Len(p2) + Len(record) :
               p3[i] = IF i <= Len(p2) THEN p2[i] ELSE record[i - Len(p2)]
    BY <1>5, <1>8, Joined
  <2> HIDE DEF p3
  <2> QED
    BY <2>1, <1>5, <1>8, <1>9 DEF CommandAt
<1> HIDE DEF p3
<1>11. /\ p4 \in Seq(C) /\ Len(p4) = RecordAt + n
       /\ \A i \in 1..RecordAt + n : p4[i].cmd = CommandAt(i)
       /\ \A i \in 1..n : p4[RecordAt + i].service = StopOrder[i]
  <2>1. /\ p4 \in Seq(C) /\ Len(p4) = Len(p3) + Len(stops)
        /\ \A i \in 1..Len(p3) + Len(stops) :
               p4[i] = IF i <= Len(p3) THEN p3[i] ELSE stops[i - Len(p3)]
    BY <1>3, <1>10, Joined
  <2> HIDE DEF p4
  <2>2. ASSUME NEW i \in 1..n PROVE p4[RecordAt + i] = stops[i]
    <3> DEFINE j == RecordAt + i
    <3>1. j \in 1..RecordAt + n /\ ~(j <= RecordAt) /\ j - RecordAt = i
      BY <1>2, <1>9
    <3> HIDE DEF j
    <3>2. p4[j] = stops[i]
      BY <2>1, <3>1, <1>3, <1>10
    <3> QED
      BY <3>2 DEF j
  <2>3. \A i \in RecordAt + 1..RecordAt + n : p4[i] = stops[i - RecordAt] /\ i - RecordAt \in 1..n
    BY <2>1, <1>2, <1>3, <1>9, <1>10
  <2>4. \A i \in RecordAt + 1..RecordAt + n : CommandAt(i) = "Stop"
    BY <1>2, <1>9 DEF CommandAt, OverwriteAt, n
  <2>5. \A i \in 1..RecordAt : p4[i] = p3[i]
    BY <2>1, <1>2, <1>3, <1>9, <1>10
  <2> QED
    BY <2>1, <2>2, <2>3, <2>4, <2>5, <1>2, <1>3, <1>9, <1>10
<1> HIDE DEF p4
<1>12. /\ Len(Plan) = Len(p4) + Len(last)
       /\ \A i \in 1..Len(p4) + Len(last) :
              Plan[i] = IF i <= Len(p4) THEN p4[i] ELSE last[i - Len(p4)]
  <2>1. Plan = p4 \o last
    BY <1>1 DEF p4, p3, p2
  <2> QED
    BY <2>1, <1>7, <1>11, Joined
<1>13. StartAt + 2 = RecordAt + n + 4 /\ OverwriteAt = RecordAt + n + 1 /\ StartAt = RecordAt + n + 2
  BY <1>2, <1>9 DEF StartAt, OverwriteAt, n
<1>14. \A i \in 1..RecordAt + n : Plan[i] = p4[i]
  BY <1>2, <1>7, <1>9, <1>11, <1>12
<1>15. \A i \in 1..4 : Plan[RecordAt + n + i] = last[i]
  BY <1>2, <1>7, <1>9, <1>11, <1>12
<1>16. \A i \in 1..4 : last[i].cmd = CommandAt(RecordAt + n + i)
  BY <1>2, <1>7, <1>9, <1>13 DEF CommandAt
<1>17. ASSUME NEW i \in 1..RecordAt + n + 4 PROVE Plan[i].cmd = CommandAt(i)
  <2>1. CASE i <= RecordAt + n
    BY <2>1, <1>2, <1>9, <1>11, <1>14
  <2>2. CASE i > RecordAt + n
    <3>1. i - (RecordAt + n) \in 1..4 /\ RecordAt + n + (i - (RecordAt + n)) = i
      BY <2>2, <1>2, <1>9
    <3> QED
      BY <3>1, <1>15, <1>16
  <2> QED
    BY <2>1, <2>2, <1>2, <1>9
<1>18. \A i \in 1..n : Plan[RecordAt + i] = p4[RecordAt + i]
  BY <1>2, <1>9, <1>14
<1> QED
  BY <1>7, <1>11, <1>12, <1>13, <1>17, <1>18 DEF n

\* The types of the variables that `Inv` says nothing of, and where a task is.
Positions ==
    /\ task.mode = "idle" => task = NoTask
    /\ task.mode = "run" => task.at \in 1..StartAt + 2
    /\ task.mode = "undo" => task.at \in 0..StartAt
    /\ start.by = "nobody" => start = NoStart
    /\ start.by = "operator" => task.mode = "idle"
    /\ start.by = "run" => task.mode = "run" /\ task.at = StartAt
    /\ start.by = "undo" => task.mode = "undo" /\ task.at = 2 /\ task.restorable

Typed == Inv /\ TypeOK /\ Positions

\* The commands that a task can run or undo where it is.
LEMMA RunsAt ==
    ASSUME Typed
    PROVE  /\ Running("RetainPreviousBinary") => task.at = 1
           /\ Running("RestartPreviousVersion") => task.at = 2 /\ task.restorable
           /\ Running("RecordUpgrade") => task.at = RecordAt
           /\ Running("Stop") =>
                  \E i \in 1..Len(StopOrder) :
                      task.at = RecordAt + i /\ Plan[task.at].service = StopOrder[i]
           /\ Running("OverwriteDouglasExecutable") => task.at = OverwriteAt
           /\ Running("StartNewVersion") => task.at = StartAt
           /\ Running("ConfirmHealthy") => task.at = StartAt + 1
           /\ Running("ClearUpgradeRecord") => task.at = StartAt + 2
<1>1. task.restorable \in BOOLEAN /\ Len(StopOrder) \in Nat
  BY UpgradeAssumption DEF Typed, Inv, Tasks
<1>2. RecordAt \in {2, 3} /\ (RecordAt = 3 => task.restorable)
      /\ OverwriteAt = RecordAt + Len(StopOrder) + 1 /\ StartAt = RecordAt + Len(StopOrder) + 2
  BY DEF RecordAt, OverwriteAt, StartAt
<1>3. ASSUME NEW cmd, Running(cmd)
      PROVE  task.at \in 1..StartAt + 2 /\ CommandAt(task.at) = cmd
  BY <1>1, <1>3, PlanIs DEF Running, Typed, Positions
<1>4. ASSUME Running("Stop")
      PROVE  \E i \in 1..Len(StopOrder) :
                 task.at = RecordAt + i /\ Plan[task.at].service = StopOrder[i]
  <2> DEFINE i == task.at - RecordAt
  <2>1. i \in 1..Len(StopOrder) /\ task.at = RecordAt + i
    BY <1>1, <1>2, <1>3, <1>4 DEF CommandAt
  <2> HIDE DEF i
  <2> QED
    BY <1>1, <2>1, PlanIs
<1> QED
  BY <1>1, <1>2, <1>3, <1>4 DEF CommandAt

LEMMA UndoesAt ==
    ASSUME Typed
    PROVE  /\ \A cmds : Undoing(cmds) => task.at \in 1..StartAt /\ CommandAt(task.at) \in cmds
           /\ Undoing({"StartNewVersion"}) => task.at = StartAt
           /\ Undoing({"OverwriteDouglasExecutable"}) => task.at = OverwriteAt
           /\ Undoing({"RestartPreviousVersion"}) => task.at = 2 /\ task.restorable
<1>1. task.restorable \in BOOLEAN /\ Len(StopOrder) \in Nat
  BY UpgradeAssumption DEF Typed, Inv, Tasks
<1>2. RecordAt \in {2, 3} /\ (RecordAt = 3 => task.restorable)
      /\ OverwriteAt = RecordAt + Len(StopOrder) + 1 /\ StartAt = RecordAt + Len(StopOrder) + 2
  BY DEF RecordAt, OverwriteAt, StartAt
<1>3. ASSUME NEW cmds, Undoing(cmds)
      PROVE  task.at \in 1..StartAt /\ CommandAt(task.at) \in cmds
  BY <1>1, <1>2, <1>3, PlanIs DEF Undoing, Typed, Positions
<1> QED
  BY <1>1, <1>2, <1>3 DEF CommandAt

\* What a move changes of a task.
LEMMA Moved ==
    ASSUME Typed
    PROVE  /\ Completed =>
                  /\ task'.at = task.at + 1 /\ task'.mode = task.mode /\ task'.from = task.from
                  /\ task'.to = task.to /\ task'.restorable = task.restorable
                  /\ task'.poll = task.poll /\ task'.seen = task.seen /\ task'.clean = task.clean
           /\ Failed =>
                  /\ task'.at = task.at - 1 /\ task'.mode = "undo" /\ task'.from = task.from
                  /\ task'.to = task.to /\ task'.restorable = task.restorable
                  /\ task'.poll = task.poll /\ task'.seen = task.seen /\ task'.clean = task.clean
           /\ \A ok \in BOOLEAN : Undone(ok) =>
                  /\ task'.at = task.at - 1 /\ task'.mode = task.mode /\ task'.from = task.from
                  /\ task'.to = task.to /\ task'.restorable = task.restorable
                  /\ task'.poll = task.poll /\ task'.seen = task.seen
                  /\ task'.clean = (task.clean /\ ok)
<1>1. task \in Tasks
  BY DEF Typed, Inv
<1>2. Completed => /\ task'.at = task.at + 1 /\ task'.mode = task.mode /\ task'.from = task.from
                   /\ task'.to = task.to /\ task'.restorable = task.restorable
                   /\ task'.poll = task.poll /\ task'.seen = task.seen /\ task'.clean = task.clean
  BY <1>1 DEF Completed, Tasks
<1>3. Failed => /\ task'.at = task.at - 1 /\ task'.mode = "undo" /\ task'.from = task.from
                /\ task'.to = task.to /\ task'.restorable = task.restorable
                /\ task'.poll = task.poll /\ task'.seen = task.seen /\ task'.clean = task.clean
  <2> DEFINE at == task.at - 1
  <2>1. Failed => task' = [task EXCEPT !.mode = "undo", !.at = at]
    BY DEF Failed
  <2> HIDE DEF at
  <2>2. Failed => /\ task'.at = at /\ task'.mode = "undo" /\ task'.from = task.from
                  /\ task'.to = task.to /\ task'.restorable = task.restorable
                  /\ task'.poll = task.poll /\ task'.seen = task.seen /\ task'.clean = task.clean
    BY <1>1, <2>1 DEF Tasks
  <2> QED
    BY <2>2 DEF at
<1>4. ASSUME NEW ok \in BOOLEAN, Undone(ok)
      PROVE  /\ task'.at = task.at - 1 /\ task'.mode = task.mode /\ task'.from = task.from
             /\ task'.to = task.to /\ task'.restorable = task.restorable
             /\ task'.poll = task.poll /\ task'.seen = task.seen
             /\ task'.clean = (task.clean /\ ok)
  <2> DEFINE at == task.at - 1
             clean == task.clean /\ ok
  <2>1. task' = [task EXCEPT !.at = at, !.clean = clean]
    BY <1>4 DEF Undone
  <2> HIDE DEF at, clean
  <2>2. /\ task'.at = at /\ task'.mode = task.mode /\ task'.from = task.from
        /\ task'.to = task.to /\ task'.restorable = task.restorable
        /\ task'.poll = task.poll /\ task'.seen = task.seen /\ task'.clean = clean
    BY <1>1, <2>1 DEF Tasks
  <2> QED
    BY <2>2 DEF at, clean
<1> QED
  BY <1>2, <1>3, <1>4

Budgets == [commands : 0..MaxCommands[slow], faults : 0..MaxFaults, crashes : 0..MaxCrashes]
Journals == [from : Versions \cup {NoVersion}, to : Versions \cup {NoVersion}, torn : BOOLEAN]
Startings == [by : {"nobody", "operator", "run", "undo"}, version : Versions \cup {NoVersion},
            need : SUBSET Services, missing : BOOLEAN]

\* What there is to show besides `Inv` and the positions.
Rest ==
    /\ slow \in Hosts /\ journal \in Journals /\ proc \in [Services -> [Pids -> Process]]
    /\ task.poll <= Polls /\ start \in Startings /\ budget \in Budgets

LEMMA TypeFrom == Inv /\ Positions /\ Rest => Typed
<1> SUFFICES ASSUME Inv, Positions, Rest PROVE TypeOK
  BY DEF Typed
<1>1. Len(StopOrder) \in Nat /\ Polls \in Nat
  BY UpgradeAssumption
<1>2. task.at \in 0..Len(StopOrder) + 7
  <2>1. RecordAt \in {2, 3} /\ StartAt = RecordAt + Len(StopOrder) + 2
    BY DEF RecordAt, StartAt
  <2>2. task.mode \in {"idle", "run", "undo"} /\ NoTask.at = 0
    BY DEF Inv, Tasks, NoTask
  <2> QED
    BY <1>1, <2>1, <2>2 DEF Positions
<1>3. task.poll \in 0..Polls
  BY <1>1 DEF Inv, Tasks, Rest
<1> QED
  BY <1>2, <1>3 DEF TypeOK, Inv, Tasks, Rest, Journals, Startings, Budgets

LEMMA TypeFromNext == Inv' /\ Positions' /\ Rest' => Typed'
  BY TypeFrom, PTL

LEMMA TypedFacts ==
    ASSUME Typed
    PROVE  /\ slow \in Hosts /\ slow \in BOOLEAN /\ journal \in Journals /\ proc \in [Services -> [Pids -> Process]]
           /\ task.poll \in 0..Polls /\ start \in Startings /\ budget \in Budgets
           /\ installed \in Versions /\ heartbeat \in [Services -> Pids \cup {NoPid}]
           /\ task \in Tasks /\ task.restorable \in BOOLEAN /\ Polls \in Nat
           /\ Len(StopOrder) \in Nat /\ NoPid \notin Pids
           /\ MaxFaults \in Nat /\ MaxCrashes \in Nat /\ MaxCommands[slow] \in Nat
<1>1. MaxCommands[slow] \in Nat /\ MaxFaults \in Nat /\ MaxCrashes \in Nat /\ Polls \in Nat
      /\ Len(StopOrder) \in Nat /\ NoPid \notin Pids
  BY UpgradeAssumption DEF Typed, TypeOK, NoPid
<1> QED
  BY <1>1, UpgradeAssumption DEF Typed, TypeOK, Inv, Tasks, Journals, Startings, Budgets

LEMMA FaultTyped == ASSUME Typed, Fault PROVE budget' \in Budgets
<1> DEFINE left == budget.faults - 1
<1>1. left \in 0..MaxFaults /\ budget' = [budget EXCEPT !.faults = left]
  BY TypedFacts DEF Fault, Budgets
<1> HIDE DEF left
<1> QED
  BY <1>1, TypedFacts DEF Budgets

\* What the services' processes become.
LEMMA StopsTyped ==
    ASSUME Typed, NEW s \in Services, NEW stop \in Stops(s)
    PROVE  stop.ok \in BOOLEAN /\ stop.now \in [Pids -> Process]
<1>1. proc[s] \in [Pids -> Process] /\ Gone \in Process
  BY TypedFacts DEF Process
<1>2. CASE stop = Kill(s)
  BY <1>1, <1>2 DEF Kill
<1>3. CASE \E p \in Pids : /\ proc[s][p].stage = "up"
                           /\ stop = [ok |-> TRUE, now |-> [proc[s] EXCEPT ![p].stage = "stopping"]]
  <2>1. PICK p \in Pids : /\ proc[s][p].stage = "up"
                          /\ stop = [ok |-> TRUE, now |-> [proc[s] EXCEPT ![p].stage = "stopping"]]
    BY <1>3
  <2>2. proc[s][p] \in [version : Versions, stage : {"starting", "up", "stopping"}]
    BY <1>1, <2>1 DEF Process, Gone
  <2>3. [proc[s][p] EXCEPT !.stage = "stopping"] \in Process
    BY <2>2 DEF Process
  <2> QED
    BY <1>1, <2>1, <2>3
<1> QED
  BY <1>2, <1>3 DEF Stops

LEMMA StopAllTyped == ASSUME Typed, StopAll PROVE proc' \in [Services -> [Pids -> Process]]
<1>1. PICK stop \in [Services -> UNION {Stops(s) : s \in Services}] :
          /\ \A s \in Services : stop[s] \in Stops(s)
          /\ proc' = [s \in Services |-> stop[s].now]
  BY DEF StopAll
<1>2. \A s \in Services : stop[s].now \in [Pids -> Process]
  BY <1>1, StopsTyped
<1> QED
  BY <1>1, <1>2

LEMMA SpawnedTyped ==
    ASSUME Typed, NEW s \in Services
    PROVE  Spawned(s, installed) \in [Pids -> Process]
<1> DEFINE free == {p \in Pids : proc[s][p] = Gone /\ p # heartbeat[s]}
           pid == CHOOSE p \in free : \A q \in free : p <= q
           new == [version |-> installed, stage |-> "starting"]
<1>1. new \in Process /\ proc[s] \in [Pids -> Process]
  BY TypedFacts DEF Process
<1>2. Spawned(s, installed) = [proc[s] EXCEPT ![pid] = new]
  BY DEF Spawned
<1> HIDE DEF pid, new
<1> QED
  BY <1>1, <1>2

LEMMA StartTyped ==
    ASSUME Typed, NEW by \in {"operator", "run", "undo"}, Start(by),
           by = "operator" => budget.commands > 0
    PROVE  /\ proc' \in [Services -> [Pids -> Process]] /\ start' \in Startings /\ budget' \in Budgets
           /\ start'.by = by
<1> DEFINE need == IF Compatible(installed) THEN {s \in Services : ~Listens(s)} ELSE {}
<1>1. PICK spawn \in SUBSET need :
          /\ spawn # need => budget.faults > 0
          /\ budget' = [budget EXCEPT !.faults = @ - (IF spawn = need THEN 0 ELSE 1),
                                      !.commands = @ - (IF by = "operator" THEN 1 ELSE 0)]
          /\ proc' = [s \in Services |-> IF s \in spawn THEN Spawned(s, installed) ELSE proc[s]]
          /\ start' = [by |-> by, version |-> installed, need |-> need,
                       missing |-> spawn # need \/ ~Compatible(installed)]
  BY DEF Start
<1>2. proc' \in [Services -> [Pids -> Process]]
  BY <1>1, SpawnedTyped, TypedFacts
<1>3. start' \in Startings /\ start'.by = by
  <2>1. need \subseteq Services /\ (spawn # need \/ ~Compatible(installed)) \in BOOLEAN
    OBVIOUS
  <2> DEFINE missing == spawn # need \/ ~Compatible(installed)
  <2> HIDE DEF need, missing
  <2>2. start' = [by |-> by, version |-> installed, need |-> need, missing |-> missing]
    BY <1>1 DEF missing
  <2> QED
    BY <2>1, <2>2, TypedFacts DEF Startings, missing
<1>4. budget' \in Budgets
  <2> DEFINE faults == budget.faults - (IF spawn = need THEN 0 ELSE 1)
             commands == budget.commands - (IF by = "operator" THEN 1 ELSE 0)
  <2> HIDE DEF need
  <2>1. faults \in 0..MaxFaults
    BY <1>1, TypedFacts DEF Budgets
  <2>2. commands \in 0..MaxCommands[slow]
    BY TypedFacts DEF Budgets
  <2>3. budget' = [budget EXCEPT !.faults = faults, !.commands = commands]
    BY <1>1
  <2> HIDE DEF faults, commands
  <2> QED
    BY <2>1, <2>2, <2>3, TypedFacts DEF Budgets
<1> QED
  BY <1>2, <1>3, <1>4

\* The plan's positions stay where they are as long as the task is the same.
LEMMA SamePlan ==
    ASSUME task'.restorable = task.restorable
    PROVE  RecordAt' = RecordAt /\ OverwriteAt' = OverwriteAt /\ StartAt' = StartAt
  BY DEF RecordAt, OverwriteAt, StartAt

LEMMA Places ==
    ASSUME Typed
    PROVE  /\ RecordAt \in {2, 3} /\ (RecordAt = 3 <=> task.restorable) /\ Len(StopOrder) \in Nat
           /\ OverwriteAt = RecordAt + Len(StopOrder) + 1
           /\ StartAt = RecordAt + Len(StopOrder) + 2
           /\ task.at \in Int /\ task.mode \in {"idle", "run", "undo"}
           /\ NoTask.mode = "idle" /\ NoTask.at = 0 /\ NoTask.poll = 0 /\ NoStart.by = "nobody"
           /\ NoTask.from = NoVersion /\ NoTask.to = NoVersion
           /\ NoTask \in Tasks /\ NoStart \in Startings
<1>1. NoStart \in Startings
  BY DEF Startings, NoStart
<1> QED
  BY <1>1, NoTaskTyped, TypedFacts DEF RecordAt, OverwriteAt, StartAt, Tasks, NoTask, NoStart

LEMMA InitTyped == Init => Typed
<1> SUFFICES ASSUME Init PROVE Typed
  OBVIOUS
<1>1. Inv
  BY InitInv
<1>2. task = NoTask /\ start = NoStart /\ NoTask.mode = "idle" /\ NoTask.poll = 0 /\ NoStart.by = "nobody"
  BY DEF Init, NoTask, NoStart
<1>3. Positions
  BY <1>2 DEF Positions
<1>4. Rest
  <2>1. slow \in Hosts /\ NoStart \in Startings /\ 0 <= Polls
    BY UpgradeAssumption DEF Init, Startings, NoStart
  <2>2. journal \in Journals
    BY DEF Init, NoJournal, Journals
  <2>3. proc \in [Services -> [Pids -> Process]]
    <3>1. installed \in Versions
      BY DEF Init
    <3>2. [version |-> installed, stage |-> "up"] \in Process /\ Gone \in Process
      BY <3>1 DEF Process
    <3> QED
      BY <3>2 DEF Init
  <2>4. budget \in Budgets
    <3>1. MaxCommands[slow] \in Nat /\ MaxFaults \in Nat /\ MaxCrashes \in Nat
      BY UpgradeAssumption DEF Init
    <3> QED
      BY <3>1 DEF Init, Budgets
  <2> QED
    BY <1>2, <2>1, <2>2, <2>3, <2>4 DEF Rest
<1> QED
  BY <1>1, <1>3, <1>4, TypeFrom

LEMMA ProcessTyped ==
    ASSUME Typed, Inv', NEW s \in Services, NEW p \in Pids,
           ComeUp(s, p) \/ Beat(s, p) \/ Exit(s, p) \/ Die(s, p)
    PROVE  Typed'
<1>1. UNCHANGED <<slow, journal, task, start>>
  BY DEF ComeUp, Beat, Exit, Die, binaries
<1>2. budget' \in Budgets
  BY FaultTyped, TypedFacts DEF ComeUp, Beat, Exit, Die
<1>3. proc' \in [Services -> [Pids -> Process]]
  <2>1. Gone \in Process /\ proc[s] \in [Pids -> Process]
    BY TypedFacts DEF Process
  <2>2. CASE proc' = [proc EXCEPT ![s][p] = Gone]
    BY <2>1, <2>2, TypedFacts
  <2>3. CASE proc[s][p].stage = "starting" /\ proc' = [proc EXCEPT ![s][p].stage = "up"]
    <3>1. proc[s][p] \in [version : Versions, stage : {"starting", "up", "stopping"}]
      BY <2>1, <2>3 DEF Process, Gone
    <3>2. [proc[s][p] EXCEPT !.stage = "up"] \in Process
      BY <3>1 DEF Process
    <3> QED
      BY <2>1, <2>3, <3>2, TypedFacts
  <2>4. CASE UNCHANGED proc
    BY <2>4, TypedFacts
  <2> QED
    BY <2>2, <2>3, <2>4 DEF ComeUp, Beat, Exit, Die
<1>4. Positions'
  BY <1>1, SamePlan DEF Typed, Positions
<1>5. Rest'
  BY <1>1, <1>2, <1>3, TypedFacts DEF Rest, Startings, Journals, Budgets
<1> QED
  BY <1>4, <1>5, TypeFromNext

\* A `start` that begins.
LEMMA BeginsTyped ==
    ASSUME Typed, Inv', NEW by \in {"operator", "run", "undo"}, Start(by), UNCHANGED task,
           by = "operator" => budget.commands > 0 /\ task = NoTask,
           by = "run" => task.mode = "run" /\ task.at = StartAt,
           by = "undo" => task.mode = "undo" /\ task.at = 2 /\ task.restorable
    PROVE  Typed'
<1>1. UNCHANGED <<slow, journal, task>>
  BY DEF Start, binaries
<1>2. /\ proc' \in [Services -> [Pids -> Process]] /\ start' \in Startings /\ budget' \in Budgets
      /\ start'.by = by
  BY StartTyped
<1>3. Positions'
  BY <1>1, <1>2, SamePlan, Places DEF Typed, Positions
<1>4. Rest'
  BY <1>1, <1>2, TypedFacts DEF Rest, Startings, Journals, Budgets
<1> QED
  BY <1>3, <1>4, TypeFromNext

\* A step of a task that stays in its plan.
LEMMA GoesOnTyped ==
    ASSUME Typed, Inv', slow' = slow, journal' \in Journals,
           proc' \in [Services -> [Pids -> Process]], budget' \in Budgets,
           task.mode \in {"run", "undo"}, start' = NoStart,
           task'.restorable = task.restorable, task'.poll \in 0..Polls,
           \/ task'.mode = "run" /\ task'.at \in 1..StartAt + 2
           \/ task'.mode = "undo" /\ task'.at \in 0..StartAt
    PROVE  Typed'
<1>1. Positions'
  BY SamePlan, Places DEF Positions
<1>2. task'.poll <= Polls /\ start' \in Startings
  BY Places, TypedFacts
<1>3. Rest'
  BY <1>2, TypedFacts DEF Rest, Startings, Journals, Budgets
<1> QED
  BY <1>1, <1>3, TypeFromNext

\* A step after which there is no task.
LEMMA EndsTyped ==
    ASSUME Typed, Inv', slow' = slow, journal' \in Journals,
           proc' \in [Services -> [Pids -> Process]], budget' \in Budgets,
           task' = NoTask, start' = NoStart
    PROVE  Typed'
<1>1. Positions'
  BY Places DEF Positions
<1>2. task'.poll <= Polls /\ start' \in Startings
  BY Places, TypedFacts
<1>3. Rest'
  BY <1>2, TypedFacts DEF Rest, Startings, Journals, Budgets
<1> QED
  BY <1>1, <1>3, TypeFromNext

\* A `start` that has ended.
LEMMA StartEndsTyped ==
    ASSUME Typed, Inv', NEW ok \in BOOLEAN, start.by # "nobody", StartEnds(ok), slow' = slow,
           journal' \in Journals, proc' \in [Services -> [Pids -> Process]], budget' \in Budgets
    PROVE  Typed'
<1>1. start' = NoStart
  BY DEF StartEnds
<1>2. task.poll \in 0..Polls /\ StartAt \in Nat /\ StartAt >= 4
  BY Places, TypedFacts
<1>3. CASE start.by = "operator"
  <2>1. task' = task /\ task = NoTask
    BY <1>3 DEF StartEnds, Typed, Positions
  <2> QED
    BY <1>1, <2>1, EndsTyped
<1>4. CASE start.by = "run" /\ ok
  <2>1. Completed /\ task.mode = "run" /\ task.at = StartAt
    BY <1>4 DEF StartEnds, Completed, Typed, Positions
  <2>2. /\ task'.mode = "run" /\ task'.at = StartAt + 1
        /\ task'.restorable = task.restorable /\ task'.poll = task.poll
    BY <2>1, Moved
  <2> QED
    BY <1>1, <1>2, <2>1, <2>2, GoesOnTyped
<1>5. CASE start.by = "run" /\ ~ok
  <2>1. Failed /\ task.mode = "run" /\ task.at = StartAt
    BY <1>5 DEF StartEnds, Failed, Typed, Positions
  <2>2. /\ task'.mode = "undo" /\ task'.at = StartAt - 1
        /\ task'.restorable = task.restorable /\ task'.poll = task.poll
    BY <2>1, Moved
  <2> QED
    BY <1>1, <1>2, <2>1, <2>2, GoesOnTyped
<1>6. CASE start.by = "undo"
  <2>1. Undone(ok) /\ task.mode = "undo" /\ task.at = 2
    BY <1>6 DEF StartEnds, Undone, Typed, Positions
  <2>2. /\ task'.mode = "undo" /\ task'.at = 1
        /\ task'.restorable = task.restorable /\ task'.poll = task.poll
    BY <2>1, Moved
  <2> QED
    BY <1>1, <1>2, <2>1, <2>2, GoesOnTyped
<1> QED
  BY <1>3, <1>4, <1>5, <1>6 DEF Typed, Inv

LEMMA BeginTaskTyped ==
    ASSUME Typed, Inv', NEW v \in Versions, Begin(v)
    PROVE  Typed'
<1>1. task' = [mode |-> "run", from |-> installed, to |-> v, restorable |-> Same(v), at |-> 1,
               poll |-> 0, seen |-> [s \in Services |-> NoPid], clean |-> TRUE]
  BY DEF Begin, NoTask
<1>2. UNCHANGED <<slow, journal, proc>> /\ start' = NoStart
  BY DEF Begin, binaries, services
<1>3. budget' \in Budgets
  <2> DEFINE left == budget.commands - 1
  <2>1. left \in 0..MaxCommands[slow] /\ budget' = [budget EXCEPT !.commands = left]
    BY TypedFacts DEF Begin, Budgets
  <2> HIDE DEF left
  <2> QED
    BY <2>1, TypedFacts DEF Budgets
<1>4. task'.mode = "run" /\ task'.at = 1 /\ task'.poll = 0
  BY <1>1
<1>5. Positions'
  <2>1. StartAt' \in Nat
    BY Places DEF StartAt, RecordAt
  <2>2. task'.at \in 1..StartAt' + 2 /\ start'.by = "nobody"
    BY <1>2, <1>4, <2>1, Places
  <2> QED
    BY <1>2, <1>4, <2>2 DEF Positions
<1>6. task'.poll <= Polls /\ start' \in Startings
  BY <1>2, <1>4, Places, TypedFacts
<1>7. Rest'
  BY <1>2, <1>3, <1>6, TypedFacts DEF Rest, Startings, Journals, Budgets
<1> QED
  BY <1>5, <1>7, TypeFromNext

LEMMA CommandsTyped ==
    ASSUME Typed, Inv',
           \/ RetainPreviousBinary \/ RestartPreviousVersion \/ RecordUpgrade \/ Stop
           \/ OverwriteDouglasExecutable \/ ConfirmHealthy
    PROVE  Typed'
<1> DEFINE Looks == /\ ~SoakEnds /\ task' = [task EXCEPT !.poll = @ + 1, !.seen = heartbeat]
                    /\ task.at = StartAt + 1
<1>1. /\ slow' = slow /\ start' = NoStart /\ task.mode = "run" /\ task.at \in 1..StartAt + 1
      /\ Completed \/ Failed \/ Looks
      /\ Failed => task.at <= StartAt + 1
  BY RunsAt, Places DEF RetainPreviousBinary, RestartPreviousVersion, RecordUpgrade, Stop,
     OverwriteDouglasExecutable, ConfirmHealthy, Running, binaries, services
<1>2. budget' \in Budgets
  BY FaultTyped, TypedFacts DEF RetainPreviousBinary, RestartPreviousVersion, RecordUpgrade, Stop,
     OverwriteDouglasExecutable, ConfirmHealthy, Prune
<1>3. journal' \in Journals
  <2>1. CASE RecordUpgrade
    <3>1. TornJournal \in Journals
      BY DEF TornJournal, NoJournal, Journals
    <3>2. task.from \in Versions \cup {NoVersion} /\ task.to \in Versions \cup {NoVersion}
      BY TypedFacts DEF Tasks
    <3>3. [from |-> task.from, to |-> task.to, torn |-> FALSE] \in Journals
      BY <3>2 DEF Journals
    <3> QED
      BY <2>1, <3>1, <3>3, TypedFacts DEF RecordUpgrade
  <2> QED
    BY <2>1, TypedFacts DEF RetainPreviousBinary, RestartPreviousVersion, Stop,
       OverwriteDouglasExecutable, ConfirmHealthy, binaries
<1>4. proc' \in [Services -> [Pids -> Process]]
  <2>1. CASE Stop
    <3>1. PICK stop \in Stops(Plan[task.at].service) :
              proc' = [proc EXCEPT ![Plan[task.at].service] = stop.now]
      BY <2>1 DEF Stop
    <3>2. Plan[task.at].service \in Services
      BY <2>1, RunsAt DEF Stop, Services
    <3> QED
      BY <3>1, <3>2, StopsTyped, TypedFacts
  <2> QED
    BY <2>1, TypedFacts DEF RetainPreviousBinary, RestartPreviousVersion, RecordUpgrade,
       OverwriteDouglasExecutable, ConfirmHealthy, services
<1>5. CASE Completed
  <2>1. /\ task'.mode = "run" /\ task'.at \in 1..StartAt + 2
        /\ task'.restorable = task.restorable /\ task'.poll \in 0..Polls
    BY SMTT(20), <1>1, <1>5, Moved, Places, TypedFacts
  <2> QED
    BY <1>1, <1>2, <1>3, <1>4, <2>1, GoesOnTyped
<1>6. CASE Failed
  <2>1. /\ task'.mode = "undo" /\ task'.at \in 0..StartAt
        /\ task'.restorable = task.restorable /\ task'.poll \in 0..Polls
    BY SMTT(20), <1>1, <1>6, Moved, Places, TypedFacts
  <2> QED
    BY <1>1, <1>2, <1>3, <1>4, <2>1, GoesOnTyped
<1>7. CASE Looks
  <2> DEFINE poll == task.poll + 1
  <2>1. poll \in 0..Polls
    BY <1>7, TypedFacts DEF SoakEnds
  <2>2. task' = [task EXCEPT !.poll = poll, !.seen = heartbeat]
    BY <1>7
  <2> HIDE DEF poll
  <2>3. task'.poll = poll /\ task'.at = task.at /\ task'.mode = task.mode
        /\ task'.restorable = task.restorable
    BY <2>2, TypedFacts DEF Tasks
  <2> QED
    BY <1>1, <1>2, <1>3, <1>4, <2>1, <2>3, Places, TypedFacts, GoesOnTyped
<1> QED
  BY <1>1, <1>5, <1>6, <1>7

LEMMA UndoesTyped ==
    ASSUME Typed, Inv', NothingToUndo \/ UndoStartNewVersion \/ UndoOverwrite
    PROVE  Typed'
<1>1. /\ slow' = slow /\ start' = NoStart /\ task.mode = "undo" /\ task.at \in 1..StartAt
      /\ \E ok \in BOOLEAN : Undone(ok)
      /\ UNCHANGED journal
  BY UndoesAt DEF NothingToUndo, UndoStartNewVersion, UndoOverwrite, Undoing, binaries, services
<1>2. budget' \in Budgets
  BY FaultTyped, TypedFacts DEF NothingToUndo, UndoStartNewVersion, UndoOverwrite
<1>3. proc' \in [Services -> [Pids -> Process]]
  BY StopAllTyped, TypedFacts DEF NothingToUndo, UndoStartNewVersion, UndoOverwrite, services
<1>4. /\ task'.mode = "undo" /\ task'.at \in 0..StartAt
      /\ task'.restorable = task.restorable /\ task'.poll \in 0..Polls
  BY SMTT(20), <1>1, Moved, Places, TypedFacts
<1> QED
  BY <1>1, <1>2, <1>3, <1>4, TypedFacts, GoesOnTyped

LEMMA ClearTyped == ASSUME Typed, ClearJournal PROVE journal' \in Journals /\ budget' \in Budgets
<1>1. NoJournal \in Journals
  BY DEF NoJournal, Journals
<1> QED
  BY <1>1, FaultTyped, TypedFacts DEF ClearJournal

LEMMA NextTyped == Typed /\ [Next]_vars => Typed'
<1> SUFFICES ASSUME Typed, [Next]_vars PROVE Typed'
  OBVIOUS
<1> USE NextInv DEF Typed
<1>0. Inv'
  OBVIOUS
<1> HIDE DEF Typed
<1>1. CASE \E s \in Services, p \in Pids : ComeUp(s, p) \/ Beat(s, p) \/ Exit(s, p) \/ Die(s, p)
  BY <1>0, <1>1, ProcessTyped
<1>2. CASE OperatorStarts
  BY <1>0, <1>2, BeginsTyped DEF OperatorStarts
<1>3. CASE StartSucceeds
  <2>1. start.by # "nobody" /\ StartEnds(TRUE) /\ UNCHANGED <<slow, proc>>
    BY <1>3 DEF StartSucceeds, StartReady, services
  <2>2. journal' \in Journals /\ budget' \in Budgets
    BY <1>3, ClearTyped, TypedFacts DEF StartSucceeds
  <2> QED
    BY <1>0, <2>1, <2>2, TypedFacts, StartEndsTyped
<1>4. CASE StartFails
  <2>1. start.by # "nobody" /\ StartEnds(FALSE) /\ UNCHANGED <<slow, journal>>
    BY <1>4 DEF StartFails, StartFailed
  <2>2. proc' \in [Services -> [Pids -> Process]]
    BY <1>4, StopAllTyped, TypedFacts DEF StartFails
  <2>3. budget' \in Budgets
    BY <1>4, FaultTyped, TypedFacts DEF StartFails, StartFailed
  <2> QED
    BY <1>0, <2>1, <2>2, <2>3, TypedFacts, StartEndsTyped
<1>5. CASE BeginUpgrade
  BY <1>0, <1>5, BeginTaskTyped DEF BeginUpgrade
<1>6. CASE BeginRollback
  <2>1. PICK v \in kept : Begin(v)
    BY <1>6 DEF BeginRollback
  <2>2. v \in Versions
    BY <2>1 DEF Typed, Inv
  <2> QED
    BY <1>0, <2>1, <2>2, BeginTaskTyped
<1>7. CASE \/ RetainPreviousBinary \/ RestartPreviousVersion \/ RecordUpgrade \/ Stop
           \/ OverwriteDouglasExecutable \/ ConfirmHealthy
  BY <1>0, <1>7, CommandsTyped
<1>8. CASE StartNewVersion
  BY <1>0, <1>8, BeginsTyped, RunsAt DEF StartNewVersion, Running
<1>9. CASE ClearUpgradeRecord
  BY <1>0, <1>9, ClearTyped, TypedFacts, EndsTyped DEF ClearUpgradeRecord, Running, services
<1>10. CASE NothingToUndo \/ UndoStartNewVersion \/ UndoOverwrite
  BY <1>0, <1>10, UndoesTyped
<1>11. CASE UndoRestartPreviousVersion
  BY <1>0, <1>11, BeginsTyped, UndoesAt DEF UndoRestartPreviousVersion, Undoing
<1>12. CASE GiveUp
  BY <1>0, <1>12, TypedFacts, EndsTyped DEF GiveUp, binaries, services
<1>13. CASE Crash
  <2>1. budget' \in Budgets
    <3> DEFINE left == budget.crashes - 1
    <3>1. left \in 0..MaxCrashes /\ budget' = [budget EXCEPT !.crashes = left]
      BY <1>13, TypedFacts DEF Crash, Budgets
    <3> HIDE DEF left
    <3> QED
      BY <3>1, TypedFacts DEF Budgets
  <2>2. proc' \in [Services -> [Pids -> Process]]
    <3>1. Gone \in Process
      BY DEF Process
    <3> QED
      BY <1>13, <3>1, TypedFacts DEF Crash
  <2> QED
    BY <1>0, <1>13, <2>1, <2>2, TypedFacts, EndsTyped DEF Crash
<1>14. CASE UNCHANGED vars
  <2>1. Positions'
    BY <1>14, SamePlan DEF vars, Typed, Positions
  <2>2. Rest'
    BY <1>14, TypedFacts DEF vars, Rest, Startings, Journals, Budgets
  <2> QED
    BY <1>0, <2>1, <2>2, TypeFromNext
<1> QED
  BY <1>1, <1>2, <1>3, <1>4, <1>5, <1>6, <1>7, <1>8, <1>9, <1>10, <1>11, <1>12, <1>13,
     <1>14 DEF Next

\* Every variable keeps its type: no plan runs past its last command or is undone
\* past its first, and a `start` run by a plan belongs to one.
THEOREM TypeCorrect == Spec => []TypeOK
<1>1. Typed => TypeOK
  BY DEF Typed
<1> QED
  BY InitTyped, NextTyped, <1>1, PTL DEF Spec

-----------------------------------------------------------------------------
(* The journal and the installed binary. *)

\* Between the moment a plan has recorded itself and the moment it is complete, or
\* undone as far, the journal names it.  Without a journal, and in a plan that has
\* started it, what is installed is what was started, unless the marker was cut off.
\* Until a plan has put the new binary in place, and when its undoing has come that
\* far without an error, the previous one is installed.
JournalInHand ==
    \/ task.mode = "run" /\ task.at > RecordAt
    \/ task.mode = "undo" /\ task.at >= RecordAt
    => journal = [from |-> task.from, to |-> task.to, torn |-> FALSE]

StartedInHand ==
    journal = NoJournal \/ (task.mode = "run" /\ task.at > StartAt) =>
        installed = marker \/ Torn

PreviousInHand ==
    /\ task.mode = "run" /\ task.at <= OverwriteAt => installed = task.from
    /\ task.mode = "undo" /\ task.at < OverwriteAt /\ task.restorable /\ task.clean =>
           installed = task.from

InHand == JournalInHand /\ StartedInHand /\ PreviousInHand

LEMMA RecordedIsJournal ==
    ASSUME Typed, task.mode # "idle"
    PROVE  /\ task.from \in Versions /\ task.to \in Versions
           /\ [from |-> task.from, to |-> task.to, torn |-> FALSE] # NoJournal
           /\ TornJournal # NoJournal
<1>1. task.from \in Versions /\ task.to \in Versions /\ NoVersion \notin Versions
  BY VersionFacts DEF Typed, Inv, TaskInHand
<1> QED
  BY <1>1 DEF NoJournal, TornJournal

\* A task that moves, while the journal and the binaries stay.
LEMMA MovesInHand ==
    ASSUME Typed, InHand, UNCHANGED <<installed, journal>>, marker' \in {marker, NoVersion},
           task.mode \in {"run", "undo"}, task'.mode \in {"run", "undo"},
           task'.from = task.from, task'.to = task.to, task'.restorable = task.restorable,
           task'.clean => task.clean,
           task'.mode = "run" =>
               /\ task.mode = "run"
               /\ \/ task'.at = task.at
                  \/ task'.at = task.at + 1 /\ task.at \notin {RecordAt, StartAt},
           task'.mode = "undo" =>
               /\ task'.at = task.at - 1
               /\ task.mode = "undo" => task.at # OverwriteAt
    PROVE  InHand'
<1>1. RecordAt' = RecordAt /\ OverwriteAt' = OverwriteAt /\ StartAt' = StartAt
  BY SamePlan
<1>2. JournalInHand' /\ StartedInHand'
  BY <1>1, Places DEF InHand, JournalInHand, StartedInHand, Torn
<1>3. PreviousInHand'
  <2>1. ASSUME task'.mode = "run", task'.at <= OverwriteAt PROVE installed' = task'.from
    BY <2>1, Places DEF InHand, PreviousInHand
  <2>2. ASSUME task'.mode = "undo", task'.at < OverwriteAt, task'.restorable, task'.clean
        PROVE  installed' = task'.from
    BY <2>2, Places DEF InHand, PreviousInHand
  <2> QED
    BY <1>1, <2>1, <2>2 DEF PreviousInHand
<1> QED
  BY <1>2, <1>3 DEF InHand

\* A step after which there is no task.
LEMMA IdleInHand ==
    ASSUME Typed, task'.mode = "idle", journal' = NoJournal => installed' = marker' \/ Torn'
    PROVE  InHand'
  BY DEF InHand, JournalInHand, StartedInHand, PreviousInHand

\* A step of which the task knows nothing.
LEMMA OutsideInHand ==
    ASSUME Typed, InHand, UNCHANGED <<installed, journal, task>>,
           marker' \in {marker, installed, NoVersion}
    PROVE  InHand'
<1>1. RecordAt' = RecordAt /\ OverwriteAt' = OverwriteAt /\ StartAt' = StartAt
  BY SamePlan
<1> QED
  BY <1>1 DEF InHand, JournalInHand, StartedInHand, PreviousInHand, Torn

LEMMA StartSucceedsInHand ==
    ASSUME Typed, InHand, StartSucceeds
    PROVE  InHand'
<1>1. marker' = installed /\ UNCHANGED installed /\ StartEnds(TRUE) /\ start.by # "nobody"
  BY DEF StartSucceeds, StartReady, Typed, Inv, StartInHand
<1>2. CASE start.by = "operator"
  BY <1>1, <1>2, OutsideInHand DEF StartEnds, StartSucceeds
<1>3. CASE start.by = "run"
  <2>1. Completed /\ task.mode = "run" /\ task.at = StartAt /\ UNCHANGED journal
    BY <1>1, <1>3 DEF StartEnds, Completed, Typed, Positions, StartSucceeds
  <2>2. /\ RecordAt' = RecordAt /\ OverwriteAt' = OverwriteAt
        /\ task'.mode = "run" /\ task'.at = StartAt + 1
        /\ task'.from = task.from /\ task'.to = task.to
    BY <2>1, Moved, SamePlan
  <2>3. JournalInHand'
    BY <2>1, <2>2, Places DEF InHand, JournalInHand
  <2>4. PreviousInHand'
    BY <2>1, <2>2, Places DEF PreviousInHand
  <2> QED
    BY <1>1, <2>3, <2>4 DEF InHand, StartedInHand
<1>4. CASE start.by = "undo"
  <2>1. Undone(TRUE) /\ task.mode = "undo" /\ task.at = 2 /\ task.restorable
    BY <1>1, <1>4 DEF StartEnds, Undone, Typed, Positions
  <2>2. /\ RecordAt' = RecordAt /\ OverwriteAt' = OverwriteAt
        /\ task'.mode = "undo" /\ task'.at = 1 /\ (task'.clean => task.clean)
        /\ task'.restorable = task.restorable /\ task'.from = task.from
    <3>1. task.at - 1 = 1
      BY <2>1
    <3> QED
      BY <2>1, <3>1, Moved, SamePlan
  <2>3. JournalInHand'
    BY <2>1, <2>2, Places DEF JournalInHand
  <2>4. PreviousInHand'
    BY <1>1, <2>1, <2>2, Places DEF InHand, PreviousInHand
  <2> QED
    BY <1>1, <2>3, <2>4 DEF InHand, StartedInHand
<1> QED
  BY <1>1, <1>2, <1>3, <1>4 DEF Typed, Inv

LEMMA StartFailsInHand ==
    ASSUME Typed, InHand, StartFails
    PROVE  InHand'
<1>1. /\ UNCHANGED <<installed, journal>> /\ marker' \in {marker, NoVersion}
      /\ StartEnds(FALSE) /\ start.by # "nobody"
  BY DEF StartFails, StartFailed, MarkerKeptOrCutOff
<1>2. CASE start.by = "operator"
  BY <1>1, <1>2, OutsideInHand DEF StartEnds
<1>3. CASE start.by = "run"
  <2>1. Failed /\ task.mode = "run"
    BY <1>1, <1>3 DEF StartEnds, Failed, Typed, Positions
  <2> QED
    BY <1>1, <2>1, Moved, MovesInHand
<1>4. CASE start.by = "undo"
  <2>1. Undone(FALSE) /\ task.mode = "undo" /\ task.at = 2
    BY <1>1, <1>4 DEF StartEnds, Undone, Typed, Positions
  <2>2. task.at # OverwriteAt
    BY <2>1, Places
  <2>3. /\ task'.at = task.at - 1 /\ task'.mode = "undo" /\ task'.from = task.from
        /\ task'.to = task.to /\ task'.restorable = task.restorable
        /\ task'.clean => task.clean
    BY <2>1, Moved
  <2> QED
    BY <1>1, <2>1, <2>2, <2>3, MovesInHand
<1> QED
  BY <1>1, <1>2, <1>3, <1>4 DEF Typed, Inv

\* The commands that leave the journal and the installed binary alone.
LEMMA CommandsInHand ==
    ASSUME Typed, InHand,
           \/ RetainPreviousBinary \/ RestartPreviousVersion \/ Stop \/ ConfirmHealthy
           \/ StartNewVersion
    PROVE  InHand'
<1>1. UNCHANGED <<installed, marker, journal>> /\ task.mode = "run"
  BY DEF RetainPreviousBinary, RestartPreviousVersion, Stop, ConfirmHealthy, StartNewVersion, Start,
     Running, binaries
<1>2. task.at = StartAt => UNCHANGED task
  BY RunsAt, Places DEF RetainPreviousBinary, RestartPreviousVersion, Stop, ConfirmHealthy,
     StartNewVersion
<1>7. task.at # RecordAt
  BY RunsAt, Places DEF RetainPreviousBinary, RestartPreviousVersion, Stop, ConfirmHealthy,
     StartNewVersion
<1>3. \/ Completed \/ Failed \/ UNCHANGED task
      \/ task' = [task EXCEPT !.poll = @ + 1, !.seen = heartbeat]
  BY DEF RetainPreviousBinary, RestartPreviousVersion, Stop, ConfirmHealthy, StartNewVersion
<1>4. CASE Completed \/ Failed
  <2>1. task.at # StartAt
    BY <1>2, <1>4, Moved, Places
  <2> QED
    BY <1>1, <1>4, <1>7, <2>1, Moved, MovesInHand
<1>5. CASE UNCHANGED task
  BY <1>1, <1>5, OutsideInHand
<1>6. CASE task' = [task EXCEPT !.poll = @ + 1, !.seen = heartbeat]
  <2> DEFINE poll == task.poll + 1
  <2>1. task' = [task EXCEPT !.poll = poll, !.seen = heartbeat]
    BY <1>6
  <2> HIDE DEF poll
  <2>2. task'.at = task.at /\ task'.mode = task.mode /\ task'.restorable = task.restorable
        /\ task'.from = task.from /\ task'.to = task.to /\ task'.clean = task.clean
    BY <2>1, TypedFacts DEF Tasks
  <2> QED
    BY <1>1, <2>2, MovesInHand
<1> QED
  BY <1>3, <1>4, <1>5, <1>6

LEMMA RecordInHand ==
    ASSUME Typed, InHand, RecordUpgrade
    PROVE  InHand'
<1>1. UNCHANGED <<installed, marker>> /\ task.mode = "run" /\ task.at = RecordAt
  BY RunsAt DEF RecordUpgrade, Running
<1>2. installed = task.from
  BY <1>1, Places DEF InHand, PreviousInHand
<1>3. CASE Completed /\ journal' = [from |-> task.from, to |-> task.to, torn |-> FALSE]
  <2>1. /\ RecordAt' = RecordAt /\ OverwriteAt' = OverwriteAt /\ StartAt' = StartAt
        /\ task'.mode = "run" /\ task'.at = RecordAt + 1 /\ ~(task'.at > StartAt)
        /\ task'.from = task.from /\ task'.to = task.to
    BY <1>1, <1>3, Moved, SamePlan, Places
  <2>2. journal' # NoJournal
    BY <1>1, <1>3, RecordedIsJournal
  <2> QED
    BY <1>1, <1>2, <1>3, <2>1, <2>2 DEF InHand, JournalInHand, StartedInHand, PreviousInHand
<1>4. CASE Failed /\ journal' \in {journal, TornJournal}
  <2>1. /\ RecordAt' = RecordAt /\ OverwriteAt' = OverwriteAt
        /\ task'.mode = "undo" /\ task'.at = RecordAt - 1 /\ task'.from = task.from
    BY <1>1, <1>4, Moved, SamePlan
  <2>2. JournalInHand' /\ PreviousInHand'
    BY <1>1, <1>2, <2>1, Places DEF JournalInHand, PreviousInHand
  <2>3. StartedInHand'
    BY <1>1, <1>4, <2>1, RecordedIsJournal DEF InHand, StartedInHand, Torn
  <2> QED
    BY <2>2, <2>3 DEF InHand
<1> QED
  BY <1>3, <1>4 DEF RecordUpgrade

LEMMA OverwriteInHand ==
    ASSUME Typed, InHand, OverwriteDouglasExecutable
    PROVE  InHand'
<1>1. UNCHANGED <<marker, journal>> /\ task.mode = "run" /\ task.at = OverwriteAt
  BY RunsAt DEF OverwriteDouglasExecutable, Running
<1>2. CASE Completed
  <2>1. /\ RecordAt' = RecordAt /\ OverwriteAt' = OverwriteAt /\ StartAt' = StartAt
        /\ task'.mode = "run" /\ task'.at = OverwriteAt + 1 /\ ~(task'.at > StartAt)
        /\ task'.from = task.from /\ task'.to = task.to
    BY <1>1, <1>2, Moved, SamePlan, Places
  <2>2. journal = [from |-> task.from, to |-> task.to, torn |-> FALSE]
    BY <1>1, Places DEF InHand, JournalInHand
  <2>3. journal' # NoJournal
    BY <1>1, <2>2, RecordedIsJournal
  <2> QED
    BY <1>1, <2>1, <2>2, <2>3, Places DEF InHand, JournalInHand, StartedInHand, PreviousInHand
<1>3. CASE Failed /\ UNCHANGED installed
  BY <1>1, <1>3, Moved, MovesInHand
<1> QED
  BY <1>2, <1>3 DEF OverwriteDouglasExecutable

LEMMA UndoesInHand ==
    ASSUME Typed, InHand, NothingToUndo \/ UndoStartNewVersion
    PROVE  InHand'
<1>1. UNCHANGED <<installed, marker, journal>> /\ task.mode = "undo" /\ Undone(TRUE)
  BY DEF NothingToUndo, UndoStartNewVersion, Undoing, binaries
<1>2. task.at # OverwriteAt
  <2>1. CASE NothingToUndo
    <3>1. CommandAt(task.at) # "OverwriteDouglasExecutable"
      BY <2>1, UndoesAt DEF NothingToUndo
    <3> QED
      BY <3>1, Places DEF CommandAt
  <2>2. CASE UndoStartNewVersion
    BY <2>2, UndoesAt, Places DEF UndoStartNewVersion
  <2> QED
    BY <2>1, <2>2
<1> QED
  BY <1>1, <1>2, Moved, MovesInHand

LEMMA UndoOverwriteInHand ==
    ASSUME Typed, InHand, UndoOverwrite
    PROVE  InHand'
<1>1. UNCHANGED <<marker, journal>> /\ task.mode = "undo" /\ task.at = OverwriteAt
  BY UndoesAt DEF UndoOverwrite, Undoing
<1>2. PICK ok \in BOOLEAN : /\ Undone(ok)
                            /\ task.restorable /\ ok => installed' = task.from
  BY DEF UndoOverwrite, Restored
<1>3. /\ RecordAt' = RecordAt /\ OverwriteAt' = OverwriteAt
      /\ task'.mode = "undo" /\ task'.at = OverwriteAt - 1
      /\ task'.from = task.from /\ task'.to = task.to /\ task'.restorable = task.restorable
      /\ task'.clean => ok
  BY <1>1, <1>2, Moved, SamePlan
<1>4. journal = [from |-> task.from, to |-> task.to, torn |-> FALSE]
  BY <1>1, Places DEF InHand, JournalInHand
<1>5. journal' # NoJournal
  BY <1>1, <1>4, RecordedIsJournal
<1> QED
  BY <1>1, <1>2, <1>3, <1>4, <1>5 DEF InHand, JournalInHand, StartedInHand, PreviousInHand

LEMMA BeginInHand ==
    ASSUME Typed, InHand, NEW v, Begin(v)
    PROVE  InHand'
<1>1. task' = [mode |-> "run", from |-> installed, to |-> v, restorable |-> Same(v), at |-> 1,
               poll |-> 0, seen |-> [s \in Services |-> NoPid], clean |-> TRUE]
      /\ UNCHANGED <<installed, marker, journal>>
  BY DEF Begin, NoTask, binaries
<1>2. task'.mode = "run" /\ task'.at = 1 /\ task'.from = installed
  BY <1>1
<1>3. RecordAt' \in {2, 3} /\ ~(1 > StartAt')
  BY Places DEF RecordAt, StartAt
<1> QED
  BY <1>1, <1>2, <1>3 DEF InHand, JournalInHand, StartedInHand, PreviousInHand, Torn

LEMMA NextInHand == Typed /\ InHand /\ [Next]_vars => InHand'
<1> SUFFICES ASSUME Typed, InHand, [Next]_vars PROVE InHand'
  OBVIOUS
<1>0. journal = NoJournal => installed = marker \/ Torn
  BY DEF InHand, StartedInHand
<1>1. CASE \E s \in Services, p \in Pids : ComeUp(s, p) \/ Beat(s, p) \/ Exit(s, p) \/ Die(s, p)
  BY <1>0, <1>1, OutsideInHand DEF ComeUp, Beat, Exit, Die, binaries
<1>2. CASE OperatorStarts \/ UndoRestartPreviousVersion
  BY <1>0, <1>2, OutsideInHand DEF OperatorStarts, UndoRestartPreviousVersion, Start, binaries
<1>3. CASE StartSucceeds \/ StartFails
  BY <1>3, StartSucceedsInHand, StartFailsInHand
<1>4. CASE BeginUpgrade \/ BeginRollback
  BY <1>4, BeginInHand DEF BeginUpgrade, BeginRollback
<1>5. CASE \/ RetainPreviousBinary \/ RestartPreviousVersion \/ Stop \/ ConfirmHealthy
           \/ StartNewVersion
  BY <1>5, CommandsInHand
<1>6. CASE RecordUpgrade \/ OverwriteDouglasExecutable \/ UndoOverwrite
  BY <1>6, RecordInHand, OverwriteInHand, UndoOverwriteInHand
<1>7. CASE NothingToUndo \/ UndoStartNewVersion
  BY <1>7, UndoesInHand
<1>8. CASE ClearUpgradeRecord
  <2>1. task' = NoTask /\ UNCHANGED <<installed, marker>>
        /\ task.mode = "run" /\ task.at = StartAt + 2
    BY <1>8, RunsAt DEF ClearUpgradeRecord, Running
  <2>2. installed = marker \/ Torn
    BY <2>1, Places DEF InHand, StartedInHand
  <2> QED
    BY <2>1, <2>2, Places, IdleInHand DEF Torn
<1>9. CASE GiveUp \/ Crash
  BY <1>0, <1>9, Places, IdleInHand DEF GiveUp, Crash, binaries, MarkerKeptOrCutOff, Torn
<1>10. CASE UNCHANGED vars
  BY <1>0, <1>10, OutsideInHand DEF vars
<1> QED
  BY <1>1, <1>2, <1>3, <1>4, <1>5, <1>6, <1>7, <1>8, <1>9, <1>10 DEF Next

LEMMA InitInHand == Init => InHand
<1> SUFFICES ASSUME Init PROVE InHand
  OBVIOUS
<1>1. installed = marker /\ task.mode = "idle"
  BY DEF Init, NoTask
<1> QED
  BY <1>1 DEF InHand, JournalInHand, StartedInHand, PreviousInHand

\* A host that no journal marks as in the middle of an upgrade has the binary installed
\* that was last started completely: the journal is written before anything is replaced
\* (RecordUpgrade), and goes when the new version is healthy or the previous one restarted.
THEOREM SettledCorrect == Spec => []SettledIsStarted
<1>1. InHand => SettledIsStarted
  BY DEF InHand, StartedInHand, SettledIsStarted
<1> QED
  BY InitTyped, NextTyped, InitInHand, NextInHand, <1>1, PTL DEF Spec

\* A restorable upgrade or rollback that fails ends with the previous binary installed,
\* unless putting it back, or starting it, failed too: wherever the plan broke off.
THEOREM UndoneCorrect == Spec => FailureUndone
<1>1. Typed /\ InHand /\ [Next]_vars =>
          [GiveUp /\ task.restorable /\ task.clean => installed = task.from]_vars
  BY Places DEF GiveUp, InHand, PreviousInHand
<1> QED
  BY InitTyped, NextTyped, InitInHand, NextInHand, <1>1, PTL DEF Spec, FailureUndone

-----------------------------------------------------------------------------
(* The kept copies, whatever versions the operator names and whatever copies *)
(* cannot be deleted.                                                        *)

\* A version is kept, or as many newer ones are as are to be.
Covered(v) == v \in kept \/ Cardinality({w \in kept : w > v}) >= RetainedCount

\* What a journal names as replaced, be it of a plan that runs or of one that was interrupted.
JournalCovered == journal.from # NoVersion => Covered(journal.from)

\* A plan has kept its copy when its first command has succeeded.
CopyInHand ==
    /\ JournalCovered
    /\ task.mode = "run" /\ task.at > 1 => Covered(task.from)

\* Deleting all but the newest, or fewer, covers what was covered: when something newer is
\* deleted, take the newest such; RetainedCount versions newer than that one stay.
LEMMA PruneCovers ==
    ASSUME NEW set, IsFiniteSet(set), set \subseteq Nat, RetainedCount \in Nat,
           NEW keep, Newest(set) \subseteq keep, keep \subseteq set, NEW v \in Nat,
           v \in set \/ Cardinality({w \in set : w > v}) >= RetainedCount
    PROVE  v \in keep \/ Cardinality({w \in keep : w > v}) >= RetainedCount
<1> DEFINE above(x) == {w \in set : w > x}
           left == {w \in keep : w > v}
           gone == above(v) \ Newest(set)
<1>1. \A x \in Nat : IsFiniteSet(above(x)) /\ Cardinality(above(x)) \in Nat
  BY FS_Subset, FS_CardinalityType
<1>2. \A x \in set : x \in Newest(set) <=> Cardinality(above(x)) < RetainedCount
  BY DEF Newest
<1>3. IsFiniteSet(left) /\ Cardinality(left) \in Nat
  BY FS_Subset, FS_CardinalityType
<1>4. CASE gone = {}
  <2>1. left = above(v)
    BY <1>4
  <2>2. v \in set => v \in keep \/ Cardinality(above(v)) >= RetainedCount
    BY <1>1, <1>2
  <2> HIDE DEF above, left
  <2>3. Cardinality(left) = Cardinality(above(v))
    BY <2>1
  <2>4. left = {w \in keep : w > v} /\ above(v) = {w \in set : w > v}
    BY DEF left, above
  <2> QED
    BY <2>2, <2>3, <2>4
<1>5. CASE gone # {}
  <2> DEFINE order == {pair \in Nat \X Nat : pair[1] < pair[2]}
             sizes == {Cardinality(above(x)) : x \in gone}
  <2>1. IsWellFoundedOn(order, Nat)
    BY NatLessThanWellFounded DEF OpToRel
  <2>2. gone \subseteq Nat /\ sizes \subseteq Nat /\ sizes # {}
    BY <1>1, <1>5
  <2>3. PICK least \in sizes : \A n \in sizes : ~(<<n, least>> \in order)
    <3> HIDE DEF sizes, order
    <3> QED
      BY <2>1, <2>2, WFMin
  <2>4. PICK x \in gone : least = Cardinality(above(x))
    BY <2>3
  <2>5. \A y \in gone : ~(Cardinality(above(y)) < Cardinality(above(x)))
    BY <1>1, <2>2, <2>3, <2>4
  <2>6. ASSUME NEW w \in above(x) PROVE w \in left
    <3>1. w \in set /\ w > x /\ x > v /\ w \in Nat /\ x \in Nat /\ w > v
      BY <2>2, <2>4
    <3>2. Cardinality(above(w)) < Cardinality(above(x))
      <4>1. above(w) \subseteq above(x) \ {w}
        <5> SUFFICES ASSUME NEW y \in above(w) PROVE y \in above(x) \ {w}
          OBVIOUS
        <5>1. y \in set /\ y \in Nat /\ y > w
          OBVIOUS
        <5>2. y > x /\ y # w
          BY <3>1, <5>1
        <5> QED
          BY <5>1, <5>2
      <4>2. IsFiniteSet(above(x) \ {w}) /\ Cardinality(above(x) \ {w}) = Cardinality(above(x)) - 1
        BY <1>1, <2>6, <3>1, FS_RemoveElement
      <4>3. Cardinality(above(w)) <= Cardinality(above(x) \ {w})
        BY <4>1, <4>2, FS_Subset
      <4>4. Cardinality(above(w)) \in Nat /\ Cardinality(above(x)) \in Nat
        BY <1>1, <3>1
      <4> HIDE DEF above
      <4> QED
        BY <4>2, <4>3, <4>4
    <3>3. w \in Newest(set)
      BY <2>5, <3>1, <3>2
    <3> QED
      BY <3>1, <3>3
  <2>7. Cardinality(above(x)) >= RetainedCount
    <3>1. x \in set /\ x \in Nat /\ x \notin Newest(set)
      BY <2>2
    <3>2. Cardinality(above(x)) \in Nat /\ ~(Cardinality(above(x)) < RetainedCount)
      BY <1>1, <1>2, <3>1
    <3> HIDE DEF above
    <3> QED
      BY <3>2
  <2>8. Cardinality(above(x)) <= Cardinality(left)
    <3>1. above(x) \subseteq left
      BY <2>6
    <3> HIDE DEF above, left
    <3> QED
      BY <1>3, <3>1, FS_Subset
  <2>9. Cardinality(above(x)) \in Nat
    BY <1>1, <2>2
  <2>10. Cardinality(left) >= RetainedCount
    <3> HIDE DEF above, left
    <3> QED
      BY <1>3, <2>7, <2>8, <2>9
  <2> QED
    BY <2>10
<1> QED
  BY <1>4, <1>5

\* Steps that keep the copies, name nothing new in the journal and begin no plan's rest.
LEMMA StaysCovered ==
    ASSUME CopyInHand, UNCHANGED kept,
           journal'.from \in {journal.from, NoVersion},
           task'.mode = "run" /\ task'.at > 1 =>
               task.mode = "run" /\ task.at > 1 /\ task'.from = task.from
    PROVE  CopyInHand'
  BY DEF CopyInHand, JournalCovered, Covered

LEMMA RetainCovers ==
    ASSUME Typed, CopyInHand, RetainPreviousBinary
    PROVE  CopyInHand'
<1>1. /\ task.mode = "run" /\ UNCHANGED journal /\ task.from \in Versions
      /\ kept \subseteq Versions /\ journal.from \in Versions \cup {NoVersion}
      /\ task.at = 1
  BY RunsAt, TypedFacts DEF RetainPreviousBinary, Running, Typed, Inv, TaskInHand, Journals
<1>2. CASE Prune(kept \cup {task.from}) /\ Completed
  <2> DEFINE set == kept \cup {task.from}
  <2>1. Newest(set) \subseteq kept' /\ kept' \subseteq set
    BY <1>2 DEF Prune, Newest
  <2>2. IsFiniteSet(set) /\ set \subseteq Nat /\ RetainedCount \in Nat
    <3>1. set \subseteq Versions /\ Versions \subseteq Nat /\ RetainedCount \in Nat
      BY <1>1, UpgradeAssumption
    <3>2. IsFiniteSet(set)
      BY <3>1, UpgradeAssumption, FS_Subset
    <3> QED
      BY <3>1, <3>2
  <2>3. task'.from = task.from
    BY <1>2, Moved
  <2>4. \A v \in Nat : v \in set \/ Covered(v) => Covered(v)'
    <3> SUFFICES ASSUME NEW v \in Nat, v \in set \/ Covered(v) PROVE Covered(v)'
      OBVIOUS
    <3>1. v \in set \/ Cardinality({w \in set : w > v}) >= RetainedCount
      <4>1. /\ IsFiniteSet({w \in set : w > v}) /\ {w \in kept : w > v} \subseteq {w \in set : w > v}
            /\ IsFiniteSet({w \in kept : w > v})
        BY <2>2, FS_Subset
      <4>2. /\ Cardinality({w \in kept : w > v}) <= Cardinality({w \in set : w > v})
            /\ Cardinality({w \in kept : w > v}) \in Nat /\ Cardinality({w \in set : w > v}) \in Nat
        BY <4>1, FS_Subset, FS_CardinalityType
      <4> QED
        BY <2>2, <4>2 DEF Covered
    <3>2. PICK keep : keep = kept'
      OBVIOUS
    <3>3. v \in keep \/ Cardinality({w \in keep : w > v}) >= RetainedCount
      <4> HIDE DEF set
      <4> QED
        BY <2>1, <2>2, <3>1, <3>2, PruneCovers
    <3> QED
      BY <3>2, <3>3 DEF Covered
  <2>5. Covered(task.from)'
    BY <1>1, <2>2, <2>3, <2>4 DEF Covered
  <2>6. JournalCovered'
    BY <1>1, <2>2, <2>4, UpgradeAssumption DEF CopyInHand, JournalCovered, Covered, NoVersion
  <2> QED
    BY <2>5, <2>6 DEF CopyInHand
<1>3. CASE Failed /\ UNCHANGED kept
  BY <1>1, <1>3, Moved, StaysCovered
<1> QED
  BY <1>2, <1>3 DEF RetainPreviousBinary

LEMMA RecordCovers ==
    ASSUME Typed, CopyInHand, RecordUpgrade
    PROVE  CopyInHand'
<1>1. task.mode = "run" /\ task.at > 1 /\ UNCHANGED kept
  BY RunsAt, Places DEF RecordUpgrade, Running
<1>2. Completed \/ Failed
  BY DEF RecordUpgrade
<1>3. Covered(task.from) /\ task'.from = task.from
  BY <1>1, <1>2, Moved DEF CopyInHand
<1>4. journal'.from \in {journal.from, NoVersion, task.from}
  BY DEF RecordUpgrade, TornJournal, NoJournal
<1> QED
  BY <1>1, <1>3, <1>4 DEF CopyInHand, JournalCovered, Covered

LEMMA StartEndsCovered ==
    ASSUME Typed, CopyInHand, StartSucceeds \/ StartFails
    PROVE  CopyInHand'
<1>1. /\ start.by # "nobody" /\ UNCHANGED kept /\ journal'.from \in {journal.from, NoVersion}
      /\ \E ok \in BOOLEAN : StartEnds(ok)
  <2>1. CASE StartSucceeds
    <3>1. start.by # "nobody" /\ UNCHANGED kept /\ StartEnds(TRUE)
      BY <2>1 DEF StartSucceeds, StartReady
    <3>2. journal' = journal \/ journal' = NoJournal
      BY <2>1 DEF StartSucceeds, ClearJournal
    <3>3. NoJournal.from = NoVersion
      BY DEF NoJournal
    <3> QED
      BY <3>1, <3>2, <3>3
  <2>2. CASE StartFails
    BY <2>2 DEF StartFails, StartFailed
  <2> QED
    BY <2>1, <2>2
<1>2. CASE start.by = "operator"
  BY <1>1, <1>2, StaysCovered DEF StartEnds
<1>3. CASE start.by = "run"
  <2>1. (Completed \/ Failed) /\ task.mode = "run" /\ task.at > 1
    BY <1>1, <1>3, Places DEF StartEnds, Completed, Failed, Typed, Positions
  <2> QED
    BY <1>1, <2>1, Moved, StaysCovered
<1>4. CASE start.by = "undo"
  <2>1. task.mode = "undo" /\ \E ok \in BOOLEAN : Undone(ok)
    BY <1>1, <1>4 DEF StartEnds, Undone, Typed, Positions
  <2> QED
    BY <1>1, <2>1, Moved, StaysCovered
<1> QED
  BY <1>1, <1>2, <1>3, <1>4 DEF Typed, Inv

\* The other commands of a plan, and what undoes them.
LEMMA CommandsCovered ==
    ASSUME Typed, CopyInHand,
           \/ RestartPreviousVersion \/ Stop \/ OverwriteDouglasExecutable \/ ConfirmHealthy
           \/ NothingToUndo \/ UndoStartNewVersion \/ UndoOverwrite
    PROVE  CopyInHand'
<1>1. UNCHANGED <<kept, journal>>
  BY DEF RestartPreviousVersion, Stop, OverwriteDouglasExecutable, ConfirmHealthy,
     NothingToUndo, UndoStartNewVersion, UndoOverwrite, binaries
<1>2. CASE RestartPreviousVersion \/ Stop \/ OverwriteDouglasExecutable \/ ConfirmHealthy
  <2>1. task.mode = "run" /\ task.at > 1
    BY <1>2, RunsAt, Places DEF RestartPreviousVersion, Stop, OverwriteDouglasExecutable,
       ConfirmHealthy, Running
  <2>2. task'.from = task.from
    <3>1. CASE Completed \/ Failed
      BY <3>1, Moved
    <3>2. CASE task' = [task EXCEPT !.poll = @ + 1, !.seen = heartbeat]
      <4> DEFINE poll == task.poll + 1
      <4>1. task' = [task EXCEPT !.poll = poll, !.seen = heartbeat]
        BY <3>2
      <4> HIDE DEF poll
      <4> QED
        BY <4>1, TypedFacts DEF Tasks
    <3> QED
      BY <1>2, <3>1, <3>2 DEF RestartPreviousVersion, Stop, OverwriteDouglasExecutable, ConfirmHealthy
  <2> QED
    BY <1>1, <2>1, <2>2, StaysCovered
<1>3. CASE NothingToUndo \/ UndoStartNewVersion \/ UndoOverwrite
  <2>1. task.mode = "undo" /\ \E ok \in BOOLEAN : Undone(ok)
    BY <1>3 DEF NothingToUndo, UndoStartNewVersion, UndoOverwrite, Undoing
  <2> QED
    BY <1>1, <2>1, Moved, StaysCovered
<1> QED
  BY <1>2, <1>3

LEMMA NextCovered == Typed /\ CopyInHand /\ [Next]_vars => CopyInHand'
<1> SUFFICES ASSUME Typed, CopyInHand, [Next]_vars PROVE CopyInHand'
  OBVIOUS
<1>1. CASE \E s \in Services, p \in Pids : ComeUp(s, p) \/ Beat(s, p) \/ Exit(s, p) \/ Die(s, p)
  BY <1>1, StaysCovered DEF ComeUp, Beat, Exit, Die, binaries
<1>2. CASE OperatorStarts \/ UndoRestartPreviousVersion \/ StartNewVersion
  BY <1>2, StaysCovered
     DEF OperatorStarts, UndoRestartPreviousVersion, StartNewVersion, Start, binaries
<1>3. CASE StartSucceeds \/ StartFails
  BY <1>3, StartEndsCovered
<1>4. CASE BeginUpgrade \/ BeginRollback
  <2>1. PICK v : Begin(v)
    BY <1>4 DEF BeginUpgrade, BeginRollback
  <2>2. task'.at = 1 /\ UNCHANGED <<kept, journal>>
    BY <2>1 DEF Begin, NoTask, binaries
  <2> QED
    BY <2>2, StaysCovered
<1>5. CASE RetainPreviousBinary \/ RecordUpgrade
  BY <1>5, RetainCovers, RecordCovers
<1>6. CASE \/ RestartPreviousVersion \/ Stop \/ OverwriteDouglasExecutable \/ ConfirmHealthy
           \/ NothingToUndo \/ UndoStartNewVersion \/ UndoOverwrite
  BY <1>6, CommandsCovered
<1>7. CASE ClearUpgradeRecord \/ GiveUp \/ Crash
  <2>1. task'.mode = "idle" /\ UNCHANGED kept /\ journal'.from \in {journal.from, NoVersion}
    BY <1>7, Places DEF ClearUpgradeRecord, ClearJournal, GiveUp, Crash, binaries, NoJournal
  <2> QED
    BY <2>1, StaysCovered
<1>8. CASE UNCHANGED vars
  BY <1>8, StaysCovered DEF vars
<1> QED
  BY <1>1, <1>2, <1>3, <1>4, <1>5, <1>6, <1>7, <1>8 DEF Next

\* The copy that a journal points to (what an upgrade is undone from, and what the
\* operator of an interrupted one is sent to) is there, unless RetainedCount newer copies
\* are: whatever versions the operator goes to, whatever copies could not be deleted, and
\* in all upgrades since.  Pruning goes by the versions' order, so a rollback to
\* a version below all of the copies that are to be kept loses its own (and only its own).
THEOREM PreviousCovered == Spec => []JournalCovered
<1>1. Init => CopyInHand
  BY DEF Init, NoTask, NoJournal, CopyInHand, JournalCovered
<1>2. CopyInHand => JournalCovered
  BY DEF CopyInHand
<1> QED
  BY InitTyped, NextTyped, NextCovered, <1>1, <1>2, PTL DEF Spec

-----------------------------------------------------------------------------
(* The processes of the services, on a host that is not slow. *)

\* Of a service's processes f, when its heartbeat file names h: there is at most one,
\* and it is the one that is named unless it is still coming up.
OneProcess(f, h) ==
    \A p \in Pids :
        f[p] # Gone => /\ \A q \in Pids : q # p => f[q] = Gone
                       /\ f[p].stage \in {"up", "stopping"} => h = p
Serves(f, p) == f[p].stage \in {"starting", "up"}
RunsOnly(f, v) == \A p \in Pids : Serves(f, p) => f[p].version = v
NoneStarts(f) == \A p \in Pids : f[p].stage # "starting"
Stopped(f) == \A p \in Pids : ~Serves(f, p)

\* Nothing comes up while a plan stops the services, nor when it undoes their start.
Calm ==
    \/ task.mode = "run" /\ task.at <= StartAt /\ start.by = "nobody"
    \/ task.mode = "undo" /\ task.at = StartAt
    => \A s \in Services : NoneStarts(proc[s])

\* What a plan has stopped stays so until it starts the installed binary.
StoppedInHand ==
    /\ task.mode = "run" /\ start.by = "nobody" /\ task.at <= StartAt =>
           \A i \in 1..Len(StopOrder) : RecordAt + i < task.at => Stopped(proc[StopOrder[i]])
    /\ task.mode = "undo" /\ task.at = OverwriteAt => \A s \in Services : Stopped(proc[s])

ServicesInHand ==
    ~slow =>
        /\ \A s \in Services : OneProcess(proc[s], heartbeat[s]) /\ RunsOnly(proc[s], installed)
        /\ Calm /\ StoppedInHand

\* Stopping a service of which nothing is coming up leaves none that serves, whether it
\* succeeds or not.
LEMMA StopsStop ==
    ASSUME Typed, NEW s \in Services, NEW stop \in Stops(s),
           OneProcess(proc[s], heartbeat[s]), NoneStarts(proc[s])
    PROVE  /\ OneProcess(stop.now, heartbeat[s]) /\ Stopped(stop.now) /\ NoneStarts(stop.now)
<1>1. proc[s] \in [Pids -> Process] /\ Gone.stage = "none" /\ NoPid \notin Pids
      /\ heartbeat[s] \in Pids \cup {NoPid}
  BY TypedFacts DEF Gone
<1>2. \A p \in Pids : proc[s][p].stage = "none" => proc[s][p] = Gone
  BY <1>1 DEF Process, Gone
<1>3. CASE stop = Kill(s)
  <2>1. CASE heartbeat[s] # NoPid /\ proc[s][heartbeat[s]] # Gone
    <3>1. stop.now = [proc[s] EXCEPT ![heartbeat[s]] = Gone]
      BY <1>3, <2>1 DEF Kill
    <3>2. \A p \in Pids : stop.now[p] = Gone
      BY <1>1, <2>1, <3>1 DEF OneProcess
    <3> QED
      BY <1>1, <3>2 DEF OneProcess, Stopped, NoneStarts, Serves
  <2>2. CASE ~(heartbeat[s] # NoPid /\ proc[s][heartbeat[s]] # Gone)
    <3>1. stop.now = proc[s]
      BY <1>3, <2>2 DEF Kill
    <3>2. \A p \in Pids : proc[s][p].stage # "up"
      BY <1>1, <2>2 DEF OneProcess
    <3> QED
      BY <3>1, <3>2 DEF Stopped, NoneStarts, Serves
  <2> QED
    BY <2>1, <2>2
<1>4. CASE \E p \in Pids : /\ proc[s][p].stage = "up"
                           /\ stop = [ok |-> TRUE, now |-> [proc[s] EXCEPT ![p].stage = "stopping"]]
  <2>1. PICK p \in Pids : /\ proc[s][p].stage = "up"
                          /\ stop = [ok |-> TRUE, now |-> [proc[s] EXCEPT ![p].stage = "stopping"]]
    BY <1>4
  <2>2. proc[s][p] \in [version : Versions, stage : {"starting", "up", "stopping"}]
        /\ proc[s][p] # Gone
    BY <1>1, <2>1 DEF Process, Gone
  <2>3. stop.now = [proc[s] EXCEPT ![p] = [proc[s][p] EXCEPT !.stage = "stopping"]]
    BY <2>1
  <2>4. stop.now[p] = [proc[s][p] EXCEPT !.stage = "stopping"] /\ stop.now[p].stage = "stopping"
    BY <1>1, <2>2, <2>3
  <2>5. \A q \in Pids : q # p => stop.now[q] = Gone
    BY <1>1, <2>2, <2>3 DEF OneProcess
  <2>6. heartbeat[s] = p
    BY <2>1, <2>2 DEF OneProcess
  <2> QED
    BY <1>1, <2>4, <2>5, <2>6 DEF OneProcess, Stopped, NoneStarts, Serves
<1> QED
  BY <1>3, <1>4 DEF Stops

LEMMA StopAllStops ==
    ASSUME Typed, StopAll, UNCHANGED heartbeat,
           \A s \in Services : OneProcess(proc[s], heartbeat[s]) /\ NoneStarts(proc[s])
    PROVE  \A s \in Services : OneProcess(proc'[s], heartbeat'[s]) /\ Stopped(proc'[s])
<1>1. PICK stop \in [Services -> UNION {Stops(s) : s \in Services}] :
          /\ \A s \in Services : stop[s] \in Stops(s)
          /\ proc' = [s \in Services |-> stop[s].now]
  BY DEF StopAll
<1>2. ASSUME NEW s \in Services PROVE OneProcess(stop[s].now, heartbeat[s]) /\ Stopped(stop[s].now)
  <2>1. stop[s] \in Stops(s)
    BY <1>1
  <2> QED
    BY <2>1, StopsStop
<1> QED
  BY <1>1, <1>2

\* A service that is spawned has one process, of the installed version.
LEMMA SpawnedOne ==
    ASSUME Typed, NEW s \in Services, \A p \in Pids : proc[s][p] = Gone
    PROVE  /\ OneProcess(Spawned(s, installed), heartbeat[s])
           /\ RunsOnly(Spawned(s, installed), installed)
<1> DEFINE free == {p \in Pids : proc[s][p] = Gone /\ p # heartbeat[s]}
           pid == CHOOSE p \in free : \A q \in free : p <= q
           new == [version |-> installed, stage |-> "starting"]
<1>1. proc[s] \in [Pids -> Process] /\ Gone.stage = "none"
  BY TypedFacts DEF Gone
<1>2. Spawned(s, installed) = [proc[s] EXCEPT ![pid] = new]
  BY DEF Spawned
<1>3. new.version = installed /\ new.stage = "starting"
  OBVIOUS
<1> HIDE DEF pid, new
<1>4. \A p \in Pids : Spawned(s, installed)[p] = IF p = pid THEN new ELSE Gone
  BY <1>1, <1>2
<1> QED
  BY <1>1, <1>3, <1>4 DEF OneProcess, RunsOnly, Serves

\* Settled, on a host that is not slow.
LEMMA QuietFacts ==
    ASSUME Typed, ~slow, Settled
    PROVE  /\ \A s \in Services : NoneStarts(proc[s])
           /\ \A s \in Services : ~Listens(s) => \A p \in Pids : proc[s][p] = Gone
<1>1. \A s \in Services, p \in Pids : proc[s][p].stage \in {"none", "up"} /\ proc[s][p] \in Process
  BY TypedFacts DEF Settled, Quiet
<1>2. \A s \in Services, p \in Pids : proc[s][p].stage = "none" => proc[s][p] = Gone
  BY <1>1 DEF Process, Gone
<1> QED
  BY <1>1, <1>2 DEF NoneStarts, Listens

One == Typed /\ ServicesInHand

\* Steps that leave the services' processes and what is installed alone.
LEMMA TaskMovesOne ==
    ASSUME One, UNCHANGED <<slow, installed, proc, heartbeat>>,
           ~slow => Calm' /\ StoppedInHand'
    PROVE  ServicesInHand'
  BY DEF One, ServicesInHand

\* One process of one service changes, and serves no more than it did.
LEMMA ProcessOne ==
    ASSUME One, NEW s \in Services, NEW p \in Pids,
           ComeUp(s, p) \/ Beat(s, p) \/ Exit(s, p) \/ Die(s, p)
    PROVE  ServicesInHand'
<1> SUFFICES ASSUME ~slow PROVE ServicesInHand'
  BY DEF One, ServicesInHand, ComeUp, Beat, Exit, Die, binaries
<1>1. UNCHANGED <<slow, installed, task, start>>
  BY DEF ComeUp, Beat, Exit, Die, binaries
<1>2. proc[s] \in [Pids -> Process] /\ Gone.stage = "none" /\ heartbeat \in [Services -> Pids \cup {NoPid}]
      /\ proc \in [Services -> [Pids -> Process]]
  BY TypedFacts DEF Gone, One
<1>3. \A r \in Services : OneProcess(proc[r], heartbeat[r]) /\ RunsOnly(proc[r], installed)
  BY DEF One, ServicesInHand
<1>4. \A r \in Services : r # s => proc'[r] = proc[r] /\ heartbeat'[r] = heartbeat[r]
  BY <1>2 DEF ComeUp, Beat, Exit, Die
<1>5. /\ OneProcess(proc'[s], heartbeat'[s]) /\ RunsOnly(proc'[s], installed)
      /\ NoneStarts(proc[s]) => NoneStarts(proc'[s])
      /\ Stopped(proc[s]) => Stopped(proc'[s])
  <2>1. CASE proc' = [proc EXCEPT ![s][p] = Gone] /\ UNCHANGED heartbeat
    <3>1. \A q \in Pids : proc'[s][q] = IF q = p THEN Gone ELSE proc[s][q]
      BY <1>2, <2>1
    <3>2. heartbeat'[s] = heartbeat[s]
      BY <2>1
    <3> QED
      BY <1>2, <1>3, <3>1, <3>2 DEF OneProcess, RunsOnly, NoneStarts, Stopped, Serves
  <2>2. CASE /\ proc[s][p].stage = "starting" /\ proc' = [proc EXCEPT ![s][p].stage = "up"]
             /\ heartbeat' = [heartbeat EXCEPT ![s] = p]
    <3>1. /\ proc[s][p] \in [version : Versions, stage : {"starting", "up", "stopping"}]
          /\ proc[s][p] # Gone
      BY <1>2, <2>2 DEF Process
    <3>2. \A q \in Pids : proc'[s][q] = IF q = p THEN [proc[s][p] EXCEPT !.stage = "up"] ELSE proc[s][q]
      BY <1>2, <2>2
    <3>3. proc'[s][p].stage = "up" /\ proc'[s][p].version = proc[s][p].version
      BY <3>1, <3>2
    <3>4. heartbeat'[s] = p
      BY <1>2, <2>2
    <3> QED
      BY <1>2, <1>3, <2>2, <3>1, <3>2, <3>3, <3>4 DEF OneProcess, RunsOnly, NoneStarts, Stopped, Serves
  <2>3. CASE Beat(s, p)
    <3>1. FALSE
      BY <1>2, <1>3, <2>3 DEF Beat, OneProcess
    <3> QED
      BY <3>1
  <2> QED
    BY <2>1, <2>2, <2>3 DEF ComeUp, Exit, Die
<1>6. Calm'
  <2>1. \A r \in Services : NoneStarts(proc[r]) => NoneStarts(proc'[r])
    BY <1>4, <1>5
  <2> QED
    BY <1>1, <2>1, SamePlan DEF One, ServicesInHand, Calm
<1>7. StoppedInHand'
  <2>1. \A r \in Services : Stopped(proc[r]) => Stopped(proc'[r])
    BY <1>4, <1>5
  <2>2. \A i \in 1..Len(StopOrder) : StopOrder[i] \in Services
    BY DEF Services
  <2> QED
    BY <1>1, <2>1, <2>2, SamePlan DEF One, ServicesInHand, StoppedInHand
<1>8. \A r \in Services : OneProcess(proc'[r], heartbeat'[r]) /\ RunsOnly(proc'[r], installed')
  BY <1>1, <1>3, <1>4, <1>5
<1> QED
  BY <1>6, <1>7, <1>8 DEF ServicesInHand

LEMMA StartOne ==
    ASSUME One, NEW by \in {"operator", "run", "undo"}, Start(by), UNCHANGED task,
           by = "operator" => task = NoTask,
           by = "run" => task.mode = "run",
           by = "undo" => task.mode = "undo" /\ task.at = 2 /\ task.restorable
    PROVE  ServicesInHand'
<1> SUFFICES ASSUME ~slow PROVE ServicesInHand'
  BY DEF One, ServicesInHand, Start, binaries
<1>1. UNCHANGED <<slow, installed, task, heartbeat>> /\ Settled
  BY DEF Start, binaries
<1>2. start'.by = by
  BY DEF Start
<1>3. PICK spawn \in SUBSET {s \in Services : ~Listens(s)} :
          proc' = [s \in Services |-> IF s \in spawn THEN Spawned(s, installed) ELSE proc[s]]
  BY DEF Start
<1>4. ASSUME NEW s \in Services
      PROVE  OneProcess(proc'[s], heartbeat'[s]) /\ RunsOnly(proc'[s], installed')
  <2>1. CASE s \in spawn
    <3>1. \A p \in Pids : proc[s][p] = Gone
      BY <1>1, <1>3, <2>1, QuietFacts DEF One
    <3>2. proc'[s] = Spawned(s, installed)
      BY <1>3, <2>1
    <3> QED
      BY <1>1, <3>1, <3>2, SpawnedOne DEF One
  <2>2. CASE s \notin spawn
    BY <1>1, <1>3, <2>2 DEF One, ServicesInHand
  <2> QED
    BY <2>1, <2>2
<1>5. RecordAt' = RecordAt /\ OverwriteAt' = OverwriteAt /\ StartAt' = StartAt
  BY <1>1, SamePlan
<1>6. ~(task.mode = "run" /\ start'.by = "nobody")
  BY <1>2, Places DEF One
<1>7. task.mode = "undo" => task.at < OverwriteAt /\ task.at < StartAt
  BY Places DEF One
<1>8. Calm' /\ StoppedInHand'
  BY <1>1, <1>5, <1>6, <1>7, Places DEF Calm, StoppedInHand, One
<1> QED
  BY <1>4, <1>8 DEF ServicesInHand

\* Everything is stopped: what is next in the undoing of a plan.
LEMMA StopAllOne ==
    ASSUME One, StopAll, UNCHANGED <<slow, installed, heartbeat>>,
           ~slow => \A s \in Services : NoneStarts(proc[s]),
           task'.mode = "undo", task'.at = OverwriteAt, task'.restorable = task.restorable
    PROVE  ServicesInHand'
<1> SUFFICES ASSUME ~slow PROVE ServicesInHand'
  BY DEF ServicesInHand
<1>1. \A s \in Services : OneProcess(proc'[s], heartbeat'[s]) /\ Stopped(proc'[s])
  BY StopAllStops DEF One, ServicesInHand
<1>2. \A s \in Services : RunsOnly(proc'[s], installed')
  BY <1>1 DEF RunsOnly, Stopped
<1>3. StartAt' = StartAt /\ OverwriteAt' = OverwriteAt /\ OverwriteAt # StartAt
  BY SamePlan, Places DEF One
<1>4. Calm'
  BY <1>3 DEF Calm
<1>5. StoppedInHand'
  BY <1>1 DEF StoppedInHand
<1> QED
  BY <1>1, <1>2, <1>4, <1>5 DEF ServicesInHand

LEMMA StopOne ==
    ASSUME One, Stop
    PROVE  ServicesInHand'
<1> SUFFICES ASSUME ~slow PROVE ServicesInHand'
  BY DEF ServicesInHand, Stop, binaries
<1>1. UNCHANGED <<slow, installed, heartbeat, start>> /\ task.mode = "run" /\ start.by = "nobody"
  BY NoTaskTyped DEF Stop, Running, binaries
<1>2. PICK i \in 1..Len(StopOrder) : task.at = RecordAt + i /\ Plan[task.at].service = StopOrder[i]
  BY RunsAt DEF Stop, One
<1> DEFINE s == StopOrder[i]
<1>3. s \in Services
  BY DEF Services
<1>4. PICK stop \in Stops(s) : /\ proc' = [proc EXCEPT ![s] = stop.now]
                               /\ Completed \/ Failed
  BY <1>2 DEF Stop
<1>5. \A r \in Services : /\ OneProcess(proc[r], heartbeat[r]) /\ RunsOnly(proc[r], installed)
                          /\ NoneStarts(proc[r])
  BY <1>1, <1>2, Places DEF One, ServicesInHand, Calm
<1>6. /\ OneProcess(stop.now, heartbeat[s]) /\ Stopped(stop.now) /\ NoneStarts(stop.now)
  BY <1>3, <1>5, StopsStop DEF One
<1> HIDE DEF s
<1>7. \A r \in Services : proc'[r] = IF r = s THEN stop.now ELSE proc[r]
  BY <1>3, <1>4, TypedFacts DEF One
<1>8. \A r \in Services : /\ OneProcess(proc'[r], heartbeat'[r]) /\ RunsOnly(proc'[r], installed')
                          /\ NoneStarts(proc'[r])
  BY <1>1, <1>5, <1>6, <1>7 DEF RunsOnly, Stopped
<1>9. /\ RecordAt' = RecordAt /\ OverwriteAt' = OverwriteAt /\ StartAt' = StartAt
      /\ \/ task'.mode = "run" /\ task'.at = RecordAt + i + 1
         \/ task'.mode = "undo" /\ task'.at = RecordAt + i - 1
  <2>1. /\ task'.restorable = task.restorable
        /\ \/ task'.mode = "run" /\ task'.at = task.at + 1
           \/ task'.mode = "undo" /\ task'.at = task.at - 1
    BY <1>1, <1>4, Moved DEF One
  <2> QED
    BY <1>2, <2>1, SamePlan, Places DEF One
<1>10. StoppedInHand'
  <2>1. ASSUME NEW j \in 1..Len(StopOrder), RecordAt + j < RecordAt + i + 1
        PROVE  Stopped(proc'[StopOrder[j]])
    <3>1. StopOrder[j] \in Services
      BY DEF Services
    <3>2. CASE j = i
      BY <1>3, <1>6, <1>7, <3>2 DEF s
    <3>3. CASE j # i
      <4>1. RecordAt + j < task.at
        BY <1>2, <2>1, <3>3, Places DEF One
      <4>2. Stopped(proc[StopOrder[j]])
        BY <1>1, <1>2, <4>1, Places DEF One, ServicesInHand, StoppedInHand
      <4> QED
        BY <1>6, <1>7, <3>1, <4>2
    <3> QED
      BY <3>2, <3>3
  <2>2. task'.mode = "undo" => task'.at # OverwriteAt'
    BY <1>9, Places DEF One
  <2>3. task'.mode = "run" => \A j \in 1..Len(StopOrder) :
                                  RecordAt' + j < task'.at => Stopped(proc'[StopOrder[j]])
    BY <1>9, <2>1
  <2> QED
    BY <2>2, <2>3 DEF StoppedInHand
<1>11. Calm'
  BY <1>8 DEF Calm
<1> QED
  BY <1>8, <1>10, <1>11 DEF ServicesInHand

LEMMA OverwriteOne ==
    ASSUME One, OverwriteDouglasExecutable \/ UndoOverwrite
    PROVE  ServicesInHand'
<1>a. slow' = slow
  BY DEF OverwriteDouglasExecutable, UndoOverwrite
<1> SUFFICES ASSUME ~slow PROVE ServicesInHand'
  BY <1>a DEF ServicesInHand
<1>1. /\ UNCHANGED <<slow, proc, heartbeat, start>> /\ start.by = "nobody" /\ task.at = OverwriteAt
      /\ \/ task.mode = "run" /\ (Completed \/ (Failed /\ UNCHANGED installed))
         \/ task.mode = "undo" /\ \E ok \in BOOLEAN : Undone(ok)
  BY NoTaskTyped, RunsAt, UndoesAt
     DEF OverwriteDouglasExecutable, UndoOverwrite, Running, Undoing, services, One
<1>2. \A s \in Services : Stopped(proc[s])
  <2>1. ASSUME NEW s \in Services, task.mode = "run" PROVE Stopped(proc[s])
    <3>1. PICK i \in 1..Len(StopOrder) : s = StopOrder[i]
      BY DEF Services
    <3>2. RecordAt + i < task.at /\ task.at <= StartAt
      BY <1>1, Places DEF One
    <3> QED
      BY <1>1, <2>1, <3>1, <3>2 DEF One, ServicesInHand, StoppedInHand
  <2> QED
    BY <1>1, <2>1 DEF One, ServicesInHand, StoppedInHand
<1>3. \A s \in Services : OneProcess(proc'[s], heartbeat'[s]) /\ RunsOnly(proc'[s], installed')
  BY <1>1, <1>2 DEF One, ServicesInHand, RunsOnly, Stopped
<1>4. \A s \in Services : NoneStarts(proc'[s]) /\ Stopped(proc'[s])
  BY <1>1, <1>2 DEF NoneStarts, Stopped, Serves
<1>5. \A i \in 1..Len(StopOrder) : StopOrder[i] \in Services
  BY DEF Services
<1>6. Calm' /\ StoppedInHand'
  BY <1>4, <1>5 DEF Calm, StoppedInHand
<1> QED
  BY <1>3, <1>6 DEF ServicesInHand

\* What is next is not the stopping, the installing or the starting.
LEMMA ElsewhereOne ==
    ASSUME One, UNCHANGED <<slow, installed, proc, heartbeat>>,
           \/ task'.mode = "idle"
           \/ /\ task'.mode = "run" /\ task'.restorable = task.restorable
              /\ start'.by # "nobody" \/ ~(task'.at <= StartAt)
           \/ /\ task'.mode = "undo" /\ task'.restorable = task.restorable
              /\ task'.at \notin {OverwriteAt, StartAt}
    PROVE  ServicesInHand'
<1>1. Calm' /\ StoppedInHand'
  <2>1. CASE task'.mode = "idle"
    BY <2>1 DEF Calm, StoppedInHand
  <2>2. CASE task'.restorable = task.restorable /\ task'.mode # "idle"
    <3>1. StartAt' = StartAt /\ OverwriteAt' = OverwriteAt
      BY <2>2, SamePlan
    <3>2. CASE task'.mode = "run" /\ start'.by # "nobody"
      BY <3>2 DEF Calm, StoppedInHand
    <3>3. CASE task'.mode = "run" /\ ~(task'.at <= StartAt)
      BY <3>1, <3>3 DEF Calm, StoppedInHand
    <3>4. CASE task'.mode = "undo" /\ task'.at \notin {OverwriteAt, StartAt}
      BY <3>1, <3>4 DEF Calm, StoppedInHand
    <3> QED
      BY <2>2, <3>2, <3>3, <3>4
  <2> QED
    BY <2>1, <2>2
<1> QED
  BY <1>1, TaskMovesOne

\* A task that is given its plan, and the first commands of it: nothing comes up, and
\* nothing is stopped yet.
LEMMA EarlyOne ==
    ASSUME One, UNCHANGED <<slow, installed, proc, heartbeat>>,
           ~slow => \A s \in Services : NoneStarts(proc[s]),
           task'.mode = "run", task'.at \in Int, task'.at <= 2 \/ task'.at <= RecordAt' + 1
    PROVE  ServicesInHand'
<1>1. RecordAt' \in {2, 3}
  BY DEF RecordAt
<1>2. Calm' = (\/ task'.mode = "run" /\ task'.at <= StartAt' /\ start'.by = "nobody"
               \/ task'.mode = "undo" /\ task'.at = StartAt'
               => \A s \in Services : NoneStarts(proc'[s]))
  BY DEF Calm
<1>3. \A i \in 1..Len(StopOrder) : ~(RecordAt' + i < task'.at)
  BY <1>1, TypedFacts DEF One
<1>4. StoppedInHand'
  BY <1>3 DEF StoppedInHand
<1> QED
  BY <1>2, <1>4, TaskMovesOne

LEMMA BeginOne ==
    ASSUME One, BeginUpgrade \/ BeginRollback
    PROVE  ServicesInHand'
<1>1. PICK v : Begin(v)
  BY DEF BeginUpgrade, BeginRollback
<1>2. task' = [mode |-> "run", from |-> installed, to |-> v, restorable |-> Same(v), at |-> 1,
               poll |-> 0, seen |-> [s \in Services |-> NoPid], clean |-> TRUE]
      /\ UNCHANGED <<slow, installed, proc, heartbeat>> /\ Settled
  BY <1>1 DEF Begin, NoTask, binaries, services
<1>3. task'.mode = "run" /\ task'.at = 1
  BY <1>2
<1>4. ~slow => \A s \in Services : NoneStarts(proc[s])
  BY <1>2, QuietFacts DEF One
<1> QED
  BY <1>2, <1>3, <1>4, EarlyOne

\* A command of a plan before the first service is stopped.
LEMMA RecordOne ==
    ASSUME One, RetainPreviousBinary \/ RestartPreviousVersion \/ RecordUpgrade
    PROVE  ServicesInHand'
<1>1. /\ UNCHANGED <<slow, installed, proc, heartbeat, start>> /\ start.by = "nobody"
      /\ task.mode = "run" /\ task.at \in 1..RecordAt
      /\ Completed \/ Failed
  BY SMTT(20), NoTaskTyped, RunsAt, Places
     DEF RetainPreviousBinary, RestartPreviousVersion, RecordUpgrade, Running, binaries, services, One
<1>2. \A s \in Services : ~slow => NoneStarts(proc[s])
  BY <1>1, Places DEF One, ServicesInHand, Calm
<1>3. RecordAt \in {2, 3} /\ RecordAt < OverwriteAt /\ RecordAt < StartAt
      /\ OverwriteAt \in Int /\ StartAt \in Int
  BY Places DEF One
<1>4. CASE Completed
  <2>1. task'.mode = "run" /\ task'.at = task.at + 1 /\ RecordAt' = RecordAt
    BY <1>1, <1>4, Moved, SamePlan DEF One
  <2>2. task'.at \in Int /\ task'.at <= RecordAt' + 1
    BY <1>1, <1>3, <2>1
  <2> QED
    BY <1>1, <1>2, <2>1, <2>2, EarlyOne
<1>5. CASE Failed
  <2>1. /\ task'.mode = "undo" /\ task'.at = task.at - 1 /\ task'.restorable = task.restorable
    BY <1>5, Moved DEF One
  <2>2. task'.at \notin {OverwriteAt, StartAt}
    BY <1>1, <1>3, <2>1
  <2> QED
    BY <1>1, <2>1, <2>2, ElsewhereOne
<1> QED
  BY <1>1, <1>4, <1>5

LEMMA ConfirmOne ==
    ASSUME One, ConfirmHealthy
    PROVE  ServicesInHand'
<1>1. /\ UNCHANGED <<slow, installed, proc, heartbeat, start>>
      /\ task.mode = "run" /\ task.at = StartAt + 1 /\ Settled
      /\ \/ Failed
         \/ Completed
         \/ task' = [task EXCEPT !.poll = @ + 1, !.seen = heartbeat]
  BY RunsAt DEF ConfirmHealthy, Running, binaries, services, One
<1>2. StartAt \in Int /\ OverwriteAt \in Int /\ OverwriteAt < StartAt
  BY Places DEF One
<1>3. CASE Failed
  <2>1. task'.mode = "undo" /\ task'.at = task.at - 1 /\ task'.restorable = task.restorable
    BY <1>3, Moved DEF One
  <2>2. StartAt' = StartAt /\ OverwriteAt' = OverwriteAt /\ task'.at = StartAt
    BY <1>1, <1>2, <2>1, SamePlan
  <2>3. ~slow => \A s \in Services : NoneStarts(proc[s])
    BY <1>1, QuietFacts DEF One
  <2>4. StoppedInHand'
    BY <1>2, <2>1, <2>2 DEF StoppedInHand
  <2>5. ~slow => Calm'
    BY <1>1, <2>3 DEF Calm
  <2> QED
    BY <1>1, <2>4, <2>5, TaskMovesOne
<1>4. CASE Completed
  <2>1. task'.mode = "run" /\ task'.at = task.at + 1 /\ task'.restorable = task.restorable
    BY <1>1, <1>4, Moved DEF One
  <2>2. ~(task'.at <= StartAt)
    BY <1>1, <1>2, <2>1
  <2> QED
    BY <1>1, <2>1, <2>2, ElsewhereOne
<1>5. CASE task' = [task EXCEPT !.poll = @ + 1, !.seen = heartbeat]
  <2> DEFINE poll == task.poll + 1
  <2>1. task' = [task EXCEPT !.poll = poll, !.seen = heartbeat]
    BY <1>5
  <2> HIDE DEF poll
  <2>2. task'.mode = "run" /\ task'.at = task.at /\ task'.restorable = task.restorable
    BY <1>1, <2>1, TypedFacts DEF Tasks, One
  <2>3. ~(task'.at <= StartAt)
    BY <1>1, <1>2, <2>2
  <2> QED
    BY <1>1, <2>2, <2>3, ElsewhereOne
<1> QED
  BY <1>1, <1>3, <1>4, <1>5

\* The end of a `start`.
LEMMA StartedOne ==
    ASSUME One, StartSucceeds \/ StartFails
    PROVE  ServicesInHand'
<1>1. /\ UNCHANGED <<slow, installed, heartbeat>>
      /\ start.by \in {"operator", "run", "undo"}
      /\ \E ok \in BOOLEAN : StartEnds(ok)
  BY DEF StartSucceeds, StartReady, StartFails, StartFailed, binaries, services, One, Typed, Inv
<1>2. StartAt \in Int /\ OverwriteAt = StartAt - 1 /\ RecordAt \in {2, 3} /\ OverwriteAt > RecordAt
  BY Places DEF One
<1>3. CASE start.by = "operator"
  <2>1. UNCHANGED <<proc, task>> /\ task.mode = "idle"
    BY <1>1, <1>3 DEF StartEnds, StartSucceeds, StartFails, services, One, Typed, Positions
  <2> QED
    BY <1>1, <2>1, ElsewhereOne
<1>4. CASE start.by = "undo"
  <2>1. UNCHANGED proc /\ task.mode = "undo" /\ task.at = 2 /\ \E ok \in BOOLEAN : Undone(ok)
    BY <1>1, <1>4 DEF StartEnds, Undone, StartSucceeds, StartFails, services, One, Typed, Positions
  <2>2. task'.mode = "undo" /\ task'.at = task.at - 1 /\ task'.restorable = task.restorable
    BY <2>1, Moved DEF One
  <2>3. task'.at \notin {OverwriteAt, StartAt}
    BY <1>2, <2>1, <2>2
  <2> QED
    BY <1>1, <2>1, <2>2, <2>3, ElsewhereOne
<1>5. CASE start.by = "run" /\ StartSucceeds
  <2>1. UNCHANGED proc /\ task.mode = "run" /\ task.at = StartAt /\ Completed
    BY <1>5 DEF StartEnds, Completed, StartSucceeds, services, One, Typed, Positions
  <2>2. task'.mode = "run" /\ task'.at = task.at + 1 /\ task'.restorable = task.restorable
    BY <2>1, Moved DEF One
  <2>3. ~(task'.at <= StartAt)
    BY <1>2, <2>1, <2>2
  <2> QED
    BY <1>1, <2>1, <2>2, <2>3, ElsewhereOne
<1>6. CASE start.by = "run" /\ StartFails
  <2>1. StopAll /\ Settled /\ task.at = StartAt /\ Failed
    BY <1>6 DEF StartEnds, Failed, StartFails, StartFailed, One, Typed, Positions
  <2>2. task'.mode = "undo" /\ task'.at = task.at - 1 /\ task'.restorable = task.restorable
    BY <2>1, Moved DEF One
  <2>3. task'.at = OverwriteAt
    BY <1>2, <2>1, <2>2
  <2>4. ~slow => \A s \in Services : NoneStarts(proc[s])
    BY <2>1, QuietFacts DEF One
  <2> QED
    BY <1>1, <2>1, <2>2, <2>3, <2>4, StopAllOne
<1> QED
  BY <1>1, <1>3, <1>4, <1>5, <1>6

LEMMA UndoOne ==
    ASSUME One, NothingToUndo \/ UndoStartNewVersion
    PROVE  ServicesInHand'
<1>1. /\ UNCHANGED <<slow, installed, heartbeat, start>> /\ task.mode = "undo" /\ Undone(TRUE)
  BY DEF NothingToUndo, UndoStartNewVersion, Undoing, binaries, services
<1>2. task'.mode = "undo" /\ task'.at = task.at - 1 /\ task'.restorable = task.restorable
  BY <1>1, Moved DEF One
<1>3. StartAt \in Int /\ OverwriteAt = StartAt - 1 /\ RecordAt \in {2, 3} /\ OverwriteAt > RecordAt
  BY Places DEF One
<1>4. CASE NothingToUndo
  <2>1. UNCHANGED proc
    BY <1>4 DEF NothingToUndo, services
  <2>2. task.at \in 1..StartAt /\ CommandAt(task.at) \notin {"OverwriteDouglasExecutable", "StartNewVersion"}
    BY <1>4, UndoesAt DEF NothingToUndo, One
  <2>3. task.at # StartAt
    BY <1>3, <2>2 DEF CommandAt
  <2>4. task'.at \notin {OverwriteAt, StartAt}
    BY <1>2, <1>3, <2>2, <2>3
  <2> QED
    BY <1>1, <1>2, <2>1, <2>4, ElsewhereOne
<1>5. CASE UndoStartNewVersion
  <2>1. StopAll /\ task.at = StartAt
    BY <1>5, UndoesAt DEF UndoStartNewVersion, One
  <2>2. ~slow => \A s \in Services : NoneStarts(proc[s])
    BY <1>1, <2>1 DEF One, ServicesInHand, Calm
  <2>3. task'.at = OverwriteAt
    BY <1>2, <1>3, <2>1
  <2> QED
    BY <1>1, <1>2, <2>1, <2>2, <2>3, StopAllOne
<1> QED
  BY <1>4, <1>5

\* A step that ends the task, and may take every process down.
LEMMA EndOne ==
    ASSUME One, ClearUpgradeRecord \/ GiveUp \/ Crash
    PROVE  ServicesInHand'
<1>1. UNCHANGED <<slow, installed, heartbeat>> /\ task'.mode = "idle"
  BY Places DEF ClearUpgradeRecord, GiveUp, Crash, binaries, services, One
<1>2. CASE UNCHANGED proc
  BY <1>1, <1>2, ElsewhereOne
<1>3. CASE proc' = [s \in Services |-> [p \in Pids |-> Gone]]
  <2>1. \A s \in Services, p \in Pids : proc'[s][p] = Gone
    BY <1>3
  <2>2. Gone.stage = "none"
    BY DEF Gone
  <2>3. \A s \in Services : OneProcess(proc'[s], heartbeat'[s]) /\ RunsOnly(proc'[s], installed')
    BY <2>1, <2>2 DEF OneProcess, RunsOnly, Serves
  <2> QED
    BY <1>1, <2>3 DEF ServicesInHand, Calm, StoppedInHand
<1> QED
  BY <1>2, <1>3 DEF ClearUpgradeRecord, GiveUp, Crash, services

LEMMA InitOne == Init => One
<1> SUFFICES ASSUME Init PROVE ServicesInHand
  BY InitTyped DEF One
<1>1. task.mode = "idle" /\ Gone.stage = "none"
  BY DEF Init, NoTask, Gone
<1>2. \A s \in Services :
          /\ heartbeat[s] = First
          /\ \A p \in Pids : proc[s][p] = IF p = First THEN [version |-> installed, stage |-> "up"] ELSE Gone
  BY DEF Init
<1>3. \A s \in Services : OneProcess(proc[s], heartbeat[s]) /\ RunsOnly(proc[s], installed)
  BY <1>1, <1>2 DEF OneProcess, RunsOnly, Serves
<1> QED
  BY <1>1, <1>3 DEF ServicesInHand, Calm, StoppedInHand

LEMMA NextOne == One /\ [Next]_vars => One'
<1> SUFFICES ASSUME One, [Next]_vars PROVE ServicesInHand'
  BY NextTyped DEF One
<1>1. CASE \E s \in Services, p \in Pids : ComeUp(s, p) \/ Beat(s, p) \/ Exit(s, p) \/ Die(s, p)
  BY <1>1, ProcessOne
<1>2. CASE OperatorStarts
  BY <1>2, StartOne DEF OperatorStarts
<1>3. CASE StartNewVersion
  BY <1>3, StartOne DEF StartNewVersion, Running
<1>4. CASE UndoRestartPreviousVersion
  BY <1>4, StartOne, UndoesAt DEF UndoRestartPreviousVersion, Undoing, One
<1>5. CASE StartSucceeds \/ StartFails
  BY <1>5, StartedOne
<1>6. CASE BeginUpgrade \/ BeginRollback
  BY <1>6, BeginOne
<1>7. CASE RetainPreviousBinary \/ RestartPreviousVersion \/ RecordUpgrade
  BY <1>7, RecordOne
<1>8. CASE Stop
  BY <1>8, StopOne
<1>9. CASE OverwriteDouglasExecutable \/ UndoOverwrite
  BY <1>9, OverwriteOne
<1>10. CASE ConfirmHealthy
  BY <1>10, ConfirmOne
<1>11. CASE NothingToUndo \/ UndoStartNewVersion
  BY <1>11, UndoOne
<1>12. CASE ClearUpgradeRecord \/ GiveUp \/ Crash
  BY <1>12, EndOne
<1>13. CASE UNCHANGED vars
  <2>1. UNCHANGED <<slow, installed, proc, heartbeat, task, start>>
    BY <1>13 DEF vars
  <2> QED
    BY <2>1, SamePlan DEF One, ServicesInHand, Calm, StoppedInHand
<1> QED
  BY <1>1, <1>2, <1>3, <1>4, <1>5, <1>6, <1>7, <1>8, <1>9, <1>10, <1>11, <1>12, <1>13 DEF Next

\* On a host where a command does not go on while a process is still coming up or ending,
\* whatever fails, dies or is killed: a host on which no upgrade, rollback or `start` runs or
\* was interrupted serves with the installed version only.  Each service has then one
\* process at most, the one its heartbeat file names, and so the one that is stopped.
THEOREM OneVersionCorrect == Spec => []OneVersionUnlessSlow
<1>1. One => OneVersionUnlessSlow
  BY DEF One, ServicesInHand, RunsOnly, Serves, OneVersionUnlessSlow, OneVersion
<1> QED
  BY InitOne, NextOne, <1>1, PTL DEF Spec
=============================================================================
