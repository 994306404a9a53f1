------------------------------ MODULE Blueprint ------------------------------
(***************************************************************************)
(* The journaling executor every plan of douglas runs through              *)
(* (blueprint/src/lib.rs, JournalingExecutor).  A plan is a sequence of    *)
(* commands.  The executor runs them in order and journals each one that   *)
(* completed; the first one that fails stops the plan, and every journaled *)
(* command is rolled back, most recent first.                              *)
(*                                                                         *)
(* A command is named by its position in the plan: what a particular       *)
(* command does to the machine is the business of the modules that model   *)
(* the plans.  Here its effect is "done" when it completed, "none" when    *)
(* nothing of it is left on the machine, and "partial" when it failed      *)
(* half way.  Not every command has something to undo: the rollback of a   *)
(* Command that defines none answers Ok and does nothing.                  *)
(***************************************************************************)
EXTENDS Naturals, Sequences

CONSTANT MaxPlan    \* bound: the longest plan that is executed

ASSUME PlanAssumption == MaxPlan \in Nat \ {0}

VARIABLES
    commands,   \* how many commands the plan has
    lasting,    \* those whose rollback does nothing (the default one, or one that returns early)
    step_index, \* the command being run (run's enumerate, from 1)
    journal,    \* the commands that completed, oldest first
    phase,      \* what the executor is doing
    undone,     \* the commands rolled back so far, in the order they were
    rollback_errors, \* those whose rollback returned an error
    effect      \* what each command has left on the machine

executor_vars == <<commands, lasting, step_index, journal, phase, undone, rollback_errors, effect>>

Position == 1..MaxPlan
Phase == {"running", "undoing", "Success", "Failed"}
Effect == {"none", "partial", "done"}

ExecutorInit ==
    /\ commands \in 0..MaxPlan
    /\ lasting \in SUBSET Position
    /\ step_index = 1
    /\ journal = <<>>
    /\ phase = "running"
    /\ undone = <<>>
    /\ rollback_errors = {}
    /\ effect = [i \in Position |-> "none"]

\* A command of the plan is next (the for loop of run).
HasNext == phase = "running" /\ step_index <= commands

\* The command says that it is already satisfied: it is not run, and journaled.
Skip ==
    /\ HasNext
    /\ journal' = Append(journal, step_index)
    /\ step_index' = step_index + 1
    /\ UNCHANGED <<commands, lasting, phase, undone, rollback_errors, effect>>

RunSucceeds ==
    /\ HasNext
    /\ effect' = [effect EXCEPT ![step_index] = "done"]
    /\ journal' = Append(journal, step_index)
    /\ step_index' = step_index + 1
    /\ UNCHANGED <<commands, lasting, phase, undone, rollback_errors>>

LeavesSomething ==
    \E left \in {"none", "partial"} : effect' = [effect EXCEPT ![step_index] = left]

MutantFailureJournaled ==
    /\ HasNext
    /\ LeavesSomething
    /\ phase' = "undoing"
    /\ journal' = Append(journal, step_index)
    /\ UNCHANGED <<commands, lasting, step_index, undone, rollback_errors>>
\* The failing command is not journaled, whatever it did before it failed.
RunFails ==
    /\ HasNext
    /\ LeavesSomething
    /\ phase' = "undoing"
    /\ UNCHANGED <<commands, lasting, step_index, journal, undone, rollback_errors>>

\* The place in the journal of the command to roll back next: rev().
MutantOldestFirst == 1
Latest == Len(journal)

\* A rollback that fails leaves what it has not undone, and is remembered.
LeftByRollback(cmd) ==
    \E left \in {effect[cmd], "partial"} :
        effect' = [effect EXCEPT ![cmd] = IF effect[cmd] = "none" THEN "none" ELSE left]
MutantErrorDropped(cmd) == LeftByRollback(cmd) /\ UNCHANGED rollback_errors
RollbackError(cmd) ==
    /\ rollback_errors' = rollback_errors \cup {cmd}
    /\ LeftByRollback(cmd)

\* Whether a rollback answers Ok says nothing of what it undid.
RollbackOk(cmd) ==
    /\ effect' = IF cmd \in lasting THEN effect ELSE [effect EXCEPT ![cmd] = "none"]
    /\ UNCHANGED rollback_errors

MutantStopsAtError == phase = "undoing" /\ journal # <<>> /\ rollback_errors = {}
\* An error does not end the rollback: the next command is tried.
HasUndo == phase = "undoing" /\ journal # <<>>

Rollback ==
    /\ HasUndo
    /\ LET cmd == journal[Latest] IN
           /\ undone' = Append(undone, cmd)
           /\ RollbackOk(cmd) \/ RollbackError(cmd)
    /\ journal' = SubSeq(journal, 1, Len(journal) - 1)
    /\ UNCHANGED <<commands, lasting, step_index, phase>>

Finish ==
    /\ \/ /\ phase = "running" /\ step_index > commands
          /\ phase' = "Success"
       \/ /\ phase = "undoing" /\ journal = <<>>
          /\ phase' = "Failed"
    /\ UNCHANGED <<commands, lasting, step_index, journal, undone, rollback_errors, effect>>

ExecutorNext == Skip \/ RunSucceeds \/ RunFails \/ Rollback \/ Finish

ExecutorSpec == ExecutorInit /\ [][ExecutorNext]_executor_vars

\* A command returns: the executor awaits each one and then goes on.
FairSpec == ExecutorSpec /\ WF_executor_vars(ExecutorNext)

-----------------------------------------------------------------------------
(* Properties *)

\* Every variable has its type.
ExecutorTypeOK ==
    /\ commands \in 0..MaxPlan
    /\ lasting \subseteq Position
    /\ step_index \in 1..MaxPlan + 1
    /\ journal \in Seq(Position)
    /\ phase \in Phase
    /\ undone \in Seq(Position)
    /\ rollback_errors \subseteq Position
    /\ effect \in [Position -> Effect]

\* While it runs, the executor has journaled exactly the commands before the
\* current one, in the order of the plan; while it rolls back, what is journaled
\* and what is undone are together exactly the commands before the failing one
\* (no completed command is forgotten, the failing one is never rolled back).
JournalCoversThePlan ==
    /\ \A i \in 1..Len(journal) : journal[i] = i
    /\ Len(journal) + Len(undone) = step_index - 1
    /\ phase \in {"running", "Success"} => undone = <<>>

\* Rollback goes through the plan backwards, one command after the other: what
\* a command established is still there when a later command is rolled back.
UndoneInReverse ==
    \A i \in 1..Len(undone) : undone[i] = step_index - i

\* What the executor answers accounts for the machine.  Whatever is left after a failed
\* plan is the failing command's half-done work, that of a rollback whose error is
\* reported, or the whole of a command that has no rollback to speak of; in particular
\* nothing is half-done but what an error names.  A successful plan has come to its end
\* and left nothing half-done.
OutcomeIsTrue ==
    /\ phase = "Failed" => \A i \in Position :
          /\ effect[i] # "none" => i = step_index \/ i \in rollback_errors \/ i \in lasting
          /\ effect[i] = "partial" => i = step_index \/ i \in rollback_errors
    /\ phase = "Success" =>
          step_index = commands + 1 /\ \A i \in Position : effect[i] # "partial"

\* A plan always comes to an end: one failed rollback does not stop the others.
Terminates == <>(phase \in {"Success", "Failed"})
=============================================================================
