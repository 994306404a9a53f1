------------------------------ MODULE Seedling ------------------------------
(***************************************************************************)
(* The lifecycle of seedlings: bract's blueprints (new, reconcile, start,  *)
(* stop, drop, the watchdog's sweep) executed against the seedbank's       *)
(* records and docker's containers, networks and images.                   *)
(*                                                                         *)
(* bract serves every connection in a task of its own and the watchdog in  *)
(* another, on several threads; nothing locks a seedling.  A task observes *)
(* the seedbank and docker, plans a sequence of commands from what it saw  *)
(* and runs them through the journaling executor (module Blueprint), while *)
(* the other tasks do the same.  An observation is one step.  So is a      *)
(* command, but for those in which something may come between the calls    *)
(* that change what others see: the building of a container, its undoing,  *)
(* the start of a seedling and the checks of its health.                   *)
(*                                                                         *)
(* Left to other modules: mounts, traefik's routes, the default route and  *)
(* what OpenBao holds for a seedling.                                      *)
(***************************************************************************)
EXTENDS Naturals, Sequences

CONSTANTS
    Seedlings,
    Core,          \* the seedlings douglas itself runs (traefik, openbao)
    Secrets,       \* the seedlings whose definition asks for secrets: they have an agent
    Flaky,         \* the seedlings whose containers may exit on their own
    Hopeless,      \* the seedlings whose health check never passes
    Ailing,        \* the seedlings whose health check may pass or fail
    Operators,     \* the connections that send requests to bract
    Requests,      \* the requests they send
    Watchdog,      \* bract's own task
    Listing,       \* the order in which the seedbank lists seedlings
    MaxVersion,    \* bound: the newest version of a core seedling's definition
    MaxFailCount,  \* the health check failures that are remembered
    MaxRequests,   \* bound: requests the operators send
    MaxFaults      \* bound: failures of a call, and crashes of bract

ASSUME SeedlingAssumption ==
    /\ Seedlings # {}
    /\ Core \subseteq Seedlings /\ Secrets \subseteq Seedlings \ Core
    /\ Flaky \subseteq Seedlings /\ Hopeless \subseteq Seedlings /\ Ailing \subseteq Seedlings
    /\ Watchdog \notin Operators
    /\ Requests \subseteq {"new", "push", "reconcile", "start", "stop", "drop"}
    /\ Listing \in Seq(Seedlings) /\ \A s \in Seedlings : \E i \in 1..Len(Listing) : Listing[i] = s
    /\ MaxVersion \in Nat \ {0} /\ MaxFailCount \in Nat \ {0}
    /\ MaxRequests \in Nat /\ MaxFaults \in Nat

VARIABLES
    record,     \* seedbank: the seedling's version (0: not defined), desired run status, health log
    image,      \* where the seedling's image is
    container,  \* docker: the seedling's container and its agent's
    network,    \* docker: does the seedling's network exist
    account,    \* rolodex: does the service account exist
    task,       \* what each of bract's tasks is doing
    budget      \* what is left of the bounded events, and the newest version requested

vars == <<record, image, container, network, account, task, budget>>

Tasks == Operators \cup {Watchdog}
Containers == Seedlings \X {"main", "agent"}
Main(s) == <<s, "main">>
Agent(s) == <<s, "agent">>

NoRecord == [version |-> 0, desired |-> FALSE, fails |-> 0]
Absent == [status |-> "absent", version |-> 0, joined |-> FALSE]
Running(c) == container[c].status = "running"
Exists(c) == container[c].status # "absent"
Defined(s) == record[s].version > 0

\* A command of a plan: what it does, to which container's seedling, and what
\* it remembers for its rollback.
Ops == {"CreateSeedling", "UpdateSeedling", "SetDesiredRunning", "SetDesiredStopped",
        "CreateServiceAccount", "PullImage", "EnsureAgentMount", "BuildContainer",
        "StartContainer", "StopContainer", "DropContainer", "StartAgentContainer",
        "FindNetwork", "CreateNetwork", "ConnectNetwork",
        "StartSeedling", "CheckHealth", "RecheckHealth", "GiveUp", "StopFailed",
        "ClearHealthCheckLogs", "DeleteNetwork", "DeleteSeedbankEntry",
        "DeleteResinRepository"}
Cmd(op, c) == [op |-> op, on |-> c, was |-> 0]
Commands ==
    {cmd \in [op : Ops, on : Containers, was : 0..MaxVersion + 2] :
        cmd.op = "UpdateSeedling" => cmd.was \in 0..MaxVersion}
Only(condition, steps) == IF condition THEN steps ELSE <<>>

Blueprints == {"new", "reconcile", "start", "stop", "drop", "recheck"}
\* What a sweep has left: a blueprint for a seedling each, in the order of Rank.
Entry(b, s) == [blueprint |-> b, seedling |-> s]
Job(b, s, v, rest) ==
    [phase |-> "discover", blueprint |-> b, seedling |-> s, version |-> v,
     todo |-> <<>>, journal |-> <<>>, sweep |-> rest, spawned |-> FALSE, result |-> "none"]
Idle(t, result) ==
    [task[t] EXCEPT !.phase = "idle", !.todo = <<>>, !.journal = <<>>,
                    !.sweep = {}, !.result = result]

Init ==
    /\ record = [s \in Seedlings |-> NoRecord]
    /\ image = [s \in Seedlings |-> IF s \in Core THEN "AvailableFromResin" ELSE "Unknown"]
    /\ container = [c \in Containers |-> Absent]
    /\ network = [s \in Seedlings |-> FALSE]
    /\ account = [c \in Containers |-> FALSE]
    /\ task = [t \in Tasks |-> [Job("stop", Listing[1], 0, {}) EXCEPT !.phase = "idle"]]
    /\ budget = [requests |-> MaxRequests, faults |-> MaxFaults, newest |-> 1]

-----------------------------------------------------------------------------
(* Plans: what a task decides to do from what it observed. *)

\* bract's requests come with what is needed to provision an agent; the watchdog's do not.
Provisioned(t) == t # Watchdog

\* What docker knows of the agent: not even asked when no agent is provisioned.
ObservedAgent(t, s) == IF Provisioned(t) THEN container[Agent(s)].status ELSE "absent"

ReconcileRefused(s, v) ==
    \/ image[s] = "Unknown"
    \/ Exists(Main(s)) /\ container[Main(s)].version > v

AgentSteps(t, s) ==
    Only(s \in Secrets,
         <<Cmd("EnsureAgentMount", Agent(s))>>
         \o Only(ObservedAgent(t, s) = "absent", <<Cmd("BuildContainer", Agent(s))>>)
         \o Only(ObservedAgent(t, s) # "running", <<Cmd("StartContainer", Agent(s))>>))

ContainerSteps(s, v) ==
    LET stale == Exists(Main(s)) /\ container[Main(s)].version < v IN
    Only(stale /\ Running(Main(s)), <<Cmd("StopContainer", Main(s))>>)
    \o Only(stale, <<Cmd("DropContainer", Main(s))>>)
    \o Only(stale \/ ~Exists(Main(s)), <<Cmd("BuildContainer", Main(s))>>)
    \o Only(stale \/ ~Running(Main(s)), <<Cmd("StartContainer", Main(s))>>)

\* The definition is recorded once the container of its version runs.
MutantRecordedLast(t, s, v) ==
    Only(~Defined(s), <<Cmd("CreateSeedling", Main(s))>>)
    \o <<Cmd("SetDesiredRunning", Main(s))>>
    \o Only(~account[Main(s)], <<Cmd("CreateServiceAccount", Main(s))>>)
    \o Only(image[s] = "AvailableFromResin", <<Cmd("PullImage", Main(s))>>)
    \o ContainerSteps(s, v)
    \o Only(record[s].version \in 1..v - 1, <<Cmd("UpdateSeedling", Main(s))>>)

ReconcilePlan(t, s, v) ==
    Only(~Defined(s), <<Cmd("CreateSeedling", Main(s))>>)
    \o Only(record[s].version \in 1..v - 1, <<Cmd("UpdateSeedling", Main(s))>>)
    \o <<Cmd("SetDesiredRunning", Main(s))>>
    \o Only(~account[Main(s)], <<Cmd("CreateServiceAccount", Main(s))>>)
    \o Only(s \in Secrets /\ ~(Provisioned(t) /\ account[Agent(s)]),
            <<Cmd("CreateServiceAccount", Agent(s))>>)
    \o Only(image[s] = "AvailableFromResin", <<Cmd("PullImage", Main(s))>>)
    \o AgentSteps(t, s)
    \o ContainerSteps(s, v)

\* The watchdog's commands may touch a core seedling, an operator's may not.
Forbidden(t, s) == s \in Core /\ t # Watchdog

StartRefused(t, s) ==
    \/ ~Defined(s) \/ ~account[Main(s)]
    \/ t = Watchdog /\ record[s].fails > MaxFailCount
    \/ image[s] # "Local" \/ ~Exists(Main(s))
    \/ Forbidden(t, s)
    \/ Running(Main(s)) /\ record[s].fails = 0

StartPlan(s) ==
    <<Cmd("SetDesiredRunning", Main(s))>>
    \o Only(Exists(Agent(s)) /\ ~Running(Agent(s)), <<Cmd("StartAgentContainer", Agent(s))>>)
    \o <<[Cmd("StartSeedling", Main(s)) EXCEPT !.was = IF Running(Main(s)) THEN 1 ELSE 0],
         Cmd("ClearHealthCheckLogs", Main(s))>>

StopPlan(s) ==
    <<Cmd("SetDesiredStopped", Main(s))>>
    \o Only(Running(Main(s)), <<Cmd("StopContainer", Main(s))>>)
    \o Only(Running(Agent(s)), <<Cmd("StopContainer", Agent(s))>>)

DropRefused(s) ==
    \/ Defined(s) /\ s \in Core
    \/ Running(Main(s)) \/ Running(Agent(s))

\* A drop that forgets the agent.
MutantAgentForgotten(s) ==
    Only(Exists(Main(s)), <<Cmd("DropContainer", Main(s))>>)
    \o Only(network[s], <<Cmd("DeleteNetwork", Main(s))>>)
    \o Only(Defined(s), <<Cmd("DeleteSeedbankEntry", Main(s))>>)
    \o <<Cmd("DeleteResinRepository", Main(s))>>

DropPlan(s) ==
    Only(Exists(Main(s)), <<Cmd("DropContainer", Main(s))>>)
    \o Only(Exists(Agent(s)), <<Cmd("DropContainer", Agent(s))>>)
    \o Only(network[s], <<Cmd("DeleteNetwork", Main(s))>>)
    \o Only(Defined(s), <<Cmd("DeleteSeedbankEntry", Main(s))>>)
    \o <<Cmd("DeleteResinRepository", Main(s))>>

\* The version a blueprint works with: the request's, or the one in the seedbank.
VersionOf(t) ==
    IF task[t].version # 0 THEN task[t].version ELSE record[task[t].seedling].version

Refused(t) ==
    LET s == task[t].seedling IN
    CASE task[t].blueprint = "new" -> Defined(s) \/ image[s] # "Unknown"
      [] task[t].blueprint = "reconcile" -> VersionOf(t) = 0 \/ ReconcileRefused(s, VersionOf(t))
      [] task[t].blueprint = "start" -> StartRefused(t, s)
      [] task[t].blueprint = "stop" -> Exists(Main(s)) /\ Forbidden(t, s)
      [] task[t].blueprint = "drop" -> DropRefused(s)
      [] task[t].blueprint = "recheck" -> FALSE

PlanOf(t) ==
    LET s == task[t].seedling IN
    CASE task[t].blueprint = "new" -> <<Cmd("CreateSeedling", Main(s))>>
      [] task[t].blueprint = "reconcile" -> ReconcilePlan(t, s, VersionOf(t))
      [] task[t].blueprint = "start" -> StartPlan(s)
      [] task[t].blueprint = "stop" -> StopPlan(s)
      [] task[t].blueprint = "drop" -> DropPlan(s)
      [] task[t].blueprint = "recheck" -> <<Cmd("RecheckHealth", Main(s))>>

-----------------------------------------------------------------------------
(* The executor of a task: see module Blueprint. *)

Current(t) == Head(task[t].todo)
Runs(t, op) == task[t].phase = "run" /\ task[t].todo # <<>> /\ Current(t).op = op

Complete(t, cmd) ==
    task' = [task EXCEPT ![t].todo = Tail(@), ![t].journal = Append(@, cmd)]
Fail(t) == task' = [task EXCEPT ![t].phase = "undo", ![t].todo = <<>>]
Outcome(t, ok) == IF ok THEN Complete(t, Current(t)) ELSE Fail(t)
\* The command goes on, after a wait or with its next call.
Continue(t, op, was) ==
    task' = [task EXCEPT ![t].todo =
                <<[Current(t) EXCEPT !.op = op, !.was = was]>> \o Tail(@)]

Fault == budget.faults > 0 /\ budget' = [budget EXCEPT !.faults = @ - 1]

\* The order of a sweep: the seedlings to stop, those to reconcile and start, each
\* followed by its start, and those to check, all as they are listed.
Rank(e) ==
    LET n == Len(Listing)
        i == CHOOSE i \in 1..n : Listing[i] = e.seedling IN
    CASE e.blueprint = "stop" -> i
      [] e.blueprint = "reconcile" -> n + 2 * i
      [] e.blueprint = "start" -> n + 2 * i + 1
      [] e.blueprint = "recheck" -> 3 * n + 1 + i

\* The end of a blueprint.  In a sweep the next one follows a success; a failure
\* ends the sweep.
Begin(t, sweep) ==
    \E e \in sweep :
        /\ \A other \in sweep : Rank(e) <= Rank(other)
        /\ task' = [task EXCEPT ![t] = Job(e.blueprint, e.seedling, 0, sweep \ {e})]
Conclude(t, ok) ==
    IF ok /\ task[t].sweep # {}
    THEN Begin(t, task[t].sweep)
    ELSE task' = [task EXCEPT ![t] = Idle(t, IF ok THEN "ok" ELSE "failed")]

Plan(t) ==
    /\ task[t].phase = "discover"
    /\ IF Refused(t)
       THEN Conclude(t, FALSE)
       ELSE task' = [task EXCEPT ![t].phase = "run", ![t].todo = PlanOf(t),
                                 ![t].version = VersionOf(t)]
    /\ UNCHANGED <<record, image, container, network, account, budget>>

Finish(t) ==
    /\ \/ task[t].phase = "run" /\ task[t].todo = <<>> /\ Conclude(t, TRUE)
       \/ task[t].phase = "undo" /\ task[t].journal = <<>> /\ Conclude(t, FALSE)
    /\ UNCHANGED <<record, image, container, network, account, budget>>

-----------------------------------------------------------------------------
(* Commands on the seedbank and the accounts. *)

CreateSeedling(t) ==
    /\ Runs(t, "CreateSeedling")
    /\ LET s == Current(t).on[1]
           ok == ~Defined(s) IN
       /\ record' = IF ok THEN [record EXCEPT ![s] = [NoRecord EXCEPT !.version = task[t].version]]
                          ELSE record
       /\ Outcome(t, ok)
    /\ UNCHANGED <<image, container, network, account, budget>>

\* seedbank's update: only to a newer version.
Updatable(s, v) == Defined(s) /\ v > record[s].version

UpdateSeedling(t) ==
    /\ Runs(t, "UpdateSeedling")
    /\ LET s == Current(t).on[1]
           ok == Updatable(s, task[t].version) IN
       /\ record' = IF ok THEN [record EXCEPT ![s].version = task[t].version] ELSE record
       /\ IF ok THEN Complete(t, [Current(t) EXCEPT !.was = record[s].version]) ELSE Fail(t)
    /\ UNCHANGED <<image, container, network, account, budget>>

SetDesiredRunStatus(t) ==
    /\ \/ Runs(t, "SetDesiredRunning")
       \/ Runs(t, "SetDesiredStopped")
    /\ LET s == Current(t).on[1] IN
       /\ record' = IF Defined(s)
                    THEN [record EXCEPT ![s].desired = (Current(t).op = "SetDesiredRunning")]
                    ELSE record
       /\ Outcome(t, Defined(s))
    /\ UNCHANGED <<image, container, network, account, budget>>

ClearHealthCheckLogs(t) ==
    /\ Runs(t, "ClearHealthCheckLogs")
    /\ LET s == Current(t).on[1] IN
       /\ record' = IF Defined(s) THEN [record EXCEPT ![s].fails = 0] ELSE record
       /\ Outcome(t, Defined(s))
    /\ UNCHANGED <<image, container, network, account, budget>>

DeleteSeedbankEntry(t) ==
    /\ Runs(t, "DeleteSeedbankEntry")
    /\ LET s == Current(t).on[1] IN
       /\ record' = [record EXCEPT ![s] = NoRecord]
       /\ Outcome(t, Defined(s))
    /\ UNCHANGED <<image, container, network, account, budget>>

\* Creating an account that exists returns it.
CreateServiceAccount(t) ==
    /\ Runs(t, "CreateServiceAccount")
    /\ account' = [account EXCEPT ![Current(t).on] = TRUE]
    /\ Outcome(t, TRUE)
    /\ UNCHANGED <<record, image, container, network, budget>>

-----------------------------------------------------------------------------
(* Commands on docker and resin. *)

\* What docker does (304 for a stop of a stopped container is an error of the client).
CanStart(c) == Exists(c) /\ (container[c].joined => network[c[1]])
CanStop(c) == Running(c)
CanDrop(c) == Exists(c) /\ ~Running(c)
CanDeleteNetwork(s) ==
    network[s] /\ \A c \in {Main(s), Agent(s)} : ~(Running(c) /\ container[c].joined)

PullImage(t) ==
    /\ Runs(t, "PullImage")
    /\ LET s == Current(t).on[1]
           ok == image[s] # "Unknown" IN
       /\ image' = IF ok THEN [image EXCEPT ![s] = "Local"] ELSE image
       /\ Outcome(t, ok)
    /\ UNCHANGED <<record, container, network, account, budget>>

DeleteResinRepository(t) ==
    /\ Runs(t, "DeleteResinRepository")
    /\ LET s == Current(t).on[1] IN
       image' = [image EXCEPT ![s] = IF @ = "Local" THEN "Local" ELSE "Unknown"]
    /\ Outcome(t, TRUE)
    /\ UNCHANGED <<record, container, network, account, budget>>

EnsureAgentMount(t) ==
    /\ Runs(t, "EnsureAgentMount")
    /\ Outcome(t, Provisioned(t) /\ account[Current(t).on])
    /\ UNCHANGED <<record, image, container, network, account, budget>>

\* The calls of BuildContainer, and of BuildAgentContainer: the container, then the
\* network, then the link between them.
BuildContainer(t) ==
    /\ Runs(t, "BuildContainer")
    /\ LET c == Current(t).on
           ok == account[c] /\ ~Exists(c) /\ (c[2] = "agent" => Provisioned(t)) IN
       IF ok
       THEN /\ container' = [container EXCEPT ![c] =
                    [status |-> "created", version |-> task[t].version, joined |-> FALSE]]
            /\ Continue(t, "FindNetwork", 0)
       ELSE Fail(t) /\ UNCHANGED container
    /\ UNCHANGED <<record, image, network, account, budget>>

FindNetwork(t) ==
    /\ Runs(t, "FindNetwork")
    /\ Continue(t, IF network[Current(t).on[1]] THEN "ConnectNetwork" ELSE "CreateNetwork", 0)
    /\ UNCHANGED <<record, image, container, network, account, budget>>

\* Docker refuses a second network of the name.
CreateNetwork(t) ==
    /\ Runs(t, "CreateNetwork")
    /\ LET s == Current(t).on[1] IN
       /\ network' = [network EXCEPT ![s] = TRUE]
       /\ IF network[s] THEN Fail(t) ELSE Continue(t, "ConnectNetwork", 1)
    /\ UNCHANGED <<record, image, container, account, budget>>

\* A container that is connected stays so.
CanConnect(c) == Exists(c) /\ network[c[1]]
Connected(c) == [container EXCEPT ![c].joined = TRUE]

ConnectNetwork(t) ==
    /\ Runs(t, "ConnectNetwork")
    /\ LET c == Current(t).on IN
       IF CanConnect(c)
       THEN /\ container' = Connected(c)
            /\ Complete(t, [Current(t) EXCEPT !.op = "BuildContainer"])
       ELSE Fail(t) /\ UNCHANGED container
    /\ UNCHANGED <<record, image, network, account, budget>>

\* An agent, and a core seedling, is to join the system's network as well.
SystemNetworkFails(t) ==
    /\ Runs(t, "ConnectNetwork")
    /\ Fault
    /\ LET c == Current(t).on IN
       /\ (c[2] = "agent" \/ c[1] \in Core) /\ CanConnect(c)
       /\ container' = Connected(c)
    /\ Fail(t)
    /\ UNCHANGED <<record, image, network, account>>

StartContainer(t) ==
    /\ \/ Runs(t, "StartContainer")
       \/ Runs(t, "StartAgentContainer")
    /\ LET c == Current(t).on IN
       /\ container' = IF CanStart(c) THEN [container EXCEPT ![c].status = "running"] ELSE container
       /\ Outcome(t, CanStart(c))
    /\ UNCHANGED <<record, image, network, account, budget>>

\* The agent's container starts but its health check does not pass.
AgentUnhealthy(t) ==
    /\ Runs(t, "StartAgentContainer")
    /\ Fault
    /\ CanStart(Current(t).on)
    /\ container' = [container EXCEPT ![Current(t).on].status = "running"]
    /\ Fail(t)
    /\ UNCHANGED <<record, image, network, account>>

StopContainer(t) ==
    /\ Runs(t, "StopContainer")
    /\ LET c == Current(t).on IN
       /\ container' = IF CanStop(c) THEN [container EXCEPT ![c].status = "exited"] ELSE container
       /\ Outcome(t, CanStop(c))
    /\ UNCHANGED <<record, image, network, account, budget>>

DropContainer(t) ==
    /\ Runs(t, "DropContainer")
    /\ LET c == Current(t).on IN
       /\ container' = IF CanDrop(c) THEN [container EXCEPT ![c] = Absent] ELSE container
       /\ Outcome(t, CanDrop(c))
    /\ UNCHANGED <<record, image, network, account, budget>>

DeleteNetwork(t) ==
    /\ Runs(t, "DeleteNetwork")
    /\ LET s == Current(t).on[1] IN
       /\ network' = IF CanDeleteNetwork(s) THEN [network EXCEPT ![s] = FALSE] ELSE network
       /\ Outcome(t, CanDeleteNetwork(s))
    /\ UNCHANGED <<record, image, container, account, budget>>

-----------------------------------------------------------------------------
(* Health checks. *)

Verdicts(s) ==
    IF s \in Hopeless THEN {FALSE} ELSE IF s \in Ailing THEN BOOLEAN ELSE {TRUE}

\* Starts the container, unless it was seen running, and waits before the check.
StartSeedling(t) ==
    /\ Runs(t, "StartSeedling")
    /\ LET c == Current(t).on
           already_running == Current(t).was = 1 IN
       /\ container' = IF ~already_running /\ CanStart(c)
                       THEN [container EXCEPT ![c].status = "running"] ELSE container
       /\ IF already_running \/ CanStart(c)
          THEN Continue(t, "CheckHealth", Current(t).was)
          ELSE Fail(t)
    /\ UNCHANGED <<record, image, network, account, budget>>

\* One failure more than the log holds.
MutantOneMore(s) == record[s].fails > MaxFailCount

ReachedMaxFailCount(s) == record[s].fails + 1 > MaxFailCount

\* A failure of the seedling is noticed but not written to its health log.
MutantUncounted(s) == UNCHANGED record

\* record_health_check_failure: an error when the seedling is not in the seedbank any
\* more.  The failure that the log has no room for is not written; the seedling becomes
\* one that should not run, and then its container is stopped.
RecordFailure(s) ==
    record' = IF Defined(s) /\ ~ReachedMaxFailCount(s)
              THEN [record EXCEPT ![s].fails = @ + 1] ELSE record

CheckHealth(t) ==
    /\ Runs(t, "CheckHealth")
    /\ LET s == Current(t).on[1] IN
       \E passes \in Verdicts(s) :
          IF Running(Main(s)) /\ passes
          THEN UNCHANGED record /\ Complete(t, [Current(t) EXCEPT !.op = "StartSeedling"])
          ELSE /\ RecordFailure(s)
               /\ IF Defined(s) /\ ReachedMaxFailCount(s)
                  THEN Continue(t, "GiveUp", Current(t).was)
                  ELSE Fail(t)
    /\ UNCHANGED <<image, container, network, account, budget>>

\* The watchdog's check of a running seedling: one that cannot be executed is an
\* error and no failure; a failure is recorded and the sweep goes on.
RecheckHealth(t) ==
    /\ Runs(t, "RecheckHealth")
    /\ LET s == Current(t).on[1] IN
       IF ~Defined(s) \/ ~Running(Main(s))
       THEN Fail(t) /\ UNCHANGED record
       ELSE \E passes \in Verdicts(s) :
               IF passes
               THEN record' = [record EXCEPT ![s].fails = 0] /\ Outcome(t, TRUE)
               ELSE /\ RecordFailure(s)
                    /\ IF ReachedMaxFailCount(s)
                       THEN Continue(t, "GiveUp", 2)
                       ELSE Outcome(t, TRUE)
    /\ UNCHANGED <<image, container, network, account, budget>>

GiveUp(t) ==
    /\ Runs(t, "GiveUp")
    /\ LET s == Current(t).on[1] IN
       IF Defined(s)
       THEN record' = [record EXCEPT ![s].desired = FALSE] /\ Continue(t, "StopFailed", Current(t).was)
       ELSE Fail(t) /\ UNCHANGED record
    /\ UNCHANGED <<image, container, network, account, budget>>

\* The end of record_health_check_failure.  The recheck succeeds if the stop does;
\* a start has failed either way.
StopFailed(t) ==
    /\ Runs(t, "StopFailed")
    /\ LET c == Current(t).on IN
       /\ container' = IF CanStop(c) THEN [container EXCEPT ![c].status = "exited"] ELSE container
       /\ Outcome(t, CanStop(c) /\ Current(t).was = 2)
    /\ UNCHANGED <<record, image, network, account, budget>>

-----------------------------------------------------------------------------
(* Rollbacks, most recent command first. *)

UndoneRecord(cmd) ==
    LET s == cmd.on[1] IN
    CASE cmd.op = "CreateSeedling" -> [record EXCEPT ![s] = NoRecord]
      [] cmd.op = "UpdateSeedling" /\ Updatable(s, cmd.was) -> [record EXCEPT ![s].version = cmd.was]
      [] OTHER -> record

\* StartSeedling's rollback leaves a container alone that was running before.
StopsOnUndo(cmd) ==
    \/ cmd.op \in {"StartContainer", "StartAgentContainer"}
    \/ cmd.op = "StartSeedling" /\ cmd.was = 0

UndoneContainer(cmd) ==
    LET c == cmd.on IN
    CASE cmd.op = "BuildContainer" /\ CanDrop(c) -> [container EXCEPT ![c] = Absent]
      [] StopsOnUndo(cmd) /\ CanStop(c) -> [container EXCEPT ![c].status = "exited"]
      [] cmd.op = "StopContainer" /\ CanStart(c) -> [container EXCEPT ![c].status = "running"]
      [] OTHER -> container

\* The network goes after the container that brought it, if that could be deleted: what
\* is left to undo of the command is then its network.
UndoneNetwork(cmd) ==
    IF cmd.op = "CreateNetwork" /\ CanDeleteNetwork(cmd.on[1])
    THEN [network EXCEPT ![cmd.on[1]] = FALSE]
    ELSE network

Latest(t) == task[t].journal[Len(task[t].journal)]
Earlier(t) == SubSeq(task[t].journal, 1, Len(task[t].journal) - 1)
LeftToUndo(cmd) ==
    Only(cmd.op = "BuildContainer" /\ cmd.was = 1 /\ ~Running(cmd.on),
         <<[cmd EXCEPT !.op = "CreateNetwork"]>>)

Undoing(t) == task[t].phase = "undo" /\ task[t].journal # <<>>

Rollback(t) ==
    /\ Undoing(t)
    /\ task' = [task EXCEPT ![t].journal = Earlier(t) \o LeftToUndo(Latest(t))]
    /\ record' = UndoneRecord(Latest(t))
    /\ container' = UndoneContainer(Latest(t))
    /\ network' = UndoneNetwork(Latest(t))
    /\ UNCHANGED <<image, account, budget>>

RollbackFails(t) ==
    /\ Undoing(t)
    /\ Fault
    /\ task' = [task EXCEPT ![t].journal = Earlier(t)]
    /\ UNCHANGED <<record, image, container, network, account>>

\* A call of the command fails before it has changed anything.
CommandFails(t) ==
    /\ task[t].phase = "run" /\ task[t].todo # <<>>
    /\ Fault
    /\ Fail(t)
    /\ UNCHANGED <<record, image, container, network, account>>

-----------------------------------------------------------------------------
(* bract: the requests it serves, the watchdog's sweeps, its crashes. *)

Send(o, b, s, v) ==
    /\ task[o].phase = "idle" /\ budget.requests > 0
    /\ task' = [task EXCEPT ![o] = Job(b, s, v, {})]
    /\ budget' = [budget EXCEPT !.requests = @ - 1]

\* seedling new: version 1.
RequestNew(o, s) == s \notin Core /\ Send(o, "new", s, 1) /\ UNCHANGED image

\* The image is pushed to resin, which triggers a reconcile of what the seedbank holds,
\* in a task that no connection ends.
PushImage(o, s) ==
    /\ s \notin Core /\ Defined(s)
    /\ image' = [image EXCEPT ![s] = IF @ = "Unknown" THEN "AvailableFromResin" ELSE @]
    /\ task[o].phase = "idle" /\ budget.requests > 0
    /\ task' = [task EXCEPT ![o] = [Job("reconcile", s, 0, {}) EXCEPT !.spawned = TRUE]]
    /\ budget' = [budget EXCEPT !.requests = @ - 1]

\* douglas start: core seedlings are reconciled to the version this douglas brings,
\* which refuses to run on the data of a newer one.
RequestReconcile(o, s) ==
    /\ s \in Core
    /\ task[o].phase = "idle" /\ budget.requests > 0
    /\ \E v \in budget.newest..MaxVersion :
          /\ task' = [task EXCEPT ![o] = Job("reconcile", s, v, {})]
          /\ budget' = [budget EXCEPT !.requests = @ - 1, !.newest = v]
    /\ UNCHANGED image

\* A defined seedling that has no account yet is reconciled instead of started.
RequestStart(o, s) ==
    /\ IF Defined(s) /\ ~account[Main(s)]
       THEN Send(o, "reconcile", s, 0)
       ELSE Send(o, "start", s, 0)
    /\ UNCHANGED image

RequestStop(o, s) == Send(o, "stop", s, 0) /\ UNCHANGED image
RequestDrop(o, s) == Send(o, "drop", s, 0) /\ UNCHANGED image

Request ==
    /\ \E o \in Operators, s \in Seedlings :
          \/ "new" \in Requests /\ RequestNew(o, s)
          \/ "push" \in Requests /\ PushImage(o, s)
          \/ "reconcile" \in Requests /\ RequestReconcile(o, s)
          \/ "start" \in Requests /\ RequestStart(o, s)
          \/ "stop" \in Requests /\ RequestStop(o, s)
          \/ "drop" \in Requests /\ RequestDrop(o, s)
    /\ UNCHANGED <<record, container, network, account>>

NeedsStop(s) ==
    Defined(s) /\ Running(Main(s)) /\ (record[s].fails > MaxFailCount \/ ~record[s].desired)
\* A seedling whose health log is full is not started again.
MutantFullIsOver(s) ==
    Defined(s) /\ ~Running(Main(s)) /\ record[s].fails < MaxFailCount /\ record[s].desired
NeedsStart(s) ==
    Defined(s) /\ ~Running(Main(s)) /\ record[s].fails <= MaxFailCount /\ record[s].desired
NeedsRecheck(s) == Defined(s) /\ Running(Main(s)) /\ ~NeedsStop(s)

Each(b, needs) == {Entry(b, s) : s \in needs}

SweepPlan ==
    LET down == {s \in Seedlings : NeedsStart(s)} IN
    Each("stop", {s \in Seedlings : NeedsStop(s)})
    \cup Each("reconcile", down) \cup Each("start", down)
    \cup Each("recheck", {s \in Seedlings : NeedsRecheck(s)})

Sweep ==
    /\ task[Watchdog].phase = "idle"
    /\ Begin(Watchdog, SweepPlan)
    /\ UNCHANGED <<record, image, container, network, account, budget>>

\* bract dies in the middle of what its tasks do, and is started again.
Crash ==
    /\ Fault
    /\ \E t \in Tasks : task[t].phase # "idle"
    /\ task' = [t \in Tasks |-> Idle(t, "none")]
    /\ UNCHANGED <<record, image, container, network, account>>

\* A client hangs up: the task of its connection ends where it waits, with nothing undone.
HangUp(o) ==
    /\ task[o].phase # "idle" /\ ~task[o].spawned
    /\ Fault
    /\ task' = [task EXCEPT ![o] = Idle(o, "none")]
    /\ UNCHANGED <<record, image, container, network, account>>

\* A container's process ends, without bract.
ContainerExits ==
    /\ \E s \in Flaky :
          Running(Main(s)) /\ container' = [container EXCEPT ![Main(s)].status = "exited"]
    /\ UNCHANGED <<record, image, network, account, task, budget>>

SeedbankStep(t) ==
    \/ CreateSeedling(t) \/ UpdateSeedling(t) \/ SetDesiredRunStatus(t)
    \/ ClearHealthCheckLogs(t) \/ DeleteSeedbankEntry(t) \/ CreateServiceAccount(t)
DockerStep(t) ==
    \/ PullImage(t) \/ DeleteResinRepository(t) \/ EnsureAgentMount(t)
    \/ BuildContainer(t) \/ FindNetwork(t) \/ CreateNetwork(t) \/ ConnectNetwork(t)
    \/ StartContainer(t) \/ StopContainer(t)
    \/ DropContainer(t) \/ DeleteNetwork(t)
HealthStep(t) ==
    StartSeedling(t) \/ CheckHealth(t) \/ RecheckHealth(t) \/ GiveUp(t) \/ StopFailed(t)
Step(t) ==
    Plan(t) \/ SeedbankStep(t) \/ DockerStep(t) \/ HealthStep(t) \/ Rollback(t) \/ Finish(t)
Failure(t) ==
    SystemNetworkFails(t) \/ AgentUnhealthy(t) \/ RollbackFails(t) \/ CommandFails(t)

Next ==
    \/ \E t \in Tasks : Step(t) \/ Failure(t)
    \/ \E o \in Operators : HangUp(o)
    \/ Request \/ Sweep \/ Crash \/ ContainerExits

Spec == Init /\ [][Next]_vars

\* bract's runtime runs every task on, and the watchdog's interval keeps ticking.
Fairness == WF_vars(Sweep) /\ \A t \in Tasks : WF_vars(Step(t))
FairSpec == Spec /\ Fairness

-----------------------------------------------------------------------------
(* Properties *)

Phases == {"idle", "discover", "run", "undo"}
Entries == [blueprint : Blueprints, seedling : Seedlings]
TaskType ==
    [phase : Phases, blueprint : Blueprints, seedling : Seedlings,
     version : 0..MaxVersion,
     todo : Seq(Commands), journal : Seq(Commands), sweep : SUBSET Entries,
     spawned : BOOLEAN, result : {"none", "ok", "failed"}]

\* Every variable has its type.
TypeOK ==
    /\ record \in [Seedlings -> [version : 0..MaxVersion, desired : BOOLEAN, fails : 0..MaxFailCount]]
    /\ image \in [Seedlings -> {"Unknown", "AvailableFromResin", "Local"}]
    /\ container \in [Containers -> [status : {"absent", "created", "running", "exited"},
                                     version : 0..MaxVersion, joined : BOOLEAN]]
    /\ network \in [Seedlings -> BOOLEAN]
    /\ account \in [Containers -> BOOLEAN]
    /\ task \in [Tasks -> TaskType]
    /\ budget \in [requests : 0..MaxRequests, faults : 0..MaxFaults, newest : 1..MaxVersion]

Ended(t, b, s, result) ==
    /\ task[t].phase = "idle" /\ task[t].blueprint = b
    /\ task[t].seedling = s /\ task[t].result = result

\* No container is ahead of the definition in the seedbank: a reconcile records a
\* version before it builds it, and undoes the record after the container.
ContainerNotAhead ==
    \A s \in Seedlings :
        Exists(Main(s)) /\ Defined(s) => container[Main(s)].version <= record[s].version

\* A seedling that should run is running again and again: when its container is
\* down, a sweep of the watchdog restarts it, until somebody decides that it
\* should not run (an operator, or the watchdog after too many failed checks).  Left
\* out is a container whose network was deleted under it, by a rollback of a build
\* that another task had lost: nothing creates that network again.
Stranded(s) == container[Main(s)].joined /\ ~network[s]
StaysUp ==
    \A s \in Seedlings : []<>(record[s].desired => Running(Main(s)) \/ Stranded(s))

\* A seedling that the seedbank knows and whose health check never passes is stopped
\* for good, without anybody doing anything.
GivesUp ==
    \A s \in Hopeless : <>[](Defined(s) => ~Running(Main(s)))

\* A drop that succeeded leaves nothing of the seedling in the seedbank and docker.
DropLeavesNothing ==
    \A s \in Seedlings, o \in Operators :
        Ended(o, "drop", s, "ok") =>
            ~Defined(s) /\ ~Exists(Main(s)) /\ ~Exists(Agent(s)) /\ ~network[s]
=============================================================================
