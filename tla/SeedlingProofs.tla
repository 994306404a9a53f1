--------------------------- MODULE SeedlingProofs ---------------------------
(* What holds for any seedlings, operators, requests and failures.           *)
EXTENDS Seedling, SequenceTheorems, TLAPS

RecordType == [version : 0..MaxVersion, desired : BOOLEAN, fails : 0..MaxFailCount]
ContainerType ==
    [status : {"absent", "created", "running", "exited"},
     version : 0..MaxVersion, joined : BOOLEAN]

-----------------------------------------------------------------------------
(* Containers and commands *)

\* What the assumptions say of each constant.
LEMMA Bounds ==
    /\ MaxVersion \in Nat \ {0} /\ MaxFailCount \in Nat \ {0}
    /\ MaxRequests \in Nat /\ MaxFaults \in Nat
    /\ Listing[1] \in Seedlings
    /\ Watchdog \in Tasks /\ Operators \subseteq Tasks
<1>1. PICK s \in Seedlings : TRUE
  BY SeedlingAssumption
<1>2. PICK i \in 1..Len(Listing) : Listing[i] = s
  BY <1>1, SeedlingAssumption
<1>3. Len(Listing) \in Nat /\ 1 \in 1..Len(Listing)
  BY <1>2, SeedlingAssumption, LenProperties
<1>4. Listing[1] \in Seedlings
  BY <1>3, SeedlingAssumption, ElementOfSeq
<1> QED
  BY <1>4, SeedlingAssumption DEF Tasks

\* The containers of a seedling, and the seedling of a container.
LEMMA ContainersOf ==
    /\ \A s \in Seedlings : Main(s) \in Containers /\ Agent(s) \in Containers
    /\ \A s \in Seedlings : Main(s)[1] = s /\ Agent(s)[1] = s
    /\ \A c \in Containers : c[1] \in Seedlings
  BY DEF Main, Agent, Containers

\* A command that a plan begins with remembers nothing yet.
LEMMA CmdTyped ==
    ASSUME NEW op \in Ops, NEW c \in Containers
    PROVE  Cmd(op, c) \in Commands
  BY Bounds DEF Cmd, Commands

\* What one command, or none, contributes to a plan.
LEMMA Steps ==
    /\ \A cmd \in Commands : <<cmd>> \in Seq(Commands)
    /\ \A condition, steps : steps \in Seq(Commands) => Only(condition, steps) \in Seq(Commands)
    /\ \A p, q : p \in Seq(Commands) /\ q \in Seq(Commands) => p \o q \in Seq(Commands)
<1>1. \A condition, steps : steps \in Seq(Commands) => Only(condition, steps) \in Seq(Commands)
  BY EmptySeq DEF Only
<1> QED
  BY <1>1, ConcatProperties

\* A plan of one command on a container.
LEMMA OneStep ==
    ASSUME NEW condition, NEW op \in Ops, NEW c \in Containers
    PROVE  /\ <<Cmd(op, c)>> \in Seq(Commands)
           /\ Only(condition, <<Cmd(op, c)>>) \in Seq(Commands)
  BY CmdTyped, Steps

\* The steps of a seedling's agent are commands.
LEMMA AgentStepsTyped ==
    ASSUME NEW t, NEW s \in Seedlings
    PROVE  AgentSteps(t, s) \in Seq(Commands)
<1> DEFINE p1 == <<Cmd("EnsureAgentMount", Agent(s))>>
           p2 == Only(ObservedAgent(t, s) = "absent", <<Cmd("BuildContainer", Agent(s))>>)
           p3 == Only(ObservedAgent(t, s) # "running", <<Cmd("StartContainer", Agent(s))>>)
<1>1. p1 \in Seq(Commands) /\ p2 \in Seq(Commands) /\ p3 \in Seq(Commands)
  BY ContainersOf, OneStep DEF Ops
<1>2. AgentSteps(t, s) = Only(s \in Secrets, p1 \o p2 \o p3)
  BY DEF AgentSteps
<1> HIDE DEF p1, p2, p3
<1> QED
  BY <1>1, <1>2, Steps

\* The steps that bring a container to its version are commands.
LEMMA ContainerStepsTyped ==
    ASSUME NEW s \in Seedlings, NEW v
    PROVE  ContainerSteps(s, v) \in Seq(Commands)
<1> DEFINE stale == Exists(Main(s)) /\ container[Main(s)].version < v
           p1 == Only(stale /\ Running(Main(s)), <<Cmd("StopContainer", Main(s))>>)
           p2 == Only(stale, <<Cmd("DropContainer", Main(s))>>)
           p3 == Only(stale \/ ~Exists(Main(s)), <<Cmd("BuildContainer", Main(s))>>)
           p4 == Only(stale \/ ~Running(Main(s)), <<Cmd("StartContainer", Main(s))>>)
<1>1. /\ p1 \in Seq(Commands) /\ p2 \in Seq(Commands)
      /\ p3 \in Seq(Commands) /\ p4 \in Seq(Commands)
  BY ContainersOf, OneStep DEF Ops
<1>2. ContainerSteps(s, v) = p1 \o p2 \o p3 \o p4
  BY DEF ContainerSteps
<1> HIDE DEF p1, p2, p3, p4
<1> QED
  BY <1>1, <1>2, Steps

\* A reconcile plans commands.
LEMMA ReconcilePlanTyped ==
    ASSUME NEW t, NEW s \in Seedlings, NEW v
    PROVE  ReconcilePlan(t, s, v) \in Seq(Commands)
<1> DEFINE p1 == Only(~Defined(s), <<Cmd("CreateSeedling", Main(s))>>)
           p2 == Only(record[s].version \in 1..v - 1, <<Cmd("UpdateSeedling", Main(s))>>)
           p3 == <<Cmd("SetDesiredRunning", Main(s))>>
           p4 == Only(~account[Main(s)], <<Cmd("CreateServiceAccount", Main(s))>>)
           p5 == Only(s \in Secrets /\ ~(Provisioned(t) /\ account[Agent(s)]),
                      <<Cmd("CreateServiceAccount", Agent(s))>>)
           p6 == Only(image[s] = "AvailableFromResin", <<Cmd("PullImage", Main(s))>>)
<1>1. /\ p1 \in Seq(Commands) /\ p2 \in Seq(Commands) /\ p3 \in Seq(Commands)
      /\ p4 \in Seq(Commands) /\ p5 \in Seq(Commands) /\ p6 \in Seq(Commands)
  BY ContainersOf, OneStep DEF Ops
<1>2. ReconcilePlan(t, s, v) =
          p1 \o p2 \o p3 \o p4 \o p5 \o p6 \o AgentSteps(t, s) \o ContainerSteps(s, v)
  BY DEF ReconcilePlan
<1> HIDE DEF p1, p2, p3, p4, p5, p6
<1> QED
  BY <1>1, <1>2, Steps, AgentStepsTyped, ContainerStepsTyped

\* A start plans commands.
LEMMA StartPlanTyped ==
    ASSUME NEW s \in Seedlings
    PROVE  StartPlan(s) \in Seq(Commands)
<1> DEFINE start == [Cmd("StartSeedling", Main(s)) EXCEPT !.was = IF Running(Main(s)) THEN 1 ELSE 0]
           p1 == <<Cmd("SetDesiredRunning", Main(s))>>
           p2 == Only(Exists(Agent(s)) /\ ~Running(Agent(s)), <<Cmd("StartAgentContainer", Agent(s))>>)
           p3 == <<start, Cmd("ClearHealthCheckLogs", Main(s))>>
<1>1. p1 \in Seq(Commands) /\ p2 \in Seq(Commands)
  BY ContainersOf, OneStep DEF Ops
<1>2. p3 \in Seq(Commands)
  <2>1. start \in Commands
    BY ContainersOf, Bounds DEF Cmd, Commands, Ops
  <2>2. Cmd("ClearHealthCheckLogs", Main(s)) \in Commands
    BY ContainersOf, CmdTyped DEF Ops
  <2> HIDE DEF start
  <2> QED
    BY <2>1, <2>2
<1>3. StartPlan(s) = p1 \o p2 \o p3
  BY DEF StartPlan
<1> HIDE DEF p1, p2, p3
<1> QED
  BY <1>1, <1>2, <1>3, Steps

\* A stop plans commands.
LEMMA StopPlanTyped ==
    ASSUME NEW s \in Seedlings
    PROVE  StopPlan(s) \in Seq(Commands)
<1> DEFINE p1 == <<Cmd("SetDesiredStopped", Main(s))>>
           p2 == Only(Running(Main(s)), <<Cmd("StopContainer", Main(s))>>)
           p3 == Only(Running(Agent(s)), <<Cmd("StopContainer", Agent(s))>>)
<1>1. p1 \in Seq(Commands) /\ p2 \in Seq(Commands) /\ p3 \in Seq(Commands)
  BY ContainersOf, OneStep DEF Ops
<1>2. StopPlan(s) = p1 \o p2 \o p3
  BY DEF StopPlan
<1> HIDE DEF p1, p2, p3
<1> QED
  BY <1>1, <1>2, Steps

\* A drop plans commands.
LEMMA DropPlanTyped ==
    ASSUME NEW s \in Seedlings
    PROVE  DropPlan(s) \in Seq(Commands)
<1> DEFINE p1 == Only(Exists(Main(s)), <<Cmd("DropContainer", Main(s))>>)
           p2 == Only(Exists(Agent(s)), <<Cmd("DropContainer", Agent(s))>>)
           p3 == Only(network[s], <<Cmd("DeleteNetwork", Main(s))>>)
           p4 == Only(Defined(s), <<Cmd("DeleteSeedbankEntry", Main(s))>>)
           p5 == <<Cmd("DeleteResinRepository", Main(s))>>
<1>1. /\ p1 \in Seq(Commands) /\ p2 \in Seq(Commands) /\ p3 \in Seq(Commands)
      /\ p4 \in Seq(Commands) /\ p5 \in Seq(Commands)
  BY ContainersOf, OneStep DEF Ops
<1>2. DropPlan(s) = p1 \o p2 \o p3 \o p4 \o p5
  BY DEF DropPlan
<1> HIDE DEF p1, p2, p3, p4, p5
<1> QED
  BY <1>1, <1>2, Steps

\* Every blueprint plans commands on the containers of a seedling.
LEMMA PlanTyped ==
    ASSUME NEW t \in Tasks, task[t] \in TaskType
    PROVE  PlanOf(t) \in Seq(Commands)
<1>1. task[t].seedling \in Seedlings /\ task[t].blueprint \in Blueprints
  BY DEF TaskType
<1>2. /\ <<Cmd("CreateSeedling", Main(task[t].seedling))>> \in Seq(Commands)
      /\ <<Cmd("RecheckHealth", Main(task[t].seedling))>> \in Seq(Commands)
  BY <1>1, ContainersOf, OneStep DEF Ops
<1> QED
  BY <1>1, <1>2, ReconcilePlanTyped, StartPlanTyped, StopPlanTyped, DropPlanTyped
     DEF PlanOf, Blueprints

-----------------------------------------------------------------------------
(* What a step does to its task *)

\* A step that gives a task a new state of the right type.
LEMMA TaskSet ==
    ASSUME task \in [Tasks -> TaskType], NEW t \in Tasks, NEW j \in TaskType,
           task' = [task EXCEPT ![t] = j]
    PROVE  task' \in [Tasks -> TaskType]
  OBVIOUS

\* The command at hand, and those that come after it.
LEMMA CurrentTyped ==
    ASSUME TypeOK, NEW t \in Tasks, task[t].todo # <<>>
    PROVE  /\ task[t] \in TaskType
           /\ Current(t) \in Commands /\ Current(t).on \in Containers
           /\ Current(t).on[1] \in Seedlings
           /\ Tail(task[t].todo) \in Seq(Commands)
           /\ task[t].version \in 0..MaxVersion
<1>1. task[t] \in TaskType
  BY DEF TypeOK
<1>2. task[t].todo \in Seq(Commands) /\ task[t].version \in 0..MaxVersion
  BY <1>1 DEF TaskType
<1>3. Current(t) \in Commands /\ Tail(task[t].todo) \in Seq(Commands)
  BY <1>2, HeadTailProperties DEF Current
<1>4. Current(t).on \in Containers
  BY <1>3 DEF Commands
<1> QED
  BY <1>1, <1>2, <1>3, <1>4, ContainersOf

\* A command that succeeds goes from the plan to the journal.
LEMMA CompleteTyped ==
    ASSUME TypeOK, NEW t \in Tasks, task[t].todo # <<>>, NEW cmd \in Commands,
           Complete(t, cmd)
    PROVE  task' \in [Tasks -> TaskType]
<1>1. task \in [Tasks -> TaskType] /\ task[t] \in TaskType
  BY DEF TypeOK
<1>2. Tail(task[t].todo) \in Seq(Commands)
  BY CurrentTyped
<1>3. Append(task[t].journal, cmd) \in Seq(Commands)
  BY <1>1, AppendProperties DEF TaskType
<1>4. [task[t] EXCEPT !.todo = Tail(task[t].todo), !.journal = Append(task[t].journal, cmd)]
        \in TaskType
  BY <1>1, <1>2, <1>3, Zenon DEF TaskType
<1>5. task' = [task EXCEPT ![t] = [task[t] EXCEPT !.todo = Tail(task[t].todo),
                                                 !.journal = Append(task[t].journal, cmd)]]
  BY <1>1 DEF Complete, TaskType
<1> QED
  BY <1>1, <1>4, <1>5, TaskSet

\* A command that fails ends its plan and begins the rollback.
LEMMA FailTyped ==
    ASSUME TypeOK, NEW t \in Tasks, Fail(t)
    PROVE  task' \in [Tasks -> TaskType]
<1>1. task \in [Tasks -> TaskType] /\ task[t] \in TaskType
  BY DEF TypeOK
<1>2. <<>> \in Seq(Commands) /\ "undo" \in Phases
  BY EmptySeq DEF Phases
<1>3. [task[t] EXCEPT !.phase = "undo", !.todo = <<>>] \in TaskType
  BY <1>1, <1>2, Zenon DEF TaskType
<1>4. task' = [task EXCEPT ![t] = [task[t] EXCEPT !.phase = "undo", !.todo = <<>>]]
  BY <1>1 DEF Fail
<1> QED
  BY <1>1, <1>3, <1>4, TaskSet

\* A command succeeds or fails.
LEMMA OutcomeTyped ==
    ASSUME TypeOK, NEW t \in Tasks, task[t].todo # <<>>, NEW ok, Outcome(t, ok)
    PROVE  task' \in [Tasks -> TaskType]
  BY CurrentTyped, CompleteTyped, FailTyped DEF Outcome

\* A command that waits becomes the command that goes on.
LEMMA ContinueTyped ==
    ASSUME TypeOK, NEW t \in Tasks, task[t].todo # <<>>,
           NEW op \in Ops \ {"UpdateSeedling"}, NEW was \in 0..MaxVersion + 2,
           Continue(t, op, was)
    PROVE  task' \in [Tasks -> TaskType]
<1>1. task \in [Tasks -> TaskType] /\ task[t] \in TaskType
  BY DEF TypeOK
<1> DEFINE cmd == [Current(t) EXCEPT !.op = op, !.was = was]
<1>2. cmd \in Commands
  <2>1. Current(t) \in [op : Ops, on : Containers, was : 0..MaxVersion + 2]
    BY CurrentTyped DEF Commands
  <2>2. cmd \in [op : Ops, on : Containers, was : 0..MaxVersion + 2]
    BY <2>1, Zenon
  <2>3. cmd.op = op
    BY <2>1, Zenon
  <2> QED
    BY <2>2, <2>3 DEF Commands
<1>3. task' = [task EXCEPT ![t] = [task[t] EXCEPT !.todo = <<cmd>> \o Tail(task[t].todo)]]
  BY <1>1 DEF Continue
<1> HIDE DEF cmd
<1>4. <<cmd>> \o Tail(task[t].todo) \in Seq(Commands)
  BY <1>2, CurrentTyped, Steps
<1>5. [task[t] EXCEPT !.todo = <<cmd>> \o Tail(task[t].todo)] \in TaskType
  BY <1>1, <1>4, Zenon DEF TaskType
<1> QED
  BY <1>1, <1>3, <1>5, TaskSet

\* A blueprint that begins.
LEMMA JobTyped ==
    ASSUME NEW b \in Blueprints, NEW s \in Seedlings, NEW v \in 0..MaxVersion,
           NEW sweep \in SUBSET Entries
    PROVE  /\ Job(b, s, v, sweep) \in TaskType
           /\ [Job(b, s, v, sweep) EXCEPT !.spawned = TRUE] \in TaskType
<1>1. /\ <<>> \in Seq(Commands) /\ "discover" \in Phases /\ 0 \in 0..MaxVersion
      /\ TRUE \in BOOLEAN /\ FALSE \in BOOLEAN
  BY EmptySeq, Bounds DEF Phases
<1>2. Job(b, s, v, sweep) \in TaskType
  BY <1>1, Zenon DEF Job, TaskType
<1>3. [Job(b, s, v, sweep) EXCEPT !.spawned = TRUE] \in TaskType
  BY <1>1, <1>2, Zenon DEF TaskType
<1> QED
  BY <1>2, <1>3

\* A task that is done.
LEMMA IdleTyped ==
    ASSUME NEW t, task[t] \in TaskType, NEW result \in {"none", "ok", "failed"}
    PROVE  Idle(t, result) \in TaskType
<1>1. <<>> \in Seq(Commands) /\ "idle" \in Phases /\ {} \in SUBSET Entries
  BY EmptySeq DEF Phases
<1> QED
  BY <1>1, Zenon DEF Idle, TaskType

\* A sweep goes on with one of the blueprints it has left.
LEMMA BeginTyped ==
    ASSUME task \in [Tasks -> TaskType], NEW t \in Tasks, NEW sweep \in SUBSET Entries,
           Begin(t, sweep)
    PROVE  task' \in [Tasks -> TaskType]
<1>1. PICK e \in sweep :
          task' = [task EXCEPT ![t] = Job(e.blueprint, e.seedling, 0, sweep \ {e})]
  BY DEF Begin
<1>2. /\ e.blueprint \in Blueprints /\ e.seedling \in Seedlings
      /\ sweep \ {e} \in SUBSET Entries /\ 0 \in 0..MaxVersion
  BY Bounds DEF Entries
<1>3. Job(e.blueprint, e.seedling, 0, sweep \ {e}) \in TaskType
  BY <1>2, JobTyped
<1> QED
  BY <1>1, <1>3, TaskSet

\* The end of a blueprint.
LEMMA ConcludeTyped ==
    ASSUME TypeOK, NEW t \in Tasks, NEW ok \in BOOLEAN, Conclude(t, ok)
    PROVE  task' \in [Tasks -> TaskType]
<1>1. task \in [Tasks -> TaskType] /\ task[t] \in TaskType
  BY DEF TypeOK
<1>2. task[t].sweep \in SUBSET Entries
  BY <1>1 DEF TaskType
<1>3. CASE Begin(t, task[t].sweep)
  BY <1>1, <1>2, <1>3, BeginTyped
<1>4. CASE task' = [task EXCEPT ![t] = Idle(t, IF ok THEN "ok" ELSE "failed")]
  <2>1. Idle(t, IF ok THEN "ok" ELSE "failed") \in TaskType
    BY <1>1, IdleTyped
  <2> QED
    BY <1>1, <1>4, <2>1, TaskSet
<1> QED
  BY <1>3, <1>4 DEF Conclude

\* A rollback takes the latest command off the journal, and may leave its network there.
LEMMA UndoingTyped ==
    ASSUME TypeOK, NEW t \in Tasks, Undoing(t)
    PROVE  /\ Latest(t) \in Commands /\ Earlier(t) \in Seq(Commands)
           /\ LeftToUndo(Latest(t)) \in Seq(Commands)
<1>1. task \in [Tasks -> TaskType] /\ task[t] \in TaskType
  BY DEF TypeOK
<1> DEFINE journal == task[t].journal
<1>2. journal \in Seq(Commands) /\ journal # <<>>
  BY <1>1 DEF Undoing, TaskType
<1> HIDE DEF journal
<1>3. Len(journal) \in Nat \ {0} /\ \A i \in 1..Len(journal) : journal[i] \in Commands
  BY <1>2, EmptySeq, ElementOfSeq
<1>4. \A i \in 1..Len(journal) - 1 : journal[i] \in Commands
  BY <1>3
<1>5. Earlier(t) \in Seq(Commands)
  BY <1>3, <1>4, SubSeqProperties DEF Earlier, journal
<1>6. Latest(t) \in Commands
  BY <1>3 DEF Latest, journal
<1>7. [Latest(t) EXCEPT !.op = "CreateNetwork"] \in Commands
  <2>1. /\ Latest(t) \in [op : Ops, on : Containers, was : 0..MaxVersion + 2]
        /\ "CreateNetwork" \in Ops
    BY <1>6 DEF Commands, Ops
  <2>2. /\ [Latest(t) EXCEPT !.op = "CreateNetwork"]
              \in [op : Ops, on : Containers, was : 0..MaxVersion + 2]
        /\ [Latest(t) EXCEPT !.op = "CreateNetwork"].op = "CreateNetwork"
    BY <2>1, Zenon
  <2> QED
    BY <2>2 DEF Commands
<1>8. LeftToUndo(Latest(t)) \in Seq(Commands)
  BY <1>7, Steps DEF LeftToUndo
<1> QED
  BY <1>5, <1>6, <1>8

\* A task with what is left of its journal.
LEMMA JournalTyped ==
    ASSUME TypeOK, NEW t \in Tasks, NEW rest \in Seq(Commands),
           task' = [task EXCEPT ![t].journal = rest]
    PROVE  task' \in [Tasks -> TaskType]
<1>1. task \in [Tasks -> TaskType] /\ task[t] \in TaskType
  BY DEF TypeOK
<1>2. [task[t] EXCEPT !.journal = rest] \in TaskType
  BY <1>1, Zenon DEF TaskType
<1>3. task' = [task EXCEPT ![t] = [task[t] EXCEPT !.journal = rest]]
  BY <1>1
<1> QED
  BY <1>1, <1>2, <1>3, TaskSet

-----------------------------------------------------------------------------
(* Steps of a task *)

\* The part of the type invariant that a step on the seedbank leaves alone.
LEMMA RecordStep ==
    ASSUME TypeOK, UNCHANGED <<image, container, network, account, budget>>,
           task' \in [Tasks -> TaskType], record' \in [Seedlings -> RecordType]
    PROVE  TypeOK'
  BY DEF TypeOK, RecordType

\* The part of the type invariant that a step on docker leaves alone.
LEMMA ContainerStep ==
    ASSUME TypeOK, UNCHANGED <<record, image, account>>,
           task' \in [Tasks -> TaskType], container' \in [Containers -> ContainerType],
           network' \in [Seedlings -> BOOLEAN], UNCHANGED budget \/ Fault
    PROVE  TypeOK'
<1>1. budget' \in [requests : 0..MaxRequests, faults : 0..MaxFaults, newest : 1..MaxVersion]
  BY Bounds DEF TypeOK, Fault
<1> QED
  BY <1>1 DEF TypeOK, ContainerType

\* A record that is replaced by one of the right type.
LEMMA RecordSet ==
    ASSUME TypeOK, NEW s \in Seedlings, NEW r \in RecordType, record' = [record EXCEPT ![s] = r]
    PROVE  record' \in [Seedlings -> RecordType]
  BY Zenon DEF TypeOK, RecordType

\* What the seedbank holds of a seedling, and the changes that are made to it.
LEMMA RecordTyped ==
    ASSUME TypeOK, NEW s \in Seedlings
    PROVE  /\ record \in [Seedlings -> RecordType] /\ record[s] \in RecordType
           /\ NoRecord \in RecordType
           /\ \A v \in 0..MaxVersion : /\ [NoRecord EXCEPT !.version = v] \in RecordType
                                       /\ [record[s] EXCEPT !.version = v] \in RecordType
           /\ \A b \in BOOLEAN : [record[s] EXCEPT !.desired = b] \in RecordType
           /\ [record[s] EXCEPT !.fails = 0] \in RecordType
           /\ ~ReachedMaxFailCount(s) => [record[s] EXCEPT !.fails = record[s].fails + 1] \in RecordType
<1>1. record \in [Seedlings -> RecordType] /\ record[s] \in RecordType
  BY DEF TypeOK, RecordType
<1>2. ~ReachedMaxFailCount(s) => record[s].fails + 1 \in 0..MaxFailCount
  BY <1>1, Bounds DEF ReachedMaxFailCount, RecordType
<1>3. 0 \in 0..MaxVersion /\ 0 \in 0..MaxFailCount /\ FALSE \in BOOLEAN
  BY Bounds
<1>4. NoRecord \in RecordType
  BY <1>3 DEF NoRecord, RecordType
<1>5. \A v \in 0..MaxVersion : /\ [NoRecord EXCEPT !.version = v] \in RecordType
                               /\ [record[s] EXCEPT !.version = v] \in RecordType
  BY <1>1, <1>4, Zenon DEF RecordType
<1>6. /\ \A b \in BOOLEAN : [record[s] EXCEPT !.desired = b] \in RecordType
      /\ [record[s] EXCEPT !.fails = 0] \in RecordType
  BY <1>1, <1>3, Zenon DEF RecordType
<1>7. ~ReachedMaxFailCount(s) => [record[s] EXCEPT !.fails = record[s].fails + 1] \in RecordType
  BY <1>1, <1>2, Zenon DEF RecordType
<1> QED
  BY <1>1, <1>4, <1>5, <1>6, <1>7

\* Commands on the seedbank keep the type invariant.
LEMMA SeedbankStepTyped ==
    ASSUME TypeOK, NEW t \in Tasks, SeedbankStep(t)
    PROVE  TypeOK'
<1> DEFINE s == Current(t).on[1]
<1>1. task[t].todo # <<>>
  BY DEF SeedbankStep, CreateSeedling, UpdateSeedling, SetDesiredRunStatus,
         ClearHealthCheckLogs, DeleteSeedbankEntry, CreateServiceAccount, Runs
<1>2. /\ s \in Seedlings /\ Current(t) \in Commands /\ Current(t).on \in Containers
      /\ task[t].version \in 0..MaxVersion
  BY <1>1, CurrentTyped
<1>3. record \in [Seedlings -> RecordType] /\ record[s] \in RecordType
  BY <1>2, RecordTyped
<1>4. CASE CreateSeedling(t)
  <2>1. task' \in [Tasks -> TaskType]
    BY <1>1, <1>4, OutcomeTyped DEF CreateSeedling
  <2>2. record' \in [Seedlings -> RecordType]
    <3>1. \/ record' = [record EXCEPT ![s] = [NoRecord EXCEPT !.version = task[t].version]]
          \/ record' = record
      BY <1>4 DEF CreateSeedling
    <3>2. [NoRecord EXCEPT !.version = task[t].version] \in RecordType
      BY <1>2, RecordTyped
    <3> QED
      BY <1>2, <1>3, <3>1, <3>2, RecordSet
  <2> QED
    BY <1>4, <2>1, <2>2, RecordStep DEF CreateSeedling
<1>5. CASE UpdateSeedling(t)
  <2> DEFINE cmd == [Current(t) EXCEPT !.was = record[s].version]
  <2>1. cmd \in Commands
    <3>1. record[s].version \in 0..MaxVersion /\ record[s].version \in 0..MaxVersion + 2
      BY <1>3, Bounds DEF RecordType
    <3>2. Current(t) \in [op : Ops, on : Containers, was : 0..MaxVersion + 2]
      BY <1>2 DEF Commands
    <3>3. /\ cmd \in [op : Ops, on : Containers, was : 0..MaxVersion + 2]
          /\ cmd.was = record[s].version
      BY <3>1, <3>2, Zenon
    <3> QED
      BY <3>1, <3>3 DEF Commands
  <2>2. Complete(t, cmd) \/ Fail(t)
    BY <1>5 DEF UpdateSeedling
  <2> HIDE DEF cmd
  <2>3. task' \in [Tasks -> TaskType]
    BY <1>1, <2>1, <2>2, CompleteTyped, FailTyped
  <2>4. record' \in [Seedlings -> RecordType]
    <3>1. \/ record' = [record EXCEPT ![s] = [record[s] EXCEPT !.version = task[t].version]]
          \/ record' = record
      BY <1>3, <1>5 DEF UpdateSeedling
    <3>2. [record[s] EXCEPT !.version = task[t].version] \in RecordType
      BY <1>2, RecordTyped
    <3> QED
      BY <1>2, <1>3, <3>1, <3>2, RecordSet
  <2> QED
    BY <1>5, <2>3, <2>4, RecordStep DEF UpdateSeedling
<1>6. CASE SetDesiredRunStatus(t)
  <2>1. task' \in [Tasks -> TaskType]
    BY <1>1, <1>6, OutcomeTyped DEF SetDesiredRunStatus
  <2>2. record' \in [Seedlings -> RecordType]
    <3>1. \/ record' = [record EXCEPT ![s] =
                           [record[s] EXCEPT !.desired = (Current(t).op = "SetDesiredRunning")]]
          \/ record' = record
      BY <1>3, <1>6, Zenon DEF SetDesiredRunStatus
    <3>2. [record[s] EXCEPT !.desired = (Current(t).op = "SetDesiredRunning")] \in RecordType
      BY <1>2, RecordTyped
    <3> QED
      BY <1>2, <1>3, <3>1, <3>2, RecordSet
  <2> QED
    BY <1>6, <2>1, <2>2, RecordStep DEF SetDesiredRunStatus
<1>7. CASE ClearHealthCheckLogs(t)
  <2>1. task' \in [Tasks -> TaskType]
    BY <1>1, <1>7, OutcomeTyped DEF ClearHealthCheckLogs
  <2>2. record' \in [Seedlings -> RecordType]
    <3>1. \/ record' = [record EXCEPT ![s] = [record[s] EXCEPT !.fails = 0]]
          \/ record' = record
      BY <1>3, <1>7 DEF ClearHealthCheckLogs
    <3> QED
      BY <1>2, <1>3, <3>1, RecordTyped, RecordSet
  <2> QED
    BY <1>7, <2>1, <2>2, RecordStep DEF ClearHealthCheckLogs
<1>8. CASE DeleteSeedbankEntry(t)
  <2>1. task' \in [Tasks -> TaskType]
    BY <1>1, <1>8, OutcomeTyped DEF DeleteSeedbankEntry
  <2>2. record' \in [Seedlings -> RecordType]
    BY <1>2, <1>8, RecordTyped, RecordSet DEF DeleteSeedbankEntry
  <2> QED
    BY <1>8, <2>1, <2>2, RecordStep DEF DeleteSeedbankEntry
<1>9. CASE CreateServiceAccount(t)
  <2>1. task' \in [Tasks -> TaskType]
    BY <1>1, <1>9, OutcomeTyped DEF CreateServiceAccount
  <2>2. account' \in [Containers -> BOOLEAN]
    BY <1>9 DEF CreateServiceAccount, TypeOK
  <2> QED
    BY <1>9, <2>1, <2>2 DEF CreateServiceAccount, TypeOK
<1> QED
  BY <1>4, <1>5, <1>6, <1>7, <1>8, <1>9 DEF SeedbankStep

\* What docker knows of a container, and the changes that are made to it.
LEMMA ContainerTyped ==
    ASSUME TypeOK, NEW c \in Containers
    PROVE  /\ container \in [Containers -> ContainerType] /\ container[c] \in ContainerType
           /\ network \in [Seedlings -> BOOLEAN]
           /\ [container EXCEPT ![c].status = "running"] \in [Containers -> ContainerType]
           /\ [container EXCEPT ![c].status = "exited"] \in [Containers -> ContainerType]
           /\ [container EXCEPT ![c] = Absent] \in [Containers -> ContainerType]
<1>1. container \in [Containers -> ContainerType] /\ container[c] \in ContainerType
  BY DEF TypeOK, ContainerType
<1>2. \A st \in {"running", "exited"} : [container[c] EXCEPT !.status = st] \in ContainerType
  BY <1>1 DEF ContainerType
<1>3. Absent \in ContainerType
  BY Bounds DEF Absent, ContainerType
<1>4. \A k \in ContainerType : [container EXCEPT ![c] = k] \in [Containers -> ContainerType]
  BY <1>1
<1>5. \A st \in {"running", "exited"} :
          [container EXCEPT ![c].status = st] \in [Containers -> ContainerType]
  BY <1>1, <1>2, <1>4, Zenon
<1> QED
  BY <1>1, <1>3, <1>4, <1>5 DEF TypeOK

\* A container that is built has the version of its task.
LEMMA BuiltTyped ==
    ASSUME TypeOK, NEW t \in Tasks, NEW c \in Containers
    PROVE  [container EXCEPT ![c] =
               [status |-> "created", version |-> task[t].version, joined |-> FALSE]]
             \in [Containers -> ContainerType]
<1>1. container \in [Containers -> ContainerType] /\ task[t].version \in 0..MaxVersion
  BY DEF TypeOK, ContainerType, TaskType
<1>2. [status |-> "created", version |-> task[t].version, joined |-> FALSE] \in ContainerType
  BY <1>1 DEF ContainerType
<1> QED
  BY <1>1, <1>2

\* A container that joins its network.
LEMMA ConnectedTyped ==
    ASSUME TypeOK, NEW c \in Containers
    PROVE  Connected(c) \in [Containers -> ContainerType]
<1>1. container \in [Containers -> ContainerType] /\ container[c] \in ContainerType
  BY ContainerTyped
<1>2. [container[c] EXCEPT !.joined = TRUE] \in ContainerType
  BY <1>1 DEF ContainerType
<1>3. [container EXCEPT ![c] = [container[c] EXCEPT !.joined = TRUE]]
        \in [Containers -> ContainerType]
  BY <1>1, <1>2
<1> QED
  BY <1>1, <1>3, Zenon DEF Connected

\* A container that is started or stopped, or not.
LEMMA SwitchTyped ==
    ASSUME TypeOK, NEW c \in Containers,
           \/ UNCHANGED container
           \/ container' = [container EXCEPT ![c].status = "running"]
           \/ container' = [container EXCEPT ![c].status = "exited"]
           \/ container' = [container EXCEPT ![c] = Absent]
    PROVE  container' \in [Containers -> ContainerType]
<1>1. container \in [Containers -> ContainerType]
  BY ContainerTyped
<1>2. [container EXCEPT ![c].status = "running"] \in [Containers -> ContainerType]
  BY ContainerTyped
<1>3. [container EXCEPT ![c].status = "exited"] \in [Containers -> ContainerType]
  BY ContainerTyped
<1>4. [container EXCEPT ![c] = Absent] \in [Containers -> ContainerType]
  BY ContainerTyped
<1>5. CASE UNCHANGED container
  BY <1>1, <1>5
<1>6. CASE container' = [container EXCEPT ![c].status = "running"]
  BY <1>2, <1>6, Zenon
<1>7. CASE container' = [container EXCEPT ![c].status = "exited"]
  BY <1>3, <1>7, Zenon
<1>8. CASE container' = [container EXCEPT ![c] = Absent]
  BY <1>4, <1>8, Zenon
<1> QED
  BY <1>5, <1>6, <1>7, <1>8, Zenon

\* Commands on docker and resin keep the type invariant.
LEMMA DockerStepTyped ==
    ASSUME TypeOK, NEW t \in Tasks, DockerStep(t)
    PROVE  TypeOK'
<1> DEFINE c == Current(t).on
<1>1. task[t].todo # <<>>
  BY DEF DockerStep, PullImage, DeleteResinRepository, EnsureAgentMount, BuildContainer,
         FindNetwork, CreateNetwork, ConnectNetwork,
         StartContainer, StopContainer, DropContainer, DeleteNetwork, Runs
<1>2. c \in Containers /\ c[1] \in Seedlings /\ Current(t) \in Commands
  BY <1>1, CurrentTyped
<1>3. /\ container \in [Containers -> ContainerType] /\ network \in [Seedlings -> BOOLEAN]
      /\ image \in [Seedlings -> {"Unknown", "AvailableFromResin", "Local"}]
  BY DEF TypeOK, ContainerType
<1>4. CASE PullImage(t) \/ DeleteResinRepository(t) \/ EnsureAgentMount(t)
  <2>1. task' \in [Tasks -> TaskType]
    BY <1>1, <1>4, OutcomeTyped DEF PullImage, DeleteResinRepository, EnsureAgentMount
  <2>2. image' \in [Seedlings -> {"Unknown", "AvailableFromResin", "Local"}]
    BY <1>3, <1>4 DEF PullImage, DeleteResinRepository, EnsureAgentMount
  <2>3. UNCHANGED <<record, container, network, account, budget>>
    BY <1>4 DEF PullImage, DeleteResinRepository, EnsureAgentMount
  <2> QED
    BY <2>1, <2>2, <2>3 DEF TypeOK
<1>5. CASE BuildContainer(t)
  <2>1. \/ /\ container' = [container EXCEPT ![c] =
               [status |-> "created", version |-> task[t].version, joined |-> FALSE]]
           /\ Continue(t, "FindNetwork", 0)
        \/ Fail(t) /\ UNCHANGED container
    BY <1>5, Zenon DEF BuildContainer
  <2>2. "FindNetwork" \in Ops \ {"UpdateSeedling"} /\ 0 \in 0..MaxVersion + 2
    BY Bounds DEF Ops
  <2>3. task' \in [Tasks -> TaskType]
    BY <1>1, <2>1, <2>2, ContinueTyped, FailTyped
  <2> HIDE DEF c
  <2>4. container' \in [Containers -> ContainerType]
    <3>1. [container EXCEPT ![c] =
              [status |-> "created", version |-> task[t].version, joined |-> FALSE]]
            \in [Containers -> ContainerType]
      BY <1>2, BuiltTyped
    <3> QED
      BY <1>3, <2>1, <3>1, Zenon
  <2> QED
    BY <1>3, <1>5, <2>3, <2>4, ContainerStep DEF BuildContainer
<1>9. CASE FindNetwork(t) \/ CreateNetwork(t)
  <2>1. \/ Fail(t)
        \/ \E op \in {"CreateNetwork", "ConnectNetwork"}, was \in {0, 1} : Continue(t, op, was)
    BY <1>9 DEF FindNetwork, CreateNetwork
  <2>2. /\ {"CreateNetwork", "ConnectNetwork"} \subseteq Ops \ {"UpdateSeedling"}
        /\ {0, 1} \subseteq 0..MaxVersion + 2
    BY Bounds DEF Ops
  <2>3. task' \in [Tasks -> TaskType]
    BY <1>1, <2>1, <2>2, ContinueTyped, FailTyped
  <2>4. network' \in [Seedlings -> BOOLEAN]
    BY <1>3, <1>9 DEF FindNetwork, CreateNetwork
  <2>5. UNCHANGED <<record, image, container, account, budget>>
    BY <1>9 DEF FindNetwork, CreateNetwork
  <2> QED
    BY <1>3, <2>3, <2>4, <2>5, ContainerStep
<1>10. CASE ConnectNetwork(t)
  <2> DEFINE cmd == [Current(t) EXCEPT !.op = "BuildContainer"]
  <2>1. cmd \in Commands
    <3>1. /\ Current(t) \in [op : Ops, on : Containers, was : 0..MaxVersion + 2]
          /\ "BuildContainer" \in Ops
      BY <1>2 DEF Commands, Ops
    <3>2. /\ cmd \in [op : Ops, on : Containers, was : 0..MaxVersion + 2]
          /\ cmd.op = "BuildContainer"
      BY <3>1, Zenon
    <3> QED
      BY <3>2 DEF Commands
  <2>2. (container' = Connected(c) /\ Complete(t, cmd)) \/ (Fail(t) /\ UNCHANGED container)
    BY <1>10, Zenon DEF ConnectNetwork
  <2> HIDE DEF cmd, c
  <2>3. task' \in [Tasks -> TaskType]
    BY <1>1, <2>1, <2>2, CompleteTyped, FailTyped
  <2>4. container' \in [Containers -> ContainerType]
    BY <1>2, <1>3, <2>2, ConnectedTyped
  <2> QED
    BY <1>3, <1>10, <2>3, <2>4, ContainerStep DEF ConnectNetwork
<1>6. CASE StartContainer(t) \/ StopContainer(t) \/ DropContainer(t)
  <2>1. task' \in [Tasks -> TaskType]
    BY <1>1, <1>6, OutcomeTyped DEF StartContainer, StopContainer, DropContainer
  <2>2. container' \in [Containers -> ContainerType]
    BY <1>2, <1>6, SwitchTyped DEF StartContainer, StopContainer, DropContainer
  <2>3. UNCHANGED <<record, image, network, account, budget>>
    BY <1>6 DEF StartContainer, StopContainer, DropContainer
  <2> QED
    BY <1>3, <2>1, <2>2, <2>3, ContainerStep
<1>7. CASE DeleteNetwork(t)
  <2>1. task' \in [Tasks -> TaskType]
    BY <1>1, <1>7, OutcomeTyped DEF DeleteNetwork
  <2>2. network' \in [Seedlings -> BOOLEAN]
    BY <1>3, <1>7 DEF DeleteNetwork
  <2> QED
    BY <1>3, <1>7, <2>1, <2>2, ContainerStep DEF DeleteNetwork
<1> QED
  BY <1>4, <1>5, <1>6, <1>7, <1>9, <1>10 DEF DockerStep

\* Failures of commands and of rollbacks keep the type invariant.
LEMMA FailureTyped ==
    ASSUME TypeOK, NEW t \in Tasks, Failure(t)
    PROVE  TypeOK'
<1> DEFINE c == Current(t).on
<1>1. container \in [Containers -> ContainerType] /\ network \in [Seedlings -> BOOLEAN]
  BY DEF TypeOK, ContainerType
<1>2. CASE SystemNetworkFails(t)
  <2>1. task' \in [Tasks -> TaskType]
    BY <1>2, FailTyped DEF SystemNetworkFails
  <2>2. c \in Containers
    BY <1>2, CurrentTyped DEF SystemNetworkFails, Runs
  <2>3. container' \in [Containers -> ContainerType]
    BY <1>2, <2>2, ConnectedTyped DEF SystemNetworkFails
  <2> QED
    BY <1>1, <1>2, <2>1, <2>3, ContainerStep DEF SystemNetworkFails
<1>3. CASE AgentUnhealthy(t)
  <2>1. task' \in [Tasks -> TaskType]
    BY <1>3, FailTyped DEF AgentUnhealthy
  <2>2. c \in Containers
    BY <1>3, CurrentTyped DEF AgentUnhealthy, Runs
  <2>3. container' \in [Containers -> ContainerType]
    BY <1>3, <2>2, SwitchTyped DEF AgentUnhealthy
  <2> QED
    BY <1>1, <1>3, <2>1, <2>3, ContainerStep DEF AgentUnhealthy
<1>4. CASE RollbackFails(t)
  BY <1>1, <1>4, UndoingTyped, JournalTyped, ContainerStep DEF RollbackFails
<1>5. CASE CommandFails(t)
  BY <1>1, <1>5, FailTyped, ContainerStep DEF CommandFails
<1> QED
  BY <1>2, <1>3, <1>4, <1>5 DEF Failure

\* The log of failures holds no more than MaxFailCount.
LEMMA RecordFailureTyped ==
    ASSUME TypeOK, NEW s \in Seedlings, RecordFailure(s)
    PROVE  record' \in [Seedlings -> RecordType]
<1>1. record \in [Seedlings -> RecordType] /\ FALSE \in BOOLEAN
  BY RecordTyped
<1>2. CASE ~Defined(s) \/ ReachedMaxFailCount(s)
  BY <1>1, <1>2 DEF RecordFailure
<1>3. CASE Defined(s) /\ ~ReachedMaxFailCount(s)
  <2>1. record' = [record EXCEPT ![s] = [record[s] EXCEPT !.fails = record[s].fails + 1]]
    BY <1>1, <1>3 DEF RecordFailure
  <2>2. [record[s] EXCEPT !.fails = record[s].fails + 1] \in RecordType
    BY <1>3, RecordTyped
  <2> QED
    BY <2>1, <2>2, RecordSet
<1> QED
  BY <1>2, <1>3

\* Health checks keep the type invariant.
LEMMA HealthStepTyped ==
    ASSUME TypeOK, NEW t \in Tasks, HealthStep(t)
    PROVE  TypeOK'
<1> DEFINE c == Current(t).on
           s == c[1]
<1>1. task[t].todo # <<>>
  BY DEF HealthStep, StartSeedling, CheckHealth, RecheckHealth, GiveUp, StopFailed, Runs
<1>2. c \in Containers /\ s \in Seedlings /\ Current(t) \in Commands
  BY <1>1, CurrentTyped
<1>3. /\ container \in [Containers -> ContainerType] /\ network \in [Seedlings -> BOOLEAN]
      /\ record \in [Seedlings -> RecordType]
  BY DEF TypeOK, ContainerType, RecordType
<1>4. Current(t).was \in 0..MaxVersion + 2 /\ 2 \in 0..MaxVersion + 2
  BY <1>2, Bounds DEF Commands
<1>5. {"CheckHealth", "GiveUp", "StopFailed"} \subseteq Ops \ {"UpdateSeedling"}
  BY DEF Ops
<1>6. CASE StartSeedling(t)
  <2>1. Continue(t, "CheckHealth", Current(t).was) \/ Fail(t)
    BY <1>6 DEF StartSeedling
  <2>2. task' \in [Tasks -> TaskType]
    BY <1>1, <1>4, <1>5, <2>1, ContinueTyped, FailTyped
  <2>3. container' \in [Containers -> ContainerType]
    BY <1>2, <1>6, SwitchTyped DEF StartSeedling
  <2> QED
    BY <1>3, <1>6, <2>2, <2>3, ContainerStep DEF StartSeedling
<1>7. CASE CheckHealth(t)
  <2> DEFINE cmd == [Current(t) EXCEPT !.op = "StartSeedling"]
  <2>1. cmd \in Commands
    <3>1. Current(t) \in [op : Ops, on : Containers, was : 0..MaxVersion + 2]
      BY <1>2 DEF Commands
    <3>2. "StartSeedling" \in Ops
      BY DEF Ops
    <3>3. cmd \in [op : Ops, on : Containers, was : 0..MaxVersion + 2] /\ cmd.op = "StartSeedling"
      BY <3>1, <3>2, Zenon
    <3> QED
      BY <3>3 DEF Commands
  <2>2. \/ UNCHANGED record /\ Complete(t, cmd)
        \/ /\ RecordFailure(s)
           /\ Continue(t, "GiveUp", Current(t).was) \/ Fail(t)
    <3>1. PICK passes \in Verdicts(s) :
              IF Running(Main(s)) /\ passes
              THEN UNCHANGED record /\ Complete(t, cmd)
              ELSE /\ RecordFailure(s)
                   /\ IF Defined(s) /\ ReachedMaxFailCount(s)
                      THEN Continue(t, "GiveUp", Current(t).was)
                      ELSE Fail(t)
      BY <1>7, Zenon DEF CheckHealth
    <3> QED
      BY <3>1, Zenon
  <2> HIDE DEF cmd
  <2>3. task' \in [Tasks -> TaskType]
    BY <1>1, <1>4, <1>5, <2>1, <2>2, CompleteTyped, ContinueTyped, FailTyped
  <2>4. record' \in [Seedlings -> RecordType]
    BY <1>2, <1>3, <2>2, RecordFailureTyped
  <2> QED
    BY <1>7, <2>3, <2>4, RecordStep DEF CheckHealth
<1>8. CASE RecheckHealth(t)
  <2>1. \/ Fail(t) /\ UNCHANGED record
        \/ record' = [record EXCEPT ![s].fails = 0] /\ Outcome(t, TRUE)
        \/ RecordFailure(s) /\ (Continue(t, "GiveUp", 2) \/ Outcome(t, TRUE))
    BY <1>8 DEF RecheckHealth
  <2>2. task' \in [Tasks -> TaskType]
    BY <1>1, <1>4, <1>5, <2>1, OutcomeTyped, ContinueTyped, FailTyped
  <2>3. CASE record' = [record EXCEPT ![s].fails = 0]
    <3>1. record' = [record EXCEPT ![s] = [record[s] EXCEPT !.fails = 0]]
      BY <1>3, <2>3
    <3> QED
      BY <1>2, <1>8, <2>2, <3>1, RecordTyped, RecordSet, RecordStep DEF RecheckHealth
  <2>4. CASE RecordFailure(s) \/ UNCHANGED record
    <3>1. record' \in [Seedlings -> RecordType]
      BY <1>2, <1>3, <2>4, RecordFailureTyped
    <3> QED
      BY <1>8, <2>2, <3>1, RecordStep DEF RecheckHealth
  <2> QED
    BY <2>1, <2>3, <2>4
<1>9. CASE StopFailed(t)
  <2>1. task' \in [Tasks -> TaskType]
    BY <1>1, <1>9, OutcomeTyped DEF StopFailed
  <2>2. container' \in [Containers -> ContainerType]
    BY <1>2, <1>9, SwitchTyped DEF StopFailed
  <2> QED
    BY <1>3, <1>9, <2>1, <2>2, ContainerStep DEF StopFailed
<1>10. CASE GiveUp(t)
  <2>1. Continue(t, "StopFailed", Current(t).was) \/ Fail(t)
    BY <1>10 DEF GiveUp
  <2>2. task' \in [Tasks -> TaskType]
    BY <1>1, <1>4, <1>5, <2>1, ContinueTyped, FailTyped
  <2>3. UNCHANGED record \/ record' = [record EXCEPT ![s] = [record[s] EXCEPT !.desired = FALSE]]
    BY <1>3, <1>10 DEF GiveUp
  <2>4. record' \in [Seedlings -> RecordType]
    BY <1>2, <1>3, <2>3, RecordTyped, RecordSet
  <2> QED
    BY <1>10, <2>2, <2>4, RecordStep DEF GiveUp
<1> QED
  BY <1>6, <1>7, <1>8, <1>9, <1>10 DEF HealthStep

\* A rollback puts a record back to a version that it had, or to none.
LEMMA UndoneTyped ==
    ASSUME TypeOK, NEW cmd \in Commands
    PROVE  /\ UndoneRecord(cmd) \in [Seedlings -> RecordType]
           /\ UndoneContainer(cmd) \in [Containers -> ContainerType]
           /\ UndoneNetwork(cmd) \in [Seedlings -> BOOLEAN]
<1> DEFINE c == cmd.on
           s == c[1]
<1>1. c \in Containers /\ s \in Seedlings
  BY ContainersOf DEF Commands
<1>2. UndoneRecord(cmd) \in [Seedlings -> RecordType]
  <2>1. record \in [Seedlings -> RecordType] /\ NoRecord \in RecordType
    BY <1>1, RecordTyped
  <2>2. [record EXCEPT ![s] = NoRecord] \in [Seedlings -> RecordType]
    BY <1>1, <2>1
  <2>3. ASSUME cmd.op = "UpdateSeedling"
        PROVE  [record EXCEPT ![s].version = cmd.was] \in [Seedlings -> RecordType]
    <3>1. cmd.was \in 0..MaxVersion
      BY <2>3 DEF Commands
    <3>2. [record[s] EXCEPT !.version = cmd.was] \in RecordType
      BY <1>1, <3>1, RecordTyped
    <3> QED
      BY <1>1, <2>1, <3>2, Zenon
  <2> QED
    BY <2>1, <2>2, <2>3 DEF UndoneRecord
<1>3. UndoneContainer(cmd) \in [Containers -> ContainerType]
  BY <1>1, ContainerTyped DEF UndoneContainer
<1>4. UndoneNetwork(cmd) \in [Seedlings -> BOOLEAN]
  BY <1>1, ContainerTyped DEF UndoneNetwork
<1> QED
  BY <1>2, <1>3, <1>4

\* Every step of a task keeps the type invariant.
LEMMA StepTyped ==
    ASSUME TypeOK, NEW t \in Tasks, Step(t)
    PROVE  TypeOK'
<1>1. task \in [Tasks -> TaskType] /\ task[t] \in TaskType
  BY DEF TypeOK
<1>2. CASE Plan(t)
  <2>1. CASE Conclude(t, FALSE)
    BY <1>2, <2>1, ConcludeTyped DEF Plan, TypeOK
  <2>2. CASE ~Refused(t)
    <3> DEFINE s == task[t].seedling
               j == [task[t] EXCEPT !.phase = "run", !.todo = PlanOf(t),
                                    !.version = VersionOf(t)]
    <3>1. s \in Seedlings /\ task[t].version \in 0..MaxVersion
      BY <1>1 DEF TaskType
    <3>2. record[s].version \in 0..MaxVersion
      BY <3>1 DEF TypeOK
    <3>3. VersionOf(t) \in 0..MaxVersion
      BY <3>1, <3>2 DEF VersionOf
    <3>4. PlanOf(t) \in Seq(Commands) /\ "run" \in Phases
      BY <1>1, PlanTyped DEF Phases
    <3>5. j \in TaskType
      BY <1>1, <3>2, <3>3, <3>4, Zenon DEF TaskType
    <3>6. task' = [task EXCEPT ![t].phase = "run", ![t].todo = PlanOf(t),
                               ![t].version = VersionOf(t)]
      BY <1>2, <2>2 DEF Plan
    <3>7. task' = [task EXCEPT ![t] = j]
      BY <1>1, <3>6, Zenon
    <3>8. task' \in [Tasks -> TaskType]
      BY <1>1, <3>5, <3>7, TaskSet
    <3> QED
      BY <1>2, <3>8 DEF Plan, TypeOK
  <2> QED
    BY <1>2, <2>1, <2>2 DEF Plan
<1>3. CASE Finish(t)
  BY <1>3, ConcludeTyped DEF Finish, TypeOK
<1>4. CASE Rollback(t)
  <2>1. Latest(t) \in Commands /\ Earlier(t) \o LeftToUndo(Latest(t)) \in Seq(Commands)
    BY <1>4, UndoingTyped, Steps DEF Rollback
  <2>3. task' \in [Tasks -> TaskType]
    BY <1>4, <2>1, JournalTyped DEF Rollback
  <2>2. /\ record' \in [Seedlings -> RecordType]
        /\ container' \in [Containers -> ContainerType]
        /\ network' \in [Seedlings -> BOOLEAN]
    BY <1>4, <2>1, UndoneTyped DEF Rollback
  <2> QED
    BY <1>4, <2>2, <2>3 DEF Rollback, TypeOK, RecordType, ContainerType
<1> QED
  BY <1>2, <1>3, <1>4, SeedbankStepTyped, DockerStepTyped, HealthStepTyped DEF Step

-----------------------------------------------------------------------------
(* Requests, sweeps and crashes *)

\* A request begins a blueprint.
LEMMA SendTyped ==
    ASSUME TypeOK, NEW o \in Operators, NEW b \in Blueprints, NEW s \in Seedlings,
           NEW v \in 0..MaxVersion, Send(o, b, s, v)
    PROVE  /\ task' \in [Tasks -> TaskType]
           /\ budget' \in [requests : 0..MaxRequests, faults : 0..MaxFaults, newest : 1..MaxVersion]
<1>1. task \in [Tasks -> TaskType] /\ o \in Tasks
  BY Bounds DEF TypeOK
<1>2. Job(b, s, v, {}) \in TaskType
  BY JobTyped
<1>3. task' \in [Tasks -> TaskType]
  BY <1>1, <1>2, TaskSet DEF Send
<1> QED
  BY <1>3, Bounds DEF Send, TypeOK

\* Requests keep the type invariant.
LEMMA RequestTyped ==
    ASSUME TypeOK, Request
    PROVE  TypeOK'
<1>1. UNCHANGED <<record, container, network, account>>
  BY DEF Request
<1>2. PICK o \in Operators, s \in Seedlings :
          \/ RequestNew(o, s) \/ PushImage(o, s) \/ RequestReconcile(o, s)
          \/ RequestStart(o, s) \/ RequestStop(o, s) \/ RequestDrop(o, s)
  BY DEF Request
<1>3. {0, 1} \subseteq 0..MaxVersion
  BY Bounds
<1>4. ASSUME NEW b \in Blueprints, NEW v \in {0, 1}, Send(o, b, s, v),
             image' \in [Seedlings -> {"Unknown", "AvailableFromResin", "Local"}]
      PROVE  TypeOK'
  BY <1>1, <1>3, <1>4, SendTyped DEF TypeOK
<1>5. CASE RequestReconcile(o, s)
  <2>1. PICK v \in budget.newest..MaxVersion :
            /\ task' = [task EXCEPT ![o] = Job("reconcile", s, v, {})]
            /\ budget' = [budget EXCEPT !.requests = @ - 1, !.newest = v]
    BY <1>5 DEF RequestReconcile
  <2>2. /\ v \in 1..MaxVersion /\ v \in 0..MaxVersion
        /\ budget.requests - 1 \in 0..MaxRequests
    BY <1>5, Bounds DEF TypeOK, RequestReconcile
  <2>3. task' \in [Tasks -> TaskType]
    BY <2>1, <2>2, JobTyped, TaskSet, Bounds DEF TypeOK, Blueprints
  <2>4. budget' \in [requests : 0..MaxRequests, faults : 0..MaxFaults, newest : 1..MaxVersion]
    BY <2>1, <2>2, Zenon DEF TypeOK
  <2> QED
    BY <1>1, <1>5, <2>3, <2>4 DEF RequestReconcile, TypeOK
<1>7. CASE PushImage(o, s)
  <2>1. /\ task' = [task EXCEPT ![o] = [Job("reconcile", s, 0, {}) EXCEPT !.spawned = TRUE]]
        /\ budget.requests > 0 /\ budget' = [budget EXCEPT !.requests = @ - 1]
    BY <1>7 DEF PushImage
  <2>2. [Job("reconcile", s, 0, {}) EXCEPT !.spawned = TRUE] \in TaskType
    BY <1>3, JobTyped DEF Blueprints
  <2>3. task' \in [Tasks -> TaskType]
    BY <2>1, <2>2, TaskSet, Bounds DEF TypeOK
  <2>4. budget' \in [requests : 0..MaxRequests, faults : 0..MaxFaults, newest : 1..MaxVersion]
    BY <2>1, Bounds DEF TypeOK
  <2>5. image' \in [Seedlings -> {"Unknown", "AvailableFromResin", "Local"}]
    BY <1>7 DEF PushImage, TypeOK
  <2> QED
    BY <1>1, <2>3, <2>4, <2>5 DEF TypeOK
<1>6. CASE ~RequestReconcile(o, s) /\ ~PushImage(o, s)
  <2>1. PICK b \in Blueprints, v \in {0, 1} : Send(o, b, s, v)
    BY <1>2, <1>6 DEF RequestNew, RequestStart, RequestStop, RequestDrop, Blueprints
  <2>2. image' \in [Seedlings -> {"Unknown", "AvailableFromResin", "Local"}]
    BY <1>2, <1>6 DEF RequestNew, RequestStart, RequestStop, RequestDrop, TypeOK
  <2> QED
    BY <1>4, <2>1, <2>2
<1> QED
  BY <1>5, <1>6, <1>7

\* A sweep keeps the type invariant.
LEMMA SweepTyped ==
    ASSUME TypeOK, Sweep
    PROVE  TypeOK'
<1>1. SweepPlan \in SUBSET Entries
  BY DEF SweepPlan, Each, Entry, Entries, Blueprints
<1>2. task' \in [Tasks -> TaskType]
  BY <1>1, BeginTyped, Bounds DEF Sweep, TypeOK
<1> QED
  BY <1>2 DEF Sweep, TypeOK

\* A crash keeps the type invariant.
LEMMA CrashTyped ==
    ASSUME TypeOK, Crash
    PROVE  TypeOK'
<1>1. \A t \in Tasks : Idle(t, "none") \in TaskType
  BY IdleTyped DEF TypeOK
<1>2. task' \in [Tasks -> TaskType]
  BY <1>1 DEF Crash
<1>3. budget' \in [requests : 0..MaxRequests, faults : 0..MaxFaults, newest : 1..MaxVersion]
  BY Bounds DEF Crash, Fault, TypeOK
<1> QED
  BY <1>2, <1>3 DEF Crash, TypeOK

\* A client that hangs up keeps the type invariant.
LEMMA HangUpTyped ==
    ASSUME TypeOK, NEW o \in Operators, HangUp(o)
    PROVE  TypeOK'
<1>1. o \in Tasks /\ task \in [Tasks -> TaskType]
  BY Bounds DEF TypeOK
<1>2. Idle(o, "none") \in TaskType
  BY <1>1, IdleTyped
<1>3. task' \in [Tasks -> TaskType]
  BY <1>1, <1>2, TaskSet DEF HangUp
<1>4. budget' \in [requests : 0..MaxRequests, faults : 0..MaxFaults, newest : 1..MaxVersion]
  BY Bounds DEF HangUp, Fault, TypeOK
<1> QED
  BY <1>3, <1>4 DEF HangUp, TypeOK

\* The exit of a container keeps the type invariant.
LEMMA ExitTyped ==
    ASSUME TypeOK, ContainerExits
    PROVE  TypeOK'
<1>1. PICK s \in Flaky : container' = [container EXCEPT ![Main(s)].status = "exited"]
  BY DEF ContainerExits
<1>2. Main(s) \in Containers
  BY SeedlingAssumption, ContainersOf
<1>3. container' \in [Containers -> ContainerType]
  BY <1>1, <1>2, SwitchTyped
<1> QED
  BY <1>3 DEF ContainerExits, TypeOK, ContainerType

\* The type invariant holds in the beginning.
LEMMA InitTyped == Init => TypeOK
<1> SUFFICES ASSUME Init PROVE TypeOK
  OBVIOUS
<1>1. NoRecord \in RecordType /\ Absent \in ContainerType
  BY Bounds DEF NoRecord, RecordType, Absent, ContainerType
<1>2. [Job("stop", Listing[1], 0, {}) EXCEPT !.phase = "idle"] \in TaskType
  <2>1. 0 \in 0..MaxVersion /\ "stop" \in Blueprints /\ {} \in SUBSET Entries
    BY Bounds DEF Blueprints
  <2>2. Job("stop", Listing[1], 0, {}) \in TaskType
    BY <2>1, JobTyped, Bounds
  <2>3. "idle" \in Phases
    BY DEF Phases
  <2> QED
    BY <2>2, <2>3, Zenon DEF TaskType
<1>3. task \in [Tasks -> TaskType]
  BY <1>2 DEF Init
<1>4. /\ record \in [Seedlings -> RecordType] /\ container \in [Containers -> ContainerType]
  BY <1>1 DEF Init
<1>5. budget \in [requests : 0..MaxRequests, faults : 0..MaxFaults, newest : 1..MaxVersion]
  BY Bounds DEF Init
<1>6. /\ image \in [Seedlings -> {"Unknown", "AvailableFromResin", "Local"}]
      /\ network \in [Seedlings -> BOOLEAN] /\ account \in [Containers -> BOOLEAN]
  BY DEF Init
<1> QED
  BY <1>3, <1>4, <1>5, <1>6 DEF TypeOK, RecordType, ContainerType

\* The type invariant is inductive.
LEMMA NextTyped == TypeOK /\ [Next]_vars => TypeOK'
<1> SUFFICES ASSUME TypeOK, [Next]_vars PROVE TypeOK'
  OBVIOUS
<1>1. CASE UNCHANGED vars
  BY <1>1 DEF vars, TypeOK
<1>2. CASE Next
  BY <1>2, StepTyped, FailureTyped, RequestTyped, SweepTyped, CrashTyped, HangUpTyped, ExitTyped
     DEF Next
<1> QED
  BY <1>1, <1>2

\* The variables keep their types however many operators there are and whatever fails:
\* a task only ever works on a seedling and a version that exist, the log of health
\* check failures never holds more than it may, and an update's rollback has a version
\* of the seedling to return to.
THEOREM TypeCorrect == Spec => []TypeOK
  BY InitTyped, NextTyped, PTL DEF Spec

-----------------------------------------------------------------------------
(* The versions in the seedbank *)

\* The seedbank's version of a seedling never goes back, unless it is deleted.
VersionNeverGoesBack ==
    [][\A s \in Seedlings :
          record'[s].version >= record[s].version \/ record'[s].version = 0]_vars

NotBack == \A s \in Seedlings : record'[s].version >= record[s].version \/ record'[s].version = 0

\* What is not a new version of a record leaves its version alone.
LEMMA SameVersion ==
    ASSUME TypeOK,
           \/ UNCHANGED record
           \/ \E s \in Seedlings, b \in BOOLEAN : record' = [record EXCEPT ![s].desired = b]
           \/ \E s \in Seedlings : record' = [record EXCEPT ![s].fails = 0]
           \/ \E s \in Seedlings : record' = [record EXCEPT ![s].fails = @ + 1]
           \/ \E s \in Seedlings : record' = [record EXCEPT ![s] = NoRecord]
    PROVE  NotBack
<1>1. record \in [Seedlings -> RecordType]
  BY DEF TypeOK, RecordType
<1>2. \A s \in Seedlings : record'[s].version = record[s].version \/ record'[s].version = 0
  BY <1>1 DEF RecordType, NoRecord
<1>3. \A s \in Seedlings : record[s].version \in Nat
  BY <1>1, Bounds DEF RecordType
<1> QED
  BY <1>2, <1>3 DEF NotBack

\* The seedbank takes a version only if it is newer.
LEMMA NewerVersion ==
    ASSUME TypeOK, NEW s \in Seedlings, NEW v \in 0..MaxVersion,
           \/ record' = [record EXCEPT ![s] = [NoRecord EXCEPT !.version = v]] /\ ~Defined(s)
           \/ record' = [record EXCEPT ![s].version = v] /\ Updatable(s, v)
    PROVE  NotBack
<1>1. record \in [Seedlings -> RecordType]
  BY DEF TypeOK, RecordType
<1>2. v \in Nat /\ \A r \in Seedlings : record[r].version \in Nat
  BY <1>1, Bounds DEF RecordType
<1>3. v >= record[s].version
  BY <1>2 DEF Updatable, Defined
<1>4. \A r \in Seedlings : record'[r].version = IF r = s THEN v ELSE record[r].version
  BY <1>1 DEF RecordType, NoRecord
<1> QED
  BY <1>2, <1>3, <1>4 DEF NotBack

\* A failed health check leaves the version alone.
LEMMA FailureKeepsVersion ==
    ASSUME TypeOK, NEW s \in Seedlings, RecordFailure(s)
    PROVE  NotBack
<1>1. \/ UNCHANGED record
      \/ record' = [record EXCEPT ![s].fails = @ + 1]
  BY DEF RecordFailure
<1> QED
  BY <1>1, SameVersion

\* No step of a task takes a version back.
LEMMA StepKeepsVersion ==
    ASSUME TypeOK, NEW t \in Tasks, Step(t)
    PROVE  NotBack
<1> DEFINE s == Current(t).on[1]
<1>1. CASE Plan(t) \/ DockerStep(t) \/ Finish(t) \/ StartSeedling(t) \/ StopFailed(t)
           \/ CreateServiceAccount(t)
  <2>1. UNCHANGED record
    BY <1>1 DEF Plan, DockerStep, Finish, StartSeedling, StopFailed, CreateServiceAccount,
         PullImage, DeleteResinRepository, EnsureAgentMount, BuildContainer,
         FindNetwork, CreateNetwork, ConnectNetwork,
         StartContainer, StopContainer, DropContainer, DeleteNetwork
  <2> QED
    BY <2>1, SameVersion
<1>2. CASE CreateSeedling(t)
  <2>1. s \in Seedlings /\ task[t].version \in 0..MaxVersion
    BY <1>2, CurrentTyped DEF CreateSeedling, Runs
  <2>2. \/ /\ record' = [record EXCEPT ![s] = [NoRecord EXCEPT !.version = task[t].version]]
           /\ ~Defined(s)
        \/ UNCHANGED record
    BY <1>2 DEF CreateSeedling
  <2>3. CASE UNCHANGED record
    BY <2>3, SameVersion
  <2>4. CASE ~UNCHANGED record
    <3> HIDE DEF s
    <3> QED
      BY <2>1, <2>2, <2>4, NewerVersion, Zenon
  <2> QED
    BY <2>3, <2>4
<1>3. CASE UpdateSeedling(t)
  <2>1. s \in Seedlings /\ task[t].version \in 0..MaxVersion
    BY <1>3, CurrentTyped DEF UpdateSeedling, Runs
  <2>2. \/ /\ record' = [record EXCEPT ![s].version = task[t].version]
           /\ Updatable(s, task[t].version)
        \/ UNCHANGED record
    BY <1>3 DEF UpdateSeedling
  <2> QED
    BY <2>1, <2>2, NewerVersion, SameVersion
<1>4. CASE SetDesiredRunStatus(t)
  <2>1. s \in Seedlings
    BY <1>4, CurrentTyped DEF SetDesiredRunStatus, Runs
  <2>2. \/ record' = [record EXCEPT ![s].desired = (Current(t).op = "SetDesiredRunning")]
        \/ UNCHANGED record
    BY <1>4, Zenon DEF SetDesiredRunStatus
  <2>3. (Current(t).op = "SetDesiredRunning") \in BOOLEAN
    OBVIOUS
  <2> QED
    BY <2>1, <2>2, <2>3, SameVersion, Zenon
<1>5. CASE ClearHealthCheckLogs(t) \/ DeleteSeedbankEntry(t)
  <2>1. s \in Seedlings
    BY <1>5, CurrentTyped DEF ClearHealthCheckLogs, DeleteSeedbankEntry, Runs
  <2>2. \/ record' = [record EXCEPT ![s].fails = 0]
        \/ record' = [record EXCEPT ![s] = NoRecord]
        \/ UNCHANGED record
    BY <1>5 DEF ClearHealthCheckLogs, DeleteSeedbankEntry
  <2> QED
    BY <2>1, <2>2, SameVersion
<1>6. CASE CheckHealth(t) \/ RecheckHealth(t)
  <2>1. s \in Seedlings
    BY <1>6, CurrentTyped DEF CheckHealth, RecheckHealth, Runs
  <2>2. \/ RecordFailure(s)
        \/ record' = [record EXCEPT ![s].fails = 0]
        \/ UNCHANGED record
    BY <1>6 DEF CheckHealth, RecheckHealth
  <2> QED
    BY <2>1, <2>2, SameVersion, FailureKeepsVersion
<1>8. CASE GiveUp(t)
  <2>1. s \in Seedlings /\ FALSE \in BOOLEAN
    BY <1>8, CurrentTyped DEF GiveUp, Runs
  <2>2. record' = [record EXCEPT ![s].desired = FALSE] \/ UNCHANGED record
    BY <1>8 DEF GiveUp
  <2> QED
    BY <2>1, <2>2, SameVersion
<1>7. CASE Rollback(t)
  <2> DEFINE cmd == Latest(t)
             r == cmd.on[1]
  <2>1. cmd \in Commands
    BY <1>7, UndoingTyped DEF Rollback
  <2>2. r \in Seedlings /\ (cmd.op = "UpdateSeedling" => cmd.was \in 0..MaxVersion)
    BY <2>1, ContainersOf DEF Commands
  <2>3. record' = UndoneRecord(cmd)
    BY <1>7 DEF Rollback
  <2> HIDE DEF cmd
  <2>4. \/ record' = [record EXCEPT ![r] = NoRecord]
        \/ /\ record' = [record EXCEPT ![r].version = cmd.was]
           /\ Updatable(r, cmd.was) /\ cmd.op = "UpdateSeedling"
        \/ UNCHANGED record
    BY <2>3 DEF UndoneRecord
  <2> QED
    BY <2>2, <2>4, NewerVersion, SameVersion
<1> QED
  BY <1>1, <1>2, <1>3, <1>4, <1>5, <1>6, <1>7, <1>8 DEF Step, SeedbankStep, HealthStep

\* The seedbank's version of a seedling never goes back, unless it is deleted: not by an
\* update that was planned before a newer one, not by a crash, with any number of
\* operators; and not by the rollback of an update either, which asks for the previous
\* version and is refused.  (The unit test of that rollback expects the previous version;
\* its seedbank is a mock.)
THEOREM VersionCorrect == Spec => VersionNeverGoesBack
<1>1. TypeOK /\ [Next]_vars => [NotBack]_vars
  <2> SUFFICES ASSUME TypeOK, Next PROVE NotBack
    OBVIOUS
  <2>1. CASE \E t \in Tasks : Step(t)
    BY <2>1, StepKeepsVersion
  <2>2. CASE \/ \E t \in Tasks : Failure(t)
             \/ \E o \in Operators : HangUp(o)
             \/ Request \/ Sweep \/ Crash \/ ContainerExits
    <3>1. UNCHANGED record
      BY <2>2 DEF Failure, SystemNetworkFails, AgentUnhealthy, RollbackFails,
           CommandFails, HangUp, Request, Sweep, Crash, ContainerExits
    <3> QED
      BY <3>1, SameVersion
  <2> QED
    BY <2>1, <2>2 DEF Next
<1> QED
  BY <1>1, TypeCorrect, PTL DEF Spec, VersionNeverGoesBack, NotBack

-----------------------------------------------------------------------------
(* What a step does to the containers and the networks *)

\* A container that is there is left as it is, deleted, stopped, started, or joined to its
\* network; one that is started has its network.
KeptOrSwitched(c) ==
    \/ container'[c] = container[c]
    \/ container'[c] = Absent
    \/ Exists(c) /\ container'[c] = [container[c] EXCEPT !.status = "exited"]
    \/ /\ CanStart(c) /\ UNCHANGED network
       /\ container'[c] = [container[c] EXCEPT !.status = "running"]
    \/ /\ CanConnect(c) /\ UNCHANGED network
       /\ container'[c] = [container[c] EXCEPT !.joined = TRUE]

\* A container that is built has the version of the task that builds it, and no network yet.
Built(t, c) ==
    /\ Runs(t, "BuildContainer") /\ c = Current(t).on
    /\ container'[c] = [status |-> "created", version |-> task[t].version, joined |-> FALSE]

ContainersMove(t) == \A c \in Containers : KeptOrSwitched(c) \/ Built(t, c)

\* A network is deleted only when nobody uses it, and comes after a container.
NetworksMove(t) ==
    \A s \in Seedlings :
        /\ network[s] => network'[s] \/ CanDeleteNetwork(s)
        /\ network'[s] => \/ network[s]
                          \/ Runs(t, "CreateNetwork") /\ Current(t).on[1] = s

\* A container that is switched on or off, joined or deleted, is the only one that changes.
LEMMA OneSwitched ==
    ASSUME TypeOK, NEW c \in Containers,
           \/ UNCHANGED container
           \/ container' = [container EXCEPT ![c] = Absent]
           \/ container' = [container EXCEPT ![c].status = "exited"] /\ Exists(c)
           \/ /\ container' = [container EXCEPT ![c].status = "running"]
              /\ CanStart(c) /\ UNCHANGED network
           \/ container' = Connected(c) /\ CanConnect(c) /\ UNCHANGED network
    PROVE  \A d \in Containers : KeptOrSwitched(d)
<1>1. container \in [Containers -> ContainerType]
  BY DEF TypeOK, ContainerType
<1>2. CASE UNCHANGED container
  BY <1>2 DEF KeptOrSwitched
<1>3. CASE container' = [container EXCEPT ![c] = Absent]
  BY <1>1, <1>3, Zenon DEF KeptOrSwitched
<1>4. CASE container' = [container EXCEPT ![c].status = "exited"] /\ Exists(c)
  BY <1>1, <1>4, Zenon DEF KeptOrSwitched
<1>5. CASE /\ container' = [container EXCEPT ![c].status = "running"]
           /\ CanStart(c) /\ UNCHANGED network
  BY <1>1, <1>5, Zenon DEF KeptOrSwitched
<1>6. CASE container' = Connected(c) /\ CanConnect(c) /\ UNCHANGED network
  BY <1>1, <1>6, Zenon DEF KeptOrSwitched, Connected
<1> QED
  BY <1>2, <1>3, <1>4, <1>5, <1>6

\* What is switched or kept keeps its version and its network.
LEMMA SwitchedKeeps ==
    ASSUME TypeOK, NEW c \in Containers, KeptOrSwitched(c)
    PROVE  \/ container'[c].status = "absent"
           \/ /\ container'[c].joined => container[c].joined \/ (CanConnect(c) /\ UNCHANGED network)
              /\ container'[c].version = container[c].version
              /\ Exists(c)
              /\ Running(c)' => Running(c) \/ (CanStart(c) /\ UNCHANGED network)
<1>1. container[c] \in ContainerType
  BY DEF TypeOK, ContainerType
<1>2. CASE container'[c] = container[c]
  BY <1>2 DEF Exists, Running
<1>3. CASE container'[c] = Absent
  BY <1>3 DEF Absent
<1>4. CASE Exists(c) /\ container'[c] = [container[c] EXCEPT !.status = "exited"]
  BY <1>1, <1>4 DEF ContainerType, Running
<1>5. CASE /\ CanStart(c) /\ UNCHANGED network
           /\ container'[c] = [container[c] EXCEPT !.status = "running"]
  BY <1>1, <1>5 DEF ContainerType, CanStart
<1>6. CASE /\ CanConnect(c) /\ UNCHANGED network
           /\ container'[c] = [container[c] EXCEPT !.joined = TRUE]
  BY <1>1, <1>6 DEF ContainerType, CanConnect, Running
<1> QED
  BY <1>2, <1>3, <1>4, <1>5, <1>6 DEF KeptOrSwitched

\* A container that is built is the only one that changes.
LEMMA OneBuilt ==
    ASSUME TypeOK, NEW t \in Tasks, Runs(t, "BuildContainer"),
           container' = [container EXCEPT ![Current(t).on] =
               [status |-> "created", version |-> task[t].version, joined |-> FALSE]]
    PROVE  ContainersMove(t)
<1> DEFINE c == Current(t).on
           k == [status |-> "created", version |-> task[t].version, joined |-> FALSE]
<1>1. container \in [Containers -> ContainerType] /\ c \in Containers
  BY CurrentTyped DEF TypeOK, ContainerType, Runs
<1>2. container'[c] = k /\ \A d \in Containers \ {c} : container'[d] = container[d]
  BY <1>1, Zenon
<1>3. Built(t, c)
  BY <1>2 DEF Built
<1> QED
  BY <1>2, <1>3 DEF ContainersMove, KeptOrSwitched

\* A network that is created or deleted is the only one that changes.
LEMMA OneNetwork ==
    ASSUME TypeOK, NEW t \in Tasks, NEW s \in Seedlings,
           \/ UNCHANGED network
           \/ network' = [network EXCEPT ![s] = FALSE] /\ CanDeleteNetwork(s)
           \/ /\ network' = [network EXCEPT ![s] = TRUE]
              /\ Runs(t, "CreateNetwork") /\ Current(t).on[1] = s
    PROVE  NetworksMove(t)
<1>1. network \in [Seedlings -> BOOLEAN]
  BY DEF TypeOK
<1>2. CASE UNCHANGED network
  BY <1>2 DEF NetworksMove
<1>3. CASE network' = [network EXCEPT ![s] = FALSE] /\ CanDeleteNetwork(s)
  BY <1>1, <1>3 DEF NetworksMove
<1>4. CASE /\ network' = [network EXCEPT ![s] = TRUE]
           /\ Runs(t, "CreateNetwork") /\ Current(t).on[1] = s
  BY <1>1, <1>4 DEF NetworksMove
<1> QED
  BY <1>2, <1>3, <1>4

\* A command on docker builds, starts, stops or deletes the container it is about.
LEMMA DockerStepMoves ==
    ASSUME TypeOK, NEW t \in Tasks, DockerStep(t)
    PROVE  ContainersMove(t) /\ NetworksMove(t)
<1> DEFINE c == Current(t).on
<1>1. c \in Containers /\ c[1] \in Seedlings
  BY CurrentTyped
     DEF DockerStep, PullImage, DeleteResinRepository, EnsureAgentMount, BuildContainer,
         FindNetwork, CreateNetwork, ConnectNetwork,
         StartContainer, StopContainer, DropContainer, DeleteNetwork, Runs
<1>2. ASSUME \A d \in Containers : KeptOrSwitched(d), UNCHANGED network
      PROVE  ContainersMove(t) /\ NetworksMove(t)
  BY <1>1, <1>2, OneNetwork DEF ContainersMove
<1>3. CASE PullImage(t) \/ DeleteResinRepository(t) \/ EnsureAgentMount(t)
  BY <1>2, <1>3 DEF KeptOrSwitched, PullImage, DeleteResinRepository, EnsureAgentMount
<1>4. CASE BuildContainer(t)
  <2>1. Runs(t, "BuildContainer") /\ UNCHANGED network
    BY <1>4 DEF BuildContainer
  <2>2. CASE UNCHANGED container
    BY <1>2, <2>1, <2>2 DEF KeptOrSwitched
  <2>3. CASE container' = [container EXCEPT ![c] =
                  [status |-> "created", version |-> task[t].version, joined |-> FALSE]]
    BY <1>1, <2>1, <2>3, OneBuilt, OneNetwork
  <2> QED
    BY <1>4, <2>2, <2>3 DEF BuildContainer
<1>7. CASE FindNetwork(t) \/ CreateNetwork(t)
  <2>1. UNCHANGED container
    BY <1>7 DEF FindNetwork, CreateNetwork
  <2>2. \/ UNCHANGED network
        \/ network' = [network EXCEPT ![c[1]] = TRUE] /\ Runs(t, "CreateNetwork")
    BY <1>7 DEF FindNetwork, CreateNetwork
  <2>3. NetworksMove(t)
    BY <1>1, <2>2, OneNetwork
  <2> QED
    BY <2>1, <2>3 DEF ContainersMove, KeptOrSwitched
<1>8. CASE ConnectNetwork(t)
  <2>1. /\ UNCHANGED network
        /\ UNCHANGED container \/ (container' = Connected(c) /\ CanConnect(c))
    BY <1>8 DEF ConnectNetwork
  <2> QED
    BY <1>1, <1>2, <2>1, OneSwitched
<1>5. CASE StartContainer(t) \/ StopContainer(t) \/ DropContainer(t)
  <2>1. /\ UNCHANGED network
        /\ \/ UNCHANGED container
           \/ container' = [container EXCEPT ![c] = Absent]
           \/ container' = [container EXCEPT ![c].status = "exited"] /\ Exists(c)
           \/ container' = [container EXCEPT ![c].status = "running"] /\ CanStart(c)
    BY <1>5 DEF StartContainer, StopContainer, DropContainer, CanStop, Running, Exists
  <2> QED
    BY <1>1, <1>2, <2>1, OneSwitched
<1>6. CASE DeleteNetwork(t)
  <2>1. \A d \in Containers : KeptOrSwitched(d)
    BY <1>6 DEF DeleteNetwork, KeptOrSwitched
  <2>2. NetworksMove(t)
    BY <1>1, <1>6, OneNetwork DEF DeleteNetwork
  <2> QED
    BY <2>1, <2>2 DEF ContainersMove
<1> QED
  BY <1>3, <1>4, <1>5, <1>6, <1>7, <1>8 DEF DockerStep

\* A rollback stops, starts or deletes the container that its command was about.
LEMMA RollbackMoves ==
    ASSUME TypeOK, NEW t \in Tasks, Rollback(t)
    PROVE  ContainersMove(t) /\ NetworksMove(t)
<1> DEFINE cmd == Latest(t)
           c == cmd.on
<1>1. cmd \in Commands
  BY UndoingTyped DEF Rollback
<1>2. c \in Containers /\ c[1] \in Seedlings
  BY <1>1, ContainersOf DEF Commands
<1>3. container' = UndoneContainer(cmd) /\ network' = UndoneNetwork(cmd)
  BY DEF Rollback
<1> HIDE DEF cmd
<1>4. NetworksMove(t)
  BY <1>2, <1>3, OneNetwork DEF UndoneNetwork
<1>5. \/ UNCHANGED container
      \/ container' = [container EXCEPT ![c] = Absent]
      \/ container' = [container EXCEPT ![c].status = "exited"] /\ Exists(c)
      \/ /\ container' = [container EXCEPT ![c].status = "running"]
         /\ CanStart(c) /\ UNCHANGED network
  BY <1>3 DEF UndoneContainer, UndoneNetwork, CanStop, Running, Exists
<1>6. \A d \in Containers : KeptOrSwitched(d)
  BY <1>2, <1>5, OneSwitched
<1> QED
  BY <1>4, <1>6 DEF ContainersMove

\* What a task does to the containers and the networks, whether it works or fails.
LEMMA TaskMovesContainers ==
    ASSUME TypeOK, NEW t \in Tasks, Step(t) \/ Failure(t)
    PROVE  ContainersMove(t) /\ NetworksMove(t)
<1> DEFINE c == Current(t).on
<1>1. PICK s \in Seedlings : TRUE
  BY SeedlingAssumption
<1>2. ASSUME UNCHANGED container, UNCHANGED network
      PROVE  ContainersMove(t) /\ NetworksMove(t)
  BY <1>1, <1>2, OneNetwork DEF ContainersMove, KeptOrSwitched
<1>3. CASE Plan(t) \/ SeedbankStep(t) \/ CheckHealth(t) \/ RecheckHealth(t) \/ GiveUp(t) \/ Finish(t)
           \/ RollbackFails(t) \/ CommandFails(t)
  BY <1>2, <1>3 DEF Plan, SeedbankStep, CreateSeedling, UpdateSeedling, SetDesiredRunStatus,
       ClearHealthCheckLogs, DeleteSeedbankEntry, CreateServiceAccount, CheckHealth,
       RecheckHealth, GiveUp, Finish, RollbackFails, CommandFails
<1>4. CASE StartSeedling(t) \/ StopFailed(t) \/ AgentUnhealthy(t)
  <2>1. c \in Containers
    BY <1>4, CurrentTyped DEF StartSeedling, StopFailed, AgentUnhealthy, Runs
  <2>2. /\ UNCHANGED network
        /\ \/ UNCHANGED container
           \/ container' = [container EXCEPT ![c].status = "exited"] /\ Exists(c)
           \/ container' = [container EXCEPT ![c].status = "running"] /\ CanStart(c)
    BY <1>4 DEF StartSeedling, StopFailed, AgentUnhealthy, CanStop, Running, Exists
  <2>3. \A d \in Containers : KeptOrSwitched(d)
    BY <2>1, <2>2, OneSwitched
  <2>4. NetworksMove(t)
    BY <1>1, <2>2, OneNetwork
  <2> QED
    BY <2>3, <2>4 DEF ContainersMove
<1>5. CASE SystemNetworkFails(t)
  <2>1. c \in Containers
    BY <1>5, CurrentTyped DEF SystemNetworkFails, Runs
  <2>2. UNCHANGED network /\ container' = Connected(c) /\ CanConnect(c)
    BY <1>5 DEF SystemNetworkFails
  <2>3. \A d \in Containers : KeptOrSwitched(d)
    BY <2>1, <2>2, OneSwitched
  <2>4. NetworksMove(t)
    BY <1>1, <2>2, OneNetwork
  <2> QED
    BY <2>3, <2>4 DEF ContainersMove
<1> QED
  BY <1>3, <1>4, <1>5, DockerStepMoves, RollbackMoves DEF Step, HealthStep, Failure

\* A container that exits on its own is the only one that changes.
LEMMA ExitSwitches ==
    ASSUME TypeOK, ContainerExits
    PROVE  \A c \in Containers : KeptOrSwitched(c)
<1>1. PICK s \in Flaky : /\ Running(Main(s))
                         /\ container' = [container EXCEPT ![Main(s)].status = "exited"]
  BY DEF ContainerExits
<1>2. Main(s) \in Containers /\ Exists(Main(s))
  BY <1>1, SeedlingAssumption, ContainersOf DEF Exists, Running
<1> QED
  BY <1>1, <1>2, OneSwitched

-----------------------------------------------------------------------------
(* The networks of running containers *)

JoinedHasNetwork == \A c \in Containers : Running(c) /\ container[c].joined => network[c[1]]

\* Docker does not start a container without its network, and does not take the network
\* from one that runs.
LEMMA NetworkKept == TypeOK /\ JoinedHasNetwork /\ [Next]_vars => JoinedHasNetwork'
<1> SUFFICES ASSUME TypeOK, JoinedHasNetwork, [Next]_vars PROVE JoinedHasNetwork'
  OBVIOUS
<1>1. container \in [Containers -> ContainerType] /\ network \in [Seedlings -> BOOLEAN]
  BY DEF TypeOK, ContainerType
<1>2. CASE UNCHANGED <<container, network>>
  BY <1>2 DEF JoinedHasNetwork, Running
<1>3. ASSUME NEW c \in Containers, Running(c)', container'[c].joined, UNCHANGED network,
             KeptOrSwitched(c)
      PROVE  network'[c[1]]
  BY <1>3, SwitchedKeeps DEF JoinedHasNetwork, Running, CanStart, CanConnect
<1>4. ASSUME NEW t \in Tasks, Step(t) \/ Failure(t)
      PROVE  JoinedHasNetwork'
  <2>1. ContainersMove(t) /\ NetworksMove(t)
    BY <1>4, TaskMovesContainers
  <2> SUFFICES ASSUME NEW c \in Containers, Running(c)', container'[c].joined
               PROVE  network'[c[1]]
    BY DEF JoinedHasNetwork, Running
  <2>2. c[1] \in Seedlings /\ (c = Main(c[1]) \/ c = Agent(c[1]))
    BY DEF Containers, Main, Agent
  <2>3. KeptOrSwitched(c)
    BY <2>1 DEF ContainersMove, Built
  <2>4. CASE UNCHANGED network
    BY <1>3, <2>3, <2>4
  <2>5. CASE ~UNCHANGED network
    <3>1. container[c].joined /\ Running(c)
      BY <2>3, <2>5, SwitchedKeeps DEF Running
    <3>2. network[c[1]]
      BY <3>1 DEF JoinedHasNetwork
    <3>3. ~CanDeleteNetwork(c[1])
      BY <2>2, <3>1 DEF CanDeleteNetwork
    <3> QED
      BY <2>1, <2>2, <3>2, <3>3 DEF NetworksMove
  <2> QED
    BY <2>4, <2>5
<1>5. CASE ContainerExits
  <2>1. UNCHANGED network /\ \A c \in Containers : KeptOrSwitched(c)
    BY <1>5, ExitSwitches DEF ContainerExits
  <2> QED
    BY <1>3, <2>1 DEF JoinedHasNetwork, Running
<1>6. CASE (\E o \in Operators : HangUp(o)) \/ Request \/ Sweep \/ Crash
  <2>1. UNCHANGED <<container, network>>
    BY <1>6 DEF HangUp, Request, Sweep, Crash
  <2> QED
    BY <1>2, <2>1
<1> QED
  BY <1>2, <1>4, <1>5, <1>6 DEF Next, vars

\* Whatever fails, a container that runs and joined its seedling's network has that
\* network: no rollback and no drop takes it away.
THEOREM NetworkCorrect == Spec => []JoinedHasNetwork
<1>1. Init => JoinedHasNetwork
  BY DEF Init, JoinedHasNetwork, Running, Absent
<1> QED
  BY <1>1, NetworkKept, TypeCorrect, PTL DEF Spec

-----------------------------------------------------------------------------
(* What a step does to its task and to the records *)

SameJob(t) ==
    /\ task'[t].blueprint = task[t].blueprint /\ task'[t].seedling = task[t].seedling
    /\ task'[t].sweep = task[t].sweep /\ task'[t].result = task[t].result

\* A blueprint is over, and the sweep it is part of with it, or goes on with the next.
Ends(t) ==
    \/ /\ task'[t].phase = "idle" /\ task'[t].sweep = {}
       /\ task'[t].todo = <<>> /\ task'[t].journal = <<>>
       /\ task'[t].blueprint = task[t].blueprint /\ task'[t].seedling = task[t].seedling
       /\ task'[t].version = task[t].version
       /\ task'[t].result = "ok" => task[t].phase = "run" /\ task[t].todo = <<>>
    \/ \E e \in task[t].sweep :
          task'[t] = Job(e.blueprint, e.seedling, 0, task[t].sweep \ {e})

Plans(t) ==
    /\ task[t].phase = "discover" /\ ~Refused(t) /\ SameJob(t)
    /\ task'[t].phase = "run" /\ task'[t].todo = PlanOf(t)
    /\ task'[t].version = VersionOf(t) /\ task'[t].journal = task[t].journal

\* The command at hand does what its success says.
Achieved(t) ==
    LET c == Current(t).on
        s == c[1] IN
    /\ Current(t).op \in {"CreateSeedling", "UpdateSeedling"} => record'[s].version = task[t].version
    /\ Current(t).op = "EnsureAgentMount" => t # Watchdog
    /\ Current(t).op = "DropContainer" => container'[c].status = "absent"
    /\ Current(t).op = "DeleteNetwork" => ~network'[s]
    /\ Current(t).op = "DeleteSeedbankEntry" => record'[s].version = 0

\* The name under which a command goes into the journal.
Succeeds(op, as) ==
    \/ as = op
    \/ op = "CheckHealth" /\ as = "StartSeedling"
    \/ op = "ConnectNetwork" /\ as = "BuildContainer"

\* What comes next of a command that has several calls.
Building == {"BuildContainer", "FindNetwork", "CreateNetwork", "ConnectNetwork"}
Follows(op, next) ==
    \/ op \in Building /\ next \in Building \ {"BuildContainer"}
    \/ op = "StartSeedling" /\ next = "CheckHealth"
    \/ op \in {"CheckHealth", "RecheckHealth"} /\ next = "GiveUp"
    \/ op = "GiveUp" /\ next = "StopFailed"

Completes(t, cmd) ==
    /\ task[t].phase = "run" /\ task[t].todo # <<>> /\ SameJob(t)
    /\ cmd \in Commands /\ cmd.on = Current(t).on
    /\ Succeeds(Current(t).op, cmd.op)
    /\ cmd.op = "UpdateSeedling" => cmd.was = record[cmd.on[1]].version
    /\ task'[t].phase = "run" /\ task'[t].todo = Tail(task[t].todo)
    /\ task'[t].journal = Append(task[t].journal, cmd)
    /\ task'[t].version = task[t].version
    /\ Achieved(t)

Fails(t) ==
    /\ task[t].phase = "run" /\ SameJob(t)
    /\ task'[t].phase = "undo" /\ task'[t].todo = <<>>
    /\ task'[t].journal = task[t].journal /\ task'[t].version = task[t].version

Continues(t, cmd) ==
    /\ task[t].phase = "run" /\ task[t].todo # <<>> /\ SameJob(t)
    /\ cmd \in Commands /\ cmd.on = Current(t).on
    /\ Follows(Current(t).op, cmd.op)
    /\ task'[t].phase = "run" /\ task'[t].todo = <<cmd>> \o Tail(task[t].todo)
    /\ task'[t].journal = task[t].journal /\ task'[t].version = task[t].version

Pops(t) ==
    /\ Undoing(t) /\ SameJob(t)
    /\ task'[t].phase = "undo" /\ task'[t].todo = task[t].todo
    /\ task'[t].journal \in {Earlier(t), Earlier(t) \o LeftToUndo(Latest(t))}
    /\ task'[t].version = task[t].version

TaskMoves(t) ==
    /\ \A u \in Tasks \ {t} : task'[u] = task[u]
    /\ \/ Ends(t) \/ Plans(t) \/ Fails(t) \/ Pops(t)
       \/ \E cmd \in Commands : Completes(t, cmd) \/ Continues(t, cmd)

\* A record loses its version, or gets that of the task which records it or the one that
\* the rollback of an update returns to.
RecordMoves(t, s) ==
    \/ record'[s].version = record[s].version
    \/ record'[s].version = 0
    \/ /\ Runs(t, "CreateSeedling") /\ Current(t).on[1] = s
       /\ record'[s].version = task[t].version
    \/ /\ Runs(t, "UpdateSeedling") /\ Current(t).on[1] = s /\ Defined(s)
       /\ record'[s].version = task[t].version
    \/ /\ Undoing(t) /\ Defined(s) /\ record'[s].version > record[s].version
       /\ Latest(t).op = "UpdateSeedling" /\ Latest(t).on[1] = s
       /\ record'[s].version = Latest(t).was

RecordsMove(t) == \A s \in Seedlings : RecordMoves(t, s)

\* A command succeeds.
LEMMA CompleteMoves ==
    ASSUME TypeOK, NEW t \in Tasks, task[t].phase = "run", task[t].todo # <<>>, NEW cmd \in Commands,
           cmd.on = Current(t).on,
           Succeeds(Current(t).op, cmd.op),
           cmd.op = "UpdateSeedling" => cmd.was = record[cmd.on[1]].version,
           Complete(t, cmd), Achieved(t)
    PROVE  TaskMoves(t)
<1>1. task \in [Tasks -> TaskType] /\ task[t] \in TaskType
  BY DEF TypeOK
<1> DEFINE j == [task[t] EXCEPT !.todo = Tail(task[t].todo), !.journal = Append(task[t].journal, cmd)]
<1>2. task' = [task EXCEPT ![t] = j]
  BY <1>1 DEF Complete, TaskType
<1>3. /\ j.todo = Tail(task[t].todo) /\ j.journal = Append(task[t].journal, cmd)
      /\ j.phase = task[t].phase /\ j.blueprint = task[t].blueprint
      /\ j.seedling = task[t].seedling /\ j.version = task[t].version
      /\ j.sweep = task[t].sweep /\ j.result = task[t].result
  BY <1>1 DEF TaskType
<1> HIDE DEF j
<1>4. task'[t] = j /\ \A u \in Tasks \ {t} : task'[u] = task[u]
  BY <1>1, <1>2
<1>5. SameJob(t)
  BY <1>3, <1>4 DEF SameJob
<1>6. Completes(t, cmd)
  BY <1>3, <1>4, <1>5 DEF Completes
<1> QED
  BY <1>4, <1>6 DEF TaskMoves

\* A command that succeeds as it is, unless it is the check of a started seedling or an update.
LEMMA CurrentMoves ==
    ASSUME TypeOK, NEW t \in Tasks, task[t].phase = "run", task[t].todo # <<>>,
           Current(t).op # "UpdateSeedling", Complete(t, Current(t)), Achieved(t)
    PROVE  TaskMoves(t)
  BY CurrentTyped, CompleteMoves DEF Succeeds

\* A command fails.
LEMMA FailMoves ==
    ASSUME TypeOK, NEW t \in Tasks, task[t].phase = "run", Fail(t)
    PROVE  TaskMoves(t)
<1>1. task \in [Tasks -> TaskType] /\ task[t] \in TaskType
  BY DEF TypeOK
<1> DEFINE j == [task[t] EXCEPT !.phase = "undo", !.todo = <<>>]
<1>2. task' = [task EXCEPT ![t] = j]
  BY <1>1 DEF Fail
<1>3. /\ j.todo = <<>> /\ j.phase = "undo" /\ j.journal = task[t].journal
      /\ j.blueprint = task[t].blueprint
      /\ j.seedling = task[t].seedling /\ j.version = task[t].version
      /\ j.sweep = task[t].sweep /\ j.result = task[t].result
  BY <1>1 DEF TaskType
<1> HIDE DEF j
<1>4. task'[t] = j /\ \A u \in Tasks \ {t} : task'[u] = task[u]
  BY <1>1, <1>2
<1>5. SameJob(t)
  BY <1>3, <1>4 DEF SameJob
<1> QED
  BY <1>3, <1>4, <1>5 DEF TaskMoves, Fails

\* A command succeeds or fails, but for an update.
LEMMA OutcomeMoves ==
    ASSUME TypeOK, NEW t \in Tasks, task[t].phase = "run", task[t].todo # <<>>,
           Current(t).op # "UpdateSeedling", NEW ok, Outcome(t, ok), ok => Achieved(t)
    PROVE  TaskMoves(t)
  BY CurrentMoves, FailMoves DEF Outcome

\* A command goes on with its next call.
LEMMA ContinueMoves ==
    ASSUME TypeOK, NEW t \in Tasks, task[t].phase = "run", task[t].todo # <<>>,
           NEW op \in Ops \ {"UpdateSeedling"}, NEW was \in 0..MaxVersion + 2,
           Follows(Current(t).op, op), Continue(t, op, was)
    PROVE  TaskMoves(t)
<1>1. task \in [Tasks -> TaskType] /\ task[t] \in TaskType
  BY DEF TypeOK
<1> DEFINE cmd == [Current(t) EXCEPT !.op = op, !.was = was]
           j == [task[t] EXCEPT !.todo = <<cmd>> \o Tail(task[t].todo)]
<1>2. cmd \in Commands /\ cmd.op = op /\ cmd.on = Current(t).on
  <2>1. Current(t) \in [op : Ops, on : Containers, was : 0..MaxVersion + 2]
    BY CurrentTyped DEF Commands
  <2>2. op \in Ops
    OBVIOUS
  <2>3. /\ cmd \in [op : Ops, on : Containers, was : 0..MaxVersion + 2]
        /\ cmd.op = op /\ cmd.on = Current(t).on
    BY <2>1, <2>2, Zenon
  <2> QED
    BY <2>3 DEF Commands
<1>3. task' = [task EXCEPT ![t] = j]
  BY <1>1 DEF Continue
<1> HIDE DEF cmd
<1>4. /\ j.todo = <<cmd>> \o Tail(task[t].todo) /\ j.phase = task[t].phase
      /\ j.journal = task[t].journal /\ j.blueprint = task[t].blueprint
      /\ j.seedling = task[t].seedling /\ j.version = task[t].version
      /\ j.sweep = task[t].sweep /\ j.result = task[t].result
  BY <1>1 DEF TaskType
<1> HIDE DEF j
<1>5. task'[t] = j /\ \A u \in Tasks \ {t} : task'[u] = task[u]
  BY <1>1, <1>3
<1>6. SameJob(t)
  BY <1>4, <1>5 DEF SameJob
<1>7. Continues(t, cmd)
  BY <1>2, <1>4, <1>5, <1>6 DEF Continues
<1> QED
  BY <1>2, <1>5, <1>7 DEF TaskMoves

\* A rollback takes its command off the journal, or leaves its network there.
LEMMA PopMoves ==
    ASSUME TypeOK, NEW t \in Tasks, Undoing(t),
           NEW rest \in {Earlier(t), Earlier(t) \o LeftToUndo(Latest(t))},
           task' = [task EXCEPT ![t].journal = rest]
    PROVE  TaskMoves(t)
<1>1. task \in [Tasks -> TaskType] /\ task[t] \in TaskType
  BY DEF TypeOK
<1> DEFINE j == [task[t] EXCEPT !.journal = rest]
<1>2. task' = [task EXCEPT ![t] = j]
  OBVIOUS
<1>3. /\ j.journal = rest /\ j.todo = task[t].todo /\ j.phase = task[t].phase
      /\ j.blueprint = task[t].blueprint
      /\ j.seedling = task[t].seedling /\ j.version = task[t].version
      /\ j.sweep = task[t].sweep /\ j.result = task[t].result
  BY <1>1 DEF TaskType
<1> HIDE DEF j
<1>4. task'[t] = j /\ \A u \in Tasks \ {t} : task'[u] = task[u]
  BY <1>1, <1>2
<1>5. SameJob(t)
  BY <1>3, <1>4 DEF SameJob
<1>6. Pops(t)
  BY <1>3, <1>4, <1>5 DEF Pops, Undoing
<1> QED
  BY <1>4, <1>6 DEF TaskMoves

\* A blueprint ends, and the next one of the sweep may begin.
LEMMA ConcludeMoves ==
    ASSUME TypeOK, NEW t \in Tasks, NEW ok \in BOOLEAN, Conclude(t, ok),
           ok => task[t].phase = "run" /\ task[t].todo = <<>>
    PROVE  TaskMoves(t)
<1>1. task \in [Tasks -> TaskType] /\ task[t] \in TaskType
  BY DEF TypeOK
<1>2. CASE \E e \in task[t].sweep :
               task' = [task EXCEPT ![t] = Job(e.blueprint, e.seedling, 0, task[t].sweep \ {e})]
  BY <1>1, <1>2, Zenon DEF TaskMoves, Ends
<1>3. CASE task' = [task EXCEPT ![t] = Idle(t, IF ok THEN "ok" ELSE "failed")]
  <2> DEFINE j == Idle(t, IF ok THEN "ok" ELSE "failed")
  <2>1. /\ j.phase = "idle" /\ j.sweep = {} /\ j.todo = <<>> /\ j.journal = <<>>
        /\ j.blueprint = task[t].blueprint /\ j.seedling = task[t].seedling
        /\ j.version = task[t].version
        /\ j.result = "ok" => ok
    BY <1>1 DEF Idle, TaskType
  <2> HIDE DEF j
  <2>2. task'[t] = j /\ \A u \in Tasks \ {t} : task'[u] = task[u]
    BY <1>1, <1>3 DEF j
  <2> QED
    BY <2>1, <2>2 DEF TaskMoves, Ends
<1> QED
  BY <1>2, <1>3 DEF Conclude, Begin

\* A command on the seedbank moves its task on.
LEMMA SeedbankStepMoves ==
    ASSUME TypeOK, NEW t \in Tasks, SeedbankStep(t)
    PROVE  TaskMoves(t)
<1> DEFINE s == Current(t).on[1]
<1>1. task[t].phase = "run" /\ task[t].todo # <<>>
  BY DEF SeedbankStep, CreateSeedling, UpdateSeedling, SetDesiredRunStatus,
       ClearHealthCheckLogs, DeleteSeedbankEntry, CreateServiceAccount, Runs
<1>2. /\ s \in Seedlings /\ record \in [Seedlings -> RecordType]
      /\ Current(t) \in Commands
  BY <1>1, CurrentTyped DEF TypeOK, RecordType
<1>3. CASE CreateSeedling(t)
  <2>1. Current(t).op = "CreateSeedling" /\ Outcome(t, ~Defined(s))
    BY <1>3 DEF CreateSeedling, Runs
  <2>2. ASSUME ~Defined(s) PROVE record'[s].version = task[t].version
    BY <1>2, <1>3, <2>2 DEF CreateSeedling, NoRecord
  <2>3. ~Defined(s) => Achieved(t)
    BY <2>1, <2>2 DEF Achieved
  <2> QED
    BY <1>1, <2>1, <2>3, OutcomeMoves
<1>4. CASE UpdateSeedling(t)
  <2>1. Current(t).op = "UpdateSeedling"
    BY <1>4 DEF UpdateSeedling, Runs
  <2>2. CASE Updatable(s, task[t].version)
    <3> DEFINE cmd == [Current(t) EXCEPT !.was = record[s].version]
    <3>1. Complete(t, cmd) /\ record' = [record EXCEPT ![s].version = task[t].version]
      BY <1>4, <2>2 DEF UpdateSeedling
    <3>2. record[s].version \in 0..MaxVersion /\ record[s].version \in 0..MaxVersion + 2
      BY <1>2, Bounds DEF RecordType
    <3>3. Current(t) \in [op : Ops, on : Containers, was : 0..MaxVersion + 2]
      BY <1>2 DEF Commands
    <3>4. /\ cmd \in [op : Ops, on : Containers, was : 0..MaxVersion + 2]
          /\ cmd.op = "UpdateSeedling" /\ cmd.on = Current(t).on /\ cmd.was = record[s].version
      BY <2>1, <3>2, <3>3, Zenon
    <3>5. cmd \in Commands
      BY <3>2, <3>4 DEF Commands
    <3>6. record'[s].version = task[t].version
      BY <1>2, <3>1 DEF RecordType
    <3>7. Achieved(t)
      BY <2>1, <3>6 DEF Achieved
    <3> HIDE DEF cmd
    <3> QED
      BY <1>1, <2>1, <3>1, <3>4, <3>5, <3>7, CompleteMoves DEF Succeeds
  <2>3. CASE ~Updatable(s, task[t].version)
    BY <1>1, <1>4, <2>3, FailMoves DEF UpdateSeedling
  <2> QED
    BY <2>2, <2>3
<1>5. CASE SetDesiredRunStatus(t) \/ ClearHealthCheckLogs(t) \/ CreateServiceAccount(t)
  <2>1. /\ Current(t).op \in {"SetDesiredRunning", "SetDesiredStopped", "ClearHealthCheckLogs",
                              "CreateServiceAccount"}
        /\ \E ok : Outcome(t, ok)
    BY <1>5 DEF SetDesiredRunStatus, ClearHealthCheckLogs, CreateServiceAccount, Runs
  <2>2. Achieved(t)
    BY <2>1 DEF Achieved
  <2> QED
    BY <1>1, <2>1, <2>2, OutcomeMoves
<1>6. CASE DeleteSeedbankEntry(t)
  <2>1. Current(t).op = "DeleteSeedbankEntry" /\ Outcome(t, Defined(s))
    BY <1>6 DEF DeleteSeedbankEntry, Runs
  <2>2. record'[s].version = 0
    BY <1>2, <1>6 DEF DeleteSeedbankEntry, NoRecord
  <2>3. Achieved(t)
    BY <2>1, <2>2 DEF Achieved
  <2> QED
    BY <1>1, <2>1, <2>3, OutcomeMoves
<1> QED
  BY <1>3, <1>4, <1>5, <1>6 DEF SeedbankStep

\* A command on docker moves its task on.
LEMMA DockerMoves ==
    ASSUME TypeOK, NEW t \in Tasks, DockerStep(t)
    PROVE  TaskMoves(t)
<1> DEFINE c == Current(t).on
<1>1. task[t].phase = "run" /\ task[t].todo # <<>>
  BY DEF DockerStep, PullImage, DeleteResinRepository, EnsureAgentMount, BuildContainer,
         FindNetwork, CreateNetwork, ConnectNetwork,
         StartContainer, StopContainer, DropContainer, DeleteNetwork, Runs
<1>2. /\ c \in Containers /\ c[1] \in Seedlings /\ Current(t) \in Commands
      /\ container \in [Containers -> ContainerType] /\ network \in [Seedlings -> BOOLEAN]
  BY <1>1, CurrentTyped DEF TypeOK, ContainerType
<1>3. CASE PullImage(t) \/ DeleteResinRepository(t) \/ StartContainer(t) \/ StopContainer(t)
  <2>1. /\ Current(t).op \in {"PullImage", "DeleteResinRepository", "StartContainer",
                              "StartAgentContainer", "StopContainer"}
        /\ \E ok : Outcome(t, ok)
    BY <1>3 DEF PullImage, DeleteResinRepository, StartContainer, StopContainer, Runs
  <2>2. Achieved(t)
    BY <2>1 DEF Achieved
  <2> QED
    BY <1>1, <2>1, <2>2, OutcomeMoves
<1>4. CASE EnsureAgentMount(t)
  <2>1. /\ Current(t).op = "EnsureAgentMount"
        /\ Outcome(t, Provisioned(t) /\ account[c])
    BY <1>4 DEF EnsureAgentMount, Runs
  <2>2. Provisioned(t) /\ account[c] => Achieved(t)
    BY <2>1 DEF Achieved, Provisioned
  <2> QED
    BY <1>1, <2>1, <2>2, OutcomeMoves
<1>5. CASE BuildContainer(t) \/ FindNetwork(t) \/ CreateNetwork(t)
  <2>1. /\ Current(t).op \in Building
        /\ \/ Fail(t)
           \/ \E op \in Building \ {"BuildContainer"}, was \in {0, 1} : Continue(t, op, was)
    <3>1. CASE BuildContainer(t)
      <4>1. Current(t).op = "BuildContainer" /\ (Continue(t, "FindNetwork", 0) \/ Fail(t))
        BY <3>1 DEF BuildContainer, Runs
      <4> QED
        BY <4>1 DEF Building
    <3>2. CASE FindNetwork(t)
      <4>1. /\ Current(t).op = "FindNetwork"
            /\ Continue(t, "ConnectNetwork", 0) \/ Continue(t, "CreateNetwork", 0)
        BY <3>2 DEF FindNetwork, Runs
      <4> QED
        BY <4>1 DEF Building
    <3>3. CASE CreateNetwork(t)
      <4>1. Current(t).op = "CreateNetwork" /\ (Continue(t, "ConnectNetwork", 1) \/ Fail(t))
        BY <3>3 DEF CreateNetwork, Runs
      <4> QED
        BY <4>1 DEF Building
    <3> QED
      BY <1>5, <3>1, <3>2, <3>3
  <2>2. /\ Building \ {"BuildContainer"} \subseteq Ops \ {"UpdateSeedling"}
        /\ {0, 1} \subseteq 0..MaxVersion + 2
    BY Bounds DEF Building, Ops
  <2>3. \A op \in Building \ {"BuildContainer"} : Follows(Current(t).op, op)
    BY <2>1 DEF Follows
  <2> QED
    BY <1>1, <2>1, <2>2, <2>3, ContinueMoves, FailMoves
<1>8. CASE ConnectNetwork(t)
  <2> DEFINE cmd == [Current(t) EXCEPT !.op = "BuildContainer"]
  <2>1. Current(t).op = "ConnectNetwork" /\ (Complete(t, cmd) \/ Fail(t))
    BY <1>8 DEF ConnectNetwork, Runs
  <2>2. Current(t) \in [op : Ops, on : Containers, was : 0..MaxVersion + 2] /\ "BuildContainer" \in Ops
    BY <1>2 DEF Commands, Ops
  <2>4. /\ cmd \in [op : Ops, on : Containers, was : 0..MaxVersion + 2]
        /\ cmd.op = "BuildContainer" /\ cmd.on = c
    BY <2>2, Zenon
  <2>5. cmd \in Commands
    BY <2>4 DEF Commands
  <2>6. Achieved(t)
    BY <2>1 DEF Achieved
  <2>7. Succeeds(Current(t).op, cmd.op)
    BY <2>1, <2>4 DEF Succeeds
  <2> HIDE DEF cmd
  <2> QED
    BY <1>1, <2>1, <2>4, <2>5, <2>6, <2>7, CompleteMoves, FailMoves
<1>6. CASE DropContainer(t)
  <2>1. Current(t).op = "DropContainer" /\ Outcome(t, CanDrop(c))
    BY <1>6 DEF DropContainer, Runs
  <2>2. CanDrop(c) => container'[c].status = "absent"
    BY <1>2, <1>6 DEF DropContainer, Absent
  <2>3. CanDrop(c) => Achieved(t)
    BY <2>1, <2>2 DEF Achieved
  <2> QED
    BY <1>1, <2>1, <2>3, OutcomeMoves
<1>7. CASE DeleteNetwork(t)
  <2>1. Current(t).op = "DeleteNetwork" /\ Outcome(t, CanDeleteNetwork(c[1]))
    BY <1>7 DEF DeleteNetwork, Runs
  <2>2. CanDeleteNetwork(c[1]) => ~network'[c[1]]
    BY <1>2, <1>7 DEF DeleteNetwork
  <2>3. CanDeleteNetwork(c[1]) => Achieved(t)
    BY <2>1, <2>2 DEF Achieved
  <2> QED
    BY <1>1, <2>1, <2>3, OutcomeMoves
<1> QED
  BY <1>3, <1>4, <1>5, <1>6, <1>7, <1>8 DEF DockerStep

\* A health check moves its task on.
LEMMA HealthMoves ==
    ASSUME TypeOK, NEW t \in Tasks, HealthStep(t)
    PROVE  TaskMoves(t)
<1>1. /\ task[t].phase = "run" /\ task[t].todo # <<>>
      /\ Current(t).op \in {"StartSeedling", "CheckHealth", "RecheckHealth", "GiveUp", "StopFailed"}
  BY DEF HealthStep, StartSeedling, CheckHealth, RecheckHealth, GiveUp, StopFailed, Runs
<1>2. Current(t) \in [op : Ops, on : Containers, was : 0..MaxVersion + 2]
  BY <1>1, CurrentTyped DEF Commands
<1>3. Achieved(t)
  BY <1>1 DEF Achieved
<1>4. Current(t).was \in 0..MaxVersion + 2 /\ 2 \in 0..MaxVersion + 2
  BY <1>2, Bounds
<1>5. ASSUME NEW op \in {"CheckHealth", "GiveUp", "StopFailed"}, Follows(Current(t).op, op),
             Continue(t, op, Current(t).was) \/ Continue(t, op, 2)
      PROVE  TaskMoves(t)
  <2>1. op \in Ops \ {"UpdateSeedling"}
    BY DEF Ops
  <2> QED
    BY <1>1, <1>4, <1>5, <2>1, ContinueMoves
<1>6. CASE StartSeedling(t)
  <2>1. /\ Current(t).op = "StartSeedling"
        /\ Continue(t, "CheckHealth", Current(t).was) \/ Fail(t)
    BY <1>6 DEF StartSeedling, Runs
  <2> QED
    BY <1>1, <1>5, <2>1, FailMoves DEF Follows
<1>7. CASE CheckHealth(t)
  <2> DEFINE cmd == [Current(t) EXCEPT !.op = "StartSeedling"]
  <2>1. /\ Current(t).op = "CheckHealth"
        /\ Complete(t, cmd) \/ Fail(t) \/ Continue(t, "GiveUp", Current(t).was)
    BY <1>7 DEF CheckHealth, Runs
  <2>2. /\ cmd \in [op : Ops, on : Containers, was : 0..MaxVersion + 2]
        /\ cmd.op = "StartSeedling" /\ cmd.on = Current(t).on
    BY <1>2, Zenon DEF Ops
  <2>3. cmd \in Commands
    BY <2>2 DEF Commands
  <2> HIDE DEF cmd
  <2> QED
    BY <1>1, <1>3, <1>5, <2>1, <2>2, <2>3, CompleteMoves, FailMoves DEF Succeeds, Follows
<1>8. CASE RecheckHealth(t)
  <2>1. /\ Current(t).op = "RecheckHealth"
        /\ Outcome(t, TRUE) \/ Fail(t) \/ Continue(t, "GiveUp", 2)
    BY <1>8 DEF RecheckHealth, Runs
  <2> QED
    BY <1>1, <1>3, <1>5, <2>1, OutcomeMoves, FailMoves DEF Follows
<1>9. CASE StopFailed(t)
  BY <1>1, <1>3, <1>9, OutcomeMoves DEF StopFailed
<1>10. CASE GiveUp(t)
  <2>1. /\ Current(t).op = "GiveUp"
        /\ Continue(t, "StopFailed", Current(t).was) \/ Fail(t)
    BY <1>10 DEF GiveUp, Runs
  <2> QED
    BY <1>1, <1>5, <2>1, FailMoves DEF Follows
<1> QED
  BY <1>6, <1>7, <1>8, <1>9, <1>10 DEF HealthStep

\* Every step of a task, and every failure, moves this task and no other.
LEMMA StepMoves ==
    ASSUME TypeOK, NEW t \in Tasks, Step(t) \/ Failure(t)
    PROVE  TaskMoves(t)
<1>1. CASE Plan(t)
  <2>1. CASE Conclude(t, FALSE)
    BY <2>1, ConcludeMoves
  <2>2. CASE ~Refused(t)
    <3>1. task \in [Tasks -> TaskType] /\ task[t] \in TaskType
      BY DEF TypeOK
    <3> DEFINE plan == PlanOf(t)
               version == VersionOf(t)
               j == [task[t] EXCEPT !.phase = "run", !.todo = plan, !.version = version]
    <3>2. task' = [task EXCEPT ![t].phase = "run", ![t].todo = plan, ![t].version = version]
      BY <1>1, <2>2 DEF Plan
    <3> HIDE DEF plan, version
    <3>3. task' = [task EXCEPT ![t] = j]
      BY <3>1, <3>2, Zenon
    <3>4. /\ j.todo = plan /\ j.phase = "run" /\ j.journal = task[t].journal
          /\ j.blueprint = task[t].blueprint
          /\ j.seedling = task[t].seedling /\ j.version = version
          /\ j.sweep = task[t].sweep /\ j.result = task[t].result
      BY <3>1 DEF TaskType
    <3> HIDE DEF j
    <3>5. task'[t] = j /\ \A u \in Tasks \ {t} : task'[u] = task[u]
      BY <3>1, <3>3
    <3>6. SameJob(t)
      BY <3>4, <3>5 DEF SameJob
    <3>7. Plans(t)
      BY <1>1, <2>2, <3>4, <3>5, <3>6 DEF Plans, Plan, plan, version
    <3> QED
      BY <3>5, <3>7 DEF TaskMoves
  <2> QED
    BY <1>1, <2>1, <2>2 DEF Plan
<1>2. CASE Finish(t)
  BY <1>2, ConcludeMoves DEF Finish
<1>3. CASE Rollback(t) \/ RollbackFails(t)
  BY <1>3, PopMoves DEF Rollback, RollbackFails
<1>4. CASE CommandFails(t) \/ SystemNetworkFails(t) \/ AgentUnhealthy(t)
  BY <1>4, FailMoves DEF CommandFails, SystemNetworkFails, AgentUnhealthy, Runs
<1> QED
  BY <1>1, <1>2, <1>3, <1>4, SeedbankStepMoves, DockerMoves, HealthMoves DEF Step, Failure

\* One record changes, and not its version.
LEMMA VersionsStay ==
    ASSUME TypeOK, NEW t \in Tasks,
           \/ UNCHANGED record
           \/ \E s \in Seedlings : \E b \in BOOLEAN : record' = [record EXCEPT ![s].desired = b]
           \/ \E s \in Seedlings : record' = [record EXCEPT ![s].fails = 0]
           \/ \E s \in Seedlings : record' = [record EXCEPT ![s].fails = @ + 1]
           \/ \E s \in Seedlings : record' = [record EXCEPT ![s] = NoRecord]
    PROVE  RecordsMove(t)
<1>1. record \in [Seedlings -> RecordType]
  BY DEF TypeOK, RecordType
<1>2. \A s \in Seedlings : record'[s].version = record[s].version \/ record'[s].version = 0
  BY <1>1 DEF RecordType, NoRecord
<1> QED
  BY <1>2 DEF RecordsMove, RecordMoves

\* A failed health check leaves the versions alone.
LEMMA FailureLeavesVersions ==
    ASSUME TypeOK, NEW t \in Tasks, NEW s \in Seedlings, RecordFailure(s)
    PROVE  RecordsMove(t)
<1>1. \/ UNCHANGED record
      \/ record' = [record EXCEPT ![s].fails = @ + 1]
  BY DEF RecordFailure
<1> QED
  BY <1>1, VersionsStay

\* What a step of a task does to the versions in the seedbank.
LEMMA StepMovesRecords ==
    ASSUME TypeOK, NEW t \in Tasks, Step(t) \/ Failure(t)
    PROVE  RecordsMove(t)
<1> DEFINE s == Current(t).on[1]
<1>1. record \in [Seedlings -> RecordType]
  BY DEF TypeOK, RecordType
<1>2. CASE Plan(t) \/ DockerStep(t) \/ Finish(t) \/ StartSeedling(t) \/ StopFailed(t)
           \/ CreateServiceAccount(t) \/ Failure(t)
  <2>1. UNCHANGED record
    BY <1>2 DEF Plan, DockerStep, Finish, StartSeedling, StopFailed, CreateServiceAccount,
         PullImage, DeleteResinRepository, EnsureAgentMount, BuildContainer,
         FindNetwork, CreateNetwork, ConnectNetwork,
         StartContainer, StopContainer, DropContainer, DeleteNetwork,
         Failure, SystemNetworkFails, AgentUnhealthy, RollbackFails, CommandFails
  <2> QED
    BY <2>1, VersionsStay
<1>3. CASE CreateSeedling(t)
  <2>1. s \in Seedlings /\ Runs(t, "CreateSeedling")
    BY <1>3, CurrentTyped DEF CreateSeedling, Runs
  <2>2. \/ record' = [record EXCEPT ![s] = [NoRecord EXCEPT !.version = task[t].version]]
        \/ UNCHANGED record
    BY <1>3 DEF CreateSeedling
  <2>3. \A r \in Seedlings : record'[r].version = record[r].version
                             \/ (r = s /\ record'[r].version = task[t].version)
    BY <1>1, <2>1, <2>2 DEF NoRecord
  <2> QED
    BY <2>1, <2>3 DEF RecordsMove, RecordMoves
<1>4. CASE UpdateSeedling(t)
  <2>1. s \in Seedlings /\ Runs(t, "UpdateSeedling")
    BY <1>4, CurrentTyped DEF UpdateSeedling, Runs
  <2>2. \/ Defined(s) /\ record' = [record EXCEPT ![s].version = task[t].version]
        \/ UNCHANGED record
    BY <1>4 DEF UpdateSeedling, Updatable
  <2>3. \A r \in Seedlings : record'[r].version = record[r].version
                             \/ (r = s /\ Defined(s) /\ record'[r].version = task[t].version)
    BY <1>1, <2>1, <2>2 DEF RecordType
  <2> QED
    BY <2>1, <2>3 DEF RecordsMove, RecordMoves
<1>5. CASE SetDesiredRunStatus(t)
  <2>1. s \in Seedlings
    BY <1>5, CurrentTyped DEF SetDesiredRunStatus, Runs
  <2>2. \/ record' = [record EXCEPT ![s].desired = (Current(t).op = "SetDesiredRunning")]
        \/ UNCHANGED record
    BY <1>5, Zenon DEF SetDesiredRunStatus
  <2>3. (Current(t).op = "SetDesiredRunning") \in BOOLEAN
    OBVIOUS
  <2> QED
    BY <2>1, <2>2, <2>3, VersionsStay, Zenon
<1>6. CASE ClearHealthCheckLogs(t) \/ DeleteSeedbankEntry(t)
  <2>1. s \in Seedlings
    BY <1>6, CurrentTyped DEF ClearHealthCheckLogs, DeleteSeedbankEntry, Runs
  <2>2. \/ record' = [record EXCEPT ![s].fails = 0]
        \/ record' = [record EXCEPT ![s] = NoRecord]
        \/ UNCHANGED record
    BY <1>6 DEF ClearHealthCheckLogs, DeleteSeedbankEntry
  <2> QED
    BY <2>1, <2>2, VersionsStay
<1>7. CASE CheckHealth(t) \/ RecheckHealth(t)
  <2>1. s \in Seedlings
    BY <1>7, CurrentTyped DEF CheckHealth, RecheckHealth, Runs
  <2>2. \/ RecordFailure(s)
        \/ record' = [record EXCEPT ![s].fails = 0]
        \/ UNCHANGED record
    BY <1>7 DEF CheckHealth, RecheckHealth
  <2> QED
    BY <2>1, <2>2, VersionsStay, FailureLeavesVersions
<1>9. CASE GiveUp(t)
  <2>1. s \in Seedlings /\ FALSE \in BOOLEAN
    BY <1>9, CurrentTyped DEF GiveUp, Runs
  <2>2. record' = [record EXCEPT ![s].desired = FALSE] \/ UNCHANGED record
    BY <1>9 DEF GiveUp
  <2> QED
    BY <2>1, <2>2, VersionsStay
<1>8. CASE Rollback(t)
  <2> DEFINE cmd == Latest(t)
             r == cmd.on[1]
  <2>1. cmd \in Commands /\ Undoing(t) /\ record' = UndoneRecord(cmd)
    BY <1>8, UndoingTyped DEF Rollback
  <2> HIDE DEF cmd
  <2>2. r \in Seedlings
    BY <2>1, ContainersOf DEF Commands
  <2>3. \/ record' = [record EXCEPT ![r] = NoRecord]
        \/ UNCHANGED record
        \/ /\ record' = [record EXCEPT ![r].version = cmd.was]
           /\ Updatable(r, cmd.was) /\ cmd.op = "UpdateSeedling"
    BY <2>1 DEF UndoneRecord
  <2>4. CASE /\ record' = [record EXCEPT ![r].version = cmd.was]
             /\ Updatable(r, cmd.was) /\ cmd.op = "UpdateSeedling"
    <3>1. /\ record'[r].version = cmd.was /\ Defined(r) /\ cmd.was > record[r].version
          /\ \A q \in Seedlings \ {r} : record'[q].version = record[q].version
      BY <1>1, <2>2, <2>4 DEF RecordType, Updatable
    <3>2. RecordMoves(t, r)
      BY <2>1, <2>4, <3>1 DEF RecordMoves, cmd
    <3> QED
      BY <3>1, <3>2 DEF RecordsMove, RecordMoves
  <2> QED
    BY <2>2, <2>3, <2>4, VersionsStay
<1> QED
  BY <1>2, <1>3, <1>4, <1>5, <1>6, <1>7, <1>8, <1>9 DEF Step, SeedbankStep, HealthStep

-----------------------------------------------------------------------------
(* The plans *)

\* The commands that a blueprint is made of.
OpsOf(b) ==
    CASE b = "new" -> {"CreateSeedling"}
      [] b = "reconcile" -> {"CreateSeedling", "UpdateSeedling", "SetDesiredRunning",
                             "CreateServiceAccount", "PullImage", "EnsureAgentMount",
                             "StartContainer", "StopContainer", "DropContainer"} \cup Building
      [] b = "start" -> {"SetDesiredRunning", "StartAgentContainer", "StartSeedling",
                         "CheckHealth", "GiveUp", "StopFailed", "ClearHealthCheckLogs"}
      [] b = "stop" -> {"SetDesiredStopped", "StopContainer"}
      [] b = "drop" -> {"DropContainer", "DeleteNetwork", "DeleteSeedbankEntry",
                        "DeleteResinRepository"}
      [] b = "recheck" -> {"RecheckHealth", "GiveUp", "StopFailed"}
Over(ops, s) == {cmd \in Commands : cmd.op \in ops /\ cmd.on \in {Main(s), Agent(s)}}
Own(b, s) == Over(OpsOf(b), s)

Recordings == {"CreateSeedling", "UpdateSeedling"}
\* Only the first command of a plan records a version.
RecordsFirst(plan) == \A i \in 2..Len(plan) : plan[i].op \notin Recordings
\* An agent's mount comes before anything that is built.
Guarded(plan) ==
    \A i \in 1..Len(plan) :
        plan[i].op \in Building => \E k \in 1..i - 1 : plan[k].op = "EnsureAgentMount"
Has(plan, op, c) == \E i \in 1..Len(plan) : plan[i].op = op /\ plan[i].on = c

\* One command more, or none.
LEMMA OwnStep ==
    ASSUME NEW ops, NEW s \in Seedlings, NEW c \in {Main(s), Agent(s)},
           NEW op \in Ops \cap ops, NEW condition
    PROVE  Only(condition, <<Cmd(op, c)>>) \in Seq(Over(ops, s))
<1>1. Cmd(op, c) \in Commands
  BY CmdTyped, ContainersOf
<1>2. Cmd(op, c) \in Over(ops, s)
  BY <1>1 DEF Over, Cmd
<1>3. <<Cmd(op, c)>> \in Seq(Over(ops, s)) /\ <<>> \in Seq(Over(ops, s))
  BY <1>2, EmptySeq
<1> QED
  BY <1>3 DEF Only

\* What a plan over some commands consists of.
LEMMA OverOps ==
    ASSUME NEW ops, NEW s, NEW p \in Seq(Over(ops, s))
    PROVE  /\ \A i \in 1..Len(p) : p[i].op \in ops /\ p[i].on \in {Main(s), Agent(s)}
           /\ \A more : ops \subseteq more => p \in Seq(Over(more, s))
<1>1. \A i \in 1..Len(p) : p[i] \in Over(ops, s)
  BY ElementOfSeq
<1>2. \A more : ops \subseteq more => Over(ops, s) \subseteq Over(more, s)
  BY DEF Over
<1> QED
  BY <1>1, <1>2, SeqMonotonic DEF Over

\* Nothing that is built is guarded by nothing.
LEMMA UnbuiltGuarded ==
    ASSUME NEW ops, NEW s, NEW p \in Seq(Over(ops, s)), ops \cap Building = {}
    PROVE  Guarded(p)
  BY OverOps DEF Guarded

\* One plan after the other.
LEMMA PlanAfterPlan ==
    ASSUME NEW S, NEW p \in Seq(S), NEW q \in Seq(S)
    PROVE  /\ p \o q \in Seq(S) /\ Len(p \o q) = Len(p) + Len(q)
           /\ \A i \in 1..Len(p) : (p \o q)[i] = p[i]
           /\ \A i \in 1..Len(q) : (p \o q)[Len(p) + i] = q[i]
           /\ \A i \in 1..Len(p \o q) : (p \o q)[i] =
                  IF i <= Len(p) THEN p[i] ELSE q[i - Len(p)]
           /\ Len(p) \in Nat /\ Len(q) \in Nat
<1>1. Len(p) \in Nat /\ Len(q) \in Nat
  BY LenProperties
<1>2. /\ p \o q \in Seq(S) /\ Len(p \o q) = Len(p) + Len(q)
      /\ \A i \in 1..Len(p) + Len(q) : (p \o q)[i] =
             IF i <= Len(p) THEN p[i] ELSE q[i - Len(p)]
  BY ConcatProperties
<1> DEFINE r == p \o q
<1> HIDE DEF r
<1>3. \A i \in 1..Len(p) : r[i] = p[i]
  BY <1>1, <1>2 DEF r
<1>4. \A i \in 1..Len(q) : r[Len(p) + i] = q[i]
  BY <1>1, <1>2 DEF r
<1> QED
  BY <1>1, <1>2, <1>3, <1>4 DEF r

\* What comes after a plan's first command adds no record.
LEMMA RecordsFirstGrows ==
    ASSUME NEW S, NEW p \in Seq(S), NEW q \in Seq(S), p # <<>>, RecordsFirst(p),
           \A i \in 1..Len(q) : q[i].op \notin Recordings
    PROVE  /\ p \o q \in Seq(S) /\ p \o q # <<>> /\ RecordsFirst(p \o q)
           /\ (p \o q)[1] = p[1]
<1> DEFINE r == p \o q
<1>1. /\ r \in Seq(S) /\ Len(r) = Len(p) + Len(q) /\ Len(p) \in Nat /\ Len(q) \in Nat
      /\ \A i \in 1..Len(r) : r[i] = IF i <= Len(p) THEN p[i] ELSE q[i - Len(p)]
  BY PlanAfterPlan
<1>2. Len(p) > 0
  BY EmptySeq
<1>3. r # <<>>
  BY <1>1, <1>2, EmptySeq
<1> HIDE DEF r
<1>4. r[1] = p[1]
  BY <1>1, <1>2
<1>5. ASSUME NEW i \in 2..Len(r) PROVE r[i].op \notin Recordings
  <2>1. CASE i <= Len(p)
    BY <1>1, <1>5, <2>1 DEF RecordsFirst
  <2>2. CASE i > Len(p)
    <3>1. i - Len(p) \in 1..Len(q) /\ r[i] = q[i - Len(p)]
      BY <1>1, <1>5, <2>2
    <3> QED
      BY <3>1
  <2> QED
    BY <1>1, <2>1, <2>2
<1> QED
  BY <1>1, <1>3, <1>4, <1>5 DEF r, RecordsFirst

\* What is built after an agent's mount is guarded by it.
LEMMA GuardedGrows ==
    ASSUME NEW S, NEW p \in Seq(S), NEW q \in Seq(S), Guarded(p),
           \/ Guarded(q)
           \/ \E k \in 1..Len(p) : p[k].op = "EnsureAgentMount"
    PROVE  Guarded(p \o q)
<1> DEFINE r == p \o q
<1>1. /\ r \in Seq(S) /\ Len(r) = Len(p) + Len(q) /\ Len(p) \in Nat /\ Len(q) \in Nat
      /\ \A i \in 1..Len(r) : r[i] = IF i <= Len(p) THEN p[i] ELSE q[i - Len(p)]
      /\ \A i \in 1..Len(p) : r[i] = p[i]
      /\ \A i \in 1..Len(q) : r[Len(p) + i] = q[i]
  BY PlanAfterPlan
<1> HIDE DEF r
<1>2. SUFFICES ASSUME NEW i \in 1..Len(r), r[i].op \in Building
               PROVE  \E k \in 1..i - 1 : r[k].op = "EnsureAgentMount"
  BY DEF Guarded, r
<1>3. CASE i <= Len(p)
  <2>1. PICK k \in 1..i - 1 : p[k].op = "EnsureAgentMount"
    BY <1>1, <1>2, <1>3 DEF Guarded
  <2> QED
    BY <1>1, <1>3, <2>1
<1>4. CASE i > Len(p)
  <2>1. i - Len(p) \in 1..Len(q) /\ q[i - Len(p)].op \in Building
    BY <1>1, <1>2, <1>4
  <2>2. CASE \E k \in 1..Len(p) : p[k].op = "EnsureAgentMount"
    BY <1>1, <1>4, <2>2
  <2>3. CASE Guarded(q)
    <3>1. PICK k \in 1..(i - Len(p)) - 1 : q[k].op = "EnsureAgentMount"
      BY <2>1, <2>3 DEF Guarded
    <3>2. Len(p) + k \in 1..i - 1 /\ r[Len(p) + k] = q[k]
      BY <1>1, <2>1, <3>1
    <3> QED
      BY <3>1, <3>2
  <2> QED
    BY <2>2, <2>3
<1> QED
  BY <1>1, <1>3, <1>4

\* A plan has what its parts have.
LEMMA HasGrows ==
    ASSUME NEW S, NEW p \in Seq(S), NEW q \in Seq(S), NEW op, NEW c
    PROVE  Has(p \o q, op, c) <=> Has(p, op, c) \/ Has(q, op, c)
<1> DEFINE r == p \o q
<1>1. /\ r \in Seq(S) /\ Len(r) = Len(p) + Len(q) /\ Len(p) \in Nat /\ Len(q) \in Nat
      /\ \A i \in 1..Len(r) : r[i] = IF i <= Len(p) THEN p[i] ELSE q[i - Len(p)]
      /\ \A i \in 1..Len(p) : r[i] = p[i]
      /\ \A i \in 1..Len(q) : r[Len(p) + i] = q[i]
  BY PlanAfterPlan
<1> HIDE DEF r
<1>2. ASSUME Has(r, op, c) PROVE Has(p, op, c) \/ Has(q, op, c)
  <2>1. PICK i \in 1..Len(r) : r[i].op = op /\ r[i].on = c
    BY <1>2 DEF Has
  <2>2. CASE i <= Len(p)
    BY <1>1, <2>1, <2>2 DEF Has
  <2>3. CASE i > Len(p)
    <3>1. i - Len(p) \in 1..Len(q) /\ r[i] = q[i - Len(p)]
      BY <1>1, <2>1, <2>3
    <3> QED
      BY <2>1, <3>1 DEF Has
  <2> QED
    BY <1>1, <2>1, <2>2, <2>3
<1>3. ASSUME Has(p, op, c) PROVE Has(r, op, c)
  <2>1. PICK i \in 1..Len(p) : p[i].op = op /\ p[i].on = c
    BY <1>3 DEF Has
  <2>2. i \in 1..Len(r) /\ r[i] = p[i]
    BY <1>1, <2>1
  <2> QED
    BY <2>1, <2>2 DEF Has
<1>4. ASSUME Has(q, op, c) PROVE Has(r, op, c)
  <2>1. PICK i \in 1..Len(q) : q[i].op = op /\ q[i].on = c
    BY <1>4 DEF Has
  <2>2. Len(p) + i \in 1..Len(r) /\ r[Len(p) + i] = q[i]
    BY <1>1, <2>1
  <2> QED
    BY <2>1, <2>2 DEF Has
<1> QED
  BY <1>2, <1>3, <1>4 DEF r

\* The agent's steps begin with its mount.
LEMMA AgentStepsPlanned ==
    ASSUME NEW t, NEW s \in Seedlings
    PROVE  /\ AgentSteps(t, s) \in Seq(Over(OpsOf("reconcile") \ Recordings, s))
           /\ s \in Secrets => /\ Guarded(AgentSteps(t, s))
                               /\ \E k \in 1..Len(AgentSteps(t, s)) :
                                     AgentSteps(t, s)[k].op = "EnsureAgentMount"
<1> DEFINE S == Over(OpsOf("reconcile") \ Recordings, s)
           p1 == Only(TRUE, <<Cmd("EnsureAgentMount", Agent(s))>>)
           p2 == Only(ObservedAgent(t, s) = "absent", <<Cmd("BuildContainer", Agent(s))>>)
           p3 == Only(ObservedAgent(t, s) # "running", <<Cmd("StartContainer", Agent(s))>>)
<1>1. {"EnsureAgentMount", "BuildContainer", "StartContainer"}
          \subseteq Ops \cap (OpsOf("reconcile") \ Recordings)
  BY DEF Ops, OpsOf, Recordings, Building
<1>2. Len(p1) = 1 /\ p1[1].op = "EnsureAgentMount"
  BY DEF Only, Cmd
<1>3. p1 \in Seq(S) /\ p2 \in Seq(S) /\ p3 \in Seq(S)
  BY <1>1, OwnStep
<1>4. AgentSteps(t, s) = IF s \in Secrets THEN p1 \o p2 \o p3 ELSE <<>>
  BY DEF AgentSteps, Only
<1> HIDE DEF S, p1, p2, p3
<1>5. p1 \o p2 \in Seq(S) /\ p1 \o p2 \o p3 \in Seq(S) /\ <<>> \in Seq(S)
  BY <1>2, <1>3, ConcatProperties, EmptySeq
<1>6. Guarded(p1) /\ \E k \in 1..Len(p1) : p1[k].op = "EnsureAgentMount"
  BY <1>2, <1>3 DEF Guarded, Building
<1>7. /\ Guarded(p1 \o p2)
      /\ \E k \in 1..Len(p1 \o p2) : (p1 \o p2)[k].op = "EnsureAgentMount"
  <2>1. Guarded(p1 \o p2)
    BY <1>2, <1>3, <1>6, GuardedGrows
  <2>2. 1 \in 1..Len(p1 \o p2) /\ (p1 \o p2)[1] = p1[1]
    BY <1>2, <1>3, PlanAfterPlan
  <2> QED
    BY <1>2, <2>1, <2>2
<1>8. /\ Guarded(p1 \o p2 \o p3)
      /\ \E k \in 1..Len(p1 \o p2 \o p3) : (p1 \o p2 \o p3)[k].op = "EnsureAgentMount"
  <2>1. Guarded(p1 \o p2 \o p3)
    BY <1>3, <1>5, <1>7, GuardedGrows
  <2>2. PICK k \in 1..Len(p1 \o p2) : (p1 \o p2)[k].op = "EnsureAgentMount"
    BY <1>7
  <2>3. k \in 1..Len(p1 \o p2 \o p3) /\ (p1 \o p2 \o p3)[k] = (p1 \o p2)[k]
    BY <1>3, <1>5, <2>2, PlanAfterPlan
  <2> QED
    BY <2>1, <2>2, <2>3
<1> QED
  BY <1>4, <1>5, <1>8 DEF S

\* The steps that bring a container to its version record nothing.
LEMMA ContainerStepsPlanned ==
    ASSUME NEW s \in Seedlings, NEW v
    PROVE  ContainerSteps(s, v) \in Seq(Over(OpsOf("reconcile") \ Recordings, s))
<1> DEFINE S == Over(OpsOf("reconcile") \ Recordings, s)
           stale == Exists(Main(s)) /\ container[Main(s)].version < v
           p1 == Only(stale /\ Running(Main(s)), <<Cmd("StopContainer", Main(s))>>)
           p2 == Only(stale, <<Cmd("DropContainer", Main(s))>>)
           p3 == Only(stale \/ ~Exists(Main(s)), <<Cmd("BuildContainer", Main(s))>>)
           p4 == Only(stale \/ ~Running(Main(s)), <<Cmd("StartContainer", Main(s))>>)
<1>1. {"StopContainer", "DropContainer", "BuildContainer", "StartContainer"}
          \subseteq Ops \cap (OpsOf("reconcile") \ Recordings)
  BY DEF Ops, OpsOf, Recordings, Building
<1>2. p1 \in Seq(S) /\ p2 \in Seq(S) /\ p3 \in Seq(S) /\ p4 \in Seq(S)
  BY <1>1, OwnStep
<1>3. ContainerSteps(s, v) = p1 \o p2 \o p3 \o p4
  BY DEF ContainerSteps
<1> HIDE DEF S, p1, p2, p3, p4
<1>4. p1 \o p2 \o p3 \o p4 \in Seq(S)
  BY <1>2, ConcatProperties
<1> QED
  BY <1>3, <1>4 DEF S

\* A reconcile records a version first, when it is newer than the seedbank's, and
\* mounts what the agent needs before it builds.
LEMMA ReconcilePlanned ==
    ASSUME TypeOK, NEW t \in Tasks, NEW s \in Seedlings, NEW v \in 0..MaxVersion
    PROVE  LET plan == ReconcilePlan(t, s, v) IN
           /\ plan \in Seq(Own("reconcile", s)) /\ plan # <<>> /\ RecordsFirst(plan)
           /\ plan[1].op \in Recordings <=> ~Defined(s) \/ record[s].version < v
           /\ s \in Secrets => Guarded(plan)
<1> DEFINE ops == OpsOf("reconcile")
           S == Over(ops, s)
           unbuilt == ops \ Building
           updates == record[s].version \in 1..v - 1
           p1 == Only(~Defined(s), <<Cmd("CreateSeedling", Main(s))>>)
           p2 == Only(updates, <<Cmd("UpdateSeedling", Main(s))>>)
           p3 == Only(TRUE, <<Cmd("SetDesiredRunning", Main(s))>>)
           p4 == Only(~account[Main(s)], <<Cmd("CreateServiceAccount", Main(s))>>)
           p5 == Only(s \in Secrets /\ ~(Provisioned(t) /\ account[Agent(s)]),
                      <<Cmd("CreateServiceAccount", Agent(s))>>)
           p6 == Only(image[s] = "AvailableFromResin", <<Cmd("PullImage", Main(s))>>)
           p7 == AgentSteps(t, s)
           p8 == ContainerSteps(s, v)
           base == p1 \o p2 \o p3
           early == base \o p4 \o p5 \o p6
<1>1. {"CreateSeedling", "UpdateSeedling", "SetDesiredRunning", "CreateServiceAccount", "PullImage"}
          \subseteq Ops \cap unbuilt
  BY DEF Ops, OpsOf, Building
<1>2. /\ p1 \in Seq(Over(unbuilt, s)) /\ p2 \in Seq(Over(unbuilt, s)) /\ p3 \in Seq(Over(unbuilt, s))
      /\ p4 \in Seq(Over(unbuilt, s)) /\ p5 \in Seq(Over(unbuilt, s)) /\ p6 \in Seq(Over(unbuilt, s))
  BY <1>1, OwnStep
<1>3. /\ ~Defined(s) => Len(p1) = 1 /\ p1[1].op = "CreateSeedling"
      /\ Defined(s) => Len(p1) = 0
      /\ updates => Len(p2) = 1 /\ p2[1].op = "UpdateSeedling"
      /\ ~updates => Len(p2) = 0
      /\ Len(p3) = 1 /\ p3[1].op = "SetDesiredRunning"
  <2>1. /\ ~Defined(s) => Len(p1) = 1 /\ p1[1].op = "CreateSeedling"
        /\ Defined(s) => Len(p1) = 0
    BY DEF Only, Cmd
  <2>2. /\ updates => Len(p2) = 1 /\ p2[1].op = "UpdateSeedling"
        /\ ~updates => Len(p2) = 0
    BY DEF Only, Cmd
  <2>3. Len(p3) = 1 /\ p3[1].op = "SetDesiredRunning"
    BY DEF Only, Cmd
  <2> QED
    BY <2>1, <2>2, <2>3
<1>4. /\ \A i \in 1..Len(p4) : p4[i].op = "CreateServiceAccount"
      /\ \A i \in 1..Len(p5) : p5[i].op = "CreateServiceAccount"
      /\ \A i \in 1..Len(p6) : p6[i].op = "PullImage"
  <2>1. \A i \in 1..Len(p4) : p4[i].op = "CreateServiceAccount"
    BY DEF Only, Cmd
  <2>2. \A i \in 1..Len(p5) : p5[i].op = "CreateServiceAccount"
    BY DEF Only, Cmd
  <2>3. \A i \in 1..Len(p6) : p6[i].op = "PullImage"
    BY DEF Only, Cmd
  <2> QED
    BY <2>1, <2>2, <2>3
<1>5. updates => Defined(s)
  BY DEF Defined
<1>6. record[s].version \in Nat /\ v \in Nat
  BY Bounds DEF TypeOK
<1>7. ~Defined(s) \/ updates <=> ~Defined(s) \/ record[s].version < v
  BY <1>6 DEF Defined
<1>8. /\ p7 \in Seq(Over(ops \ Recordings, s)) /\ p8 \in Seq(Over(ops \ Recordings, s))
      /\ s \in Secrets => /\ Guarded(p7)
                          /\ \E k \in 1..Len(p7) : p7[k].op = "EnsureAgentMount"
  BY AgentStepsPlanned, ContainerStepsPlanned
<1>9. ReconcilePlan(t, s, v) = early \o p7 \o p8
  BY DEF ReconcilePlan, Only
<1> HIDE DEF ops, unbuilt, updates, p1, p2, p3, p4, p5, p6, p7, p8
<1>10. base \in Seq(Over(unbuilt, s)) /\ early \in Seq(Over(unbuilt, s))
  BY <1>2, ConcatProperties
<1>11. /\ RecordsFirst(base) /\ base # <<>>
       /\ base[1].op \in Recordings <=> ~Defined(s) \/ updates
  <2> DEFINE q == p1 \o p2
  <2>1. /\ q \in Seq(Over(unbuilt, s)) /\ Len(q) = Len(p1) + Len(p2)
        /\ \A i \in 1..Len(p1) : q[i] = p1[i]
        /\ \A i \in 1..Len(p2) : q[Len(p1) + i] = p2[i]
    BY <1>2, PlanAfterPlan
  <2> HIDE DEF q
  <2>2. /\ Len(base) = Len(q) + 1
        /\ \A i \in 1..Len(q) : base[i] = q[i]
        /\ base[Len(q) + 1] = p3[1]
    <3>1. /\ q \o p3 \in Seq(Over(unbuilt, s))
          /\ Len(q \o p3) = Len(q) + Len(p3) /\ Len(q) \in Nat
          /\ \A i \in 1..Len(q) : (q \o p3)[i] = q[i]
          /\ \A i \in 1..Len(p3) : (q \o p3)[Len(q) + i] = p3[i]
      <4>1. q \in Seq(Over(unbuilt, s)) /\ p3 \in Seq(Over(unbuilt, s))
        BY <1>2, <2>1
      <4> QED
        BY <4>1, PlanAfterPlan
    <3>2. base = q \o p3 /\ 1 \in 1..Len(p3) /\ Len(p3) = 1
      BY <1>3 DEF q
    <3> QED
      BY <3>1, <3>2
  <2> HIDE DEF base
  <2>3. Len(q) = IF ~Defined(s) \/ updates THEN 1 ELSE 0
    BY <1>3, <1>5, <2>1
  <2>4. CASE ~Defined(s) \/ updates
    <3>1. q[1].op \in Recordings
      <4>1. CASE ~Defined(s)
        BY <1>3, <2>1, <4>1 DEF Recordings
      <4>2. CASE Defined(s) /\ updates
        BY <1>3, <2>1, <4>2 DEF Recordings
      <4> QED
        BY <2>4, <4>1, <4>2
    <3>2. Len(base) = 2 /\ base[1] = q[1] /\ base[2].op = "SetDesiredRunning"
      BY <1>3, <2>2, <2>3, <2>4
    <3>3. RecordsFirst(base)
      BY <3>2 DEF RecordsFirst, Recordings
    <3>4. base # <<>>
      <4>1. ASSUME NEW e, Len(e) = 0 PROVE base # e
        BY <3>2, <4>1
      <4> QED
        BY <4>1, EmptySeq, Zenon
    <3> QED
      BY <2>4, <3>1, <3>2, <3>3, <3>4
  <2>5. CASE ~(~Defined(s) \/ updates)
    <3>1. Len(base) = 1 /\ base[1].op = "SetDesiredRunning"
      BY <1>3, <2>2, <2>3, <2>5
    <3>2. ASSUME NEW e, Len(e) = 0 PROVE base # e
      BY <3>1, <3>2
    <3>3. base # <<>>
      BY <3>2, EmptySeq, Zenon
    <3> QED
      BY <2>5, <3>1, <3>3 DEF RecordsFirst, Recordings
  <2> QED
    BY <2>4, <2>5
<1> HIDE DEF base
<1>12. /\ base \in Seq(S) /\ p4 \in Seq(S) /\ p5 \in Seq(S) /\ p6 \in Seq(S)
       /\ p7 \in Seq(S) /\ p8 \in Seq(S)
  BY <1>2, <1>8, <1>10, OverOps DEF unbuilt
<1>13. /\ \A i \in 1..Len(p7) : p7[i].op \notin Recordings
       /\ \A i \in 1..Len(p8) : p8[i].op \notin Recordings
       /\ \A i \in 1..Len(p4) : p4[i].op \notin Recordings
       /\ \A i \in 1..Len(p5) : p5[i].op \notin Recordings
       /\ \A i \in 1..Len(p6) : p6[i].op \notin Recordings
  <2>1. /\ \A i \in 1..Len(p7) : p7[i].op \notin Recordings
        /\ \A i \in 1..Len(p8) : p8[i].op \notin Recordings
    BY <1>8, OverOps
  <2> QED
    BY <1>4, <2>1 DEF Recordings
<1> HIDE DEF S
<1>14. /\ base \o p4 \in Seq(S) /\ base \o p4 # <<>> /\ RecordsFirst(base \o p4)
       /\ (base \o p4)[1] = base[1]
  BY <1>11, <1>12, <1>13, RecordsFirstGrows
<1>15. /\ base \o p4 \o p5 \in Seq(S) /\ base \o p4 \o p5 # <<>> /\ RecordsFirst(base \o p4 \o p5)
       /\ (base \o p4 \o p5)[1] = base[1]
  BY <1>12, <1>13, <1>14, RecordsFirstGrows
<1>16. early \in Seq(S) /\ early # <<>> /\ RecordsFirst(early) /\ early[1] = base[1]
  BY <1>12, <1>13, <1>15, RecordsFirstGrows
<1> HIDE DEF early
<1>17. /\ early \o p7 \in Seq(S) /\ early \o p7 # <<>> /\ RecordsFirst(early \o p7)
       /\ (early \o p7)[1] = base[1]
  BY <1>12, <1>13, <1>16, RecordsFirstGrows
<1>18. /\ early \o p7 \o p8 \in Seq(S) /\ early \o p7 \o p8 # <<>> /\ RecordsFirst(early \o p7 \o p8)
       /\ (early \o p7 \o p8)[1] = base[1]
  BY <1>12, <1>13, <1>17, RecordsFirstGrows
<1>19. ASSUME s \in Secrets PROVE Guarded(early \o p7 \o p8)
  <2>1. Guarded(early)
    BY <1>10, UnbuiltGuarded DEF unbuilt
  <2>2. Guarded(early \o p7)
    BY <1>8, <1>12, <1>16, <1>19, <2>1, GuardedGrows
  <2>3. PICK k \in 1..Len(p7) : p7[k].op = "EnsureAgentMount"
    BY <1>8, <1>19
  <2>4. Len(early) + k \in 1..Len(early \o p7) /\ (early \o p7)[Len(early) + k] = p7[k]
    <3>1. /\ Len(early \o p7) = Len(early) + Len(p7) /\ Len(early) \in Nat /\ Len(p7) \in Nat
          /\ \A i \in 1..Len(p7) : (early \o p7)[Len(early) + i] = p7[i]
      BY <1>12, <1>16, PlanAfterPlan
    <3> QED
      BY <2>3, <3>1
  <2> QED
    BY <1>12, <1>17, <2>2, <2>3, <2>4, GuardedGrows
<1> QED
  BY <1>7, <1>9, <1>11, <1>18, <1>19 DEF S, ops, Own

\* A start, a stop, a recheck, a drop and the definition of a new seedling are made of
\* their own commands.
LEMMA OthersPlanned ==
    ASSUME NEW s \in Seedlings
    PROVE  /\ <<Cmd("CreateSeedling", Main(s))>> \in Seq(Own("new", s))
           /\ StartPlan(s) \in Seq(Own("start", s))
           /\ StopPlan(s) \in Seq(Own("stop", s))
           /\ DropPlan(s) \in Seq(Own("drop", s))
           /\ <<Cmd("RecheckHealth", Main(s))>> \in Seq(Own("recheck", s))
<1>1. <<Cmd("CreateSeedling", Main(s))>> \in Seq(Own("new", s))
  <2>1. "CreateSeedling" \in Ops \cap OpsOf("new")
    BY DEF Ops, OpsOf
  <2>2. Only(TRUE, <<Cmd("CreateSeedling", Main(s))>>) \in Seq(Own("new", s))
    BY <2>1, OwnStep DEF Own
  <2> QED
    BY <2>2 DEF Only
<1>2. <<Cmd("RecheckHealth", Main(s))>> \in Seq(Own("recheck", s))
  <2>1. "RecheckHealth" \in Ops \cap OpsOf("recheck")
    BY DEF Ops, OpsOf
  <2>2. Only(TRUE, <<Cmd("RecheckHealth", Main(s))>>) \in Seq(Own("recheck", s))
    BY <2>1, OwnStep DEF Own
  <2> QED
    BY <2>2 DEF Only
<1>3. StopPlan(s) \in Seq(Own("stop", s))
  <2> DEFINE p1 == Only(TRUE, <<Cmd("SetDesiredStopped", Main(s))>>)
             p2 == Only(Running(Main(s)), <<Cmd("StopContainer", Main(s))>>)
             p3 == Only(Running(Agent(s)), <<Cmd("StopContainer", Agent(s))>>)
  <2>1. {"SetDesiredStopped", "StopContainer"} \subseteq Ops \cap OpsOf("stop")
    BY DEF Ops, OpsOf
  <2>2. p1 \in Seq(Own("stop", s)) /\ p2 \in Seq(Own("stop", s)) /\ p3 \in Seq(Own("stop", s))
    BY <2>1, OwnStep DEF Own
  <2>3. StopPlan(s) = p1 \o p2 \o p3
    BY DEF StopPlan, Only
  <2> HIDE DEF p1, p2, p3
  <2> QED
    BY <2>2, <2>3, ConcatProperties
<1>4. StartPlan(s) \in Seq(Own("start", s))
  <2> DEFINE start == [Cmd("StartSeedling", Main(s)) EXCEPT !.was = IF Running(Main(s)) THEN 1 ELSE 0]
             p1 == Only(TRUE, <<Cmd("SetDesiredRunning", Main(s))>>)
             p2 == Only(Exists(Agent(s)) /\ ~Running(Agent(s)), <<Cmd("StartAgentContainer", Agent(s))>>)
             p3 == <<start, Cmd("ClearHealthCheckLogs", Main(s))>>
  <2>1. {"SetDesiredRunning", "StartAgentContainer"} \subseteq Ops \cap OpsOf("start")
    BY DEF Ops, OpsOf
  <2>2. p1 \in Seq(Own("start", s)) /\ p2 \in Seq(Own("start", s))
    BY <2>1, OwnStep DEF Own
  <2>3. p3 \in Seq(Own("start", s))
    <3>1. start \in Commands /\ start.op = "StartSeedling" /\ start.on = Main(s)
      BY ContainersOf, Bounds DEF Cmd, Commands, Ops
    <3>2. Cmd("ClearHealthCheckLogs", Main(s)) \in Commands
      BY ContainersOf, CmdTyped DEF Ops
    <3>4. Cmd("ClearHealthCheckLogs", Main(s)) \in Own("start", s)
      BY <3>2 DEF Own, Over, OpsOf, Cmd
    <3> HIDE DEF start
    <3>3. start \in Own("start", s)
      BY <3>1 DEF Own, Over, OpsOf
    <3> QED
      BY <3>3, <3>4
  <2>4. StartPlan(s) = p1 \o p2 \o p3
    BY DEF StartPlan, Only
  <2> HIDE DEF p1, p2, p3
  <2> QED
    BY <2>2, <2>3, <2>4, ConcatProperties
<1>5. DropPlan(s) \in Seq(Own("drop", s))
  <2> DEFINE p1 == Only(Exists(Main(s)), <<Cmd("DropContainer", Main(s))>>)
             p2 == Only(Exists(Agent(s)), <<Cmd("DropContainer", Agent(s))>>)
             p3 == Only(network[s], <<Cmd("DeleteNetwork", Main(s))>>)
             p4 == Only(Defined(s), <<Cmd("DeleteSeedbankEntry", Main(s))>>)
             p5 == Only(TRUE, <<Cmd("DeleteResinRepository", Main(s))>>)
  <2>1. {"DropContainer", "DeleteNetwork", "DeleteSeedbankEntry", "DeleteResinRepository"}
            \subseteq Ops \cap OpsOf("drop")
    BY DEF Ops, OpsOf
  <2>2. /\ p1 \in Seq(Own("drop", s)) /\ p2 \in Seq(Own("drop", s)) /\ p3 \in Seq(Own("drop", s))
        /\ p4 \in Seq(Own("drop", s)) /\ p5 \in Seq(Own("drop", s))
    BY <2>1, OwnStep DEF Own
  <2>3. DropPlan(s) = p1 \o p2 \o p3 \o p4 \o p5
    BY DEF DropPlan, Only
  <2> HIDE DEF p1, p2, p3, p4, p5
  <2> QED
    BY <2>2, <2>3, ConcatProperties
<1> QED
  BY <1>1, <1>2, <1>3, <1>4, <1>5

\* A drop has a command for each thing that it saw.
LEMMA DropHas ==
    ASSUME NEW s \in Seedlings
    PROVE  /\ Exists(Main(s)) => Has(DropPlan(s), "DropContainer", Main(s))
           /\ Exists(Agent(s)) => Has(DropPlan(s), "DropContainer", Agent(s))
           /\ network[s] => Has(DropPlan(s), "DeleteNetwork", Main(s))
           /\ Defined(s) => Has(DropPlan(s), "DeleteSeedbankEntry", Main(s))
<1> DEFINE p1 == Only(Exists(Main(s)), <<Cmd("DropContainer", Main(s))>>)
           p2 == Only(Exists(Agent(s)), <<Cmd("DropContainer", Agent(s))>>)
           p3 == Only(network[s], <<Cmd("DeleteNetwork", Main(s))>>)
           p4 == Only(Defined(s), <<Cmd("DeleteSeedbankEntry", Main(s))>>)
           p5 == <<Cmd("DeleteResinRepository", Main(s))>>
<1>1. /\ p1 \in Seq(Commands) /\ p2 \in Seq(Commands) /\ p3 \in Seq(Commands)
      /\ p4 \in Seq(Commands) /\ p5 \in Seq(Commands)
  BY ContainersOf, OneStep DEF Ops
<1>2. DropPlan(s) = p1 \o p2 \o p3 \o p4 \o p5
  BY DEF DropPlan
<1>3. /\ Exists(Main(s)) => Has(p1, "DropContainer", Main(s))
      /\ Exists(Agent(s)) => Has(p2, "DropContainer", Agent(s))
  BY DEF Has, Only, Cmd
<1>4. /\ network[s] => Has(p3, "DeleteNetwork", Main(s))
      /\ Defined(s) => Has(p4, "DeleteSeedbankEntry", Main(s))
  BY DEF Has, Only, Cmd
<1> HIDE DEF p1, p2, p3, p4, p5
<1>5. /\ p1 \o p2 \in Seq(Commands) /\ p1 \o p2 \o p3 \in Seq(Commands)
      /\ p1 \o p2 \o p3 \o p4 \in Seq(Commands)
  BY <1>1, ConcatProperties
<1>6. ASSUME NEW op, NEW c
      PROVE  /\ Has(p1, op, c) => Has(DropPlan(s), op, c)
             /\ Has(p2, op, c) => Has(DropPlan(s), op, c)
             /\ Has(p3, op, c) => Has(DropPlan(s), op, c)
             /\ Has(p4, op, c) => Has(DropPlan(s), op, c)
  <2> DEFINE q2 == p1 \o p2
             q3 == q2 \o p3
             q4 == q3 \o p4
  <2>1. q2 \in Seq(Commands) /\ q3 \in Seq(Commands) /\ q4 \in Seq(Commands)
    BY <1>5
  <2>2. Has(q2, op, c) <=> Has(p1, op, c) \/ Has(p2, op, c)
    BY <1>1, HasGrows
  <2> HIDE DEF q2
  <2>3. Has(q3, op, c) <=> Has(q2, op, c) \/ Has(p3, op, c)
    BY <1>1, <2>1, HasGrows
  <2> HIDE DEF q3
  <2>4. Has(q4, op, c) <=> Has(q3, op, c) \/ Has(p4, op, c)
    BY <1>1, <2>1, HasGrows
  <2> HIDE DEF q4
  <2>5. Has(q4 \o p5, op, c) <=> Has(q4, op, c) \/ Has(p5, op, c)
    BY <1>1, <2>1, HasGrows
  <2> QED
    BY <1>2, <2>2, <2>3, <2>4, <2>5 DEF q2, q3, q4
<1> QED
  BY <1>3, <1>4, <1>6

Records(plan) == plan # <<>> /\ Head(plan).op \in Recordings

\* What is planned, whatever the blueprint: only its own commands, a version recorded
\* before the rest and only if it is the request's, and nothing for a seedling with an
\* agent before the agent's mount.
LEMMA Planned ==
    ASSUME TypeOK, NEW t \in Tasks, ~Refused(t)
    PROVE  LET b == task[t].blueprint
               s == task[t].seedling
               plan == PlanOf(t) IN
           /\ plan \in Seq(Own(b, s)) /\ RecordsFirst(plan)
           /\ Records(plan) => b = "new" \/ task[t].version # 0
           /\ b = "reconcile" /\ ~Records(plan) => Defined(s) /\ VersionOf(t) <= record[s].version
           /\ s \in Secrets => Guarded(plan)
<1> DEFINE b == task[t].blueprint
           s == task[t].seedling
           plan == PlanOf(t)
<1>1. /\ s \in Seedlings /\ b \in Blueprints /\ VersionOf(t) \in 0..MaxVersion
      /\ record[s].version \in Nat /\ MaxVersion \in Nat
  <2>1. task[t] \in TaskType
    BY DEF TypeOK
  <2>2. s \in Seedlings /\ b \in Blueprints /\ task[t].version \in 0..MaxVersion
    BY <2>1 DEF TaskType
  <2>3. record[s].version \in 0..MaxVersion
    BY <2>2 DEF TypeOK
  <2> QED
    BY <2>2, <2>3, Bounds DEF VersionOf
<1>2. CASE b = "reconcile"
  <2>1. plan = ReconcilePlan(t, s, VersionOf(t)) /\ VersionOf(t) # 0
    BY <1>2 DEF PlanOf, Refused
  <2>2. /\ plan \in Seq(Own("reconcile", s)) /\ plan # <<>> /\ RecordsFirst(plan)
        /\ plan[1].op \in Recordings <=> ~Defined(s) \/ record[s].version < VersionOf(t)
        /\ s \in Secrets => Guarded(plan)
    BY <1>1, <2>1, ReconcilePlanned
  <2> HIDE DEF plan
  <2>3. Records(plan) <=> ~Defined(s) \/ record[s].version < VersionOf(t)
    BY <2>2 DEF Records
  <2>4. task[t].version = 0 => Defined(s) /\ record[s].version = VersionOf(t)
    BY <1>1, <2>1 DEF VersionOf, Defined
  <2> QED
    BY <1>1, <1>2, <2>2, <2>3, <2>4 DEF plan
<1>3. CASE b # "reconcile"
  <2>1. plan \in Seq(Own(b, s))
    BY <1>1, <1>3, OthersPlanned DEF PlanOf, Blueprints
  <2>2. CASE b = "new"
    <3>1. plan = <<Cmd("CreateSeedling", Main(s))>>
      BY <2>2 DEF PlanOf
    <3>2. RecordsFirst(plan) /\ Guarded(plan)
      BY <3>1 DEF RecordsFirst, Guarded, Cmd, Building
    <3> QED
      BY <2>1, <2>2, <3>2
  <2>3. CASE b # "new"
    <3>1. OpsOf(b) \cap Recordings = {} /\ OpsOf(b) \cap Building = {}
      BY <1>1, <1>3, <2>3 DEF OpsOf, Recordings, Blueprints, Building
    <3> HIDE DEF b, s, plan
    <3>2. \A i \in 1..Len(plan) : plan[i].op \in OpsOf(b)
      BY <2>1, OverOps DEF Own
    <3>3. Guarded(plan)
      BY <2>1, <3>1, UnbuiltGuarded DEF Own
    <3>4. RecordsFirst(plan)
      <4>1. Len(plan) \in Nat
        BY <2>1, LenProperties
      <4> QED
        BY <3>1, <3>2, <4>1 DEF RecordsFirst
    <3>5. ~Records(plan)
      <4> SUFFICES ASSUME plan # <<>> PROVE Head(plan).op \in OpsOf(b)
        BY <3>1 DEF Records
      <4> QED
        BY <2>1, HeadTailProperties DEF Own, Over
    <3> QED
      BY <1>3, <2>1, <3>3, <3>4, <3>5 DEF b, s, plan
  <2> QED
    BY <2>2, <2>3
<1> QED
  BY <1>2, <1>3

-----------------------------------------------------------------------------
(* What the tasks have in hand *)

\* A task runs, and remembers, only commands of its blueprint on its seedling; nobody
\* but an operator defines or drops a seedling.
InHand(t) ==
    /\ task[t].todo \in Seq(Own(task[t].blueprint, task[t].seedling))
    /\ task[t].journal \in Seq(Own(task[t].blueprint, task[t].seedling))
    /\ RecordsFirst(task[t].todo)
    /\ task[t].phase # "run" => task[t].todo = <<>>
    /\ task[t].phase \in {"idle", "discover"} => task[t].journal = <<>>
    /\ \A e \in task[t].sweep : e.blueprint \notin {"new", "drop"}
    /\ t = Watchdog => task[t].blueprint \notin {"new", "drop"}
PlansInHand == \A t \in Tasks : InHand(t)

\* The command at hand is one of the blueprint's, on the task's seedling.
LEMMA CurrentInHand ==
    ASSUME TypeOK, NEW t \in Tasks, InHand(t), task[t].todo # <<>>
    PROVE  /\ Current(t).op \in OpsOf(task[t].blueprint)
           /\ Current(t).on \in {Main(task[t].seedling), Agent(task[t].seedling)}
           /\ Current(t).on[1] = task[t].seedling
           /\ task[t].blueprint \in Blueprints /\ task[t].seedling \in Seedlings
<1>1. task[t] \in TaskType
  BY DEF TypeOK
<1>2. task[t].blueprint \in Blueprints /\ task[t].seedling \in Seedlings
  BY <1>1 DEF TaskType
<1>3. Current(t) \in Own(task[t].blueprint, task[t].seedling)
  BY HeadTailProperties DEF InHand, Current
<1> QED
  BY <1>2, <1>3, ContainersOf DEF Own, Over

\* What is left of a plan after its first command.
LEMMA TailInHand ==
    ASSUME NEW S, NEW plan \in Seq(S), plan # <<>>, RecordsFirst(plan)
    PROVE  /\ Tail(plan) \in Seq(S) /\ RecordsFirst(Tail(plan))
           /\ \A i \in 1..Len(Tail(plan)) : Tail(plan)[i].op \notin Recordings
           /\ ~Records(Tail(plan))
<1> DEFINE rest == Tail(plan)
<1>1. /\ rest \in Seq(S) /\ Len(rest) = Len(plan) - 1 /\ Len(plan) \in Nat
      /\ \A i \in 1..Len(rest) : rest[i] = plan[i + 1]
  BY HeadTailProperties, LenProperties
<1> HIDE DEF rest
<1>2. \A i \in 1..Len(rest) : rest[i].op \notin Recordings
  BY <1>1 DEF RecordsFirst
<1>3. RecordsFirst(rest)
  BY <1>1, <1>2 DEF RecordsFirst
<1>4. ~Records(rest)
  <2> SUFFICES ASSUME rest # <<>> PROVE Head(rest).op \notin Recordings
    BY DEF Records
  <2>1. Len(rest) \in Nat \ {0} /\ Head(rest) = rest[1]
    BY <1>1, EmptySeq
  <2> QED
    BY <1>2, <2>1
<1> QED
  BY <1>1, <1>2, <1>3, <1>4 DEF rest

\* A task is given a job, by a connection or in a task of its own.
Given(t, b, s, v, rest) ==
    task'[t] = Job(b, s, v, rest) \/ task'[t] = [Job(b, s, v, rest) EXCEPT !.spawned = TRUE]

\* A task that begins a blueprint has nothing in hand yet.
LEMMA JobInHand ==
    ASSUME NEW t, NEW b, NEW s, NEW v, NEW rest, Given(t, b, s, v, rest),
           \A e \in rest : e.blueprint \notin {"new", "drop"},
           t = Watchdog => b \notin {"new", "drop"}
    PROVE  InHand(t)'
<1>1. /\ task'[t].phase = "discover" /\ task'[t].todo = <<>> /\ task'[t].journal = <<>>
      /\ task'[t].sweep = rest /\ task'[t].blueprint = b
  BY DEF Given, Job
<1>2. RecordsFirst(<<>>)
  BY EmptySeq DEF RecordsFirst
<1>3. <<>> \in Seq(Own(task'[t].blueprint, task'[t].seedling))
  BY EmptySeq
<1>4. (InHand(t))' <=>
        /\ task'[t].todo \in Seq(Own(task'[t].blueprint, task'[t].seedling))
        /\ task'[t].journal \in Seq(Own(task'[t].blueprint, task'[t].seedling))
        /\ RecordsFirst(task'[t].todo)
        /\ task'[t].phase # "run" => task'[t].todo = <<>>
        /\ task'[t].phase \in {"idle", "discover"} => task'[t].journal = <<>>
        /\ \A e \in task'[t].sweep : e.blueprint \notin {"new", "drop"}
        /\ t = Watchdog => task'[t].blueprint \notin {"new", "drop"}
  BY DEF InHand
<1> QED
  BY <1>1, <1>2, <1>3, <1>4

\* A task that is idle has nothing in hand.
LEMMA IdleInHand ==
    ASSUME NEW t \in Tasks, InHand(t), task'[t].phase = "idle", task'[t].sweep = {},
           task'[t].todo = <<>>, task'[t].journal = <<>>,
           task'[t].blueprint = task[t].blueprint
    PROVE  InHand(t)'
<1>1. RecordsFirst(<<>>)
  BY EmptySeq DEF RecordsFirst
<1>2. <<>> \in Seq(Own(task'[t].blueprint, task'[t].seedling))
  BY EmptySeq
<1> QED
  BY <1>1, <1>2 DEF InHand

\* A step of a task keeps to its blueprint.
LEMMA MovesInHand ==
    ASSUME TypeOK, NEW t \in Tasks, InHand(t), TaskMoves(t)
    PROVE  InHand(t)'
<1> DEFINE b == task[t].blueprint
           s == task[t].seedling
<1>1. task[t] \in TaskType
  BY DEF TypeOK
<1>2. b \in Blueprints /\ s \in Seedlings
  BY <1>1 DEF TaskType
<1>3. CASE Ends(t)
  <2>1. CASE \E e \in task[t].sweep :
                 task'[t] = Job(e.blueprint, e.seedling, 0, task[t].sweep \ {e})
    <3>1. PICK e \in task[t].sweep :
                 task'[t] = Job(e.blueprint, e.seedling, 0, task[t].sweep \ {e})
      BY <2>1
    <3>2. /\ e.blueprint \notin {"new", "drop"}
          /\ \A f \in task[t].sweep \ {e} : f.blueprint \notin {"new", "drop"}
      BY DEF InHand
    <3> QED
      BY <3>1, <3>2, JobInHand DEF Given
  <2> QED
    BY <1>3, <2>1, IdleInHand DEF Ends
<1>4. CASE Plans(t)
  <2>1. PlanOf(t) \in Seq(Own(b, s)) /\ RecordsFirst(PlanOf(t))
    BY <1>4, Planned DEF Plans
  <2>2. task'[t].blueprint = b /\ task'[t].seedling = s /\ task'[t].sweep = task[t].sweep
    BY <1>4 DEF Plans, SameJob
  <2>3. /\ task'[t].todo = PlanOf(t) /\ task'[t].journal = task[t].journal
        /\ task'[t].phase = "run"
    BY <1>4 DEF Plans
  <2> QED
    BY <2>1, <2>2, <2>3 DEF InHand
<1>5. CASE Fails(t)
  <2>1. <<>> \in Seq(Own(b, s)) /\ RecordsFirst(<<>>)
    BY EmptySeq DEF RecordsFirst
  <2> QED
    BY <1>5, <2>1 DEF Fails, SameJob, InHand
<1>6. CASE Pops(t)
  <2> DEFINE journal == task[t].journal
  <2>1. journal \in Seq(Own(b, s)) /\ journal # <<>>
    BY <1>6 DEF InHand, Pops, Undoing
  <2>2. Len(journal) \in Nat /\ \A i \in 1..Len(journal) : journal[i] \in Own(b, s)
    BY <2>1, LenProperties, ElementOfSeq
  <2>3. SubSeq(journal, 1, Len(journal) - 1) \in Seq(Own(b, s))
    <3>1. \A i \in 1..Len(journal) - 1 : journal[i] \in Own(b, s)
      BY <2>2
    <3> QED
      BY <2>2, <3>1, SubSeqProperties
  <2>4. Latest(t) \in Own(b, s)
    <3>1. Len(journal) \in 1..Len(journal)
      BY <2>1, <2>2, EmptySeq
    <3> QED
      BY <2>2, <3>1 DEF Latest
  <2>5. LeftToUndo(Latest(t)) \in Seq(Own(b, s))
    <3>1. PICK cmd \in Own(b, s) : cmd = Latest(t)
      BY <2>4
    <3>2. CASE LeftToUndo(cmd) = <<>>
      BY <3>1, <3>2, EmptySeq
    <3>3. CASE LeftToUndo(cmd) # <<>>
      <4> DEFINE rest == [cmd EXCEPT !.op = "CreateNetwork"]
      <4>1. LeftToUndo(cmd) = <<rest>> /\ cmd.op = "BuildContainer"
        BY <3>3 DEF LeftToUndo, Only
      <4>2. "CreateNetwork" \in OpsOf(b)
        BY <1>2, <3>1, <4>1 DEF Own, Over, OpsOf, Blueprints, Building
      <4>3. rest \in Commands /\ rest.op = "CreateNetwork" /\ rest.on = cmd.on
        BY <3>1, <4>1 DEF Own, Over, Commands, Ops
      <4> HIDE DEF rest
      <4>4. rest \in Own(b, s)
        BY <3>1, <4>2, <4>3 DEF Own, Over
      <4> QED
        BY <3>1, <4>1, <4>4
    <3> QED
      BY <3>2, <3>3
  <2>6. Earlier(t) \in Seq(Own(b, s)) /\ Earlier(t) \o LeftToUndo(Latest(t)) \in Seq(Own(b, s))
    BY <2>3, <2>5, ConcatProperties DEF Earlier
  <2>7. task'[t].journal \in Seq(Own(b, s))
    BY <1>6, <2>6 DEF Pops
  <2>8. task'[t].todo = task[t].todo /\ task'[t].phase = "undo" /\ SameJob(t)
    BY <1>6 DEF Pops
  <2> HIDE DEF journal
  <2>9. /\ task[t].todo \in Seq(Own(b, s)) /\ RecordsFirst(task[t].todo) /\ task[t].todo = <<>>
        /\ \A e \in task[t].sweep : e.blueprint \notin {"new", "drop"}
        /\ t = Watchdog => b \notin {"new", "drop"}
    BY <1>6 DEF Pops, Undoing, InHand
  <2> QED
    BY <2>7, <2>8, <2>9 DEF SameJob, InHand
<1>7. ASSUME NEW cmd \in Commands, Completes(t, cmd)
      PROVE  InHand(t)'
  <2>1. /\ Current(t).op \in OpsOf(b) /\ Current(t).on \in {Main(s), Agent(s)}
        /\ task[t].todo \in Seq(Own(b, s)) /\ task[t].todo # <<>> /\ RecordsFirst(task[t].todo)
        /\ task[t].journal \in Seq(Own(b, s))
    BY <1>7, CurrentInHand DEF Completes, InHand
  <2>2. /\ "CheckHealth" \in OpsOf(b) => "StartSeedling" \in OpsOf(b)
        /\ "ConnectNetwork" \in OpsOf(b) => "BuildContainer" \in OpsOf(b)
    BY <1>2 DEF OpsOf, Blueprints, Building
  <2>3. cmd \in Own(b, s)
    BY <1>7, <2>1, <2>2 DEF Completes, Own, Over, Succeeds
  <2>4. Append(task[t].journal, cmd) \in Seq(Own(b, s))
    BY <2>1, <2>3, AppendProperties
  <2>5. Tail(task[t].todo) \in Seq(Own(b, s)) /\ RecordsFirst(Tail(task[t].todo))
    BY <2>1, TailInHand
  <2> QED
    BY <1>7, <2>4, <2>5 DEF Completes, SameJob, InHand
<1>8. ASSUME NEW cmd \in Commands, Continues(t, cmd)
      PROVE  InHand(t)'
  <2>1. /\ Current(t).op \in OpsOf(b) /\ Current(t).on \in {Main(s), Agent(s)}
        /\ task[t].todo \in Seq(Own(b, s)) /\ task[t].todo # <<>> /\ RecordsFirst(task[t].todo)
    BY <1>8, CurrentInHand DEF Continues, InHand
  <2>2. cmd.op \in OpsOf(b) \ Recordings
    BY <1>2, <1>8, <2>1 DEF Continues, Follows, OpsOf, Blueprints, Building, Recordings
  <2>3. cmd \in Own(b, s)
    BY <1>8, <2>1, <2>2 DEF Continues, Own, Over
  <2> DEFINE first == <<cmd>>
  <2>4. first \in Seq(Own(b, s)) /\ first # <<>> /\ RecordsFirst(first)
    <3>1. Len(first) = 1 /\ first \in Seq(Own(b, s))
      BY <2>3
    <3>2. Len(<<>>) = 0
      OBVIOUS
    <3> QED
      BY <3>1, <3>2 DEF RecordsFirst
  <2> HIDE DEF first
  <2>5. /\ Tail(task[t].todo) \in Seq(Own(b, s))
        /\ \A i \in 1..Len(Tail(task[t].todo)) : Tail(task[t].todo)[i].op \notin Recordings
    BY <2>1, TailInHand
  <2>6. first \o Tail(task[t].todo) \in Seq(Own(b, s)) /\ RecordsFirst(first \o Tail(task[t].todo))
    BY <2>4, <2>5, RecordsFirstGrows
  <2>7. task'[t].todo = first \o Tail(task[t].todo)
    BY <1>8 DEF Continues, first
  <2> QED
    BY <1>8, <2>6, <2>7 DEF Continues, SameJob, InHand
<1> QED
  BY <1>3, <1>4, <1>5, <1>6, <1>7, <1>8 DEF TaskMoves

\* The newest version that was asked for, of a core seedling; the others stay at version 1.
Top(s) == IF s \in Core THEN budget.newest ELSE 1

\* What a request makes of an idle operator: a version that it asks for is the newest.
Asks(o) ==
    /\ \A t \in Tasks \ {o} : task'[t] = task[t]
    /\ budget'.newest \in Nat /\ budget'.newest >= budget.newest
    /\ budget'.newest # budget.newest => Core # {}
    /\ \E b \in Blueprints, s \in Seedlings, v \in 0..MaxVersion :
          /\ Given(o, b, s, v, {})
          /\ v # 0 \/ b = "new" => v = Top(s)'

LEMMA RequestAsks ==
    ASSUME TypeOK, Request
    PROVE  \E o \in Operators : Asks(o)
<1>1. PICK o \in Operators, s \in Seedlings :
          \/ RequestNew(o, s) \/ PushImage(o, s) \/ RequestReconcile(o, s)
          \/ RequestStart(o, s) \/ RequestStop(o, s) \/ RequestDrop(o, s)
  BY DEF Request
<1>2. /\ o \in Tasks /\ task \in [Tasks -> TaskType]
      /\ budget \in [requests : 0..MaxRequests, faults : 0..MaxFaults, newest : 1..MaxVersion]
      /\ {0, 1} \subseteq 0..MaxVersion /\ MaxVersion \in Nat
  BY Bounds DEF TypeOK
<1>3. ASSUME NEW b \in Blueprints, NEW v \in {0, 1}, Send(o, b, s, v),
             v # 0 \/ b = "new" => s \notin Core /\ v = 1
      PROVE  Asks(o)
  <2>1. budget'.newest = budget.newest /\ budget.newest \in Nat
    BY <1>2, <1>3 DEF Send
  <2>2. /\ task'[o] = Job(b, s, v, {})
        /\ \A t \in Tasks \ {o} : task'[t] = task[t]
    BY <1>2, <1>3 DEF Send
  <2>3. v \in 0..MaxVersion /\ (v # 0 \/ b = "new" => v = Top(s)')
    BY <1>2, <1>3 DEF Top
  <2> QED
    BY <2>1, <2>2, <2>3 DEF Asks, Given
<1>4. CASE RequestReconcile(o, s)
  <2>1. PICK v \in budget.newest..MaxVersion :
            /\ task' = [task EXCEPT ![o] = Job("reconcile", s, v, {})]
            /\ budget' = [budget EXCEPT !.requests = @ - 1, !.newest = v]
    BY <1>4 DEF RequestReconcile
  <2>2. /\ budget'.newest = v /\ v \in Nat /\ v >= budget.newest /\ v \in 0..MaxVersion
        /\ s \in Core
    <3>1. budget.newest \in 1..MaxVersion
      BY <1>2
    <3>2. v \in Nat /\ v >= budget.newest /\ v \in 0..MaxVersion
      BY <1>2, <2>1, <3>1
    <3>3. budget'.newest = v
      BY <1>2, <2>1
    <3>4. s \in Core
      BY <1>4 DEF RequestReconcile
    <3> QED
      BY <3>2, <3>3, <3>4
  <2>3. /\ task'[o] = Job("reconcile", s, v, {})
        /\ \A t \in Tasks \ {o} : task'[t] = task[t]
    BY <1>2, <2>1
  <2>4. v = Top(s)' /\ "reconcile" \in Blueprints
    BY <2>2 DEF Top, Blueprints
  <2> QED
    BY <2>2, <2>3, <2>4 DEF Asks, Given
<1>5. CASE PushImage(o, s)
  <2>1. /\ task' = [task EXCEPT ![o] = [Job("reconcile", s, 0, {}) EXCEPT !.spawned = TRUE]]
        /\ budget' = [budget EXCEPT !.requests = @ - 1]
    BY <1>5 DEF PushImage
  <2>2. /\ task'[o] = [Job("reconcile", s, 0, {}) EXCEPT !.spawned = TRUE]
        /\ \A t \in Tasks \ {o} : task'[t] = task[t]
    BY <1>2, <2>1
  <2>3. budget'.newest = budget.newest /\ budget.newest \in Nat
    BY <1>2, <2>1
  <2>4. Given(o, "reconcile", s, 0, {}) /\ "reconcile" \in Blueprints /\ 0 \in 0..MaxVersion
    BY <1>2, <2>2 DEF Given, Blueprints
  <2> QED
    BY <2>2, <2>3, <2>4 DEF Asks
<1>6. CASE ~RequestReconcile(o, s) /\ ~PushImage(o, s)
  <2>1. PICK b \in Blueprints, v \in {0, 1} :
            Send(o, b, s, v) /\ (v # 0 \/ b = "new" => s \notin Core /\ v = 1)
    BY <1>1, <1>6 DEF RequestNew, RequestStart, RequestStop, RequestDrop, Blueprints
  <2> QED
    BY <1>3, <2>1
<1> QED
  BY <1>4, <1>5, <1>6

\* A crash leaves every task with nothing to do.
LEMMA CrashIdles ==
    ASSUME TypeOK, Crash, NEW t \in Tasks
    PROVE  /\ task'[t].phase = "idle" /\ task'[t].sweep = {}
           /\ task'[t].todo = <<>> /\ task'[t].journal = <<>>
           /\ task'[t].blueprint = task[t].blueprint /\ task'[t].seedling = task[t].seedling
           /\ task'[t].version = task[t].version /\ task'[t].result = "none"
<1>1. task[t] \in TaskType
  BY DEF TypeOK
<1>2. task'[t] = Idle(t, "none")
  BY DEF Crash
<1> QED
  BY <1>1, <1>2 DEF Idle, TaskType

\* So does a client that hangs up, its own task.
LEMMA HangUpIdles ==
    ASSUME TypeOK, NEW o \in Operators, HangUp(o)
    PROVE  /\ \A t \in Tasks \ {o} : task'[t] = task[t]
           /\ task'[o].phase = "idle" /\ task'[o].sweep = {}
           /\ task'[o].todo = <<>> /\ task'[o].journal = <<>>
           /\ task'[o].blueprint = task[o].blueprint /\ task'[o].seedling = task[o].seedling
           /\ task'[o].version = task[o].version /\ task'[o].result = "none"
           /\ o \in Tasks
<1>1. task \in [Tasks -> TaskType] /\ o \in Tasks /\ task[o] \in TaskType
  BY Bounds DEF TypeOK
<1>2. task' = [task EXCEPT ![o] = Idle(o, "none")]
  BY DEF HangUp
<1>3. task'[o] = Idle(o, "none") /\ \A t \in Tasks \ {o} : task'[t] = task[t]
  BY <1>1, <1>2
<1> QED
  BY <1>1, <1>3 DEF Idle, TaskType

\* A sweep begins with a blueprint of the watchdog's.
LEMMA SweepBegins ==
    ASSUME TypeOK, Sweep
    PROVE  /\ \A t \in Tasks \ {Watchdog} : task'[t] = task[t]
           /\ \E e \in SweepPlan : task'[Watchdog] = Job(e.blueprint, e.seedling, 0, SweepPlan \ {e})
           /\ \A e \in SweepPlan : e.blueprint \notin {"new", "drop"}
<1>1. PICK e \in SweepPlan :
          task' = [task EXCEPT ![Watchdog] = Job(e.blueprint, e.seedling, 0, SweepPlan \ {e})]
  BY DEF Sweep, Begin
<1>2. \A f \in SweepPlan : f.blueprint \notin {"new", "drop"}
  BY DEF SweepPlan, Each, Entry
<1>3. task \in [Tasks -> TaskType] /\ Watchdog \in Tasks
  BY Bounds DEF TypeOK
<1> QED
  BY <1>1, <1>2, <1>3, Zenon

\* Whatever is asked and whatever fails, tasks keep to their blueprints.
LEMMA PlansKept == TypeOK /\ PlansInHand /\ [Next]_vars => PlansInHand'
<1> SUFFICES ASSUME TypeOK, PlansInHand, [Next]_vars PROVE PlansInHand'
  OBVIOUS
<1>1. ASSUME NEW u \in Tasks, task'[u] = task[u] PROVE InHand(u)'
  BY <1>1 DEF PlansInHand, InHand
<1>2. CASE UNCHANGED task
  BY <1>1, <1>2 DEF PlansInHand
<1>3. ASSUME NEW t \in Tasks, Step(t) \/ Failure(t)
      PROVE  PlansInHand'
  <2>1. TaskMoves(t)
    BY <1>3, StepMoves
  <2>2. InHand(t)'
    BY <2>1, MovesInHand DEF PlansInHand
  <2>3. \A u \in Tasks \ {t} : task'[u] = task[u]
    BY <2>1 DEF TaskMoves
  <2> QED
    BY <1>1, <2>2, <2>3 DEF PlansInHand
<1>4. CASE Request
  <2>1. PICK o \in Operators : Asks(o)
    BY <1>4, RequestAsks
  <2>2. InHand(o)'
    <3>1. o # Watchdog
      BY SeedlingAssumption
    <3> QED
      BY <2>1, <3>1, JobInHand DEF Asks
  <2> QED
    BY <1>1, <2>1, <2>2 DEF Asks, PlansInHand
<1>5. CASE Sweep
  <2>1. InHand(Watchdog)'
    <3>1. PICK e \in SweepPlan :
              task'[Watchdog] = Job(e.blueprint, e.seedling, 0, SweepPlan \ {e})
      BY <1>5, SweepBegins
    <3>2. /\ e.blueprint \notin {"new", "drop"}
          /\ \A f \in SweepPlan \ {e} : f.blueprint \notin {"new", "drop"}
      BY <1>5, SweepBegins
    <3>3. Given(Watchdog, e.blueprint, e.seedling, 0, SweepPlan \ {e})
      BY <3>1 DEF Given
    <3> QED
      BY <3>2, <3>3, JobInHand
  <2> QED
    BY <1>1, <1>5, <2>1, SweepBegins DEF PlansInHand
<1>6. CASE Crash
  <2>1. \A t \in Tasks : InHand(t)'
    BY <1>6, CrashIdles, IdleInHand DEF PlansInHand
  <2> QED
    BY <2>1 DEF PlansInHand
<1>7. ASSUME NEW o \in Operators, HangUp(o)
      PROVE  PlansInHand'
  <2>1. InHand(o)'
    BY <1>7, HangUpIdles, IdleInHand DEF PlansInHand
  <2> QED
    BY <1>1, <1>7, <2>1, HangUpIdles DEF PlansInHand
<1>8. CASE ContainerExits
  BY <1>2, <1>8 DEF ContainerExits
<1> QED
  BY <1>2, <1>3, <1>4, <1>5, <1>6, <1>7, <1>8 DEF Next, vars

LEMMA PlansInit == Init => PlansInHand
<1> SUFFICES ASSUME Init, NEW t \in Tasks PROVE InHand(t)
  BY DEF PlansInHand
<1>1. /\ task[t].phase = "idle" /\ task[t].todo = <<>> /\ task[t].journal = <<>>
      /\ task[t].sweep = {} /\ task[t].blueprint = "stop"
  BY DEF Init, Job
<1>2. RecordsFirst(<<>>) /\ <<>> \in Seq(Own(task[t].blueprint, task[t].seedling))
  BY EmptySeq DEF RecordsFirst
<1> QED
  BY <1>1, <1>2 DEF InHand

-----------------------------------------------------------------------------
(* Versions: no container ahead of its seedling's definition *)

\* A task that records a version, or is about to plan with a request's, works for an
\* operator and has the newest one that was asked for; one that builds has a version that
\* is recorded; a rollback returns to none that is newer than what was asked for.
Versioned(t) ==
    LET s == task[t].seedling IN
    /\ Records(task[t].todo) => t # Watchdog /\ task[t].version = Top(s)
    /\ task[t].phase = "discover" /\ (task[t].version # 0 \/ task[t].blueprint = "new")
       => t # Watchdog /\ task[t].version = Top(s)
    /\ task[t].version <= Top(s)
    /\ task[t].phase = "run" /\ task[t].blueprint = "reconcile" /\ ~Records(task[t].todo)
       => (Defined(s) => task[t].version <= record[s].version)
    /\ \A i \in 1..Len(task[t].journal) :
          task[t].journal[i].op = "UpdateSeedling" => task[t].journal[i].was <= Top(s)
VersionsBounded ==
    \A s \in Seedlings :
        /\ record[s].version <= Top(s)
        /\ Exists(Main(s)) => container[Main(s)].version <= Top(s)
Versions == VersionsBounded /\ \A t \in Tasks : Versioned(t)

LEMMA TopTyped ==
    ASSUME TypeOK, NEW s
    PROVE  Top(s) \in Nat \ {0}
<1>1. budget.newest \in 1..MaxVersion
  BY DEF TypeOK
<1> QED
  BY <1>1, Bounds DEF Top

\* Versions are asked for by requests only.
LEMMA NewestStays ==
    ASSUME TypeOK,
           \/ \E t \in Tasks : Step(t) \/ Failure(t)
           \/ \E o \in Operators : HangUp(o)
           \/ Sweep \/ Crash \/ ContainerExits
    PROVE  budget'.newest = budget.newest
<1>1. budget \in [requests : 0..MaxRequests, faults : 0..MaxFaults, newest : 1..MaxVersion]
  BY DEF TypeOK
<1>2. CASE UNCHANGED budget
  BY <1>2
<1>3. CASE Fault
  BY <1>1, <1>3 DEF Fault
<1> QED
  BY <1>2, <1>3
     DEF Step, Failure, Plan, Finish, Rollback, SeedbankStep, DockerStep, HealthStep,
         CreateSeedling, UpdateSeedling, SetDesiredRunStatus, ClearHealthCheckLogs,
         DeleteSeedbankEntry, CreateServiceAccount, PullImage, DeleteResinRepository,
         EnsureAgentMount, BuildContainer, FindNetwork, CreateNetwork, ConnectNetwork,
         StartContainer, StopContainer, DropContainer,
         DeleteNetwork, StartSeedling, CheckHealth, RecheckHealth, GiveUp, StopFailed,
         SystemNetworkFails, AgentUnhealthy, RollbackFails, CommandFails, Sweep, Crash,
         HangUp, ContainerExits

\* Where a seedling's version in the seedbank comes from, after a step of a task: it is as
\* it was, the newest one that was asked for, or a newer one than before.
LEMMA RecordGrows ==
    ASSUME TypeOK, VersionsBounded, NEW t \in Tasks, InHand(t), Versioned(t),
           NEW s \in Seedlings, RecordMoves(t, s)
    PROVE  /\ record'[s].version <= Top(s)
           /\ \/ record'[s].version = record[s].version
              \/ record'[s].version = 0
              \/ task[t].todo # <<>> /\ Current(t).op \in Recordings /\ record'[s].version = Top(s)
              \/ Defined(s) /\ record'[s].version > record[s].version
<1>1. /\ Top(s) \in Nat \ {0} /\ record[s].version <= Top(s)
  BY TopTyped DEF VersionsBounded
<1>2. ASSUME NEW op \in Recordings, Runs(t, op), Current(t).on[1] = s,
             record'[s].version = task[t].version
      PROVE  task[t].todo # <<>> /\ Current(t).op \in Recordings /\ record'[s].version = Top(s)
  <2>1. Records(task[t].todo)
    BY <1>2 DEF Runs, Records, Current
  <2>2. task[t].seedling = s
    BY <1>2, CurrentInHand DEF Runs
  <2> QED
    BY <1>2, <2>1, <2>2 DEF Versioned, Runs
<1>3. ASSUME Undoing(t), Defined(s), record'[s].version > record[s].version,
             Latest(t).op = "UpdateSeedling", Latest(t).on[1] = s,
             record'[s].version = Latest(t).was
      PROVE  record'[s].version <= Top(s)
  <2> DEFINE journal == task[t].journal
             n == Len(journal)
  <2>1. journal \in Seq(Own(task[t].blueprint, task[t].seedling)) /\ journal # <<>>
    BY <1>3 DEF InHand, Undoing
  <2>2. n \in 1..n
    BY <2>1, EmptySeq, LenProperties
  <2>3. journal[n].on \in {Main(task[t].seedling), Agent(task[t].seedling)}
    BY <2>1, <2>2, OverOps DEF Own
  <2>4. task[t].seedling = s
    BY <1>3, <2>3 DEF Main, Agent, Latest
  <2> QED
    BY <1>3, <2>2, <2>4 DEF Versioned, Latest
<1> QED
  BY <1>1, <1>2, <1>3 DEF RecordMoves, Recordings

\* A seedling's version is as it was, gone, the newest one or newer than before.
Grows(s) ==
    \/ record'[s].version = record[s].version
    \/ record'[s].version = 0
    \/ record'[s].version = Top(s)
    \/ Defined(s) /\ record'[s].version > record[s].version

\* The versions a task has in hand stay what they have to be when others move, whatever
\* happens to its seedling's record.
LEMMA OthersVersioned ==
    ASSUME TypeOK, TypeOK', NEW t \in Tasks, Versioned(t), task'[t] = task[t],
           budget'.newest = budget.newest, \A s \in Seedlings : Grows(s)
    PROVE  Versioned(t)'
<1> DEFINE s == task[t].seedling
<1>1. task[t] \in TaskType
  BY DEF TypeOK
<1>2. s \in Seedlings /\ task[t].version \in Nat
  BY <1>1, Bounds DEF TaskType
<1>3. Top(s) \in Nat \ {0} /\ record[s].version \in Nat /\ record'[s].version \in Nat
  BY <1>2, TopTyped, Bounds DEF TypeOK
<1>4. /\ task'[t].phase = "run" /\ task'[t].blueprint = "reconcile" /\ ~Records(task'[t].todo)
      => (Defined(s)' => task'[t].version <= record'[s].version)
  <2> SUFFICES ASSUME task[t].phase = "run", task[t].blueprint = "reconcile",
                      ~Records(task[t].todo), record'[s].version # 0
               PROVE  task[t].version <= record'[s].version
    BY DEF Defined
  <2>1. Defined(s) => task[t].version <= record[s].version
    BY DEF Versioned
  <2>2. task[t].version <= Top(s)
    BY DEF Versioned
  <2> HIDE DEF s
  <2>3. record'[s].version = record[s].version => Defined(s)
    BY <1>3 DEF Defined
  <2>4. \/ record'[s].version = record[s].version
        \/ record'[s].version = Top(s)
        \/ Defined(s) /\ record'[s].version > record[s].version
    BY <1>2 DEF s, Grows
  <2>5. CASE Defined(s) /\ record'[s].version > record[s].version
    <3>1. task[t].version <= record[s].version
      BY <2>1, <2>5
    <3> QED
      BY <1>2, <1>3, <2>5, <3>1
  <2> QED
    BY <2>1, <2>2, <2>3, <2>4, <2>5
<1>5. Top(s)' = Top(s)
  BY DEF Top
<1> QED
  BY <1>4, <1>5 DEF Versioned

\* A task that begins a blueprint works with a version that was asked for, if any.
LEMMA JobVersioned ==
    ASSUME TypeOK', NEW t, NEW b, NEW s, NEW v, NEW rest, Given(t, b, s, v, rest),
           v # 0 \/ b = "new" => t # Watchdog /\ v = Top(s)'
    PROVE  Versioned(t)'
<1>1. /\ task'[t].phase = "discover" /\ task'[t].todo = <<>> /\ task'[t].journal = <<>>
      /\ task'[t].blueprint = b /\ task'[t].version = v /\ task'[t].seedling = s
  BY DEF Job, Given
<1>2. ~Records(<<>>) /\ Len(<<>>) = 0
  BY EmptySeq DEF Records
<1>3. Top(s)' \in Nat
  <2>1. (TypeOK => budget.newest \in 1..MaxVersion)'
    BY DEF TypeOK
  <2> QED
    BY <2>1, Bounds DEF Top
<1>4. v <= Top(s)'
  BY <1>3
<1>5. \A i \in 1..Len(task'[t].journal) : FALSE
  BY <1>1, <1>2
<1> QED
  BY <1>1, <1>2, <1>4, <1>5 DEF Versioned

\* A step of a task keeps the versions that it has in hand what they have to be.
LEMMA MovesVersioned ==
    ASSUME TypeOK, TypeOK', NEW t \in Tasks, InHand(t), Versioned(t), VersionsBounded,
           TaskMoves(t), RecordsMove(t), budget'.newest = budget.newest
    PROVE  Versioned(t)'
<1> DEFINE s == task[t].seedling
           b == task[t].blueprint
           v == task[t].version
<1>1. /\ task[t] \in TaskType /\ s \in Seedlings /\ b \in Blueprints /\ v \in Nat
      /\ Top(s) \in Nat \ {0}
  <2>1. task[t] \in TaskType
    BY DEF TypeOK
  <2> QED
    BY <2>1, TopTyped, Bounds DEF TaskType
<1>2. /\ record[s].version \in Nat /\ record'[s].version \in Nat
      /\ record[s].version <= Top(s) /\ RecordMoves(t, s)
  BY <1>1, Bounds DEF TypeOK, VersionsBounded, RecordsMove
<1>3. \A r : Top(r)' = Top(r)
  BY DEF Top
<1>4. /\ v <= Top(s)
      /\ Records(task[t].todo) => t # Watchdog /\ v = Top(s)
      /\ \A i \in 1..Len(task[t].journal) :
            task[t].journal[i].op = "UpdateSeedling" => task[t].journal[i].was <= Top(s)
  BY DEF Versioned
<1>5. ~Records(<<>>) /\ Len(<<>>) = 0
  BY EmptySeq DEF Records
<1>6. ASSUME task'[t].seedling = s, task'[t].version = v, task'[t].phase # "discover",
             ~Records(task'[t].todo), task'[t].journal = task[t].journal,
             task'[t].phase = "run" /\ task'[t].blueprint = "reconcile"
                => (record'[s].version > 0 => v <= record'[s].version)
      PROVE  Versioned(t)'
  BY <1>3, <1>4, <1>6 DEF Versioned, Defined
<1>7. CASE Ends(t)
  <2>1. CASE \E e \in task[t].sweep :
                 task'[t] = Job(e.blueprint, e.seedling, 0, task[t].sweep \ {e})
    <3>1. PICK e \in task[t].sweep :
                 task'[t] = Job(e.blueprint, e.seedling, 0, task[t].sweep \ {e})
      BY <2>1
    <3>2. e.blueprint # "new"
      BY DEF InHand
    <3> QED
      BY <3>1, <3>2, JobVersioned DEF Given
  <2>2. CASE task'[t].phase = "idle"
    <3>1. /\ task'[t].seedling = s /\ task'[t].version = v
          /\ task'[t].todo = <<>> /\ task'[t].journal = <<>>
      <4>1. \A e : task'[t] # Job(e.blueprint, e.seedling, 0, task[t].sweep \ {e})
        BY <2>2 DEF Job
      <4> QED
        BY <1>7, <4>1 DEF Ends
    <3> QED
      BY <1>3, <1>4, <1>5, <2>2, <3>1 DEF Versioned
  <2> QED
    BY <1>7, <2>1, <2>2 DEF Ends
<1>8. CASE Fails(t)
  BY <1>5, <1>6, <1>8 DEF Fails, SameJob
<1>9. CASE Pops(t)
  <2> DEFINE journal == task[t].journal
             rest == SubSeq(journal, 1, Len(journal) - 1)
  <2>1. journal \in Seq(Commands) /\ journal # <<>>
    BY <1>1, <1>9 DEF Pops, Undoing, TaskType
  <2>2. Len(journal) \in Nat \ {0} /\ Len(rest) = Len(journal) - 1
        /\ \A i \in 1..Len(rest) : rest[i] = journal[i]
    <3>1. Len(journal) \in Nat \ {0}
      BY <2>1, EmptySeq, LenProperties
    <3>2. \A i \in 1..Len(journal) - 1 : journal[i] \in Commands
      BY <2>1, <3>1, ElementOfSeq
    <3> QED
      BY <3>1, <3>2, SubSeqProperties
  <2>3. \A i \in 1..Len(rest) : rest[i].op = "UpdateSeedling" => rest[i].was <= Top(s)
    BY <1>4, <2>2
  <2>4. /\ task'[t].seedling = s /\ task'[t].version = v /\ task'[t].phase = "undo"
        /\ task'[t].todo = <<>>
        /\ task'[t].journal = rest \/ task'[t].journal = rest \o LeftToUndo(Latest(t))
    BY <1>9 DEF Pops, Undoing, SameJob, InHand, Earlier
  <2>5. /\ rest \in Seq(Commands) /\ LeftToUndo(Latest(t)) \in Seq(Commands)
        /\ \A i \in 1..Len(LeftToUndo(Latest(t))) : LeftToUndo(Latest(t))[i].op = "CreateNetwork"
    <3>1. /\ rest \in Seq(Commands) /\ LeftToUndo(Latest(t)) \in Seq(Commands)
          /\ Latest(t) \in Commands
      BY <1>9, UndoingTyped DEF Pops, Earlier
    <3>2. PICK cmd \in Commands : cmd = Latest(t)
      BY <3>1
    <3>3. \A i \in 1..Len(LeftToUndo(cmd)) : LeftToUndo(cmd)[i].op = "CreateNetwork"
      BY DEF LeftToUndo, Only, Commands
    <3> QED
      BY <3>1, <3>2, <3>3
  <2> DEFINE more == LeftToUndo(Latest(t))
  <2> HIDE DEF rest, more
  <2>6. \A i \in 1..Len(rest \o more) :
            (rest \o more)[i].op = "UpdateSeedling" => (rest \o more)[i].was <= Top(s)
    <3>1. /\ \A i \in 1..Len(rest \o more) :
                 (rest \o more)[i] = IF i <= Len(rest) THEN rest[i] ELSE more[i - Len(rest)]
          /\ Len(rest \o more) = Len(rest) + Len(more) /\ Len(rest) \in Nat /\ Len(more) \in Nat
      BY <2>5, PlanAfterPlan DEF more
    <3>2. \A i \in 1..Len(more) : more[i].op = "CreateNetwork"
      BY <2>5 DEF more
    <3> SUFFICES ASSUME NEW i \in 1..Len(rest \o more), (rest \o more)[i].op = "UpdateSeedling"
                 PROVE  (rest \o more)[i].was <= Top(s)
      OBVIOUS
    <3>3. CASE i <= Len(rest)
      BY <2>3, <3>1, <3>3
    <3>4. CASE i > Len(rest)
      <4>1. i - Len(rest) \in 1..Len(more) /\ (rest \o more)[i] = more[i - Len(rest)]
        BY <3>1, <3>4
      <4> QED
        BY <3>2, <4>1
    <3> QED
      BY <3>1, <3>3, <3>4
  <2>7. \A i \in 1..Len(task'[t].journal) :
            task'[t].journal[i].op = "UpdateSeedling" => task'[t].journal[i].was <= Top(s)
    BY <2>3, <2>4, <2>6 DEF more
  <2> QED
    BY <1>3, <1>4, <1>5, <2>4, <2>7 DEF Versioned
<1>10. CASE Plans(t)
  <2>1. /\ task'[t].seedling = s /\ task'[t].blueprint = b /\ task'[t].phase = "run"
        /\ task'[t].todo = PlanOf(t) /\ task'[t].version = VersionOf(t)
        /\ task'[t].journal = <<>> /\ task[t].phase = "discover" /\ ~Refused(t)
    BY <1>10 DEF Plans, SameJob, InHand
  <2>2. v # 0 \/ b = "new" => t # Watchdog /\ v = Top(s)
    BY <2>1 DEF Versioned
  <2>3. VersionOf(t) = IF v # 0 THEN v ELSE record[s].version
    BY DEF VersionOf
  <2>4. VersionOf(t) <= Top(s)
    BY <1>2, <1>4, <2>3
  <2>5. Records(PlanOf(t)) => t # Watchdog /\ VersionOf(t) = Top(s)
    <3>1. Records(PlanOf(t)) => b = "new" \/ v # 0
      BY <2>1, Planned
    <3> QED
      BY <1>1, <2>2, <2>3, <3>1
  <2>6. b = "reconcile" /\ ~Records(PlanOf(t)) => (record'[s].version > 0 => VersionOf(t) <= record'[s].version)
    <3>1. record'[s].version = record[s].version \/ record'[s].version = 0
      BY <1>2, <2>1 DEF RecordMoves, Runs, Undoing
    <3>2. b = "reconcile" /\ ~Records(PlanOf(t)) => VersionOf(t) <= record[s].version
      BY <2>1, Planned
    <3> QED
      BY <1>2, <3>1, <3>2 DEF Defined
  <2> QED
    BY <1>3, <1>5, <2>1, <2>4, <2>5, <2>6 DEF Versioned, Defined
<1>11. ASSUME NEW cmd \in Commands, Completes(t, cmd)
       PROVE  Versioned(t)'
  <2>1. /\ task[t].todo \in Seq(Own(b, s)) /\ task[t].todo # <<>> /\ RecordsFirst(task[t].todo)
        /\ task[t].phase = "run" /\ Current(t).on[1] = s
    BY <1>11, CurrentInHand DEF Completes, InHand
  <2>2. /\ task'[t].seedling = s /\ task'[t].version = v /\ task'[t].phase = "run"
        /\ task'[t].blueprint = b
        /\ task'[t].todo = Tail(task[t].todo) /\ task'[t].journal = Append(task[t].journal, cmd)
    BY <1>11 DEF Completes, SameJob
  <2>3. ~Records(task'[t].todo)
    BY <2>1, <2>2, TailInHand
  <2>4. b = "reconcile" => (record'[s].version > 0 => v <= record'[s].version)
    <3>1. CASE Records(task[t].todo)
      <4>1. Current(t).op \in {"CreateSeedling", "UpdateSeedling"}
        BY <3>1 DEF Records, Recordings, Current
      <4>2. record'[s].version = v
        BY <1>11, <2>1, <4>1 DEF Completes, Achieved
      <4> QED
        BY <1>1, <4>2
    <3>2. CASE ~Records(task[t].todo)
      <4>1. Current(t).op \notin Recordings
        BY <2>1, <3>2 DEF Records, Current
      <4>2. record'[s].version = record[s].version \/ record'[s].version = 0
        BY <1>2, <2>1, <4>1 DEF RecordMoves, Runs, Undoing, Recordings
      <4>3. b = "reconcile" => (Defined(s) => v <= record[s].version)
        BY <2>1, <3>2 DEF Versioned
      <4> QED
        BY <1>2, <4>2, <4>3 DEF Defined
    <3> QED
      BY <3>1, <3>2
  <2>5. \A i \in 1..Len(task'[t].journal) :
            task'[t].journal[i].op = "UpdateSeedling" => task'[t].journal[i].was <= Top(s)
    <3>1. task[t].journal \in Seq(Commands) /\ Len(task[t].journal) \in Nat
      BY <1>1, LenProperties DEF TaskType
    <3>2. /\ Len(task'[t].journal) = Len(task[t].journal) + 1
          /\ \A i \in 1..Len(task[t].journal) : task'[t].journal[i] = task[t].journal[i]
          /\ task'[t].journal[Len(task[t].journal) + 1] = cmd
      BY <2>2, <3>1, AppendProperties
    <3>3. cmd.op = "UpdateSeedling" => cmd.was <= Top(s)
      BY <1>2, <1>11, <2>1 DEF Completes
    <3> DEFINE next == task'[t].journal
    <3>4. /\ Len(next) = Len(task[t].journal) + 1
          /\ \A i \in 1..Len(task[t].journal) : next[i] = task[t].journal[i]
          /\ next[Len(task[t].journal) + 1] = cmd
      BY <3>2
    <3> HIDE DEF next
    <3> SUFFICES ASSUME NEW i \in 1..Len(next), next[i].op = "UpdateSeedling"
                 PROVE  next[i].was <= Top(s)
      BY DEF next
    <3>5. i \in 1..Len(task[t].journal) \/ i = Len(task[t].journal) + 1
      BY <3>1, <3>4
    <3> QED
      BY <1>4, <3>3, <3>4, <3>5
  <2> QED
    BY <1>3, <1>4, <2>2, <2>3, <2>4, <2>5 DEF Versioned, Defined
<1>12. ASSUME NEW cmd \in Commands, Continues(t, cmd)
       PROVE  Versioned(t)'
  <2>1. /\ task[t].todo \in Seq(Own(b, s)) /\ task[t].todo # <<>> /\ RecordsFirst(task[t].todo)
        /\ Current(t).op \in OpsOf(b)
    BY <1>12, CurrentInHand DEF Continues, InHand
  <2>2. Current(t).op \notin Recordings /\ cmd.op \notin Recordings /\ task[t].phase = "run"
    BY <1>12 DEF Continues, Follows, Building, Recordings
  <2>3. b = "reconcile" => (record'[s].version > 0 => v <= record'[s].version)
    <3>1. ~Records(task[t].todo)
      BY <2>2 DEF Records, Current
    <3>2. record'[s].version = record[s].version \/ record'[s].version = 0
      BY <1>2, <2>2 DEF RecordMoves, Runs, Undoing, Recordings
    <3>3. b = "reconcile" => (Defined(s) => v <= record[s].version)
      BY <2>2, <3>1 DEF Versioned
    <3> QED
      BY <1>2, <3>2, <3>3 DEF Defined
  <2>4. /\ task'[t].seedling = s /\ task'[t].version = v /\ task'[t].phase = "run"
        /\ task'[t].blueprint = b /\ task'[t].todo = <<cmd>> \o Tail(task[t].todo)
        /\ task'[t].journal = task[t].journal
    BY <1>12 DEF Continues, SameJob
  <2>5. ~Records(task'[t].todo)
    <3>1. Tail(task[t].todo) \in Seq(Own(b, s))
      BY <2>1, TailInHand
    <3>2. Head(<<cmd>> \o Tail(task[t].todo)) = cmd
      BY <3>1
    <3> QED
      BY <2>2, <2>4, <3>2 DEF Records
  <2> QED
    BY <1>6, <2>3, <2>4, <2>5
<1> QED
  BY <1>7, <1>8, <1>9, <1>10, <1>11, <1>12 DEF TaskMoves

\* Requests for core seedlings come one at a time, the one after what the other asked for.
OneAtATime == Core = {} \/ \A o, p \in Operators : o = p

\* A newer version that is asked for is above all that is in hand and recorded.
LEMMA StillBounded ==
    ASSUME TypeOK, VersionsBounded, UNCHANGED <<record, container>>,
           \A s \in Seedlings : Top(s) \in Nat /\ Top(s)' \in Nat /\ Top(s) <= Top(s)'
    PROVE  VersionsBounded'
<1> SUFFICES ASSUME NEW s \in Seedlings
             PROVE  /\ record[s].version <= Top(s)'
                    /\ Exists(Main(s)) => container[Main(s)].version <= Top(s)'
  BY DEF VersionsBounded, Exists
<1>1. record[s].version \in Nat /\ container[Main(s)].version \in Nat
  BY Bounds, ContainersOf DEF TypeOK
<1>2. /\ record[s].version <= Top(s)
      /\ Exists(Main(s)) => container[Main(s)].version <= Top(s)
  BY DEF VersionsBounded
<1> QED
  BY <1>1, <1>2

\* ... the watchdog's too, which records nothing.
LEMMA StillVersioned ==
    ASSUME TypeOK, Versioned(Watchdog), UNCHANGED record, task'[Watchdog] = task[Watchdog],
           \A s \in Seedlings : Top(s) \in Nat /\ Top(s)' \in Nat /\ Top(s) <= Top(s)'
    PROVE  Versioned(Watchdog)'
<1> DEFINE s == task[Watchdog].seedling
           journal == task[Watchdog].journal
<1>1. task[Watchdog] \in TaskType
  BY Bounds DEF TypeOK
<1>2. s \in Seedlings /\ task[Watchdog].version \in Nat /\ journal \in Seq(Commands)
  BY <1>1, Bounds DEF TaskType
<1>3. Top(s) \in Nat /\ Top(s)' \in Nat /\ Top(s) <= Top(s)'
  <2>1. s' = s
    OBVIOUS
  <2> QED
    BY <1>2, <2>1
<1>4. task[Watchdog].version <= Top(s)'
  BY <1>2, <1>3 DEF Versioned
<1>5. ASSUME NEW i \in 1..Len(journal), journal[i].op = "UpdateSeedling"
      PROVE  journal[i].was <= Top(s)'
  <2>1. journal[i].was \in Nat
    BY <1>2, <1>5, ElementOfSeq, Bounds DEF Commands
  <2>2. journal[i].was <= Top(s)
    BY <1>5 DEF Versioned
  <2> QED
    BY <1>3, <2>1, <2>2
<1> QED
  BY <1>4, <1>5 DEF Versioned, Defined

\* A crash leaves the version of a task and nothing that would be recorded with it.
LEMMA CrashVersioned ==
    ASSUME TypeOK, Crash, NEW t \in Tasks, Versioned(t), budget'.newest = budget.newest
    PROVE  Versioned(t)'
<1>1. /\ task'[t].phase = "idle" /\ task'[t].todo = <<>> /\ task'[t].journal = <<>>
      /\ task'[t].seedling = task[t].seedling /\ task'[t].version = task[t].version
  BY CrashIdles
<1>2. ~Records(<<>>) /\ 1..Len(<<>>) = {}
  BY EmptySeq DEF Records
<1>3. \A s : Top(s)' = Top(s)
  BY DEF Top
<1> QED
  BY <1>1, <1>2, <1>3 DEF Versioned

\* ... as does a client that hangs up.
LEMMA HangUpVersioned ==
    ASSUME TypeOK, NEW o \in Operators, HangUp(o), Versioned(o), budget'.newest = budget.newest
    PROVE  Versioned(o)'
<1>1. /\ task'[o].phase = "idle" /\ task'[o].todo = <<>> /\ task'[o].journal = <<>>
      /\ task'[o].seedling = task[o].seedling /\ task'[o].version = task[o].version
  BY HangUpIdles
<1>2. ~Records(<<>>) /\ 1..Len(<<>>) = {}
  BY EmptySeq DEF Records
<1>3. \A s : Top(s)' = Top(s)
  BY DEF Top
<1> QED
  BY <1>1, <1>2, <1>3 DEF Versioned

\* Whatever is asked and whatever fails, every version is one that was asked for.
LEMMA VersionsKept ==
    ASSUME OneAtATime, TypeOK, TypeOK', PlansInHand, Versions, Next
    PROVE  Versions'
<1>1. ASSUME NEW u \in Tasks, task'[u] = task[u], budget'.newest = budget.newest,
             UNCHANGED record
      PROVE  Versioned(u)'
  BY <1>1, OthersVersioned DEF Grows, Versions
<1>2. ASSUME budget'.newest = budget.newest
      PROVE  \A s \in Seedlings : Top(s)' = Top(s) /\ Top(s) \in Nat
  BY <1>2, TopTyped DEF Top
<1>3. ASSUME NEW t \in Tasks, Step(t) \/ Failure(t)
      PROVE  Versions'
  <2>2. TaskMoves(t) /\ RecordsMove(t) /\ ContainersMove(t)
    BY <1>3, StepMoves, StepMovesRecords, TaskMovesContainers
  <2>3. InHand(t) /\ Versioned(t) /\ VersionsBounded
    BY DEF PlansInHand, Versions
  <2>4. budget'.newest = budget.newest
    BY <1>3, NewestStays
  <2>5. \A s \in Seedlings : Grows(s) /\ record'[s].version <= Top(s)
    BY <2>2, <2>3, RecordGrows DEF RecordsMove, Grows
  <2>6. Versioned(t)'
    BY <2>2, <2>3, <2>4, MovesVersioned
  <2>7. ASSUME NEW u \in Tasks \ {t} PROVE Versioned(u)'
    BY <2>2, <2>4, <2>5, OthersVersioned DEF TaskMoves, Versions
  <2>8. ASSUME NEW s \in Seedlings, Exists(Main(s))'
        PROVE  container'[Main(s)].version <= Top(s)
    <3>1. Main(s) \in Containers /\ Main(s)[1] = s
      BY ContainersOf
    <3>2. CASE KeptOrSwitched(Main(s))
      BY <2>3, <2>8, <3>1, <3>2, SwitchedKeeps DEF Exists, VersionsBounded
    <3>3. CASE Built(t, Main(s))
      <4>1. container'[Main(s)].version = task[t].version
        BY <3>3 DEF Built
      <4>2. task[t].seedling = s
        BY <2>3, <3>1, <3>3, CurrentInHand DEF Built, Runs
      <4> QED
        BY <2>3, <4>1, <4>2 DEF Versioned
    <3> QED
      BY <2>2, <3>1, <3>2, <3>3 DEF ContainersMove
  <2> QED
    BY <1>2, <2>4, <2>5, <2>6, <2>7, <2>8 DEF Versions, VersionsBounded
<1>4. ASSUME UNCHANGED record, budget'.newest = budget.newest,
             \A s \in Seedlings : KeptOrSwitched(Main(s)),
             \A t \in Tasks : Versioned(t)'
      PROVE  Versions'
  <2>1. ASSUME NEW s \in Seedlings, Exists(Main(s))'
        PROVE  container'[Main(s)].version <= Top(s)
    <3>1. Main(s) \in Containers
      BY ContainersOf
    <3> QED
      BY <1>4, <2>1, <3>1, SwitchedKeeps DEF Exists, Versions, VersionsBounded
  <2> QED
    BY <1>2, <1>4, <2>1 DEF Versions, VersionsBounded
<1>5. CASE Request
  <2>1. PICK o \in Operators : Asks(o)
    BY <1>5, RequestAsks
  <2>2. UNCHANGED <<record, container>>
    BY <1>5 DEF Request
  <2>3. Versioned(o)'
    <3>1. o # Watchdog
      BY SeedlingAssumption
    <3>2. PICK b \in Blueprints, s \in Seedlings, v \in 0..MaxVersion :
              /\ Given(o, b, s, v, {})
              /\ v # 0 \/ b = "new" => v = Top(s)'
      BY <2>1 DEF Asks
    <3> QED
      BY <3>1, <3>2, JobVersioned DEF Given
  <2>4. CASE budget'.newest = budget.newest
    <3>1. \A u \in Tasks : Versioned(u)'
      BY <1>1, <2>1, <2>2, <2>3, <2>4 DEF Asks
    <3> QED
      BY <1>4, <2>2, <2>4, <3>1 DEF KeptOrSwitched
  <2>5. CASE budget'.newest # budget.newest
    <3>1. Core # {} /\ Tasks = {o, Watchdog}
      BY <2>1, <2>5 DEF Asks, OneAtATime, Tasks
    <3>2. \A s \in Seedlings : Top(s) \in Nat /\ Top(s)' \in Nat /\ Top(s) <= Top(s)'
      <4>1. budget.newest \in Nat /\ budget'.newest \in Nat /\ budget.newest <= budget'.newest
        BY <2>1, Bounds DEF Asks, TypeOK
      <4> QED
        BY <4>1 DEF Top
    <3>3. Watchdog \in Tasks /\ task'[Watchdog] = task[Watchdog]
      BY <2>1, SeedlingAssumption, Bounds DEF Asks
    <3>4. Versioned(Watchdog)'
      BY <2>2, <3>2, <3>3, StillVersioned DEF Versions
    <3>5. VersionsBounded'
      BY <2>2, <3>2, StillBounded DEF Versions
    <3> QED
      BY <2>3, <3>1, <3>4, <3>5 DEF Versions
  <2> QED
    BY <2>4, <2>5
<1>6. CASE Sweep
  <2>1. UNCHANGED <<record, container, budget>>
    BY <1>6 DEF Sweep
  <2>2. Versioned(Watchdog)'
    <3>1. PICK e \in SweepPlan :
              task'[Watchdog] = Job(e.blueprint, e.seedling, 0, SweepPlan \ {e})
      BY <1>6, SweepBegins
    <3>2. e.blueprint # "new"
      BY <1>6, SweepBegins
    <3> QED
      BY <3>1, <3>2, JobVersioned DEF Given
  <2>3. \A u \in Tasks : Versioned(u)'
    BY <1>1, <1>6, <2>1, <2>2, SweepBegins
  <2> QED
    BY <1>4, <2>1, <2>3 DEF KeptOrSwitched
<1>7. CASE Crash
  <2>1. UNCHANGED <<record, container>> /\ budget'.newest = budget.newest
    BY <1>7, NewestStays DEF Crash
  <2>2. \A u \in Tasks : Versioned(u)'
    BY <1>2, <1>7, <2>1, CrashVersioned DEF Versions
  <2> QED
    BY <1>4, <2>1, <2>2 DEF KeptOrSwitched
<1>8. CASE ContainerExits
  <2>1. UNCHANGED <<record, task, budget>>
    BY <1>8 DEF ContainerExits
  <2>2. \A c \in Containers : KeptOrSwitched(c)
    BY <1>8, ExitSwitches
  <2>3. \A s \in Seedlings : Main(s) \in Containers
    BY ContainersOf
  <2> QED
    BY <1>1, <1>4, <2>1, <2>2, <2>3
<1>9. ASSUME NEW o \in Operators, HangUp(o)
      PROVE  Versions'
  <2>1. UNCHANGED <<record, container>> /\ budget'.newest = budget.newest
    BY <1>9, NewestStays DEF HangUp
  <2>2. o \in Tasks /\ \A u \in Tasks \ {o} : task'[u] = task[u]
    BY <1>9, HangUpIdles
  <2>3. Versioned(o)'
    BY <1>9, <2>1, <2>2, HangUpVersioned DEF Versions
  <2>4. \A u \in Tasks : Versioned(u)'
    BY <1>1, <2>1, <2>2, <2>3
  <2> QED
    BY <1>4, <2>1, <2>4 DEF KeptOrSwitched
<1> QED
  BY <1>3, <1>5, <1>6, <1>7, <1>8, <1>9 DEF Next

VersionsInv == TypeOK /\ PlansInHand /\ Versions /\ ContainerNotAhead

\* What is built has a recorded version, and a record is only ever replaced by a newer one.
LEMMA NotAheadKept ==
    ASSUME VersionsInv, [Next]_vars
    PROVE  ContainerNotAhead'
<1> USE DEF VersionsInv
<1>1. ASSUME UNCHANGED record, \A s \in Seedlings : KeptOrSwitched(Main(s))
      PROVE  ContainerNotAhead'
  <2> SUFFICES ASSUME NEW s \in Seedlings, Exists(Main(s))', Defined(s)'
               PROVE  container'[Main(s)].version <= record'[s].version
    BY DEF ContainerNotAhead
  <2>1. Main(s) \in Containers
    BY ContainersOf
  <2>2. Exists(Main(s)) /\ container'[Main(s)].version = container[Main(s)].version
    BY <1>1, <2>1, SwitchedKeeps DEF Exists
  <2>3. Defined(s) /\ record'[s].version = record[s].version
    BY <1>1 DEF Defined
  <2> QED
    BY <2>2, <2>3 DEF ContainerNotAhead
<1>2. CASE \/ UNCHANGED vars \/ Request \/ Sweep \/ Crash
           \/ \E o \in Operators : HangUp(o)
  BY <1>1, <1>2 DEF vars, Request, Sweep, Crash, HangUp, KeptOrSwitched
<1>3. CASE ContainerExits
  BY <1>1, <1>3, ExitSwitches, ContainersOf DEF ContainerExits
<1>4. ASSUME NEW t \in Tasks, Step(t) \/ Failure(t)
      PROVE  ContainerNotAhead'
  <2> SUFFICES ASSUME NEW s \in Seedlings, Exists(Main(s))', Defined(s)'
               PROVE  container'[Main(s)].version <= record'[s].version
    BY DEF ContainerNotAhead
  <2>1. /\ RecordMoves(t, s) /\ InHand(t) /\ Versioned(t) /\ VersionsBounded
        /\ Main(s) \in Containers /\ Main(s)[1] = s
    BY <1>4, StepMovesRecords, ContainersOf DEF RecordsMove, PlansInHand, Versions
  <2>2. /\ record[s].version \in Nat /\ record'[s].version \in Nat /\ record'[s].version # 0
        /\ container[Main(s)].version \in Nat
    BY <1>4, <2>1, NextTyped, Bounds DEF TypeOK, Defined, Next
  <2>3. Defined(s) <=> record[s].version # 0
    BY <2>2 DEF Defined
  <2>4. CASE KeptOrSwitched(Main(s))
    <3>1. Exists(Main(s)) /\ container'[Main(s)].version = container[Main(s)].version
      BY <2>1, <2>4, SwitchedKeeps DEF Exists
    <3>2. /\ container[Main(s)].version <= Top(s)
          /\ Defined(s) => container[Main(s)].version <= record[s].version
      BY <2>1, <3>1 DEF VersionsBounded, ContainerNotAhead
    <3>3. \/ Defined(s) /\ record'[s].version >= record[s].version
          \/ record'[s].version = Top(s)
      BY <2>1, <2>2, <2>3, RecordGrows
    <3> QED
      BY <2>2, <3>1, <3>2, <3>3
  <2>5. CASE Built(t, Main(s))
    <3>1. container'[Main(s)].version = task[t].version /\ Runs(t, "BuildContainer")
      BY <2>5 DEF Built
    <3>2. /\ task[t].seedling = s /\ task[t].blueprint \in Blueprints
          /\ Current(t).op = "BuildContainer" /\ Current(t).op \in OpsOf(task[t].blueprint)
          /\ task[t].phase = "run"
      BY <2>1, <2>5, CurrentInHand DEF Built, Runs
    <3>3. task[t].blueprint = "reconcile"
      BY <3>2 DEF Blueprints, OpsOf, Building
    <3>4. ~Records(task[t].todo)
      BY <3>2 DEF Records, Recordings, Current
    <3>5. record'[s].version = record[s].version
      BY <2>1, <2>2, <3>2 DEF RecordMoves, Runs, Undoing
    <3> QED
      BY <2>1, <2>3, <2>2, <3>1, <3>2, <3>3, <3>4, <3>5 DEF Versioned
  <2> QED
    BY <1>4, <2>1, <2>4, <2>5, TaskMovesContainers DEF ContainersMove
<1> QED
  BY <1>2, <1>3, <1>4 DEF Next

LEMMA VersionsInit == Init => VersionsInv
<1> SUFFICES ASSUME Init PROVE VersionsInv
  OBVIOUS
<1>1. TypeOK /\ PlansInHand
  BY InitTyped, PlansInit
<1>2. \A s \in Seedlings : Main(s) \in Containers
  BY ContainersOf
<1>3. \A s \in Seedlings : record[s].version = 0 /\ ~Exists(Main(s))
  BY <1>2 DEF Init, NoRecord, Absent, Exists
<1>4. ASSUME NEW t \in Tasks PROVE Versioned(t)
  <2>1. /\ task[t].phase = "idle" /\ task[t].todo = <<>> /\ task[t].journal = <<>>
        /\ task[t].version = 0
    BY DEF Init, Job
  <2>2. ~Records(<<>>) /\ 1..Len(<<>>) = {} /\ 0 <= Top(task[t].seedling)
    BY <1>1, TopTyped, EmptySeq DEF Records
  <2> QED
    BY <2>1, <2>2 DEF Versioned
<1>5. VersionsBounded /\ ContainerNotAhead
  BY <1>1, <1>3, TopTyped DEF VersionsBounded, ContainerNotAhead
<1> QED
  BY <1>1, <1>4, <1>5 DEF VersionsInv, Versions

LEMMA VersionsNext == OneAtATime /\ VersionsInv /\ [Next]_vars => VersionsInv'
<1> SUFFICES ASSUME OneAtATime, VersionsInv, [Next]_vars PROVE VersionsInv'
  OBVIOUS
<1>1. TypeOK' /\ PlansInHand' /\ ContainerNotAhead'
  BY NextTyped, PlansKept, NotAheadKept DEF VersionsInv
<1>2. CASE Next
  BY <1>1, <1>2, VersionsKept DEF VersionsInv
<1>3. CASE UNCHANGED vars
  <2>1. UNCHANGED <<record, container, task, budget>>
    BY <1>3 DEF vars
  <2>2. Versions'
    BY <2>1 DEF VersionsInv, Versions, VersionsBounded, Versioned, Top, Exists, Defined
  <2> QED
    BY <1>1, <2>2 DEF VersionsInv
<1> QED
  BY <1>2, <1>3

\* No container is ahead of its seedling's definition in the seedbank, whatever fails and
\* crashes, and however many versions are asked for, as long as the requests for core
\* seedlings come from one operator: a reconcile records a version before it builds it, and
\* a rollback takes the record away after the container.
THEOREM NotAheadCorrect ==
    ASSUME OneAtATime
    PROVE  Spec => []ContainerNotAhead
<1>1. VersionsInv => ContainerNotAhead
  BY DEF VersionsInv
<1>2. VersionsInv /\ [Next]_vars => VersionsInv'
  BY VersionsNext
<1> QED
  BY VersionsInit, <1>1, <1>2, PTL DEF Spec

-----------------------------------------------------------------------------
(* Drops: what is left of a seedling *)

\* What there is of a seedling has a command of the plan that takes it away.
ToGo(s, plan) ==
    /\ Exists(Main(s)) => Has(plan, "DropContainer", Main(s))
    /\ Exists(Agent(s)) => Has(plan, "DropContainer", Agent(s))
    /\ network[s] => Has(plan, "DeleteNetwork", Main(s))
    /\ Defined(s) => Has(plan, "DeleteSeedbankEntry", Main(s))

\* A drop, from its plan until the next request, takes away what there is.
Dropping(t) ==
    LET s == task[t].seedling IN
    /\ task[t].blueprint = "drop" /\ s \in Secrets
    /\ task[t].phase = "run" \/ (task[t].phase = "idle" /\ task[t].result = "ok")
    => ToGo(s, task[t].todo)

\* The watchdog builds nothing for a seedling with an agent: it cannot mount the agent's secrets.
Unprovisioned ==
    task[Watchdog].seedling \in Secrets => Guarded(task[Watchdog].todo)
Drops == Unprovisioned /\ \A t \in Tasks : Dropping(t)

\* A step of a task that neither builds a container of the seedling nor creates its record
\* brings nothing back.
LEMMA NothingComes ==
    ASSUME TypeOK, NEW t \in Tasks, NEW s \in Seedlings,
           ContainersMove(t), NetworksMove(t), RecordsMove(t),
           \A op \in Building : Runs(t, op) => Current(t).on[1] # s,
           Runs(t, "CreateSeedling") => Current(t).on[1] # s
    PROVE  /\ \A c \in {Main(s), Agent(s)} : Exists(c)' => Exists(c)
           /\ network'[s] => network[s]
           /\ Defined(s)' => Defined(s)
<1>1. ASSUME NEW c \in {Main(s), Agent(s)}, Exists(c)' PROVE Exists(c)
  <2>1. c \in Containers /\ c[1] = s
    BY ContainersOf
  <2>2. KeptOrSwitched(c)
    BY <2>1 DEF ContainersMove, Built, Building
  <2> QED
    BY <1>1, <2>1, <2>2, SwitchedKeeps DEF Exists
<1>2. network'[s] => network[s]
  BY DEF NetworksMove, Building
<1>3. Defined(s)' => Defined(s)
  BY DEF RecordsMove, RecordMoves, Defined
<1> QED
  BY <1>1, <1>2, <1>3

\* What does not come back needs no other command than before.
LEMMA ToGoStays ==
    ASSUME NEW s, NEW plan,
           \A c \in {Main(s), Agent(s)} : Exists(c)' => Exists(c),
           network'[s] => network[s], Defined(s)' => Defined(s), ToGo(s, plan)
    PROVE  ToGo(s, plan)'
  BY DEF ToGo, Has

\* The first command of a plan that has succeeded is not needed any more.
LEMMA TailHas ==
    ASSUME NEW S, NEW plan \in Seq(S), plan # <<>>, NEW op, NEW c, Has(plan, op, c)
    PROVE  (Head(plan).op = op /\ Head(plan).on = c) \/ Has(Tail(plan), op, c)
<1>1. PICK i \in 1..Len(plan) : plan[i].op = op /\ plan[i].on = c
  BY DEF Has
<1> DEFINE rest == Tail(plan)
<1>2. /\ rest \in Seq(S) /\ Len(rest) = Len(plan) - 1 /\ Len(plan) \in Nat
      /\ \A k \in 1..Len(rest) : rest[k] = plan[k + 1]
  BY HeadTailProperties, LenProperties
<1> HIDE DEF rest
<1>3. CASE i = 1
  BY <1>1, <1>3
<1>4. CASE i # 1
  <2>1. i - 1 \in 1..Len(rest) /\ rest[i - 1] = plan[i]
    BY <1>2, <1>4
  <2> QED
    BY <1>1, <2>1 DEF Has, rest
<1> QED
  BY <1>3, <1>4

\* What follows a command that is no mount is guarded by what it was guarded by.
LEMMA GuardedTail ==
    ASSUME NEW S, NEW plan \in Seq(S), plan # <<>>, Guarded(plan),
           Head(plan).op # "EnsureAgentMount"
    PROVE  /\ Guarded(Tail(plan))
           /\ \A cmd : cmd.op \notin Building => Guarded(<<cmd>> \o Tail(plan))
           /\ Head(plan).op \notin Building
<1> DEFINE rest == Tail(plan)
<1>1. /\ rest \in Seq(S) /\ Len(rest) = Len(plan) - 1 /\ Len(plan) \in Nat \ {0}
      /\ \A k \in 1..Len(rest) : rest[k] = plan[k + 1]
  BY HeadTailProperties, LenProperties, EmptySeq
<1> HIDE DEF rest
<1>2. \A i \in 1..Len(plan) :
          plan[i].op \in Building =>
              i # 1 /\ \E k \in 2..i - 1 : plan[k].op = "EnsureAgentMount"
  <2> SUFFICES ASSUME NEW i \in 1..Len(plan), plan[i].op \in Building
               PROVE  i # 1 /\ \E k \in 2..i - 1 : plan[k].op = "EnsureAgentMount"
    OBVIOUS
  <2>1. PICK k \in 1..i - 1 : plan[k].op = "EnsureAgentMount"
    BY DEF Guarded
  <2>2. k # 1
    BY <2>1
  <2>3. i \in Nat /\ k \in 2..i - 1
    BY <1>1, <2>1, <2>2
  <2> QED
    BY <2>1, <2>3
<1>3. Guarded(rest)
  <2> SUFFICES ASSUME NEW i \in 1..Len(rest), rest[i].op \in Building
               PROVE  \E k \in 1..i - 1 : rest[k].op = "EnsureAgentMount"
    BY DEF Guarded
  <2>1. i + 1 \in 1..Len(plan) /\ plan[i + 1].op \in Building
    BY <1>1
  <2>2. PICK k \in 2..i : plan[k].op = "EnsureAgentMount"
    BY <1>2, <2>1
  <2>3. k - 1 \in 1..i - 1 /\ k - 1 \in 1..Len(rest) /\ rest[k - 1] = plan[k]
    BY <1>1
  <2> QED
    BY <2>2, <2>3
<1>4. ASSUME NEW cmd, cmd.op \notin Building
      PROVE  Guarded(<<cmd>> \o rest)
  <2> DEFINE all == <<cmd>> \o rest
  <2>1. /\ Len(all) = Len(plan)
        /\ \A i \in 2..Len(plan) : all[i] = plan[i]
        /\ all[1] = cmd
    <3>1. rest \in Seq(S \cup {cmd}) /\ <<cmd>> \in Seq(S \cup {cmd})
      BY <1>1, SeqMonotonic
    <3>2. /\ Len(<<cmd>> \o rest) = 1 + Len(rest)
          /\ \A i \in 1..1 + Len(rest) :
                (<<cmd>> \o rest)[i] = IF i <= 1 THEN <<cmd>>[i] ELSE rest[i - 1]
      BY <3>1, ConcatProperties
    <3> QED
      BY <1>1, <3>2
  <2> HIDE DEF all
  <2>2. ASSUME NEW i \in 1..Len(all), all[i].op \in Building
        PROVE  \E k \in 1..i - 1 : all[k].op = "EnsureAgentMount"
    <3>1. i \in 2..Len(plan) /\ plan[i].op \in Building
      BY <1>1, <1>4, <2>1, <2>2
    <3>2. PICK k \in 2..i - 1 : plan[k].op = "EnsureAgentMount"
      BY <1>2, <3>1
    <3>3. k \in 1..i - 1 /\ all[k] = plan[k]
      BY <1>1, <2>1, <3>1
    <3> QED
      BY <3>2, <3>3
  <2>3. Guarded(all)
    BY <2>2 DEF Guarded
  <2> QED
    BY <2>3 DEF all
<1>5. Head(plan).op \notin Building
  BY <1>1, <1>2
<1> QED
  BY <1>3, <1>4, <1>5 DEF rest

\* The watchdog neither builds anything for a seedling with an agent nor creates its record.
LEMMA WatchdogBuildsNot ==
    ASSUME TypeOK, InHand(Watchdog), Versioned(Watchdog), Unprovisioned,
           task[Watchdog].seedling \in Secrets
    PROVE  (\A op \in Building : ~Runs(Watchdog, op)) /\ ~Runs(Watchdog, "CreateSeedling")
<1>1. ~Runs(Watchdog, "CreateSeedling")
  BY DEF Versioned, Runs, Records, Recordings, Current
<1>2. ASSUME NEW op \in Building, Runs(Watchdog, op) PROVE FALSE
  <2>1. /\ task[Watchdog].todo # <<>> /\ Head(task[Watchdog].todo).op \in Building
        /\ Guarded(task[Watchdog].todo)
        /\ task[Watchdog].todo \in Seq(Own(task[Watchdog].blueprint, task[Watchdog].seedling))
    BY <1>2 DEF Runs, Current, Unprovisioned, InHand
  <2>2. Head(task[Watchdog].todo).op # "EnsureAgentMount"
    BY <2>1 DEF Building
  <2> QED
    BY <2>1, <2>2, GuardedTail
<1> QED
  BY <1>1, <1>2

\* A step of the watchdog keeps its plan such that it stops at the agent's mount.
LEMMA MovesUnprovisioned ==
    ASSUME TypeOK, InHand(Watchdog), Unprovisioned, TaskMoves(Watchdog)
    PROVE  Unprovisioned'
<1> DEFINE t == Watchdog
           todo == task[t].todo
<1>1. Guarded(<<>>)
  BY EmptySeq DEF Guarded
<1>2. t \in Tasks /\ todo \in Seq(Own(task[t].blueprint, task[t].seedling))
  BY Bounds DEF InHand
<1>3. CASE task'[t].todo = <<>>
  BY <1>1, <1>3 DEF Unprovisioned
<1>4. CASE Plans(t)
  <2>1. /\ task'[t].todo = PlanOf(t) /\ task'[t].seedling = task[t].seedling /\ ~Refused(t)
    BY <1>4 DEF Plans, SameJob
  <2>2. task[t].seedling \in Secrets => Guarded(PlanOf(t))
    BY <1>2, <2>1, Planned
  <2> QED
    BY <2>1, <2>2 DEF Unprovisioned
<1>5. ASSUME NEW cmd \in Commands, Completes(t, cmd)
      PROVE  Unprovisioned'
  <2>1. /\ task'[t].todo = Tail(todo) /\ task'[t].seedling = task[t].seedling /\ todo # <<>>
    BY <1>5 DEF Completes, SameJob
  <2>2. Head(todo).op # "EnsureAgentMount"
    BY <1>5 DEF Completes, Achieved, Current
  <2>3. task[t].seedling \in Secrets => Guarded(Tail(todo))
    BY <1>2, <2>1, <2>2, GuardedTail DEF Unprovisioned
  <2> QED
    BY <2>1, <2>3 DEF Unprovisioned
<1>6. ASSUME NEW cmd \in Commands, Continues(t, cmd)
      PROVE  Unprovisioned'
  <2>1. /\ task'[t].todo = <<cmd>> \o Tail(todo) /\ task'[t].seedling = task[t].seedling
        /\ todo # <<>> /\ Follows(Head(todo).op, cmd.op)
    BY <1>6 DEF Continues, SameJob, Current
  <2>3. Head(todo).op # "EnsureAgentMount" /\ (Head(todo).op \notin Building => cmd.op \notin Building)
    BY <2>1 DEF Follows, Building
  <2>2. task[t].seedling \in Secrets => Guarded(<<cmd>> \o Tail(todo))
    <3> SUFFICES ASSUME task[t].seedling \in Secrets PROVE Guarded(<<cmd>> \o Tail(todo))
      OBVIOUS
    <3>1. Guarded(todo)
      BY DEF Unprovisioned
    <3>2. Head(todo).op \notin Building /\ \A c : c.op \notin Building => Guarded(<<c>> \o Tail(todo))
      BY <1>2, <2>1, <2>3, <3>1, GuardedTail
    <3> QED
      BY <2>3, <3>2
  <2> QED
    BY <2>1, <2>2 DEF Unprovisioned
<1>7. CASE Ends(t) \/ Fails(t) \/ Pops(t)
  <2>1. task[t].phase = "undo" => todo = <<>>
    BY DEF InHand
  <2>2. ASSUME NEW e \in task[t].sweep,
               task'[t] = Job(e.blueprint, e.seedling, 0, task[t].sweep \ {e})
        PROVE  task'[t].todo = <<>>
    BY <2>2 DEF Job
  <2>3. CASE Ends(t)
    BY <1>3, <2>2, <2>3 DEF Ends
  <2> QED
    BY <1>3, <1>7, <2>1, <2>3 DEF Fails, Pops, Undoing
<1> QED
  BY <1>4, <1>5, <1>6, <1>7 DEF TaskMoves

\* While others bring nothing back, a drop has what it needs.
LEMMA OthersDropping ==
    ASSUME NEW u \in Tasks, Dropping(u), task'[u] = task[u],
           LET s == task[u].seedling IN
           task[u].blueprint = "drop" /\ s \in Secrets =>
               /\ Exists(Main(s))' => Exists(Main(s))
               /\ Exists(Agent(s))' => Exists(Agent(s))
               /\ network'[s] => network[s]
               /\ Defined(s)' => Defined(s)
    PROVE  Dropping(u)'
  BY DEF Dropping, ToGo, Exists, Defined

\* A drop takes away what it has a command for, and brings nothing back itself.
LEMMA MovesDropping ==
    ASSUME TypeOK, NEW t \in Tasks, InHand(t), Dropping(t),
           TaskMoves(t), ContainersMove(t), NetworksMove(t), RecordsMove(t)
    PROVE  Dropping(t)'
<1> SUFFICES ASSUME NEW s \in Secrets, s = task'[t].seedling,
                    NEW plan, plan = task'[t].todo, task'[t].blueprint = "drop",
                    task'[t].phase = "run" \/ (task'[t].phase = "idle" /\ task'[t].result = "ok")
             PROVE  ToGo(s, plan)'
  BY DEF Dropping, ToGo, Exists, Defined
<1>1. /\ task[t] \in TaskType /\ s \in Seedlings
      /\ Main(s) \in Containers /\ Agent(s) \in Containers /\ Main(s)[1] = s /\ Agent(s)[1] = s
  BY SeedlingAssumption, ContainersOf DEF TypeOK
<1>2. ASSUME task[t].seedling = s, task[t].blueprint = "drop"
      PROVE  /\ \A c \in {Main(s), Agent(s)} : Exists(c)' => Exists(c)
             /\ network'[s] => network[s]
             /\ Defined(s)' => Defined(s)
  <2>1. task[t].todo # <<>> => Current(t).op \in OpsOf("drop")
    BY <1>2, CurrentInHand
  <2>2. (\A op \in Building : ~Runs(t, op)) /\ ~Runs(t, "CreateSeedling")
    BY <2>1 DEF Runs, OpsOf, Building
  <2> QED
    BY <1>1, <2>2, NothingComes
<1>3. CASE Ends(t)
  <2>1. \A e : task'[t] # Job(e.blueprint, e.seedling, 0, task[t].sweep \ {e})
    BY DEF Job
  <2>2. /\ task[t].phase = "run" /\ task[t].todo = <<>> /\ plan = <<>>
        /\ task[t].seedling = s /\ task[t].blueprint = "drop"
    BY <1>3, <2>1 DEF Ends
  <2>3. ToGo(s, plan)
    BY <2>2 DEF Dropping
  <2> QED
    BY <1>2, <2>2, <2>3, ToGoStays
<1>4. CASE Plans(t)
  <2>1. /\ plan = PlanOf(t) /\ task[t].seedling = s /\ task[t].blueprint = "drop"
    BY <1>4 DEF Plans, SameJob
  <2>2. plan = DropPlan(s)
    BY <2>1 DEF PlanOf
  <2>3. ToGo(s, plan)
    BY <1>1, <2>2, DropHas DEF ToGo
  <2> QED
    BY <1>2, <2>1, <2>3, ToGoStays
<1>5. ASSUME NEW cmd \in Commands, Completes(t, cmd)
      PROVE  ToGo(s, plan)'
  <2>1. /\ task[t].phase = "run" /\ task[t].todo # <<>> /\ plan = Tail(task[t].todo)
        /\ task[t].seedling = s /\ task[t].blueprint = "drop" /\ Achieved(t)
    BY <1>5 DEF Completes, SameJob
  <2>2. ToGo(s, task[t].todo) /\ task[t].todo \in Seq(Commands)
    BY <1>1, <2>1 DEF Dropping, TaskType
  <2>3. \A op, c : Has(task[t].todo, op, c) =>
                       (Current(t).op = op /\ Current(t).on = c) \/ Has(plan, op, c)
    BY <2>1, <2>2, TailHas DEF Current
  <2>4. ASSUME NEW c \in {Main(s), Agent(s)}, Exists(c)'
        PROVE  Has(plan, "DropContainer", c)
    <3>1. Has(task[t].todo, "DropContainer", c)
      BY <1>2, <2>1, <2>2, <2>4 DEF ToGo
    <3>2. ~(Current(t).op = "DropContainer" /\ Current(t).on = c)
      BY <2>1, <2>4 DEF Achieved, Exists
    <3> QED
      BY <2>3, <3>1, <3>2
  <2>5. network'[s] => Has(plan, "DeleteNetwork", Main(s))
    <3>1. ~(Current(t).op = "DeleteNetwork" /\ Current(t).on = Main(s)) \/ ~network'[s]
      BY <1>1, <2>1 DEF Achieved
    <3> QED
      BY <1>2, <2>1, <2>2, <2>3, <3>1 DEF ToGo
  <2>6. Defined(s)' => Has(plan, "DeleteSeedbankEntry", Main(s))
    <3>1. ~(Current(t).op = "DeleteSeedbankEntry" /\ Current(t).on = Main(s)) \/ ~Defined(s)'
      BY <1>1, <2>1 DEF Achieved, Defined
    <3> QED
      BY <1>2, <2>1, <2>2, <2>3, <3>1 DEF ToGo
  <2> QED
    BY <2>4, <2>5, <2>6 DEF ToGo, Exists, Has
<1>6. ASSUME NEW cmd \in Commands, Continues(t, cmd)
      PROVE  ToGo(s, plan)'
  <2>1. task[t].blueprint = "drop" /\ task[t].todo # <<>>
        /\ Current(t).op \in Building
             \cup {"StartSeedling", "CheckHealth", "RecheckHealth", "GiveUp"}
    BY <1>6 DEF Continues, Follows, SameJob
  <2>2. Current(t).op \in OpsOf("drop")
    BY <2>1, CurrentInHand
  <2> QED
    BY <2>1, <2>2 DEF OpsOf, Building
<1>7. CASE Fails(t) \/ Pops(t)
  BY <1>7 DEF Fails, Pops
<1> QED
  BY <1>3, <1>4, <1>5, <1>6, <1>7 DEF TaskMoves

\* One operator sends its requests one after the other.
OneOperator == \A o, p \in Operators : o = p
DropsInv == VersionsInv /\ Drops

\* Whatever the watchdog does and whatever fails, a drop takes away what there is.
LEMMA DropsKept ==
    ASSUME OneOperator, DropsInv, PlansInHand', Next
    PROVE  Drops'
<1>1. TypeOK /\ Drops /\ \A t \in Tasks : InHand(t) /\ Versioned(t)
  BY DEF DropsInv, VersionsInv, PlansInHand, Versions
<1>2. Watchdog \in Tasks
  BY Bounds
<1>3. ASSUME NEW u \in Tasks, task'[u] = task[u], UNCHANGED <<record, network>>,
             \A c \in Containers : KeptOrSwitched(c)
      PROVE  Dropping(u)'
  <2> DEFINE s == task[u].seedling
  <2>1. s \in Secrets =>
            /\ Main(s) \in Containers /\ Agent(s) \in Containers
    BY SeedlingAssumption, ContainersOf
  <2>2. s \in Secrets =>
            /\ Exists(Main(s))' => Exists(Main(s))
            /\ Exists(Agent(s))' => Exists(Agent(s))
    BY <1>1, <1>3, <2>1, SwitchedKeeps DEF Exists
  <2>3. (network'[s] => network[s]) /\ (record'[s].version > 0 => Defined(s))
    BY <1>3 DEF Defined
  <2> QED
    BY <1>1, <1>3, <2>2, <2>3, OthersDropping DEF Drops, Defined
<1>4. ASSUME task'[Watchdog].todo = <<>> PROVE Unprovisioned'
  BY <1>4, EmptySeq DEF Unprovisioned, Guarded
<1>5. ASSUME task'[Watchdog] = task[Watchdog] PROVE Unprovisioned'
  BY <1>1, <1>5 DEF Drops, Unprovisioned
<1>6. Dropping(Watchdog)'
  BY <1>2 DEF PlansInHand, InHand, Dropping
<1>7. ASSUME NEW t \in Tasks, Step(t) \/ Failure(t)
      PROVE  Drops'
  <2>1. TaskMoves(t) /\ RecordsMove(t) /\ ContainersMove(t) /\ NetworksMove(t)
    BY <1>1, <1>7, StepMoves, StepMovesRecords, TaskMovesContainers
  <2>2. Dropping(t)'
    BY <1>1, <2>1, MovesDropping DEF Drops
  <2>3. CASE t = Watchdog
    <3>1. Unprovisioned'
      BY <1>1, <1>2, <2>1, <2>3, MovesUnprovisioned DEF Drops
    <3>2. ASSUME NEW u \in Tasks \ {t} PROVE Dropping(u)'
      <4> DEFINE s == task[u].seedling
      <4>1. task'[u] = task[u]
        BY <2>1 DEF TaskMoves
      <4>2. ASSUME s \in Secrets
            PROVE  /\ \A c \in {Main(s), Agent(s)} : container'[c].status # "absent" => Exists(c)
                   /\ network'[s] => network[s]
                   /\ record'[s].version > 0 => Defined(s)
        <5>1. ASSUME Current(t).on[1] = s
              PROVE  (\A op \in Building : ~Runs(t, op)) /\ ~Runs(t, "CreateSeedling")
          <6>1. CASE task[t].todo = <<>>
            BY <6>1 DEF Runs
          <6>2. CASE task[t].todo # <<>>
            <7>1. task[t].seedling = s
              BY <1>1, <5>1, <6>2, CurrentInHand
            <7> QED
              BY <1>1, <2>3, <4>2, <7>1, WatchdogBuildsNot DEF Drops
          <6> QED
            BY <6>1, <6>2
        <5>2. PICK r \in Seedlings : r = s
          BY <4>2, SeedlingAssumption
        <5>3. /\ \A c \in {Main(r), Agent(r)} : Exists(c)' => Exists(c)
              /\ network'[r] => network[r]
              /\ Defined(r)' => Defined(r)
          BY <1>1, <2>1, <5>1, <5>2, NothingComes
        <5> QED
          BY <5>2, <5>3 DEF Exists, Defined
      <4> QED
        BY <1>1, <4>1, <4>2, OthersDropping DEF Drops, Exists, Defined
    <3> QED
      BY <2>2, <3>1, <3>2 DEF Drops
  <2>4. CASE t # Watchdog
    <3>1. Tasks = {t, Watchdog}
      BY <1>2, <2>4 DEF OneOperator, Tasks
    <3>2. Unprovisioned'
      BY <1>2, <1>5, <2>1, <2>4 DEF TaskMoves
    <3> QED
      BY <1>6, <2>2, <3>1, <3>2 DEF Drops
  <2> QED
    BY <2>3, <2>4
<1>8. CASE Request
  <2>1. PICK o \in Operators : Asks(o)
    BY <1>1, <1>8, RequestAsks
  <2>2. UNCHANGED <<record, network, container>>
    BY <1>8 DEF Request
  <2>3. o # Watchdog /\ task'[o].phase = "discover"
    BY <2>1, SeedlingAssumption DEF Asks, Given, Job
  <2>4. ASSUME NEW u \in Tasks PROVE Dropping(u)'
    <3>1. CASE u = o
      BY <2>3, <3>1 DEF Dropping
    <3>2. CASE u # o
      BY <1>3, <2>1, <2>2, <3>2 DEF Asks, KeptOrSwitched
    <3> QED
      BY <3>1, <3>2
  <2>5. Unprovisioned'
    BY <1>2, <1>5, <2>1, <2>3 DEF Asks
  <2> QED
    BY <2>4, <2>5 DEF Drops
<1>9. CASE Sweep
  <2>1. UNCHANGED <<record, network, container>>
    BY <1>9 DEF Sweep
  <2>2. task'[Watchdog].todo = <<>>
    <3>1. PICK e \in SweepPlan :
              task'[Watchdog] = Job(e.blueprint, e.seedling, 0, SweepPlan \ {e})
      BY <1>1, <1>9, SweepBegins
    <3> QED
      BY <3>1 DEF Job
  <2>3. ASSUME NEW u \in Tasks PROVE Dropping(u)'
    BY <1>1, <1>3, <1>6, <1>9, <2>1, SweepBegins DEF KeptOrSwitched
  <2> QED
    BY <1>4, <2>2, <2>3 DEF Drops
<1>10. CASE Crash
  <2>1. \A u \in Tasks : /\ task'[u].phase = "idle" /\ task'[u].result = "none"
                         /\ task'[u].todo = <<>>
    BY <1>1, <1>10, CrashIdles
  <2>2. \A u \in Tasks : Dropping(u)'
    BY <2>1 DEF Dropping
  <2> QED
    BY <1>2, <1>4, <2>1, <2>2 DEF Drops
<1>11. CASE ContainerExits
  <2>1. UNCHANGED <<record, network, task>>
    BY <1>11 DEF ContainerExits
  <2>2. \A u \in Tasks : Dropping(u)'
    BY <1>1, <1>3, <1>11, <2>1, ExitSwitches
  <2> QED
    BY <1>5, <2>1, <2>2 DEF Drops
<1>12. ASSUME NEW o \in Operators, HangUp(o)
       PROVE  Drops'
  <2>1. UNCHANGED <<record, network, container>>
    BY <1>12 DEF HangUp
  <2>2. /\ o \in Tasks /\ o # Watchdog /\ \A u \in Tasks \ {o} : task'[u] = task[u]
        /\ task'[o].phase = "idle" /\ task'[o].result = "none"
    BY <1>1, <1>12, HangUpIdles, SeedlingAssumption
  <2>3. Dropping(o)'
    BY <2>2 DEF Dropping
  <2>4. \A u \in Tasks : Dropping(u)'
    BY <1>3, <2>1, <2>2, <2>3 DEF KeptOrSwitched
  <2>5. Unprovisioned'
    BY <1>2, <1>5, <2>2
  <2> QED
    BY <2>4, <2>5 DEF Drops
<1> QED
  BY <1>7, <1>8, <1>9, <1>10, <1>11, <1>12 DEF Next

LEMMA DropsInit == Init => DropsInv
<1> SUFFICES ASSUME Init PROVE Drops
  BY VersionsInit DEF DropsInv
<1>1. \A t \in Tasks : /\ task[t].blueprint = "stop" /\ task[t].todo = <<>>
  BY DEF Init, Job
<1>2. Guarded(<<>>)
  BY EmptySeq DEF Guarded
<1> QED
  BY <1>1, <1>2, Bounds DEF Drops, Dropping, Unprovisioned

LEMMA DropsNext == OneOperator /\ DropsInv /\ [Next]_vars => DropsInv'
<1> SUFFICES ASSUME OneOperator, DropsInv, [Next]_vars PROVE DropsInv'
  OBVIOUS
<1>1. VersionsInv'
  BY VersionsNext DEF DropsInv, OneAtATime, OneOperator
<1>2. CASE Next
  BY <1>1, <1>2, DropsKept DEF DropsInv, VersionsInv
<1>3. CASE UNCHANGED vars
  <2>1. UNCHANGED <<record, container, network, task>>
    BY <1>3 DEF vars
  <2>2. Drops'
    BY <2>1 DEF DropsInv, Drops, Unprovisioned, Dropping, ToGo, Exists, Defined
  <2> QED
    BY <1>1, <2>2 DEF DropsInv
<1> QED
  BY <1>2, <1>3

\* A drop that succeeded leaves nothing of a seedling with an agent in the seedbank and in
\* docker until the operator asks for something else, whatever fails meanwhile: the
\* watchdog, which may have planned to bring the seedling up before it was dropped, cannot
\* get past the agent's mount.
THEOREM SecretsDropped ==
    ASSUME OneOperator
    PROVE  Spec => [](\A s \in Secrets, o \in Operators :
                          Ended(o, "drop", s, "ok") =>
                              ~Defined(s) /\ ~Exists(Main(s)) /\ ~Exists(Agent(s)) /\ ~network[s])
<1>1. DropsInv => \A s \in Secrets, o \in Operators :
          Ended(o, "drop", s, "ok") =>
              ~Defined(s) /\ ~Exists(Main(s)) /\ ~Exists(Agent(s)) /\ ~network[s]
  <2> SUFFICES ASSUME DropsInv, NEW s \in Secrets, NEW o \in Operators, Ended(o, "drop", s, "ok")
               PROVE  ~Defined(s) /\ ~Exists(Main(s)) /\ ~Exists(Agent(s)) /\ ~network[s]
    OBVIOUS
  <2>1. o \in Tasks /\ Dropping(o) /\ InHand(o)
    BY Bounds DEF DropsInv, Drops, VersionsInv, PlansInHand
  <2>2. ToGo(s, <<>>)
    BY <2>1 DEF Ended, Dropping, InHand
  <2>3. \A op, c : ~Has(<<>>, op, c)
    BY EmptySeq DEF Has
  <2> QED
    BY <2>2, <2>3 DEF ToGo
<1>2. DropsInv /\ [Next]_vars => DropsInv'
  BY DropsNext
<1> QED
  BY DropsInit, <1>1, <1>2, PTL DEF Spec

\* Where every seedling has an agent, a drop that succeeded leaves nothing.
THEOREM DropCorrect ==
    ASSUME OneOperator, Seedlings = Secrets
    PROVE  Spec => []DropLeavesNothing
<1>1. (\A s \in Secrets, o \in Operators :
          Ended(o, "drop", s, "ok") =>
              ~Defined(s) /\ ~Exists(Main(s)) /\ ~Exists(Agent(s)) /\ ~network[s])
      => DropLeavesNothing
  BY DEF DropLeavesNothing
<1> QED
  BY <1>1, SecretsDropped, PTL

=============================================================================
