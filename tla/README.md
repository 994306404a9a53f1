# A formal model of douglas

douglas is a small container orchestrator: a `douglas` binary with several long-running services, which
keeps *seedlings* (containerised applications) on one host. These modules model its core logic in TLA+;
TLC checks them on small instances and TLAPS proves part of what they state for every instance.

## Inventory

| part | state it keeps | operations | hard behaviour |
|------|----------------|------------|----------------|
| **blueprint** (`blueprint/src/lib.rs`, `bootstrap.rs`) | the journal of a plan | run a plan's commands, roll back on a failure | commands that fail half-way, rollbacks that fail, skipped commands |
| **bract, lifecycle** (`bract/src/lib.rs`, `blueprints/*.rs`) | none: it observes the seedbank and docker | new, reconcile, start, stop, drop, the watchdog's sweep | a task per connection plus the watchdog, no lock on a seedling; plans made from stale observations; crashes |
| **bract, secrets and deadwood** (`provision_seedling_secrets.rs`, `find_deadwood.rs`, `prune_deadwood.rs`, `write_traefik_routes.rs`) | the agent's ram disk; roles, policies and secret ids in OpenBao | provision, revoke, find, prune, write routes | credentials in two places that must agree; no undo for OpenBao; reboots that empty the ram disk; a prune of what was found earlier |
| **seedbank** (`seedbank/src/lib.rs`) | a folder per seedling: id, version, definition, mount, desired run status, health log; the default | create, update, delete, claim and release the default, set the run status, count failures | several files per call, a lock that some calls do not take, truncated files, crashes |
| **docker** (external; `docker/src`) | containers, networks, images | create, start, stop, delete, connect | what a call does to a container in the wrong state |
| **woodward** (`woodward/src/lib.rs`, `src/commands/kick.rs`) | a tally per service, failure markers on disk | check heartbeats, kick, give up, mark | timing, slow or failing kicks, restarts of woodward, torn heartbeat files |
| **douglas upgrade / rollback** (`src/bootstrap/upgrade.rs`) | the installed binary, the retained ones, a journal | upgrade, roll back, prune | failing in the middle, which binaries are kept |
| **resin** (`resin/src`) | blobs, uploads, manifests, tags | pull, fetch through the proxy, push, delete; upload in chunks, mount | concurrent requests on one digest, bodies that are passed on before they are verified, chunks that fail or come late |
| **openbao** (`src/bootstrap/openbao.rs`, `openbao/src`) | unseal codes and Douglas's login on disk; OpenBao's own state | initialise, unseal, set up, top up | what OpenBao gives out once must reach the disk; starts at the same time; restarts that seal |
| **rolodex, credentials** (`bract/src/rolodex`, `credentials/src`) | service accounts | create, find | created half-way |
| clients, log, config, identity, os, file system, release, CLI, xtask | – | I/O, formatting, system calls | – |

How they interact: the CLI and resin send requests to bract over unix sockets; bract calls the seedbank,
docker, OpenBao and the rolodex, one call after the other, from plans that the blueprint executor runs;
a push to resin triggers a reconcile; `douglas start` brings the services up and sets OpenBao up;
woodward reads the heartbeat files that every service writes and kicks with `douglas kick`; bract's
watchdog is to seedlings what woodward is to services.

What makes each part correct:
- the executor: a failed plan is undone, completely and backwards, save what itself failed, and a plan ends;
- the lifecycle: what should run runs and what was stopped stays stopped; a container is never ahead of
  its record; a running container is reachable; a drop leaves nothing; a hopeless seedling is given up;
- secrets and deadwood: the credentials on the ram disk are those OpenBao accepts, and no other secret id is; a deployment
  does not write them to a disk that outlives the host; a drop, or a prune after one that broke off, leaves nothing anywhere;
- seedbank: each call happens at once or not at all; ids are unique and versions do not go back, whatever fails;
- woodward: no kick of a service that is well, every service comes back, markers tell the truth;
- the upgrade: what it replaces stays kept and is put back when it fails, the installed binary accepts the data it
  finds, and a host that is settled runs what it has installed;
- resin: what is served under a digest is what the digest says, and a tag names a manifest that is there;
- openbao: the unseal codes are not lost but where that cannot be helped, a start that succeeds is complete, repeated
  starts succeed.

## Modules

| module | what it is |
|--------|-----------|
| `Blueprint`, `ProvisioningProofs` | the journaling executor on a plan of any length, and theorems about it |
| `Seedling`, `SeedlingProofs` | the lifecycle of seedlings: requests, plans, commands and rollbacks of concurrent tasks over the seedbank and docker |
| `Provisioning`, `ProvisioningProofs` | the secrets, route, network and repository of a seedling with an agent: deployments, drops and prunes over OpenBao, docker and the ram disk |
| `Records` | the abstract specification of the seedbank's records |
| `Seedbank`, `SeedbankProofs` | the seedbank on its files, and theorems about it: it implements `Records` |
| `Registry`, `RegistryProofs` | resin's manifests, cached blobs, tags and proxy |
| `Uploads`, `UploadsProofs` | resin's uploads, commits, mounts and deletions of blobs |
| `OpenBao`, `OpenBaoProofs` | the setup of OpenBao by `douglas start` |
| `Woodward`, `WoodwardProofs` | the supervisor of services |
| `Upgrade`, `UpgradeProofs` | upgrade, rollback and start: the plan, its undoing, crashes, and the processes of the services |
| `MC*` | instances for TLC |

`PROJECT.json` maps each definition to the lines it models. The modules are joined where the code is: `Seedling` uses the seedbank's calls as atomic, which is what
`Seedbank` implementing `Records` justifies; every plan of `Seedling`, `Provisioning` and `OpenBao` runs the way `Blueprint` says (a journal, undone backwards, or commands
that have no undo); `Provisioning` looks closely at what `Seedling` has as one command (`EnsureAgentMount`), and leaves out what `Seedling` has (versions, health, the watchdog).

### Blueprint

`journal` is the executor's `Vec`, `step_index` the loop's index; `effect` is what a command has left on
the machine, which the code does not know: a failing command may leave something half-done, and it is not
in the journal when it fails, so nothing undoes that. `lasting` are the commands whose rollback answers Ok and undoes nothing: the trait's own, which a command without a rollback has, or one that returns early. Actions: `Skip`, `RunSucceeds`, `RunFails` (the arms
of the loop in `run`), `Rollback` (one turn of the loop in `rollback`, which may fail), `Finish`. Its `ExecutorInit`, `ExecutorNext` and `ExecutorSpec` are named apart, so that one
module can hold the theorems of the executor and of the plans of `Provisioning`.

### Seedling

`record` is the seedbank, `image`, `container` and `network` are docker and resin, `account` is the rolodex.
`task[t]` is one of bract's tasks: an operator's connection or the watchdog. A task in phase `discover` observes
and plans (`Plan`: the blueprint's `discover` and `create_plan`), in `run` it takes the head of `todo`, in `undo` the
last of `journal`. A step is a call that changes something, whose guard of success is what the callee checks (the seedbank's
version comparison, docker's state of the container): a command is one action, or several where it makes several such calls (`BuildContainer` creates
the container, `FindNetwork`, `CreateNetwork` and `ConnectNetwork` join it). bract's runtime has several threads, and the tasks interleave between all of these.
`StartSeedling` waits in the code between the start and the health check, so it is the actions `StartSeedling`,
`CheckHealth` and, when the failures are too many, `StopFailed`. The watchdog's sweep is one plan whose
steps are blueprints of their own (`sweep` holds the ones to come); the first that fails ends the sweep.

A discovery is a single step, and so is a rollback. A discovery makes several calls in the code, but acts on nothing before the last; a plan that is made from observations of different moments is left out.

Failures are bounded events: a call fails before it changed anything (`CommandFails`, also between two calls of one command, where the container that was created stays), the system's network cannot be
found, an agent stays unhealthy, a rollback fails, bract crashes, a client hangs up (`HangUp`: its task ends where it waits, with nothing undone; a call that it had sent has happened or not. The reconcile
that a push to resin triggers is `spawned`: no connection ends it). A container of `Flaky` exits at any time and without a bound.

The `Newer` core seedlings of an older binary are refused before bract is asked (`src/bootstrap/compatibility.rs`), so requests to
reconcile one only go up (`budget.newest`).

### Provisioning

`policy`, `role` and `live` are OpenBao's part (the policy, the role's id, its secret ids), `mount` and `file` the agent's folder and the credentials that are seen in it, `below` those in the folder that a ram disk hides, `agent` its container, and `host` what
else there is of the seedling: network, repository, route, and traefik's link to the network. A task is a deployment, a drop, or a find with the prune that the operator confirms; `todo` are its calls,
one action each: `Look` to `CreateAuthSecret` are `provision_agent_if_requested` and `execute`, `EnsureAgentMount`, `MountRamDisk`, `WriteRoleId` and `WriteSecretId` the calls of the command `EnsureAgentMount`, between which another task may unmount or delete the folder, `BuildAgentContainer` to `ConnectTraefik` the rest of the part of the reconcile and of the routes that is about the agent, `DropPlan` is
`create_plan` of `drop_seedling.rs`, `Kinds` the order in which deadwood is found and pruned. Only a deployment's commands have an undo (`Undo`, or `UndoFails`, half-way too); a drop that could not revoke warns and goes on
(`FailedTask`). Role ids and secret ids are numbers that are used again when nothing refers to them.

`undisturbed` and `revoked` are history: whether a task ran with nothing beside it and without a failed call, and whether the files in use were written by a task that did not, or were revoked under.
The properties leave those cases out, because the code does not repair them (see the departures below).

Simplifications: one seedling, with secrets whose access does not change; the seedling's own container is left out (a drop that is refused because of the agent stands for both);
whether the folder is mounted is asked and acted on in one step, the creation of the agent's container and its network is one step that may be cut off (`Seedling` has its calls); `DropPlan` leaves out the release of the default route, which is not modelled; the agent's mount is read-only, so that the agent cannot remove the secret id it has read; a `reconcile` request carries no id and never provisions, so deployments are pushes
and starts; the routes of other seedlings are not seen.

### Records and Seedbank

`Records` says what a call does to a record: it happens at once, or not at all, or it damages the one record it is about. `Seedbank` has a file for each part of a record and a step for each call on the file
system; a write that fails leaves the file truncated, a crash ends every call where it is. `lock` is the server's mutex: creations, updates and deletions hold it, the run status and the log are written without. The refinement reads the files
as `load` does (`RecordOf`), and while a call holds the lock it shows what was there when the lock was taken (`before`), so that the abstract step is the release of the lock. `earned` and `overtaken` are history
for the log of failed checks, which is read and written without the lock.

### Registry

The files of the blob store are `tmp` (`<digest>.tmp`), `final` and `media`; they name an inode, and `data` is what each inode holds, so that a save which goes on writing to a file that another save has renamed is seen. A body is `Size` chunks;
a fetch passes each chunk to the client as it appends it to the file, and compares the digest at the end. By then the client, who was given a `Content-Length`, has all it waits for: there is no verdict that reaches it, and what the module states is about the cache that is left. A pull from the disk asks for the size, opens the file and reads it in separate steps. The clean-up after a failed save may fail at each of its deletions (`CleanFails`). `disturbed` is history: the digests whose saves overlapped, or were cut off by a restart. Pulls of local manifests, pulls through
the proxy, pushes with and without a tag, and deletions are the operations.

### Uploads

A digest is modelled by the body it is the hash of, a hasher by the chunks it was given. The request that brings a chunk takes the hasher out of the table of uploads, works without the mutex, and gives it back; the commit runs under
the mutex. A request that fails loses the hasher (`NoHasher`), and completing that upload panics under the mutex (`poisoned`), which ends every upload until resin restarts. An append may come late, after its request is gone (`LateAppend`).
Mounts and deletions never take the mutex. The clean-up of an upload that cannot be mounted is three deletions, each of which may fail.

### OpenBao

A start observes OpenBao and the files, plans, and runs commands that have no undo (`Plan`, `create_plan`, one action per command). `files` are `unseal.codes` and Douglas's role and secret id; each holds what this OpenBao gave out, what an earlier one did, or
the front of a write that was cut off. `installed` is what OpenBao has been set up with, `policy` what Douglas's own policy lets it install. OpenBao may begin new, beside the files of a lost one, or set up by an earlier release (`Earlier`). Starts are repeated without end,
may die or have a call fail at each step (an observation may miss one query, those of the certificates, or all: `Misses`), and OpenBao may restart, sealed.

### Woodward

An interval of the check task is the unit of time. The constants keep the order of the code's: a timely heartbeat (15 s) <
the grace of a start (90 s) < the window of restarts (300 s), and a kick waits as long as the window
(300 s). Ages saturate above the window, where nothing tells them apart. `check` is the task's position, the step of the kick
and the rounds that tokio's interval owes (`Burst`): the services are checked one after the other, and a kick of one delays the rounds of all, which then follow each other at once. `proc` is the world: processes start, beat, freeze, thaw, die. The failure counter wraps
at `CounterMax`, as a `u8` does in a release build. A process that dies while it writes leaves its heartbeat file truncated, and a check that comes in the
middle of the create-then-write finds it so (`MaxMisreads` bounds those).

### Upgrade

`douglas upgrade` and `douglas rollback` as their plan's commands, one action each (`Plan` is `create_plan`'s list, `task.at` the position, `task.mode`
whether it runs or is undone), and `start` as the step it is for an operator, for the plan and for its undoing. `installed`, `kept`, `marker` and `journal` are
the files (the install marker and the journal may be cut off by a failed write or a crash: `Torn`, `journal.torn`); `kept` is the set of versions that have a copy, which is all that names and contents of the copies tell apart. `Format` stands for what a release declares (data format and core
seedlings' versions): `Same` is an empty list of `differences`, `Compatible` an empty list of `start_conflicts`.

`proc` are the processes of each service, with the version that each runs, and `heartbeat` the process that its heartbeat file names. The two disagree from the moment a
service is spawned to its first beat, and a service is killed by what the file names: on this the module's properties turn. A process binds its socket and beats in one step.
`slow` is a choice of the initial state: on a host that is not slow a command looks at the services only when none is coming up or ending (`Settled`).

Simplifications: the operator's commands run one at a time and through the link, so that the version that runs the command is the installed one; the copies'
staging files are not seen (each is renamed or deleted by the command that makes it); the candidate's mode and owner are right; finding out which services need a start and spawning them is one step; core seedlings and openbao
are one possible failure at the end of `start`; woodward does not kick while a plan runs (the plan stops it first; the hazard of a kick in flight is listed).

## Runs

| run | question | instance |
|-----|----------|----------|
| `MCBlueprint` | journal, rollback order, what is left, does it end | plans of up to 4 commands |
| `MCSeedlingRaces` | is a hopeless seedling given up, whoever interleaves | 1 seedling, 2 operators, watchdog, 3 requests, 1 failure |
| `MCSeedlingDrop` | does a drop leave anything | with an agent, 5 requests, 1 failure |
| `MCSeedlingCore` | is no container ahead of its record, does the watchdog bring it back | versions 1..3, 3 requests, 1 failure |
| `MCProvisioning` | are the credentials on the ram disk those OpenBao accepts; are they in memory only; does a drop or a prune leave anything anywhere | 2 tasks, 3 requests, 2 failures, crashes or reboots |
| `MCSeedbank` | is each call atomic (refinement of `Records`), are ids unique, are strikes earned | 2 calls at a time, 2 seedlings, 2 ids, 4 versions (no mount, a mount, another, none), 4 calls, 1 failed call, 1 crash |
| `MCRegistry` | are bodies whole in the cache and as they are read from it, do tags resolve | 2 requests at a time, 2 local manifests and a cached blob of 2 chunks, 1 tag, 3 requests, 2 faults, 1 restart |
| `MCUploads` | does an upload hash what its file holds; are blobs whole | 2 requests at a time, 2 uploads, 2 repositories, bodies of 1 and 2 chunks, 8 requests, 2 faults, 1 restart |
| `MCOpenBao` | where can the codes be lost; is a success complete; do starts converge | 2 starts, 3 earlier setups, files of a lost OpenBao, 2 faults, 2 restarts |
| `MCWoodward` | kicks, healing, markers | 2 services, 2 faults, 1 misread, 1 restart of woodward |
| `MCUpgrade` | is what an upgrade replaces kept and put back; does the installed version accept the data; does a settled host run one version | 2 services, 4 versions in 2 formats, 2 copies; 4 commands (2 on a slow host), 1 failure, 1 crash |

The run that TLC must find violated, a disagreement between what the code does and what the repository says of it:

| run | property | what happens |
|-----|----------|--------------|
| `MCOpenBaoSealed` | `NeverWithoutToken` | the plan for a sealed OpenBao reaches its first mount without an admin token, and the start fails; the next one succeeds |

Departures: what the modules have because the code does it, and the properties leave out, by the instance of the run or in their statement.
Lifecycle (change a constant of the configuration to see each):
- a container may run without its network, although nothing failed: another task starts it between the calls that create and connect it, or finds it as a failure or a client that hung up has left it. No property forbids it; that what has joined keeps its network is `NetworkCorrect`;
- a container that waits to be started loses its network to the rollback of a build that another task had lost, and nothing creates it again (`Stranded`, which `StaysUp` leaves out);
- `StaysUp` with a seedling in `Secrets`: the watchdog reconciles without the means to provision; with two seedlings in `Flaky`: the first one's exits end the sweeps before the second one's turn;
- `GivesUp` for a seedling that is also in `Flaky`: a start after a reconcile is refused ("already running"), the failed checks are never counted;
- `ContainerNotAhead` with two operators who reconcile a core seedling at once, to two versions, and one failure: the newer reconcile breaks off and takes its record back, but not the container it was creating; the older one then creates the record at its own version;
- `DropLeavesNothing` with two operators, or a seedling without an agent that is in `Flaky`: a reconcile that had begun recreates what the drop deletes;
- a failed update leaves its version and definition in the seedbank, which refuses to go back (a test of `reconcile_seedling.rs` is named after the opposite).

Secrets and deadwood:
- a drop revokes before it looks whether it may drop: refused, it leaves files that later deployments use and OpenBao does not accept (`revoked`);
- two deployments at once destroy each other's secret ids (`revoked`);
- an unmount between a deployment's mount and its writes leaves the credentials on the disk below (`CredentialsInMemory` is about a deployment with nothing beside it);
- a file that was cut off counts as one that is there, until a reboot (`Torn`);
- a prune deletes what was found before the operator confirmed, also of a seedling created since; it stops at a mounted ram disk, before the secrets; an OpenBao that does not answer has nothing to prune (`ObserveBlind`);
- a drop that stopped after it disconnected traefik cannot be repeated before a reconcile connects it again.

Seedbank: an interrupted update may leave a record that neither `load` nor an update gets past, and one that was to add a mount leaves a file that the mount of a later version finds (both are `Damaged` in `Records`). Resin: an interrupted or overlapping save leaves bytes in the temporary
file that the next save appends to (`disturbed`); a fetched body that does not match its digest, or whose save fails, reaches the client in full before that is known; a failed chunk ends all uploads (`poisoned`). OpenBao: the codes are lost if a start dies between initialising and recording, also
while it rewrites the same codes; a root token outlives a start that failed before revoking it.
Woodward: a service that died in the middle of writing its heartbeat is never kicked (`Heals` leaves it out); a restarted woodward never clears older markers; a failed kick leaves the count above its limit; after another
service's long kick the rounds that are due follow each other at once, and a heartbeat that was late once is counted several times: a service that is well is kicked (`NoHastyKick` is about the time after `RestartWindow` without a kick). Upgrade: `PreviousKept` with `AnyTarget`: after a rollback below all kept versions, the next upgrade prunes the copy it has just made; also without it, when copies that
are too many could not be deleted (a prune only warns): default rollbacks then go back through the leftovers, below the `RetainedCount` newest, and the next upgrade prunes what it replaces (with `RetainedCount = 2`, three failed deletions and versions up to 6; `PreviousCovered` says of both when they happen);
an install marker that was cut off, by a failed write or a crash, refuses every later start, also that of the installed version (`Torn`);
`OneVersion` on a slow host: a service of a failed new version that had not beaten yet is not stopped.

Bounds. One seedling is enough for what tasks do to each other, since no command touches two; only the sweep and the seedbank's ids relate seedlings. Three or four requests are
the shortest that define, deploy, disturb and disturb again. One failure at any point reaches every rollback; `Provisioning` has two, for a crash followed by a reboot, or a failed rollback of a failed call, and four ids are as many as two tasks, the files and OpenBao ever name at once.
Woodward's constants are the smallest in the order of the code's, with enough faults to reach the give-up state by failed kicks and by restarts, and to come back. Two services are the fewest of which one's kick can delay the other's rounds.
Two services stand for the four in `Upgrade`: woodward, which like resin and the seedbank is killed, and bract, which is asked first. `RetainedCount = 2` and four versions are
the smallest in which copies are pruned while the previous version is among them; the code keeps 3. The health check looks twice instead of 11 times: nothing remembers more than the last look. Three process names
per service are the one that beats, the one that is spawned and one that outlived an earlier plan.
Two ids for two seedlings make the search for a free one matter; the four versions of `MCSeedbank` have no mount, one, another one, and none again, so that updates create, replace and delete it, and one that was cut off is followed by each. Two chunks are the fewest of which a failure can leave a part; eight requests complete two
uploads in two chunks each, mount one and delete. Two starts are enough for one to overtake the other, two restarts for one to be sealed again after it was repaired.

Fairness. `Seedling`: each task goes on (`WF` of its steps: tokio's runtime, every call of the clients returns) and the watchdog's interval ticks (`WF(Sweep)`); no
fairness for requests, exits, failures. `Woodward`: the runtime goes on, time passes, and a process that was spawned gets ready unless it dies. `Blueprint`: a command returns. `OpenBao`: a start that was begun goes on, and is begun again
when it has ended (`WF(Goes(s))`: the operator repeats it); no fairness for failures and restarts. The others state safety only.

Deadlock is checked for `Woodward` and `OpenBao`, which never stop. The others end: their requests are bounded, and when these are used up nothing is left to do.

## Proofs

TLAPS checks these for every value of the constants that the modules' assumptions (`PlanAssumption`, `SeedlingAssumption`, `WoodwardAssumption`,
`UpgradeAssumption`, `RegistryAssumption`, `UploadsAssumption`, `SeedbankAssumption`, `OpenBaoAssumption`, `ProvisioningAssumption`) allow.
A theorem that needs more says so in its statement (`NotAheadCorrect`, `SecretsDropped`, `DropCorrect`, `HastyCorrect`).

`ProvisioningProofs`, about `Blueprint` – plans of any length.
- `ExecutorTyped`: `ExecutorSpec => []ExecutorTypeOK`. `ExecutorTypeOK` is inductive by itself.
- `ExecutorJournal`: `ExecutorSpec => []JournalCoversThePlan`. Inductive together with the types: a step of the run appends the position it has just completed, which is
  above all that are in the journal, and a rollback takes the last one away. The lemmas `FrontOfJournal` and `RollbackMoves` say what the journal
  and the list of undone commands are after that.
- `ExecutorUndo`: `ExecutorSpec => []UndoneInReverse`, from the two before and the fact that the journal is sorted: what is taken off its end is below what was taken before.
- `ExecutorOutcome`: `ExecutorSpec => []OutcomeIsTrue`. The answer is only about the end; inductive is what is known of every command on the way (`EffectsAreKnown`): those in the journal are done or were skipped, those undone have left nothing, or all of it without a rollback to speak of (`lasting`), or an error, those
  to come have left nothing, and only the current one may be half-done once the rollback has begun.

`ProvisioningProofs`, about `Provisioning` – any connections, role ids and secret ids, requests, failed calls, crashes and reboots.
- `TypeCorrect` (`TypeOK`), `AcceptedCorrect` (`FilesAreAccepted`), `MemoryCorrect` (`CredentialsInMemory`) and `NothingCorrect` (`NothingIsLeft`), from `Invariant`: `Spec => []Inv`. None of the properties is inductive: whether OpenBao accepts what is written, and whether a ram disk is there to take it, depends on every step before.
- `Planned` says that a task has only steps of its kind to do, each followed by what its plan has after it (`Chained`, `After`), and that a role id was read before a secret id is made. It is what lets a step know where it is, although `todo` is only a sequence of names: the lemmas
  from `TailOfPlan` to `ConfirmIsLast` show that each list the code makes is such a plan.
- `Provisioned` says of an undisturbed deployment what the calls so far have made: the policy, then the role, the accessors as they were listed, none of them once they are destroyed, the role id; and at the writes, that there is a ram disk, and that the files are the ones it found or that OpenBao accepts exactly what it holds.
  `Lonely` says that nothing runs beside such a task, so that no step of another undoes it (`TaskStep`, `Begins`). For the tasks that *are* disturbed, `Untrusted` is all that is needed: while they provision or revoke, files that are in use are marked as not trusted.
- `Dropping` and `Sought` say that what there is of the seedling has, at every position of a drop or prune, a step still to come that deletes it, or that will find it; `Sought` also that the record's absence was seen before anything else was. A task at its end has no step to come. `Linked` (traefik is
  linked only to a network that exists) and `Issued` (secret ids have a role) bring the rest of `Nothing`.
- There is one lemma for each action (`LookKeeps` to `HalfDoneKeeps`); what a step does to its own task is in `Onward`, `OnwardQuiet`, `DropGoes` and `PruneGoes`, a failed call in `Fails` and `Settles`.

`SeedlingProofs` – any seedlings, operators, requests, versions and failures.
- `TypeCorrect`: `Spec => []TypeOK`. The invariant is inductive because `Commands` says more than the types of the fields: what an update remembers for its
  rollback is a version. That every plan is a sequence of such commands (`PlanTyped`, from a lemma per blueprint), that a task's moves keep it one (`CompleteTyped`,
  `ContinueTyped`, `PopTyped`, ...), and that the health log stays within its bound (`RecordFailureTyped`) are the lemmas; then there is one per group of commands.
- `VersionCorrect`: `Spec => VersionNeverGoesBack`, an action property, from `TypeOK`: a step either leaves the versions alone (`SameVersion`) or is
  one that the seedbank has compared (`NewerVersion`). It holds for the rollback of an update as well: the seedbank refuses the older version, so that the version and definition of a failed update stay. The test at
  bract/src/blueprints/reconcile_seedling.rs:2923 says that they are restored; its seedbank is a mock, which accepts them. No run has the property: it says what the code does, not what it should do.
- `NetworkCorrect`: a container that runs and has joined its seedling's network has that network, whatever fails. From the types alone: docker starts a container
  only with its network and does not take the network from a running one that has joined it. The frame lemma is `TaskMovesContainers`: a container is left as it is, switched, deleted or built, and one that is built is
  the only one.
- `NotAheadCorrect`: `Spec => []ContainerNotAhead`, if there is one operator or no core seedling (`OneAtATime`; two operators break it, see the departures). The property says nothing of the plans that will build, and `Versions` does: whoever records a version has the newest
  one that was asked for and is no watchdog; whoever has recorded, and may still build, has a version that is on record if there is a record; no journal returns to more than was asked for. It rests on `PlansInHand`: a task has in hand only commands of its blueprint on its seedling, and
  only the first of a plan records a version (`Planned`, from the plans themselves). The undoing of an update needs no case of its own, as it never lowers a version.
- `SecretsDropped` and `DropCorrect`: after a drop that succeeded nothing is left of a seedling with an agent, with one operator (`OneOperator`). `Dropping` says that what there is of the seedling has, at every position of the drop, a command still to come
  that takes it away; `Unprovisioned` why the watchdog does not bring it back, though it may have planned to: its plan reaches the agent's mount, which it cannot make, before anything that is built (`Guarded`).

`WoodwardProofs` – any number of services, any windows and counts in the order of the code's.
- `TypeCorrect`: `Spec => []TypeOK`. The counters' bounds are not inductive: nothing in a kick compares them. The strengthening `KickInHand` says that a kick is of
  a service that is not given up; it holds because a kick begins only after that comparison, and because between its beginning and its end nothing but
  ages changes in the tally.
- `MarkedCorrect`: `Spec => []MarkedOnDisk`, from that invariant, also across restarts and failed writes of the marker.
- `HastyCorrect`: `Spec => []NoHastyKick`, for services that are each listed once and windows as in the code (`OneEach`), where what makes a kick hasty is younger than the oldest age that is told apart. The inductive
  `Paced` says of every service that its count is sound (`Sound`: it is never one of a service that is given up, and one that a beat has made untrue meets a check, which resets it), and that the rounds that are owed to it are as many as its heartbeat is
  older than its checks have seen (`OnTime`), unless somebody was kicked so recently that they may be delayed (`Delayed`). It covers the counter that wraps around after failed kicks, too.

`UpgradeProofs` – any releases, services, kept copies, failures, slow host or not.
- `TypeCorrect`: `Spec => []TypeOK`, from `Typed`: a task's position is within its plan (`Positions`), and a plan is what `Plan` lists for its kind, so that a `start` runs only at the two commands that have one.
- `InstalledCorrect`: `Spec => []RefusedOnlyIfTorn`, for every release and failure, also of the marker's write. By itself the property is not inductive: an overwrite could go to any version. `TaskInHand` says that a task's two versions
  never go back in format, are equal in it when the task is restorable, and that the installed one is among them, so that an overwrite only goes up and
  the undoing of a restorable one stays; `StartInHand` says that a `start` records the version that is installed, which nothing replaces while it runs.
- `SettledCorrect` (`SettledIsStarted`) and `UndoneCorrect` (`FailureUndone`): the strengthening says what a task knows by its position, running or undone: which of its two versions is installed, whether the journal and the marker name them, and that a task that ended in neither way leaves its journal.
- `PreviousCovered`: `Spec => []JournalCovered`, with any targets, copies and failed deletions: the copy of what a journal names as replaced, of a plan that runs or of one that was interrupted, is kept, or `RetainedCount` copies of newer versions are. It is what is true of
  `PreviousKept` everywhere. Deleting all but the newest keeps every version covered (take the newest of those deleted: `RetainedCount` above it stay), which rests on a finite set of numbers having a least one; `CopyInHand` adds the plan that has kept its copy and not yet written its journal.
- `OneVersionCorrect`: `OneVersionUnlessSlow`. The strengthening (`OneProcess`, `ServicesInHand`) is that each service has at most one process, the one that its heartbeat file names unless it is still coming up, so that killing what the file names leaves none; and which version the processes
  of each service run at every position of the plan and of its undoing.

`SeedbankProofs` – any connections, seedlings, ids, versions and mounts, failed writes and crashes.
- `TypeCorrect` (`TypeOK`) and `IdsCorrect` (`IdsUnique`) from `Inv`, whose part `Held` says what the holder of the lock has on the disk at each of its steps, and that nobody else is at one of those steps.
- `Implements`: `Spec => R!Spec`, the refinement. Nothing of a call is seen before it gives the lock back, since `SeenRecord` is what was there when it took it; what it has left by then, whole or cut off at any of its writes, is what a step of `Records` may make of that one record (the lemmas go
  through the steps at which a call can end); the unlocked calls change what `Records` does not see, or one field of it in one step; a crash shows what the holder of the lock had left. An attempt at this proof found that a cut-off update leaves a mount's file behind,
  which `RecordOf` now counts as damage.
- `StrikesCorrect` (`StrikesAreEarned`): the log's length is at most what was counted plus what the readers in flight will write, unless a reset overtook one of them.
- `RecordsTyped` (`R!TypeOK`), `RecordsIdsCorrect` (`R!IdsUnique`) and `IdentityKept` (`R!KeepsIdentity`): the invariants and the action property of `Records`, of what is seen of the files. They follow from `Implements`, and from `Records` alone: a creation takes an id
  that no record has, and no other call, whole or cut off, gives a record another id or an older version; it keeps the id or loses the file of it.

`OpenBaoProofs` – any starts at once, earlier setups, files of a lost OpenBao, failures and restarts.
- `TypeCorrect`, `WindowCorrect` (`OnlyTheWindowLosesCodes`) and `CompleteCorrect` (`SuccessIsComplete`), from `Inv`. Its part `PlansInHand` says that what is left of a plan is in the order of `create_plan` (`Follows`) and brings what the start saw missing, so that a plan that has come to its end has left everything;
  `LoginInHand`, that one start at a time holds the root token, and that it stores the login it has minted.
- `WindowCorrect` is an action property: `StillRecords` says that after the command that makes new codes, or deletes the file, the next one is the record; `LosesInTheWindow`, that no other step takes the codes from the disk.

`RegistryProofs` – any requests at once, digests, tags, sizes of bodies, faults and restarts.
- `TypeCorrect` (`TypeOK`), `WholeCorrect` (`WholeWhenAlone`), `ReadCorrect` (`ReadIsWhole`) and `TagsCorrect` (`TagsResolve`), from one invariant. Of a digest that is not disturbed, `Alone` says that at most one request saves it, how far that one is (`SaveOf`: which names are
  there, and that the file it writes holds what it has read), and that a save leaves all or nothing; without the latter `WholeWhenAlone` is not inductive, since the next save appends to what it finds. `Shown` says the same of a digest that a tag names *or is about to*. `Apart` is about
  the inodes: no file has the names of two digests, and no request writes to a file of another digest, also when its own has lost its name; that is why whatever disturbs one digest leaves the others alone. `Bystander`, `SavesKeep` and `SaveKeeps` are the frame lemmas.
- `ThereIsFresh` counts the files (`Files` has one more than can live while a request has none open), so that the `CHOOSE` of `Create` always finds one.
- `Readers` says of a request that reads what `ReadIsWhole` needs between its calls: that the file it has opened is whole, has no other digest's name, and that nobody appends to it, so that neither a deletion nor a new save of the digest changes what is read.

`UploadsProofs` – any requests, uploads, repositories, bodies, failures and restarts.
- `TypeCorrect`, `HashedCorrect` (`Spec => []FileIsHashed`) and `BlobsCorrect` (`Spec => []BlobsAreWhole`), from one invariant. `FileIsHashed` is about uploads that nobody works on; its strengthening is about the request that has the
  hasher (`Held`: what it has hashed, where in the body it is, and what the file holds, for each of its steps), about there being one such request per upload (`Alone`), about a commit under way (`Commits`: the file it renames is the body it was asked for), and
  about which blobs a mount or deletion knows (`Links`). Most steps touch one request and one upload: `Moves`, `EndKeeps` and `OthersStay` are the frame lemmas that dispose of all others.

## What is only model-checked

The liveness properties (`Terminates`, `StaysUp`, `GivesUp`, `Heals`, `MarkerCleared`, `KeptSecretsConverge`): they rest on fairness, which is out of the prover's reach. `PreviousKept` is only checked too, under `AnyTarget = FALSE`; what holds of it for every target is `PreviousCovered`, a theorem. Every other
property of a passing run is a theorem, some of them under the hypotheses that their statements name; the bounds of the runs (`Max...`) are arbitrary in all of them. What is checked of
`Blueprint` is not proved of the plans of the other modules: each has its own journal, written as the code's plans use it.

## Not modelled

- Formatting, the wire protocols, logging, argument parsing, signature checks, packaging: input and output without state.
- The operating system's wrappers (`file_system`, `os`, `ram_disk`, `identity`, `config`): what a write, rename, mount or deletion does when it is cut off is in the modules that use it.
- `rolodex` and `credentials`: accounts that the system's tools create one after the other at the start of a plan; each call checks and then creates, nothing changes or deletes them, and a failure is the failed command that `Seedling` has.
- In bract: mounts, share groups and the definition's contents (nothing stated depends on them), the default route, the rotation of logs (files that nothing reads again), the status of OpenBao for the web page.
- In resin: the deletion of a whole repository (`Provisioning` has it as one call), the listings, the exchange of tokens with an upstream, and `purge`, which nothing calls.
- In `src/bootstrap`: users, groups, folders and `stop` as a command; the wait for OpenBao's socket and the creation of the identity's key.
- The candidate's verification before an upgrade, and kicks of woodward while one runs.

## What could come next

Theorems: that the plans of `Provisioning`, with their undoing, are runs of the executor of `Blueprint`.
Models: an abstract supervisor that `Woodward` implements; `Upgrade`'s plan and the tasks of `Seedling` as instances of `Blueprint`; kicks of woodward beside an upgrade.
