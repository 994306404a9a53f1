---------------------------- MODULE Provisioning ----------------------------
(* What bract keeps of a seedling with secrets beside its record: the role,  *)
(* policy and secret ids in OpenBao, their files on the agent's ram disk,    *)
(* the agent's container, network, route and repository.  A deployment       *)
(* provisions them, a drop takes them away, and a prune, as the operator     *)
(* confirms it, takes away what it found without a record.  They run as      *)
(* tasks with no lock between them, may fail at every call, and bract and    *)
(* the host may stop at any moment.                                          *)
EXTENDS Integers, Sequences, SequencesExt

CONSTANTS Tasks,          \* bract's connections
          MaxIds,         \* bound on the role ids, and on the secret ids, in use at once
          MaxRequests,    \* bound on deployments, drops and prunes
          MaxFaults       \* bound on failed calls, crashes of bract and reboots

ASSUME ProvisioningAssumption ==
  MaxIds \in Nat \ {0} /\ MaxRequests \in Nat /\ MaxFaults \in Nat

VARIABLES record,         \* does the seedbank have the seedling?
          policy, role,   \* OpenBao: its policy, and the role id if it has a role
          live,           \* OpenBao: the secret ids of the role
          mount, file,    \* the agent's mount, and the files that are seen in it
          below,          \* the files of its folder, on the disk, that a ram disk hides
          agent,          \* the agent's container
          host,           \* network, repository, route, and traefik's link to the network
          task,
          revoked,        \* history: were the files in use written or revoked by overlapping tasks?
          requests, faults

openbao == <<policy, role, live>>
disk == <<mount, file, below>>
docker == <<agent, host>>
bounds == <<requests, faults>>
vars == <<record, openbao, disk, docker, task, revoked, bounds>>

Ids == 1..MaxIds
NoId == 0
Torn == MaxIds + 1        \* the front of a write that was cut off: it exists, and is read as it is
Credentials == {"role_id", "secret_id"}
NoFiles == [f \in Credentials |-> NoId]

(* The order in which find_deadwood looks and prune_deadwood deletes.        *)
Kinds == <<"containers", "networks", "route_files", "resin_repositories", "mounts", "openbao_secrets">>

provision == <<"create_policy", "create_auth", "list_accessors", "destroy_accessors",
               "get_role_id", "create_auth_secret">>
revoke == <<"delete_auth", "delete_policy">>
ToSteps == Range(Kinds) \cup Range(provision) \cup Range(revoke) \cup
           {"look", "discover", "CreateSeedling", "EnsureAgentMount", "mount_ram_disk",
            "write_role_id", "write_secret_id", "BuildAgentContainer", "StartContainer",
            "write_route", "connect_traefik", "discover_drop", "RemoveTraefikRoute",
            "DropContainer", "DeleteSeedlingNetwork", "DeleteSeedbankEntry",
            "UnmountAgentRamDisk", "DeleteSeedlingMounts", "DeleteResinRepository",
            "list", "confirm"}

Idle == [kind |-> "none", phase |-> "idle", todo |-> <<>>, journal |-> <<>>, creds |-> NoFiles,
         listed |-> {}, made |-> {}, found |-> {}, knew |-> FALSE, undisturbed |-> FALSE]

Task == [kind : {"none", "deploy", "drop", "prune"}, phase : {"idle", "run", "undo"},
         todo : Seq(ToSteps), journal : Seq(ToSteps),
         creds : [Credentials -> Ids \cup {NoId, Torn}], listed : SUBSET Ids,
         made : SUBSET {"secret", "folder", "ramdisk", "network"}, found : SUBSET Range(Kinds),
         knew : BOOLEAN, undisturbed : BOOLEAN]

(* Types; a file is in a folder that exists, and hidden only by a ram disk.  *)
TypeOK ==
  /\ record \in BOOLEAN /\ policy \in BOOLEAN /\ revoked \in BOOLEAN
  /\ role \in Ids \cup {NoId} /\ live \subseteq Ids
  /\ mount \in {"none", "folder", "ramdisk"}
  /\ {file, below} \subseteq [Credentials -> Ids \cup {NoId, Torn}]
  /\ mount = "none" => file = NoFiles
  /\ mount # "ramdisk" => below = NoFiles
  /\ agent \in {"absent", "stopped", "running"}
  /\ host \subseteq {"network", "repository", "route", "traefik"}
  /\ task \in [Tasks -> Task]
  /\ requests \in 0..MaxRequests /\ faults \in 0..MaxFaults

Init ==
  /\ record = FALSE /\ policy = FALSE /\ role = NoId /\ live = {}
  /\ mount = "none" /\ file = NoFiles /\ below = NoFiles /\ agent = "absent" /\ host = {}
  /\ task = [t \in Tasks |-> Idle] /\ revoked = FALSE
  /\ requests = 0 /\ faults = 0

-----------------------------------------------------------------------------
(* Tasks.  `undisturbed` is history: nothing else ran beside the task and no *)
(* call of it failed.                                                        *)
Alone(t) == \A u \in Tasks \ {t} : task[u].phase = "idle"
Disturbed(u) == IF task[u].phase = "idle" THEN task[u] ELSE [task[u] EXCEPT !.undisturbed = FALSE]

Begin(t, kind, todo) ==
  /\ task[t].phase = "idle" /\ requests < MaxRequests /\ requests' = requests + 1
  /\ task' = [u \in Tasks |->
                IF u # t THEN Disturbed(u)
                ELSE [Idle EXCEPT !.kind = kind, !.phase = "run", !.todo = todo,
                                  !.knew = record, !.undisturbed = Alone(t)]]

At(t, step) == task[t].phase = "run" /\ task[t].todo # <<>> /\ Head(task[t].todo) = step
Goes(t) == [task[t] EXCEPT !.todo = Tail(@)]
Ran(t) == [Goes(t) EXCEPT !.journal = Append(@, Head(task[t].todo))]
Becomes(t, new) == task' = [task EXCEPT ![t] = new]
(* Only a deployment's commands have an undo; a drop whose secrets could not *)
(* be revoked warns and goes on.                                             *)
FailedTask(t) ==
  CASE task[t].kind = "deploy" /\ task[t].journal # <<>>
         -> [task[t] EXCEPT !.phase = "undo", !.undisturbed = FALSE]
    [] Head(task[t].todo) \in Range(revoke) /\ task[t].kind = "drop"
         -> [task[t] EXCEPT !.todo = <<"discover_drop">>, !.undisturbed = FALSE]
    [] OTHER -> Idle
Fault == faults < MaxFaults /\ faults' = faults + 1 /\ UNCHANGED requests

CallFails(t) ==
  /\ task[t].phase = "run" /\ task[t].todo # <<>>
  /\ Head(task[t].todo) \notin {"look", "confirm"} /\ Fault
  /\ Becomes(t, FailedTask(t)) /\ UNCHANGED <<record, openbao, disk, docker, revoked>>

Ends(t) ==
  /\ task[t].phase = "run" /\ task[t].todo = <<>> /\ Becomes(t, Idle)
  /\ UNCHANGED <<record, openbao, disk, docker, revoked, bounds>>

-----------------------------------------------------------------------------
(* Requests.                                                                 *)
NewSeedling ==
  /\ ~record /\ "repository" \notin host /\ record' = TRUE
  /\ task' = [u \in Tasks |-> Disturbed(u)]
  /\ UNCHANGED <<openbao, disk, docker, revoked, bounds>>

(* A push: resin keeps the image and triggers the deployment of what the     *)
(* seedbank has.  `start` does the same when there is no service account.    *)
PushImage(t) ==
  /\ Begin(t, "deploy", IF record THEN <<"look">> ELSE <<>>)
  /\ host' = host \cup {"repository"}
  /\ UNCHANGED <<record, openbao, disk, agent, revoked, faults>>

DropSeedling(t) ==
  /\ Begin(t, "drop", (IF record THEN revoke ELSE <<>>) \o <<"discover_drop">>)
  /\ UNCHANGED <<record, openbao, disk, docker, revoked, faults>>

PruneDeadwood(t) ==
  /\ Begin(t, "prune", <<"list">> \o Kinds \o <<"confirm">>)
  /\ UNCHANGED <<record, openbao, disk, docker, revoked, faults>>

(* The agent starts and stops with the seedling; it also exits.              *)
AgentStarts ==
  /\ record /\ agent = "stopped" /\ agent' = "running"
  /\ UNCHANGED <<record, openbao, disk, host, task, revoked, bounds>>
AgentStops ==
  /\ agent = "running" /\ agent' = "stopped"
  /\ UNCHANGED <<record, openbao, disk, host, task, revoked, bounds>>

-----------------------------------------------------------------------------
(* provision_agent_if_requested: the files, if both are there, or execute.   *)
BothExist == \A f \in Credentials : file[f] # NoId

Look(t) ==
  /\ At(t, "look")
  /\ Becomes(t, IF BothExist THEN [task[t] EXCEPT !.todo = <<"discover">>, !.creds = file]
                ELSE [task[t] EXCEPT !.todo = provision \o <<"discover">>])
  /\ UNCHANGED <<record, openbao, disk, docker, revoked, bounds>>

InUse(f) == {file[f], below[f]} \cup {task[t].creds[f] : t \in Tasks}
              \cup (IF f = "role_id" THEN {role} ELSE live \cup UNION {task[t].listed : t \in Tasks})
Unused(f) == Ids \ InUse(f)
Some(ids) == CHOOSE id \in ids : TRUE

CreatePolicy(t) ==
  /\ At(t, "create_policy") /\ policy' = TRUE /\ Becomes(t, Goes(t))
  /\ UNCHANGED <<record, role, live, disk, docker, revoked, bounds>>

CreateAuth(t) ==
  /\ At(t, "create_auth") /\ Becomes(t, Goes(t))
  /\ IF role # NoId THEN UNCHANGED role
     ELSE Unused("role_id") # {} /\ role' = Some(Unused("role_id"))
  /\ UNCHANGED <<record, policy, live, disk, docker, revoked, bounds>>

MutantKeepsFirst == IF live = {} THEN {} ELSE live \ {Some(live)}
Accessors == live
ListAccessors(t) ==
  /\ At(t, "list_accessors") /\ Becomes(t, [Goes(t) EXCEPT !.listed = Accessors])
  /\ UNCHANGED <<record, openbao, disk, docker, revoked, bounds>>

(* One call per accessor; one that another task destroyed is an error.       *)
DestroyAccessor(t) ==
  /\ At(t, "destroy_accessors")
  /\ IF task[t].listed = {} THEN Becomes(t, Goes(t)) /\ UNCHANGED live
     ELSE LET next == Some(task[t].listed) IN
          /\ live' = live \ {next}
          /\ Becomes(t, IF next \in live THEN [task[t] EXCEPT !.listed = @ \ {next}] ELSE FailedTask(t))
  /\ UNCHANGED <<record, policy, role, disk, docker, revoked, bounds>>

GetRoleId(t) ==
  /\ At(t, "get_role_id")
  /\ Becomes(t, IF role = NoId THEN FailedTask(t) ELSE [Goes(t) EXCEPT !.creds["role_id"] = role])
  /\ UNCHANGED <<record, openbao, disk, docker, revoked, bounds>>

CreateAuthSecret(t) ==
  /\ At(t, "create_auth_secret")
  /\ IF role = NoId THEN Becomes(t, FailedTask(t)) /\ UNCHANGED live
     ELSE /\ Unused("secret_id") # {}
          /\ LET new == Some(Unused("secret_id")) IN
             /\ live' = live \cup {new}
             /\ Becomes(t, [Goes(t) EXCEPT !.creds["secret_id"] = new, !.made = {"secret"}])
  /\ UNCHANGED <<record, policy, role, disk, docker, revoked, bounds>>

-----------------------------------------------------------------------------
(* The part of reconcile_seedling that is about the agent, then the route.   *)
Reconcile == (IF record THEN <<>> ELSE <<"CreateSeedling">>) \o
             <<"EnsureAgentMount", "mount_ram_disk", "write_role_id", "write_secret_id">> \o
             (CASE agent = "absent"  -> <<"BuildAgentContainer", "StartContainer">>
                [] agent = "stopped" -> <<"StartContainer">>
                [] OTHER             -> <<>>) \o <<"write_route", "connect_traefik">>

Discover(t) ==
  /\ At(t, "discover") /\ Becomes(t, [task[t] EXCEPT !.todo = Reconcile])
  /\ UNCHANGED <<record, openbao, disk, docker, revoked, bounds>>

CreateSeedling(t) ==
  /\ At(t, "CreateSeedling") /\ record' = TRUE
  /\ Becomes(t, IF record THEN FailedTask(t) ELSE Ran(t))
  /\ UNCHANGED <<openbao, disk, docker, revoked, bounds>>

(* The calls of EnsureAgentMount: the folder, the ram disk, and the files.   *)
(* Other tasks go on between them, and what they unmount or delete is not    *)
(* there at the next call.                                                   *)
EnsureAgentMount(t) ==
  /\ At(t, "EnsureAgentMount") /\ mount' = (IF mount = "none" THEN "folder" ELSE mount)
  /\ Becomes(t, [Goes(t) EXCEPT !.made = @ \cup (IF mount = "none" THEN {"folder"} ELSE {})])
  /\ UNCHANGED <<record, openbao, file, below, docker, revoked, bounds>>

(* A folder that outlived its ram disk gets one again, whoever made it.      *)
MutantOnce(t) == mount = "folder" /\ "folder" \in task[t].made
NeedsRamDisk(t) == mount = "folder"

MountRamDisk(t) ==
  /\ At(t, "mount_ram_disk")
  /\ IF NeedsRamDisk(t)
     THEN /\ mount' = "ramdisk" /\ below' = file /\ file' = NoFiles
          /\ Becomes(t, [Goes(t) EXCEPT !.made = @ \cup {"ramdisk"}])
     ELSE UNCHANGED disk /\ Becomes(t, IF mount = "none" THEN FailedTask(t) ELSE Goes(t))
  /\ UNCHANGED <<record, openbao, docker, revoked, bounds>>

(* A file is written where its folder is, on a ram disk or not.              *)
MutantAnywhere == TRUE
Writable == mount # "none"

WriteRoleId(t) ==
  /\ At(t, "write_role_id")
  /\ IF Writable
     THEN /\ file' = [file EXCEPT !["role_id"] = task[t].creds["role_id"]]
          /\ Becomes(t, Goes(t))
     ELSE UNCHANGED file /\ Becomes(t, FailedTask(t))
  /\ revoked' = (revoked \/ ~task[t].undisturbed)
  /\ UNCHANGED <<record, openbao, mount, below, docker, bounds>>

(* A secret id that the task has just made is no longer one revoked under.   *)
Distrusted(t) == ~task[t].undisturbed \/ ("secret" \notin task[t].made /\ revoked)
WriteSecretId(t) ==
  /\ At(t, "write_secret_id")
  /\ IF Writable
     THEN /\ file' = [file EXCEPT !["secret_id"] = task[t].creds["secret_id"]]
          /\ revoked' = Distrusted(t)
          /\ Becomes(t, [Goes(t) EXCEPT !.journal = Append(@, "EnsureAgentMount")])
     ELSE UNCHANGED <<file, revoked>> /\ Becomes(t, FailedTask(t))
  /\ UNCHANGED <<record, openbao, mount, below, docker, bounds>>

(* A write is cut off, or the agent's configuration cannot be written after  *)
(* them: nothing undoes what was done, for the command is not journaled.     *)
WriteCutOff(t) ==
  /\ Writable /\ Fault
  /\ \/ /\ At(t, "write_role_id") /\ file' = [file EXCEPT !["role_id"] = Torn]
        /\ revoked' = (revoked \/ ~task[t].undisturbed)
     \/ /\ At(t, "write_secret_id") /\ file' = [file EXCEPT !["secret_id"] = Torn]
        /\ revoked' = (revoked \/ ~task[t].undisturbed)
     \/ /\ At(t, "write_secret_id")
        /\ file' = [file EXCEPT !["secret_id"] = task[t].creds["secret_id"]]
        /\ revoked' = Distrusted(t)
  /\ Becomes(t, FailedTask(t)) /\ UNCHANGED <<record, openbao, mount, below, docker>>

(* Without the ram disk the files of the folder are seen again: those that a *)
(* task wrote whose ram disk another one had unmounted.                      *)
Unmounted ==
  /\ mount' = (IF mount = "ramdisk" THEN "folder" ELSE mount)
  /\ file' = (IF mount = "ramdisk" THEN below ELSE file) /\ below' = NoFiles
  /\ revoked' = (revoked \/ below # NoFiles)
(* What is on a ram disk goes, but a mount point is busy.                    *)
FolderDeleted ==
  /\ mount' = (IF mount = "ramdisk" THEN "ramdisk" ELSE "none")
  /\ file' = NoFiles /\ UNCHANGED <<below, revoked>>

BuildAgentContainer(t) ==
  /\ At(t, "BuildAgentContainer")
  /\ IF agent # "absent" THEN Becomes(t, FailedTask(t)) /\ UNCHANGED docker
     ELSE /\ agent' = "stopped" /\ host' = host \cup {"network"}
          /\ Becomes(t, [Ran(t) EXCEPT !.made = @ \cup ({"network"} \ host)])
  /\ UNCHANGED <<record, openbao, disk, revoked, bounds>>

BuildAgentContainerInterrupted(t) ==
  /\ At(t, "BuildAgentContainer") /\ agent = "absent" /\ Fault
  /\ agent' = "stopped" /\ host' \in {host, host \cup {"network"}}
  /\ Becomes(t, FailedTask(t)) /\ UNCHANGED <<record, openbao, disk, revoked>>

StartContainer(t) ==
  /\ At(t, "StartContainer")
  /\ IF agent = "absent" THEN Becomes(t, FailedTask(t)) /\ UNCHANGED agent
     ELSE agent' = "running" /\ Becomes(t, Ran(t))
  /\ UNCHANGED <<record, openbao, disk, host, revoked, bounds>>

(* write_traefik_routes is a blueprint of its own: nothing is undone when it *)
(* fails.  It skips a seedling without a record or a network.                *)
Routed(t) == [Goes(t) EXCEPT !.journal = <<>>]
WriteRoute(t) ==
  /\ At(t, "write_route")
  /\ IF record /\ "network" \in host
     THEN host' = host \cup {"route"} /\ Becomes(t, Routed(t))
     ELSE UNCHANGED host /\ Becomes(t, [Routed(t) EXCEPT !.todo = <<>>])
  /\ UNCHANGED <<record, openbao, disk, agent, revoked, bounds>>

ConnectTraefik(t) ==
  /\ At(t, "connect_traefik")
  /\ IF "network" \in host THEN host' = host \cup {"traefik"} /\ Becomes(t, Goes(t))
     ELSE UNCHANGED host /\ Becomes(t, FailedTask(t))
  /\ UNCHANGED <<record, openbao, disk, agent, revoked, bounds>>

(* The last journaled command is rolled back; a rollback that fails is passed over. *)
Undone(t) ==
  LET rest == Front(task[t].journal) IN
  /\ task[t].phase = "undo"
  /\ Becomes(t, IF rest = <<>> THEN Idle ELSE [task[t] EXCEPT !.journal = rest])
Undo(t) ==
  LET last == Last(task[t].journal)
      made == task[t].made
  IN /\ Undone(t)
     /\ \/ /\ last = "StartContainer"
           /\ agent' = (IF agent = "running" THEN "stopped" ELSE agent)
           /\ UNCHANGED <<record, disk, revoked, host>>
        \/ /\ last = "BuildAgentContainer"
           /\ agent' = (IF agent = "running" THEN "running" ELSE "absent")
           /\ host' = (IF "network" \in made /\ agent # "running" /\ "traefik" \notin host
                       THEN host \ {"network"} ELSE host)
           /\ UNCHANGED <<record, disk, revoked>>
        \/ /\ last = "EnsureAgentMount" /\ UNCHANGED <<record, docker>>
           /\ CASE {"folder", "ramdisk"} \subseteq made ->
                     mount' = "none" /\ file' = NoFiles /\ below' = NoFiles /\ UNCHANGED revoked
                [] made \cap {"folder", "ramdisk"} = {"ramdisk"} -> Unmounted
                [] made \cap {"folder", "ramdisk"} = {"folder"} -> FolderDeleted
                [] OTHER -> UNCHANGED <<disk, revoked>>
        \/ last = "CreateSeedling" /\ record' = FALSE /\ UNCHANGED <<disk, revoked, docker>>
     /\ UNCHANGED <<openbao, bounds>>

(* It fails before it did anything, or after the first of its two calls.     *)
UndoFails(t) ==
  LET last == Last(task[t].journal)
      made == task[t].made
  IN /\ Undone(t) /\ Fault
     /\ \/ UNCHANGED <<disk, revoked, agent>>
        \/ /\ last = "EnsureAgentMount" /\ "ramdisk" \in made
           /\ Unmounted /\ UNCHANGED agent
        \/ /\ last = "BuildAgentContainer" /\ agent = "stopped"
           /\ agent' = "absent" /\ UNCHANGED <<disk, revoked>>
     /\ UNCHANGED <<record, openbao, host>>

-----------------------------------------------------------------------------
(* revoke, first thing of a drop and last of a prune.                        *)
DeleteAuth(t) ==
  /\ At(t, "delete_auth") /\ role' = NoId /\ live' = {} /\ Becomes(t, Goes(t))
  /\ revoked' = (revoked \/ BothExist)
  /\ UNCHANGED <<record, policy, disk, docker, bounds>>

DeletePolicy(t) ==
  /\ At(t, "delete_policy") /\ policy' = FALSE /\ Becomes(t, Goes(t))
  /\ UNCHANGED <<record, role, live, disk, docker, revoked, bounds>>

(* drop_seedling: it refuses a seedling that runs.                           *)
MutantKeepsDisk ==
  (IF "route" \in host THEN <<"RemoveTraefikRoute">> ELSE <<>>) \o
  (IF agent # "absent" THEN <<"DropContainer">> ELSE <<>>) \o
  (IF "network" \in host THEN <<"DeleteSeedlingNetwork">> ELSE <<>>) \o
  (IF record THEN <<"DeleteSeedbankEntry">> ELSE <<>>) \o
  (IF mount = "folder" THEN <<"DeleteSeedlingMounts">> ELSE <<>>) \o <<"DeleteResinRepository">>

DropPlan ==
  (IF "route" \in host THEN <<"RemoveTraefikRoute">> ELSE <<>>) \o
  (IF agent # "absent" THEN <<"DropContainer">> ELSE <<>>) \o
  (IF "network" \in host THEN <<"DeleteSeedlingNetwork">> ELSE <<>>) \o
  (IF record THEN <<"DeleteSeedbankEntry">> ELSE <<>>) \o
  (IF mount = "ramdisk" THEN <<"UnmountAgentRamDisk">> ELSE <<>>) \o
  (IF mount # "none" THEN <<"DeleteSeedlingMounts">> ELSE <<>>) \o <<"DeleteResinRepository">>

DiscoverDrop(t) ==
  /\ At(t, "discover_drop")
  /\ Becomes(t, IF agent = "running" THEN Idle ELSE [task[t] EXCEPT !.todo = DropPlan])
  /\ UNCHANGED <<record, openbao, disk, docker, revoked, bounds>>

RemoveTraefikRoute(t) ==
  /\ At(t, "RemoveTraefikRoute")
  /\ IF "traefik" \notin host THEN Becomes(t, FailedTask(t)) /\ UNCHANGED host
     ELSE host' = host \ {"traefik", "route"} /\ Becomes(t, Goes(t))
  /\ UNCHANGED <<record, openbao, disk, agent, revoked, bounds>>

DropContainer(t) ==
  /\ At(t, "DropContainer")
  /\ IF agent # "stopped" THEN Becomes(t, FailedTask(t)) /\ UNCHANGED agent
     ELSE agent' = "absent" /\ Becomes(t, Goes(t))
  /\ UNCHANGED <<record, openbao, disk, host, revoked, bounds>>

(* A network that a container is linked to stays.                            *)
DeleteNetwork(t, linked) ==
  LET gone == "network" \in linked /\ agent = "absent" /\ "traefik" \notin linked IN
  /\ host' = (IF gone THEN linked \ {"network"} ELSE linked)
  /\ Becomes(t, IF gone THEN Goes(t) ELSE FailedTask(t))
DeleteSeedlingNetwork(t) ==
  /\ At(t, "DeleteSeedlingNetwork") /\ DeleteNetwork(t, host)
  /\ UNCHANGED <<record, openbao, disk, agent, revoked, bounds>>

DeleteSeedbankEntry(t) ==
  /\ At(t, "DeleteSeedbankEntry") /\ record' = FALSE
  /\ Becomes(t, IF record THEN Goes(t) ELSE FailedTask(t))
  /\ UNCHANGED <<openbao, disk, docker, revoked, bounds>>

UnmountAgentRamDisk(t) ==
  /\ At(t, "UnmountAgentRamDisk") /\ Becomes(t, Goes(t)) /\ Unmounted
  /\ UNCHANGED <<record, openbao, docker, bounds>>

DeleteMounts(t) ==
  /\ FolderDeleted /\ Becomes(t, IF mount = "ramdisk" THEN FailedTask(t) ELSE Goes(t))
DeleteSeedlingMounts(t) ==
  /\ At(t, "DeleteSeedlingMounts") /\ DeleteMounts(t)
  /\ UNCHANGED <<record, openbao, docker, bounds>>

DeleteResinRepository(t) ==
  /\ At(t, "DeleteResinRepository") /\ host' = host \ {"repository"} /\ Becomes(t, Goes(t))
  /\ UNCHANGED <<record, openbao, disk, agent, revoked, bounds>>

-----------------------------------------------------------------------------
(* find_deadwood lists the records before it looks at anything else.         *)
Present(kind) ==
  CASE kind = "containers"         -> agent # "absent"
    [] kind = "networks"           -> "network" \in host
    [] kind = "route_files"        -> "route" \in host
    [] kind = "resin_repositories" -> "repository" \in host
    [] kind = "mounts"             -> mount # "none"
    [] kind = "openbao_secrets"    -> role # NoId \/ policy

ListRecords(t) ==
  /\ At(t, "list") /\ Becomes(t, [Goes(t) EXCEPT !.knew = record])
  /\ UNCHANGED <<record, openbao, disk, docker, revoked, bounds>>

Finding(t) == task[t].kind = "prune" /\ Last(task[t].todo) = "confirm"
Observe(t) ==
  /\ task[t].phase = "run" /\ task[t].todo # <<>> /\ Finding(t)
  /\ Head(task[t].todo) \in Range(Kinds)
  /\ LET kind == Head(task[t].todo) IN
     Becomes(t, IF ~task[t].knew /\ Present(kind) THEN [Goes(t) EXCEPT !.found = @ \cup {kind}] ELSE Goes(t))
  /\ UNCHANGED <<record, openbao, disk, docker, revoked, bounds>>

(* OpenBao that does not answer has nothing to prune.                        *)
ObserveBlind(t) ==
  /\ At(t, "openbao_secrets") /\ Finding(t) /\ Fault
  /\ Becomes(t, [Goes(t) EXCEPT !.undisturbed = FALSE])
  /\ UNCHANGED <<record, openbao, disk, docker, revoked>>

(* The operator confirms what was found, whatever has happened since.        *)
PrunePlan(found) ==
  (IF "containers" \in found THEN <<"containers">> ELSE <<>>) \o
  (IF "networks" \in found THEN <<"networks">> ELSE <<>>) \o
  (IF "route_files" \in found THEN <<"route_files">> ELSE <<>>) \o
  (IF "resin_repositories" \in found THEN <<"resin_repositories">> ELSE <<>>) \o
  (IF "mounts" \in found THEN <<"mounts">> ELSE <<>>) \o
  (IF "openbao_secrets" \in found THEN revoke ELSE <<>>)

Confirm(t) ==
  /\ At(t, "confirm") /\ Becomes(t, [task[t] EXCEPT !.todo = PrunePlan(task[t].found)])
  /\ UNCHANGED <<record, openbao, disk, docker, revoked, bounds>>

Pruning(t, kind) == At(t, kind) /\ ~Finding(t)
PruneContainers(t) ==
  /\ Pruning(t, "containers") /\ agent' = "absent" /\ Becomes(t, Goes(t))
  /\ UNCHANGED <<record, openbao, disk, host, revoked, bounds>>
PruneNetworks(t) ==
  /\ Pruning(t, "networks") /\ DeleteNetwork(t, host \ {"traefik"})
  /\ UNCHANGED <<record, openbao, disk, agent, revoked, bounds>>
PruneRouteFiles(t) ==
  /\ Pruning(t, "route_files") /\ host' = host \ {"traefik", "route"} /\ Becomes(t, Goes(t))
  /\ UNCHANGED <<record, openbao, disk, agent, revoked, bounds>>
PruneRepositories(t) ==
  /\ Pruning(t, "resin_repositories") /\ host' = host \ {"repository"} /\ Becomes(t, Goes(t))
  /\ UNCHANGED <<record, openbao, disk, agent, revoked, bounds>>
PruneMounts(t) ==
  /\ Pruning(t, "mounts") /\ DeleteMounts(t)
  /\ UNCHANGED <<record, openbao, docker, bounds>>

(* What comes first in a step of several calls is done, the rest fails.      *)
HalfDone(t) ==
  /\ \/ /\ At(t, "RemoveTraefikRoute") \/ Pruning(t, "networks") \/ Pruning(t, "route_files")
        /\ "traefik" \in host /\ host' = host \ {"traefik"} /\ UNCHANGED agent
     \/ /\ Pruning(t, "containers") /\ agent = "running"
        /\ agent' = "stopped" /\ UNCHANGED host
  /\ Fault /\ Becomes(t, FailedTask(t)) /\ UNCHANGED <<record, openbao, disk, revoked>>

-----------------------------------------------------------------------------
(* bract stops, and with it its tasks; the host reboots, and with it the ram *)
(* disk is gone.                                                             *)
Crash ==
  /\ Fault /\ ~(\A t \in Tasks : task[t].phase = "idle")
  /\ task' = [t \in Tasks |-> Idle] /\ UNCHANGED <<record, openbao, disk, docker, revoked>>
Reboot ==
  /\ Fault /\ task' = [t \in Tasks |-> Idle] /\ Unmounted
  /\ agent' = (IF agent = "running" THEN "stopped" ELSE agent)
  /\ UNCHANGED <<record, openbao, host>>

Deploys(t) ==
  \/ PushImage(t) \/ Look(t) \/ CreatePolicy(t) \/ CreateAuth(t) \/ ListAccessors(t)
  \/ DestroyAccessor(t) \/ GetRoleId(t) \/ CreateAuthSecret(t) \/ Discover(t) \/ CreateSeedling(t)
  \/ EnsureAgentMount(t) \/ MountRamDisk(t) \/ WriteRoleId(t) \/ WriteSecretId(t)
  \/ WriteCutOff(t) \/ BuildAgentContainer(t)
  \/ BuildAgentContainerInterrupted(t) \/ StartContainer(t) \/ WriteRoute(t) \/ ConnectTraefik(t)
  \/ Undo(t) \/ UndoFails(t)
Drops(t) ==
  \/ DropSeedling(t) \/ DeleteAuth(t) \/ DeletePolicy(t) \/ DiscoverDrop(t) \/ RemoveTraefikRoute(t)
  \/ DropContainer(t) \/ DeleteSeedlingNetwork(t) \/ DeleteSeedbankEntry(t)
  \/ UnmountAgentRamDisk(t) \/ DeleteSeedlingMounts(t) \/ DeleteResinRepository(t)
Prunes(t) ==
  \/ PruneDeadwood(t) \/ ListRecords(t) \/ Observe(t) \/ ObserveBlind(t) \/ Confirm(t)
  \/ PruneContainers(t) \/ PruneNetworks(t) \/ PruneRouteFiles(t) \/ PruneRepositories(t) \/ PruneMounts(t)

Next ==
  \/ \E t \in Tasks : Deploys(t) \/ Drops(t) \/ Prunes(t) \/ CallFails(t) \/ HalfDone(t) \/ Ends(t)
  \/ NewSeedling \/ AgentStarts \/ AgentStops \/ Crash \/ Reboot

Spec == Init /\ [][Next]_vars

-----------------------------------------------------------------------------
(* The credentials that a later deployment would take from the files are the *)
(* ones OpenBao accepts, and no other secret id is: through reboots, crashes *)
(* and rollbacks, and whatever earlier deployments left half-done.  Files    *)
(* that were torn, revoked under, or written by deployments that overlapped, *)
(* are left out: the code uses those for as long as they are there.          *)
FilesAreAccepted ==
  BothExist /\ ~revoked /\ (\A f \in Credentials : file[f] # Torn)
    => policy /\ role = file["role_id"] /\ live = {file["secret_id"]}

(* A credential is written to a disk that outlives the host only by a        *)
(* deployment beside which something else ran (an unmount between its mount  *)
(* and its write), never by one that had only earlier crashes, failures and  *)
(* reboots to cope with.                                                     *)
OnDisk == IF mount = "ramdisk" THEN below ELSE file
CredentialsInMemory ==
  [][\A f \in Credentials : OnDisk'[f] \in {OnDisk[f], NoId}
       \/ \E t \in Tasks : ~task[t].undisturbed /\ (At(t, "write_role_id") \/ At(t, "write_secret_id"))]_vars

Nothing == /\ ~record /\ ~policy /\ role = NoId /\ live = {} /\ mount = "none"
           /\ agent = "absent" /\ host = {}

(* A drop of a seedling the seedbank had, or a prune of one it does not      *)
(* have, that ends well with nothing beside it leaves nothing of it          *)
(* anywhere, whatever crashes and failures of earlier tasks had left.        *)
NothingIsLeft ==
  [][\A t \in Tasks :
       /\ task[t].undisturbed /\ Ends(t)
       /\ \/ task[t].kind = "drop" /\ task[t].knew
          \/ task[t].kind = "prune" /\ ~record
       => Nothing]_vars
=============================================================================
