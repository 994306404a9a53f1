------------------------------ MODULE OpenBao ------------------------------
(* The OpenBao part of `douglas start` (bootstrap/openbao.rs): each start    *)
(* observes OpenBao and the credential files, plans, and runs the plan's     *)
(* commands, which have no undo.  What it must keep across starts is small   *)
(* and irreplaceable: the unseal codes and Douglas's own login, of which     *)
(* OpenBao gives out one copy.  Two starts may run at once, a start may die  *)
(* or have a call fail at every step, and OpenBao may restart, sealed.       *)
EXTENDS Integers, Sequences, Functions

CONSTANTS Starts,       \* runs of `douglas start`, each repeated without end
          Earlier,      \* what the setup of an earlier release had installed
          Remains,      \* BOOLEAN values: may the files of a lost OpenBao remain?
          Misses,       \* the queries of a start that may fail together
          MaxFaults,    \* bound on failed calls, dead starts and failed queries
          MaxRestarts   \* bound on the restarts of OpenBao

VARIABLES seal,         \* OpenBao's status
          installed,    \* what OpenBao has been set up with
          policy,       \* what Douglas's policy lets it install
          root_token,   \* the token initialisation handed out
          files,        \* unseal.codes, douglas.role_id, douglas.secret_id
          start,        \* the starts, each with its context
          faults, restarts

vars == <<seal, installed, policy, root_token, files, start, faults, restarts>>

Mounts == {"kv", "managed_secrets", "pki"}
Pieces == Mounts \cup {"managed_configured", "ca", "issuing_crl", "cluster_path",
                       "acme", "acme_role", "app_role", "douglas_policy", "douglas_role"}
(* What discover_installed asks OpenBao for.                                 *)
Installed == Pieces \ {"issuing_crl", "cluster_path", "douglas_policy", "douglas_role"}
Certificates == {"ca", "issuing_crl", "cluster_path", "acme", "acme_role"}
(* What a release's own policy lets Douglas install: the mounts it knew, and *)
(* whatever is below them.                                                   *)
Granted(setup) ==
  (setup \cap Mounts) \cup (IF "pki" \in setup THEN Certificates ELSE {})
                      \cup (IF "managed_secrets" \in setup THEN {"managed_configured"} ELSE {})

File == {"codes", "role_id", "secret_id"}
(* A file holds what this OpenBao gave out, what one before it did, or the   *)
(* front of a write that was cut off.                                        *)
Contents == {"none", "torn", "stale", "ours"}

SetUp == <<"kv", "managed_secrets", "managed_configured", "pki", "ca", "issuing_crl",
           "cluster_path", "acme", "acme_role", "app_role", "douglas_policy",
           "douglas_role", "mint", "delete_role_id", "write_role_id",
           "delete_secret_id", "write_secret_id", "revoke">>
RecordSecrets == <<"delete_codes", "write_codes">>
ToSteps == Range(SetUp) \cup Range(RecordSecrets) \cup {"initialize", "load", "unseal", "login"}

(* A start, and the context that it hands from command to command.           *)
Idle == [phase |-> "idle", plan |-> <<>>, available |-> FALSE, has_codes |-> FALSE,
         unseal_codes |-> "none", admin_token |-> "none", minted |-> FALSE]

ASSUME OpenBaoAssumption ==
  /\ Earlier \subseteq SUBSET Pieces /\ Misses \subseteq SUBSET Installed /\ Remains \subseteq BOOLEAN
  /\ MaxFaults \in Nat /\ MaxRestarts \in Nat

TypeOK ==
  /\ seal \in {"uninitialized", "sealed", "unsealed"}
  /\ installed \subseteq Pieces /\ policy \subseteq Pieces
  /\ root_token \in {"none", "live", "revoked"}
  /\ files \in [File -> Contents]
  /\ \A s \in Starts :
       /\ start[s].phase \in {"idle", "observing", "running", "ok", "failed"}
       /\ Range(start[s].plan) \subseteq ToSteps
       /\ start[s].unseal_codes \in {"none", "stale", "ours"}
       /\ start[s].admin_token \in {"none", "root", "douglas"}
       /\ start[s].minted => start[s].admin_token = "root"
  /\ faults \in 0..MaxFaults /\ restarts \in 0..MaxRestarts

(* A new OpenBao, beside the files of a lost one or not, or the one that an  *)
(* earlier release had set up.                                               *)
Init ==
  /\ \/ /\ seal = "uninitialized" /\ installed = {} /\ policy = {} /\ root_token = "none"
        /\ \E remain \in Remains :
             files = [f \in File |-> IF remain THEN "stale" ELSE "none"]
     \/ \E setup \in Earlier :
          /\ seal \in {"sealed", "unsealed"} /\ installed = setup /\ policy = Granted(setup)
          /\ root_token = "revoked" /\ files = [f \in File |-> "ours"]
  /\ start = [s \in Starts |-> Idle]
  /\ faults = 0 /\ restarts = 0

-----------------------------------------------------------------------------
Credentials == {"role_id", "secret_id"}
available == \A f \in Credentials : files[f] # "none"
LogsIn == seal = "unsealed" /\ \A f \in Credentials : files[f] = "ours"

Running(s) == start[s].phase = "running" /\ start[s].plan # <<>>
At(s, step) == Running(s) /\ Head(start[s].plan) = step
Step(s) == [start[s] EXCEPT !.plan = Tail(@)]
Becomes(s, new) == start' = [start EXCEPT ![s] = new]
End(s, phase) == Becomes(s, [Idle EXCEPT !.phase = phase])

Begin(s) ==
  /\ start[s].phase \in {"idle", "ok", "failed"}
  /\ Becomes(s, [Idle EXCEPT !.phase = "observing", !.available = available,
                             !.has_codes = files["codes"] # "none"])
  /\ UNCHANGED <<seal, installed, policy, root_token, files, faults, restarts>>

MutantUnconfigured(found) == "managed_secrets" \notin found
(* The managed secrets are configured when they are mounted, and where they  *)
(* were found mounted only.                                                  *)
Unconfigured(found) == ~({"managed_secrets", "managed_configured"} \subseteq found)

(* push_top_up: what Douglas adds, by its own login, to what it found.       *)
TopUp(found) ==
  LET Where(missing, steps) == IF missing THEN steps ELSE <<>>
      Missing(p) == Where(p \notin found, <<p>>)
      steps == Missing("kv") \o Missing("managed_secrets")
                 \o Where(Unconfigured(found), <<"managed_configured">>) \o Missing("pki")
                 \o Where("ca" \notin found, <<"ca", "issuing_crl", "cluster_path">>)
                 \o Missing("acme") \o Missing("acme_role") \o Missing("app_role")
  IN IF steps = <<>> THEN <<>> ELSE <<"login">> \o steps

MutantLate(s, found) ==
  CASE seal = "uninitialized" -> <<"initialize", "unseal">> \o SetUp \o RecordSecrets
    [] seal = "sealed"        -> <<"load", "unseal">> \o RecordSecrets \o SetUp
    [] OTHER                  -> TopUp(found)

(* create_plan, for a state that has one.                                    *)
create_plan(s, found) ==
  CASE seal = "uninitialized" -> <<"initialize", "unseal">> \o RecordSecrets \o SetUp
    [] seal = "sealed"        -> <<"load", "unseal">> \o RecordSecrets \o SetUp
    [] OTHER                  -> TopUp(found)

HasPlan(s) == CASE seal = "uninitialized" -> TRUE
                [] seal = "sealed"        -> start[s].has_codes
                [] OTHER                  -> start[s].available /\ LogsIn

(* observe: the status, with the files as they were before it was asked for. *)
(* A query that fails counts as something that is not installed.             *)
Plan(s) ==
  /\ start[s].phase = "observing" /\ HasPlan(s)
  /\ \E missed \in {{}} \cup Misses :
       LET found == (installed \ missed)
                      \ (IF "managed_secrets" \in missed THEN {"managed_configured"} ELSE {})
           plan == create_plan(s, found)
       IN /\ missed # {} => seal = "unsealed" /\ faults < MaxFaults
          /\ faults' = faults + (IF missed # {} THEN 1 ELSE 0)
          /\ IF plan = <<>> THEN End(s, "ok")
             ELSE Becomes(s, [start[s] EXCEPT !.phase = "running", !.plan = plan])
  /\ UNCHANGED <<seal, installed, policy, root_token, files, restarts>>

(* NoUnsealCodes, SecretsRequired and DouglasSecretsFailed.                  *)
NoPlan(s) ==
  /\ start[s].phase = "observing" /\ ~HasPlan(s)
  /\ End(s, "failed")
  /\ UNCHANGED <<seal, installed, policy, root_token, files, faults, restarts>>

-----------------------------------------------------------------------------
(* The commands.  Each is a step of the plan and either has its effect here  *)
(* or is refused, below; MayX says which.                                    *)
MayInitialize(s) == At(s, "initialize") /\ seal = "uninitialized"

Initialize(s) ==
  /\ MayInitialize(s)
  /\ seal' = "sealed" /\ root_token' = "live"
  /\ Becomes(s, [Step(s) EXCEPT !.unseal_codes = "ours", !.admin_token = "root"])
  /\ UNCHANGED <<installed, policy, files, faults, restarts>>

MayLoad(s) == At(s, "load") /\ files["codes"] \in {"stale", "ours"}

MutantForgets(s) ==
  /\ MayLoad(s) /\ Becomes(s, Step(s))
  /\ UNCHANGED <<seal, installed, policy, root_token, files, faults, restarts>>

MutantAnyCodes(s) ==
  /\ At(s, "load") /\ files["codes"] # "none"
  /\ Becomes(s, [Step(s) EXCEPT !.unseal_codes = files["codes"]])
  /\ UNCHANGED <<seal, installed, policy, root_token, files, faults, restarts>>

LoadUnsealCodes(s) ==
  /\ MayLoad(s)
  /\ Becomes(s, [Step(s) EXCEPT !.unseal_codes = files["codes"]])
  /\ UNCHANGED <<seal, installed, policy, root_token, files, faults, restarts>>

(* Keys sent to an OpenBao that is unsealed already are not looked at.       *)
MayUnseal(s) ==
  /\ At(s, "unseal") /\ start[s].unseal_codes # "none"
  /\ seal = "unsealed" \/ (seal = "sealed" /\ start[s].unseal_codes = "ours")

Unseal(s) ==
  /\ MayUnseal(s)
  /\ seal' = "unsealed" /\ Becomes(s, Step(s))
  /\ UNCHANGED <<installed, policy, root_token, files, faults, restarts>>

(* RecordSecrets and app_role::store replace a file: delete it if it is      *)
(* there, then write it.                                                     *)
FileOf(step) == CASE step \in {"delete_codes", "write_codes"}         -> "codes"
                  [] step \in {"delete_role_id", "write_role_id"}     -> "role_id"
                  [] step \in {"delete_secret_id", "write_secret_id"} -> "secret_id"
Deletes == {"delete_codes", "delete_role_id", "delete_secret_id"}
Writes == {"write_codes", "write_role_id", "write_secret_id"}
Value(s, f) == IF f = "codes" THEN start[s].unseal_codes
               ELSE IF start[s].minted THEN "ours" ELSE "none"

MayReplace(s) == /\ Running(s) /\ Head(start[s].plan) \in Deletes \cup Writes
                 /\ Value(s, FileOf(Head(start[s].plan))) # "none"

Replace(s) ==
  /\ MayReplace(s)
  /\ LET step == Head(start[s].plan)
     IN files' = [files EXCEPT ![FileOf(step)] =
                    IF step \in Deletes THEN "none" ELSE Value(s, FileOf(step))]
  /\ Becomes(s, Step(s))
  /\ UNCHANGED <<seal, installed, policy, root_token, faults, restarts>>

LoginAsDouglas(s) ==
  /\ At(s, "login") /\ LogsIn
  /\ Becomes(s, [Step(s) EXCEPT !.admin_token = "douglas"])
  /\ UNCHANGED <<seal, installed, policy, root_token, files, faults, restarts>>

-----------------------------------------------------------------------------
(* The commands that need the admin token.                                   *)
Accepted(s) == /\ seal = "unsealed"
               /\ \/ start[s].admin_token = "douglas"
                  \/ (start[s].admin_token = "root" /\ root_token = "live")

Needs(p) == CASE p \in Certificates -> {"pki"}
              [] p = "managed_configured" -> {"managed_secrets"}
              [] OTHER -> {}

(* The mounts, the CA and the auth method are asked for first, and left      *)
(* alone when they are there.                                                *)
Checked == Mounts \cup {"ca", "app_role"}
Allowed(s, p) == \/ start[s].admin_token = "root"
                 \/ p \in policy
                 \/ p \in Checked \cap installed

MayInstall(s, p) == /\ At(s, p) /\ Accepted(s) /\ Allowed(s, p)
                    /\ Needs(p) \subseteq installed

Installs(s, p) ==
  /\ MayInstall(s, p)
  /\ installed' = installed \cup {p}
  /\ Becomes(s, Step(s))
  /\ UNCHANGED <<seal, root_token, files, faults, restarts>>

Mount(s) == \E p \in Mounts : Installs(s, p) /\ UNCHANGED policy
ConfigureManagedSecrets(s) == Installs(s, "managed_configured") /\ UNCHANGED policy
GenerateRootCA(s) == Installs(s, "ca") /\ UNCHANGED policy
SetIssuingCRL(s) == Installs(s, "issuing_crl") /\ UNCHANGED policy
ConfigureClusterPath(s) == Installs(s, "cluster_path") /\ UNCHANGED policy
EnableAcme(s) == Installs(s, "acme") /\ UNCHANGED policy
CreateAcmePkiRole(s) == Installs(s, "acme_role") /\ UNCHANGED policy
EnableAppRoleAuth(s) == Installs(s, "app_role") /\ UNCHANGED policy
(* The policy, and then the role that has it.                                *)
CreateDouglasAppRolePolicy(s) ==
  \/ Installs(s, "douglas_policy") /\ policy' = Granted(Pieces)
  \/ Installs(s, "douglas_role") /\ UNCHANGED policy

MayMint(s) == At(s, "mint") /\ Accepted(s) /\ "douglas_role" \in installed

CreateDouglasAppRoleSecret(s) ==
  /\ MayMint(s)
  /\ Becomes(s, [Step(s) EXCEPT !.minted = TRUE])
  /\ UNCHANGED <<seal, installed, policy, root_token, files, faults, restarts>>

RevokeAdminToken(s) ==
  /\ At(s, "revoke") /\ Accepted(s)
  /\ root_token' = "revoked" /\ Becomes(s, Step(s))
  /\ UNCHANGED <<seal, installed, policy, files, faults, restarts>>

-----------------------------------------------------------------------------
(* execute_plan: the plan is done, a command is refused, or fails or dies    *)
(* at any point.  The commands have no undo, and a write may be cut off.     *)
Done(s) ==
  /\ start[s].phase = "running" /\ start[s].plan = <<>>
  /\ End(s, "ok")
  /\ UNCHANGED <<seal, installed, policy, root_token, files, faults, restarts>>

Refused(s) ==
  /\ Running(s)
  /\ ~(\/ MayInitialize(s) \/ MayLoad(s) \/ MayUnseal(s) \/ MayReplace(s)
       \/ (\E p \in Pieces : MayInstall(s, p)) \/ MayMint(s)
       \/ (At(s, "login") /\ LogsIn) \/ (At(s, "revoke") /\ Accepted(s)))
  /\ End(s, "failed")
  /\ UNCHANGED <<seal, installed, policy, root_token, files, faults, restarts>>

Fails(s) ==
  /\ start[s].phase \in {"observing", "running"}
  /\ faults < MaxFaults /\ faults' = faults + 1
  /\ End(s, "failed")
  /\ \/ files' = files
     \/ /\ MayReplace(s) /\ Head(start[s].plan) \in Writes
        /\ files' = [files EXCEPT ![FileOf(Head(start[s].plan))] = "torn"]
  /\ UNCHANGED <<seal, installed, policy, root_token, restarts>>

Restarts ==
  /\ seal = "unsealed" /\ seal' = "sealed"
  /\ restarts < MaxRestarts /\ restarts' = restarts + 1
  /\ UNCHANGED <<installed, policy, root_token, files, start, faults>>

Command(s) == \/ Initialize(s) \/ LoadUnsealCodes(s) \/ Unseal(s) \/ Replace(s)
              \/ LoginAsDouglas(s) \/ Mount(s) \/ ConfigureManagedSecrets(s)
              \/ GenerateRootCA(s) \/ SetIssuingCRL(s) \/ ConfigureClusterPath(s)
              \/ EnableAcme(s) \/ CreateAcmePkiRole(s) \/ EnableAppRoleAuth(s)
              \/ CreateDouglasAppRolePolicy(s) \/ CreateDouglasAppRoleSecret(s)
              \/ RevokeAdminToken(s)

Goes(s) == Begin(s) \/ Plan(s) \/ NoPlan(s) \/ Command(s) \/ Done(s) \/ Refused(s)

Next == (\E s \in Starts : Goes(s) \/ Fails(s)) \/ Restarts

(* A start goes on, and whoever ran one runs it again.                       *)
Spec == Init /\ [][Next]_vars /\ \A s \in Starts : WF_vars(Goes(s))

-----------------------------------------------------------------------------
Window == {"unseal", "delete_codes", "write_codes"}
AboutToRecord(s) == start[s].unseal_codes = "ours" /\ \E step \in Window : At(s, step)
Held == \/ seal = "uninitialized"
        \/ files["codes"] = "ours"
        \/ \E s \in Starts : AboutToRecord(s)

(* The unseal codes are lost in two ways only: a start dies between          *)
(* initialising OpenBao, or deleting the file, and writing the file whole;   *)
(* or a start that had loaded the codes of a lost OpenBao overtakes the one  *)
(* that set up the new OpenBao, and records those in their place.  A later   *)
(* failure, a restart of OpenBao or any other start never costs them.        *)
OnlyTheWindowLosesCodes ==
  [][Held /\ ~Held' =>
       \E s \in Starts : \/ AboutToRecord(s) /\ Fails(s)
                         \/ /\ At(s, "delete_codes") \/ At(s, "write_codes")
                            /\ start[s].unseal_codes = "stale"]_vars

(* A start that says it succeeded left an OpenBao with everything it looks   *)
(* for installed and Douglas's login working, whatever failed or was cut off *)
(* before and whichever queries failed.                                      *)
SuccessIsComplete ==
  [][\A s \in Starts : start'[s].phase = "ok" /\ start[s].phase # "ok" =>
       /\ Installed \subseteq installed'
       /\ \A f \in Credentials : files'[f] = "ours"]_vars

(* As long as the codes and the login stay on disk, and Douglas's policy     *)
(* allows what is missing, repeated starts end with an OpenBao that is       *)
(* unsealed and complete.                                                    *)
Kept == (\A f \in File : files[f] = "ours") /\ Granted(Pieces) \subseteq policy
Ready == seal = "unsealed" /\ Installed \subseteq installed
KeptSecretsConverge == <>[]Kept => <>[]Ready

(* create_plan_runs_full_unseal_chain_when_sealed_with_unseal_codes: the     *)
(* chain of a sealed OpenBao runs through to the last step, so that no       *)
(* command of it is reached without the token it needs.                      *)
NeverWithoutToken ==
  \A s \in Starts : Running(s) /\ Head(start[s].plan) \in Pieces
    => start[s].admin_token # "none"
=============================================================================
