-------------------------- MODULE ProvisioningProofs --------------------------
(* What bract guarantees of a seedling's secrets, with any connections, ids, *)
(* requests and faults; and what the executor that its plans run through     *)
(* guarantees, for plans of any length.  The two specifications have no      *)
(* variable in common.                                                       *)
EXTENDS Provisioning, Blueprint, SequenceTheorems, TLAPS

\* What taking the last command off a journal leaves: the commands before it.
LEMMA FrontOfJournal ==
    ASSUME NEW S, NEW s \in Seq(S), s # <<>>
    PROVE  /\ Len(s) \in Nat \ {0}
           /\ s[Len(s)] \in S
           /\ SubSeq(s, 1, Len(s) - 1) \in Seq(S)
           /\ Len(SubSeq(s, 1, Len(s) - 1)) = Len(s) - 1
           /\ \A i \in 1..Len(s) - 1 : SubSeq(s, 1, Len(s) - 1)[i] = s[i]
<1>1. Len(s) \in Nat \ {0} /\ \A i \in 1..Len(s) : s[i] \in S
  BY ElementOfSeq, EmptySeq
<1>2. \A i \in 1..Len(s) - 1 : s[i] \in S
  BY <1>1
<1>3. /\ SubSeq(s, 1, Len(s) - 1) \in Seq(S)
      /\ Len(SubSeq(s, 1, Len(s) - 1)) =
             IF 1 <= Len(s) - 1 THEN (Len(s) - 1) - 1 + 1 ELSE 0
      /\ \A i \in 1..(Len(s) - 1) - 1 + 1 : SubSeq(s, 1, Len(s) - 1)[i] = s[1 + i - 1]
  BY <1>1, <1>2, SubSeqProperties
<1>4. Len(SubSeq(s, 1, Len(s) - 1)) = Len(s) - 1
  <2>1. ASSUME NEW n \in Nat \ {0}
        PROVE  (IF 1 <= n - 1 THEN (n - 1) - 1 + 1 ELSE 0) = n - 1
    OBVIOUS
  <2> QED
    BY <1>1, <1>3, <2>1
<1>5. \A i \in 1..Len(s) - 1 : SubSeq(s, 1, Len(s) - 1)[i] = s[i]
  <2> TAKE i \in 1..Len(s) - 1
  <2>1. i \in 1..(Len(s) - 1) - 1 + 1 /\ 1 + i - 1 = i
    BY <1>1
  <2> QED
    BY <2>1, <1>3
<1> QED
  BY <1>1, <1>3, <1>4, <1>5
-----------------------------------------------------------------------------
(* The inductive invariant *)

ReconcileSteps == {"CreateSeedling", "EnsureAgentMount", "mount_ram_disk", "write_role_id",
                   "write_secret_id", "BuildAgentContainer", "StartContainer", "write_route",
                   "connect_traefik"}
DeploySteps == Range(provision) \cup ReconcileSteps \cup {"look", "discover"}
DropSteps == Range(revoke) \cup
             {"discover_drop", "RemoveTraefikRoute", "DropContainer", "DeleteSeedlingNetwork",
              "DeleteSeedbankEntry", "UnmountAgentRamDisk", "DeleteSeedlingMounts",
              "DeleteResinRepository"}
PruneSteps == Range(Kinds) \cup Range(revoke) \cup {"list", "confirm"}
StepsOf(kind) ==
    CASE kind = "deploy" -> DeploySteps
      [] kind = "drop"   -> DropSteps
      [] kind = "prune"  -> PruneSteps
      [] OTHER           -> {}

\* The steps that rely on the step before them, and the steps that say what follows.
Ordered == Range(provision) \cup {"look", "discover", "CreateSeedling", "EnsureAgentMount",
                                  "mount_ram_disk", "write_role_id", "write_secret_id",
                                  "delete_policy"}
Ordering == Range(provision) \cup {"CreateSeedling", "EnsureAgentMount", "mount_ram_disk",
                                   "write_role_id", "delete_auth", "discover_drop", "confirm"}
After(step) ==
    CASE step = "create_policy"      -> {"create_auth"}
      [] step = "create_auth"        -> {"list_accessors"}
      [] step = "list_accessors"     -> {"destroy_accessors"}
      [] step = "destroy_accessors"  -> {"get_role_id"}
      [] step = "get_role_id"        -> {"create_auth_secret"}
      [] step = "create_auth_secret" -> {"discover"}
      [] step = "CreateSeedling"     -> {"EnsureAgentMount"}
      [] step = "EnsureAgentMount"   -> {"mount_ram_disk"}
      [] step = "mount_ram_disk"     -> {"write_role_id"}
      [] step = "write_role_id"      -> {"write_secret_id"}
      [] step = "delete_auth"        -> {"delete_policy"}
      [] step \in {"discover_drop", "confirm"} -> {}
      [] OTHER                       -> ToSteps \ Ordered
Chained(todo) == \A i \in 1..Len(todo) - 1 : todo[i + 1] \in After(todo[i])

AtOne(k, steps) == k.phase = "run" /\ k.todo # <<>> /\ Head(k.todo) \in steps
Ahead(k, step) == step \in Range(k.todo)

\* A task does the steps of its kind, in their order; one that is idle has nothing, one
\* that is undoing has something to undo.  The role id is read before a secret id is made
\* and before the files are written.
Deployed == {"discover", "CreateSeedling", "EnsureAgentMount", "mount_ram_disk",
             "write_role_id", "write_secret_id"}
WithRoleId == Deployed \cup {"create_auth_secret"}
Planned(k) ==
    /\ k.phase = "idle" => k = Idle
    /\ k.undisturbed => k.phase = "run"
    /\ k.phase = "undo" => k.journal # <<>>
    /\ Range(k.todo) \subseteq StepsOf(k.kind)
    /\ Chained(k.todo)
    /\ AtOne(k, WithRoleId) => k.creds["role_id"] # NoId

\* Nothing runs beside a task that is undisturbed.
Lonely == \A t \in Tasks : task[t].undisturbed => Alone(t)

\* While a task provisions or revokes, files in use are known not to be trusted.
Untrusted(k) == AtOne(k, Range(provision) \cup {"delete_policy"}) => (BothExist => revoked)

\* What an undisturbed deployment relies on, step by step: once it has made a secret id,
\* OpenBao accepts what it will write, and before it writes the files are not there; else
\* they are the ones it found, or not to be trusted.  It writes to a ram disk.
Accepts(creds) == policy /\ role = creds["role_id"] /\ live = {creds["secret_id"]}
Provisioned(k) == k.undisturbed =>
    /\ AtOne(k, Range(provision)) => ~BothExist
    /\ AtOne(k, Range(provision) \ {"create_policy"}) => policy
    /\ AtOne(k, Range(provision) \ {"create_policy", "create_auth"}) => role # NoId
    /\ AtOne(k, {"destroy_accessors"}) => k.listed = live
    /\ AtOne(k, {"get_role_id", "create_auth_secret"}) => live = {}
    /\ AtOne(k, {"create_auth_secret"}) => k.creds["role_id"] = role
    /\ AtOne(k, {"look"}) => "secret" \notin k.made
    /\ AtOne(k, Deployed) =>
          IF "secret" \in k.made THEN Accepts(k.creds)
          ELSE revoked \/ (file = k.creds /\ BothExist)
    /\ AtOne(k, Deployed \ {"write_secret_id"}) => ("secret" \in k.made => ~BothExist)
    /\ AtOne(k, {"write_role_id", "write_secret_id"}) => mount = "ramdisk"
    /\ AtOne(k, {"write_secret_id"}) => file["role_id"] = k.creds["role_id"]

\* What is left in OpenBao is still to be revoked.
ToRevoke(k) == (role # NoId => Ahead(k, "delete_auth")) /\ (policy => Ahead(k, "delete_policy"))

\* What there is of a seedling that an undisturbed task drops is still to be deleted.
Dropping(k) == k.undisturbed /\ k.kind = "drop" /\ k.knew =>
    /\ ToRevoke(k)
    /\ ~Ahead(k, "discover_drop") =>
          /\ record => Ahead(k, "DeleteSeedbankEntry")
          /\ mount # "none" => Ahead(k, "DeleteSeedlingMounts")
          /\ agent # "absent" => Ahead(k, "DropContainer")
          /\ "network" \in host => Ahead(k, "DeleteSeedlingNetwork")
          /\ "route" \in host => Ahead(k, "RemoveTraefikRoute")
          /\ "repository" \in host => Ahead(k, "DeleteResinRepository")

\* What there is of a seedling without a record is found or still to be looked for, and
\* once the operator has confirmed, still to be deleted.
Sought(k) == k.undisturbed /\ k.kind = "prune" =>
    /\ ~AtOne(k, {"list"}) /\ Ahead(k, "confirm") => k.knew = record
    /\ ~record /\ Ahead(k, "confirm") =>
          \A kind \in Range(Kinds) : Present(kind) => kind \in k.found \/ Ahead(k, kind)
    /\ ~record /\ ~Ahead(k, "confirm") =>
          /\ ToRevoke(k)
          /\ \A kind \in Range(Kinds) \ {"openbao_secrets"} : Present(kind) => Ahead(k, kind)

Linked == "traefik" \in host => "network" \in host
Issued == live # {} => role # NoId
InOrder == ~revoked /\ file["secret_id"] # NoId => file["role_id"] # NoId
Suspect == mount # "ramdisk" /\ file # NoFiles => revoked

World == Linked /\ Issued /\ InOrder /\ Suspect /\ FilesAreAccepted
Duty(k) == Planned(k) /\ Untrusted(k) /\ Provisioned(k) /\ Dropping(k) /\ Sought(k)

\* Each conjunct needs the others: the files that are written are accepted because an
\* undisturbed deployment made what OpenBao accepts, which nothing beside it undid, and
\* the order of its steps is that of its plan.
Inv ==
    /\ TypeOK /\ Lonely /\ World
    /\ \A t \in Tasks : Duty(task[t])

-----------------------------------------------------------------------------
(* Plans *)

LEMMA StepNames ==
    /\ Range(provision) = {"create_policy", "create_auth", "list_accessors", "destroy_accessors",
                           "get_role_id", "create_auth_secret"}
    /\ Range(revoke) = {"delete_auth", "delete_policy"}
    /\ Range(Kinds) = {"containers", "networks", "route_files", "resin_repositories", "mounts",
                       "openbao_secrets"}
<1> DEFINE P == {"create_policy", "create_auth", "list_accessors", "destroy_accessors",
                 "get_role_id", "create_auth_secret"}
           K == {"containers", "networks", "route_files", "resin_repositories", "mounts",
                 "openbao_secrets"}
<1>1. provision \in Seq(P) /\ revoke \in Seq({"delete_auth", "delete_policy"}) /\ Kinds \in Seq(K)
  BY DEF provision, revoke, Kinds
<1>2. Len(provision) = 6 /\ Len(revoke) = 2 /\ Len(Kinds) = 6
  BY DEF provision, revoke, Kinds
<1>3. Range(provision) = {provision[i] : i \in 1..6}
  BY <1>1, <1>2, RangeEquality
<1>4. Range(revoke) = {revoke[i] : i \in 1..2}
  BY <1>1, <1>2, RangeEquality
<1>5. Range(Kinds) = {Kinds[i] : i \in 1..6}
  BY <1>1, <1>2, RangeEquality
<1>6. 1..6 = {1, 2, 3, 4, 5, 6} /\ 1..2 = {1, 2}
  OBVIOUS
<1>7. Range(provision) = {"create_policy", "create_auth", "list_accessors", "destroy_accessors",
                          "get_role_id", "create_auth_secret"}
  BY <1>3, <1>6 DEF provision
<1>8. Range(revoke) = {"delete_auth", "delete_policy"}
  BY <1>4, <1>6 DEF revoke
<1>9. Range(Kinds) = {"containers", "networks", "route_files", "resin_repositories", "mounts",
                      "openbao_secrets"}
  BY <1>5, <1>6 DEF Kinds
<1> QED
  BY <1>7, <1>8, <1>9

\* What is left of a plan when its first step is done.
LEMMA TailOfPlan ==
    ASSUME NEW s \in Seq(ToSteps), s # <<>>, Chained(s)
    PROVE  /\ Tail(s) \in Seq(ToSteps) /\ Chained(Tail(s))
           /\ Head(s) \in ToSteps /\ Range(s) = {Head(s)} \cup Range(Tail(s))
           /\ Tail(s) # <<>> => Head(Tail(s)) \in After(Head(s))
<1>1. /\ Len(s) \in Nat \ {0} /\ Tail(s) \in Seq(ToSteps) /\ Len(Tail(s)) = Len(s) - 1
      /\ Head(s) = s[1] /\ Head(s) \in ToSteps
      /\ \A i \in 1..Len(Tail(s)) : Tail(s)[i] = s[i + 1]
  BY HeadTailProperties, EmptySeq
<1>2. Chained(Tail(s))
  <2> SUFFICES ASSUME NEW i \in 1..Len(Tail(s)) - 1
               PROVE  Tail(s)[i + 1] \in After(Tail(s)[i])
    BY DEF Chained
  <2>1. i \in 1..Len(Tail(s)) /\ i + 1 \in 1..Len(Tail(s)) /\ i + 1 \in 1..Len(s) - 1
    BY <1>1
  <2>2. Tail(s)[i] = s[i + 1] /\ Tail(s)[i + 1] = s[(i + 1) + 1]
    BY <1>1, <2>1
  <2> QED
    BY <2>1, <2>2 DEF Chained
<1>3. Range(s) = {Head(s)} \cup Range(Tail(s))
  <2>1. Range(s) = {s[i] : i \in 1..Len(s)} /\ Range(Tail(s)) = {Tail(s)[i] : i \in 1..Len(Tail(s))}
    BY <1>1, RangeEquality
  <2>2. ASSUME NEW x \in Range(s) PROVE x \in {Head(s)} \cup Range(Tail(s))
    <3>1. PICK i \in 1..Len(s) : x = s[i]
      BY <2>1
    <3>2. CASE i = 1
      BY <1>1, <3>1, <3>2
    <3>3. CASE i # 1
      <4>1. i - 1 \in 1..Len(Tail(s)) /\ (i - 1) + 1 = i
        BY <1>1, <3>3
      <4>2. Tail(s)[i - 1] = x
        BY <1>1, <3>1, <4>1
      <4> QED
        BY <2>1, <4>1, <4>2
    <3> QED
      BY <3>2, <3>3
  <2>3. ASSUME NEW x \in Range(Tail(s)) PROVE x \in Range(s)
    <3>1. PICK i \in 1..Len(Tail(s)) : x = Tail(s)[i]
      BY <2>1
    <3>2. i + 1 \in 1..Len(s) /\ s[i + 1] = x
      BY <1>1, <3>1
    <3> QED
      BY <2>1, <3>2
  <2>4. Head(s) \in Range(s)
    BY <1>1, <2>1
  <2> QED
    BY <2>2, <2>3, <2>4
<1>4. ASSUME Tail(s) # <<>> PROVE Head(Tail(s)) \in After(Head(s))
  <2>1. Len(Tail(s)) \in Nat \ {0} /\ Head(Tail(s)) = Tail(s)[1]
    BY <1>1, <1>4, EmptySeq, HeadTailProperties
  <2>2. Tail(s)[1] = s[2] /\ 1 \in 1..Len(s) - 1
    BY <1>1, <2>1
  <2> QED
    BY <1>1, <2>1, <2>2 DEF Chained
<1> QED
  BY <1>1, <1>2, <1>3, <1>4

\* Two plans in a row are a plan, if the second may follow the first.
LEMMA Joined ==
    ASSUME NEW s \in Seq(ToSteps), NEW u \in Seq(ToSteps), Chained(s), Chained(u),
           s # <<>> /\ u # <<>> => u[1] \in After(s[Len(s)])
    PROVE  s \o u \in Seq(ToSteps) /\ Chained(s \o u) /\ Range(s \o u) = Range(s) \cup Range(u)
<1> DEFINE m == Len(s)
           n == Len(u)
           j == s \o u
<1>1. m \in Nat /\ n \in Nat /\ j \in Seq(ToSteps) /\ Len(j) = m + n
      /\ \A i \in 1..m + n : j[i] = IF i <= m THEN s[i] ELSE u[i - m]
  BY ConcatProperties, LenProperties
<1>2. ASSUME NEW i \in 1..Len(j) - 1 PROVE j[i + 1] \in After(j[i])
  <2>0. i \in 1..m + n /\ i + 1 \in 1..m + n /\ i \in Nat
    BY <1>1
  <2>1. CASE i + 1 <= m
    <3>1. j[i] = s[i] /\ j[i + 1] = s[i + 1] /\ i \in 1..m - 1
      BY <1>1, <2>0, <2>1
    <3> QED
      BY <3>1 DEF Chained
  <2>2. CASE i > m
    <3>1. j[i] = u[i - m] /\ j[i + 1] = u[(i - m) + 1] /\ i - m \in 1..n - 1
      BY <1>1, <2>0, <2>2
    <3> QED
      BY <3>1 DEF Chained
  <2>3. CASE i = m
    <3>1. j[i] = s[m] /\ j[i + 1] = u[1] /\ m # 0 /\ n # 0
      BY <1>1, <2>0, <2>3
    <3>2. s # <<>> /\ u # <<>>
      BY <3>1, EmptySeq
    <3> QED
      BY <3>1, <3>2
  <2> QED
    BY <1>1, <2>0, <2>1, <2>2, <2>3
<1> QED
  BY <1>1, <1>2, RangeConcatenation DEF Chained

\* The steps that neither need nor say what follows them: in any order they are a plan.
Free == ToSteps \ (Ordered \cup Ordering)

LEMMA FreeSteps ==
    /\ Free \subseteq ToSteps
    /\ \A x \in ToSteps \ Ordering : Free \cup {"delete_auth", "discover_drop", "confirm"} \subseteq After(x)
    /\ \A x \in ToSteps \ Ordering : After(x) = ToSteps \ Ordered
    /\ {"BuildAgentContainer", "StartContainer", "write_route", "connect_traefik",
        "RemoveTraefikRoute", "DropContainer", "DeleteSeedlingNetwork",
        "DeleteSeedbankEntry", "UnmountAgentRamDisk", "DeleteSeedlingMounts",
        "DeleteResinRepository", "list"} \subseteq Free
    /\ Range(Kinds) \subseteq Free
    /\ {"delete_auth", "delete_policy", "discover_drop", "confirm", "look", "CreateSeedling",
        "EnsureAgentMount", "mount_ram_disk", "write_role_id", "write_secret_id"} \subseteq ToSteps
    /\ {"delete_auth", "discover_drop", "confirm"} \cap Ordered = {}
    /\ "write_secret_id" \notin Ordering
<1>1. \A x \in ToSteps \ Ordering : After(x) = ToSteps \ Ordered
  BY StepNames DEF After, Ordering
<1>2. Free \cup {"delete_auth", "discover_drop", "confirm"} \subseteq ToSteps \ Ordered
  BY StepNames DEF Free, Ordered, ToSteps
<1> QED
  BY <1>1, <1>2, StepNames DEF Free, Ordered, Ordering, ToSteps

\* A sequence of free steps is a plan.
LEMMA FreePlan ==
    ASSUME NEW s \in Seq(Free)
    PROVE  s \in Seq(ToSteps) /\ Chained(s) /\ \A i \in 1..Len(s) : s[i] \in Free
<1>1. Len(s) \in Nat /\ \A i \in 1..Len(s) : s[i] \in Free
  BY ElementOfSeq, LenProperties
<1>2. s \in Seq(ToSteps)
  BY FreeSteps
<1>3. ASSUME NEW i \in 1..Len(s) - 1 PROVE s[i + 1] \in After(s[i])
  <2>1. i \in 1..Len(s) /\ i + 1 \in 1..Len(s)
    BY <1>1
  <2>2. s[i] \in Free /\ s[i + 1] \in Free /\ s[i] \in ToSteps \ Ordering
    BY <1>1, <2>1, FreeSteps DEF Free
  <2> QED
    BY <2>2, FreeSteps
<1> QED
  BY <1>1, <1>2, <1>3 DEF Chained

\* Plans of one and of two steps.
LEMMA ShortPlans ==
    /\ <<>> \in Seq(ToSteps) /\ Chained(<<>>) /\ Range(<<>>) = {}
    /\ \A x \in ToSteps : <<x>> \in Seq(ToSteps) /\ Chained(<<x>>) /\ Range(<<x>>) = {x}
    /\ revoke \in Seq(ToSteps) /\ Chained(revoke) /\ revoke[1] = "delete_auth"
<1>1. <<>> \in Seq(ToSteps) /\ Len(<<>>) = 0
  BY EmptySeq
<1>2. Chained(<<>>)
  BY <1>1 DEF Chained
<1>3. Range(<<>>) = {}
  BY DEF Range
<1>4. ASSUME NEW x \in ToSteps
      PROVE  <<x>> \in Seq(ToSteps) /\ Chained(<<x>>) /\ Range(<<x>>) = {x}
  <2>1. <<x>> \in Seq(ToSteps) /\ Len(<<x>>) = 1 /\ <<x>>[1] = x
    OBVIOUS
  <2>2. Range(<<x>>) = {<<x>>[i] : i \in 1..1}
    BY <2>1, RangeEquality
  <2>3. Chained(<<x>>)
    BY <2>1 DEF Chained
  <2> QED
    BY <2>1, <2>2, <2>3
<1>5. revoke \in Seq(ToSteps) /\ Len(revoke) = 2 /\ revoke[1] = "delete_auth" /\ revoke[2] = "delete_policy"
  BY FreeSteps DEF revoke
<1>6. \A i \in 1..Len(revoke) - 1 : i = 1
  BY <1>5
<1>7. Chained(revoke)
  BY <1>5, <1>6, FreeSteps DEF Chained, After
<1> QED
  BY <1>1, <1>2, <1>3, <1>4, <1>5, <1>7

\* Where a plan made of two begins.
LEMMA JoinedHead ==
    ASSUME NEW s \in Seq(ToSteps), NEW u \in Seq(ToSteps), s # <<>>
    PROVE  s \o u # <<>> /\ Head(s \o u) = s[1]
<1>1. Len(s) \in Nat \ {0} /\ Len(u) \in Nat /\ Len(s \o u) = Len(s) + Len(u) /\ s \o u \in Seq(ToSteps)
  BY EmptySeq, LenProperties, ConcatProperties
<1>2. (s \o u)[1] = s[1]
  BY <1>1, ConcatProperties
<1> QED
  BY <1>1, <1>2, EmptySeq

\* A deployment that finds no files provisions first.
LEMMA ProvisionPlan ==
    LET plan == provision \o <<"discover">>
    IN  /\ plan \in Seq(ToSteps) /\ Chained(plan) /\ Range(plan) = Range(provision) \cup {"discover"}
        /\ plan # <<>> /\ Head(plan) = "create_policy"
<1>1. /\ provision \in Seq(ToSteps) /\ Len(provision) = 6 /\ provision # <<>>
      /\ provision[1] = "create_policy" /\ provision[6] = "create_auth_secret"
  <2>1. Range(provision) \subseteq ToSteps
    BY DEF ToSteps
  <2>2. provision \in Seq(Range(provision))
    BY StepNames DEF provision
  <2> QED
    BY <2>1, <2>2, StepNames DEF provision
<1>2. Chained(provision)
  <2>1. 1..Len(provision) - 1 = {1, 2, 3, 4, 5}
    BY <1>1
  <2>2. /\ provision[2] \in After(provision[1]) /\ provision[3] \in After(provision[2])
        /\ provision[4] \in After(provision[3]) /\ provision[5] \in After(provision[4])
        /\ provision[6] \in After(provision[5])
    BY DEF provision, After
  <2>3. ASSUME NEW i \in {1, 2, 3, 4, 5} PROVE provision[i + 1] \in After(provision[i])
    <3>1. \/ i = 1 /\ i + 1 = 2
          \/ i = 2 /\ i + 1 = 3
          \/ i = 3 /\ i + 1 = 4
          \/ i = 4 /\ i + 1 = 5
          \/ i = 5 /\ i + 1 = 6
      OBVIOUS
    <3> QED
      BY <2>2, <3>1
  <2> QED
    BY <2>1, <2>3 DEF Chained
<1>3. "discover" \in ToSteps /\ "discover" \in After("create_auth_secret") /\ <<"discover">>[1] = "discover"
  BY DEF ToSteps, After
<1> QED
  BY <1>1, <1>2, <1>3, ShortPlans, Joined, JoinedHead

\* What a drop begins with, of a seedling that the seedbank has or does not have.
LEMMA DropRequest ==
    LET known == revoke \o <<"discover_drop">>
        unknown == <<>> \o <<"discover_drop">>
    IN  /\ known \in Seq(ToSteps) /\ Chained(known)
        /\ Range(known) = {"delete_auth", "delete_policy", "discover_drop"}
        /\ known # <<>> /\ Head(known) = "delete_auth"
        /\ unknown = <<"discover_drop">>
<1>1. Len(revoke) = 2 /\ revoke[2] = "delete_policy" /\ revoke # <<>>
  BY DEF revoke
<1>2. /\ "discover_drop" \in ToSteps /\ "delete_policy" \in ToSteps \ Ordering
      /\ <<"discover_drop">>[1] = "discover_drop"
  BY FreeSteps, StepNames DEF Free, Ordering
<1>3. "discover_drop" \in After("delete_policy")
  BY <1>2, FreeSteps
<1>4. /\ revoke \o <<"discover_drop">> \in Seq(ToSteps) /\ Chained(revoke \o <<"discover_drop">>)
      /\ Range(revoke \o <<"discover_drop">>) = Range(revoke) \cup {"discover_drop"}
      /\ revoke \o <<"discover_drop">> # <<>> /\ Head(revoke \o <<"discover_drop">>) = "delete_auth"
  BY <1>1, <1>2, <1>3, ShortPlans, Joined, JoinedHead
<1> QED
  BY <1>2, <1>4, StepNames, ShortPlans, ConcatEmptySeq

\* What a prune looks at, in which order.
LEMMA PruneRequest ==
    LET plan == <<"list">> \o Kinds \o <<"confirm">>
    IN  /\ plan \in Seq(ToSteps) /\ Chained(plan)
        /\ Range(plan) = Range(Kinds) \cup {"list", "confirm"}
        /\ plan # <<>> /\ Head(plan) = "list"
<1> DEFINE looks == <<"list">> \o Kinds
<1>1. <<"list">> \in Seq(Free) /\ Kinds \in Seq(Free) /\ <<"list">> # <<>> /\ <<"list">>[1] = "list"
  <2>1. Kinds \in Seq(Range(Kinds))
    BY StepNames DEF Kinds
  <2> QED
    BY <2>1, FreeSteps
<1>2. looks \in Seq(Free) /\ Len(looks) \in Nat /\ <<"list">> \in Seq(ToSteps) /\ Kinds \in Seq(ToSteps)
  BY <1>1, ConcatProperties, LenProperties, FreePlan
<1>3. looks \in Seq(ToSteps) /\ Chained(looks) /\ \A i \in 1..Len(looks) : looks[i] \in Free
  BY <1>2, FreePlan
<1>4. looks # <<>> /\ Head(looks) = "list" /\ Range(looks) = {"list"} \cup Range(Kinds) /\ looks[1] = "list"
  <2>1. looks # <<>> /\ Head(looks) = "list"
    BY <1>1, <1>2, JoinedHead
  <2>2. Range(looks) = Range(<<"list">>) \cup Range(Kinds)
    BY <1>1, RangeConcatenation
  <2> QED
    BY <1>3, <2>1, <2>2, ShortPlans, FreeSteps, HeadTailProperties, EmptySeq
<1>5. looks[Len(looks)] \in Free
  <2>1. Len(looks) \in 1..Len(looks)
    BY <1>3, <1>4, EmptySeq
  <2> QED
    BY <1>3, <2>1
<1>6. "confirm" \in After(looks[Len(looks)]) /\ "confirm" \in ToSteps /\ <<"confirm">>[1] = "confirm"
  BY <1>5, FreeSteps DEF Free
<1> HIDE DEF looks
<1>7. /\ looks \o <<"confirm">> \in Seq(ToSteps) /\ Chained(looks \o <<"confirm">>)
      /\ Range(looks \o <<"confirm">>) = Range(looks) \cup {"confirm"}
      /\ looks \o <<"confirm">> # <<>> /\ Head(looks \o <<"confirm">>) = "list"
  BY <1>3, <1>4, <1>6, ShortPlans, Joined, JoinedHead
<1> QED
  BY <1>4, <1>7 DEF looks

\* A plan of free steps, each of them there or not.
LEMMA Optional ==
    ASSUME NEW b \in BOOLEAN, NEW x \in Free
    PROVE  LET part == IF b THEN <<x>> ELSE <<>>
           IN  part \in Seq(Free) /\ Range(part) = IF b THEN {x} ELSE {}
<1>1. <<x>> \in Seq(Free) /\ <<>> \in Seq(Free)
  BY EmptySeq
<1> QED
  BY <1>1, ShortPlans, FreeSteps

LEMMA FreeJoined ==
    ASSUME NEW s \in Seq(Free), NEW u \in Seq(Free)
    PROVE  s \o u \in Seq(Free) /\ Range(s \o u) = Range(s) \cup Range(u)
BY ConcatProperties, RangeConcatenation

\* What a drop has planned, and what it deletes of what there is.
LEMMA DropPlanned ==
    /\ DropPlan \in Seq(ToSteps) /\ Chained(DropPlan) /\ DropPlan \in Seq(Free)
    /\ Range(DropPlan) \subseteq DropSteps \ {"discover_drop", "delete_auth", "delete_policy"}
    /\ record => "DeleteSeedbankEntry" \in Range(DropPlan)
    /\ mount # "none" => "DeleteSeedlingMounts" \in Range(DropPlan)
    /\ agent # "absent" => "DropContainer" \in Range(DropPlan)
    /\ "network" \in host => "DeleteSeedlingNetwork" \in Range(DropPlan)
    /\ "route" \in host => "RemoveTraefikRoute" \in Range(DropPlan)
    /\ "DeleteResinRepository" \in Range(DropPlan)
<1> DEFINE a == IF "route" \in host THEN <<"RemoveTraefikRoute">> ELSE <<>>
           b == IF agent # "absent" THEN <<"DropContainer">> ELSE <<>>
           c == IF "network" \in host THEN <<"DeleteSeedlingNetwork">> ELSE <<>>
           d == IF record THEN <<"DeleteSeedbankEntry">> ELSE <<>>
           e == IF mount = "ramdisk" THEN <<"UnmountAgentRamDisk">> ELSE <<>>
           f == IF mount # "none" THEN <<"DeleteSeedlingMounts">> ELSE <<>>
           g == <<"DeleteResinRepository">>
<1>1. /\ a \in Seq(Free) /\ Range(a) = IF "route" \in host THEN {"RemoveTraefikRoute"} ELSE {}
      /\ b \in Seq(Free) /\ Range(b) = IF agent # "absent" THEN {"DropContainer"} ELSE {}
  BY Optional, FreeSteps
<1>2. /\ c \in Seq(Free) /\ Range(c) = IF "network" \in host THEN {"DeleteSeedlingNetwork"} ELSE {}
      /\ d \in Seq(Free) /\ Range(d) = IF record THEN {"DeleteSeedbankEntry"} ELSE {}
  <2>1. c \in Seq(Free) /\ Range(c) = IF "network" \in host THEN {"DeleteSeedlingNetwork"} ELSE {}
    BY Optional, FreeSteps
  <2>2. CASE record
    BY <2>1, <2>2, ShortPlans, FreeSteps, Optional
  <2>3. CASE ~record
    BY <2>1, <2>3, ShortPlans, EmptySeq
  <2> QED
    BY <2>2, <2>3
<1>3. /\ e \in Seq(Free) /\ Range(e) = IF mount = "ramdisk" THEN {"UnmountAgentRamDisk"} ELSE {}
      /\ f \in Seq(Free) /\ Range(f) = IF mount # "none" THEN {"DeleteSeedlingMounts"} ELSE {}
  BY Optional, FreeSteps
<1>4. g \in Seq(Free) /\ Range(g) = {"DeleteResinRepository"}
  BY ShortPlans, FreeSteps
<1>5. DropPlan = a \o b \o c \o d \o e \o f \o g
  BY DEF DropPlan
<1> HIDE DEF a, b, c, d, e, f, g
<1>6. /\ DropPlan \in Seq(Free)
      /\ Range(DropPlan) = Range(a) \cup Range(b) \cup Range(c) \cup Range(d) \cup Range(e)
                             \cup Range(f) \cup Range(g)
  <2>1. a \o b \in Seq(Free) /\ Range(a \o b) = Range(a) \cup Range(b)
    BY <1>1, FreeJoined
  <2>2. a \o b \o c \in Seq(Free) /\ Range(a \o b \o c) = Range(a \o b) \cup Range(c)
    BY <1>2, <2>1, FreeJoined
  <2>3. a \o b \o c \o d \in Seq(Free) /\ Range(a \o b \o c \o d) = Range(a \o b \o c) \cup Range(d)
    BY <1>2, <2>2, FreeJoined
  <2>4. /\ a \o b \o c \o d \o e \in Seq(Free)
        /\ Range(a \o b \o c \o d \o e) = Range(a \o b \o c \o d) \cup Range(e)
    BY <1>3, <2>3, FreeJoined
  <2>5. /\ a \o b \o c \o d \o e \o f \in Seq(Free)
        /\ Range(a \o b \o c \o d \o e \o f) = Range(a \o b \o c \o d \o e) \cup Range(f)
    BY <1>3, <2>4, FreeJoined
  <2>6. /\ a \o b \o c \o d \o e \o f \o g \in Seq(Free)
        /\ Range(a \o b \o c \o d \o e \o f \o g) = Range(a \o b \o c \o d \o e \o f) \cup Range(g)
    BY <1>4, <2>5, FreeJoined
  <2> QED
    BY <1>5, <2>1, <2>2, <2>3, <2>4, <2>5, <2>6
<1>7. DropPlan \in Seq(ToSteps) /\ Chained(DropPlan)
  BY <1>6, FreePlan
<1>8. Range(DropPlan) \subseteq DropSteps \ {"discover_drop", "delete_auth", "delete_policy"}
  BY <1>1, <1>2, <1>3, <1>4, <1>6 DEF DropSteps
<1>9. /\ record => "DeleteSeedbankEntry" \in Range(DropPlan)
      /\ mount # "none" => "DeleteSeedlingMounts" \in Range(DropPlan)
      /\ agent # "absent" => "DropContainer" \in Range(DropPlan)
  BY <1>1, <1>2, <1>3, <1>6
<1>10. /\ "network" \in host => "DeleteSeedlingNetwork" \in Range(DropPlan)
       /\ "route" \in host => "RemoveTraefikRoute" \in Range(DropPlan)
       /\ "DeleteResinRepository" \in Range(DropPlan)
  BY <1>1, <1>2, <1>4, <1>6
<1> QED
  BY <1>6, <1>7, <1>8, <1>9, <1>10

\* What a prune deletes of what it found, OpenBao last.
LEMMA PrunePlanned ==
    ASSUME NEW found \in SUBSET Range(Kinds)
    PROVE  /\ PrunePlan(found) \in Seq(ToSteps) /\ Chained(PrunePlan(found))
           /\ Range(PrunePlan(found)) = (found \ {"openbao_secrets"}) \cup
                                        (IF "openbao_secrets" \in found THEN Range(revoke) ELSE {})
           /\ PrunePlan(found) # <<>> => Head(PrunePlan(found)) \in Free \cup {"delete_auth"}
<1> DEFINE a == IF "containers" \in found THEN <<"containers">> ELSE <<>>
           b == IF "networks" \in found THEN <<"networks">> ELSE <<>>
           c == IF "route_files" \in found THEN <<"route_files">> ELSE <<>>
           d == IF "resin_repositories" \in found THEN <<"resin_repositories">> ELSE <<>>
           e == IF "mounts" \in found THEN <<"mounts">> ELSE <<>>
           g == IF "openbao_secrets" \in found THEN revoke ELSE <<>>
           s == a \o b \o c \o d \o e
<1>1. /\ a \in Seq(Free) /\ Range(a) = IF "containers" \in found THEN {"containers"} ELSE {}
      /\ b \in Seq(Free) /\ Range(b) = IF "networks" \in found THEN {"networks"} ELSE {}
  BY Optional, FreeSteps, StepNames
<1>2. /\ c \in Seq(Free) /\ Range(c) = IF "route_files" \in found THEN {"route_files"} ELSE {}
      /\ d \in Seq(Free) /\ Range(d) = IF "resin_repositories" \in found THEN {"resin_repositories"} ELSE {}
  BY Optional, FreeSteps, StepNames
<1>3. e \in Seq(Free) /\ Range(e) = IF "mounts" \in found THEN {"mounts"} ELSE {}
  BY Optional, FreeSteps, StepNames
<1>4. /\ g \in Seq(ToSteps) /\ Chained(g) /\ (g # <<>> => g[1] = "delete_auth")
      /\ Range(g) = IF "openbao_secrets" \in found THEN Range(revoke) ELSE {}
  BY ShortPlans
<1>5. PrunePlan(found) = s \o g
  BY DEF PrunePlan
<1> HIDE DEF a, b, c, d, e, g
<1>6. /\ s \in Seq(Free)
      /\ Range(s) = Range(a) \cup Range(b) \cup Range(c) \cup Range(d) \cup Range(e)
  <2>1. a \o b \in Seq(Free) /\ Range(a \o b) = Range(a) \cup Range(b)
    BY <1>1, FreeJoined
  <2>2. a \o b \o c \in Seq(Free) /\ Range(a \o b \o c) = Range(a \o b) \cup Range(c)
    BY <1>2, <2>1, FreeJoined
  <2>3. a \o b \o c \o d \in Seq(Free) /\ Range(a \o b \o c \o d) = Range(a \o b \o c) \cup Range(d)
    BY <1>2, <2>2, FreeJoined
  <2>4. /\ a \o b \o c \o d \o e \in Seq(Free)
        /\ Range(a \o b \o c \o d \o e) = Range(a \o b \o c \o d) \cup Range(e)
    BY <1>3, <2>3, FreeJoined
  <2> QED
    BY <2>1, <2>2, <2>3, <2>4
<1>7. Range(s) = found \ {"openbao_secrets"}
  BY <1>1, <1>2, <1>3, <1>6, StepNames
<1> HIDE DEF s
<1>8. s \in Seq(ToSteps) /\ Chained(s) /\ \A i \in 1..Len(s) : s[i] \in Free
  BY <1>6, FreePlan
<1>9. s # <<>> => Len(s) \in 1..Len(s) /\ 1 \in 1..Len(s) /\ "delete_auth" \in After(s[Len(s)])
  <2>1. s # <<>> => Len(s) \in 1..Len(s) /\ 1 \in 1..Len(s)
    BY <1>8, EmptySeq
  <2>2. \A x \in Free : "delete_auth" \in After(x)
    BY FreeSteps DEF Free
  <2> QED
    BY <1>8, <2>1, <2>2
<1>10. /\ s \o g \in Seq(ToSteps) /\ Chained(s \o g)
       /\ Range(s \o g) = Range(s) \cup Range(g)
  BY <1>4, <1>8, <1>9, Joined
<1>11. ASSUME s \o g # <<>> PROVE Head(s \o g) \in Free \cup {"delete_auth"}
  <2>1. CASE s # <<>>
    BY <1>4, <1>8, <1>9, <2>1, JoinedHead
  <2>2. CASE s = <<>>
    <3>1. s \o g = g
      BY <1>4, <2>2, ConcatEmptySeq
    <3> QED
      BY <1>4, <1>11, <3>1, HeadTailProperties, EmptySeq
  <2> QED
    BY <2>1, <2>2
<1> QED
  BY <1>4, <1>5, <1>7, <1>10, <1>11

\* Free steps may follow any step that does not say what follows it.
LEMMA FreeAfter ==
    ASSUME NEW s \in Seq(ToSteps), Chained(s), s # <<>>, s[Len(s)] \in ToSteps \ Ordering,
           NEW u \in Seq(Free)
    PROVE  /\ s \o u \in Seq(ToSteps) /\ Chained(s \o u) /\ s \o u # <<>>
           /\ Head(s \o u) = s[1] /\ (s \o u)[1] = s[1]
           /\ (s \o u)[Len(s \o u)] \in ToSteps \ Ordering
           /\ Range(s \o u) = Range(s) \cup Range(u)
<1>1. u \in Seq(ToSteps) /\ Chained(u) /\ \A i \in 1..Len(u) : u[i] \in Free
  BY FreePlan
<1>2. /\ Len(s) \in Nat \ {0} /\ Len(u) \in Nat /\ Len(s \o u) = Len(s) + Len(u)
      /\ u # <<>> => Len(u) # 0
  BY <1>1, EmptySeq, LenProperties, ConcatProperties
<1>3. u # <<>> => u[1] \in After(s[Len(s)])
  BY <1>1, <1>2, FreeSteps
<1>4. s \o u \in Seq(ToSteps) /\ Chained(s \o u) /\ Range(s \o u) = Range(s) \cup Range(u)
  BY <1>1, <1>3, Joined
<1>5. s \o u # <<>> /\ Head(s \o u) = s[1]
  BY <1>1, JoinedHead
<1>6. (s \o u)[1] = s[1]
  BY <1>1, <1>2, ConcatProperties
<1>7. (s \o u)[Len(s \o u)] \in ToSteps \ Ordering
  <2>1. \A i \in 1..Len(s) + Len(u) : (s \o u)[i] = IF i <= Len(s) THEN s[i] ELSE u[i - Len(s)]
    BY <1>1, ConcatProperties
  <2>2. Len(s) + Len(u) \in 1..Len(s) + Len(u)
    BY <1>2
  <2>3. CASE Len(u) = 0
    BY <1>2, <2>1, <2>2, <2>3
  <2>4. CASE Len(u) # 0
    <3>1. (s \o u)[Len(s \o u)] = u[Len(u)] /\ Len(u) \in 1..Len(u)
      BY <1>2, <2>1, <2>2, <2>4
    <3> QED
      BY <1>1, <3>1 DEF Free
  <2> QED
    BY <2>3, <2>4
<1> QED
  BY <1>4, <1>5, <1>6, <1>7

\* The agent's folder, ram disk and files, in that order.
LEMMA MountPlan ==
    LET e == <<"EnsureAgentMount", "mount_ram_disk", "write_role_id", "write_secret_id">>
    IN  /\ e \in Seq(ToSteps) /\ Chained(e) /\ e # <<>> /\ Len(e) = 4
        /\ e[1] = "EnsureAgentMount" /\ e[4] = "write_secret_id" /\ Range(e) \subseteq ReconcileSteps
<1> DEFINE M == {"EnsureAgentMount", "mount_ram_disk", "write_role_id", "write_secret_id"}
           e == <<"EnsureAgentMount", "mount_ram_disk", "write_role_id", "write_secret_id">>
<1>1. /\ e \in Seq(M) /\ Len(e) = 4 /\ e[1] = "EnsureAgentMount" /\ e[2] = "mount_ram_disk"
      /\ e[3] = "write_role_id" /\ e[4] = "write_secret_id"
  OBVIOUS
<1> HIDE DEF e
<1>2. M \subseteq ToSteps /\ M \subseteq ReconcileSteps
  BY FreeSteps DEF ReconcileSteps
<1>3. e \in Seq(ToSteps) /\ e # <<>>
  <2>1. Len(<<>>) = 0
    OBVIOUS
  <2>2. e # <<>>
    BY <1>1, <2>1
  <2>3. e \in Seq(ToSteps)
    BY <1>1, <1>2
  <2> QED
    BY <2>2, <2>3
<1>4. Range(e) \subseteq ReconcileSteps
  BY <1>1, <1>2, RangeOfSeq
<1>5. Chained(e)
  <2>1. e[2] \in After(e[1]) /\ e[3] \in After(e[2]) /\ e[4] \in After(e[3])
    BY <1>1 DEF After
  <2>2. ASSUME NEW i \in 1..Len(e) - 1 PROVE e[i + 1] \in After(e[i])
    <3>1. i \in 1..4 - 1
      BY <1>1, <2>2
    <3>2. i = 1 \/ i = 2 \/ i = 3
      BY <3>1
    <3>3. 1 + 1 = 2 /\ 2 + 1 = 3 /\ 3 + 1 = 4
      OBVIOUS
    <3> QED
      BY <2>1, <3>2, <3>3
  <2> QED
    BY <2>2 DEF Chained
<1> QED
  BY <1>1, <1>3, <1>4, <1>5 DEF e

\* What a deployment that has its credentials goes on with.
LEMMA ReconcilePlanned ==
    /\ Reconcile \in Seq(ToSteps) /\ Chained(Reconcile) /\ Range(Reconcile) \subseteq ReconcileSteps
    /\ Reconcile # <<>> /\ Head(Reconcile) \in {"CreateSeedling", "EnsureAgentMount"}
<1> DEFINE p == IF record THEN <<>> ELSE <<"CreateSeedling">>
           e == <<"EnsureAgentMount", "mount_ram_disk", "write_role_id", "write_secret_id">>
           q == p \o e
           r == CASE agent = "absent"  -> <<"BuildAgentContainer", "StartContainer">>
                  [] agent = "stopped" -> <<"StartContainer">>
                  [] OTHER             -> <<>>
           w == <<"write_route", "connect_traefik">>
<1>1. Reconcile = q \o r \o w
  BY DEF Reconcile
<1>2. /\ q \in Seq(ToSteps) /\ Chained(q) /\ q # <<>> /\ q[Len(q)] = "write_secret_id"
      /\ q[1] \in {"CreateSeedling", "EnsureAgentMount"}
      /\ Range(q) \subseteq ReconcileSteps
  <2>1. /\ e \in Seq(ToSteps) /\ Chained(e) /\ e # <<>> /\ Len(e) = 4
        /\ e[1] = "EnsureAgentMount" /\ e[4] = "write_secret_id" /\ Range(e) \subseteq ReconcileSteps
    BY MountPlan
  <2>2. CASE record
    <3>1. q = e
      BY <2>1, <2>2, ConcatEmptySeq
    <3> HIDE DEF e, q
    <3> QED
      BY <2>1, <3>1
  <2>3. CASE ~record
    <3> DEFINE c == <<"CreateSeedling">>
    <3>1. /\ c \in Seq(ToSteps) /\ Chained(c) /\ c # <<>> /\ Len(c) = 1 /\ c[1] = "CreateSeedling"
          /\ Range(c) = {"CreateSeedling"}
      BY ShortPlans, FreeSteps
    <3>2. e[1] \in After(c[Len(c)])
      BY <2>1, <3>1 DEF After
    <3>3. q = c \o e
      BY <2>3
    <3> HIDE DEF c, e, q
    <3>4. q \in Seq(ToSteps) /\ Chained(q) /\ Range(q) \subseteq ReconcileSteps
      BY <2>1, <3>1, <3>2, <3>3, Joined DEF ReconcileSteps
    <3>5. /\ Len(q) = 1 + 4 /\ \A i \in 1..1 + 4 : q[i] = IF i <= 1 THEN c[i] ELSE e[i - 1]
      <4>1. Len(c \o e) = Len(c) + Len(e)
            /\ \A i \in 1..Len(c) + Len(e) : (c \o e)[i] = IF i <= Len(c) THEN c[i] ELSE e[i - Len(c)]
        BY <2>1, <3>1, ConcatProperties
      <4> QED
        BY <2>1, <3>1, <3>3, <4>1
    <3>6. q[1] = "CreateSeedling" /\ q[5] = "write_secret_id" /\ Len(q) = 5
      <4>1. 1 + 4 = 5 /\ 1 \in 1..5 /\ 5 \in 1..5 /\ ~(5 <= 1) /\ 5 - 1 = 4 /\ 1 <= 1
        OBVIOUS
      <4>2. q[1] = c[1] /\ q[5] = e[5 - 1]
        BY <3>5, <4>1
      <4> QED
        BY <2>1, <3>1, <3>5, <4>1, <4>2
    <3>7. q # <<>>
      <4>1. Len(<<>>) = 0
        OBVIOUS
      <4> QED
        BY <3>6, <4>1
    <3> QED
      BY <3>4, <3>6, <3>7
  <2> QED
    BY <2>2, <2>3
<1>3. r \in Seq(Free) /\ Range(r) \subseteq {"BuildAgentContainer", "StartContainer"}
  <2>1. {"BuildAgentContainer", "StartContainer"} \subseteq Free
    BY FreeSteps
  <2>2. r \in Seq({"BuildAgentContainer", "StartContainer"})
    <3>1. CASE agent = "absent"
      BY <3>1
    <3>2. CASE agent = "stopped"
      BY <3>2
    <3>3. CASE agent \notin {"absent", "stopped"}
      BY <3>3, EmptySeq
    <3> QED
      BY <3>1, <3>2, <3>3
  <2> HIDE DEF r
  <2>3. r \in Seq(Free)
    BY <2>1, <2>2
  <2>4. Range(r) \subseteq {"BuildAgentContainer", "StartContainer"}
    BY <2>2, RangeOfSeq
  <2> QED
    BY <2>3, <2>4
<1>4. w \in Seq(Free) /\ Range(w) \subseteq {"write_route", "connect_traefik"}
  <2>1. w \in Seq({"write_route", "connect_traefik"})
    OBVIOUS
  <2> HIDE DEF w
  <2>2. w \in Seq(Free)
    BY <2>1, FreeSteps
  <2>3. Range(w) \subseteq {"write_route", "connect_traefik"}
    BY <2>1, RangeOfSeq
  <2> QED
    BY <2>2, <2>3
<1> HIDE DEF q, r, w
<1>5. "write_secret_id" \in ToSteps \ Ordering
  BY FreeSteps
<1>6. /\ q \o r \in Seq(ToSteps) /\ Chained(q \o r) /\ q \o r # <<>>
      /\ (q \o r)[1] = q[1]
      /\ (q \o r)[Len(q \o r)] \in ToSteps \ Ordering
      /\ Range(q \o r) = Range(q) \cup Range(r)
  BY <1>2, <1>3, <1>5, FreeAfter
<1>7. /\ q \o r \o w \in Seq(ToSteps) /\ Chained(q \o r \o w) /\ q \o r \o w # <<>>
      /\ Head(q \o r \o w) = (q \o r)[1]
      /\ Range(q \o r \o w) = Range(q \o r) \cup Range(w)
  BY <1>4, <1>6, FreeAfter
<1> QED
  BY <1>1, <1>2, <1>3, <1>4, <1>6, <1>7 DEF ReconcileSteps

\* A look for deadwood ends with the operator's confirmation, and no deletion does.
LEMMA ConfirmIsLast ==
    ASSUME NEW s \in Seq(ToSteps), Chained(s), s # <<>>
    PROVE  Last(s) = "confirm" <=> "confirm" \in Range(s)
<1>1. Len(s) \in Nat \ {0} /\ Range(s) = {s[i] : i \in 1..Len(s)} /\ Last(s) = s[Len(s)]
  BY EmptySeq, RangeEquality DEF Last
<1>2. ASSUME NEW i \in 1..Len(s), s[i] = "confirm" PROVE i = Len(s)
  <2>1. SUFFICES ASSUME i # Len(s) PROVE FALSE
    OBVIOUS
  <2>2. i \in 1..Len(s) - 1
    BY <1>1, <2>1
  <2>3. s[i + 1] \in After("confirm")
    BY <1>2, <2>2 DEF Chained
  <2> QED
    BY <2>3 DEF After
<1>3. Len(s) \in 1..Len(s)
  BY <1>1
<1> QED
  BY <1>1, <1>2, <1>3

-----------------------------------------------------------------------------
(* Tasks *)

\* n is what a task k becomes that has done the first of its steps.
Onward(k, n) ==
    /\ n \in Task /\ n.todo = Tail(k.todo) /\ n.phase = "run" /\ n.kind = k.kind
    /\ n.undisturbed = k.undisturbed

\* n has nothing at hand that relies on an earlier step: it looks first, if it has just begun.
Quiet(n) ==
    n \in Task /\ Planned(n) /\ (AtOne(n, Ordered) => Head(n.todo) = "look" /\ n.made = {})

LEMMA TodoTyped ==
    ASSUME NEW k \in Task
    PROVE  /\ k.todo \in Seq(ToSteps) /\ k.journal \in Seq(ToSteps)
           /\ k.creds \in [Credentials -> Ids \cup {NoId, Torn}]
           /\ k.listed \subseteq Ids /\ k.found \subseteq Range(Kinds)
           /\ k.undisturbed \in BOOLEAN /\ k.knew \in BOOLEAN
BY DEF Task

LEMMA OnwardGoes ==
    ASSUME NEW k \in Task, Planned(k), k.phase = "run", k.todo # <<>>, NEW n, Onward(k, n)
    PROVE  /\ Range(k.todo) = {Head(k.todo)} \cup Range(n.todo)
           /\ Range(n.todo) \subseteq StepsOf(n.kind) /\ Chained(n.todo)
           /\ \A steps : AtOne(n, steps) => Head(n.todo) \in steps \cap After(Head(k.todo))
           /\ Head(k.todo) \in StepsOf(k.kind) /\ Head(k.todo) \in ToSteps
           /\ (AtOne(n, WithRoleId) => n.creds["role_id"] # NoId) => Planned(n)
<1>1. k.todo \in Seq(ToSteps) /\ Chained(k.todo) /\ Range(k.todo) \subseteq StepsOf(k.kind)
  BY TodoTyped DEF Planned
<1>2. /\ Chained(Tail(k.todo)) /\ Head(k.todo) \in ToSteps
      /\ Range(k.todo) = {Head(k.todo)} \cup Range(Tail(k.todo))
      /\ Tail(k.todo) # <<>> => Head(Tail(k.todo)) \in After(Head(k.todo))
  BY <1>1, TailOfPlan
<1>3. n.todo = Tail(k.todo) /\ n.kind = k.kind /\ n.phase = "run"
  BY DEF Onward
<1>4. \A steps : AtOne(n, steps) => Head(n.todo) \in steps \cap After(Head(k.todo))
  BY <1>2, <1>3 DEF AtOne
<1>5. Range(n.todo) \subseteq StepsOf(n.kind) /\ Chained(n.todo) /\ Head(k.todo) \in StepsOf(k.kind)
  BY <1>1, <1>2, <1>3
<1> QED
  BY <1>2, <1>3, <1>4, <1>5 DEF Planned

\* A step that does not say what follows it is followed by none that relies on it.
LEMMA OnwardQuiet ==
    ASSUME NEW k \in Task, Planned(k), k.phase = "run", k.todo # <<>>, NEW n, Onward(k, n),
           Head(k.todo) \notin Ordering
    PROVE  Quiet(n)
<1>1. Head(k.todo) \in ToSteps \ Ordering
  BY OnwardGoes
<1>2. After(Head(k.todo)) = ToSteps \ Ordered
  BY <1>1, FreeSteps
<1>3. ~AtOne(n, Ordered)
  BY <1>2, OnwardGoes
<1>4. ~AtOne(n, WithRoleId)
  <2>1. WithRoleId \subseteq Ordered
    BY StepNames DEF WithRoleId, Deployed, Ordered
  <2> QED
    BY <1>3, <2>1 DEF AtOne
<1> QED
  BY <1>3, <1>4, OnwardGoes DEF Quiet, Onward

\* What a quiet task relies on is nothing.
LEMMA QuietDuty ==
    ASSUME NEW n, Quiet(n)
    PROVE  Planned(n) /\ Untrusted(n)' /\ Provisioned(n)'
<1>1. /\ Range(provision) \cup Deployed \cup {"delete_policy"} \subseteq Ordered \ {"look"}
      /\ AtOne(n, {"look"}) => n.made = {}
  BY StepNames DEF Ordered, Deployed, Quiet, AtOne
<1>2. \A steps \in SUBSET (Ordered \ {"look"}) : ~AtOne(n, steps)
  BY DEF Quiet, AtOne
<1>3. /\ ~AtOne(n, Range(provision)) /\ ~AtOne(n, Range(provision) \cup {"delete_policy"})
      /\ ~AtOne(n, Range(provision) \ {"create_policy"})
      /\ ~AtOne(n, Range(provision) \ {"create_policy", "create_auth"})
      /\ ~AtOne(n, Deployed) /\ ~AtOne(n, Deployed \ {"write_secret_id"})
  BY <1>1, <1>2
<1>4. /\ ~AtOne(n, {"destroy_accessors"}) /\ ~AtOne(n, {"get_role_id", "create_auth_secret"})
      /\ ~AtOne(n, {"create_auth_secret"})
      /\ ~AtOne(n, {"write_role_id", "write_secret_id"}) /\ ~AtOne(n, {"write_secret_id"})
  BY <1>1, <1>2, StepNames DEF Deployed
<1> QED
  BY <1>1, <1>3, <1>4 DEF Quiet, Untrusted, Provisioned

\* A task that is idle has nothing to do.
LEMMA IdleQuiet == Quiet(Idle) /\ ~Idle.undisturbed /\ Idle \in Task
<1>1. Idle \in Task
  <2>1. NoFiles \in [Credentials -> Ids \cup {NoId, Torn}]
    BY DEF NoFiles
  <2> QED
    BY <2>1, EmptySeq DEF Idle, Task
<1>2. Idle.phase = "idle" /\ Idle.todo = <<>> /\ ~Idle.undisturbed
  BY DEF Idle
<1>3. Planned(Idle)
  BY <1>2, ShortPlans DEF Planned, AtOne
<1> QED
  BY <1>1, <1>2, <1>3 DEF Quiet, AtOne

LEMMA KindsOfSteps ==
    ASSUME NEW k \in Task, Planned(k), k.todo # <<>>
    PROVE  /\ Head(k.todo) \in StepsOf(k.kind)
           /\ Head(k.todo) \in DeploySteps => k.kind = "deploy"
           /\ Head(k.todo) \in DropSteps \ Range(revoke) => k.kind = "drop"
           /\ Head(k.todo) \in PruneSteps \ Range(revoke) => k.kind = "prune"
           /\ Head(k.todo) \in Range(revoke) => k.kind \in {"drop", "prune"}
<1>1. Head(k.todo) \in StepsOf(k.kind)
  <2>1. k.todo \in Seq(ToSteps) /\ Chained(k.todo) /\ Range(k.todo) \subseteq StepsOf(k.kind)
    BY TodoTyped DEF Planned
  <2>2. Head(k.todo) \in Range(k.todo)
    BY <2>1, TailOfPlan
  <2> QED
    BY <2>1, <2>2
<1>2. k.kind \in {"none", "deploy", "drop", "prune"}
  BY DEF Task
<1>3. CASE k.kind = "deploy"
  <2>1. Head(k.todo) \in DeploySteps
    BY <1>1, <1>3 DEF StepsOf
  <2> QED
    BY <1>1, <1>3, <2>1, StepNames DEF DeploySteps, DropSteps, PruneSteps, ReconcileSteps
<1>4. CASE k.kind = "drop"
  <2>1. Head(k.todo) \in DropSteps
    BY <1>1, <1>4 DEF StepsOf
  <2> QED
    BY <1>1, <1>4, <2>1, StepNames DEF DeploySteps, DropSteps, PruneSteps, ReconcileSteps
<1>5. CASE k.kind = "prune"
  <2>1. Head(k.todo) \in PruneSteps
    BY <1>1, <1>5 DEF StepsOf
  <2> QED
    BY <1>1, <1>5, <2>1, StepNames DEF DeploySteps, DropSteps, PruneSteps, ReconcileSteps
<1>6. CASE k.kind = "none"
  BY <1>1, <1>6 DEF StepsOf
<1> QED
  BY <1>2, <1>3, <1>4, <1>5, <1>6

\* The task that takes a step.
LEMMA Acts ==
    ASSUME Inv, NEW t \in Tasks, NEW step, At(t, step)
    PROVE  /\ task[t] \in Task /\ Duty(task[t]) /\ Planned(task[t])
           /\ task[t].phase = "run" /\ task[t].todo # <<>> /\ Head(task[t].todo) = step
           /\ \A steps : step \in steps => AtOne(task[t], steps)
           /\ step \in DeploySteps => task[t].kind = "deploy"
           /\ step \in DropSteps \ Range(revoke) => task[t].kind = "drop"
           /\ step \in PruneSteps \ Range(revoke) => task[t].kind = "prune"
           /\ step \in Range(revoke) => task[t].kind \in {"drop", "prune"}
<1>1. task[t] \in Task /\ Duty(task[t])
  BY DEF Inv, TypeOK
<1>2. task[t].phase = "run" /\ task[t].todo # <<>> /\ Head(task[t].todo) = step
  BY DEF At
<1>3. Planned(task[t])
  BY <1>1 DEF Duty
<1>4. \A steps : step \in steps => AtOne(task[t], steps)
  BY <1>2 DEF AtOne
<1> QED
  BY <1>1, <1>2, <1>3, <1>4, KindsOfSteps

\* A task that is not undisturbed relies on nothing that others may change.
LEMMA DisturbedRelies ==
    ASSUME NEW k, ~k.undisturbed
    PROVE  Provisioned(k)' /\ Dropping(k)' /\ Sought(k)'
BY DEF Provisioned, Dropping, Sought

\* A step of one task: the others keep what they have, for one that is undisturbed has
\* no other beside it.
LEMMA TaskStep ==
    ASSUME Inv, NEW t \in Tasks, task[t].phase # "idle",
           NEW n \in Task, task' = [task EXCEPT ![t] = n], n.undisturbed => task[t].undisturbed,
           Planned(n), Untrusted(n)', Provisioned(n)', Dropping(n)', Sought(n)',
           ~task[t].undisturbed /\ (BothExist => revoked) => (BothExist => revoked)'
    PROVE  /\ task' \in [Tasks -> Task]
           /\ Lonely' /\ \A u \in Tasks : Duty(task[u])'
<1>1. task \in [Tasks -> Task] /\ Lonely /\ \A u \in Tasks : Duty(task[u])
  BY DEF Inv, TypeOK
<1>2. task'[t] = n /\ \A u \in Tasks \ {t} : task'[u] = task[u]
  BY <1>1
<1>3. \A u \in Tasks \ {t} : ~task[u].undisturbed
  BY <1>1 DEF Lonely, Alone
<1>4. Lonely'
  <2> SUFFICES ASSUME NEW u \in Tasks, task'[u].undisturbed, NEW v \in Tasks \ {u}
               PROVE  task'[v].phase = "idle"
    BY DEF Lonely, Alone
  <2>1. u = t
    BY <1>2, <1>3
  <2>2. task[t].undisturbed
    BY <1>2, <2>1
  <2> QED
    BY <1>1, <1>2, <2>1, <2>2 DEF Lonely, Alone
<1>5. ASSUME NEW u \in Tasks PROVE Duty(task[u])'
  <2>1. CASE u = t
    BY <1>2, <2>1 DEF Duty, Planned, Untrusted, Provisioned, Dropping, Sought, AtOne, Ahead, Accepts, ToRevoke
  <2>2. CASE u # t
    <3>1. PICK k \in Task : k = task[u]
      BY <1>1
    <3>2. task'[u] = k /\ Duty(k) /\ ~k.undisturbed
      BY <1>1, <1>2, <1>3, <2>2, <3>1
    <3>3. Provisioned(k)' /\ Dropping(k)' /\ Sought(k)'
      BY <3>2, DisturbedRelies
    <3>4. Untrusted(k)'
      <4>1. SUFFICES ASSUME AtOne(k, Range(provision) \cup {"delete_policy"}) PROVE (BothExist => revoked)'
        BY DEF Untrusted
      <4>2. ~task[t].undisturbed
        BY <1>1, <2>2, <3>1, <4>1 DEF Lonely, Alone, AtOne
      <4>3. BothExist => revoked
        BY <3>2, <4>1 DEF Duty, Untrusted
      <4> QED
        BY <4>2, <4>3
    <3>5. Duty(k)'
      BY <3>2, <3>3, <3>4 DEF Duty
    <3> QED
      BY <3>2, <3>5 DEF Duty, Planned, Untrusted, Provisioned, Dropping, Sought, AtOne, Ahead, Accepts, ToRevoke
  <2> QED
    BY <2>1, <2>2
<1> QED
  BY <1>1, <1>4, <1>5

\* What the tasks do among themselves does not touch what they share.
LEMMA SameWorld ==
    ASSUME Inv, UNCHANGED <<record, openbao, disk, docker, revoked>>, task' \in [Tasks -> Task],
           requests' \in 0..MaxRequests, faults' \in 0..MaxFaults
    PROVE  TypeOK' /\ World'
<1>1. UNCHANGED <<record, policy, role, live, mount, file, below, agent, host, revoked>>
  BY DEF openbao, disk, docker
<1>2. TypeOK'
  BY <1>1 DEF Inv, TypeOK
<1>3. World'
  BY <1>1 DEF Inv, World, Linked, Issued, InOrder, Suspect, FilesAreAccepted, BothExist
<1> QED
  BY <1>2, <1>3

\* A task that a failed call ends, or that undoes or skips the rest of it.
LEMMA Failed ==
    ASSUME Inv, NEW t \in Tasks, task[t].phase = "run", task[t].todo # <<>>
    PROVE  Quiet(FailedTask(t)) /\ ~FailedTask(t).undisturbed
<1>1. PICK k \in Task : k = task[t] /\ Planned(k)
  BY DEF Inv, TypeOK, Duty
<1>2. CASE k.kind = "deploy" /\ k.journal # <<>>
  <2>1. PICK n : n = [k EXCEPT !.phase = "undo", !.undisturbed = FALSE]
    OBVIOUS
  <2>2. FailedTask(t) = n
    BY <1>1, <1>2, <2>1 DEF FailedTask
  <2>3. /\ n \in Task /\ n.phase = "undo" /\ n.journal = k.journal /\ n.todo = k.todo
        /\ n.kind = k.kind /\ ~n.undisturbed
    BY <2>1 DEF Task
  <2>4. Quiet(n)
    BY <1>1, <1>2, <2>3 DEF Quiet, Planned, AtOne
  <2> QED
    BY <2>2, <2>3, <2>4
<1>3. CASE ~(k.kind = "deploy" /\ k.journal # <<>>) /\ Head(k.todo) \in Range(revoke) /\ k.kind = "drop"
  <2>1. PICK n : n = [k EXCEPT !.todo = <<"discover_drop">>, !.undisturbed = FALSE]
    OBVIOUS
  <2>2. FailedTask(t) = n
    BY <1>1, <1>3, <2>1 DEF FailedTask
  <2>3. "discover_drop" \in ToSteps \ Ordered /\ "discover_drop" \in DropSteps
    BY FreeSteps, StepNames DEF Free, DropSteps
  <2>4. /\ <<"discover_drop">> \in Seq(ToSteps) /\ Chained(<<"discover_drop">>)
        /\ Range(<<"discover_drop">>) = {"discover_drop"} /\ Head(<<"discover_drop">>) = "discover_drop"
    BY <2>3, ShortPlans
  <2>5. /\ n \in Task /\ n.phase = "run" /\ n.todo = <<"discover_drop">> /\ n.kind = "drop"
        /\ ~n.undisturbed
    BY <1>1, <1>3, <2>1, <2>4 DEF Task
  <2>6. ~AtOne(n, Ordered) /\ ~AtOne(n, WithRoleId)
    BY <2>3, <2>4, <2>5, StepNames DEF AtOne, WithRoleId, Deployed, Ordered
  <2>7. Planned(n)
    BY <2>3, <2>4, <2>5, <2>6 DEF Planned, StepsOf
  <2> QED
    BY <2>2, <2>5, <2>6, <2>7 DEF Quiet
<1>4. CASE /\ ~(k.kind = "deploy" /\ k.journal # <<>>)
           /\ ~(Head(k.todo) \in Range(revoke) /\ k.kind = "drop")
  <2>1. FailedTask(t) = Idle
    BY <1>1, <1>4 DEF FailedTask
  <2> QED
    BY <2>1, IdleQuiet
<1> QED
  BY <1>2, <1>3, <1>4

\* A step after which a task that is not undisturbed is quiet.
LEMMA Settles ==
    ASSUME Inv, NEW t \in Tasks, task[t].phase # "idle", NEW n, Quiet(n), ~n.undisturbed,
           task' = [task EXCEPT ![t] = n],
           ~task[t].undisturbed /\ (BothExist => revoked) => (BothExist => revoked)'
    PROVE  /\ task' \in [Tasks -> Task]
           /\ Lonely' /\ \A u \in Tasks : Duty(task[u])'
<1>1. n \in Task
  BY DEF Quiet
<1>2. Planned(n) /\ Untrusted(n)' /\ Provisioned(n)' /\ Dropping(n)' /\ Sought(n)'
  BY QuietDuty, DisturbedRelies
<1> QED
  BY <1>1, <1>2, TaskStep

\* A call fails, or answers that it cannot.
LEMMA Fails ==
    ASSUME Inv, NEW t \in Tasks, task[t].phase = "run", task[t].todo # <<>>,
           Becomes(t, FailedTask(t)),
           ~task[t].undisturbed /\ (BothExist => revoked) => (BothExist => revoked)'
    PROVE  /\ task' \in [Tasks -> Task]
           /\ Lonely' /\ \A u \in Tasks : Duty(task[u])'
<1>1. PICK n : n = FailedTask(t)
  OBVIOUS
<1>2. Quiet(n) /\ ~n.undisturbed /\ task' = [task EXCEPT ![t] = n]
  BY <1>1, Failed DEF Becomes
<1> QED
  BY <1>2, Settles

\* A task that another one begins beside is as it was, and no longer undisturbed.
LEMMA DisturbedTask ==
    ASSUME Inv, NEW u \in Tasks, NEW k, k = Disturbed(u)
    PROVE  /\ k \in Task /\ ~k.undisturbed /\ k.phase = task[u].phase
           /\ Planned(k) /\ \A steps : AtOne(k, steps) => AtOne(task[u], steps)
<1>1. PICK c \in Task : c = task[u] /\ Planned(c)
  BY DEF Inv, TypeOK, Duty
<1>2. CASE c.phase = "idle"
  <2>1. k = c /\ c = Idle
    BY <1>1, <1>2 DEF Disturbed, Planned
  <2> QED
    BY <1>1, <2>1, IdleQuiet
<1>3. CASE c.phase # "idle"
  <2>1. k = [c EXCEPT !.undisturbed = FALSE]
    BY <1>1, <1>3 DEF Disturbed
  <2>2. /\ k \in Task /\ ~k.undisturbed /\ k.phase = c.phase /\ k.todo = c.todo /\ k.kind = c.kind
        /\ k.journal = c.journal /\ k.creds = c.creds
    BY <2>1 DEF Task
  <2> QED
    BY <1>1, <1>3, <2>2 DEF Planned, AtOne
<1> QED
  BY <1>2, <1>3

\* A task begins: those that run are not undisturbed any more.
LEMMA Begins ==
    ASSUME Inv, NEW t \in Tasks, NEW n, Quiet(n), n.undisturbed <=> Alone(t),
           task[t].phase = "idle", task' = [u \in Tasks |-> IF u # t THEN Disturbed(u) ELSE n],
           Dropping(n)', Sought(n)', UNCHANGED <<disk, revoked>>
    PROVE  /\ task' \in [Tasks -> Task]
           /\ Lonely' /\ \A u \in Tasks : Duty(task[u])'
<1>1. /\ task' = [u \in Tasks |-> IF u # t THEN Disturbed(u) ELSE n] /\ task[t].phase = "idle"
      /\ UNCHANGED <<file, revoked>>
  BY DEF disk
<1>2. task'[t] = n /\ \A u \in Tasks \ {t} : task'[u] = Disturbed(u)
  BY <1>1
<1>3. task' \in [Tasks -> Task]
  BY <1>1, DisturbedTask DEF Quiet
<1>4. Lonely'
  <2> SUFFICES ASSUME NEW u \in Tasks, task'[u].undisturbed, NEW v \in Tasks \ {u}
               PROVE  task'[v].phase = "idle"
    BY DEF Lonely, Alone
  <2>1. u = t
    BY <1>2, DisturbedTask
  <2>2. Alone(t)
    BY <1>2, <2>1
  <2> QED
    BY <1>2, <2>1, <2>2, DisturbedTask DEF Alone
<1>5. ASSUME NEW u \in Tasks PROVE Duty(task[u])'
  <2>1. CASE u = t
    <3>1. Duty(n)'
      BY QuietDuty DEF Duty
    <3> QED
      BY <1>2, <2>1, <3>1 DEF Duty, Planned, Untrusted, Provisioned, Dropping, Sought, AtOne, Ahead, Accepts, ToRevoke
  <2>2. CASE u # t
    <3>1. PICK k : k = Disturbed(u)
      OBVIOUS
    <3>2. task'[u] = k /\ Planned(k) /\ ~k.undisturbed
      BY <1>2, <2>2, <3>1, DisturbedTask
    <3>3. Untrusted(k)'
      BY <1>1, <3>1, DisturbedTask DEF Inv, Duty, Untrusted, BothExist
    <3>4. Duty(k)'
      BY <3>2, <3>3, DisturbedRelies DEF Duty
    <3> QED
      BY <3>2, <3>4 DEF Duty, Planned, Untrusted, Provisioned, Dropping, Sought, AtOne, Ahead, Accepts, ToRevoke
  <2> QED
    BY <2>1, <2>2
<1> QED
  BY <1>3, <1>4, <1>5

-----------------------------------------------------------------------------
(* Files that come to light, or go *)

DiskTyped ==
    /\ mount \in {"none", "folder", "ramdisk"}
    /\ {file, below} \subseteq [Credentials -> Ids \cup {NoId, Torn}]
    /\ mount = "none" => file = NoFiles
    /\ mount # "ramdisk" => below = NoFiles
    /\ revoked \in BOOLEAN

\* What a step does to the disk that writes no file.
Clearing ==
    \/ UNCHANGED <<disk, revoked>>
    \/ Unmounted
    \/ FolderDeleted
    \/ mount' = "none" /\ file' = NoFiles /\ below' = NoFiles /\ UNCHANGED revoked

LEMMA FilesTyped ==
    /\ NoFiles \in [Credentials -> Ids \cup {NoId, Torn}]
    /\ NoFiles["role_id"] = NoId /\ NoFiles["secret_id"] = NoId
BY DEF NoFiles, Credentials

\* The files that are seen after it were seen before it, are none, or are not trusted.
LEMMA Clears ==
    ASSUME Inv, Clearing, UNCHANGED openbao, Linked'
    PROVE  /\ DiskTyped' /\ World' /\ ((BothExist => revoked) => (BothExist => revoked)')
           /\ mount' # "none" => mount # "none"
<1>1. DiskTyped /\ Issued /\ InOrder /\ Suspect /\ FilesAreAccepted
  BY DEF Inv, TypeOK, DiskTyped, World
<1>2. UNCHANGED <<policy, role, live>>
  BY DEF openbao
<1>3. ~NoFiles["secret_id"] # NoId /\ ~(\A f \in Credentials : NoFiles[f] # NoId)
  BY FilesTyped DEF Credentials
<1>4. CASE UNCHANGED <<disk, revoked>>
  BY <1>1, <1>2, <1>4 DEF disk, DiskTyped, World, Issued, InOrder, Suspect, FilesAreAccepted, BothExist
<1>5. CASE file' = NoFiles /\ below' \in {below, NoFiles} /\ UNCHANGED revoked /\ mount' \in {"none", "ramdisk"}
           /\ (mount' = "ramdisk" => mount = "ramdisk") /\ (mount' # "ramdisk" => below' = NoFiles)
  <2>1. DiskTyped'
    BY <1>1, <1>5, FilesTyped DEF DiskTyped
  <2>2. World' /\ ((BothExist => revoked) => (BothExist => revoked)')
    BY <1>1, <1>2, <1>3, <1>5 DEF World, Issued, InOrder, Suspect, FilesAreAccepted, BothExist
  <2> QED
    BY <1>5, <2>1, <2>2
<1>6. CASE FolderDeleted \/ (mount' = "none" /\ file' = NoFiles /\ below' = NoFiles /\ UNCHANGED revoked)
  BY <1>1, <1>5, <1>6 DEF FolderDeleted, DiskTyped
<1>7. CASE Unmounted
  <2>1. CASE mount = "ramdisk"
    <3>1. /\ mount' = "folder" /\ file' = below /\ below' = NoFiles /\ (below # NoFiles => revoked')
          /\ revoked' \in BOOLEAN /\ (revoked => revoked')
      BY <1>1, <1>7, <2>1 DEF Unmounted, DiskTyped
    <3>2. DiskTyped'
      BY <1>1, <3>1, FilesTyped DEF DiskTyped
    <3>3. World' /\ ((BothExist => revoked) => (BothExist => revoked)')
      BY <1>1, <1>2, <1>3, <3>1 DEF World, Issued, InOrder, Suspect, FilesAreAccepted, BothExist
    <3> QED
      BY <2>1, <3>1, <3>2, <3>3
  <2>2. CASE mount # "ramdisk"
    <3>1. UNCHANGED <<mount, file, below, revoked>>
      BY <1>1, <1>7, <2>2 DEF Unmounted, DiskTyped
    <3> QED
      BY <1>4, <3>1 DEF disk
  <2> QED
    BY <2>1, <2>2
<1> QED
  BY <1>4, <1>6, <1>7 DEF Clearing
-----------------------------------------------------------------------------
(* Requests, failed calls, the end of a task *)

LEMMA FaultTyped ==
    ASSUME TypeOK, Fault
    PROVE  requests' \in 0..MaxRequests /\ faults' \in 0..MaxFaults
BY ProvisioningAssumption DEF TypeOK, Fault

LEMMA BoundsTyped ==
    ASSUME TypeOK, UNCHANGED bounds
    PROVE  requests' \in 0..MaxRequests /\ faults' \in 0..MaxFaults
BY DEF TypeOK, bounds

LEMMA CallFailsKeeps ==
    ASSUME Inv, NEW t \in Tasks, CallFails(t)
    PROVE  Inv'
<1>1. /\ task[t].phase = "run" /\ task[t].todo # <<>> /\ Fault /\ Becomes(t, FailedTask(t))
      /\ UNCHANGED <<record, openbao, disk, docker, revoked>>
  BY DEF CallFails
<1>2. (BothExist => revoked) => (BothExist => revoked)'
  BY <1>1 DEF BothExist, disk
<1>3. task' \in [Tasks -> Task] /\ Lonely' /\ \A u \in Tasks : Duty(task[u])'
  BY <1>1, <1>2, Fails
<1> QED
  BY <1>1, <1>3, SameWorld, FaultTyped DEF Inv

LEMMA EndsKeeps ==
    ASSUME Inv, NEW t \in Tasks, Ends(t)
    PROVE  Inv'
<1>1. /\ task[t].phase = "run" /\ task' = [task EXCEPT ![t] = Idle]
      /\ UNCHANGED <<record, openbao, disk, docker, revoked, bounds>>
  BY DEF Ends, Becomes
<1>2. (BothExist => revoked) => (BothExist => revoked)'
  BY <1>1 DEF BothExist, disk
<1>3. task' \in [Tasks -> Task] /\ Lonely' /\ \A u \in Tasks : Duty(task[u])'
  BY <1>1, <1>2, IdleQuiet, Settles
<1> QED
  BY <1>1, <1>3, SameWorld, BoundsTyped DEF Inv

\* Every task is disturbed, or ends: what they rely on is what the files are worth.
LEMMA NoneUndisturbed ==
    ASSUME Inv, NEW tasks \in [Tasks -> Task], task' = tasks,
           \A u \in Tasks : /\ ~tasks[u].undisturbed /\ Planned(tasks[u])
                            /\ \A steps : AtOne(tasks[u], steps) => AtOne(task[u], steps),
           (BothExist => revoked) => (BothExist => revoked)'
    PROVE  Lonely' /\ \A u \in Tasks : Duty(task[u])'
<1>1. Lonely'
  BY DEF Lonely
<1>2. ASSUME NEW u \in Tasks PROVE Duty(task[u])'
  <2>1. PICK k \in Task : k = tasks[u]
    OBVIOUS
  <2>2. task'[u] = k /\ ~k.undisturbed /\ Planned(k)
    BY <2>1
  <2>3. Untrusted(k)'
    BY <2>1 DEF Inv, Duty, Untrusted
  <2>4. Duty(k)'
    BY <2>2, <2>3, DisturbedRelies DEF Duty
  <2> QED
    BY <2>2, <2>4 DEF Duty, Planned, Untrusted, Provisioned, Dropping, Sought, AtOne, Ahead, Accepts, ToRevoke
<1> QED
  BY <1>1, <1>2

LEMMA NewSeedlingKeeps ==
    ASSUME Inv, NewSeedling
    PROVE  Inv'
<1>1. /\ record' = TRUE /\ task' = [u \in Tasks |-> Disturbed(u)]
      /\ UNCHANGED <<openbao, disk, docker, revoked, bounds>>
  BY DEF NewSeedling
<1>2. PICK tasks : tasks = [u \in Tasks |-> Disturbed(u)]
  OBVIOUS
<1>3. /\ tasks \in [Tasks -> Task] /\ task' = tasks
      /\ \A u \in Tasks : /\ ~tasks[u].undisturbed /\ Planned(tasks[u])
                          /\ \A steps : AtOne(tasks[u], steps) => AtOne(task[u], steps)
  BY <1>1, <1>2, DisturbedTask
<1>4. UNCHANGED <<policy, role, live, mount, file, below, agent, host, revoked>>
  BY <1>1 DEF openbao, disk, docker
<1>5. Lonely' /\ \A u \in Tasks : Duty(task[u])'
  <2>1. (BothExist => revoked) => (BothExist => revoked)'
    BY <1>4 DEF BothExist
  <2> HIDE DEF Inv
  <2> QED
    BY <1>3, <2>1, NoneUndisturbed
<1>6. World'
  BY <1>4 DEF Inv, World, Linked, Issued, InOrder, Suspect, FilesAreAccepted, BothExist
<1>7. TypeOK'
  BY <1>1, <1>3, <1>4, BoundsTyped DEF Inv, TypeOK
<1> QED
  BY <1>5, <1>6, <1>7 DEF Inv

\* bract ends, and the ram disk may end with it.
LEMMA RestartKeeps ==
    ASSUME Inv, Crash \/ Reboot
    PROVE  Inv'
<1>1. /\ Fault /\ task' = [t \in Tasks |-> Idle] /\ UNCHANGED <<record, openbao, host>> /\ Clearing
      /\ agent' = agent \/ (agent = "running" /\ agent' = "stopped")
  BY DEF Crash, Reboot, docker, Clearing
<1>2. PICK tasks : tasks = [t \in Tasks |-> Idle]
  OBVIOUS
<1>3. /\ tasks \in [Tasks -> Task] /\ task' = tasks
      /\ \A u \in Tasks : /\ ~tasks[u].undisturbed /\ Planned(tasks[u])
                          /\ \A steps : AtOne(tasks[u], steps) => AtOne(task[u], steps)
  <2>1. Idle \in Task /\ ~Idle.undisturbed /\ Planned(Idle) /\ Idle.phase = "idle"
    BY IdleQuiet DEF Quiet, Idle
  <2> QED
    BY <1>1, <1>2, <2>1 DEF AtOne
<1>4. Linked'
  BY <1>1 DEF Inv, World, Linked
<1>5. DiskTyped' /\ World' /\ ((BothExist => revoked) => (BothExist => revoked)')
  BY <1>1, <1>4, Clears
<1>6. Lonely' /\ \A u \in Tasks : Duty(task[u])'
  BY <1>3, <1>5, NoneUndisturbed
<1>7. TypeOK'
  BY <1>1, <1>3, <1>5, FaultTyped DEF Inv, TypeOK, DiskTyped, openbao
<1> QED
  BY <1>5, <1>6, <1>7 DEF Inv

\* The agent starts or stops by itself: it is there, or not, as before.
LEMMA AgentKeeps ==
    ASSUME Inv, AgentStarts \/ AgentStops
    PROVE  Inv'
<1>1. /\ agent # "absent" /\ agent' # "absent" /\ agent' \in {"stopped", "running"}
      /\ UNCHANGED <<record, openbao, disk, host, task, revoked, bounds>>
  BY DEF AgentStarts, AgentStops
<1>2. UNCHANGED <<policy, role, live, mount, file, below>>
  BY <1>1 DEF openbao, disk
<1>3. TypeOK'
  BY <1>1, <1>2, BoundsTyped DEF Inv, TypeOK
<1>4. World' /\ Lonely'
  BY <1>1, <1>2 DEF Inv, World, Linked, Issued, InOrder, Suspect, FilesAreAccepted, BothExist, Lonely, Alone
<1>5. ASSUME NEW u \in Tasks PROVE Duty(task[u])'
  <2>1. PICK k \in Task : k = task[u]
    BY DEF Inv, TypeOK
  <2>2. Duty(k) /\ task'[u] = k
    BY <1>1, <2>1 DEF Inv
  <2>3. Provisioned(k)' /\ Untrusted(k)' /\ Dropping(k)'
    BY <1>1, <1>2, <2>2 DEF Duty, Provisioned, Untrusted, Dropping, Accepts, ToRevoke, BothExist
  <2>4. Sought(k)'
    <3>1. \A kind : Present(kind)' <=> Present(kind)
      BY <1>1, <1>2 DEF Present
    <3> QED
      BY <1>1, <1>2, <2>2, <3>1 DEF Duty, Sought, ToRevoke
  <2>5. Duty(k)'
    BY <2>2, <2>3, <2>4 DEF Duty
  <2> QED
    BY <2>2, <2>5 DEF Duty, Planned, Untrusted, Provisioned, Dropping, Sought, AtOne, Ahead, Accepts, ToRevoke
<1> QED
  BY <1>3, <1>4, <1>5 DEF Inv

\* The task that begins.
Newly(t, kind, todo) ==
    [Idle EXCEPT !.kind = kind, !.phase = "run", !.todo = todo,
                 !.knew = record, !.undisturbed = Alone(t)]

LEMMA Begun ==
    ASSUME Inv, NEW t \in Tasks, NEW kind \in {"deploy", "drop", "prune"}, NEW todo \in Seq(ToSteps),
           Chained(todo), Range(todo) \subseteq StepsOf(kind),
           todo # <<>> => Head(todo) \notin Ordered \/ Head(todo) = "look",
           Begin(t, kind, todo),
           NEW n, n = Newly(t, kind, todo)
    PROVE  /\ Quiet(n) /\ n.kind = kind /\ n.todo = todo /\ n.knew = record
           /\ n.undisturbed <=> Alone(t)
           /\ task[t].phase = "idle" /\ requests' \in 0..MaxRequests
           /\ task' = [u \in Tasks |-> IF u # t THEN Disturbed(u) ELSE n]
<1>1. Alone(t) \in BOOLEAN /\ record \in BOOLEAN
  BY DEF Alone, Inv, TypeOK
<1>2. /\ n \in Task /\ n.kind = kind /\ n.todo = todo /\ n.knew = record /\ n.phase = "run"
      /\ n.undisturbed = Alone(t)
  <2>1. Idle \in Task
    BY IdleQuiet
  <2> QED
    BY <1>1, <2>1 DEF Task, Idle, Newly
<1>3. /\ AtOne(n, Ordered) => Head(n.todo) = "look" /\ n.made = {}
      /\ ~AtOne(n, WithRoleId)
  <2>1. WithRoleId \subseteq Ordered \ {"look"}
    BY StepNames DEF WithRoleId, Deployed, Ordered
  <2>2. n.made = {}
    BY DEF Newly, Idle
  <2> QED
    BY <1>2, <2>1, <2>2 DEF AtOne
<1>4. Planned(n)
  BY <1>2, <1>3 DEF Planned
<1>5. requests' \in 0..MaxRequests
  BY ProvisioningAssumption DEF Begin, Inv, TypeOK
<1>6. task[t].phase = "idle" /\ task' = [u \in Tasks |-> IF u # t THEN Disturbed(u) ELSE n]
  BY DEF Begin, Newly
<1> QED
  BY <1>1, <1>2, <1>3, <1>4, <1>5, <1>6 DEF Quiet

LEMMA PushImageKeeps ==
    ASSUME Inv, NEW t \in Tasks, PushImage(t)
    PROVE  Inv'
<1>0. PICK todo : todo = IF record THEN <<"look">> ELSE <<>>
  OBVIOUS
<1>1. /\ Begin(t, "deploy", todo) /\ host' = host \cup {"repository"}
      /\ UNCHANGED <<record, openbao, disk, agent, revoked, faults>>
  BY <1>0 DEF PushImage
<1>2. /\ todo \in Seq(ToSteps) /\ Chained(todo) /\ Range(todo) \subseteq StepsOf("deploy")
      /\ todo # <<>> => Head(todo) = "look"
  <2>1. "look" \in ToSteps /\ "look" \in StepsOf("deploy")
    BY FreeSteps DEF StepsOf, DeploySteps
  <2> QED
    BY <1>0, <2>1, ShortPlans
<1>3. PICK n : n = Newly(t, "deploy", todo)
  OBVIOUS
<1>4. /\ Quiet(n) /\ n.kind = "deploy" /\ (n.undisturbed <=> Alone(t)) /\ task[t].phase = "idle"
      /\ requests' \in 0..MaxRequests
      /\ task' = [u \in Tasks |-> IF u # t THEN Disturbed(u) ELSE n]
  BY <1>1, <1>2, <1>3, Begun
<1>5. task' \in [Tasks -> Task] /\ Lonely' /\ \A u \in Tasks : Duty(task[u])'
  <2>1. Dropping(n)' /\ Sought(n)'
    BY <1>4 DEF Dropping, Sought
  <2>2. UNCHANGED <<disk, revoked>>
    BY <1>1
  <2> QED
    BY <1>4, <2>1, <2>2, Begins
<1>6. UNCHANGED <<record, policy, role, live, mount, file, below, agent, revoked, faults>>
  BY <1>1 DEF openbao, disk
<1>7. TypeOK'
  BY <1>1, <1>4, <1>5, <1>6 DEF Inv, TypeOK
<1>8. World'
  BY <1>1, <1>6 DEF Inv, World, Linked, Issued, InOrder, Suspect, FilesAreAccepted, BothExist
<1> QED
  BY <1>5, <1>7, <1>8 DEF Inv

LEMMA DropSeedlingKeeps ==
    ASSUME Inv, NEW t \in Tasks, DropSeedling(t)
    PROVE  Inv'
<1>0. PICK todo : todo = (IF record THEN revoke ELSE <<>>) \o <<"discover_drop">>
  OBVIOUS
<1>1. Begin(t, "drop", todo) /\ UNCHANGED <<record, openbao, disk, docker, revoked, faults>>
  BY <1>0 DEF DropSeedling
<1>2. /\ todo \in Seq(ToSteps) /\ Chained(todo) /\ Range(todo) \subseteq StepsOf("drop")
      /\ todo # <<>> => Head(todo) \notin Ordered
      /\ record => {"delete_auth", "delete_policy", "discover_drop"} \subseteq Range(todo)
  <2>1. /\ "discover_drop" \in ToSteps /\ {"discover_drop", "delete_auth"} \cap Ordered = {}
        /\ {"delete_auth", "delete_policy", "discover_drop"} \subseteq StepsOf("drop")
    BY FreeSteps, StepNames DEF Free, StepsOf, DropSteps, Ordered
  <2>2. CASE record
    <3>1. todo = revoke \o <<"discover_drop">>
      BY <1>0, <2>2
    <3> QED
      BY <2>1, <2>2, <3>1, DropRequest
  <2>3. CASE ~record
    <3>1. todo = <<"discover_drop">>
      BY <1>0, <2>3, DropRequest
    <3> QED
      BY <2>1, <2>3, <3>1, ShortPlans
  <2> QED
    BY <2>2, <2>3
<1>3. PICK n : n = Newly(t, "drop", todo)
  OBVIOUS
<1>4. /\ Quiet(n) /\ n.kind = "drop" /\ n.todo = todo /\ n.knew = record
      /\ (n.undisturbed <=> Alone(t)) /\ task[t].phase = "idle"
      /\ requests' \in 0..MaxRequests
      /\ task' = [u \in Tasks |-> IF u # t THEN Disturbed(u) ELSE n]
  BY <1>1, <1>2, <1>3, Begun
<1>5. Dropping(n)' /\ Sought(n)'
  <2>1. n.knew => Ahead(n, "delete_auth") /\ Ahead(n, "delete_policy") /\ Ahead(n, "discover_drop")
    BY <1>2, <1>4 DEF Ahead
  <2> QED
    BY <1>4, <2>1 DEF Dropping, Sought, ToRevoke
<1>6. task' \in [Tasks -> Task] /\ Lonely' /\ \A u \in Tasks : Duty(task[u])'
  BY <1>1, <1>4, <1>5, Begins
<1> QED
  BY <1>1, <1>4, <1>6, SameWorld DEF Inv, TypeOK

LEMMA PruneDeadwoodKeeps ==
    ASSUME Inv, NEW t \in Tasks, PruneDeadwood(t)
    PROVE  Inv'
<1>0. PICK todo : todo = <<"list">> \o Kinds \o <<"confirm">>
  OBVIOUS
<1>1. Begin(t, "prune", todo) /\ UNCHANGED <<record, openbao, disk, docker, revoked, faults>>
  BY <1>0 DEF PruneDeadwood
<1>2. /\ todo \in Seq(ToSteps) /\ Chained(todo) /\ Range(todo) \subseteq StepsOf("prune")
      /\ todo # <<>> => Head(todo) \notin Ordered
      /\ Range(todo) = Range(Kinds) \cup {"list", "confirm"}
  <2>1. "list" \notin Ordered /\ Range(Kinds) \cup {"list", "confirm"} \subseteq StepsOf("prune")
    BY FreeSteps DEF Free, StepsOf, PruneSteps
  <2> QED
    BY <1>0, <2>1, PruneRequest
<1>3. PICK n : n = Newly(t, "prune", todo)
  OBVIOUS
<1>4. /\ Quiet(n) /\ n.kind = "prune" /\ n.todo = todo /\ n.knew = record
      /\ (n.undisturbed <=> Alone(t)) /\ task[t].phase = "idle"
      /\ requests' \in 0..MaxRequests
      /\ task' = [u \in Tasks |-> IF u # t THEN Disturbed(u) ELSE n]
  BY <1>1, <1>2, <1>3, Begun
<1>5. Dropping(n)' /\ Sought(n)'
  <2>1. Ahead(n, "list") /\ Ahead(n, "confirm") /\ \A kind \in Range(Kinds) : Ahead(n, kind)
    BY <1>2, <1>4 DEF Ahead
  <2> QED
    BY <1>1, <1>4, <2>1 DEF Dropping, Sought
<1>6. task' \in [Tasks -> Task] /\ Lonely' /\ \A u \in Tasks : Duty(task[u])'
  BY <1>1, <1>4, <1>5, Begins
<1> QED
  BY <1>1, <1>4, <1>6, SameWorld DEF Inv, TypeOK

-----------------------------------------------------------------------------
(* Deployments *)

\* A step of a deployment: what a drop or a prune relies on is not its business.
LEMMA DeployStep ==
    ASSUME Inv, NEW t \in Tasks, task[t].phase = "run", NEW n \in Task, n.kind = "deploy",
           task' = [task EXCEPT ![t] = n], n.undisturbed => task[t].undisturbed,
           Planned(n), Untrusted(n)', Provisioned(n)',
           ~task[t].undisturbed /\ (BothExist => revoked) => (BothExist => revoked)'
    PROVE  /\ task' \in [Tasks -> Task]
           /\ Lonely' /\ \A u \in Tasks : Duty(task[u])'
<1>1. Dropping(n)' /\ Sought(n)'
  BY DEF Dropping, Sought
<1> QED
  BY <1>1, TaskStep

\* What a task is that has done a step, and what it is about to do.
LEMMA Going ==
    ASSUME NEW k \in Task, k.phase = "run", NEW n, n = [k EXCEPT !.todo = Tail(@)], k.todo # <<>>
    PROVE  Onward(k, n) /\ n.creds = k.creds /\ n.made = k.made /\ n.listed = k.listed
           /\ n.knew = k.knew /\ n.found = k.found
<1>1. Tail(k.todo) \in Seq(ToSteps)
  BY TodoTyped, HeadTailProperties
<1> QED
  BY <1>1 DEF Onward, Task

\* A task that stays where it is.
LEMMA SamePlan ==
    ASSUME NEW k \in Task, Planned(k), NEW n \in Task, n.phase = k.phase, n.todo = k.todo,
           n.kind = k.kind, n.journal = k.journal, n.creds = k.creds,
           n.undisturbed = k.undisturbed, k.phase = "run"
    PROVE  Planned(n) /\ \A steps : AtOne(n, steps) <=> AtOne(k, steps)
BY DEF Planned, AtOne

\* Files that are not trusted, or not there, are not what World is about.
LEMMA UntrustedWorld ==
    ASSUME World, BothExist => revoked, UNCHANGED <<host, disk, revoked>>, Issued'
    PROVE  World'
BY DEF World, Linked, InOrder, Suspect, FilesAreAccepted, BothExist, disk

LEMMA LookKeeps ==
    ASSUME Inv, NEW t \in Tasks, Look(t)
    PROVE  Inv'
<1>1. At(t, "look") /\ UNCHANGED <<record, openbao, disk, docker, revoked, bounds>>
  BY DEF Look
<1>2. PICK k \in Task : /\ k = task[t] /\ Planned(k) /\ k.kind = "deploy" /\ k.phase = "run"
                        /\ k.todo # <<>> /\ Head(k.todo) = "look"
                        /\ (k.undisturbed => "secret" \notin k.made)
  BY <1>1, Acts DEF DeploySteps, Duty, Provisioned
<1>3. UNCHANGED <<file, revoked>> /\ (BothExist' <=> BothExist)
  BY <1>1 DEF disk, BothExist
<1>4. file \in [Credentials -> Ids \cup {NoId, Torn}]
  BY DEF Inv, TypeOK
<1>7. (BothExist => revoked) => (BothExist => revoked)'
  BY <1>3
<1>5. CASE BothExist
  <2>1. PICK n : n = [k EXCEPT !.todo = <<"discover">>, !.creds = file]
    OBVIOUS
  <2>2. task' = [task EXCEPT ![t] = n]
    BY <1>2, <1>5, <2>1 DEF Look, Becomes
  <2>3. "discover" \in ToSteps /\ "discover" \in StepsOf("deploy")
    BY DEF ToSteps, StepsOf, DeploySteps
  <2>4. /\ <<"discover">> \in Seq(ToSteps) /\ Chained(<<"discover">>) /\ Range(<<"discover">>) = {"discover"}
        /\ Head(<<"discover">>) = "discover" /\ <<"discover">> # <<>>
    BY <2>3, ShortPlans
  <2>5. /\ n \in Task /\ n.kind = "deploy" /\ n.phase = "run" /\ n.creds = file
        /\ n.made = k.made /\ n.todo = <<"discover">> /\ n.undisturbed = k.undisturbed
    BY <1>2, <1>4, <2>1, <2>4 DEF Task
  <2>6. \A steps : AtOne(n, steps) => "discover" \in steps
    BY <2>4, <2>5 DEF AtOne
  <2>7. Planned(n)
    <3>1. n.creds["role_id"] # NoId
      BY <1>5, <2>5 DEF BothExist, Credentials
    <3> QED
      BY <2>3, <2>4, <2>5, <3>1 DEF Planned
  <2>8. Untrusted(n)'
    BY <2>6, StepNames DEF Untrusted
  <2>9. Provisioned(n)'
    BY <1>2, <1>3, <1>5, <2>5, <2>6, StepNames DEF Provisioned, Deployed
  <2>10. task' \in [Tasks -> Task] /\ Lonely' /\ \A u \in Tasks : Duty(task[u])'
    BY <1>2, <1>7, <2>2, <2>5, <2>7, <2>8, <2>9, DeployStep
  <2> QED
    BY <1>1, <2>10, SameWorld, BoundsTyped DEF Inv
<1>6. CASE ~BothExist
  <2> DEFINE plan == provision \o <<"discover">>
  <2>1. PICK n : n = [k EXCEPT !.todo = plan]
    OBVIOUS
  <2>2. task' = [task EXCEPT ![t] = n]
    BY <1>2, <1>6, <2>1 DEF Look, Becomes
  <2>3. /\ plan \in Seq(ToSteps) /\ Chained(plan) /\ Range(plan) \subseteq StepsOf("deploy")
        /\ plan # <<>> /\ Head(plan) = "create_policy"
    BY ProvisionPlan DEF StepsOf, DeploySteps
  <2> HIDE DEF plan
  <2>5. /\ n \in Task /\ n.kind = "deploy" /\ n.phase = "run" /\ n.todo = plan
        /\ n.undisturbed = k.undisturbed
    BY <1>2, <2>1, <2>3 DEF Task
  <2>6. \A steps : AtOne(n, steps) => "create_policy" \in steps
    BY <2>3, <2>5 DEF AtOne
  <2>7. Planned(n)
    <3>1. ~AtOne(n, WithRoleId)
      BY <2>6 DEF WithRoleId, Deployed
    <3> QED
      BY <2>3, <2>5, <3>1 DEF Planned
  <2>8. Untrusted(n)'
    BY <1>3, <1>6 DEF Untrusted
  <2>9. Provisioned(n)'
    BY <1>3, <1>6, <2>5, <2>6, StepNames DEF Provisioned, Deployed
  <2>10. task' \in [Tasks -> Task] /\ Lonely' /\ \A u \in Tasks : Duty(task[u])'
    BY <1>2, <1>7, <2>2, <2>5, <2>7, <2>8, <2>9, DeployStep
  <2> QED
    BY <1>1, <2>10, SameWorld, BoundsTyped DEF Inv
<1> QED
  BY <1>5, <1>6

LEMMA CreatePolicyKeeps ==
    ASSUME Inv, NEW t \in Tasks, CreatePolicy(t)
    PROVE  Inv'
<1>1. /\ At(t, "create_policy") /\ policy' = TRUE
      /\ UNCHANGED <<record, role, live, disk, docker, revoked, bounds>>
  BY DEF CreatePolicy
<1>2. PICK k \in Task : /\ k = task[t] /\ Duty(k) /\ Planned(k) /\ k.kind = "deploy" /\ k.phase = "run"
                        /\ k.todo # <<>> /\ Head(k.todo) = "create_policy"
                        /\ \A steps : "create_policy" \in steps => AtOne(k, steps)
  BY <1>1, Acts, StepNames DEF DeploySteps
<1>3. PICK n : n = [k EXCEPT !.todo = Tail(@)]
  OBVIOUS
<1>4. Onward(k, n) /\ task' = [task EXCEPT ![t] = n]
  BY <1>2, <1>3, Going DEF CreatePolicy, Becomes, Goes
<1>5. (BothExist' <=> BothExist) /\ UNCHANGED <<mount, file, below, agent, host>>
  BY <1>1 DEF disk, docker, BothExist
<1>6. \A steps : AtOne(n, steps) => "create_auth" \in steps
  BY <1>2, <1>4, OnwardGoes DEF After
<1>7. Planned(n)
  BY <1>2, <1>4, <1>6, OnwardGoes DEF WithRoleId, Deployed
<1>8. BothExist => revoked
  BY <1>2, StepNames DEF Duty, Untrusted
<1>9. Untrusted(n)'
  BY <1>1, <1>5, <1>8 DEF Untrusted
<1>10. Provisioned(n)'
  <2>1. k.undisturbed => ~BothExist
    BY <1>2, StepNames DEF Duty, Provisioned
  <2> QED
    BY <1>1, <1>4, <1>5, <1>6, <2>1, StepNames DEF Provisioned, Onward, Deployed
<1>11. task' \in [Tasks -> Task] /\ Lonely' /\ \A u \in Tasks : Duty(task[u])'
  BY <1>1, <1>2, <1>4, <1>5, <1>7, <1>9, <1>10, DeployStep DEF Onward
<1>12. World'
  BY <1>1, <1>5, <1>8, UntrustedWorld DEF Inv, World, Issued
<1>13. TypeOK'
  BY <1>1, <1>5, <1>11, BoundsTyped DEF Inv, TypeOK
<1> QED
  BY <1>11, <1>12, <1>13 DEF Inv

LEMMA CreateAuthKeeps ==
    ASSUME Inv, NEW t \in Tasks, CreateAuth(t)
    PROVE  Inv'
<1>1. /\ At(t, "create_auth") /\ UNCHANGED <<record, policy, live, disk, docker, revoked, bounds>>
      /\ IF role # NoId THEN UNCHANGED role
         ELSE Unused("role_id") # {} /\ role' = Some(Unused("role_id"))
  BY DEF CreateAuth
<1>2. PICK k \in Task : /\ k = task[t] /\ Duty(k) /\ Planned(k) /\ k.kind = "deploy" /\ k.phase = "run"
                        /\ k.todo # <<>> /\ Head(k.todo) = "create_auth"
                        /\ \A steps : "create_auth" \in steps => AtOne(k, steps)
  BY <1>1, Acts, StepNames DEF DeploySteps
<1>3. PICK n : n = [k EXCEPT !.todo = Tail(@)]
  OBVIOUS
<1>4. Onward(k, n) /\ task' = [task EXCEPT ![t] = n]
  BY <1>2, <1>3, Going DEF CreateAuth, Becomes, Goes
<1>5. (BothExist' <=> BothExist) /\ UNCHANGED <<mount, file, below, agent, host>>
  BY <1>1 DEF disk, docker, BothExist
<1>6. \A steps : AtOne(n, steps) => "list_accessors" \in steps
  BY <1>2, <1>4, OnwardGoes DEF After
<1>7. Planned(n)
  BY <1>2, <1>4, <1>6, OnwardGoes DEF WithRoleId, Deployed
<1>8. BothExist => revoked
  BY <1>2, StepNames DEF Duty, Untrusted
<1>9. Untrusted(n)'
  BY <1>1, <1>5, <1>8 DEF Untrusted
<1>10. role' \in Ids \cup {NoId} /\ role' # NoId
  <2>1. role \in Ids \cup {NoId} /\ NoId \notin Ids
    BY DEF Inv, TypeOK, NoId, Ids
  <2>2. \A ids : ids # {} => Some(ids) \in ids
    BY DEF Some
  <2> QED
    BY <1>1, <2>1, <2>2 DEF Unused
<1>11. Provisioned(n)'
  <2>1. k.undisturbed => ~BothExist /\ policy
    BY <1>2, StepNames DEF Duty, Provisioned
  <2> QED
    BY <1>1, <1>4, <1>5, <1>6, <1>10, <2>1, StepNames DEF Provisioned, Onward, Deployed
<1>12. task' \in [Tasks -> Task] /\ Lonely' /\ \A u \in Tasks : Duty(task[u])'
  BY <1>1, <1>2, <1>4, <1>5, <1>7, <1>9, <1>11, DeployStep DEF Onward
<1>13. World'
  BY <1>1, <1>5, <1>8, <1>10, UntrustedWorld DEF Inv, Issued
<1>14. TypeOK'
  BY <1>1, <1>5, <1>10, <1>12, BoundsTyped DEF Inv, TypeOK
<1> QED
  BY <1>12, <1>13, <1>14 DEF Inv

LEMMA ListAccessorsKeeps ==
    ASSUME Inv, NEW t \in Tasks, ListAccessors(t)
    PROVE  Inv'
<1>1. At(t, "list_accessors") /\ UNCHANGED <<record, openbao, disk, docker, revoked, bounds>>
  BY DEF ListAccessors
<1>2. PICK k \in Task : /\ k = task[t] /\ Duty(k) /\ Planned(k) /\ k.kind = "deploy" /\ k.phase = "run"
                        /\ k.todo # <<>> /\ Head(k.todo) = "list_accessors"
                        /\ \A steps : "list_accessors" \in steps => AtOne(k, steps)
  BY <1>1, Acts, StepNames DEF DeploySteps
<1>3. PICK n : n = [[k EXCEPT !.todo = Tail(@)] EXCEPT !.listed = live]
  OBVIOUS
<1>4. Onward(k, n) /\ n.listed = live /\ task' = [task EXCEPT ![t] = n]
  <2>1. live \subseteq Ids
    BY DEF Inv, TypeOK
  <2>2. PICK g \in Task : g = [k EXCEPT !.todo = Tail(@)] /\ Onward(k, g)
    BY <1>2, Going DEF Onward
  <2>3. n = [g EXCEPT !.listed = live]
    BY <1>3, <2>2
  <2>4. Onward(k, n) /\ n.listed = live
    BY <2>1, <2>2, <2>3 DEF Onward, Task
  <2> QED
    BY <1>2, <1>3, <2>4 DEF ListAccessors, Becomes, Goes, Accessors
<1>5. (BothExist' <=> BothExist) /\ UNCHANGED <<policy, role, live>>
  BY <1>1 DEF disk, openbao, BothExist
<1>6. \A steps : AtOne(n, steps) => "destroy_accessors" \in steps
  BY <1>2, <1>4, OnwardGoes DEF After
<1>7. Planned(n)
  BY <1>2, <1>4, <1>6, OnwardGoes DEF WithRoleId, Deployed
<1>8. Untrusted(n)'
  BY <1>1, <1>2, <1>5, StepNames DEF Duty, Untrusted
<1>9. Provisioned(n)'
  <2>1. k.undisturbed => ~BothExist /\ policy /\ role # NoId
    BY <1>2, StepNames DEF Duty, Provisioned
  <2> QED
    BY <1>4, <1>5, <1>6, <2>1, StepNames DEF Provisioned, Onward, Deployed
<1>10. task' \in [Tasks -> Task] /\ Lonely' /\ \A u \in Tasks : Duty(task[u])'
  BY <1>1, <1>2, <1>4, <1>5, <1>7, <1>8, <1>9, DeployStep DEF Onward
<1> QED
  BY <1>1, <1>10, SameWorld, BoundsTyped DEF Inv

\* One accessor after the other: what is listed and what is live shrink together.
LEMMA DestroyAccessorKeeps ==
    ASSUME Inv, NEW t \in Tasks, DestroyAccessor(t)
    PROVE  Inv'
<1>1. At(t, "destroy_accessors") /\ UNCHANGED <<record, policy, role, disk, docker, revoked, bounds>>
  BY DEF DestroyAccessor
<1>2. PICK k \in Task : /\ k = task[t] /\ Duty(k) /\ Planned(k) /\ k.kind = "deploy" /\ k.phase = "run"
                        /\ k.todo # <<>> /\ Head(k.todo) = "destroy_accessors"
                        /\ \A steps : "destroy_accessors" \in steps => AtOne(k, steps)
  BY <1>1, Acts, StepNames DEF DeploySteps
<1>3. (BothExist' <=> BothExist) /\ UNCHANGED <<mount, file, below, agent, host>>
  BY <1>1 DEF disk, docker, BothExist
<1>4. BothExist => revoked
  BY <1>2, StepNames DEF Duty, Untrusted
<1>5. k.undisturbed => ~BothExist /\ policy /\ role # NoId /\ k.listed = live
  BY <1>2, StepNames DEF Duty, Provisioned
<1>6. /\ live' \subseteq live
      /\ task' \in [Tasks -> Task] /\ Lonely' /\ \A u \in Tasks : Duty(task[u])'
  <2>1. CASE k.listed = {}
    <3>1. PICK n : n = [k EXCEPT !.todo = Tail(@)]
      OBVIOUS
    <3>2. Onward(k, n) /\ task' = [task EXCEPT ![t] = n] /\ live' = live
      BY <1>2, <2>1, <3>1, Going DEF DestroyAccessor, Becomes, Goes
    <3>3. \A steps : AtOne(n, steps) => "get_role_id" \in steps
      BY <1>2, <3>2, OnwardGoes DEF After
    <3>4. Planned(n)
      BY <1>2, <3>2, <3>3, OnwardGoes DEF WithRoleId, Deployed
    <3>5. Untrusted(n)'
      BY <1>1, <1>3, <1>4 DEF Untrusted
    <3>6. Provisioned(n)'
      BY <1>1, <1>3, <1>5, <2>1, <3>2, <3>3, StepNames DEF Provisioned, Onward, Deployed
    <3> QED
      BY <1>1, <1>2, <1>3, <3>2, <3>4, <3>5, <3>6, DeployStep DEF Onward
  <2>2. CASE k.listed # {}
    <3>1. PICK next : next = Some(k.listed)
      OBVIOUS
    <3>2. /\ live' = live \ {next}
          /\ Becomes(t, IF next \in live THEN [k EXCEPT !.listed = @ \ {next}] ELSE FailedTask(t))
      BY <1>2, <2>2, <3>1 DEF DestroyAccessor
    <3>3. CASE next \in live
      <4>1. PICK n : n = [k EXCEPT !.listed = @ \ {next}]
        OBVIOUS
      <4>2. task' = [task EXCEPT ![t] = n]
        BY <3>2, <3>3, <4>1 DEF Becomes
      <4>3. /\ n \in Task /\ n.phase = "run" /\ n.todo = k.todo /\ n.kind = "deploy"
            /\ n.journal = k.journal /\ n.creds = k.creds /\ n.undisturbed = k.undisturbed
            /\ n.listed = k.listed \ {next}
        BY <1>2, <4>1 DEF Task
      <4>4. Planned(n) /\ \A steps : AtOne(n, steps) <=> AtOne(k, steps)
        BY <1>2, <4>3, SamePlan
      <4>5. \A steps : AtOne(n, steps) => "destroy_accessors" \in steps
        BY <1>2, <4>3 DEF AtOne
      <4>6. Untrusted(n)'
        BY <1>1, <1>3, <1>4 DEF Untrusted
      <4>7. Provisioned(n)'
        BY <1>1, <1>3, <1>5, <3>2, <4>3, <4>5, StepNames DEF Provisioned, Deployed
      <4> QED
        BY <1>1, <1>2, <1>3, <3>2, <4>2, <4>3, <4>4, <4>6, <4>7, DeployStep
    <3>4. CASE next \notin live
      BY <1>1, <1>2, <1>3, <3>2, <3>4, Fails
    <3> QED
      BY <3>3, <3>4
  <2> QED
    BY <2>1, <2>2
<1>7. World'
  <2>1. Issued'
    BY <1>1, <1>6 DEF Inv, World, Issued
  <2> QED
    BY <1>1, <1>3, <1>4, <2>1, UntrustedWorld DEF Inv, docker
<1>8. TypeOK'
  BY <1>1, <1>3, <1>6, BoundsTyped DEF Inv, TypeOK
<1> QED
  BY <1>6, <1>7, <1>8 DEF Inv

LEMMA GetRoleIdKeeps ==
    ASSUME Inv, NEW t \in Tasks, GetRoleId(t)
    PROVE  Inv'
<1>1. At(t, "get_role_id") /\ UNCHANGED <<record, openbao, disk, docker, revoked, bounds>>
  BY DEF GetRoleId
<1>2. PICK k \in Task : /\ k = task[t] /\ Duty(k) /\ Planned(k) /\ k.kind = "deploy" /\ k.phase = "run"
                        /\ k.todo # <<>> /\ Head(k.todo) = "get_role_id"
                        /\ \A steps : "get_role_id" \in steps => AtOne(k, steps)
  BY <1>1, Acts, StepNames DEF DeploySteps
<1>3. (BothExist' <=> BothExist) /\ UNCHANGED <<policy, role, live>>
  BY <1>1 DEF disk, openbao, BothExist
<1>4. task' \in [Tasks -> Task] /\ Lonely' /\ \A u \in Tasks : Duty(task[u])'
  <2>1. CASE role = NoId
    BY <1>1, <1>2, <1>3, <2>1, Fails DEF GetRoleId
  <2>2. CASE role # NoId
    <3>1. PICK g \in Task : g = [k EXCEPT !.todo = Tail(@)] /\ Onward(k, g)
      BY <1>2, Going DEF Onward
    <3>2. PICK n : n = [g EXCEPT !.creds["role_id"] = role]
      OBVIOUS
    <3>3. task' = [task EXCEPT ![t] = n]
      BY <1>2, <2>2, <3>1, <3>2 DEF GetRoleId, Becomes, Goes
    <3>4. Onward(k, n) /\ n.creds["role_id"] = role
      <4>1. role \in Ids
        BY <2>2 DEF Inv, TypeOK
      <4>2. [g.creds EXCEPT !["role_id"] = role] \in [Credentials -> Ids \cup {NoId, Torn}]
        BY <4>1, TodoTyped DEF Credentials
      <4>3. [g.creds EXCEPT !["role_id"] = role]["role_id"] = role
        BY TodoTyped DEF Credentials
      <4>4. n = [g EXCEPT !.creds = [g.creds EXCEPT !["role_id"] = role]]
        BY <3>2
      <4> QED
        BY <3>1, <4>2, <4>3, <4>4 DEF Onward, Task
    <3>5. \A steps : AtOne(n, steps) => "create_auth_secret" \in steps
      BY <1>2, <3>4, OnwardGoes DEF After
    <3>6. Planned(n)
      BY <1>2, <2>2, <3>4, OnwardGoes
    <3>7. Untrusted(n)'
      BY <1>1, <1>2, <1>3, StepNames DEF Duty, Untrusted
    <3>8. Provisioned(n)'
      <4>1. k.undisturbed => ~BothExist /\ policy /\ role # NoId /\ live = {}
        BY <1>2, StepNames DEF Duty, Provisioned
      <4> QED
        BY <1>3, <3>4, <3>5, <4>1, StepNames DEF Provisioned, Onward, Deployed
    <3> QED
      BY <1>1, <1>2, <1>3, <3>3, <3>4, <3>6, <3>7, <3>8, DeployStep DEF Onward
  <2> QED
    BY <2>1, <2>2
<1> QED
  BY <1>1, <1>4, SameWorld, BoundsTyped DEF Inv

\* The last step: what a deployment now holds is what OpenBao accepts.
LEMMA CreateAuthSecretKeeps ==
    ASSUME Inv, NEW t \in Tasks, CreateAuthSecret(t)
    PROVE  Inv'
<1>1. At(t, "create_auth_secret") /\ UNCHANGED <<record, policy, role, disk, docker, revoked, bounds>>
  BY DEF CreateAuthSecret
<1>2. PICK k \in Task : /\ k = task[t] /\ Duty(k) /\ Planned(k) /\ k.kind = "deploy" /\ k.phase = "run"
                        /\ k.todo # <<>> /\ Head(k.todo) = "create_auth_secret"
                        /\ \A steps : "create_auth_secret" \in steps => AtOne(k, steps)
  BY <1>1, Acts, StepNames DEF DeploySteps
<1>3. (BothExist' <=> BothExist) /\ UNCHANGED <<mount, file, below, agent, host>>
  BY <1>1 DEF disk, docker, BothExist
<1>4. BothExist => revoked
  BY <1>2, StepNames DEF Duty, Untrusted
<1>5. /\ live' \subseteq Ids /\ (live' # {} => role # NoId)
      /\ task' \in [Tasks -> Task] /\ Lonely' /\ \A u \in Tasks : Duty(task[u])'
  <2>1. CASE role = NoId
    <3>1. Becomes(t, FailedTask(t)) /\ live' = live
      BY <2>1 DEF CreateAuthSecret
    <3>2. live \subseteq Ids /\ Issued
      BY DEF Inv, TypeOK, World
    <3> QED
      BY <1>1, <1>2, <1>3, <3>1, <3>2, Fails DEF Issued
  <2>2. CASE role # NoId
    <3>1. PICK new : new = Some(Unused("secret_id"))
      OBVIOUS
    <3>2. PICK g \in Task : g = [k EXCEPT !.todo = Tail(@)] /\ Onward(k, g) /\ g.creds = k.creds
      BY <1>2, Going DEF Onward
    <3>3. PICK n : n = [g EXCEPT !.creds["secret_id"] = new, !.made = {"secret"}]
      OBVIOUS
    <3>4. /\ Unused("secret_id") # {} /\ live' = live \cup {new}
          /\ task' = [task EXCEPT ![t] = n]
      BY <1>2, <2>2, <3>1, <3>2, <3>3 DEF CreateAuthSecret, Becomes, Goes
    <3>5. new \in Ids /\ live \subseteq Ids
      <4>1. Some(Unused("secret_id")) \in Unused("secret_id")
        BY <3>4 DEF Some
      <4> QED
        BY <3>1, <4>1 DEF Unused, Inv, TypeOK
    <3>6. /\ Onward(k, n) /\ n.creds["secret_id"] = new /\ n.creds["role_id"] = k.creds["role_id"]
          /\ n.made = {"secret"}
      <4>1. PICK c : c = [g.creds EXCEPT !["secret_id"] = new]
        OBVIOUS
      <4>2. /\ c \in [Credentials -> Ids \cup {NoId, Torn}] /\ c["secret_id"] = new
            /\ c["role_id"] = g.creds["role_id"]
        BY <3>5, <4>1, TodoTyped DEF Credentials
      <4>3. n = [g EXCEPT !.creds = c, !.made = {"secret"}]
        BY <3>3, <4>1
      <4> QED
        BY <3>2, <4>2, <4>3 DEF Onward, Task
    <3>7. \A steps : AtOne(n, steps) => "discover" \in steps
      BY <1>2, <3>6, OnwardGoes DEF After
    <3>8. Planned(n)
      <4>1. k.creds["role_id"] # NoId
        BY <1>2, StepNames DEF Planned, WithRoleId, Deployed
      <4> QED
        BY <1>2, <3>6, <4>1, OnwardGoes
    <3>9. Untrusted(n)'
      BY <3>7, StepNames DEF Untrusted
    <3>10. Provisioned(n)'
      <4>1. k.undisturbed => ~BothExist /\ policy /\ live = {} /\ k.creds["role_id"] = role
        BY <1>2, StepNames DEF Duty, Provisioned
      <4>2. k.undisturbed => ~BothExist' /\ Accepts(n.creds)'
        BY <1>1, <1>3, <3>4, <3>6, <4>1 DEF Accepts
      <4> QED
        BY <3>6, <3>7, <4>2, StepNames DEF Provisioned, Onward, Deployed
    <3>11. task' \in [Tasks -> Task] /\ Lonely' /\ \A u \in Tasks : Duty(task[u])'
      BY <1>1, <1>2, <1>3, <3>4, <3>6, <3>8, <3>9, <3>10, DeployStep DEF Onward
    <3> QED
      BY <2>2, <3>4, <3>5, <3>11
  <2> QED
    BY <2>1, <2>2
<1>6. World'
  <2>1. Issued'
    BY <1>1, <1>5 DEF Issued
  <2> QED
    BY <1>1, <1>3, <1>4, <2>1, UntrustedWorld DEF Inv, docker
<1>7. TypeOK'
  BY <1>1, <1>3, <1>5, BoundsTyped DEF Inv, TypeOK
<1> QED
  BY <1>5, <1>6, <1>7 DEF Inv

\* What a task is that has run a command and journaled it.
LEMMA Journaled ==
    ASSUME NEW k \in Task, k.phase = "run", k.todo # <<>>, Planned(k),
           NEW n, n = [[k EXCEPT !.todo = Tail(@)] EXCEPT !.journal = Append(@, Head(k.todo))]
    PROVE  Onward(k, n) /\ n.creds = k.creds /\ n.made = k.made
<1>1. PICK g \in Task : /\ g = [k EXCEPT !.todo = Tail(@)] /\ Onward(k, g) /\ g.creds = k.creds
                        /\ g.made = k.made
  BY Going DEF Onward
<1>2. Append(g.journal, Head(k.todo)) \in Seq(ToSteps)
  <2>1. Head(k.todo) \in ToSteps
    BY TodoTyped, HeadTailProperties
  <2> QED
    BY <2>1, TodoTyped, AppendProperties
<1>3. n = [g EXCEPT !.journal = Append(g.journal, Head(k.todo))]
  BY <1>1
<1> QED
  BY <1>1, <1>2, <1>3 DEF Onward, Task

\* Containers, networks and routes are not what World says of files and OpenBao.
LEMMA DockerWorld ==
    ASSUME World, Linked', UNCHANGED <<openbao, disk, revoked>>
    PROVE  World'
BY DEF World, Issued, InOrder, Suspect, FilesAreAccepted, BothExist, openbao, disk

\* A step after which a deployment relies on nothing.
LEMMA DeployOn ==
    ASSUME Inv, NEW t \in Tasks, NEW k \in Task, k = task[t], Planned(k), k.phase = "run", k.todo # <<>>,
           k.kind = "deploy", Head(k.todo) \notin Ordering, NEW n, Onward(k, n),
           task' = [task EXCEPT ![t] = n],
           ~k.undisturbed /\ (BothExist => revoked) => (BothExist => revoked)'
    PROVE  /\ task' \in [Tasks -> Task]
           /\ Lonely' /\ \A u \in Tasks : Duty(task[u])'
<1>1. Quiet(n) /\ n \in Task /\ n.kind = "deploy" /\ n.undisturbed = k.undisturbed
  BY OnwardQuiet DEF Onward
<1>2. Planned(n) /\ Untrusted(n)' /\ Provisioned(n)'
  BY <1>1, QuietDuty
<1> QED
  BY <1>1, <1>2, DeployStep

\* What a deployment has: credentials that OpenBao accepts and no files, or files.
Has(k) ==
    IF "secret" \in k.made THEN Accepts(k.creds) /\ ~BothExist
    ELSE revoked \/ (file = k.creds /\ BothExist)

LEMMA DiscoverKeeps ==
    ASSUME Inv, NEW t \in Tasks, Discover(t)
    PROVE  Inv'
<1>1. At(t, "discover") /\ UNCHANGED <<record, openbao, disk, docker, revoked, bounds>>
  BY DEF Discover
<1>2. PICK k \in Task : /\ k = task[t] /\ Duty(k) /\ Planned(k) /\ k.kind = "deploy" /\ k.phase = "run"
                        /\ k.todo # <<>> /\ Head(k.todo) = "discover"
                        /\ \A steps : "discover" \in steps => AtOne(k, steps)
  BY <1>1, Acts, StepNames DEF DeploySteps, ReconcileSteps
<1>3. (BothExist' <=> BothExist) /\ UNCHANGED <<policy, role, live, mount, file, below, revoked>>
  BY <1>1 DEF disk, openbao, BothExist
<1>4. PICK plan : plan = Reconcile
  OBVIOUS
<1>5. /\ plan \in Seq(ToSteps) /\ Chained(plan) /\ Range(plan) \subseteq StepsOf("deploy")
      /\ plan # <<>> /\ Head(plan) \in {"CreateSeedling", "EnsureAgentMount"}
  BY <1>4, ReconcilePlanned DEF StepsOf, DeploySteps
<1>6. PICK n : n = [k EXCEPT !.todo = plan]
  OBVIOUS
<1>7. task' = [task EXCEPT ![t] = n]
  BY <1>2, <1>4, <1>6 DEF Discover, Becomes
<1>8. /\ n \in Task /\ n.kind = "deploy" /\ n.phase = "run" /\ n.todo = plan /\ n.creds = k.creds
      /\ n.undisturbed = k.undisturbed /\ n.made = k.made
  BY <1>2, <1>5, <1>6 DEF Task
<1>9. \A steps : AtOne(n, steps) => "CreateSeedling" \in steps \/ "EnsureAgentMount" \in steps
  BY <1>5, <1>8 DEF AtOne
<1>10. Planned(n)
  <2>1. k.creds["role_id"] # NoId
    BY <1>2 DEF Planned, WithRoleId, Deployed
  <2> QED
    BY <1>5, <1>8, <2>1 DEF Planned
<1>11. Untrusted(n)'
  BY <1>9, StepNames DEF Untrusted
<1>12. Provisioned(n)'
  <2>1. k.undisturbed => Has(k)
    BY <1>2 DEF Duty, Provisioned, Deployed, Has
  <2>2. Has(k) => Has(n)'
    BY <1>3, <1>8 DEF Has, Accepts
  <2> QED
    BY <1>3, <1>8, <1>9, <2>1, <2>2, StepNames DEF Provisioned, Has
<1>13. task' \in [Tasks -> Task] /\ Lonely' /\ \A u \in Tasks : Duty(task[u])'
  <2>1. (BothExist => revoked) => (BothExist => revoked)'
    BY <1>3
  <2> QED
    BY <1>2, <1>7, <1>8, <1>10, <1>11, <1>12, <2>1, DeployStep
<1> QED
  BY <1>1, <1>13, SameWorld, BoundsTyped DEF Inv

LEMMA CreateSeedlingKeeps ==
    ASSUME Inv, NEW t \in Tasks, CreateSeedling(t)
    PROVE  Inv'
<1>1. /\ At(t, "CreateSeedling") /\ record' = TRUE
      /\ UNCHANGED <<openbao, disk, docker, revoked, bounds>>
  BY DEF CreateSeedling
<1>2. PICK k \in Task : /\ k = task[t] /\ Duty(k) /\ Planned(k) /\ k.kind = "deploy" /\ k.phase = "run"
                        /\ k.todo # <<>> /\ Head(k.todo) = "CreateSeedling"
                        /\ \A steps : "CreateSeedling" \in steps => AtOne(k, steps)
  BY <1>1, Acts, StepNames DEF DeploySteps, ReconcileSteps
<1>3. /\ BothExist' <=> BothExist
      /\ UNCHANGED <<policy, role, live, mount, file, below, agent, host, revoked>>
  BY <1>1 DEF disk, openbao, docker, BothExist
<1>4. task' \in [Tasks -> Task] /\ Lonely' /\ \A u \in Tasks : Duty(task[u])'
  <2>1. CASE record
    BY <1>1, <1>2, <1>3, <2>1, Fails DEF CreateSeedling
  <2>2. CASE ~record
    <3>1. PICK n : n = [[k EXCEPT !.todo = Tail(@)] EXCEPT !.journal = Append(@, Head(k.todo))]
      OBVIOUS
    <3>2. task' = [task EXCEPT ![t] = n] /\ Onward(k, n) /\ n.creds = k.creds /\ n.made = k.made
      BY <1>2, <2>2, <3>1, Journaled DEF CreateSeedling, Becomes, Ran, Goes
    <3>3. \A steps : AtOne(n, steps) => "EnsureAgentMount" \in steps
      BY <1>2, <3>2, OnwardGoes DEF After
    <3>4. Planned(n)
      <4>1. k.creds["role_id"] # NoId
        BY <1>2 DEF Planned, WithRoleId, Deployed
      <4> QED
        BY <1>2, <3>2, <4>1, OnwardGoes
    <3>5. Untrusted(n)'
      BY <3>3, StepNames DEF Untrusted
    <3>6. Provisioned(n)'
      <4>1. k.undisturbed => Has(k)
        BY <1>2 DEF Duty, Provisioned, Deployed, Has
      <4>2. Has(k) => Has(n)'
        BY <1>3, <3>2 DEF Has, Accepts
      <4> QED
        BY <1>3, <3>2, <3>3, <4>1, <4>2, StepNames DEF Provisioned, Onward, Has
    <3> QED
      BY <1>2, <1>3, <3>2, <3>4, <3>5, <3>6, DeployStep DEF Onward
  <2> QED
    BY <2>1, <2>2
<1>5. World'
  BY <1>3 DEF Inv, World, Linked, Issued, InOrder, Suspect, FilesAreAccepted, BothExist
<1>6. TypeOK'
  BY <1>1, <1>3, <1>4, BoundsTyped DEF Inv, TypeOK
<1> QED
  BY <1>4, <1>5, <1>6 DEF Inv

\* What an undisturbed deployment goes on with has what it had: for any step that leaves
\* its credentials and does not show it other files.
LEMMA HasStill ==
    ASSUME NEW k, NEW n, n.creds = k.creds, "secret" \in n.made <=> "secret" \in k.made,
           UNCHANGED <<policy, role, live>>, Has(k),
           \/ UNCHANGED <<file, revoked>>
           \/ file' = NoFiles /\ UNCHANGED revoked /\ (file # NoFiles => revoked)
    PROVE  Has(n)'
<1>1. ~(\A f \in Credentials : NoFiles[f] # NoId)
  BY FilesTyped DEF Credentials
<1>2. ~BothExist => ~BothExist'
  BY <1>1 DEF BothExist
<1>3. Accepts(k.creds) => Accepts(n.creds)'
  BY DEF Accepts
<1>4. CASE "secret" \in k.made
  BY <1>2, <1>3, <1>4 DEF Has
<1>5. CASE "secret" \notin k.made
  <2>1. revoked \/ (file = k.creds /\ BothExist)
    BY <1>5 DEF Has
  <2>2. BothExist /\ UNCHANGED file => BothExist'
    BY DEF BothExist
  <2>3. file = NoFiles => ~BothExist
    BY <1>1 DEF BothExist
  <2> QED
    BY <1>5, <2>1, <2>2, <2>3 DEF Has
<1> QED
  BY <1>4, <1>5

\* What Provisioned says of a deployment that has its credentials.
LEMMA HasProvisioned ==
    ASSUME NEW k, k.undisturbed, Provisioned(k)
    PROVE  /\ AtOne(k, Deployed \ {"write_secret_id"}) => Has(k)
           /\ AtOne(k, Deployed) => \/ "secret" \in k.made /\ Accepts(k.creds)
                                    \/ "secret" \notin k.made /\ (revoked \/ (file = k.creds /\ BothExist))
BY DEF Provisioned, Has, AtOne

LEMMA EnsureAgentMountKeeps ==
    ASSUME Inv, NEW t \in Tasks, EnsureAgentMount(t)
    PROVE  Inv'
<1>1. /\ At(t, "EnsureAgentMount") /\ mount' = (IF mount = "none" THEN "folder" ELSE mount)
      /\ UNCHANGED <<record, openbao, file, below, docker, revoked, bounds>>
  BY DEF EnsureAgentMount
<1>2. PICK k \in Task : /\ k = task[t] /\ Duty(k) /\ Planned(k) /\ k.kind = "deploy" /\ k.phase = "run"
                        /\ k.todo # <<>> /\ Head(k.todo) = "EnsureAgentMount"
                        /\ \A steps : "EnsureAgentMount" \in steps => AtOne(k, steps)
  BY <1>1, Acts, StepNames DEF DeploySteps, ReconcileSteps
<1>3. UNCHANGED <<policy, role, live, agent, host>> /\ (BothExist' <=> BothExist)
  BY <1>1 DEF openbao, docker, BothExist
<1>4. PICK g \in Task : /\ g = [k EXCEPT !.todo = Tail(@)] /\ Onward(k, g) /\ g.creds = k.creds
                        /\ g.made = k.made
  BY <1>2, Going DEF Onward
<1>5. PICK n : n = [g EXCEPT !.made = @ \cup (IF mount = "none" THEN {"folder"} ELSE {})]
  OBVIOUS
<1>6. task' = [task EXCEPT ![t] = n]
  BY <1>2, <1>4, <1>5 DEF EnsureAgentMount, Becomes, Goes
<1>7. Onward(k, n) /\ n.creds = k.creds /\ ("secret" \in n.made <=> "secret" \in k.made)
  BY <1>4, <1>5 DEF Onward, Task
<1>8. \A steps : AtOne(n, steps) => "mount_ram_disk" \in steps
  BY <1>2, <1>7, OnwardGoes DEF After
<1>9. Planned(n)
  <2>1. k.creds["role_id"] # NoId
    BY <1>2 DEF Planned, WithRoleId, Deployed
  <2> QED
    BY <1>2, <1>7, <2>1, OnwardGoes
<1>10. Untrusted(n)'
  BY <1>8, StepNames DEF Untrusted
<1>11. Provisioned(n)'
  <2>1. k.undisturbed => Has(k)
    BY <1>2, HasProvisioned DEF Duty, Deployed
  <2>2. Has(k) => Has(n)'
    BY <1>1, <1>3, <1>7, HasStill
  <2> QED
    BY <1>7, <1>8, <2>1, <2>2, StepNames DEF Provisioned, Onward, Has
<1>12. task' \in [Tasks -> Task] /\ Lonely' /\ \A u \in Tasks : Duty(task[u])'
  BY <1>1, <1>2, <1>3, <1>6, <1>7, <1>9, <1>10, <1>11, DeployStep DEF Onward
<1>13. World'
  BY <1>1, <1>3 DEF Inv, TypeOK, World, Linked, Issued, InOrder, Suspect, FilesAreAccepted
<1>14. TypeOK'
  BY <1>1, <1>3, <1>12, BoundsTyped DEF Inv, TypeOK
<1> QED
  BY <1>12, <1>13, <1>14 DEF Inv

LEMMA MountRamDiskKeeps ==
    ASSUME Inv, NEW t \in Tasks, MountRamDisk(t)
    PROVE  Inv'
<1>1. At(t, "mount_ram_disk") /\ UNCHANGED <<record, openbao, docker, revoked, bounds>>
  BY DEF MountRamDisk
<1>2. PICK k \in Task : /\ k = task[t] /\ Duty(k) /\ Planned(k) /\ k.kind = "deploy" /\ k.phase = "run"
                        /\ k.todo # <<>> /\ Head(k.todo) = "mount_ram_disk"
                        /\ \A steps : "mount_ram_disk" \in steps => AtOne(k, steps)
  BY <1>1, Acts, StepNames DEF DeploySteps, ReconcileSteps
<1>3. UNCHANGED <<policy, role, live, agent, host>>
  BY <1>1 DEF openbao, docker
<1>4. /\ file \in [Credentials -> Ids \cup {NoId, Torn}] /\ below \in [Credentials -> Ids \cup {NoId, Torn}]
      /\ mount \in {"none", "folder", "ramdisk"} /\ Suspect
  BY DEF Inv, TypeOK, World
<1>5. CASE mount = "none"
  <2>1. UNCHANGED disk /\ Becomes(t, FailedTask(t))
    BY <1>5 DEF MountRamDisk, NeedsRamDisk
  <2>2. (BothExist => revoked) => (BothExist => revoked)'
    BY <1>1, <2>1 DEF disk, BothExist
  <2>3. task' \in [Tasks -> Task] /\ Lonely' /\ \A u \in Tasks : Duty(task[u])'
    BY <1>2, <2>1, <2>2, Fails
  <2> QED
    BY <1>1, <2>1, <2>3, SameWorld, BoundsTyped DEF Inv
<1>6. CASE mount # "none"
  <2>1. PICK g \in Task : /\ g = [k EXCEPT !.todo = Tail(@)] /\ Onward(k, g) /\ g.creds = k.creds
                          /\ g.made = k.made
    BY <1>2, Going DEF Onward
  <2>2. PICK n : n = IF mount = "folder" THEN [g EXCEPT !.made = @ \cup {"ramdisk"}] ELSE g
    OBVIOUS
  <2>3. /\ task' = [task EXCEPT ![t] = n] /\ mount' = "ramdisk"
        /\ IF mount = "folder" THEN file' = NoFiles /\ below' = file ELSE UNCHANGED <<file, below>>
    BY <1>2, <1>4, <1>6, <2>1, <2>2 DEF MountRamDisk, NeedsRamDisk, Becomes, Goes, disk
  <2>4. Onward(k, n) /\ n.creds = k.creds /\ ("secret" \in n.made <=> "secret" \in k.made)
    <3>1. CASE mount = "folder"
      BY <2>1, <2>2, <3>1 DEF Onward, Task
    <3>2. CASE mount # "folder"
      BY <2>1, <2>2, <3>2
    <3> QED
      BY <3>1, <3>2
  <2>5. \A steps : AtOne(n, steps) => "write_role_id" \in steps
    BY <1>2, <2>4, OnwardGoes DEF After
  <2>6. Planned(n)
    <3>1. k.creds["role_id"] # NoId
      BY <1>2 DEF Planned, WithRoleId, Deployed
    <3> QED
      BY <1>2, <2>4, <3>1, OnwardGoes
  <2>7. Untrusted(n)'
    BY <2>5, StepNames DEF Untrusted
  <2>8. file # NoFiles /\ mount = "folder" => revoked
    BY <1>4 DEF Suspect
  <2>9. Provisioned(n)'
    <3>1. k.undisturbed => Has(k)
      BY <1>2, HasProvisioned DEF Duty, Deployed
    <3>2. Has(k) => Has(n)'
      BY <1>1, <1>3, <2>3, <2>4, <2>8, HasStill
    <3> QED
      BY <2>3, <2>4, <2>5, <3>1, <3>2, StepNames DEF Provisioned, Onward, Has
  <2>10. ~(\A f \in Credentials : NoFiles[f] # NoId) /\ NoFiles["secret_id"] = NoId
    BY FilesTyped DEF Credentials
  <2>11. (BothExist => revoked) => (BothExist => revoked)'
    BY <1>1, <2>3, <2>10 DEF BothExist
  <2>12. task' \in [Tasks -> Task] /\ Lonely' /\ \A u \in Tasks : Duty(task[u])'
    BY <1>2, <2>3, <2>4, <2>6, <2>7, <2>9, <2>11, DeployStep DEF Onward
  <2>13. World'
    BY <1>1, <1>3, <2>3, <2>10 DEF Inv, World, Linked, Issued, InOrder, Suspect, FilesAreAccepted, BothExist
  <2>14. TypeOK'
    <3>1. {file', below'} \subseteq [Credentials -> Ids \cup {NoId, Torn}]
      BY <1>4, <2>3, FilesTyped
    <3> QED
      BY <1>1, <1>3, <2>3, <2>12, <3>1, BoundsTyped DEF Inv, TypeOK
  <2> QED
    BY <2>12, <2>13, <2>14 DEF Inv
<1> QED
  BY <1>5, <1>6

\* What a write may leave, of files that only an undisturbed deployment may leave trusted.
Written == revoked' \/ /\ mount = "ramdisk" /\ file'["role_id"] # NoId
                       /\ \/ \E f \in Credentials : file'[f] = Torn
                          \/ file'["secret_id"] = NoId
                          \/ Accepts(file')

LEMMA WritesKeep ==
    ASSUME Inv, NEW t \in Tasks, task' \in [Tasks -> Task], Lonely', \A u \in Tasks : Duty(task[u])',
           file' \in [Credentials -> Ids \cup {NoId, Torn}], mount # "none", revoked' \in BOOLEAN,
           UNCHANGED <<record, openbao, mount, below, docker>>, Written,
           requests' \in 0..MaxRequests, faults' \in 0..MaxFaults
    PROVE  Inv'
<1>1. UNCHANGED <<policy, role, live, agent, host>>
  BY DEF openbao, docker
<1>2. TypeOK'
  BY <1>1 DEF Inv, TypeOK
<1>5. Linked' /\ Issued'
  BY <1>1 DEF Inv, World, Linked, Issued
<1>3. CASE revoked'
  <2>1. InOrder' /\ Suspect' /\ FilesAreAccepted'
    BY <1>3 DEF InOrder, Suspect, FilesAreAccepted
  <2> QED
    BY <1>2, <1>5, <2>1 DEF Inv, World
<1>4. CASE ~revoked'
  <2>1. /\ mount = "ramdisk" /\ file'["role_id"] # NoId
        /\ \/ \E f \in Credentials : file'[f] = Torn
           \/ file'["secret_id"] = NoId
           \/ Accepts(file')
    BY <1>4 DEF Written
  <2>2. file'["secret_id"] = NoId => ~BothExist'
    BY DEF BothExist, Credentials
  <2>3. FilesAreAccepted'
    BY <1>1, <2>1, <2>2 DEF FilesAreAccepted, Accepts
  <2>4. InOrder' /\ Suspect'
    <3>1. mount' = "ramdisk"
      BY <2>1
    <3> QED
      BY <2>1, <3>1 DEF InOrder, Suspect
  <2> QED
    BY <1>2, <1>5, <2>3, <2>4 DEF Inv, World
<1> QED
  BY <1>2, <1>3, <1>4 DEF Inv

\* The role id that an undisturbed deployment writes completes no files of others.
LEMMA RoleWritten ==
    ASSUME Inv, NEW k \in Task, Duty(k), Planned(k), AtOne(k, {"write_role_id"}), k.undisturbed, ~revoked,
           NEW id, id = k.creds["role_id"] \/ id = Torn, file' = [file EXCEPT !["role_id"] = id]
    PROVE  Written
<1>1. /\ file \in [Credentials -> Ids \cup {NoId, Torn}] /\ mount = "ramdisk"
      /\ AtOne(k, Deployed) /\ AtOne(k, Deployed \ {"write_secret_id"}) /\ AtOne(k, WithRoleId)
  BY DEF Inv, TypeOK, Duty, Provisioned, AtOne, Deployed, WithRoleId
<1>2. k.creds["role_id"] # NoId /\ Torn # NoId
  BY <1>1, ProvisioningAssumption DEF Planned, Torn, NoId
<1>3. file'["role_id"] = id /\ file'["secret_id"] = file["secret_id"]
  BY <1>1 DEF Credentials
<1>4. Has(k)
  BY <1>1, HasProvisioned DEF Duty
<1>5. CASE "secret" \in k.made
  <2>1. ~BothExist /\ (file["secret_id"] # NoId => file["role_id"] # NoId)
    BY <1>4, <1>5 DEF Has, Inv, World, InOrder
  <2>2. file["secret_id"] = NoId
    BY <2>1 DEF BothExist, Credentials
  <2> QED
    BY <1>1, <1>2, <1>3, <2>2 DEF Written
<1>6. CASE "secret" \notin k.made
  <2>1. file = k.creds /\ BothExist
    BY <1>4, <1>6 DEF Has
  <2>2. CASE id = Torn
    BY <1>1, <1>2, <1>3, <2>2 DEF Written, Credentials
  <2>3. CASE id = k.creds["role_id"]
    <3>1. file' = file
      BY <1>1, <2>1, <2>3 DEF Credentials
    <3>2. (\E f \in Credentials : file[f] = Torn) \/ Accepts(file)
      BY <2>1 DEF Inv, World, FilesAreAccepted, Accepts
    <3>3. Accepts(file) => Accepts(file')
      BY <3>1
    <3> QED
      BY <1>1, <1>2, <1>3, <2>3, <3>1, <3>2, <3>3 DEF Written
  <2> QED
    BY <2>2, <2>3
<1> QED
  BY <1>5, <1>6

LEMMA WriteRoleIdKeeps ==
    ASSUME Inv, NEW t \in Tasks, WriteRoleId(t)
    PROVE  Inv'
<1>1. /\ At(t, "write_role_id") /\ revoked' = (revoked \/ ~task[t].undisturbed)
      /\ UNCHANGED <<record, openbao, mount, below, docker, bounds>>
  BY DEF WriteRoleId
<1>2. PICK k \in Task : /\ k = task[t] /\ Duty(k) /\ Planned(k) /\ k.kind = "deploy" /\ k.phase = "run"
                        /\ k.todo # <<>> /\ Head(k.todo) = "write_role_id"
                        /\ \A steps : "write_role_id" \in steps => AtOne(k, steps)
  BY <1>1, Acts, StepNames DEF DeploySteps, ReconcileSteps
<1>3. UNCHANGED <<policy, role, live, agent, host>>
  BY <1>1 DEF openbao, docker
<1>4. /\ file \in [Credentials -> Ids \cup {NoId, Torn}] /\ k.creds \in [Credentials -> Ids \cup {NoId, Torn}]
      /\ revoked \in BOOLEAN /\ k.undisturbed \in BOOLEAN
  BY TodoTyped DEF Inv, TypeOK
<1>5. revoked' \in BOOLEAN /\ (~k.undisturbed => revoked') /\ (k.undisturbed => (revoked' <=> revoked))
  BY <1>1, <1>2, <1>4
<1>6. CASE mount = "none"
  <2>1. UNCHANGED file /\ Becomes(t, FailedTask(t))
    BY <1>6 DEF WriteRoleId, Writable
  <2>2. ~k.undisturbed /\ (BothExist => revoked) => (BothExist => revoked)'
    BY <1>5
  <2>3. task' \in [Tasks -> Task] /\ Lonely' /\ \A u \in Tasks : Duty(task[u])'
    BY <1>2, <2>1, <2>2, Fails
  <2>4. World'
    BY <1>1, <1>3, <1>4, <1>5, <2>1
       DEF Inv, World, Linked, Issued, InOrder, Suspect, FilesAreAccepted, BothExist
  <2>5. TypeOK'
    BY <1>1, <1>3, <1>5, <2>1, <2>3, BoundsTyped DEF Inv, TypeOK
  <2> QED
    BY <2>3, <2>4, <2>5 DEF Inv
<1>7. CASE mount # "none"
  <2>1. PICK n : n = [k EXCEPT !.todo = Tail(@)]
    OBVIOUS
  <2>2. /\ task' = [task EXCEPT ![t] = n] /\ file' = [file EXCEPT !["role_id"] = k.creds["role_id"]]
        /\ Onward(k, n) /\ n.creds = k.creds /\ n.made = k.made
    BY <1>2, <1>7, <2>1, Going DEF WriteRoleId, Writable, Becomes, Goes
  <2>3. /\ file' \in [Credentials -> Ids \cup {NoId, Torn}]
        /\ file'["role_id"] = k.creds["role_id"] /\ file'["secret_id"] = file["secret_id"]
    BY <1>4, <2>2 DEF Credentials
  <2>4. Written
    BY <1>2, <1>4, <1>5, <2>2, RoleWritten DEF Written
  <2>5. \A steps : AtOne(n, steps) => "write_secret_id" \in steps
    BY <1>2, <2>2, OnwardGoes DEF After
  <2>6. Planned(n)
    <3>1. k.creds["role_id"] # NoId
      BY <1>2 DEF Planned, WithRoleId, Deployed
    <3> QED
      BY <1>2, <2>2, <3>1, OnwardGoes
  <2>7. Untrusted(n)'
    BY <2>5, StepNames DEF Untrusted
  <2>8. Provisioned(n)'
    <3>1. SUFFICES ASSUME k.undisturbed
                   PROVE  /\ IF "secret" \in n.made THEN Accepts(n.creds)'
                             ELSE revoked' \/ (file' = n.creds /\ BothExist')
                          /\ mount' = "ramdisk" /\ file'["role_id"] = n.creds["role_id"]
      BY <2>2, <2>5, StepNames DEF Provisioned, Onward
    <3>2. Has(k) /\ mount = "ramdisk"
      <4>1. /\ AtOne(k, {"write_role_id", "write_secret_id"})
            /\ AtOne(k, Deployed \ {"write_secret_id"})
        BY <1>2 DEF Deployed
      <4>2. Provisioned(k)
        BY <1>2 DEF Duty
      <4>3. mount = "ramdisk"
        BY <3>1, <4>1, <4>2 DEF Provisioned
      <4> QED
        BY <3>1, <4>1, <4>2, <4>3, HasProvisioned
    <3>3. Accepts(k.creds) => Accepts(n.creds)'
      BY <1>3, <2>2 DEF Accepts
    <3>4. file = k.creds /\ BothExist => file' = k.creds /\ BothExist'
      BY <1>4, <2>2 DEF BothExist, Credentials
    <3> QED
      BY <1>1, <1>5, <2>2, <2>3, <3>1, <3>2, <3>3, <3>4 DEF Has
  <2>9. task' \in [Tasks -> Task] /\ Lonely' /\ \A u \in Tasks : Duty(task[u])'
    BY <1>2, <1>5, <2>2, <2>6, <2>7, <2>8, DeployStep DEF Onward
  <2> QED
    BY <1>1, <1>5, <1>7, <2>3, <2>4, <2>9, WritesKeep, BoundsTyped DEF Inv
<1> QED
  BY <1>6, <1>7

\* The secret id that an undisturbed deployment writes goes with the role id it has written.
LEMMA SecretWritten ==
    ASSUME Inv, NEW t \in Tasks, NEW k \in Task, k = task[t], Duty(k), Planned(k), AtOne(k, {"write_secret_id"}),
           \/ file' = [file EXCEPT !["secret_id"] = Torn] /\ revoked' = (revoked \/ ~k.undisturbed)
           \/ /\ file' = [file EXCEPT !["secret_id"] = k.creds["secret_id"]]
              /\ revoked' = Distrusted(t)
    PROVE  /\ Written /\ file' \in [Credentials -> Ids \cup {NoId, Torn}] /\ revoked' \in BOOLEAN
           /\ ~k.undisturbed => revoked'
<1>1. /\ file \in [Credentials -> Ids \cup {NoId, Torn}] /\ k.creds \in [Credentials -> Ids \cup {NoId, Torn}]
      /\ revoked \in BOOLEAN /\ k.undisturbed \in BOOLEAN
      /\ AtOne(k, Deployed) /\ AtOne(k, WithRoleId)
  BY TodoTyped DEF Inv, TypeOK, AtOne, Deployed, WithRoleId
<1>2. file' \in [Credentials -> Ids \cup {NoId, Torn}]
  BY <1>1, ProvisioningAssumption DEF Torn, Ids, Credentials
<1>3. revoked' \in BOOLEAN /\ (~k.undisturbed => revoked')
  BY <1>1 DEF Distrusted
<1>4. ASSUME k.undisturbed, ~revoked' PROVE Written
  <2>1. mount = "ramdisk" /\ file["role_id"] = k.creds["role_id"] /\ k.creds["role_id"] # NoId
    <3>1. AtOne(k, {"write_role_id", "write_secret_id"}) /\ Provisioned(k)
      BY DEF AtOne, Duty
    <3>2. mount = "ramdisk" /\ file["role_id"] = k.creds["role_id"]
      BY <1>4, <3>1 DEF Provisioned
    <3> QED
      BY <1>1, <3>2 DEF Planned
  <2>2. file'["role_id"] = k.creds["role_id"]
    BY <1>1, <2>1 DEF Credentials
  <2>3. CASE file' = [file EXCEPT !["secret_id"] = Torn]
    <3>1. file'["secret_id"] = Torn
      BY <1>1, <2>3 DEF Credentials
    <3> QED
      BY <2>1, <2>2, <3>1 DEF Written, Credentials
  <2>4. CASE file' = [file EXCEPT !["secret_id"] = k.creds["secret_id"]] /\ revoked' = Distrusted(t)
    <3>1. file' = k.creds
      BY <1>1, <2>1, <2>4 DEF Credentials
    <3>2. "secret" \in k.made \/ ~revoked
      BY <1>4, <2>4 DEF Distrusted
    <3>3. \/ "secret" \in k.made /\ Accepts(k.creds)
          \/ file = k.creds /\ BothExist /\ ~revoked
      BY <1>1, <1>4, <3>2, HasProvisioned DEF Duty
    <3>4. CASE Accepts(k.creds)
      BY <2>1, <2>2, <3>1, <3>4 DEF Written, Accepts
    <3>5. CASE file = k.creds /\ BothExist /\ ~revoked
      <4>1. (\E f \in Credentials : file[f] = Torn) \/ Accepts(file)
        BY <3>5 DEF Inv, World, FilesAreAccepted, Accepts
      <4> QED
        BY <2>1, <2>2, <3>1, <3>4, <3>5, <4>1 DEF Written
    <3> QED
      BY <3>3, <3>4, <3>5
  <2> QED
    BY <2>3, <2>4
<1> QED
  BY <1>2, <1>3, <1>4 DEF Written

LEMMA WriteSecretIdKeeps ==
    ASSUME Inv, NEW t \in Tasks, WriteSecretId(t)
    PROVE  Inv'
<1>1. /\ At(t, "write_secret_id")
      /\ UNCHANGED <<record, openbao, mount, below, docker, bounds>>
  BY DEF WriteSecretId
<1>2. PICK k \in Task : /\ k = task[t] /\ Duty(k) /\ Planned(k) /\ k.kind = "deploy" /\ k.phase = "run"
                        /\ k.todo # <<>> /\ Head(k.todo) = "write_secret_id"
                        /\ \A steps : "write_secret_id" \in steps => AtOne(k, steps)
  BY <1>1, Acts, StepNames DEF DeploySteps, ReconcileSteps
<1>3. CASE mount = "none"
  <2>1. UNCHANGED <<record, openbao, disk, docker, revoked, bounds>> /\ Becomes(t, FailedTask(t))
    BY <1>1, <1>3 DEF WriteSecretId, Writable, disk
  <2>2. (BothExist => revoked) => (BothExist => revoked)'
    BY <2>1 DEF disk, BothExist
  <2>3. task' \in [Tasks -> Task] /\ Lonely' /\ \A u \in Tasks : Duty(task[u])'
    BY <1>2, <2>1, <2>2, Fails
  <2> QED
    BY <2>1, <2>3, SameWorld, BoundsTyped DEF Inv
<1>4. CASE mount # "none"
  <2>1. PICK g \in Task : g = [k EXCEPT !.todo = Tail(@)] /\ Onward(k, g)
    BY <1>2, Going DEF Onward
  <2>2. PICK n : n = [g EXCEPT !.journal = Append(@, "EnsureAgentMount")]
    OBVIOUS
  <2>3. /\ task' = [task EXCEPT ![t] = n] /\ file' = [file EXCEPT !["secret_id"] = k.creds["secret_id"]]
        /\ revoked' = Distrusted(t)
    BY <1>2, <1>4, <2>1, <2>2 DEF WriteSecretId, Writable, Becomes, Goes
  <2>4. Onward(k, n)
    <3>1. Append(g.journal, "EnsureAgentMount") \in Seq(ToSteps)
      BY FreeSteps, TodoTyped, AppendProperties
    <3>2. n = [g EXCEPT !.journal = Append(g.journal, "EnsureAgentMount")]
      BY <2>2
    <3> QED
      BY <2>1, <3>1, <3>2 DEF Onward, Task
  <2>5. /\ Written /\ file' \in [Credentials -> Ids \cup {NoId, Torn}] /\ revoked' \in BOOLEAN
        /\ ~k.undisturbed => revoked'
    BY <1>2, <2>3, SecretWritten
  <2>6. task' \in [Tasks -> Task] /\ Lonely' /\ \A u \in Tasks : Duty(task[u])'
    BY <1>2, <2>3, <2>4, <2>5, FreeSteps, DeployOn
  <2> QED
    BY <1>1, <1>4, <2>5, <2>6, WritesKeep, BoundsTyped DEF Inv
<1> QED
  BY <1>3, <1>4

\* A write that is cut off leaves a file that is torn, or what it would have left.
LEMMA WriteCutOffKeeps ==
    ASSUME Inv, NEW t \in Tasks, WriteCutOff(t)
    PROVE  Inv'
<1>1. /\ mount # "none" /\ Fault /\ Becomes(t, FailedTask(t))
      /\ UNCHANGED <<record, openbao, mount, below, docker>>
  BY DEF WriteCutOff, Writable
<1>2. PICK k \in Task : k = task[t] /\ Duty(k) /\ Planned(k)
  BY DEF Inv, TypeOK, Duty
<1>3. k.phase = "run" /\ k.todo # <<>>
  BY <1>2 DEF WriteCutOff, At
<1>4. /\ Written /\ file' \in [Credentials -> Ids \cup {NoId, Torn}] /\ revoked' \in BOOLEAN
      /\ ~k.undisturbed => revoked'
  <2>1. CASE /\ At(t, "write_role_id") /\ file' = [file EXCEPT !["role_id"] = Torn]
             /\ revoked' = (revoked \/ ~task[t].undisturbed)
    <3>1. AtOne(k, {"write_role_id"})
      BY <1>2, <2>1 DEF At, AtOne
    <3>2. file \in [Credentials -> Ids \cup {NoId, Torn}] /\ revoked \in BOOLEAN /\ k.undisturbed \in BOOLEAN
      BY TodoTyped DEF Inv, TypeOK
    <3>3. file' \in [Credentials -> Ids \cup {NoId, Torn}]
      BY <2>1, <3>2 DEF Credentials
    <3>4. Written
      <4>1. CASE revoked'
        BY <4>1 DEF Written
      <4>2. CASE ~revoked'
        BY <1>2, <2>1, <3>1, <3>2, <4>2, RoleWritten
      <4> QED
        BY <4>1, <4>2
    <3> QED
      BY <1>2, <2>1, <3>2, <3>3, <3>4
  <2>2. CASE /\ At(t, "write_secret_id")
             /\ \/ file' = [file EXCEPT !["secret_id"] = Torn] /\ revoked' = (revoked \/ ~task[t].undisturbed)
                \/ /\ file' = [file EXCEPT !["secret_id"] = task[t].creds["secret_id"]]
                   /\ revoked' = Distrusted(t)
    <3>1. AtOne(k, {"write_secret_id"})
      BY <1>2, <2>2 DEF At, AtOne
    <3> QED
      BY <1>2, <2>2, <3>1, SecretWritten
  <2> QED
    BY <2>1, <2>2 DEF WriteCutOff
<1>5. task' \in [Tasks -> Task] /\ Lonely' /\ \A u \in Tasks : Duty(task[u])'
  <2>1. ~k.undisturbed /\ (BothExist => revoked) => (BothExist => revoked)'
    BY <1>4
  <2> QED
    BY <1>1, <1>2, <1>3, <2>1, Fails
<1> QED
  BY <1>1, <1>4, <1>5, WritesKeep, FaultTyped DEF Inv

LEMMA BuildAgentContainerKeeps ==
    ASSUME Inv, NEW t \in Tasks, BuildAgentContainer(t)
    PROVE  Inv'
<1>1. /\ At(t, "BuildAgentContainer") /\ UNCHANGED <<record, openbao, disk, revoked, bounds>>
      /\ agent' \in {agent, "stopped"} /\ host' \in {host, host \cup {"network"}}
  BY DEF BuildAgentContainer, docker
<1>2. PICK k \in Task : /\ k = task[t] /\ Duty(k) /\ Planned(k) /\ k.kind = "deploy" /\ k.phase = "run"
                        /\ k.todo # <<>> /\ Head(k.todo) = "BuildAgentContainer"
                        /\ \A steps : "BuildAgentContainer" \in steps => AtOne(k, steps)
  BY <1>1, Acts, StepNames DEF DeploySteps, ReconcileSteps
<1>3. /\ BothExist' <=> BothExist
      /\ UNCHANGED <<policy, role, live, mount, file, below>>
  BY <1>1 DEF disk, openbao, BothExist
<1>4. task' \in [Tasks -> Task] /\ Lonely' /\ \A u \in Tasks : Duty(task[u])'
  <2>1. CASE agent # "absent"
    BY <1>1, <1>2, <1>3, <2>1, Fails DEF BuildAgentContainer
  <2>2. CASE agent = "absent"
    <3>1. PICK g \in Task : /\ g = [[k EXCEPT !.todo = Tail(@)] EXCEPT !.journal = Append(@, Head(k.todo))]
                            /\ Onward(k, g)
      BY <1>2, Journaled DEF Onward
    <3>2. PICK n : n = [g EXCEPT !.made = @ \cup ({"network"} \ host)]
      OBVIOUS
    <3>3. task' = [task EXCEPT ![t] = n]
      BY <1>2, <2>2, <3>1, <3>2 DEF BuildAgentContainer, Becomes, Ran, Goes
    <3>4. Onward(k, n)
      BY <3>1, <3>2 DEF Onward, Task
    <3>5. "BuildAgentContainer" \notin Ordering
      BY FreeSteps DEF Free
    <3> QED
      BY <1>1, <1>2, <1>3, <3>3, <3>4, <3>5, DeployOn
  <2> QED
    BY <2>1, <2>2
<1>5. World'
  <2>1. Linked'
    BY <1>1 DEF Inv, World, Linked
  <2> QED
    BY <1>1, <2>1, DockerWorld DEF Inv
<1>6. TypeOK'
  BY <1>1, <1>3, <1>4, BoundsTyped DEF Inv, TypeOK
<1> QED
  BY <1>4, <1>5, <1>6 DEF Inv

LEMMA BuildAgentContainerInterruptedKeeps ==
    ASSUME Inv, NEW t \in Tasks, BuildAgentContainerInterrupted(t)
    PROVE  Inv'
<1>1. /\ At(t, "BuildAgentContainer") /\ Fault /\ UNCHANGED <<record, openbao, disk, revoked>>
      /\ agent' = "stopped" /\ host' \in {host, host \cup {"network"}} /\ Becomes(t, FailedTask(t))
  BY DEF BuildAgentContainerInterrupted
<1>2. task[t].phase = "run" /\ task[t].todo # <<>>
  BY <1>1 DEF At
<1>3. /\ BothExist' <=> BothExist
      /\ UNCHANGED <<policy, role, live, mount, file, below>>
  BY <1>1 DEF disk, openbao, BothExist
<1>4. task' \in [Tasks -> Task] /\ Lonely' /\ \A u \in Tasks : Duty(task[u])'
  BY <1>1, <1>2, <1>3, Fails
<1>5. World'
  <2>1. Linked'
    BY <1>1 DEF Inv, World, Linked
  <2> QED
    BY <1>1, <2>1, DockerWorld DEF Inv
<1>6. TypeOK'
  BY <1>1, <1>3, <1>4, FaultTyped DEF Inv, TypeOK
<1> QED
  BY <1>4, <1>5, <1>6 DEF Inv

LEMMA StartContainerKeeps ==
    ASSUME Inv, NEW t \in Tasks, StartContainer(t)
    PROVE  Inv'
<1>1. /\ At(t, "StartContainer") /\ UNCHANGED <<record, openbao, disk, host, revoked, bounds>>
      /\ agent' \in {agent, "running"}
  BY DEF StartContainer
<1>2. PICK k \in Task : /\ k = task[t] /\ Duty(k) /\ Planned(k) /\ k.kind = "deploy" /\ k.phase = "run"
                        /\ k.todo # <<>> /\ Head(k.todo) = "StartContainer"
                        /\ \A steps : "StartContainer" \in steps => AtOne(k, steps)
  BY <1>1, Acts, StepNames DEF DeploySteps, ReconcileSteps
<1>3. /\ BothExist' <=> BothExist
      /\ UNCHANGED <<policy, role, live, mount, file, below>>
  BY <1>1 DEF disk, openbao, BothExist
<1>4. task' \in [Tasks -> Task] /\ Lonely' /\ \A u \in Tasks : Duty(task[u])'
  <2>1. CASE agent = "absent"
    BY <1>1, <1>2, <1>3, <2>1, Fails DEF StartContainer
  <2>2. CASE agent # "absent"
    <3>1. PICK n : n = [[k EXCEPT !.todo = Tail(@)] EXCEPT !.journal = Append(@, Head(k.todo))]
      OBVIOUS
    <3>2. task' = [task EXCEPT ![t] = n] /\ Onward(k, n)
      BY <1>2, <2>2, <3>1, Journaled DEF StartContainer, Becomes, Ran, Goes
    <3>3. "StartContainer" \notin Ordering
      BY FreeSteps DEF Free
    <3> QED
      BY <1>1, <1>2, <1>3, <3>2, <3>3, DeployOn
  <2> QED
    BY <2>1, <2>2
<1>5. World'
  <2>1. Linked'
    BY <1>1 DEF Inv, World, Linked
  <2> QED
    BY <1>1, <2>1, DockerWorld DEF Inv
<1>6. TypeOK'
  BY <1>1, <1>3, <1>4, BoundsTyped DEF Inv, TypeOK
<1> QED
  BY <1>4, <1>5, <1>6 DEF Inv

LEMMA WriteRouteKeeps ==
    ASSUME Inv, NEW t \in Tasks, WriteRoute(t)
    PROVE  Inv'
<1>1. /\ At(t, "write_route") /\ UNCHANGED <<record, openbao, disk, agent, revoked, bounds>>
      /\ host' \in {host, host \cup {"route"}}
  BY DEF WriteRoute
<1>2. PICK k \in Task : /\ k = task[t] /\ Duty(k) /\ Planned(k) /\ k.kind = "deploy" /\ k.phase = "run"
                        /\ k.todo # <<>> /\ Head(k.todo) = "write_route"
                        /\ \A steps : "write_route" \in steps => AtOne(k, steps)
  BY <1>1, Acts, StepNames DEF DeploySteps, ReconcileSteps
<1>3. /\ BothExist' <=> BothExist
      /\ UNCHANGED <<policy, role, live, mount, file, below>>
  BY <1>1 DEF disk, openbao, BothExist
<1>4. PICK g \in Task : g = [k EXCEPT !.todo = Tail(@)] /\ Onward(k, g)
  BY <1>2, Going DEF Onward
<1>5. PICK r : r = [g EXCEPT !.journal = <<>>]
  OBVIOUS
<1>6. Onward(k, r) /\ Routed(t) = r
  <2>1. Onward(k, r)
    BY <1>4, <1>5, EmptySeq DEF Onward, Task
  <2> QED
    BY <1>2, <1>4, <1>5, <2>1 DEF Routed, Goes
<1>7. task' \in [Tasks -> Task] /\ Lonely' /\ \A u \in Tasks : Duty(task[u])'
  <2>1. CASE record /\ "network" \in host
    <3>1. task' = [task EXCEPT ![t] = r]
      BY <1>6, <2>1 DEF WriteRoute, Becomes
    <3>2. "write_route" \notin Ordering
      BY FreeSteps DEF Free
    <3> QED
      BY <1>1, <1>2, <1>3, <1>6, <3>1, <3>2, DeployOn
  <2>2. CASE ~(record /\ "network" \in host)
    <3>1. PICK n : n = [r EXCEPT !.todo = <<>>]
      OBVIOUS
    <3>2. task' = [task EXCEPT ![t] = n]
      BY <1>6, <2>2, <3>1 DEF WriteRoute, Becomes
    <3>3. /\ n \in Task /\ n.todo = <<>> /\ n.phase = "run" /\ n.kind = "deploy"
          /\ n.undisturbed = k.undisturbed
      BY <1>2, <1>6, <3>1, EmptySeq DEF Onward, Task
    <3>4. Quiet(n)
      BY <3>3, ShortPlans DEF Quiet, Planned, AtOne
    <3>5. Planned(n) /\ Untrusted(n)' /\ Provisioned(n)'
      BY <3>4, QuietDuty
    <3> QED
      BY <1>1, <1>2, <1>3, <3>2, <3>3, <3>5, DeployStep
  <2> QED
    BY <2>1, <2>2
<1>8. World'
  <2>1. Linked'
    BY <1>1 DEF Inv, World, Linked
  <2> QED
    BY <1>1, <2>1, DockerWorld DEF Inv
<1>9. TypeOK'
  BY <1>1, <1>3, <1>7, BoundsTyped DEF Inv, TypeOK
<1> QED
  BY <1>7, <1>8, <1>9 DEF Inv

LEMMA ConnectTraefikKeeps ==
    ASSUME Inv, NEW t \in Tasks, ConnectTraefik(t)
    PROVE  Inv'
<1>1. /\ At(t, "connect_traefik") /\ UNCHANGED <<record, openbao, disk, agent, revoked, bounds>>
      /\ host' = host \/ ("network" \in host /\ host' = host \cup {"traefik"})
  BY DEF ConnectTraefik
<1>2. PICK k \in Task : /\ k = task[t] /\ Duty(k) /\ Planned(k) /\ k.kind = "deploy" /\ k.phase = "run"
                        /\ k.todo # <<>> /\ Head(k.todo) = "connect_traefik"
                        /\ \A steps : "connect_traefik" \in steps => AtOne(k, steps)
  BY <1>1, Acts, StepNames DEF DeploySteps, ReconcileSteps
<1>3. /\ BothExist' <=> BothExist
      /\ UNCHANGED <<policy, role, live, mount, file, below>>
  BY <1>1 DEF disk, openbao, BothExist
<1>4. task' \in [Tasks -> Task] /\ Lonely' /\ \A u \in Tasks : Duty(task[u])'
  <2>1. CASE "network" \notin host
    BY <1>1, <1>2, <1>3, <2>1, Fails DEF ConnectTraefik
  <2>2. CASE "network" \in host
    <3>1. PICK n : n = [k EXCEPT !.todo = Tail(@)]
      OBVIOUS
    <3>2. task' = [task EXCEPT ![t] = n] /\ Onward(k, n)
      BY <1>2, <2>2, <3>1, Going DEF ConnectTraefik, Becomes, Goes
    <3>3. "connect_traefik" \notin Ordering
      BY FreeSteps DEF Free
    <3> QED
      BY <1>1, <1>2, <1>3, <3>2, <3>3, DeployOn
  <2> QED
    BY <2>1, <2>2
<1>5. World'
  <2>1. Linked'
    BY <1>1 DEF Inv, World, Linked
  <2> QED
    BY <1>1, <2>1, DockerWorld DEF Inv
<1>6. TypeOK'
  BY <1>1, <1>3, <1>4, BoundsTyped DEF Inv, TypeOK
<1> QED
  BY <1>4, <1>5, <1>6 DEF Inv

\* One command less to undo, or nothing more to do.
LEMMA Undoes ==
    ASSUME Inv, NEW t \in Tasks, task[t].phase = "undo",
           Becomes(t, IF Front(task[t].journal) = <<>> THEN Idle
                      ELSE [task[t] EXCEPT !.journal = Front(task[t].journal)]),
           (BothExist => revoked) => (BothExist => revoked)'
    PROVE  /\ task' \in [Tasks -> Task]
           /\ Lonely' /\ \A u \in Tasks : Duty(task[u])'
<1>1. PICK k \in Task : k = task[t] /\ Planned(k)
  BY DEF Inv, TypeOK, Duty
<1>2. PICK rest : rest = Front(k.journal)
  OBVIOUS
<1>3. rest \in Seq(ToSteps)
  BY <1>1, <1>2, TodoTyped, FrontOfJournal DEF Planned, Front
<1>4. PICK n : n = IF rest = <<>> THEN Idle ELSE [k EXCEPT !.journal = rest]
  OBVIOUS
<1>5. task' = [task EXCEPT ![t] = n]
  BY <1>1, <1>2, <1>4 DEF Becomes
<1>6. Quiet(n) /\ ~n.undisturbed
  <2>1. CASE rest = <<>>
    BY <1>4, <2>1, IdleQuiet
  <2>2. CASE rest # <<>>
    <3>1. /\ n \in Task /\ n.phase = "undo" /\ n.journal = rest /\ n.todo = k.todo /\ n.kind = k.kind
          /\ n.undisturbed = k.undisturbed
      BY <1>1, <1>3, <1>4, <2>2 DEF Task
    <3>2. ~k.undisturbed
      BY <1>1 DEF Planned
    <3> QED
      BY <1>1, <2>2, <3>1, <3>2 DEF Quiet, Planned, AtOne
  <2> QED
    BY <2>1, <2>2
<1> QED
  BY <1>5, <1>6, Settles

LEMMA UndoKeeps ==
    ASSUME Inv, NEW t \in Tasks, Undo(t) \/ UndoFails(t)
    PROVE  Inv'
<1>1. /\ task[t].phase = "undo" /\ UNCHANGED openbao
      /\ Becomes(t, IF Front(task[t].journal) = <<>> THEN Idle
                    ELSE [task[t] EXCEPT !.journal = Front(task[t].journal)])
  BY DEF Undo, UndoFails, Undone
<1>2. requests' \in 0..MaxRequests /\ faults' \in 0..MaxFaults
  BY FaultTyped, BoundsTyped DEF Undo, UndoFails, Inv
<1>3. /\ agent' \in {agent, "stopped", "absent", "running"} /\ record' \in {record, FALSE}
      /\ host' = host \/ ("traefik" \notin host /\ host' = host \ {"network"})
      /\ Clearing
  <2>1. CASE Undo(t)
    BY <2>1 DEF Undo, docker, Clearing
  <2>2. CASE UndoFails(t)
    BY <2>2 DEF UndoFails, Clearing
  <2> QED
    BY <2>1, <2>2
<1>4. Linked'
  BY <1>3 DEF Inv, World, Linked
<1>5. DiskTyped' /\ World' /\ ((BothExist => revoked) => (BothExist => revoked)')
  BY <1>1, <1>3, <1>4, Clears
<1>6. task' \in [Tasks -> Task] /\ Lonely' /\ \A u \in Tasks : Duty(task[u])'
  BY <1>1, <1>5, Undoes
<1>7. TypeOK'
  BY <1>1, <1>2, <1>3, <1>5, <1>6 DEF Inv, TypeOK, DiskTyped, openbao
<1> QED
  BY <1>5, <1>6, <1>7 DEF Inv

-----------------------------------------------------------------------------
(* Drops *)

\* What is still ahead of a task that has done a step.
LEMMA StillAhead ==
    ASSUME NEW k \in Task, Planned(k), k.phase = "run", k.todo # <<>>, NEW n, Onward(k, n)
    PROVE  /\ \A step : step # Head(k.todo) => (Ahead(n, step) <=> Ahead(k, step))
           /\ \A step : Ahead(n, step) => Ahead(k, step)
           /\ Ahead(k, Head(k.todo))
<1>1. Range(k.todo) = {Head(k.todo)} \cup Range(n.todo)
  BY OnwardGoes
<1> QED
  BY <1>1 DEF Ahead

\* Nothing is ahead of a task beyond the step that another plan follows.
LEMMA LastStep ==
    ASSUME NEW k \in Task, Planned(k), k.todo # <<>>, Head(k.todo) \in {"discover_drop", "confirm"}
    PROVE  \A step : Ahead(k, step) => step = Head(k.todo)
<1>1. k.todo \in Seq(ToSteps) /\ Chained(k.todo)
  BY TodoTyped DEF Planned
<1>2. After(Head(k.todo)) = {}
  BY DEF After
<1>3. Tail(k.todo) = <<>> /\ Range(k.todo) = {Head(k.todo)} \cup Range(Tail(k.todo))
  BY <1>1, <1>2, TailOfPlan
<1> QED
  BY <1>3, ShortPlans DEF Ahead

\* A step of a drop or a prune, with what is still to be deleted.
LEMMA DropOn ==
    ASSUME Inv, NEW t \in Tasks, NEW k \in Task, k = task[t], Planned(k), k.phase = "run", k.todo # <<>>,
           Head(k.todo) \notin Ordering, NEW n, Onward(k, n), task' = [task EXCEPT ![t] = n],
           Dropping(n)', Sought(n)',
           ~k.undisturbed /\ (BothExist => revoked) => (BothExist => revoked)'
    PROVE  /\ task' \in [Tasks -> Task]
           /\ Lonely' /\ \A u \in Tasks : Duty(task[u])'
<1>1. Quiet(n) /\ n \in Task /\ n.undisturbed = k.undisturbed
  BY OnwardQuiet DEF Onward
<1>2. Planned(n) /\ Untrusted(n)' /\ Provisioned(n)'
  BY <1>1, QuietDuty
<1> QED
  BY <1>1, <1>2, TaskStep

\* What Present says of a kind.
LEMMA Presence ==
    /\ Present("containers") <=> agent # "absent"
    /\ Present("networks") <=> "network" \in host
    /\ Present("route_files") <=> "route" \in host
    /\ Present("resin_repositories") <=> "repository" \in host
    /\ Present("mounts") <=> mount # "none"
    /\ Present("openbao_secrets") <=> role # NoId \/ policy
BY DEF Present

\* The role is deleted, and with it every secret id: files in use are not trusted from now on.
LEMMA DeleteAuthKeeps ==
    ASSUME Inv, NEW t \in Tasks, DeleteAuth(t)
    PROVE  Inv'
<1>1. /\ At(t, "delete_auth") /\ role' = NoId /\ live' = {} /\ revoked' = (revoked \/ BothExist)
      /\ UNCHANGED <<record, policy, disk, docker, bounds>>
  BY DEF DeleteAuth
<1>2. PICK k \in Task : /\ k = task[t] /\ Duty(k) /\ Planned(k) /\ k.kind \in {"drop", "prune"} /\ k.phase = "run"
                        /\ k.todo # <<>> /\ Head(k.todo) = "delete_auth"
  BY <1>1, Acts, StepNames DEF DropSteps
<1>3. /\ BothExist' <=> BothExist
      /\ UNCHANGED <<mount, file, below, agent, host>>
  BY <1>1 DEF disk, docker, BothExist
<1>4. PICK n : n = [k EXCEPT !.todo = Tail(@)]
  OBVIOUS
<1>5. /\ task' = [task EXCEPT ![t] = n] /\ Onward(k, n) /\ n.knew = k.knew /\ n.found = k.found
  BY <1>2, <1>4, Going DEF DeleteAuth, Becomes, Goes
<1>6. /\ \A step : step # "delete_auth" => (Ahead(n, step) <=> Ahead(k, step))
      /\ \A steps : AtOne(n, steps) => "delete_policy" \in steps
  BY <1>2, <1>5, StillAhead, OnwardGoes DEF After
<1>7. Planned(n)
  BY <1>2, <1>5, <1>6, OnwardGoes DEF WithRoleId, Deployed
<1>8. Untrusted(n)' /\ Provisioned(n)'
  BY <1>1, <1>3, <1>6, StepNames DEF Untrusted, Provisioned, Deployed
<1>9. n.undisturbed = k.undisturbed /\ n.kind = k.kind /\ n \in Task
  BY <1>5 DEF Onward
<1>10. Dropping(n)'
  <2>1. Dropping(k)
    BY <1>2 DEF Duty
  <2> QED
    BY <1>1, <1>3, <1>5, <1>6, <1>9, <2>1 DEF Dropping, ToRevoke
<1>11. Sought(n)'
  <2>1. Sought(k)
    BY <1>2 DEF Duty
  <2>2. \A kind \in Range(Kinds) : kind # "delete_auth"
    BY StepNames
  <2>3. \A kind \in Range(Kinds) : Present(kind)' => Present(kind)
    BY <1>1, <1>3, StepNames DEF Present
  <2>4. ~AtOne(k, {"list"})
    BY <1>2 DEF AtOne
  <2> QED
    BY <1>1, <1>5, <1>6, <1>9, <2>1, <2>2, <2>3, <2>4 DEF Sought, ToRevoke
<1>12. task' \in [Tasks -> Task] /\ Lonely' /\ \A u \in Tasks : Duty(task[u])'
  BY <1>1, <1>2, <1>3, <1>5, <1>7, <1>8, <1>9, <1>10, <1>11, TaskStep
<1>13. World'
  BY <1>1, <1>3 DEF Inv, World, Linked, Issued, InOrder, Suspect, FilesAreAccepted
<1>14. TypeOK'
  <2>1. revoked' \in BOOLEAN
    BY <1>1
  <2> QED
    BY <1>1, <1>3, <1>12, <2>1, BoundsTyped DEF Inv, TypeOK
<1> QED
  BY <1>12, <1>13, <1>14 DEF Inv

LEMMA DeletePolicyKeeps ==
    ASSUME Inv, NEW t \in Tasks, DeletePolicy(t)
    PROVE  Inv'
<1>1. /\ At(t, "delete_policy") /\ policy' = FALSE
      /\ UNCHANGED <<record, role, live, disk, docker, revoked, bounds>>
  BY DEF DeletePolicy
<1>2. PICK k \in Task : /\ k = task[t] /\ Duty(k) /\ Planned(k) /\ k.kind \in {"drop", "prune"} /\ k.phase = "run"
                        /\ k.todo # <<>> /\ Head(k.todo) = "delete_policy"
  BY <1>1, Acts, StepNames DEF DropSteps
<1>3. /\ BothExist' <=> BothExist
      /\ UNCHANGED <<mount, file, below, agent, host>>
  BY <1>1 DEF disk, docker, BothExist
<1>4. PICK n : n = [k EXCEPT !.todo = Tail(@)]
  OBVIOUS
<1>5. /\ task' = [task EXCEPT ![t] = n] /\ Onward(k, n) /\ n.knew = k.knew /\ n.found = k.found
  BY <1>2, <1>4, Going DEF DeletePolicy, Becomes, Goes
<1>6. \A step : step # "delete_policy" => (Ahead(n, step) <=> Ahead(k, step))
  BY <1>2, <1>5, StillAhead
<1>7. n.undisturbed = k.undisturbed /\ n.kind = k.kind /\ n \in Task
  BY <1>5 DEF Onward
<1>8. Dropping(n)'
  <2>1. Dropping(k)
    BY <1>2 DEF Duty
  <2> QED
    BY <1>1, <1>3, <1>5, <1>6, <1>7, <2>1 DEF Dropping, ToRevoke
<1>9. Sought(n)'
  <2>1. Sought(k)
    BY <1>2 DEF Duty
  <2>2. \A kind \in Range(Kinds) : kind # "delete_policy"
    BY StepNames
  <2>3. \A kind \in Range(Kinds) : Present(kind)' => Present(kind)
    BY <1>1, <1>3, StepNames DEF Present
  <2>4. ~AtOne(k, {"list"})
    BY <1>2 DEF AtOne
  <2> QED
    BY <1>1, <1>5, <1>6, <1>7, <2>1, <2>2, <2>3, <2>4 DEF Sought, ToRevoke
<1>10. BothExist => revoked
  BY <1>2 DEF Duty, Untrusted, AtOne
<1>11. task' \in [Tasks -> Task] /\ Lonely' /\ \A u \in Tasks : Duty(task[u])'
  <2>1. "delete_policy" \notin Ordering
    BY StepNames DEF Ordering
  <2> QED
    BY <1>1, <1>2, <1>3, <1>5, <1>8, <1>9, <2>1, DropOn
<1>12. World'
  BY <1>1, <1>3, <1>10 DEF Inv, World, Linked, Issued, InOrder, Suspect, FilesAreAccepted
<1>13. TypeOK'
  BY <1>1, <1>3, <1>11, BoundsTyped DEF Inv, TypeOK
<1> QED
  BY <1>11, <1>12, <1>13 DEF Inv

\* A drop that has come to look for what there is has revoked, and plans to delete the rest.
LEMMA DiscoverDropKeeps ==
    ASSUME Inv, NEW t \in Tasks, DiscoverDrop(t)
    PROVE  Inv'
<1>1. At(t, "discover_drop") /\ UNCHANGED <<record, openbao, disk, docker, revoked, bounds>>
  BY DEF DiscoverDrop
<1>2. PICK k \in Task : /\ k = task[t] /\ Duty(k) /\ Planned(k) /\ k.kind = "drop" /\ k.phase = "run"
                        /\ k.todo # <<>> /\ Head(k.todo) = "discover_drop"
  BY <1>1, Acts, StepNames DEF DropSteps
<1>3. /\ BothExist' <=> BothExist
      /\ UNCHANGED <<policy, role, live, mount, file, below, agent, host>>
  BY <1>1 DEF disk, openbao, docker, BothExist
<1>4. task' \in [Tasks -> Task] /\ Lonely' /\ \A u \in Tasks : Duty(task[u])'
  <2>1. CASE agent = "running"
    <3>1. task' = [task EXCEPT ![t] = Idle]
      BY <2>1 DEF DiscoverDrop, Becomes
    <3> QED
      BY <1>1, <1>2, <1>3, <3>1, IdleQuiet, Settles
  <2>2. CASE agent # "running"
    <3>1. PICK plan : plan = DropPlan
      OBVIOUS
    <3>2. PICK n : n = [k EXCEPT !.todo = plan]
      OBVIOUS
    <3>3. task' = [task EXCEPT ![t] = n]
      BY <1>2, <2>2, <3>1, <3>2 DEF DiscoverDrop, Becomes
    <3>4. /\ plan \in Seq(ToSteps) /\ Chained(plan) /\ plan \in Seq(Free)
          /\ Range(plan) \subseteq StepsOf("drop")
          /\ record => "DeleteSeedbankEntry" \in Range(plan)
          /\ mount # "none" => "DeleteSeedlingMounts" \in Range(plan)
          /\ agent # "absent" => "DropContainer" \in Range(plan)
          /\ "network" \in host => "DeleteSeedlingNetwork" \in Range(plan)
          /\ "route" \in host => "RemoveTraefikRoute" \in Range(plan)
          /\ "DeleteResinRepository" \in Range(plan)
      BY <3>1, DropPlanned DEF StepsOf
    <3>5. /\ n \in Task /\ n.kind = "drop" /\ n.phase = "run" /\ n.todo = plan /\ n.knew = k.knew
          /\ n.undisturbed = k.undisturbed
      BY <1>2, <3>2, <3>4 DEF Task
    <3>6. Quiet(n)
      <4>1. plan # <<>> => Head(plan) \in Free
        BY <3>4, HeadTailProperties
      <4>2. ~AtOne(n, Ordered) /\ ~AtOne(n, WithRoleId)
        <5>1. WithRoleId \subseteq Ordered
          BY StepNames DEF WithRoleId, Deployed, Ordered
        <5> QED
          BY <3>5, <4>1, <5>1 DEF AtOne, Free
      <4> QED
        BY <3>4, <3>5, <4>2 DEF Quiet, Planned
    <3>7. Dropping(n)'
      <4>1. Dropping(k) /\ ~Ahead(k, "delete_auth") /\ ~Ahead(k, "delete_policy")
        BY <1>2, LastStep DEF Duty
      <4> QED
        BY <1>1, <1>2, <1>3, <3>4, <3>5, <4>1 DEF Dropping, ToRevoke, Ahead
    <3>8. Sought(n)'
      BY <3>5 DEF Sought
    <3> QED
      BY <1>1, <1>2, <1>3, <3>3, <3>5, <3>6, <3>7, <3>8, QuietDuty, TaskStep
  <2> QED
    BY <2>1, <2>2
<1> QED
  BY <1>1, <1>4, SameWorld, BoundsTyped DEF Inv

\* A command of a drop: what it does not delete is as it was, or gone.
LEMMA DropGoes ==
    ASSUME Inv, NEW t \in Tasks, NEW k \in Task, k = task[t], Duty(k), k.kind = "drop", k.phase = "run",
           k.todo # <<>>, Head(k.todo) \in Free, Becomes(t, Goes(t)), UNCHANGED <<policy, role>>,
           record' => record /\ Head(k.todo) # "DeleteSeedbankEntry",
           mount' # "none" => mount # "none" /\ Head(k.todo) # "DeleteSeedlingMounts",
           agent' # "absent" => agent # "absent" /\ Head(k.todo) # "DropContainer",
           "network" \in host' => "network" \in host /\ Head(k.todo) # "DeleteSeedlingNetwork",
           "route" \in host' => "route" \in host /\ Head(k.todo) # "RemoveTraefikRoute",
           "repository" \in host' => "repository" \in host /\ Head(k.todo) # "DeleteResinRepository",
           ~k.undisturbed /\ (BothExist => revoked) => (BothExist => revoked)'
    PROVE  /\ task' \in [Tasks -> Task]
           /\ Lonely' /\ \A u \in Tasks : Duty(task[u])'
<1>1. PICK n : n = [k EXCEPT !.todo = Tail(@)]
  OBVIOUS
<1>2. task' = [task EXCEPT ![t] = n] /\ Onward(k, n) /\ n.knew = k.knew
  BY <1>1, Going DEF Becomes, Goes
<1>3. n.kind = "drop" /\ n.undisturbed = k.undisturbed /\ Planned(k) /\ Dropping(k)
  BY <1>2 DEF Onward, Duty
<1>4. /\ \A step : step # Head(k.todo) => (Ahead(n, step) <=> Ahead(k, step))
      /\ \A step : Ahead(n, step) => Ahead(k, step)
  BY <1>2, <1>3, StillAhead
<1>5. Head(k.todo) \notin {"delete_auth", "delete_policy", "discover_drop"} /\ Head(k.todo) \notin Ordering
  <2>1. Head(k.todo) \notin Ordered /\ Head(k.todo) \notin Ordering
    BY DEF Free
  <2>2. "delete_policy" \in Ordered /\ {"delete_auth", "discover_drop"} \subseteq Ordering
    BY DEF Ordered, Ordering
  <2> QED
    BY <2>1, <2>2
<1>6. /\ Ahead(n, "delete_auth") <=> Ahead(k, "delete_auth")
      /\ Ahead(n, "delete_policy") <=> Ahead(k, "delete_policy")
      /\ Ahead(n, "discover_drop") <=> Ahead(k, "discover_drop")
  BY <1>4, <1>5
<1>7. Dropping(n)'
  <2>1. SUFFICES ASSUME k.undisturbed, k.knew
                 PROVE  /\ role' # NoId => Ahead(n, "delete_auth")
                        /\ policy' => Ahead(n, "delete_policy")
                        /\ ~Ahead(n, "discover_drop") =>
                             /\ record' => Ahead(n, "DeleteSeedbankEntry")
                             /\ mount' # "none" => Ahead(n, "DeleteSeedlingMounts")
                             /\ agent' # "absent" => Ahead(n, "DropContainer")
                             /\ "network" \in host' => Ahead(n, "DeleteSeedlingNetwork")
                             /\ "route" \in host' => Ahead(n, "RemoveTraefikRoute")
                             /\ "repository" \in host' => Ahead(n, "DeleteResinRepository")
    BY <1>2, <1>3 DEF Dropping, ToRevoke, Ahead
  <2>2. /\ role # NoId => Ahead(k, "delete_auth")
        /\ policy => Ahead(k, "delete_policy")
        /\ ~Ahead(k, "discover_drop") =>
             /\ record => Ahead(k, "DeleteSeedbankEntry")
             /\ mount # "none" => Ahead(k, "DeleteSeedlingMounts")
             /\ agent # "absent" => Ahead(k, "DropContainer")
             /\ "network" \in host => Ahead(k, "DeleteSeedlingNetwork")
             /\ "route" \in host => Ahead(k, "RemoveTraefikRoute")
             /\ "repository" \in host => Ahead(k, "DeleteResinRepository")
    BY <1>3, <2>1 DEF Dropping, ToRevoke
  <2> QED
    BY <1>4, <1>6, <2>2
<1>8. Sought(n)'
  BY <1>3 DEF Sought
<1> QED
  BY <1>2, <1>3, <1>5, <1>7, <1>8, DropOn

LEMMA RemoveTraefikRouteKeeps ==
    ASSUME Inv, NEW t \in Tasks, RemoveTraefikRoute(t)
    PROVE  Inv'
<1>1. /\ At(t, "RemoveTraefikRoute")
      /\ UNCHANGED <<record, openbao, disk, agent, revoked, bounds>>
      /\ host' = host \/ host' = host \ {"traefik", "route"}
      /\ "traefik" \in host => host' = host \ {"traefik", "route"}
  BY DEF RemoveTraefikRoute
<1>2. PICK k \in Task : /\ k = task[t] /\ Duty(k) /\ Planned(k) /\ k.kind = "drop" /\ k.phase = "run"
                        /\ k.todo # <<>> /\ Head(k.todo) = "RemoveTraefikRoute"
  BY <1>1, Acts, StepNames DEF DropSteps
<1>3. /\ DiskTyped' /\ World' /\ ((BothExist => revoked) => (BothExist => revoked)')
      /\ mount' # "none" => mount # "none"
      /\ UNCHANGED <<policy, role, live>>
  <2>1. Linked'
    BY <1>1 DEF Inv, World, Linked, docker
  <2>2. Clearing
    BY <1>1 DEF Clearing
  <2> QED
    BY <1>1, <2>1, <2>2, Clears DEF openbao
<1>4. task' \in [Tasks -> Task] /\ Lonely' /\ \A u \in Tasks : Duty(task[u])'
  <2>1. CASE "traefik" \notin host
    BY <1>1, <1>2, <1>3, <2>1, Fails DEF RemoveTraefikRoute
  <2>2. CASE ~("traefik" \notin host)
    <3>1. Becomes(t, Goes(t))
      BY <2>2 DEF RemoveTraefikRoute
    <3>2. Head(k.todo) \in Free
      BY <1>2, FreeSteps
    <3> QED
      BY <1>1, <1>2, <1>3, <2>2, <3>1, <3>2, DropGoes DEF disk, docker
  <2> QED
    BY <2>1, <2>2
<1>5. TypeOK'
  <2>1. /\ record' \in BOOLEAN
        /\ agent' \in {"absent", "stopped", "running"}
        /\ host' \subseteq {"network", "repository", "route", "traefik"}
    BY <1>1 DEF Inv, TypeOK, docker
  <2> QED
    BY <1>1, <1>3, <1>4, <2>1, BoundsTyped DEF Inv, TypeOK, DiskTyped
<1> QED
  BY <1>3, <1>4, <1>5 DEF Inv

LEMMA DropContainerKeeps ==
    ASSUME Inv, NEW t \in Tasks, DropContainer(t)
    PROVE  Inv'
<1>1. /\ At(t, "DropContainer")
      /\ UNCHANGED <<record, openbao, disk, host, revoked, bounds>>
      /\ agent' = agent \/ agent' = "absent"
      /\ agent = "stopped" => agent' = "absent"
  BY DEF DropContainer
<1>2. PICK k \in Task : /\ k = task[t] /\ Duty(k) /\ Planned(k) /\ k.kind = "drop" /\ k.phase = "run"
                        /\ k.todo # <<>> /\ Head(k.todo) = "DropContainer"
  BY <1>1, Acts, StepNames DEF DropSteps
<1>3. /\ DiskTyped' /\ World' /\ ((BothExist => revoked) => (BothExist => revoked)')
      /\ mount' # "none" => mount # "none"
      /\ UNCHANGED <<policy, role, live>>
  <2>1. Linked'
    BY <1>1 DEF Inv, World, Linked, docker
  <2>2. Clearing
    BY <1>1 DEF Clearing
  <2> QED
    BY <1>1, <2>1, <2>2, Clears DEF openbao
<1>4. task' \in [Tasks -> Task] /\ Lonely' /\ \A u \in Tasks : Duty(task[u])'
  <2>1. CASE agent # "stopped"
    BY <1>1, <1>2, <1>3, <2>1, Fails DEF DropContainer
  <2>2. CASE ~(agent # "stopped")
    <3>1. Becomes(t, Goes(t))
      BY <2>2 DEF DropContainer
    <3>2. Head(k.todo) \in Free
      BY <1>2, FreeSteps
    <3> QED
      BY <1>1, <1>2, <1>3, <2>2, <3>1, <3>2, DropGoes DEF disk, docker
  <2> QED
    BY <2>1, <2>2
<1>5. TypeOK'
  <2>1. /\ record' \in BOOLEAN
        /\ agent' \in {"absent", "stopped", "running"}
        /\ host' \subseteq {"network", "repository", "route", "traefik"}
    BY <1>1 DEF Inv, TypeOK, docker
  <2> QED
    BY <1>1, <1>3, <1>4, <2>1, BoundsTyped DEF Inv, TypeOK, DiskTyped
<1> QED
  BY <1>3, <1>4, <1>5 DEF Inv

LEMMA DeleteSeedlingNetworkKeeps ==
    ASSUME Inv, NEW t \in Tasks, DeleteSeedlingNetwork(t)
    PROVE  Inv'
<1>1. /\ At(t, "DeleteSeedlingNetwork")
      /\ UNCHANGED <<record, openbao, disk, agent, revoked, bounds>>
      /\ IF "network" \in host /\ agent = "absent" /\ "traefik" \notin host
         THEN host' = host \ {"network"} ELSE host' = host
  BY DEF DeleteSeedlingNetwork, DeleteNetwork
<1>2. PICK k \in Task : /\ k = task[t] /\ Duty(k) /\ Planned(k) /\ k.kind = "drop" /\ k.phase = "run"
                        /\ k.todo # <<>> /\ Head(k.todo) = "DeleteSeedlingNetwork"
  BY <1>1, Acts, StepNames DEF DropSteps
<1>3. /\ DiskTyped' /\ World' /\ ((BothExist => revoked) => (BothExist => revoked)')
      /\ mount' # "none" => mount # "none"
      /\ UNCHANGED <<policy, role, live>>
  <2>1. Linked'
    BY <1>1 DEF Inv, World, Linked, docker
  <2>2. Clearing
    BY <1>1 DEF Clearing
  <2> QED
    BY <1>1, <2>1, <2>2, Clears DEF openbao
<1>4. task' \in [Tasks -> Task] /\ Lonely' /\ \A u \in Tasks : Duty(task[u])'
  <2>1. CASE ~("network" \in host /\ agent = "absent" /\ "traefik" \notin host)
    BY <1>1, <1>2, <1>3, <2>1, Fails DEF DeleteSeedlingNetwork, DeleteNetwork
  <2>2. CASE ~(~("network" \in host /\ agent = "absent" /\ "traefik" \notin host))
    <3>1. Becomes(t, Goes(t))
      BY <2>2 DEF DeleteSeedlingNetwork, DeleteNetwork
    <3>2. Head(k.todo) \in Free
      BY <1>2, FreeSteps
    <3> QED
      BY <1>1, <1>2, <1>3, <2>2, <3>1, <3>2, DropGoes DEF disk, docker
  <2> QED
    BY <2>1, <2>2
<1>5. TypeOK'
  <2>1. /\ record' \in BOOLEAN
        /\ agent' \in {"absent", "stopped", "running"}
        /\ host' \subseteq {"network", "repository", "route", "traefik"}
    BY <1>1 DEF Inv, TypeOK, docker
  <2> QED
    BY <1>1, <1>3, <1>4, <2>1, BoundsTyped DEF Inv, TypeOK, DiskTyped
<1> QED
  BY <1>3, <1>4, <1>5 DEF Inv

LEMMA DeleteSeedbankEntryKeeps ==
    ASSUME Inv, NEW t \in Tasks, DeleteSeedbankEntry(t)
    PROVE  Inv'
<1>1. /\ At(t, "DeleteSeedbankEntry")
      /\ UNCHANGED <<openbao, disk, docker, revoked, bounds>>
      /\ record' = FALSE
  BY DEF DeleteSeedbankEntry
<1>2. PICK k \in Task : /\ k = task[t] /\ Duty(k) /\ Planned(k) /\ k.kind = "drop" /\ k.phase = "run"
                        /\ k.todo # <<>> /\ Head(k.todo) = "DeleteSeedbankEntry"
  BY <1>1, Acts, StepNames DEF DropSteps
<1>3. /\ DiskTyped' /\ World' /\ ((BothExist => revoked) => (BothExist => revoked)')
      /\ mount' # "none" => mount # "none"
      /\ UNCHANGED <<policy, role, live>>
  <2>1. Linked'
    BY <1>1 DEF Inv, World, Linked, docker
  <2>2. Clearing
    BY <1>1 DEF Clearing
  <2> QED
    BY <1>1, <2>1, <2>2, Clears DEF openbao
<1>4. task' \in [Tasks -> Task] /\ Lonely' /\ \A u \in Tasks : Duty(task[u])'
  <2>1. CASE ~record
    BY <1>1, <1>2, <1>3, <2>1, Fails DEF DeleteSeedbankEntry
  <2>2. CASE ~(~record)
    <3>1. Becomes(t, Goes(t))
      BY <2>2 DEF DeleteSeedbankEntry
    <3>2. Head(k.todo) \in Free
      BY <1>2, FreeSteps
    <3> QED
      BY <1>1, <1>2, <1>3, <2>2, <3>1, <3>2, DropGoes DEF disk, docker
  <2> QED
    BY <2>1, <2>2
<1>5. TypeOK'
  <2>1. /\ record' \in BOOLEAN
        /\ agent' \in {"absent", "stopped", "running"}
        /\ host' \subseteq {"network", "repository", "route", "traefik"}
    BY <1>1 DEF Inv, TypeOK, docker
  <2> QED
    BY <1>1, <1>3, <1>4, <2>1, BoundsTyped DEF Inv, TypeOK, DiskTyped
<1> QED
  BY <1>3, <1>4, <1>5 DEF Inv

LEMMA UnmountAgentRamDiskKeeps ==
    ASSUME Inv, NEW t \in Tasks, UnmountAgentRamDisk(t)
    PROVE  Inv'
<1>1. /\ At(t, "UnmountAgentRamDisk")
      /\ UNCHANGED <<record, openbao, docker, bounds>> /\ Unmounted
  BY DEF UnmountAgentRamDisk
<1>2. PICK k \in Task : /\ k = task[t] /\ Duty(k) /\ Planned(k) /\ k.kind = "drop" /\ k.phase = "run"
                        /\ k.todo # <<>> /\ Head(k.todo) = "UnmountAgentRamDisk"
  BY <1>1, Acts, StepNames DEF DropSteps
<1>3. /\ DiskTyped' /\ World' /\ ((BothExist => revoked) => (BothExist => revoked)')
      /\ mount' # "none" => mount # "none"
      /\ UNCHANGED <<policy, role, live>>
  <2>1. Linked'
    BY <1>1 DEF Inv, World, Linked, docker
  <2>2. Clearing
    BY <1>1 DEF Clearing
  <2> QED
    BY <1>1, <2>1, <2>2, Clears DEF openbao
<1>4. task' \in [Tasks -> Task] /\ Lonely' /\ \A u \in Tasks : Duty(task[u])'
  <2>1. Becomes(t, Goes(t))
    BY <1>1 DEF UnmountAgentRamDisk
  <2>2. Head(k.todo) \in Free
    BY <1>2, FreeSteps
  <2> QED
    BY <1>1, <1>2, <1>3, <2>1, <2>2, DropGoes DEF disk, docker
<1>5. TypeOK'
  <2>1. /\ record' \in BOOLEAN
        /\ agent' \in {"absent", "stopped", "running"}
        /\ host' \subseteq {"network", "repository", "route", "traefik"}
    BY <1>1 DEF Inv, TypeOK, docker
  <2> QED
    BY <1>1, <1>3, <1>4, <2>1, BoundsTyped DEF Inv, TypeOK, DiskTyped
<1> QED
  BY <1>3, <1>4, <1>5 DEF Inv

LEMMA DeleteSeedlingMountsKeeps ==
    ASSUME Inv, NEW t \in Tasks, DeleteSeedlingMounts(t)
    PROVE  Inv'
<1>1. /\ At(t, "DeleteSeedlingMounts")
      /\ UNCHANGED <<record, openbao, docker, bounds>> /\ FolderDeleted
      /\ mount # "ramdisk" => mount' = "none"
  BY DEF DeleteSeedlingMounts, DeleteMounts, FolderDeleted
<1>2. PICK k \in Task : /\ k = task[t] /\ Duty(k) /\ Planned(k) /\ k.kind = "drop" /\ k.phase = "run"
                        /\ k.todo # <<>> /\ Head(k.todo) = "DeleteSeedlingMounts"
  BY <1>1, Acts, StepNames DEF DropSteps
<1>3. /\ DiskTyped' /\ World' /\ ((BothExist => revoked) => (BothExist => revoked)')
      /\ mount' # "none" => mount # "none"
      /\ UNCHANGED <<policy, role, live>>
  <2>1. Linked'
    BY <1>1 DEF Inv, World, Linked, docker
  <2>2. Clearing
    BY <1>1 DEF Clearing
  <2> QED
    BY <1>1, <2>1, <2>2, Clears DEF openbao
<1>4. task' \in [Tasks -> Task] /\ Lonely' /\ \A u \in Tasks : Duty(task[u])'
  <2>1. CASE mount = "ramdisk"
    BY <1>1, <1>2, <1>3, <2>1, Fails DEF DeleteSeedlingMounts, DeleteMounts
  <2>2. CASE ~(mount = "ramdisk")
    <3>1. Becomes(t, Goes(t))
      BY <2>2 DEF DeleteSeedlingMounts, DeleteMounts
    <3>2. Head(k.todo) \in Free
      BY <1>2, FreeSteps
    <3> QED
      BY <1>1, <1>2, <1>3, <2>2, <3>1, <3>2, DropGoes DEF disk, docker
  <2> QED
    BY <2>1, <2>2
<1>5. TypeOK'
  <2>1. /\ record' \in BOOLEAN
        /\ agent' \in {"absent", "stopped", "running"}
        /\ host' \subseteq {"network", "repository", "route", "traefik"}
    BY <1>1 DEF Inv, TypeOK, docker
  <2> QED
    BY <1>1, <1>3, <1>4, <2>1, BoundsTyped DEF Inv, TypeOK, DiskTyped
<1> QED
  BY <1>3, <1>4, <1>5 DEF Inv

LEMMA DeleteResinRepositoryKeeps ==
    ASSUME Inv, NEW t \in Tasks, DeleteResinRepository(t)
    PROVE  Inv'
<1>1. /\ At(t, "DeleteResinRepository")
      /\ UNCHANGED <<record, openbao, disk, agent, revoked, bounds>>
      /\ host' = host \ {"repository"}
  BY DEF DeleteResinRepository
<1>2. PICK k \in Task : /\ k = task[t] /\ Duty(k) /\ Planned(k) /\ k.kind = "drop" /\ k.phase = "run"
                        /\ k.todo # <<>> /\ Head(k.todo) = "DeleteResinRepository"
  BY <1>1, Acts, StepNames DEF DropSteps
<1>3. /\ DiskTyped' /\ World' /\ ((BothExist => revoked) => (BothExist => revoked)')
      /\ mount' # "none" => mount # "none"
      /\ UNCHANGED <<policy, role, live>>
  <2>1. Linked'
    BY <1>1 DEF Inv, World, Linked, docker
  <2>2. Clearing
    BY <1>1 DEF Clearing
  <2> QED
    BY <1>1, <2>1, <2>2, Clears DEF openbao
<1>4. task' \in [Tasks -> Task] /\ Lonely' /\ \A u \in Tasks : Duty(task[u])'
  <2>1. Becomes(t, Goes(t))
    BY <1>1 DEF DeleteResinRepository
  <2>2. Head(k.todo) \in Free
    BY <1>2, FreeSteps
  <2> QED
    BY <1>1, <1>2, <1>3, <2>1, <2>2, DropGoes DEF disk, docker
<1>5. TypeOK'
  <2>1. /\ record' \in BOOLEAN
        /\ agent' \in {"absent", "stopped", "running"}
        /\ host' \subseteq {"network", "repository", "route", "traefik"}
    BY <1>1 DEF Inv, TypeOK, docker
  <2> QED
    BY <1>1, <1>3, <1>4, <2>1, BoundsTyped DEF Inv, TypeOK, DiskTyped
<1> QED
  BY <1>3, <1>4, <1>5 DEF Inv

-----------------------------------------------------------------------------
(* Prunes *)

\* What Finding says of the task that is at a kind.
LEMMA Finds ==
    ASSUME Inv, NEW t \in Tasks, NEW k \in Task, k = task[t], Planned(k), k.kind = "prune", k.todo # <<>>
    PROVE  Finding(t) <=> Ahead(k, "confirm")
<1>1. k.todo \in Seq(ToSteps) /\ Chained(k.todo)
  BY TodoTyped DEF Planned
<1>2. Last(k.todo) = "confirm" <=> "confirm" \in Range(k.todo)
  BY <1>1, ConfirmIsLast
<1> QED
  BY <1>2 DEF Finding, Ahead

\* A step of a prune, with what is still to be deleted.
LEMMA PruneOn ==
    ASSUME Inv, NEW t \in Tasks, NEW k \in Task, k = task[t], Planned(k), k.kind = "prune", k.phase = "run",
           k.todo # <<>>, Head(k.todo) \in Free, NEW n, Onward(k, n), task' = [task EXCEPT ![t] = n],
           Sought(n)', ~k.undisturbed /\ (BothExist => revoked) => (BothExist => revoked)'
    PROVE  /\ task' \in [Tasks -> Task]
           /\ Lonely' /\ \A u \in Tasks : Duty(task[u])'
<1>1. Head(k.todo) \notin Ordering
  BY DEF Free
<1>2. Dropping(n)'
  BY DEF Dropping, Onward
<1> QED
  BY <1>1, <1>2, DropOn

\* The records are listed: what is found from now on is found without one.
LEMMA ListRecordsKeeps ==
    ASSUME Inv, NEW t \in Tasks, ListRecords(t)
    PROVE  Inv'
<1>1. At(t, "list") /\ UNCHANGED <<record, openbao, disk, docker, revoked, bounds>>
  BY DEF ListRecords
<1>2. PICK k \in Task : /\ k = task[t] /\ Duty(k) /\ Planned(k) /\ k.kind = "prune" /\ k.phase = "run"
                        /\ k.todo # <<>> /\ Head(k.todo) = "list"
  <2>1. "list" \in PruneSteps \ Range(revoke)
    BY StepNames DEF PruneSteps
  <2> QED
    BY <1>1, <2>1, Acts
<1>3. /\ BothExist' <=> BothExist
      /\ UNCHANGED <<policy, role, live, mount, file, below, agent, host>>
  BY <1>1 DEF disk, openbao, docker, BothExist
<1>4. PICK n : n = [[k EXCEPT !.todo = Tail(@)] EXCEPT !.knew = record]
  OBVIOUS
<1>5. task' = [task EXCEPT ![t] = n]
  BY <1>2, <1>4 DEF ListRecords, Becomes, Goes
<1>6. Onward(k, n) /\ n.knew = record /\ n.found = k.found
  <2>1. PICK g : g = [k EXCEPT !.todo = Tail(@)]
    OBVIOUS
  <2>2. Onward(k, g) /\ g.found = k.found
    BY <1>2, <2>1, Going
  <2>3. n = [g EXCEPT !.knew = record] /\ record \in BOOLEAN
    BY <1>4, <2>1 DEF Inv, TypeOK
  <2> QED
    BY <2>2, <2>3 DEF Onward, Task
<1>7. n.kind = "prune" /\ n.undisturbed = k.undisturbed /\ Sought(k)
  BY <1>2, <1>6 DEF Onward, Duty
<1>8. \A step : step # "list" => (Ahead(n, step) <=> Ahead(k, step))
  BY <1>2, <1>6, StillAhead
<1>9. \A kind \in Range(Kinds) : kind # "list" /\ (Present(kind)' <=> Present(kind))
  BY <1>3, StepNames DEF Present
<1>10. Sought(n)'
  <2>1. /\ Ahead(n, "confirm") <=> Ahead(k, "confirm")
        /\ Ahead(n, "delete_auth") <=> Ahead(k, "delete_auth")
        /\ Ahead(n, "delete_policy") <=> Ahead(k, "delete_policy")
    BY <1>8
  <2> QED
    BY <1>1, <1>2, <1>3, <1>6, <1>7, <1>8, <1>9, <2>1 DEF Sought, ToRevoke
<1>11. Head(k.todo) \in Free
  BY <1>2, FreeSteps
<1>12. task' \in [Tasks -> Task] /\ Lonely' /\ \A u \in Tasks : Duty(task[u])'
  BY <1>1, <1>2, <1>3, <1>5, <1>6, <1>10, <1>11, PruneOn
<1> QED
  BY <1>1, <1>12, SameWorld, BoundsTyped DEF Inv

\* What there is of a kind is found, if there was no record.
LEMMA ObserveKeeps ==
    ASSUME Inv, NEW t \in Tasks, Observe(t)
    PROVE  Inv'
<1>1. /\ task[t].phase = "run" /\ task[t].todo # <<>> /\ Finding(t) /\ Head(task[t].todo) \in Range(Kinds)
      /\ UNCHANGED <<record, openbao, disk, docker, revoked, bounds>>
  BY DEF Observe
<1>2. PICK k \in Task : /\ k = task[t] /\ Duty(k) /\ Planned(k) /\ k.kind = "prune" /\ k.phase = "run"
                        /\ k.todo # <<>> /\ Head(k.todo) \in Range(Kinds)
  BY <1>1 DEF Inv, TypeOK, Duty, Finding
<1>3. /\ BothExist' <=> BothExist
      /\ UNCHANGED <<policy, role, live, mount, file, below, agent, host>>
  BY <1>1 DEF disk, openbao, docker, BothExist
<1>4. PICK g : g = [k EXCEPT !.todo = Tail(@)]
  OBVIOUS
<1>5. Onward(k, g) /\ g.found = k.found /\ g.knew = k.knew
  BY <1>2, <1>4, Going
<1>6. PICK n : n = IF ~k.knew /\ Present(Head(k.todo))
                   THEN [g EXCEPT !.found = @ \cup {Head(k.todo)}] ELSE g
  OBVIOUS
<1>7. task' = [task EXCEPT ![t] = n]
  BY <1>2, <1>4, <1>6 DEF Observe, Becomes, Goes
<1>8. /\ Onward(k, n) /\ n.knew = k.knew /\ k.found \subseteq n.found
      /\ ~k.knew /\ Present(Head(k.todo)) => Head(k.todo) \in n.found
  <2>1. g \in Task /\ k.found \subseteq Range(Kinds)
    BY <1>5, TodoTyped DEF Onward
  <2>2. CASE ~k.knew /\ Present(Head(k.todo))
    <3>1. n = [g EXCEPT !.found = @ \cup {Head(k.todo)}]
      BY <1>6, <2>2
    <3>2. /\ n \in Task /\ n.todo = g.todo /\ n.phase = g.phase /\ n.kind = g.kind
          /\ n.undisturbed = g.undisturbed /\ n.knew = g.knew
          /\ n.found = g.found \cup {Head(k.todo)}
      BY <1>2, <1>5, <2>1, <3>1 DEF Task
    <3> QED
      BY <1>5, <3>2 DEF Onward
  <2>3. CASE ~(~k.knew /\ Present(Head(k.todo)))
    BY <1>5, <1>6, <2>3
  <2> QED
    BY <2>2, <2>3
<1>9. n.kind = "prune" /\ n.undisturbed = k.undisturbed /\ Sought(k)
  BY <1>2, <1>8 DEF Onward, Duty
<1>10. /\ \A step : step # Head(k.todo) => (Ahead(n, step) <=> Ahead(k, step))
       /\ Ahead(k, "confirm") /\ Head(k.todo) \notin {"confirm", "list"}
  BY <1>1, <1>2, <1>8, StillAhead, Finds, StepNames
<1>11. \A kind \in Range(Kinds) : Present(kind)' <=> Present(kind)
  BY <1>3, StepNames DEF Present
<1>12. Sought(n)'
  <2>1. SUFFICES ASSUME k.undisturbed
                 PROVE  /\ n.knew = record
                        /\ ~record => \A kind \in Range(Kinds) : Present(kind) => kind \in n.found \/ Ahead(n, kind)
    BY <1>1, <1>9, <1>10, <1>11 DEF Sought
  <2>2. ~AtOne(k, {"list"})
    BY <1>10 DEF AtOne
  <2>3. /\ k.knew = record
        /\ ~record => \A kind \in Range(Kinds) : Present(kind) => kind \in k.found \/ Ahead(k, kind)
    BY <1>2, <1>9, <1>10, <2>1, <2>2 DEF Sought
  <2> QED
    BY <1>8, <1>10, <2>3
<1>13. Head(k.todo) \in Free
  BY <1>2, FreeSteps
<1>14. task' \in [Tasks -> Task] /\ Lonely' /\ \A u \in Tasks : Duty(task[u])'
  BY <1>1, <1>2, <1>3, <1>7, <1>8, <1>12, <1>13, PruneOn
<1> QED
  BY <1>1, <1>14, SameWorld, BoundsTyped DEF Inv

LEMMA ObserveBlindKeeps ==
    ASSUME Inv, NEW t \in Tasks, ObserveBlind(t)
    PROVE  Inv'
<1>1. At(t, "openbao_secrets") /\ Fault /\ UNCHANGED <<record, openbao, disk, docker, revoked>>
  BY DEF ObserveBlind
<1>2. PICK k \in Task : /\ k = task[t] /\ Planned(k) /\ k.phase = "run" /\ k.kind = "prune"
                        /\ k.todo # <<>> /\ Head(k.todo) = "openbao_secrets"
  <2>1. "openbao_secrets" \in PruneSteps \ Range(revoke)
    BY StepNames DEF PruneSteps
  <2> QED
    BY <1>1, <2>1, Acts
<1>3. PICK g : g = [k EXCEPT !.todo = Tail(@)]
  OBVIOUS
<1>4. Onward(k, g) /\ Quiet(g)
  <2>1. Onward(k, g)
    BY <1>2, <1>3, Going
  <2>2. "openbao_secrets" \notin Ordering
    BY StepNames DEF Ordering
  <2> QED
    BY <1>2, <2>1, <2>2, OnwardQuiet
<1>5. PICK n : n = [g EXCEPT !.undisturbed = FALSE]
  OBVIOUS
<1>6. task' = [task EXCEPT ![t] = n]
  BY <1>2, <1>3, <1>5 DEF ObserveBlind, Becomes, Goes
<1>7. Quiet(n) /\ ~n.undisturbed
  <2>1. g \in Task /\ g.phase = "run"
    BY <1>4 DEF Onward
  <2>2. /\ n \in Task /\ n.phase = "run" /\ n.todo = g.todo /\ n.kind = g.kind /\ n.creds = g.creds
        /\ n.made = g.made /\ ~n.undisturbed
    BY <1>5, <2>1 DEF Task
  <2> QED
    BY <1>4, <2>1, <2>2 DEF Quiet, Planned, AtOne
<1>8. (BothExist => revoked) => (BothExist => revoked)'
  BY <1>1 DEF BothExist, disk
<1>9. task' \in [Tasks -> Task] /\ Lonely' /\ \A u \in Tasks : Duty(task[u])'
  BY <1>2, <1>6, <1>7, <1>8, Settles
<1> QED
  BY <1>1, <1>9, SameWorld, FaultTyped DEF Inv

\* Confirmed: what was found is what there is, and is planned to be deleted.
LEMMA ConfirmKeeps ==
    ASSUME Inv, NEW t \in Tasks, Confirm(t)
    PROVE  Inv'
<1>1. At(t, "confirm") /\ UNCHANGED <<record, openbao, disk, docker, revoked, bounds>>
  BY DEF Confirm
<1>2. PICK k \in Task : /\ k = task[t] /\ Duty(k) /\ Planned(k) /\ k.kind = "prune" /\ k.phase = "run"
                        /\ k.todo # <<>> /\ Head(k.todo) = "confirm"
  <2>1. "confirm" \in PruneSteps \ Range(revoke)
    BY StepNames DEF PruneSteps
  <2> QED
    BY <1>1, <2>1, Acts
<1>3. /\ BothExist' <=> BothExist
      /\ UNCHANGED <<policy, role, live, mount, file, below, agent, host>>
  BY <1>1 DEF disk, openbao, docker, BothExist
<1>4. PICK plan : plan = PrunePlan(k.found)
  OBVIOUS
<1>5. PICK n : n = [k EXCEPT !.todo = plan]
  OBVIOUS
<1>6. task' = [task EXCEPT ![t] = n]
  BY <1>2, <1>4, <1>5 DEF Confirm, Becomes
<1>7. /\ k.found \subseteq Range(Kinds)
      /\ plan \in Seq(ToSteps) /\ Chained(plan)
      /\ Range(plan) = (k.found \ {"openbao_secrets"}) \cup
                       (IF "openbao_secrets" \in k.found THEN Range(revoke) ELSE {})
      /\ plan # <<>> => Head(plan) \in Free \cup {"delete_auth"}
  BY <1>4, TodoTyped, PrunePlanned
<1>8. /\ n \in Task /\ n.kind = "prune" /\ n.phase = "run" /\ n.todo = plan
      /\ n.undisturbed = k.undisturbed
  BY <1>2, <1>5, <1>7 DEF Task
<1>9. Quiet(n)
  <2>1. Range(plan) \subseteq StepsOf("prune")
    BY <1>7 DEF StepsOf, PruneSteps
  <2>2. plan # <<>> => Head(plan) \notin Ordered
    BY <1>7, FreeSteps DEF Free
  <2>3. ~AtOne(n, Ordered) /\ ~AtOne(n, WithRoleId)
    <3>1. WithRoleId \subseteq Ordered
      BY StepNames DEF WithRoleId, Deployed, Ordered
    <3> QED
      BY <1>8, <2>2, <3>1 DEF AtOne
  <2> QED
    BY <1>7, <1>8, <2>1, <2>3 DEF Quiet, Planned
<1>10. Dropping(n)'
  BY <1>8 DEF Dropping
<1>11. Sought(n)'
  <2>1. /\ Sought(k) /\ Ahead(k, "confirm")
        /\ \A step : Ahead(k, step) => step = "confirm"
    <3>1. Range(k.todo) = {Head(k.todo)} \cup Range(Tail(k.todo))
      BY <1>2, TodoTyped, TailOfPlan DEF Planned
    <3> QED
      BY <1>2, <3>1, LastStep DEF Duty, Ahead
  <2>2. "confirm" \notin Range(Kinds) /\ "confirm" \notin Range(revoke)
    BY StepNames
  <2>3. ~Ahead(n, "confirm")
    BY <1>7, <1>8, <2>2 DEF Ahead
  <2>4. ASSUME k.undisturbed, ~record
        PROVE  \A kind \in Range(Kinds) : Present(kind) => kind \in k.found
    BY <1>2, <2>1, <2>2, <2>4 DEF Sought
  <2>5. /\ \A kind \in Range(Kinds) \ {"openbao_secrets"} : kind \in k.found => Ahead(n, kind)
        /\ "openbao_secrets" \in k.found => Ahead(n, "delete_auth") /\ Ahead(n, "delete_policy")
    BY <1>7, <1>8, StepNames DEF Ahead
  <2>6. \A kind \in Range(Kinds) : Present(kind)' <=> Present(kind)
    BY <1>3, StepNames DEF Present
  <2>7. ASSUME k.undisturbed, ~record
        PROVE  (role # NoId => Ahead(n, "delete_auth")) /\ (policy => Ahead(n, "delete_policy"))
    <3>1. role # NoId \/ policy => "openbao_secrets" \in k.found
      BY <2>4, <2>7, Presence, StepNames
    <3> QED
      BY <2>5, <3>1
  <2> QED
    BY <1>1, <1>3, <1>8, <2>3, <2>4, <2>5, <2>6, <2>7 DEF Sought, ToRevoke
<1>12. task' \in [Tasks -> Task] /\ Lonely' /\ \A u \in Tasks : Duty(task[u])'
  BY <1>1, <1>2, <1>3, <1>6, <1>8, <1>9, <1>10, <1>11, QuietDuty, TaskStep
<1> QED
  BY <1>1, <1>12, SameWorld, BoundsTyped DEF Inv

\* A deletion of a prune: what it does not delete is as it was, or gone.
LEMMA PruneGoes ==
    ASSUME Inv, NEW t \in Tasks, NEW k \in Task, k = task[t], Duty(k), k.kind = "prune", k.phase = "run",
           k.todo # <<>>, Head(k.todo) \in Range(Kinds), ~Finding(t), Becomes(t, Goes(t)),
           UNCHANGED <<record, policy, role>>,
           agent' # "absent" => agent # "absent" /\ Head(k.todo) # "containers",
           "network" \in host' => "network" \in host /\ Head(k.todo) # "networks",
           "route" \in host' => "route" \in host /\ Head(k.todo) # "route_files",
           "repository" \in host' => "repository" \in host /\ Head(k.todo) # "resin_repositories",
           mount' # "none" => mount # "none" /\ Head(k.todo) # "mounts",
           ~k.undisturbed /\ (BothExist => revoked) => (BothExist => revoked)'
    PROVE  /\ task' \in [Tasks -> Task]
           /\ Lonely' /\ \A u \in Tasks : Duty(task[u])'
<1>1. PICK n : n = [k EXCEPT !.todo = Tail(@)]
  OBVIOUS
<1>2. task' = [task EXCEPT ![t] = n] /\ Onward(k, n)
  BY <1>1, Going DEF Becomes, Goes
<1>3. n.kind = "prune" /\ n.undisturbed = k.undisturbed /\ Planned(k) /\ Sought(k)
  BY <1>2 DEF Onward, Duty
<1>4. /\ \A step : step # Head(k.todo) => (Ahead(n, step) <=> Ahead(k, step))
      /\ \A step : Ahead(n, step) => Ahead(k, step)
  BY <1>2, <1>3, StillAhead
<1>5. ~Ahead(k, "confirm") /\ Head(k.todo) \notin Range(revoke) /\ Head(k.todo) \in Free
  BY <1>3, Finds, StepNames, FreeSteps
<1>6. \A kind \in Range(Kinds) \ {"openbao_secrets"} : Present(kind)' => Present(kind) /\ kind # Head(k.todo)
  BY StepNames DEF Present
<1>7. /\ Ahead(n, "delete_auth") <=> Ahead(k, "delete_auth")
      /\ Ahead(n, "delete_policy") <=> Ahead(k, "delete_policy")
      /\ ~Ahead(n, "confirm")
  BY <1>4, <1>5, StepNames
<1>8. Sought(n)'
  BY <1>3, <1>4, <1>5, <1>6, <1>7 DEF Sought, ToRevoke
<1> QED
  BY <1>2, <1>3, <1>5, <1>8, PruneOn

LEMMA PruneContainersKeeps ==
    ASSUME Inv, NEW t \in Tasks, PruneContainers(t)
    PROVE  Inv'
<1>1. /\ At(t, "containers") /\ ~Finding(t)
      /\ UNCHANGED <<record, openbao, disk, host, revoked, bounds>>
      /\ agent' = "absent"
  BY DEF Pruning, PruneContainers
<1>2. PICK k \in Task : /\ k = task[t] /\ Duty(k) /\ Planned(k) /\ k.kind = "prune" /\ k.phase = "run"
                        /\ k.todo # <<>> /\ Head(k.todo) = "containers" /\ Head(k.todo) \in Range(Kinds)
  <2>1. "containers" \in PruneSteps \ Range(revoke) /\ "containers" \in Range(Kinds)
    BY StepNames DEF PruneSteps
  <2> QED
    BY <1>1, <2>1, Acts
<1>3. /\ DiskTyped' /\ World' /\ ((BothExist => revoked) => (BothExist => revoked)')
      /\ mount' # "none" => mount # "none"
      /\ UNCHANGED <<policy, role, live>>
  <2>1. Linked'
    BY <1>1 DEF Inv, World, Linked, docker
  <2>2. Clearing
    BY <1>1 DEF Clearing
  <2> QED
    BY <1>1, <2>1, <2>2, Clears DEF openbao
<1>4. task' \in [Tasks -> Task] /\ Lonely' /\ \A u \in Tasks : Duty(task[u])'
  <2>1. Becomes(t, Goes(t))
    BY DEF PruneContainers
  <2> QED
    BY <1>1, <1>2, <1>3, <2>1, PruneGoes DEF disk, docker
<1>5. TypeOK'
  <2>1. /\ agent' \in {"absent", "stopped", "running"}
        /\ host' \subseteq {"network", "repository", "route", "traefik"}
    BY <1>1 DEF Inv, TypeOK, docker
  <2> QED
    BY <1>1, <1>3, <1>4, <2>1, BoundsTyped DEF Inv, TypeOK, DiskTyped
<1> QED
  BY <1>3, <1>4, <1>5 DEF Inv

LEMMA PruneNetworksKeeps ==
    ASSUME Inv, NEW t \in Tasks, PruneNetworks(t)
    PROVE  Inv'
<1>1. /\ At(t, "networks") /\ ~Finding(t)
      /\ UNCHANGED <<record, openbao, disk, agent, revoked, bounds>>
      /\ IF "network" \in host /\ agent = "absent"
         THEN host' = (host \ {"traefik"}) \ {"network"} ELSE host' = host \ {"traefik"}
  BY DEF Pruning, PruneNetworks, DeleteNetwork
<1>2. PICK k \in Task : /\ k = task[t] /\ Duty(k) /\ Planned(k) /\ k.kind = "prune" /\ k.phase = "run"
                        /\ k.todo # <<>> /\ Head(k.todo) = "networks" /\ Head(k.todo) \in Range(Kinds)
  <2>1. "networks" \in PruneSteps \ Range(revoke) /\ "networks" \in Range(Kinds)
    BY StepNames DEF PruneSteps
  <2> QED
    BY <1>1, <2>1, Acts
<1>3. /\ DiskTyped' /\ World' /\ ((BothExist => revoked) => (BothExist => revoked)')
      /\ mount' # "none" => mount # "none"
      /\ UNCHANGED <<policy, role, live>>
  <2>1. Linked'
    BY <1>1 DEF Inv, World, Linked, docker
  <2>2. Clearing
    BY <1>1 DEF Clearing
  <2> QED
    BY <1>1, <2>1, <2>2, Clears DEF openbao
<1>4. task' \in [Tasks -> Task] /\ Lonely' /\ \A u \in Tasks : Duty(task[u])'
  <2>1. CASE ~("network" \in host /\ agent = "absent")
    BY <1>1, <1>2, <1>3, <2>1, Fails DEF PruneNetworks, DeleteNetwork
  <2>2. CASE ~(~("network" \in host /\ agent = "absent"))
    <3>1. Becomes(t, Goes(t))
      BY <2>2 DEF PruneNetworks, DeleteNetwork
    <3> QED
      BY <1>1, <1>2, <1>3, <2>2, <3>1, PruneGoes DEF disk, docker
  <2> QED
    BY <2>1, <2>2
<1>5. TypeOK'
  <2>1. /\ agent' \in {"absent", "stopped", "running"}
        /\ host' \subseteq {"network", "repository", "route", "traefik"}
    BY <1>1 DEF Inv, TypeOK, docker
  <2> QED
    BY <1>1, <1>3, <1>4, <2>1, BoundsTyped DEF Inv, TypeOK, DiskTyped
<1> QED
  BY <1>3, <1>4, <1>5 DEF Inv

LEMMA PruneRouteFilesKeeps ==
    ASSUME Inv, NEW t \in Tasks, PruneRouteFiles(t)
    PROVE  Inv'
<1>1. /\ At(t, "route_files") /\ ~Finding(t)
      /\ UNCHANGED <<record, openbao, disk, agent, revoked, bounds>>
      /\ host' = host \ {"traefik", "route"}
  BY DEF Pruning, PruneRouteFiles
<1>2. PICK k \in Task : /\ k = task[t] /\ Duty(k) /\ Planned(k) /\ k.kind = "prune" /\ k.phase = "run"
                        /\ k.todo # <<>> /\ Head(k.todo) = "route_files" /\ Head(k.todo) \in Range(Kinds)
  <2>1. "route_files" \in PruneSteps \ Range(revoke) /\ "route_files" \in Range(Kinds)
    BY StepNames DEF PruneSteps
  <2> QED
    BY <1>1, <2>1, Acts
<1>3. /\ DiskTyped' /\ World' /\ ((BothExist => revoked) => (BothExist => revoked)')
      /\ mount' # "none" => mount # "none"
      /\ UNCHANGED <<policy, role, live>>
  <2>1. Linked'
    BY <1>1 DEF Inv, World, Linked, docker
  <2>2. Clearing
    BY <1>1 DEF Clearing
  <2> QED
    BY <1>1, <2>1, <2>2, Clears DEF openbao
<1>4. task' \in [Tasks -> Task] /\ Lonely' /\ \A u \in Tasks : Duty(task[u])'
  <2>1. Becomes(t, Goes(t))
    BY DEF PruneRouteFiles
  <2> QED
    BY <1>1, <1>2, <1>3, <2>1, PruneGoes DEF disk, docker
<1>5. TypeOK'
  <2>1. /\ agent' \in {"absent", "stopped", "running"}
        /\ host' \subseteq {"network", "repository", "route", "traefik"}
    BY <1>1 DEF Inv, TypeOK, docker
  <2> QED
    BY <1>1, <1>3, <1>4, <2>1, BoundsTyped DEF Inv, TypeOK, DiskTyped
<1> QED
  BY <1>3, <1>4, <1>5 DEF Inv

LEMMA PruneRepositoriesKeeps ==
    ASSUME Inv, NEW t \in Tasks, PruneRepositories(t)
    PROVE  Inv'
<1>1. /\ At(t, "resin_repositories") /\ ~Finding(t)
      /\ UNCHANGED <<record, openbao, disk, agent, revoked, bounds>>
      /\ host' = host \ {"repository"}
  BY DEF Pruning, PruneRepositories
<1>2. PICK k \in Task : /\ k = task[t] /\ Duty(k) /\ Planned(k) /\ k.kind = "prune" /\ k.phase = "run"
                        /\ k.todo # <<>> /\ Head(k.todo) = "resin_repositories" /\ Head(k.todo) \in Range(Kinds)
  <2>1. "resin_repositories" \in PruneSteps \ Range(revoke) /\ "resin_repositories" \in Range(Kinds)
    BY StepNames DEF PruneSteps
  <2> QED
    BY <1>1, <2>1, Acts
<1>3. /\ DiskTyped' /\ World' /\ ((BothExist => revoked) => (BothExist => revoked)')
      /\ mount' # "none" => mount # "none"
      /\ UNCHANGED <<policy, role, live>>
  <2>1. Linked'
    BY <1>1 DEF Inv, World, Linked, docker
  <2>2. Clearing
    BY <1>1 DEF Clearing
  <2> QED
    BY <1>1, <2>1, <2>2, Clears DEF openbao
<1>4. task' \in [Tasks -> Task] /\ Lonely' /\ \A u \in Tasks : Duty(task[u])'
  <2>1. Becomes(t, Goes(t))
    BY DEF PruneRepositories
  <2> QED
    BY <1>1, <1>2, <1>3, <2>1, PruneGoes DEF disk, docker
<1>5. TypeOK'
  <2>1. /\ agent' \in {"absent", "stopped", "running"}
        /\ host' \subseteq {"network", "repository", "route", "traefik"}
    BY <1>1 DEF Inv, TypeOK, docker
  <2> QED
    BY <1>1, <1>3, <1>4, <2>1, BoundsTyped DEF Inv, TypeOK, DiskTyped
<1> QED
  BY <1>3, <1>4, <1>5 DEF Inv

LEMMA PruneMountsKeeps ==
    ASSUME Inv, NEW t \in Tasks, PruneMounts(t)
    PROVE  Inv'
<1>1. /\ At(t, "mounts") /\ ~Finding(t)
      /\ UNCHANGED <<record, openbao, docker, bounds>> /\ FolderDeleted
      /\ mount # "ramdisk" => mount' = "none"
  BY DEF Pruning, PruneMounts, DeleteMounts, FolderDeleted
<1>2. PICK k \in Task : /\ k = task[t] /\ Duty(k) /\ Planned(k) /\ k.kind = "prune" /\ k.phase = "run"
                        /\ k.todo # <<>> /\ Head(k.todo) = "mounts" /\ Head(k.todo) \in Range(Kinds)
  <2>1. "mounts" \in PruneSteps \ Range(revoke) /\ "mounts" \in Range(Kinds)
    BY StepNames DEF PruneSteps
  <2> QED
    BY <1>1, <2>1, Acts
<1>3. /\ DiskTyped' /\ World' /\ ((BothExist => revoked) => (BothExist => revoked)')
      /\ mount' # "none" => mount # "none"
      /\ UNCHANGED <<policy, role, live>>
  <2>1. Linked'
    BY <1>1 DEF Inv, World, Linked, docker
  <2>2. Clearing
    BY <1>1 DEF Clearing
  <2> QED
    BY <1>1, <2>1, <2>2, Clears DEF openbao
<1>4. task' \in [Tasks -> Task] /\ Lonely' /\ \A u \in Tasks : Duty(task[u])'
  <2>1. CASE mount = "ramdisk"
    BY <1>1, <1>2, <1>3, <2>1, Fails DEF PruneMounts, DeleteMounts
  <2>2. CASE ~(mount = "ramdisk")
    <3>1. Becomes(t, Goes(t))
      BY <2>2 DEF PruneMounts, DeleteMounts
    <3> QED
      BY <1>1, <1>2, <1>3, <2>2, <3>1, PruneGoes DEF disk, docker
  <2> QED
    BY <2>1, <2>2
<1>5. TypeOK'
  <2>1. /\ agent' \in {"absent", "stopped", "running"}
        /\ host' \subseteq {"network", "repository", "route", "traefik"}
    BY <1>1 DEF Inv, TypeOK, docker
  <2> QED
    BY <1>1, <1>3, <1>4, <2>1, BoundsTyped DEF Inv, TypeOK, DiskTyped
<1> QED
  BY <1>3, <1>4, <1>5 DEF Inv

LEMMA HalfDoneKeeps ==
    ASSUME Inv, NEW t \in Tasks, HalfDone(t)
    PROVE  Inv'
<1>1. /\ task[t].phase = "run" /\ task[t].todo # <<>> /\ Fault /\ Becomes(t, FailedTask(t))
      /\ UNCHANGED <<record, openbao, disk, revoked>>
      /\ \/ host' = host /\ agent' = "stopped"
         \/ host' = host \ {"traefik"} /\ agent' = agent
  BY DEF HalfDone, Pruning, At
<1>2. /\ (BothExist => revoked) => (BothExist => revoked)'
      /\ UNCHANGED <<policy, role, live, mount, file, below>>
  BY <1>1 DEF BothExist, disk, openbao
<1>3. task' \in [Tasks -> Task] /\ Lonely' /\ \A u \in Tasks : Duty(task[u])'
  BY <1>1, <1>2, Fails
<1>4. Linked'
  BY <1>1 DEF Inv, World, Linked
<1>5. World'
  BY <1>1, <1>4, Clears DEF Clearing, disk
<1>6. TypeOK'
  BY <1>1, <1>2, <1>3, FaultTyped DEF Inv, TypeOK
<1> QED
  BY <1>3, <1>5, <1>6 DEF Inv

-----------------------------------------------------------------------------
(* The invariant, and what follows from it *)

LEMMA Beginning == Init => Inv
<1> SUFFICES ASSUME Init PROVE Inv
  OBVIOUS
<1>1. task = [t \in Tasks |-> Idle] /\ file = NoFiles /\ below = NoFiles /\ host = {} /\ live = {}
  BY DEF Init
<1>2. TypeOK
  <2>1. /\ record = FALSE /\ policy = FALSE /\ revoked = FALSE /\ role = NoId /\ mount = "none"
        /\ agent = "absent" /\ requests = 0 /\ faults = 0
    BY DEF Init
  <2>2. task \in [Tasks -> Task]
    BY <1>1, IdleQuiet
  <2>3. requests \in 0..MaxRequests /\ faults \in 0..MaxFaults
    BY <2>1, ProvisioningAssumption
  <2> QED
    BY <1>1, <2>1, <2>2, <2>3, FilesTyped DEF TypeOK
<1>3. Lonely
  BY <1>1, IdleQuiet DEF Lonely
<1>4. World
  BY <1>1 DEF World, Linked, Issued, InOrder, Suspect, FilesAreAccepted, BothExist, NoFiles, Credentials
<1>5. ASSUME NEW t \in Tasks PROVE Duty(task[t])
  <2>1. task[t] = Idle
    BY <1>1
  <2>2. Planned(Idle) /\ ~Idle.undisturbed /\ Idle.phase = "idle"
    BY IdleQuiet DEF Quiet, Idle
  <2>3. Untrusted(Idle) /\ Provisioned(Idle) /\ Dropping(Idle) /\ Sought(Idle)
    BY <2>2 DEF Untrusted, Provisioned, Dropping, Sought, AtOne
  <2> QED
    BY <2>1, <2>2, <2>3 DEF Duty
<1> QED
  BY <1>2, <1>3, <1>4, <1>5 DEF Inv

\* No step breaks it: one lemma for each action of Next.
LEMMA NextKeeps == Inv /\ [Next]_vars => Inv'
<1> SUFFICES ASSUME Inv, [Next]_vars PROVE Inv'
  OBVIOUS
<1>1. ASSUME NEW t \in Tasks, Deploys(t) PROVE Inv'
  BY <1>1, PushImageKeeps, LookKeeps, CreatePolicyKeeps, CreateAuthKeeps, ListAccessorsKeeps,
     DestroyAccessorKeeps, GetRoleIdKeeps, CreateAuthSecretKeeps, DiscoverKeeps, CreateSeedlingKeeps,
     EnsureAgentMountKeeps, MountRamDiskKeeps, WriteRoleIdKeeps, WriteSecretIdKeeps, WriteCutOffKeeps,
     BuildAgentContainerKeeps, BuildAgentContainerInterruptedKeeps, StartContainerKeeps,
     WriteRouteKeeps, ConnectTraefikKeeps, UndoKeeps DEF Deploys
<1>2. ASSUME NEW t \in Tasks, Drops(t) PROVE Inv'
  BY <1>2, DropSeedlingKeeps, DeleteAuthKeeps, DeletePolicyKeeps, DiscoverDropKeeps,
     RemoveTraefikRouteKeeps, DropContainerKeeps, DeleteSeedlingNetworkKeeps, DeleteSeedbankEntryKeeps,
     UnmountAgentRamDiskKeeps, DeleteSeedlingMountsKeeps, DeleteResinRepositoryKeeps DEF Drops
<1>3. ASSUME NEW t \in Tasks, Prunes(t) PROVE Inv'
  BY <1>3, PruneDeadwoodKeeps, ListRecordsKeeps, ObserveKeeps, ObserveBlindKeeps, ConfirmKeeps,
     PruneContainersKeeps, PruneNetworksKeeps, PruneRouteFilesKeeps, PruneRepositoriesKeeps,
     PruneMountsKeeps DEF Prunes
<1>4. ASSUME NEW t \in Tasks, CallFails(t) \/ HalfDone(t) \/ Ends(t) PROVE Inv'
  BY <1>4, CallFailsKeeps, HalfDoneKeeps, EndsKeeps
<1>5. CASE NewSeedling
  BY <1>5, NewSeedlingKeeps
<1>6. CASE AgentStarts \/ AgentStops
  BY <1>6, AgentKeeps
<1>7. CASE Crash \/ Reboot
  BY <1>7, RestartKeeps
<1>8. CASE UNCHANGED vars
  <2>1. UNCHANGED <<record, policy, role, live, mount, file, below, agent, host, task, revoked, requests, faults>>
    BY <1>8 DEF vars, openbao, disk, docker, bounds
  <2>2. TypeOK' /\ Lonely' /\ World'
    BY <2>1 DEF Inv, TypeOK, Lonely, Alone, World, Linked, Issued, InOrder, Suspect, FilesAreAccepted, BothExist
  <2>3. ASSUME NEW t \in Tasks PROVE Duty(task[t])'
    BY <2>1 DEF Inv, Duty, Planned, Untrusted, Provisioned, Dropping, Sought, AtOne, Ahead, Accepts,
                ToRevoke, BothExist, Present
  <2> QED
    BY <2>2, <2>3 DEF Inv
<1> QED
  BY <1>1, <1>2, <1>3, <1>4, <1>5, <1>6, <1>7, <1>8 DEF Next

\* The inductive invariant: every task keeps to its plan, one that is undisturbed has
\* nothing beside it, and what it relies on at each of its steps is so.
THEOREM Invariant == Spec => []Inv
BY Beginning, NextKeeps, PTL DEF Spec

\* The variables keep their types, whatever the tasks, the requests and the faults.
THEOREM TypeCorrect == Spec => []TypeOK
<1>1. Inv => TypeOK
  BY DEF Inv
<1> QED
  BY <1>1, Invariant, PTL

\* What a deployment would take from the files of the ram disk is what OpenBao accepts, and
\* OpenBao accepts no other secret id: unless they were torn, revoked or written by
\* deployments that overlapped, through any crash, reboot, rollback and failed call.
THEOREM AcceptedCorrect == Spec => []FilesAreAccepted
<1>1. Inv => FilesAreAccepted
  BY DEF Inv, World
<1> QED
  BY <1>1, Invariant, PTL

\* A step of anything but a write leaves on the disk what was there, or nothing.
LEMMA WritesOnly ==
    ASSUME Inv, [Next]_vars,
           ~\E t \in Tasks : ~task[t].undisturbed /\ (At(t, "write_role_id") \/ At(t, "write_secret_id")),
           NEW f \in Credentials
    PROVE  OnDisk'[f] \in {OnDisk[f], NoId}
<1>1. DiskTyped /\ NoFiles[f] = NoId
  BY FilesTyped DEF Inv, TypeOK, DiskTyped, Credentials
<1>2. CASE Clearing
  BY <1>1, <1>2 DEF Clearing, Unmounted, FolderDeleted, OnDisk, disk, DiskTyped
<1>3. CASE UNCHANGED disk
  BY <1>3 DEF disk, OnDisk
<1>4. ASSUME NEW t \in Tasks, EnsureAgentMount(t) PROVE OnDisk' = OnDisk
  BY <1>1, <1>4 DEF EnsureAgentMount, OnDisk, DiskTyped
<1>5. ASSUME NEW t \in Tasks, MountRamDisk(t) PROVE OnDisk' = OnDisk
  BY <1>1, <1>5 DEF MountRamDisk, NeedsRamDisk, OnDisk, disk
<1>6. ASSUME NEW t \in Tasks, WriteRoleId(t) \/ WriteSecretId(t) \/ WriteCutOff(t) PROVE OnDisk' = OnDisk
  <2>1. /\ At(t, "write_role_id") \/ At(t, "write_secret_id")
        /\ UNCHANGED <<mount, below>>
    BY <1>6 DEF WriteRoleId, WriteSecretId, WriteCutOff
  <2>2. task[t].undisturbed /\ Provisioned(task[t]) /\ AtOne(task[t], {"write_role_id", "write_secret_id"})
    BY <2>1 DEF Inv, Duty, At, AtOne
  <2>3. mount = "ramdisk"
    BY <2>2 DEF Provisioned
  <2> QED
    BY <2>1, <2>3 DEF OnDisk
<1>7. ASSUME NEW t \in Tasks, Deploys(t) PROVE OnDisk'[f] \in {OnDisk[f], NoId}
  <2>1. CASE Undo(t) \/ UndoFails(t)
    <3>1. Clearing
      BY <2>1 DEF Undo, UndoFails, Clearing
    <3> QED
      BY <1>2, <3>1
  <2>2. CASE \/ PushImage(t) \/ Look(t) \/ CreatePolicy(t) \/ CreateAuth(t) \/ ListAccessors(t)
            \/ DestroyAccessor(t) \/ GetRoleId(t) \/ CreateAuthSecret(t) \/ Discover(t) \/ CreateSeedling(t)
            \/ BuildAgentContainer(t) \/ BuildAgentContainerInterrupted(t) \/ StartContainer(t)
            \/ WriteRoute(t) \/ ConnectTraefik(t)
    <3>1. UNCHANGED disk
      BY <2>2 DEF PushImage, Look, CreatePolicy, CreateAuth, ListAccessors, DestroyAccessor, GetRoleId,
                  CreateAuthSecret, Discover, CreateSeedling, BuildAgentContainer,
                  BuildAgentContainerInterrupted, StartContainer, WriteRoute, ConnectTraefik
    <3> QED
      BY <1>3, <3>1
  <2> QED
    BY <1>4, <1>5, <1>6, <1>7, <2>1, <2>2 DEF Deploys
<1>8. ASSUME NEW t \in Tasks, Drops(t) PROVE Clearing \/ UNCHANGED disk
  BY <1>8 DEF Drops, DropSeedling, DeleteAuth, DeletePolicy, DiscoverDrop, RemoveTraefikRoute,
              DropContainer, DeleteSeedlingNetwork, DeleteSeedbankEntry, UnmountAgentRamDisk,
              DeleteSeedlingMounts, DeleteMounts, DeleteResinRepository, Clearing
<1>9. ASSUME NEW t \in Tasks, Prunes(t) PROVE Clearing \/ UNCHANGED disk
  BY <1>9 DEF Prunes, PruneDeadwood, ListRecords, Observe, ObserveBlind, Confirm, PruneContainers,
              PruneNetworks, PruneRouteFiles, PruneRepositories, PruneMounts, DeleteMounts, Clearing
<1>10. ASSUME NEW t \in Tasks, CallFails(t) \/ HalfDone(t) \/ Ends(t) PROVE UNCHANGED disk
  BY <1>10 DEF CallFails, HalfDone, Ends
<1>11. CASE NewSeedling \/ AgentStarts \/ AgentStops \/ Crash \/ Reboot \/ UNCHANGED vars
  BY <1>2, <1>3, <1>11 DEF NewSeedling, AgentStarts, AgentStops, Crash, Reboot, Clearing, vars
<1> QED
  BY <1>2, <1>3, <1>7, <1>8, <1>9, <1>10, <1>11 DEF Next

\* A credential reaches a disk that outlives the host only from a deployment beside which
\* something else ran, with any connections, ids, requests and faults.
THEOREM MemoryCorrect == Spec => CredentialsInMemory
<1>1. Inv /\ [Next]_vars =>
        [\A f \in Credentials : OnDisk'[f] \in {OnDisk[f], NoId}
           \/ \E t \in Tasks : ~task[t].undisturbed /\ (At(t, "write_role_id") \/ At(t, "write_secret_id"))]_vars
  BY WritesOnly
<1> QED
  BY <1>1, Invariant, PTL DEF Spec, CredentialsInMemory

\* An undisturbed drop of a seedling the seedbank had, or prune of one it has not, that ends
\* leaves nothing of the seedling, however many tasks had failed half-way before it.
THEOREM NothingCorrect == Spec => NothingIsLeft
<1>1. Inv => [\A t \in Tasks :
                /\ task[t].undisturbed /\ Ends(t)
                /\ \/ task[t].kind = "drop" /\ task[t].knew
                   \/ task[t].kind = "prune" /\ ~record
                => Nothing]_vars
  <2> SUFFICES ASSUME Inv, NEW t \in Tasks, task[t].undisturbed, Ends(t),
                      \/ task[t].kind = "drop" /\ task[t].knew
                      \/ task[t].kind = "prune" /\ ~record
               PROVE  Nothing
    OBVIOUS
  <2>1. PICK k \in Task : k = task[t] /\ Duty(k)
    BY DEF Inv, TypeOK
  <2>2. \A step : ~Ahead(k, step)
    BY <2>1, ShortPlans DEF Ends, Ahead
  <2>3. /\ role = NoId /\ ~policy /\ ~record /\ mount = "none" /\ agent = "absent"
        /\ host \cap {"network", "route", "repository"} = {}
    <3>1. CASE k.kind = "drop" /\ k.knew
      BY <2>1, <2>2, <3>1 DEF Duty, Dropping, ToRevoke
    <3>2. CASE k.kind = "prune" /\ ~record
      <4>1. Sought(k) /\ k.undisturbed
        BY <2>1 DEF Duty
      <4>2. \A kind \in Range(Kinds) \ {"openbao_secrets"} : ~Present(kind)
        BY <2>2, <3>2, <4>1 DEF Sought
      <4>3. role = NoId /\ ~policy
        BY <2>2, <3>2, <4>1 DEF Sought, ToRevoke
      <4> QED
        BY <3>2, <4>2, <4>3, Presence, StepNames
    <3> QED
      BY <2>1, <3>1, <3>2
  <2>4. live = {} /\ host = {}
    BY <2>3 DEF Inv, TypeOK, World, Linked, Issued
  <2> QED
    BY <2>3, <2>4 DEF Nothing
<1> QED
  BY <1>1, Invariant, PTL DEF NothingIsLeft

-----------------------------------------------------------------------------
(* The executor of plans *)

\* What one rollback does to the journal and to the list of undone commands.
LEMMA RollbackMoves ==
    ASSUME ExecutorTypeOK, Rollback
    PROVE  /\ Len(journal) \in Nat \ {0} /\ Len(undone) \in Nat
           /\ journal[Len(journal)] \in Position
           /\ journal' \in Seq(Position)
           /\ Len(journal') = Len(journal) - 1
           /\ \A i \in 1..Len(journal) - 1 : journal'[i] = journal[i]
           /\ undone' \in Seq(Position)
           /\ Len(undone') = Len(undone) + 1
           /\ \A i \in 1..Len(undone) : undone'[i] = undone[i]
           /\ undone'[Len(undone) + 1] = journal[Len(journal)]
           /\ UNCHANGED <<commands, step_index, phase>>
           /\ phase = "undoing"
<1>1. journal \in Seq(Position) /\ journal # <<>> /\ undone \in Seq(Position)
  BY DEF ExecutorTypeOK, Rollback, HasUndo
<1>2. /\ journal' = SubSeq(journal, 1, Len(journal) - 1)
      /\ undone' = Append(undone, journal[Len(journal)])
      /\ UNCHANGED <<commands, step_index, phase>>
      /\ phase = "undoing"
  BY DEF Rollback, HasUndo, Latest
<1>3. journal[Len(journal)] \in Position
  BY <1>1, FrontOfJournal
<1>4. /\ undone' \in Seq(Position)
      /\ Len(undone') = Len(undone) + 1
      /\ \A i \in 1..Len(undone) : undone'[i] = undone[i]
      /\ undone'[Len(undone) + 1] = journal[Len(journal)]
  BY <1>1, <1>2, <1>3, AppendProperties
<1> QED
  BY <1>1, <1>2, <1>3, <1>4, FrontOfJournal

\* The executor's variables keep their types in every plan, however long.
THEOREM ExecutorTyped == ExecutorSpec => []ExecutorTypeOK
<1> USE PlanAssumption DEF Position, Phase, Effect
<1>1. ExecutorInit => ExecutorTypeOK
  BY DEF ExecutorInit, ExecutorTypeOK
<1>2. ExecutorTypeOK /\ [ExecutorNext]_executor_vars => ExecutorTypeOK'
  <2> SUFFICES ASSUME ExecutorTypeOK, [ExecutorNext]_executor_vars
               PROVE  ExecutorTypeOK'
    OBVIOUS
  <2> USE DEF ExecutorTypeOK
  <2>1. CASE Skip
    BY <2>1 DEF Skip, HasNext
  <2>2. CASE RunSucceeds
    BY <2>2 DEF RunSucceeds, HasNext
  <2>3. CASE RunFails
    BY <2>3 DEF RunFails, HasNext, LeavesSomething
  <2>4. CASE Rollback
    <3>1. journal[Len(journal)] \in Position
      BY <2>4, RollbackMoves
    <3>2. rollback_errors' \subseteq Position /\ effect' \in [Position -> Effect]
      BY <2>4, <3>1 DEF Rollback, Latest, RollbackError, RollbackOk, LeftByRollback
    <3>3. lasting' = lasting
      BY <2>4 DEF Rollback
    <3> QED
      BY <2>4, <3>2, <3>3, RollbackMoves
  <2>5. CASE Finish
    BY <2>5 DEF Finish
  <2>6. CASE UNCHANGED executor_vars
    BY <2>6 DEF executor_vars
  <2> QED
    BY <2>1, <2>2, <2>3, <2>4, <2>5, <2>6 DEF ExecutorNext
<1> QED
  BY <1>1, <1>2, PTL DEF ExecutorSpec

\* JournalCoversThePlan is inductive on its own (given the types): each action
\* moves one command from the plan to the journal, or from the journal to undone.
THEOREM ExecutorJournal == ExecutorSpec => []JournalCoversThePlan
<1> USE PlanAssumption DEF Position
<1>1. ExecutorInit => JournalCoversThePlan
  BY DEF ExecutorInit, JournalCoversThePlan
<1>2. ExecutorTypeOK /\ JournalCoversThePlan /\ [ExecutorNext]_executor_vars => JournalCoversThePlan'
  <2> SUFFICES ASSUME ExecutorTypeOK, JournalCoversThePlan, [ExecutorNext]_executor_vars
               PROVE  JournalCoversThePlan'
    OBVIOUS
  <2> USE DEF ExecutorTypeOK, JournalCoversThePlan
  <2>1. CASE Skip
    BY <2>1 DEF Skip, HasNext
  <2>2. CASE RunSucceeds
    BY <2>2 DEF RunSucceeds, HasNext
  <2>3. CASE RunFails
    BY <2>3 DEF RunFails, HasNext, LeavesSomething
  <2>4. CASE Rollback
    <3> HIDE DEF ExecutorTypeOK, JournalCoversThePlan
    <3>0. Rollback
      BY <2>4
    <3>1. \A i \in 1..Len(journal') : journal'[i] = i
      <4>1. Len(journal') = Len(journal) - 1 /\ Len(journal) \in Nat
        BY <3>0, RollbackMoves
      <4>2. \A i \in 1..Len(journal) - 1 : journal'[i] = journal[i]
        BY <3>0, RollbackMoves
      <4> QED
        BY <4>1, <4>2 DEF JournalCoversThePlan
    <3>2. Len(journal') + Len(undone') = step_index' - 1
      <4>1. Len(journal) \in Nat /\ Len(undone) \in Nat /\ step_index \in Nat
        BY <3>0, RollbackMoves DEF ExecutorTypeOK
      <4>2. Len(journal') = Len(journal) - 1 /\ Len(undone') = Len(undone) + 1
        BY <3>0, RollbackMoves
      <4>3. step_index' = step_index
        BY <3>0, RollbackMoves
      <4> QED
        BY <4>1, <4>2, <4>3 DEF JournalCoversThePlan
    <3>3. phase' = "undoing"
      BY <3>0, RollbackMoves
    <3> QED
      BY <3>1, <3>2, <3>3 DEF JournalCoversThePlan
  <2>5. CASE Finish
    BY <2>5 DEF Finish
  <2>6. CASE UNCHANGED executor_vars
    BY <2>6 DEF executor_vars
  <2> QED
    BY <2>1, <2>2, <2>3, <2>4, <2>5, <2>6 DEF ExecutorNext
<1> QED
  BY <1>1, <1>2, ExecutorTyped, PTL DEF ExecutorSpec

\* The command that a rollback undoes is the one before the last that was undone.
LEMMA UndoneNext ==
    ASSUME ExecutorTypeOK, JournalCoversThePlan, UndoneInReverse, Rollback
    PROVE  UndoneInReverse'
<1>1. /\ Len(journal) \in Nat \ {0} /\ Len(undone) \in Nat
      /\ Len(undone') = Len(undone) + 1 /\ step_index' = step_index
      /\ \A i \in 1..Len(undone) : undone'[i] = undone[i]
      /\ undone'[Len(undone) + 1] = journal[Len(journal)]
  BY RollbackMoves
<1>2. step_index \in Int
  BY PlanAssumption DEF ExecutorTypeOK
<1>3. journal[Len(journal)] = Len(journal) /\ Len(journal) + Len(undone) = step_index - 1
  BY <1>1 DEF JournalCoversThePlan
<1>4. Len(journal) = step_index - (Len(undone) + 1)
  BY <1>1, <1>2, <1>3
<1>5. SUFFICES ASSUME NEW i \in 1..Len(undone) + 1
               PROVE  undone'[i] = step_index - i
  BY <1>1 DEF UndoneInReverse
<1>6. CASE i = Len(undone) + 1
  BY <1>1, <1>3, <1>4, <1>6
<1>7. CASE i \in 1..Len(undone)
  BY <1>1, <1>7 DEF UndoneInReverse
<1> QED
  BY <1>1, <1>6, <1>7

\* A rollback goes through the plan strictly backwards, whatever fails in it: the
\* command undone next is the last of the journal, which JournalCoversThePlan
\* places just before the one undone before it.
THEOREM ExecutorUndo == ExecutorSpec => []UndoneInReverse
<1> USE PlanAssumption DEF Position
<1>1. ExecutorInit => UndoneInReverse
  BY DEF ExecutorInit, UndoneInReverse
<1>2. ExecutorTypeOK /\ JournalCoversThePlan /\ UndoneInReverse /\ [ExecutorNext]_executor_vars => UndoneInReverse'
  <2> SUFFICES ASSUME ExecutorTypeOK, JournalCoversThePlan, UndoneInReverse, [ExecutorNext]_executor_vars
               PROVE  UndoneInReverse'
    OBVIOUS
  <2> USE DEF ExecutorTypeOK, JournalCoversThePlan, UndoneInReverse
  <2>1. CASE Skip
    BY <2>1 DEF Skip, HasNext
  <2>2. CASE RunSucceeds
    BY <2>2 DEF RunSucceeds, HasNext
  <2>3. CASE RunFails
    BY <2>3 DEF RunFails, HasNext, LeavesSomething
  <2>4. CASE Rollback
    BY <2>4, UndoneNext
  <2>5. CASE Finish
    BY <2>5 DEF Finish
  <2>6. CASE UNCHANGED executor_vars
    BY <2>6 DEF executor_vars
  <2> QED
    BY <2>1, <2>2, <2>3, <2>4, <2>5, <2>6 DEF ExecutorNext
<1> QED
  BY <1>1, <1>2, ExecutorTyped, ExecutorJournal, PTL DEF ExecutorSpec

\* What is known of the effects and of the phase at every step, which the outcome
\* follows from: an effect is that of a journaled command, which completed, or that of
\* the failing one, or its rollback failed or had nothing to do.
EffectsAreKnown ==
    /\ \A i \in Position : effect[i] # "none" =>
          \/ i <= Len(journal) /\ effect[i] = "done"
          \/ i = step_index /\ phase \in {"undoing", "Failed"}
          \/ i \in rollback_errors
          \/ i \in lasting /\ effect[i] = "done" /\ phase \in {"undoing", "Failed"}
    /\ phase \in {"running", "Success"} => rollback_errors = {}
    /\ phase = "running" => step_index <= commands + 1
    /\ phase = "Success" => step_index = commands + 1
    /\ phase = "Failed" => journal = <<>>

\* A command that completes is the last of the journal.
LEMMA RunKeepsEffects ==
    ASSUME ExecutorTypeOK, JournalCoversThePlan, EffectsAreKnown, Skip \/ RunSucceeds
    PROVE  EffectsAreKnown'
<1>1. /\ HasNext /\ journal' = Append(journal, step_index) /\ step_index' = step_index + 1
      /\ UNCHANGED <<commands, phase, rollback_errors>>
      /\ effect' = effect \/ effect' = [effect EXCEPT ![step_index] = "done"]
  BY DEF Skip, RunSucceeds
<1>2. /\ step_index \in Position /\ commands \in Nat /\ step_index <= commands
      /\ journal \in Seq(Position) /\ effect \in [Position -> Effect] /\ phase = "running"
  BY <1>1, PlanAssumption DEF HasNext, ExecutorTypeOK, Position
<1>3. Len(journal) = step_index - 1 /\ Len(journal') = step_index
  <2>1. undone = <<>> /\ Len(journal) + Len(undone) = step_index - 1
    BY <1>2 DEF JournalCoversThePlan
  <2>2. Len(journal') = Len(journal) + 1 /\ Len(journal) \in Nat
    BY <1>1, <1>2, AppendProperties, LenProperties
  <2> QED
    BY <1>2, <2>1, <2>2 DEF Position
<1>4. ASSUME NEW i \in Position, effect'[i] # "none"
      PROVE  i <= Len(journal') /\ effect'[i] = "done"
  <2>1. CASE effect'[i] = effect[i]
    <3>1. i <= Len(journal) /\ effect[i] = "done"
      BY <1>2, <1>4, <2>1 DEF EffectsAreKnown
    <3> QED
      BY <1>2, <1>3, <2>1, <3>1 DEF Position
  <2>2. CASE effect'[i] # effect[i]
    <3>1. i = step_index /\ effect'[i] = "done"
      BY <1>1, <1>2, <2>2
    <3> QED
      BY <1>2, <1>3, <3>1 DEF Position
  <2> QED
    BY <2>1, <2>2
<1>5. phase' = "running" /\ rollback_errors' = {}
  BY <1>1, <1>2 DEF EffectsAreKnown
<1>6. step_index' <= commands' + 1
  BY <1>1, <1>2 DEF Position
<1> QED
  BY <1>4, <1>5, <1>6 DEF EffectsAreKnown

\* The command that is undone leaves nothing, or all it did, or its rollback failed.
LEMMA RollbackKeepsEffects ==
    ASSUME ExecutorTypeOK, JournalCoversThePlan, EffectsAreKnown, Rollback
    PROVE  EffectsAreKnown'
<1> DEFINE cmd == Len(journal)
<1>1. /\ Len(journal) \in Nat \ {0} /\ Len(journal') = Len(journal) - 1
      /\ UNCHANGED <<step_index, phase>> /\ phase = "undoing" /\ cmd \in Position
      /\ journal[Len(journal)] = cmd
  BY RollbackMoves DEF JournalCoversThePlan
<1>2. effect \in [Position -> Effect] /\ lasting' = lasting
  BY DEF ExecutorTypeOK, Rollback
<1>3. /\ \A i \in Position : i # cmd => effect'[i] = effect[i]
      /\ rollback_errors \subseteq rollback_errors'
      /\ \/ effect'[cmd] = "none"
         \/ cmd \in lasting /\ effect'[cmd] = effect[cmd]
         \/ cmd \in rollback_errors'
  BY <1>1, <1>2 DEF Rollback, RollbackError, RollbackOk, LeftByRollback, Latest
<1>4. ASSUME NEW i \in Position, effect'[i] # "none"
      PROVE  \/ i <= Len(journal') /\ effect'[i] = "done"
             \/ i = step_index
             \/ i \in rollback_errors'
             \/ i \in lasting /\ effect'[i] = "done"
  <2>1. effect'[i] = effect[i] =>
            \/ i <= Len(journal) /\ effect[i] = "done"
            \/ i = step_index
            \/ i \in rollback_errors
            \/ i \in lasting /\ effect[i] = "done"
    BY <1>4 DEF EffectsAreKnown
  <2>2. CASE i = cmd
    BY <1>3, <1>4, <2>1, <2>2
  <2>3. CASE i # cmd
    <3>1. i <= Len(journal) => i <= Len(journal')
      BY <1>1, <2>3 DEF Position
    <3> QED
      BY <1>3, <2>1, <2>3, <3>1
  <2> QED
    BY <2>2, <2>3
<1> QED
  BY <1>1, <1>2, <1>4 DEF EffectsAreKnown

\* The executor's answer accounts for all that a plan has left on the machine, for plans
\* of any length, whichever commands and rollbacks fail and whichever have nothing to undo:
\* what is journaled completed, what is not was never begun, or is the one that failed.
THEOREM ExecutorOutcome == ExecutorSpec => []OutcomeIsTrue
<1>1. ExecutorInit => EffectsAreKnown
  BY PlanAssumption DEF ExecutorInit, EffectsAreKnown
<1>2. ExecutorTypeOK /\ JournalCoversThePlan /\ EffectsAreKnown /\ [ExecutorNext]_executor_vars => EffectsAreKnown'
  <2> SUFFICES ASSUME ExecutorTypeOK, JournalCoversThePlan, EffectsAreKnown, [ExecutorNext]_executor_vars
               PROVE  EffectsAreKnown'
    OBVIOUS
  <2>1. CASE Skip \/ RunSucceeds
    BY <2>1, RunKeepsEffects
  <2>2. CASE RunFails
    <3>1. /\ phase = "running" /\ phase' = "undoing"
          /\ UNCHANGED <<lasting, step_index, journal, rollback_errors>>
      BY <2>2 DEF RunFails, HasNext
    <3>2. \A i \in Position : effect'[i] = effect[i] \/ i = step_index
      BY <2>2 DEF RunFails, LeavesSomething, ExecutorTypeOK
    <3> QED
      BY <3>1, <3>2 DEF EffectsAreKnown
  <2>3. CASE Rollback
    BY <2>3, RollbackKeepsEffects
  <2>4. CASE Finish
    <3>1. UNCHANGED <<commands, lasting, step_index, journal, rollback_errors, effect>>
      BY <2>4 DEF Finish
    <3>2. CASE phase = "running" /\ step_index > commands /\ phase' = "Success"
      <4>1. step_index = commands + 1
        BY <3>2, PlanAssumption DEF EffectsAreKnown, ExecutorTypeOK
      <4> QED
        BY <3>1, <3>2, <4>1 DEF EffectsAreKnown
    <3>3. CASE phase = "undoing" /\ journal = <<>> /\ phase' = "Failed"
      BY <3>1, <3>3 DEF EffectsAreKnown
    <3> QED
      BY <2>4, <3>2, <3>3 DEF Finish
  <2>5. CASE UNCHANGED executor_vars
    BY <2>5 DEF executor_vars, EffectsAreKnown
  <2> QED
    BY <2>1, <2>2, <2>3, <2>4, <2>5 DEF ExecutorNext
<1>3. ExecutorTypeOK /\ EffectsAreKnown => OutcomeIsTrue
  <2> SUFFICES ASSUME ExecutorTypeOK, EffectsAreKnown PROVE OutcomeIsTrue
    OBVIOUS
  <2>1. phase = "Failed" => \A i \in Position : ~(i <= Len(journal))
    BY DEF EffectsAreKnown, Position
  <2> QED
    BY <2>1 DEF EffectsAreKnown, OutcomeIsTrue
<1> QED
  BY <1>1, <1>2, <1>3, ExecutorTyped, ExecutorJournal, PTL DEF ExecutorSpec
=============================================================================
