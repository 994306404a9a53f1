------------------------------ MODULE Seedbank ------------------------------
(***************************************************************************)
(* douglas-seedbank on its files.  A seedling is a folder with a file for  *)
(* each of id, version and definition, one for the run status, one for the *)
(* log of failed health checks, and a mount whose folder has a file for    *)
(* each path.  Calls that create, update or delete hold a lock, those for  *)
(* the status and the log only look under it whether the seedling exists.  *)
(* A step of a call is one call on the file system; one that fails, or at  *)
(* which the process ends, may leave the file truncated.                   *)
(***************************************************************************)
EXTENDS Naturals, Sequences, FiniteSets, SequencesExt

CONSTANTS
    Tasks,      \* the connections that are served at a time
    Names,      \* the names of seedlings
    Ids,        \* 0..MAX_SEEDLINGS-1
    Versions,   \* the versions of a definition
    Paths,      \* the files that a mount may have
    MountOf,    \* those it has in the definition of each version, or NoMount
    MaxFailCount, \* the failed checks after which a seedling is given up
    There,      \* what a folder, or a file whose contents do not matter, holds
    NoTask, NoId, NoName, NoFile, NoMount, Torn,
    MaxCalls, MaxFaults, MaxCrashes  \* bounds on what happens

\* What the folder of every seedling has a place for.
Parts == {"folder", "id", "version", "definition", "mount", "run", "log"}

ASSUME SeedbankAssumption ==
    /\ IsFiniteSet(Tasks) /\ IsFiniteSet(Paths) /\ Paths \cap Parts = {}
    /\ Ids \subseteq Nat /\ Versions \subseteq Nat \ {0}
    /\ \A v \in Versions : MountOf[v] = NoMount \/ MountOf[v] \subseteq Paths
    /\ MaxFailCount \in Nat \ {0}
    /\ NoTask \notin Tasks /\ NoId \notin Ids /\ NoName \notin Names
    /\ {NoFile, Torn, There} \cap (Nat \cup Names \cup {NoName}) = {}
    /\ NoFile # Torn /\ There \notin {NoFile, Torn}
    /\ MaxCalls \in Nat /\ MaxFaults \in Nat /\ MaxCrashes \in Nat

VARIABLES
    file,       \* what each entry in the folder of each seedling holds
    default,    \* the file of the seedling that is the default
    lock,       \* the call that holds the lock
    task,       \* what each call does
    before,     \* history: the records and the default when the lock was taken
    earned,     \* history: the failed checks of each seedling since its log was reset
    overtaken,  \* history: the seedlings whose log was reset during another call on it
    budget      \* the calls, faults and crashes that are left

vars == <<file, default, lock, task, before, earned, overtaken, budget>>
history == <<earned, overtaken>>

Entries == Parts \cup Paths

Idle == [step |-> "idle", name |-> NoName, todo |-> <<>>, left |-> {}, new |-> <<>>]

-----------------------------------------------------------------------------
(* Records, as the calls under the lock read them *)

\* What there is of a mount is as a definition has it: its folder, and every file of it
\* and no other.  Without a mount there is none of it, such as an update that was to add
\* one leaves behind.
MountIs(f, mount) ==
    IF mount = NoMount THEN \A e \in {"mount"} \cup Paths : f[e] = NoFile
    ELSE f["mount"] = There /\ \A p \in Paths : f[p] = IF p \in mount THEN There ELSE NoFile

RecordOf(f) ==
    LET id == IF f["id"] \in Ids THEN f["id"] ELSE NoId
        version == IF f["version"] \in Versions THEN f["version"] ELSE 0
        whole == /\ id # NoId /\ version # 0 /\ f["definition"] = version
                 /\ MountIs(f, MountOf[version]) IN
    [state |-> IF f["folder"] = NoFile THEN "absent" ELSE IF whole THEN "whole" ELSE "damaged",
     id |-> id, version |-> version]

Records == [n \in Names |-> RecordOf(file[n])]
Default == IF default = NoFile THEN NoName ELSE default

\* Nobody sees what the call that holds the lock has done yet.
SeenRecord == IF lock = NoTask THEN Records ELSE before.record
SeenDefault == IF lock = NoTask THEN Default ELSE before.default

R == INSTANCE Records WITH record <- SeenRecord, default <- SeenDefault

Init ==
    /\ file = [n \in Names |-> [e \in Entries |-> NoFile]]
    /\ default = NoFile
    /\ lock = NoTask
    /\ task = [t \in Tasks |-> Idle]
    /\ before = [record |-> Records, default |-> NoName]
    /\ earned = [n \in Names |-> 0]
    /\ overtaken = {}
    /\ budget = [calls |-> MaxCalls, faults |-> MaxFaults, crashes |-> MaxCrashes]

-----------------------------------------------------------------------------
(* Calls *)

Exists(n) == file[n]["folder"] = There
Fault == budget.faults > 0 /\ budget' = [budget EXCEPT !.faults = @ - 1]

MutantUnlocked(t) ==
    /\ task[t] = Idle
    /\ budget.calls > 0 /\ budget' = [budget EXCEPT !.calls = @ - 1]
\* A call comes; the lock is free at its start.
Call(t) ==
    /\ task[t] = Idle /\ lock = NoTask
    /\ budget.calls > 0 /\ budget' = [budget EXCEPT !.calls = @ - 1]

\* It keeps the lock until it is answered.
Locked(t) ==
    /\ lock' = t
    /\ before' = [record |-> Records, default |-> Default]

Goes(t, step, n, todo, left, new) ==
    task' = [task EXCEPT ![t] = [step |-> step, name |-> n, todo |-> todo, left |-> left, new |-> new]]

\* A call is answered, whatever the answer.
Answer(t) ==
    /\ task' = [task EXCEPT ![t] = Idle]
    /\ lock' = IF lock = t THEN NoTask ELSE lock

MutantVersionFirst(v, order) ==
    (IF MountOf[v] = NoMount THEN <<>> ELSE <<"mount">> \o order) \o <<"version", "definition">>
\* The entries of a definition in the order they are written in, those of the mount in any.
Definition(v, order) ==
    (IF MountOf[v] = NoMount THEN <<>> ELSE <<"mount">> \o order) \o <<"definition", "version">>
Orders(v) == IF MountOf[v] = NoMount THEN {<<>>} ELSE SetToSeqs(MountOf[v])
Contents(v) == [e \in {"folder", "mount", "definition", "version"} \cup Paths |->
                   IF e \in {"definition", "version"} THEN v ELSE There]
\* A new seedling has an id as well.
WithId(new, id) == [e \in DOMAIN new \cup {"id"} |-> IF e = "id" THEN id ELSE new[e]]

\* An id file that cannot be read stops every creation, one that is not there none.
IdsReadable == \A n \in Names : Exists(n) => file[n]["id"] # Torn
UsedIds == {file[n]["id"] : n \in {m \in Names : Exists(m)}} \cap Ids

Create(t) ==
    /\ Call(t) /\ Locked(t)
    /\ IdsReadable
    /\ \E n \in Names, v \in Versions, next \in Ids \ UsedIds : \E order \in Orders(v) :
         /\ \A id \in Ids \ UsedIds : next <= id
         /\ ~Exists(n)
         /\ Goes(t, "write", n, <<"folder", "id">> \o Definition(v, order), {},
                 WithId(Contents(v), next))
    /\ UNCHANGED <<file, default, history>>

\* What of the mount, as it is on disk, the proposed definition does not have.
Stale(f, v) ==
    LET there == {p \in Paths : f[p] # NoFile} IN
    CASE MountOf[f["definition"]] = NoMount -> {}
      [] OTHER -> IF MountOf[v] = NoMount \/ there = {} THEN there \cup {"mount"}
                  ELSE there \ MountOf[v]

\* The definition is loaded together with its mount, whose folder has to be there.
Loadable(f) ==
    /\ f["definition"] \in Versions
    /\ MountOf[f["definition"]] # NoMount => f["mount"] = There

Update(t) ==
    /\ Call(t) /\ Locked(t)
    /\ \E n \in Names, v \in Versions : \E order \in Orders(v) :
         /\ Exists(n) /\ file[n]["version"] \in Versions /\ v > file[n]["version"]
         /\ Loadable(file[n])
         /\ Goes(t, "write", n, Definition(v, order), Stale(file[n], v), Contents(v))
    /\ UNCHANGED <<file, default, history>>

Delete(t) ==
    /\ Call(t) /\ Locked(t)
    /\ \E n \in Names :
         /\ Exists(n)
         /\ Goes(t, "delete", n, <<>>, {e \in Entries \ {"folder"} : file[n][e] # NoFile}, <<>>)
    /\ UNCHANGED <<file, default, history>>

-----------------------------------------------------------------------------
(* The steps of a call *)

\* What an update purges goes before anything is written.  Entries are deleted in any order,
\* a folder after what is in it.
Unlink(t) ==
    /\ \/ /\ \E e \in task[t].left :
               /\ e = "mount" => Paths \cap task[t].left = {}
               /\ file' = [file EXCEPT ![task[t].name][e] = NoFile]
               /\ task' = [task EXCEPT ![t].left = @ \ {e}]
          /\ UNCHANGED <<lock, budget>>
       \/ task[t].left # {} /\ Fault /\ Answer(t) /\ UNCHANGED file
    /\ UNCHANGED <<default, before, history>>

\* The folder is deleted last, if nothing came into it meanwhile.
Deleted(t) ==
    /\ task[t].step = "delete" /\ task[t].left = {}
    /\ LET n == task[t].name IN
         IF \A e \in Entries \ {"folder"} : file[n][e] = NoFile
         THEN /\ file' = [file EXCEPT ![n]["folder"] = NoFile]
              /\ earned' = [earned EXCEPT ![n] = 0]
              /\ overtaken' = IF \E u \in Tasks \ {t} : task[u].name = n
                              THEN overtaken \cup {n} ELSE overtaken
         ELSE UNCHANGED <<file, history>>
    /\ Answer(t)
    /\ UNCHANGED <<default, before, budget>>

\* A file is truncated and written; it needs the folder it is in.
Write(t) ==
    /\ task[t].step = "write" /\ task[t].left = {} /\ task[t].todo # <<>>
    /\ LET n == task[t].name
           e == Head(task[t].todo) IN
         \/ /\ e = "folder" \/ Exists(n)
            /\ file' = [file EXCEPT ![n][e] = task[t].new[e]]
            /\ task' = [task EXCEPT ![t].todo = Tail(@)]
            /\ UNCHANGED <<lock, budget>>
         \/ e # "folder" /\ ~Exists(n) /\ Answer(t) /\ UNCHANGED <<file, budget>>
         \/ /\ Fault
            /\ \/ UNCHANGED file
               \/ /\ e \notin {"folder", "mount"} /\ Exists(n)
                  /\ file' = [file EXCEPT ![n][e] = Torn]
            /\ Answer(t)
    /\ UNCHANGED <<default, before, history>>

Written(t) ==
    /\ task[t].step = "write" /\ task[t].left = {} /\ task[t].todo = <<>>
    /\ Answer(t)
    /\ UNCHANGED <<file, default, before, history, budget>>

-----------------------------------------------------------------------------
(* The default *)

ClaimDefault(t) ==
    /\ Call(t) /\ default = NoFile
    /\ \E n \in Names : Exists(n) /\ Goes(t, "claim", n, <<>>, {}, <<>>)
    /\ Locked(t)
    /\ UNCHANGED <<file, default, history>>

ReleaseDefault(t) ==
    /\ Call(t)
    /\ \E n \in Names : default = n /\ Goes(t, "release", n, <<>>, {}, <<>>)
    /\ Locked(t)
    /\ UNCHANGED <<file, default, history>>

WriteDefault(t) ==
    /\ \/ /\ task[t].step = "claim"
          /\ \/ default' = task[t].name /\ UNCHANGED budget
             \/ default' = Torn /\ Fault
       \/ task[t].step = "release" /\ default' = NoFile /\ UNCHANGED budget
       \/ task[t].step \in {"claim", "release"} /\ Fault /\ UNCHANGED default
    /\ Answer(t)
    /\ UNCHANGED <<file, before, history>>

-----------------------------------------------------------------------------
(* The run status and the log of failed checks *)

SetDesiredRunStatus(t) ==
    /\ Call(t)
    /\ \E n \in Names : Exists(n) /\ Goes(t, "write", n, <<"run">>, {}, [e \in {"run"} |-> There])
    /\ UNCHANGED <<file, default, lock, before, history>>

ResetHealthLog(t) ==
    /\ Call(t)
    /\ \E n \in Names : Exists(n) /\ Goes(t, "reset", n, <<>>, {}, <<>>)
    /\ UNCHANGED <<file, default, lock, before, history>>

Reset(t) ==
    /\ task[t].step = "reset"
    /\ LET n == task[t].name IN
         \/ /\ file' = [file EXCEPT ![n]["log"] = NoFile]
            /\ earned' = [earned EXCEPT ![n] = 0]
            /\ overtaken' = IF \E u \in Tasks \ {t} : task[u].name = n
                            THEN overtaken \cup {n} ELSE overtaken
            /\ UNCHANGED budget
         \/ Fault /\ UNCHANGED <<file, history>>
    /\ Answer(t)
    /\ UNCHANGED <<default, before>>

IncrementHealthLog(t) ==
    /\ Call(t)
    /\ \E n \in Names :
         /\ Exists(n) /\ Goes(t, "read", n, <<>>, {}, <<>>)
         /\ earned' = [earned EXCEPT ![n] = @ + 1]
    /\ UNCHANGED <<file, default, lock, before, overtaken>>

MutantFirstIsTwo(old) == IF old = NoFile THEN 2 ELSE old + 1
Count(old) == IF old = NoFile THEN 1 ELSE old + 1

MutantOneMore(t) ==
    /\ task[t].step = "read"
    /\ LET n == task[t].name
           log == file[n]["log"] IN
         IF log = Torn \/ (log # NoFile /\ log > MaxFailCount) THEN Answer(t)
         ELSE Goes(t, "write", n, <<"log">>, {}, [e \in {"log"} |-> Count(log)]) /\ UNCHANGED lock
    /\ UNCHANGED <<file, default, before, history, budget>>
\* A log that is full is not written again, one that cannot be read is left.
ReadLog(t) ==
    /\ task[t].step = "read"
    /\ LET n == task[t].name
           log == file[n]["log"] IN
         IF log = Torn \/ Count(log) > MaxFailCount THEN Answer(t)
         ELSE Goes(t, "write", n, <<"log">>, {}, [e \in {"log"} |-> Count(log)]) /\ UNCHANGED lock
    /\ UNCHANGED <<file, default, before, history, budget>>

-----------------------------------------------------------------------------

\* seedbank ends, after a fault or between two steps, and is started again.
Crash ==
    /\ budget.crashes > 0
    /\ budget' = [budget EXCEPT !.crashes = @ - 1]
    /\ task' = [t \in Tasks |-> Idle]
    /\ lock' = NoTask
    /\ UNCHANGED <<file, default, before, history>>

Begin(t) ==
    \/ Create(t) \/ Update(t) \/ Delete(t) \/ ClaimDefault(t) \/ ReleaseDefault(t)
    \/ SetDesiredRunStatus(t) \/ ResetHealthLog(t) \/ IncrementHealthLog(t)

Step(t) ==
    \/ Unlink(t) \/ Deleted(t) \/ Write(t) \/ Written(t)
    \/ WriteDefault(t) \/ Reset(t) \/ ReadLog(t)

Next == Crash \/ \E t \in Tasks : Begin(t) \/ Step(t)

Spec == Init /\ [][Next]_vars

-----------------------------------------------------------------------------
(* Properties *)

Holds(e) ==
    CASE e = "id" -> Ids
      [] e \in {"version", "definition"} -> Versions
      [] e = "log" -> 1..MaxFailCount
      [] OTHER -> {There}
Steps == {"idle", "write", "delete", "claim", "release", "reset", "read"}

TypeOK ==
    /\ \A n \in Names, e \in Entries : file[n][e] \in Holds(e) \cup {NoFile, Torn}
    /\ default \in Names \cup {NoFile, Torn}
    /\ lock \in Tasks \cup {NoTask}
    /\ \A t \in Tasks :
         /\ task[t].step \in Steps /\ task[t].name \in Names \cup {NoName}
         /\ task[t].todo \in Seq(Entries) /\ task[t].left \subseteq Entries
         /\ \A i \in 1..Len(task[t].todo) : task[t].new[task[t].todo[i]] \in Holds(task[t].todo[i])
    /\ before \in [record : [Names -> R!Record], default : Names \cup {NoName, Torn}]
    /\ earned \in [Names -> Nat] /\ overtaken \subseteq Names
    /\ budget \in [calls : 0..MaxCalls, faults : 0..MaxFaults, crashes : 0..MaxCrashes]

\* No two seedlings have the same id, at any moment of a creation, a deletion or their
\* failures: users, networks and folders are named after it.
IdsUnique ==
    \A n, m \in Names : n # m /\ file[n]["id"] \in Ids => file[n]["id"] # file[m]["id"]

\* A log holds no more failed checks than there were since it was reset or its seedling
\* created, unless one of these overtook another call: nobody is given up too early.
StrikesAreEarned ==
    \A n \in Names \ overtaken : file[n]["log"] \in Nat => file[n]["log"] <= earned[n]

\* Every call under the lock is done at once or not at all, or a failure of its own
\* damages the one record it is about.
CallsAreAtomic == R!Spec
=============================================================================
