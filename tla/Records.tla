------------------------------ MODULE Records ------------------------------
(***************************************************************************)
(* What seedbank promises of the records of seedlings: every call is done  *)
(* at once or not at all, unless a write fails or the process ends in the  *)
(* middle; that damages the record of that one seedling.  A record keeps   *)
(* its id and its version never goes back, whole or damaged, until it is   *)
(* deleted.  At most one seedling is the default.                          *)
(***************************************************************************)
EXTENDS Naturals

CONSTANTS
    Names,      \* the names of seedlings
    Ids,        \* the ids there are
    Versions,   \* the versions of a definition, from 1
    NoId, NoName,
    Torn        \* what is read from a file whose write did not end

VARIABLES
    record,     \* the record of each seedling
    default     \* the seedling that has claimed to be the default

vars == <<record, default>>

Absent == [state |-> "absent", id |-> NoId, version |-> 0]
Whole(id, version) == [state |-> "whole", id |-> id, version |-> version]
Damaged(id, version) == [state |-> "damaged", id |-> id, version |-> version]

Record == {Absent} \cup {Whole(i, v) : i \in Ids, v \in Versions}
                   \cup {Damaged(i, v) : i \in Ids \cup {NoId}, v \in Versions \cup {0}}

Init == record = [n \in Names |-> Absent] /\ default = NoName

-----------------------------------------------------------------------------

Unused(id) == \A n \in Names : record[n].id # id

Becomes(n, new) == record' = [record EXCEPT ![n] = new] /\ UNCHANGED default

Create(n) ==
    /\ record[n] = Absent
    /\ \/ \E id \in Ids, v \in Versions : Unused(id) /\ Becomes(n, Whole(id, v))
       \/ \E id \in Ids \cup {NoId} : Unused(id) /\ Becomes(n, Damaged(id, 0))
       \/ Becomes(n, Damaged(NoId, 0))

\* Only what is whole is sure to be whole after an update that succeeds, but for a
\* damaged record a later update may be the cure, or another damage.
Update(n) ==
    LET old == record[n] IN
    /\ old.version > 0
    /\ \/ \E v \in Versions :
            /\ v > old.version \/ (v = old.version /\ old.state = "damaged")
            /\ old.id # NoId /\ Becomes(n, Whole(old.id, v))
       \/ \E v \in Versions \cup {0} :
            /\ v \in {0, old.version} \/ (v > old.version /\ old.state = "damaged")
            /\ Becomes(n, Damaged(old.id, v))

Delete(n) ==
    LET old == record[n] IN
    /\ old # Absent
    /\ \/ Becomes(n, Absent)
       \/ \E id \in {old.id, NoId}, v \in {old.version, 0} : Becomes(n, Damaged(id, v))

Claim(n) ==
    /\ default = NoName /\ record[n] # Absent
    /\ default' \in {n, Torn}
    /\ UNCHANGED record

Release(n) ==
    /\ default = n
    /\ default' = NoName
    /\ UNCHANGED record

Next == \E n \in Names : Create(n) \/ Update(n) \/ Delete(n) \/ Claim(n) \/ Release(n)

Spec == Init /\ [][Next]_vars

-----------------------------------------------------------------------------

TypeOK == record \in [Names -> Record] /\ default \in Names \cup {NoName, Torn}

\* No two records, whole or damaged, have the same id: users, networks and folders of
\* seedlings are named after it.
IdsUnique ==
    \A n, m \in Names : n # m /\ record[n].id # NoId => record[n].id # record[m].id

\* A record that is not deleted has the id it had, or its file is lost, and no older version.
KeepsIdentity ==
    [][\A n \in Names : record[n] # Absent /\ record'[n] # Absent =>
          /\ record'[n].id \in {record[n].id, NoId}
          /\ record'[n].version >= record[n].version \/ record'[n].version = 0]_vars
=============================================================================
