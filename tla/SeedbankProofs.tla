--------------------------- MODULE SeedbankProofs ---------------------------
(* What the files of seedbank guarantee for any connections, seedlings, ids, *)
(* versions and mounts, whatever writes fail and whenever the process ends:  *)
(* the calls implement Records, ids are unique, and no log of failed checks  *)
(* holds more than there were.                                               *)
EXTENDS Seedbank, FiniteSetTheorems, TLAPS

Values == {There} \cup Nat
New == UNION {[E -> Values] : E \in SUBSET Entries}
Task == [step : Steps, name : Names \cup {NoName}, todo : Seq(Entries),
         left : SUBSET Entries, new : New]

\* The functions are functions; what they hold is in TypeOK.
Shapes ==
    /\ file \in [Names -> [Entries -> Values \cup {NoFile, Torn}]]
    /\ task \in [Tasks -> Task]

\* A folder is there or it is not, and what is in it is not there without it.
Folders ==
    \A n \in Names :
        /\ file[n]["folder"] # Torn /\ file[n]["mount"] # Torn
        /\ file[n]["folder"] = NoFile => \A e \in Entries : file[n][e] = NoFile

LockedSteps == {"write", "delete", "claim", "release"}

\* Which calls hold the lock, and what the others write.
Hand(t) ==
    /\ task[t].step = "idle" => task[t] = Idle
    /\ task[t].step # "idle" => task[t].name \in Names
    /\ lock = t => task[t].step \in LockedSteps
    /\ task[t].step \in LockedSteps \ {"write"} => lock = t
    /\ task[t].left # {} => lock = t
    /\ task[t].step = "write" /\ lock # t =>
           \A i \in 1..Len(task[t].todo) : task[t].todo[i] \in {"run", "log"}

-----------------------------------------------------------------------------
(* The call that holds the lock: w is what it does, f the folder it is about *)
(* and old the record that was there.                                        *)

Old == before.record[task[lock].name]
Folder == file[task[lock].name]

IdOf(f) == IF f["id"] \in Ids THEN f["id"] ELSE NoId
VersionOf(f) == IF f["version"] \in Versions THEN f["version"] ELSE 0

MountEntries == {"mount"} \cup Paths
MountOfVersion(v) == IF MountOf[v] = NoMount THEN {} ELSE {"mount"} \cup MountOf[v]
Required(v) == {"definition", "version"} \cup MountOfVersion(v)

ToDo(w) == {w.todo[i] : i \in 1..Len(w.todo)}
Once(todo) == \A i, j \in 1..Len(todo) : todo[i] = todo[j] => i = j

\* What a definition's writing has done, and what it has not yet touched: the version
\* comes last, and what does not belong to the definition was not there or is purged.
Writing(w, f, old) ==
    LET v == w.new["version"] IN
    /\ v \in Versions /\ w.new["definition"] = v
    /\ \A e \in MountEntries : w.new[e] = There
    /\ Once(w.todo)
    /\ w.todo # <<>> => w.todo[Len(w.todo)] = "version"
    /\ \A e \in Required(v) : e \notin ToDo(w) => f[e] = w.new[e]
    /\ old.state \in {"absent", "whole"} =>
           \A e \in MountEntries \ Required(v) :
               f[e] = NoFile \/ e \in w.left

\* A creation has given the record an id that no other has.
Creating(w, f) ==
    /\ w.step = "write" /\ w.left = {}
    /\ ToDo(w) \subseteq Required(w.new["version"]) \cup {"folder", "id"}
    /\ w.new["folder"] = There /\ w.new["id"] \in Ids
    /\ "folder" \in ToDo(w) => f["folder"] = NoFile
    /\ "folder" \notin ToDo(w) => f["folder"] = There
    /\ f["id"] = IF "id" \in ToDo(w) THEN NoFile ELSE w.new["id"]
    /\ w.todo # <<>> => f["version"] = NoFile
    /\ \A m \in Names \ {w.name} : file[m]["id"] # w.new["id"]

\* An update goes to a newer version and leaves the id alone.
Updating(w, f, old) ==
    /\ w.step = "write" /\ w.left \subseteq MountEntries
    /\ ToDo(w) \subseteq Required(w.new["version"])
    /\ w.left # {} => Required(w.new["version"]) \subseteq ToDo(w)
    /\ f["folder"] = There
    /\ IdOf(f) = old.id
    /\ old.version \in Versions /\ old.version < w.new["version"]
    /\ w.todo # <<>> => f["version"] = old.version

Deleting(w, f, old) ==
    /\ w.step = "delete"
    /\ "folder" \notin w.left
    /\ f["folder"] = There
    /\ IdOf(f) \in {old.id, NoId} /\ VersionOf(f) \in {old.version, 0}

\* The record is Old while the default is claimed or released.
Claiming(w) ==
    /\ w.step \in {"claim", "release"} /\ w.left = {}
    /\ Records[w.name] = Old
    /\ w.step = "claim" => before.default = NoName /\ Old # R!Absent
    /\ w.step = "release" => before.default = w.name

Held ==
    LET w == task[lock] IN
    /\ Default = before.default
    /\ \A m \in Names \ {w.name} : Records[m] = before.record[m]
    /\ \/ Old = R!Absent /\ Creating(w, Folder) /\ Writing(w, Folder, Old)
       \/ Old # R!Absent /\ Updating(w, Folder, Old) /\ Writing(w, Folder, Old)
       \/ Old # R!Absent /\ Deleting(w, Folder, Old)
       \/ Claiming(w)

\* The call that holds the lock has done nothing yet that, cut off now, would not be a
\* step of Records; no id is given twice.
Inv ==
    /\ TypeOK /\ Shapes /\ Folders
    /\ \A t \in Tasks : Hand(t)
    /\ lock # NoTask => Held
    /\ IdsUnique

-----------------------------------------------------------------------------
(* The log of failed checks *)

Readers(n) == {t \in Tasks : task[t].step = "read" /\ task[t].name = n}

\* A call is about to write k into the log of n.
About(t, n, k) ==
    /\ task[t].step = "write" /\ task[t].name = n
    /\ "log" \in ToDo(task[t]) /\ task[t].new["log"] = k

\* Each check that has been counted is in the log, in what a call is about to write
\* there, or a call is about to read the log for it.
Strike(n) ==
    LET count == Cardinality(Readers(n)) IN
    /\ count <= earned[n]
    /\ \A k \in Nat : file[n]["log"] = k => k + count <= earned[n]
    /\ \A t \in Tasks, k \in Nat : About(t, n, k) => k + count <= earned[n]

Strikes == \A n \in Names \ overtaken : Strike(n)

-----------------------------------------------------------------------------
(* The entries of a folder, and what the calls write into them *)

LEMMA EntryFacts ==
    /\ Parts \subseteq Entries /\ Paths \subseteq Entries /\ Parts \cap Paths = {}
    /\ MountEntries \subseteq Entries
    /\ \A v \in Versions : /\ MountOfVersion(v) \subseteq MountEntries
                           /\ Required(v) \subseteq Entries
                           /\ {"id", "folder", "run", "log"} \cap Required(v) = {}
    /\ {"id", "folder", "version", "definition", "run", "log"} \cap MountEntries = {}
<1>1. Parts \cap Paths = {} /\ \A v \in Versions : MountOf[v] # NoMount => MountOf[v] \subseteq Paths
  BY SeedbankAssumption
<1>2. \A v \in Versions : MountOfVersion(v) \subseteq MountEntries
  BY <1>1 DEF MountOfVersion, MountEntries
<1>3. {"id", "folder", "version", "definition", "run", "log"} \cap MountEntries = {}
  BY <1>1 DEF MountEntries, Parts
<1>4. MountEntries \subseteq Entries
  BY DEF MountEntries, Entries, Parts
<1> QED
  BY <1>1, <1>2, <1>3, <1>4 DEF Required, Entries, Parts

\* What is held is never the sign for no file, a broken one, or an absent record.
LEMMA HoldsFacts ==
    /\ NoFile \notin Values /\ Torn \notin Values /\ NoFile # Torn
    /\ \A e \in Entries : Holds(e) \subseteq Values
    /\ Ids \subseteq Nat /\ Versions \subseteq Nat \ {0}
    /\ NoId \notin Ids /\ There \notin Nat
  BY SeedbankAssumption DEF Values, Holds

LEMMA ContentsFacts ==
    ASSUME NEW v \in Versions
    PROVE  /\ Contents(v) \in New
           /\ DOMAIN Contents(v) = {"folder", "definition", "version"} \cup MountEntries
           /\ Contents(v)["version"] = v /\ Contents(v)["definition"] = v
           /\ Contents(v)["folder"] = There
           /\ \A e \in MountEntries : Contents(v)[e] = There
<1> DEFINE E == {"folder", "definition", "version"} \cup MountEntries
<1>1. E \subseteq Entries
  BY EntryFacts DEF Parts
<1>2. Contents(v) = [e \in E |-> IF e \in {"definition", "version"} THEN v ELSE There]
  BY DEF Contents, MountEntries
<1>3. Contents(v) \in [E -> Values]
  BY <1>2, HoldsFacts DEF Values
<1> QED
  BY <1>1, <1>2, <1>3, EntryFacts DEF New, MountEntries

\* A creation's has the id as well.
LEMMA CreationFacts ==
    ASSUME NEW v \in Versions, NEW next \in Ids, NEW new, new = WithId(Contents(v), next)
    PROVE  /\ new \in New
           /\ DOMAIN new = {"folder", "id", "definition", "version"} \cup MountEntries
           /\ new["version"] = v /\ new["definition"] = v /\ new["id"] = next
           /\ new["folder"] = There
           /\ \A e \in MountEntries : new[e] = There
<1> DEFINE E == {"folder", "id", "definition", "version"} \cup MountEntries
<1>1. E \subseteq Entries
  BY EntryFacts DEF Parts
<1>2. new = [e \in E |-> IF e = "id" THEN next ELSE Contents(v)[e]]
  BY ContentsFacts, EntryFacts DEF WithId
<1>3. new \in [E -> Values]
  <2>1. Contents(v) \in [{"folder", "definition", "version"} \cup MountEntries -> Values]
    BY ContentsFacts DEF New
  <2> QED
    BY <1>2, <2>1, HoldsFacts DEF Values
<1> QED
  BY <1>1, <1>2, <1>3, EntryFacts, ContentsFacts DEF New

\* An order of the mount's files has every one of them.
LEMMA OrderFacts ==
    ASSUME NEW v \in Versions, NEW order \in Orders(v)
    PROVE  /\ order \in Seq(Paths)
           /\ MountOf[v] # NoMount => {order[i] : i \in 1..Len(order)} = MountOf[v]
           /\ MountOf[v] = NoMount => order = <<>>
           /\ Once(order)
<1>1. CASE MountOf[v] = NoMount
  BY <1>1 DEF Orders, Once
<1>2. CASE MountOf[v] # NoMount
  <2> DEFINE M == MountOf[v]
             D == 1..Cardinality(M)
  <2>1. M \subseteq Paths /\ IsFiniteSet(M) /\ Cardinality(M) \in Nat
    <3>1. M \subseteq Paths /\ IsFiniteSet(Paths)
      BY <1>2, SeedbankAssumption
    <3> QED
      BY <3>1, FS_Subset, FS_CardinalityType
  <2>2. order \in [D -> M] /\ \A i, j \in D : i # j => order[i] # order[j]
    BY <1>2 DEF Orders, SetToSeqs
  <2>3. order \in Seq(M) /\ Len(order) = Cardinality(M)
    BY <2>1, <2>2
  <2>4. \A p \in M : \E i \in D : order[i] = p
    <3> SUFFICES ASSUME NEW p \in M, \A i \in D : order[i] # p
                 PROVE  FALSE
      OBVIOUS
    <3>1. IsFiniteSet(M \ {p}) /\ Cardinality(M \ {p}) = Cardinality(M) - 1
      BY <2>1, FS_RemoveElement
    <3>2. IsFiniteSet(D) /\ Cardinality(D) = Cardinality(M)
      BY <2>1, FS_Interval
    <3>3. order \in [D -> M \ {p}]
      BY <2>2
    <3>4. \E i, j \in D : i # j /\ order[i] = order[j]
      BY <2>1, <3>1, <3>2, <3>3, FS_PigeonHole
    <3> QED
      BY <2>2, <3>4
  <2> QED
    BY <1>2, <2>1, <2>2, <2>3, <2>4 DEF Once
<1> QED
  BY <1>1, <1>2

LEMMA DefinitionFacts ==
    ASSUME NEW v \in Versions, NEW order \in Orders(v), NEW d, d = Definition(v, order)
    PROVE  /\ d \in Seq(Entries) /\ Len(d) > 0 /\ d[Len(d)] = "version"
           /\ {d[i] : i \in 1..Len(d)} = Required(v) /\ Once(d)
<1> DEFINE m == IF MountOf[v] = NoMount THEN <<>> ELSE <<"mount">> \o order
<1>1. m \in Seq(MountEntries) /\ {m[i] : i \in 1..Len(m)} = MountOfVersion(v) /\ Once(m)
  <2>1. CASE MountOf[v] = NoMount
    BY <2>1 DEF MountOfVersion, Once
  <2>2. CASE MountOf[v] # NoMount
    <3>1. /\ order \in Seq(MountEntries) /\ <<"mount">> \in Seq(MountEntries)
          /\ {order[i] : i \in 1..Len(order)} = MountOf[v]
      BY <2>2, OrderFacts DEF MountEntries
    <3>2. m = <<"mount">> \o order
      BY <2>2
    <3>3. /\ m \in Seq(MountEntries) /\ Len(m) = Len(order) + 1 /\ m[1] = "mount"
          /\ \A i \in 1..Len(order) : m[i + 1] = order[i]
          /\ \A i \in 2..Len(m) : m[i] = order[i - 1]
      BY <3>1, <3>2
    <3>4. \A i \in 1..Len(m) : m[i] \in {"mount"} \cup MountOf[v]
      <4> TAKE i \in 1..Len(m)
      <4>1. i = 1 \/ (i \in 2..Len(m) /\ i - 1 \in 1..Len(order))
        BY <3>3
      <4> QED
        BY <3>1, <3>3, <4>1
    <3>5. \A e \in {"mount"} \cup MountOf[v] : \E i \in 1..Len(m) : m[i] = e
      <4>1. 1 \in 1..Len(m)
        BY <3>1, <3>3
      <4>2. \A i \in 1..Len(order) : i + 1 \in 1..Len(m)
        BY <3>1, <3>3
      <4> QED
        BY <3>1, <3>3, <4>1, <4>2
    <3>6. {m[i] : i \in 1..Len(m)} = {"mount"} \cup MountOf[v]
      BY <3>4, <3>5
    <3>7. Once(m)
      <4>1. Once(order) /\ \A i \in 1..Len(order) : order[i] # "mount"
        BY OrderFacts, EntryFacts DEF Parts
      <4> SUFFICES ASSUME NEW i \in 1..Len(m), NEW j \in 1..Len(m), m[i] = m[j] PROVE i = j
        BY DEF Once
      <4>2. /\ i = 1 \/ (i \in 2..Len(m) /\ i - 1 \in 1..Len(order))
            /\ j = 1 \/ (j \in 2..Len(m) /\ j - 1 \in 1..Len(order))
        BY <3>3
      <4> HIDE DEF m
      <4>3. CASE i = 1 \/ j = 1
        BY <3>3, <4>1, <4>2, <4>3
      <4>4. CASE i # 1 /\ j # 1
        <5>1. order[i - 1] = order[j - 1]
          BY <3>3, <4>2, <4>4
        <5>2. i - 1 = j - 1
          BY <4>1, <4>2, <4>4, <5>1 DEF Once
        <5> QED
          BY <4>2, <4>4, <5>2
      <4> QED
        BY <4>3, <4>4
    <3> QED
      BY <2>2, <3>3, <3>6, <3>7 DEF MountOfVersion
  <2> QED
    BY <2>1, <2>2
<1>2. d = m \o <<"definition", "version">>
  BY DEF Definition
<1> HIDE DEF m
<1> DEFINE L == Len(m)
<1>3. /\ m \in Seq(Entries) /\ <<"definition", "version">> \in Seq(Entries)
  BY <1>1, EntryFacts DEF Parts
<1>4. /\ d \in Seq(Entries) /\ Len(d) = L + 2 /\ L \in Nat
      /\ \A i \in 1..L : d[i] = m[i]
      /\ d[L + 1] = "definition" /\ d[L + 2] = "version"
  BY <1>2, <1>3
<1>5. \A i \in 1..Len(d) : i \in 1..L \/ i = L + 1 \/ i = L + 2
  BY <1>4
<1>6. \A i \in 1..L : i \in 1..Len(d)
  BY <1>4
<1>7. L + 1 \in 1..Len(d) /\ L + 2 \in 1..Len(d)
  BY <1>4
<1>8. {d[i] : i \in 1..Len(d)} = Required(v)
  BY <1>1, <1>4, <1>5, <1>6, <1>7 DEF Required
<1>9. Once(d)
  <2>1. \A i \in 1..L : m[i] \in MountEntries
    BY <1>1
  <2>2. \A i \in 1..L : d[i] \notin {"definition", "version"}
    BY <1>4, <2>1, EntryFacts
  <2> QED
    BY <1>1, <1>4, <1>5, <2>2 DEF Once
<1> QED
  BY <1>4, <1>8, <1>9

-----------------------------------------------------------------------------
(* The records that folders are read as *)

LEMMA RecordFacts ==
    ASSUME NEW f
    PROVE  /\ RecordOf(f).id = IdOf(f) /\ RecordOf(f).version = VersionOf(f)
           /\ IdOf(f) \in Ids \cup {NoId} /\ VersionOf(f) \in Versions \cup {0}
           /\ f["folder"] # NoFile =>
                \/ /\ RecordOf(f) = R!Whole(IdOf(f), VersionOf(f))
                   /\ IdOf(f) \in Ids /\ VersionOf(f) \in Versions
                   /\ f["id"] = IdOf(f) /\ f["version"] = VersionOf(f)
                   /\ f["definition"] = VersionOf(f) /\ MountIs(f, MountOf[VersionOf(f)])
                \/ /\ RecordOf(f) = R!Damaged(IdOf(f), VersionOf(f))
                   /\ ~(/\ IdOf(f) \in Ids /\ VersionOf(f) \in Versions
                        /\ f["definition"] = VersionOf(f) /\ MountIs(f, MountOf[VersionOf(f)]))
<1> DEFINE id == IdOf(f)
           version == VersionOf(f)
           whole == /\ id # NoId /\ version # 0 /\ f["definition"] = version
                    /\ MountIs(f, MountOf[version])
           state == IF f["folder"] = NoFile THEN "absent" ELSE IF whole THEN "whole" ELSE "damaged"
<1>1. RecordOf(f) = [state |-> state, id |-> id, version |-> version]
  BY DEF RecordOf, IdOf, VersionOf
<1>2. /\ id \in Ids \cup {NoId} /\ version \in Versions \cup {0}
      /\ id # NoId => id \in Ids /\ f["id"] = id
      /\ id \in Ids => id # NoId
      /\ version # 0 => version \in Versions /\ f["version"] = version
      /\ version \in Versions => version # 0
  BY HoldsFacts DEF IdOf, VersionOf
<1> HIDE DEF id, version
<1>3. RecordOf(f).id = id /\ RecordOf(f).version = version
  BY <1>1
<1>4. ASSUME f["folder"] # NoFile, whole
      PROVE  RecordOf(f) = R!Whole(id, version)
  BY <1>1, <1>4 DEF R!Whole
<1>5. ASSUME f["folder"] # NoFile, ~whole
      PROVE  RecordOf(f) = R!Damaged(id, version)
  BY <1>1, <1>5 DEF R!Damaged
<1> QED
  BY <1>2, <1>3, <1>4, <1>5 DEF id, version

LEMMA StateFacts ==
    /\ \A i, v : R!Whole(i, v).state = "whole" /\ R!Whole(i, v).id = i /\ R!Whole(i, v).version = v
    /\ \A i, v : R!Damaged(i, v).state = "damaged" /\ R!Damaged(i, v).id = i /\ R!Damaged(i, v).version = v
    /\ R!Absent.state = "absent" /\ R!Absent.id = NoId /\ R!Absent.version = 0
    /\ \A i, v : R!Whole(i, v) # R!Absent /\ R!Damaged(i, v) # R!Absent
  BY DEF R!Whole, R!Damaged, R!Absent

\* The records are records, as Records has them.
LEMMA RecordTyped ==
    ASSUME NEW f, f["folder"] = NoFile => \A e \in Entries : f[e] = NoFile
    PROVE  /\ RecordOf(f) \in R!Record
           /\ f["folder"] = NoFile <=> RecordOf(f) = R!Absent
<1>1. CASE f["folder"] = NoFile
  <2>1. f["id"] = NoFile /\ f["version"] = NoFile
    BY <1>1, EntryFacts DEF Parts
  <2>2. IdOf(f) = NoId /\ VersionOf(f) = 0
    BY <2>1, HoldsFacts DEF IdOf, VersionOf, Values
  <2>3. RecordOf(f) = R!Absent
    BY <1>1, <2>2 DEF RecordOf, IdOf, VersionOf, R!Absent
  <2> QED
    BY <1>1, <2>3 DEF R!Record
<1>2. CASE f["folder"] # NoFile
  BY <1>2, RecordFacts, StateFacts DEF R!Record
<1> QED
  BY <1>1, <1>2

\* The log of failed checks and the run status are no part of it.
LEMMA LogsApart ==
    ASSUME NEW f, NEW g, \A e \in Entries \ {"log", "run"} : g[e] = f[e]
    PROVE  RecordOf(g) = RecordOf(f)
<1>1. /\ g["folder"] = f["folder"] /\ g["id"] = f["id"] /\ g["version"] = f["version"]
      /\ g["definition"] = f["definition"]
  BY EntryFacts DEF Parts
<1>2. \A e \in MountEntries : g[e] = f[e]
  BY EntryFacts
<1>3. \A mount : MountIs(g, mount) <=> MountIs(f, mount)
  BY <1>2 DEF MountIs, MountEntries
<1> QED
  BY <1>1, <1>3 DEF RecordOf

-----------------------------------------------------------------------------
(* What a call that ends, or is cut off, has made of a record *)

\* The records of Records that a call may leave in the place of old.
Result(old, new) ==
    \/ new = old
    \/ /\ old = R!Absent
       /\ \E id \in Ids :
            /\ \A m \in Names : before.record[m].id # id
            /\ \/ new \in {R!Damaged(id, 0), R!Damaged(NoId, 0)}
               \/ \E v \in Versions : new = R!Whole(id, v)
    \/ /\ old # R!Absent
       /\ \/ new = R!Absent
          \/ \E id \in {old.id, NoId}, v \in {old.version, 0} : new = R!Damaged(id, v)
    \/ /\ old.version \in Versions
       /\ \E v \in Versions :
            \/ /\ v > old.version \/ (v = old.version /\ old.state = "damaged")
               /\ old.id # NoId /\ new = R!Whole(old.id, v)
            \/ /\ v > old.version /\ old.state = "damaged"
               /\ new = R!Damaged(old.id, v)

\* The folder of a call whose next write fails, or that is cut off.
Broken(w, f) ==
    {f} \cup {[f EXCEPT ![e] = Torn] : e \in {d \in ToDo(w) : d \notin {"folder", "mount"} /\ f["folder"] = There}}

\* A definition that is all written is whole, unless something else was there.
LEMMA AllWritten ==
    ASSUME NEW w, NEW f, NEW old, Writing(w, f, old), ToDo(w) = {}, w.left = {},
           old.state \in {"absent", "whole"}
    PROVE  /\ f["version"] = w.new["version"] /\ f["definition"] = w.new["version"]
           /\ w.new["version"] \in Versions /\ MountIs(f, MountOf[w.new["version"]])
<1> DEFINE v == w.new["version"]
<1>1. /\ v \in Versions /\ w.new["definition"] = v
      /\ \A e \in MountEntries : w.new[e] = There
      /\ \A e \in Required(v) : f[e] = w.new[e]
      /\ \A e \in MountEntries \ Required(v) : f[e] = NoFile
  BY DEF Writing
<1>2. f["version"] = v /\ f["definition"] = v
  BY <1>1 DEF Required
<1>3. CASE MountOf[v] = NoMount
  <2>1. MountEntries \cap Required(v) = {}
    BY <1>3, EntryFacts DEF Required, MountOfVersion
  <2> QED
    BY <1>1, <1>2, <1>3, <2>1 DEF MountIs, MountEntries
<1>4. CASE MountOf[v] # NoMount
  <2>1. /\ \A e \in {"mount"} \cup MountOf[v] : f[e] = There
        /\ \A e \in Paths \ MountOf[v] : f[e] = NoFile
    <3>1. Required(v) = {"definition", "version"} \cup {"mount"} \cup MountOf[v]
      BY <1>4 DEF Required, MountOfVersion
    <3>2. {"mount"} \cup MountOf[v] \subseteq MountEntries
      BY <1>1, <1>4, EntryFacts DEF MountOfVersion
    <3>3. \A e \in Paths \ MountOf[v] : e \in MountEntries /\ e \notin {"definition", "version", "mount"}
      BY EntryFacts DEF MountEntries, Parts
    <3> QED
      BY <1>1, <3>1, <3>2, <3>3
  <2> QED
    BY <1>1, <1>2, <1>4, <2>1 DEF MountIs
<1> QED
  BY <1>1, <1>2, <1>3, <1>4

\* The call that holds the lock has a seedling, whose folder is one.
LEMMA Holder ==
    ASSUME Inv, lock \in Tasks
    PROVE  /\ task[lock] \in Task /\ task[lock].name \in Names /\ task[lock].step \in LockedSteps
           /\ Held
           /\ Folder = file[task[lock].name] /\ Folder \in [Entries -> Values \cup {NoFile, Torn}]
           /\ Folder["folder"] \in {There, NoFile}
           /\ Folder["folder"] = NoFile => \A e \in Entries : Folder[e] = NoFile
           /\ before.record \in [Names -> R!Record] /\ Old \in R!Record
<1>1. lock # NoTask
  BY SeedbankAssumption
<1>2. task[lock] \in Task /\ Hand(lock)
  BY DEF Inv, Shapes
<1>3. task[lock].step \in LockedSteps /\ task[lock].step # "idle"
  BY <1>2 DEF Hand, LockedSteps
<1>4. task[lock].name \in Names
  BY <1>2, <1>3 DEF Hand
<1>5. before.record \in [Names -> R!Record]
  BY DEF Inv, TypeOK
<1>6. Folder["folder"] \in {There, NoFile}
  <2>1. "folder" \in Entries /\ "folder" \notin {"id", "version", "definition", "log"}
    BY DEF Entries, Parts
  <2> QED
    BY <1>4, <2>1 DEF Folder, Inv, TypeOK, Folders, Holds
<1> QED
  BY <1>1, <1>2, <1>3, <1>4, <1>5, <1>6 DEF Inv, Shapes, Folders, Folder, Old

LEMMA CreationResult ==
    ASSUME Inv, lock \in Tasks, NEW w, w = task[lock], NEW f, f = Folder,
           Old = R!Absent, Creating(w, f), Writing(w, f, Old), NEW g \in Broken(w, f),
           \A m \in Names \ {w.name} : Records[m] = before.record[m]
    PROVE  Result(Old, RecordOf(g))
<1> DEFINE v == w.new["version"]
           id == w.new["id"]
<1>1. v \in Versions /\ id \in Ids
  BY DEF Writing, Creating
<1>2. \A m \in Names : before.record[m].id # id
  <2> TAKE m \in Names
  <2>1. CASE m = w.name
    BY <1>1, <2>1, HoldsFacts, StateFacts DEF Old
  <2>2. CASE m # w.name
    <3>1. before.record[m] = RecordOf(file[m]) /\ file[m]["id"] # id
      BY <2>2 DEF Records, Creating
    <3> QED
      BY <1>1, <3>1, RecordFacts, HoldsFacts DEF IdOf
  <2> QED
    BY <2>1, <2>2
<1>3. w.todo \in Seq(Entries) /\ w.left = {}
  BY Holder DEF Task, Creating
<1>4. CASE w.todo = <<>>
  <2>1. ToDo(w) = {}
    BY <1>4 DEF ToDo
  <2>2. g = f
    BY <2>1 DEF Broken
  <2>3. /\ f["version"] = v /\ f["definition"] = v /\ MountIs(f, MountOf[v])
        /\ f["folder"] = There /\ f["id"] = id
    BY <1>3, <2>1, AllWritten, StateFacts DEF Creating
  <2>4. RecordOf(f) = R!Whole(id, v)
    <3>1. IdOf(f) = id /\ VersionOf(f) = v
      BY <1>1, <2>3 DEF IdOf, VersionOf
    <3>2. f["folder"] # NoFile
      BY <2>3, SeedbankAssumption
    <3> QED
      BY <1>1, <2>3, <3>1, <3>2, RecordFacts
  <2> QED
    BY <1>1, <1>2, <2>2, <2>4 DEF Result
<1>5. CASE w.todo # <<>>
  <2>1. f["version"] = NoFile /\ f["id"] \in {NoFile, id}
    BY <1>5 DEF Creating
  <2>2. /\ f \in [Entries -> Values \cup {NoFile, Torn}] /\ {"id", "version", "folder"} \subseteq Entries
        /\ f["folder"] \in {There, NoFile}
    BY Holder DEF Entries, Parts
  <2>3. /\ g["version"] \in {NoFile, Torn} /\ g["id"] \in {NoFile, id, Torn}
        /\ g["folder"] = f["folder"]
        /\ f["folder"] = NoFile => g = f
    BY <2>1, <2>2, SeedbankAssumption DEF Broken
  <2>4. VersionOf(g) = 0 /\ IdOf(g) \in {id, NoId}
    <3>1. {NoFile, Torn} \cap (Ids \cup Versions) = {}
      BY HoldsFacts DEF Values
    <3>2. VersionOf(g) = 0
      BY <2>3, <3>1 DEF VersionOf
    <3>3. IdOf(g) \in {id, NoId}
      BY <2>3, <3>1 DEF IdOf
    <3> QED
      BY <3>2, <3>3
  <2>5. CASE f["folder"] = NoFile
    <3>1. g["folder"] = NoFile /\ \A e \in Entries : g[e] = NoFile
      BY <2>3, <2>5, Holder
    <3>2. RecordOf(g) = R!Absent
      BY <3>1, RecordTyped
    <3> QED
      BY <3>2 DEF Result
  <2>6. CASE f["folder"] # NoFile
    <3>1. VersionOf(g) \notin Versions /\ g["folder"] # NoFile
      BY <2>3, <2>4, <2>6, HoldsFacts
    <3>2. RecordOf(g) = R!Damaged(IdOf(g), VersionOf(g))
      BY <3>1, RecordFacts
    <3>3. RecordOf(g) = R!Damaged(IdOf(g), 0)
      BY <2>4, <3>2
    <3> QED
      BY <1>1, <1>2, <2>4, <3>3 DEF Result
  <2> QED
    BY <2>5, <2>6
<1> QED
  BY <1>4, <1>5

LEMMA OldFacts ==
    ASSUME NEW old \in R!Record, old # R!Absent
    PROVE  /\ old.state \in {"whole", "damaged"}
           /\ old.id \in Ids \cup {NoId} /\ old.version \in Versions \cup {0}
           /\ old.state = "whole" => old.id \in Ids /\ old = R!Whole(old.id, old.version)
           /\ old.state = "damaged" => old = R!Damaged(old.id, old.version)
  BY StateFacts DEF R!Record

LEMMA UpdateResult ==
    ASSUME Inv, lock \in Tasks, NEW w, w = task[lock], NEW f, f = Folder,
           Old # R!Absent, Updating(w, f, Old), Writing(w, f, Old), NEW g \in Broken(w, f)
    PROVE  Result(Old, RecordOf(g))
<1> DEFINE v == w.new["version"]
<1>1. v \in Versions /\ Old.version \in Versions /\ Old.version < v /\ IdOf(f) = Old.id
  BY DEF Writing, Updating
<1>2. w.todo \in Seq(Entries) /\ Old \in R!Record
  BY Holder DEF Task
<1>3. /\ f \in [Entries -> Values \cup {NoFile, Torn}] /\ {"id", "version", "folder"} \subseteq Entries
      /\ f["folder"] = There /\ There # NoFile
  BY Holder, SeedbankAssumption DEF Entries, Parts, Updating
<1>4. "id" \notin ToDo(w)
  BY <1>1, EntryFacts DEF Updating
<1>5. g["folder"] # NoFile /\ IdOf(g) = Old.id
  BY <1>1, <1>3, <1>4 DEF Broken, IdOf
<1>6. CASE w.todo = <<>>
  <2>1. ToDo(w) = {}
    BY <1>6 DEF ToDo
  <2>2. g = f
    BY <2>1 DEF Broken
  <2>3. w.left = {} /\ f["version"] = v
    <3>1. w.left = {}
      BY <1>1, <2>1 DEF Updating, Required
    <3> QED
      BY <2>1, <3>1 DEF Writing, Required
  <2>4. VersionOf(f) = v
    BY <1>1, <2>3 DEF VersionOf
  <2>5. CASE RecordOf(g) = R!Whole(IdOf(g), VersionOf(g)) /\ IdOf(g) \in Ids
    BY <1>1, <1>5, <2>2, <2>4, <2>5, HoldsFacts DEF Result
  <2>6. CASE RecordOf(g) = R!Damaged(IdOf(g), VersionOf(g)) /\ Old.state = "damaged"
    BY <1>1, <1>5, <2>2, <2>4, <2>6 DEF Result
  <2>7. CASE Old.state = "whole"
    <3>1. IdOf(f) \in Ids
      BY <1>1, <1>2, <2>7, OldFacts
    <3>2. f["definition"] = v /\ MountIs(f, MountOf[v])
      BY <2>1, <2>3, <2>7, AllWritten
    <3>3. RecordOf(g) = R!Whole(IdOf(g), VersionOf(g))
      BY <1>1, <1>5, <2>2, <2>4, <3>1, <3>2, RecordFacts
    <3> QED
      BY <1>5, <2>2, <2>5, <3>1, <3>3
  <2> QED
    BY <1>2, <1>5, <2>5, <2>6, <2>7, OldFacts, RecordFacts
<1>7. CASE w.todo # <<>>
  <2>1. f["version"] = Old.version
    BY <1>7 DEF Updating
  <2>2. VersionOf(g) \in {Old.version, 0}
    BY <1>1, <1>3, <2>1, HoldsFacts DEF Broken, VersionOf, Values
  <2>3. CASE /\ RecordOf(g) = R!Whole(IdOf(g), VersionOf(g)) /\ IdOf(g) \in Ids
             /\ VersionOf(g) \in Versions
    <3>1. VersionOf(g) = Old.version /\ Old.id # NoId
      BY <1>5, <2>2, <2>3, HoldsFacts
    <3>2. CASE Old.state = "whole"
      BY <1>2, <1>5, <2>3, <3>1, <3>2, OldFacts DEF Result
    <3>3. CASE Old.state = "damaged"
      BY <1>1, <1>5, <2>3, <3>1, <3>3 DEF Result
    <3> QED
      BY <1>2, <3>2, <3>3, OldFacts
  <2>4. CASE RecordOf(g) = R!Damaged(IdOf(g), VersionOf(g))
    BY <1>5, <2>2, <2>4 DEF Result
  <2> QED
    BY <1>5, <2>3, <2>4, RecordFacts
<1> QED
  BY <1>6, <1>7

LEMMA DeletionResult ==
    ASSUME Inv, lock \in Tasks, NEW w, w = task[lock], NEW f, f = Folder,
           Old # R!Absent, Deleting(w, f, Old)
    PROVE  Result(Old, RecordOf(f))
<1>1. f["folder"] # NoFile
  BY SeedbankAssumption DEF Deleting
<1>2. Old \in R!Record
  BY Holder
<1>3. IdOf(f) \in {Old.id, NoId} /\ VersionOf(f) \in {Old.version, 0}
  BY DEF Deleting
<1>4. CASE /\ RecordOf(f) = R!Whole(IdOf(f), VersionOf(f)) /\ IdOf(f) \in Ids
           /\ VersionOf(f) \in Versions
  <2>1. IdOf(f) = Old.id /\ Old.id # NoId /\ VersionOf(f) = Old.version /\ Old.version \in Versions
    BY <1>3, <1>4, HoldsFacts
  <2>2. CASE Old.state = "whole"
    BY <1>2, <1>4, <2>1, <2>2, OldFacts DEF Result
  <2>3. CASE Old.state = "damaged"
    BY <1>4, <2>1, <2>3 DEF Result
  <2> QED
    BY <1>2, <2>2, <2>3, OldFacts
<1>5. CASE RecordOf(f) = R!Damaged(IdOf(f), VersionOf(f))
  BY <1>3, <1>5 DEF Result
<1> QED
  BY <1>1, <1>4, <1>5, RecordFacts

-----------------------------------------------------------------------------
(* What steps leave alone *)

Well(w) ==
    /\ w \in Task
    /\ \A i \in 1..Len(w.todo) : w.new[w.todo[i]] \in Holds(w.todo[i])

LEMMA IdleFacts == Idle \in Task /\ Well(Idle) /\ Idle.step = "idle" /\ Idle.todo = <<>> /\ Idle.left = {}
<1>1. <<>> \in [{} -> Values] /\ <<>> \in Seq(Entries)
  OBVIOUS
<1>2. <<>> \in New
  BY <1>1 DEF New
<1> QED
  BY <1>1, <1>2 DEF Idle, Well, Task, Steps

LEMMA TasksWell == Inv => \A t \in Tasks : Well(task[t])
  BY DEF Inv, TypeOK, Shapes, Well

LEMMA BudgetTyped ==
    ASSUME TypeOK
    PROVE  budget' = budget \/ Fault \/ (\E t \in Tasks : Call(t)) =>
               budget' \in [calls : 0..MaxCalls, faults : 0..MaxFaults, crashes : 0..MaxCrashes]
<1>1. budget \in [calls : 0..MaxCalls, faults : 0..MaxFaults, crashes : 0..MaxCrashes]
      /\ MaxCalls \in Nat /\ MaxFaults \in Nat /\ MaxCrashes \in Nat
  BY SeedbankAssumption DEF TypeOK
<1>2. ASSUME Fault
      PROVE  budget' \in [calls : 0..MaxCalls, faults : 0..MaxFaults, crashes : 0..MaxCrashes]
  <2> DEFINE left == budget.faults - 1
  <2>1. left \in 0..MaxFaults /\ budget' = [budget EXCEPT !.faults = left]
    BY <1>1, <1>2 DEF Fault
  <2> HIDE DEF left
  <2> QED
    BY <1>1, <2>1
<1>3. ASSUME NEW t \in Tasks, Call(t)
      PROVE  budget' \in [calls : 0..MaxCalls, faults : 0..MaxFaults, crashes : 0..MaxCrashes]
  <2> DEFINE left == budget.calls - 1
  <2>1. left \in 0..MaxCalls /\ budget' = [budget EXCEPT !.calls = left]
    BY <1>1, <1>3 DEF Call
  <2> HIDE DEF left
  <2> QED
    BY <1>1, <2>1
<1> QED
  BY <1>1, <1>2, <1>3

\* A step of one call keeps the types if what it leaves of each variable is of its type.
LEMMA StepTyped ==
    ASSUME Inv, NEW t \in Tasks, NEW w, Well(w), task' = [task EXCEPT ![t] = w],
           file' \in [Names -> [Entries -> Values \cup {NoFile, Torn}]],
           \A n \in Names, e \in Entries : file'[n][e] \in Holds(e) \cup {NoFile, Torn},
           default' \in Names \cup {NoFile, Torn}, lock' \in Tasks \cup {NoTask},
           before' \in [record : [Names -> R!Record], default : Names \cup {NoName, Torn}],
           earned' \in [Names -> Nat], overtaken' \subseteq Names,
           budget' = budget \/ Fault \/ Call(t)
    PROVE  /\ TypeOK' /\ Shapes'
           /\ task'[t] = w /\ \A u \in Tasks \ {t} : task'[u] = task[u]
<1>1. /\ task' \in [Tasks -> Task] /\ task'[t] = w
      /\ \A u \in Tasks \ {t} : task'[u] = task[u]
  BY DEF Inv, Shapes, Well
<1>2. \A u \in Tasks : Well(task'[u])
  BY <1>1, TasksWell
<1>3. Shapes'
  BY <1>1 DEF Shapes
<1>4. \A u \in Tasks :
         /\ task'[u].step \in Steps /\ task'[u].name \in Names \cup {NoName}
         /\ task'[u].todo \in Seq(Entries) /\ task'[u].left \subseteq Entries
         /\ \A i \in 1..Len(task'[u].todo) : task'[u].new[task'[u].todo[i]] \in Holds(task'[u].todo[i])
  BY <1>2 DEF Well, Task
<1>5. budget' \in [calls : 0..MaxCalls, faults : 0..MaxFaults, crashes : 0..MaxCrashes]
  BY BudgetTyped DEF Inv
<1>6. TypeOK'
  BY <1>4, <1>5 DEF TypeOK
<1> QED
  BY <1>1, <1>3, <1>6

\* What the others hold or write does not change when one call takes or leaves the lock.
LEMMA HandsKept ==
    ASSUME Inv, NEW t \in Tasks, \A u \in Tasks \ {t} : task'[u] = task[u],
           lock' = lock \/ {lock, lock'} \subseteq {NoTask, t}, Hand(t)'
    PROVE  \A u \in Tasks : Hand(u)'
<1> SUFFICES ASSUME NEW u \in Tasks, u # t PROVE Hand(u)'
  OBVIOUS
<1>1. Hand(u) /\ task'[u] = task[u] /\ u # NoTask
  BY SeedbankAssumption DEF Inv
<1>2. lock' = u <=> lock = u
  BY <1>1
<1> QED
  BY <1>1, <1>2 DEF Hand

\* What a step leaves of the files.
FilesFine ==
    /\ file' \in [Names -> [Entries -> Values \cup {NoFile, Torn}]]
    /\ \A n \in Names, e \in Entries : file'[n][e] \in Holds(e) \cup {NoFile, Torn}
    /\ Folders' /\ IdsUnique'

\* One entry of one folder changes.
LEMMA FileChange ==
    ASSUME Inv, NEW n \in Names, NEW e \in Entries, NEW x \in Holds(e) \cup {NoFile, Torn},
           file' = [file EXCEPT ![n][e] = x],
           e \in {"folder", "mount"} => x # Torn,
           e = "folder" /\ x = NoFile => \A d \in Entries \ {"folder"} : file[n][d] = NoFile,
           e # "folder" /\ x # NoFile => Exists(n),
           e = "id" /\ x \in Ids => \A m \in Names \ {n} : file[m]["id"] # x
    PROVE  FilesFine
<1>1. file \in [Names -> [Entries -> Values \cup {NoFile, Torn}]]
  BY DEF Inv, Shapes
<1>2. x \in Values \cup {NoFile, Torn}
  BY HoldsFacts
<1>3. /\ file' \in [Names -> [Entries -> Values \cup {NoFile, Torn}]]
      /\ \A m \in Names, d \in Entries : file'[m][d] = IF m = n /\ d = e THEN x ELSE file[m][d]
      /\ file'[n] = [file[n] EXCEPT ![e] = x]
      /\ \A m \in Names \ {n} : file'[m] = file[m]
  BY <1>1, <1>2
<1>4. \A m \in Names, d \in Entries : file'[m][d] \in Holds(d) \cup {NoFile, Torn}
  BY <1>3 DEF Inv, TypeOK
<1>5. {"folder", "mount", "id"} \subseteq Entries
  BY DEF Entries, Parts
<1>6. Folders'
  <2> SUFFICES ASSUME NEW m \in Names
               PROVE  /\ file'[m]["folder"] # Torn /\ file'[m]["mount"] # Torn
                      /\ file'[m]["folder"] = NoFile => \A d \in Entries : file'[m][d] = NoFile
    BY DEF Folders
  <2>1. /\ file[m]["folder"] # Torn /\ file[m]["mount"] # Torn
        /\ file[m]["folder"] = NoFile => \A d \in Entries : file[m][d] = NoFile
    BY DEF Inv, Folders
  <2>2. CASE m # n
    BY <1>3, <1>5, <2>1, <2>2
  <2>3. CASE m = n /\ e = "folder"
    BY <1>3, <1>5, <2>1, <2>3
  <2>4. CASE m = n /\ e # "folder"
    BY <1>3, <1>5, <2>1, <2>4, SeedbankAssumption DEF Exists
  <2> QED
    BY <2>2, <2>3, <2>4
<1>7. IdsUnique'
  BY <1>3, <1>5 DEF Inv, IdsUnique
<1> QED
  BY <1>3, <1>4, <1>6, <1>7 DEF FilesFine

\* What the call that holds the lock relies on is not touched by a change of the logs
\* and statuses.
LEMMA HeldKept ==
    ASSUME Inv, lock # NoTask, lock' = lock, task'[lock] = task[lock], UNCHANGED <<default, before>>,
           \A m \in Names, e \in Entries \ {"log", "run"} : file'[m][e] = file[m][e]
    PROVE  Held'
<1>1. lock \in Tasks
  BY DEF Inv, TypeOK
<1> DEFINE w == task[lock]
<1>2. w.name \in Names /\ Held
  BY <1>1, Holder
<1>3. \A m \in Names : RecordOf(file'[m]) = RecordOf(file[m])
  BY LogsApart
<1>4. Records' = Records
  BY <1>3 DEF Records
<1>5. Default' = Default /\ before' = before /\ task'[lock'] = w
  BY DEF Default
<1>6. Old' = Old
  BY DEF Old
<1>7. \A e \in Entries \ {"log", "run"} : Folder'[e] = Folder[e]
  BY <1>2 DEF Folder
<1>8. {"id", "folder", "version"} \subseteq Entries \ {"log", "run"} /\ MountEntries \subseteq Entries \ {"log", "run"}
  BY EntryFacts DEF Entries, Parts
<1>9. Writing(w, Folder, Old) => Writing(w, Folder', Old)
  <2>1. ASSUME Writing(w, Folder, Old)
        PROVE  Required(w.new["version"]) \subseteq Entries \ {"log", "run"}
    BY <2>1, EntryFacts DEF Writing
  <2> QED
    BY <1>7, <1>8, <2>1 DEF Writing
<1>10. Creating(w, Folder) => (\A m \in Names \ {w.name} : file'[m]["id"] # w.new["id"])
  BY <1>8 DEF Creating
<1>11. Creating(w, Folder) => Creating(w, Folder)'
  BY <1>5, <1>7, <1>8, <1>10 DEF Creating, ToDo
<1>12. Updating(w, Folder, Old) => Updating(w, Folder', Old)
  BY <1>7, <1>8 DEF Updating, IdOf
<1>13. Deleting(w, Folder, Old) => Deleting(w, Folder', Old)
  BY <1>7, <1>8 DEF Deleting, IdOf, VersionOf
<1>14. Claiming(w) => Claiming(w)'
  BY <1>2, <1>4, <1>5, <1>6 DEF Claiming
<1> QED
  BY <1>2, <1>4, <1>5, <1>6, <1>9, <1>11, <1>12, <1>13, <1>14 DEF Held

-----------------------------------------------------------------------------
(* Steps of seedbank as steps of Records *)

RVars == <<SeenRecord, SeenDefault>>

\* While the lock is held, and when it is taken, nothing is seen of a call.
LEMMA Unseen ==
    ASSUME lock # NoTask => UNCHANGED <<lock, before>>,
           lock = NoTask => /\ lock' = NoTask => UNCHANGED <<Records, Default>>
                            /\ lock' # NoTask => before' = [record |-> Records, default |-> Default]
    PROVE  UNCHANGED RVars
  BY DEF RVars, SeenRecord, SeenDefault

\* When it is released the result of the call is seen.
LEMMA Seen ==
    ASSUME Inv, lock \in Tasks, lock' = NoTask, NEW n \in Names, n = task[lock].name,
           \A m \in Names \ {n} : RecordOf(file'[m]) = before.record[m],
           Result(Old, RecordOf(file'[n])), Default' = before.default
    PROVE  [R!Next]_RVars
<1> DEFINE new == RecordOf(file'[n])
<1>1. lock # NoTask
  BY SeedbankAssumption
<1>2. /\ SeenRecord = before.record /\ SeenDefault = before.default
      /\ SeenRecord' = [m \in Names |-> RecordOf(file'[m])] /\ SeenDefault' = SeenDefault
  BY <1>1 DEF SeenRecord, SeenDefault, Records
<1>3. before.record \in [Names -> R!Record] /\ Old = before.record[n] /\ Old \in R!Record
  BY Holder DEF Old
<1>4. SeenRecord' = [SeenRecord EXCEPT ![n] = new]
  BY <1>2, <1>3
<1>5. R!Becomes(n, new)
  BY <1>2, <1>4 DEF R!Becomes
<1>6. SeenRecord[n] = Old
  BY <1>2, <1>3
<1> HIDE DEF new
<1>7. CASE new = Old
  BY <1>2, <1>3, <1>4, <1>7 DEF RVars
<1>8. CASE /\ Old = R!Absent
           /\ \E id \in Ids :
                /\ \A m \in Names : before.record[m].id # id
                /\ \/ new \in {R!Damaged(id, 0), R!Damaged(NoId, 0)}
                   \/ \E v \in Versions : new = R!Whole(id, v)
  <2>1. R!Create(n)
    BY <1>2, <1>5, <1>6, <1>8 DEF R!Create, R!Unused
  <2> QED
    BY <2>1 DEF R!Next
<1>9. CASE /\ Old # R!Absent
           /\ \/ new = R!Absent
              \/ \E id \in {Old.id, NoId}, v \in {Old.version, 0} : new = R!Damaged(id, v)
  <2>1. R!Delete(n)
    BY <1>5, <1>6, <1>9 DEF R!Delete
  <2> QED
    BY <2>1 DEF R!Next
<1>10. CASE /\ Old.version \in Versions
            /\ \E v \in Versions :
                 \/ /\ v > Old.version \/ (v = Old.version /\ Old.state = "damaged")
                    /\ Old.id # NoId /\ new = R!Whole(Old.id, v)
                 \/ /\ v > Old.version /\ Old.state = "damaged"
                    /\ new = R!Damaged(Old.id, v)
  <2>1. Old.version > 0
    <3>1. \A v \in Versions : v > 0
      BY HoldsFacts
    <3> QED
      BY <1>10, <3>1
  <2>2. R!Update(n)
    BY <1>5, <1>6, <1>10, <2>1 DEF R!Update
  <2> QED
    BY <2>2 DEF R!Next
<1> QED
  BY <1>7, <1>8, <1>9, <1>10 DEF Result, new

\* The default that is claimed or released is seen.
LEMMA SeenClaim ==
    ASSUME Inv, lock \in Tasks, lock' = NoTask, NEW w, w = task[lock], UNCHANGED file,
           \/ UNCHANGED default
           \/ w.step = "claim" /\ default' \in {w.name, Torn}
           \/ w.step = "release" /\ default' = NoFile
    PROVE  w.step \in {"claim", "release"} => [R!Next]_RVars
<1> SUFFICES ASSUME w.step \in {"claim", "release"} PROVE [R!Next]_RVars
  OBVIOUS
<1> DEFINE n == w.name
<1>1. lock # NoTask /\ n \in Names /\ n # NoFile /\ Torn # NoFile
  BY Holder, SeedbankAssumption
<1>2. Held /\ w.step \notin {"write", "delete"}
  BY Holder
<1>3. /\ Default = before.default /\ Claiming(w)
      /\ \A m \in Names \ {n} : Records[m] = before.record[m]
  BY <1>2 DEF Held, Creating, Updating, Deleting
<1>4. before.record \in [Names -> R!Record] /\ Old = before.record[n]
  BY Holder DEF Old
<1>5. Records = before.record
  <2>1. \A m \in Names : Records[m] = before.record[m]
    BY <1>1, <1>3, <1>4 DEF Claiming
  <2> QED
    BY <1>4, <2>1 DEF Records
<1>6. Records' = Records
  BY DEF Records
<1>7. /\ SeenRecord = before.record /\ SeenDefault = Default
      /\ SeenRecord' = SeenRecord /\ SeenDefault' = Default'
  BY <1>1, <1>3, <1>5, <1>6 DEF SeenRecord, SeenDefault
<1>8. CASE UNCHANGED default
  BY <1>7, <1>8 DEF RVars, Default
<1>9. CASE w.step = "claim" /\ default' \in {n, Torn}
  <2>1. SeenDefault = NoName /\ SeenRecord[n] # R!Absent /\ SeenDefault' \in {n, Torn}
    BY <1>1, <1>3, <1>4, <1>7, <1>9 DEF Claiming, Default
  <2>2. R!Claim(n)
    BY <1>7, <2>1 DEF R!Claim
  <2> QED
    BY <1>1, <2>2 DEF R!Next
<1>10. CASE w.step = "release" /\ default' = NoFile
  <2>1. SeenDefault = n /\ SeenDefault' = NoName
    BY <1>3, <1>7, <1>10 DEF Claiming, Default
  <2>2. R!Release(n)
    BY <1>7, <2>1 DEF R!Release
  <2> QED
    BY <1>1, <2>2 DEF R!Next
<1> QED
  BY <1>8, <1>9, <1>10

\* A call that is cut off, with a write that failed or not, has made of its record what
\* a call of Records may.
LEMMA CutOff ==
    ASSUME Inv, lock \in Tasks, lock' = NoTask, NEW w, w = task[lock], UNCHANGED default,
           \/ UNCHANGED file
           \/ w.step = "write" /\ \E g \in Broken(w, Folder) : file' = [file EXCEPT ![w.name] = g]
    PROVE  [R!Next]_RVars
<1> DEFINE n == w.name
<1>1. /\ w.name \in Names /\ Held /\ file \in [Names -> [Entries -> Values \cup {NoFile, Torn}]]
      /\ Folder = file[n]
  BY Holder DEF Inv, Shapes
<1>2. CASE Claiming(w)
  <2>1. UNCHANGED file
    BY <1>2 DEF Claiming
  <2> QED
    BY <1>2, <2>1, SeenClaim DEF Claiming
<1>3. CASE ~Claiming(w)
  <2>1. PICK g \in Broken(w, Folder) :
            /\ file' = [file EXCEPT ![n] = g]
            /\ g = Folder \/ w.step = "write"
    BY <1>1 DEF Broken
  <2>2. file'[n] = g /\ \A m \in Names \ {n} : file'[m] = file[m]
    BY <1>1, <2>1
  <2>3. \A m \in Names \ {n} : Records[m] = before.record[m]
    BY <1>1 DEF Held
  <2>4. \A m \in Names \ {n} : RecordOf(file'[m]) = before.record[m]
    BY <2>2, <2>3 DEF Records
  <2>5. Default' = before.default
    BY <1>1 DEF Held, Default
  <2>6. Result(Old, RecordOf(g))
    <3>1. CASE Old = R!Absent /\ Creating(w, Folder) /\ Writing(w, Folder, Old)
      BY <2>3, <3>1, CreationResult
    <3>2. CASE Old # R!Absent /\ Updating(w, Folder, Old) /\ Writing(w, Folder, Old)
      BY <3>2, UpdateResult
    <3>3. CASE Old # R!Absent /\ Deleting(w, Folder, Old)
      BY <2>1, <3>3, DeletionResult DEF Deleting
    <3> QED
      BY <1>1, <1>3, <3>1, <3>2, <3>3 DEF Held
  <2> QED
    BY <1>1, <2>2, <2>4, <2>5, <2>6, Seen
<1> QED
  BY <1>2, <1>3

-----------------------------------------------------------------------------
(* The four ways in which a step of one call is a step of the whole *)

TallyFine == earned' \in [Names -> Nat] /\ overtaken' \subseteq Names

LEMMA Unchanged ==
    ASSUME Inv
    PROVE  /\ UNCHANGED file => FilesFine
           /\ UNCHANGED history => TallyFine
           /\ UNCHANGED default => default' \in Names \cup {NoFile, Torn}
           /\ UNCHANGED before => before' \in [record : [Names -> R!Record], default : Names \cup {NoName, Torn}]
           /\ UNCHANGED lock => lock' \in Tasks \cup {NoTask}
<1>1. UNCHANGED file => FilesFine
  BY DEF FilesFine, Inv, TypeOK, Shapes, Folders, IdsUnique
<1> QED
  BY <1>1 DEF TallyFine, history, Inv, TypeOK

LEMMA StepInv ==
    ASSUME Inv, NEW t \in Tasks, NEW w, Well(w), task' = [task EXCEPT ![t] = w],
           FilesFine, TallyFine,
           default' \in Names \cup {NoFile, Torn}, lock' \in Tasks \cup {NoTask},
           before' \in [record : [Names -> R!Record], default : Names \cup {NoName, Torn}],
           budget' = budget \/ Fault \/ Call(t),
           lock' = lock \/ {lock, lock'} \subseteq {NoTask, t},
           Hand(t)', lock' # NoTask => Held'
    PROVE  Inv'
<1>1. TypeOK' /\ Shapes' /\ \A u \in Tasks \ {t} : task'[u] = task[u]
  BY StepTyped DEF FilesFine, TallyFine
<1>2. \A u \in Tasks : Hand(u)'
  BY <1>1, HandsKept
<1> QED
  BY <1>1, <1>2 DEF Inv, FilesFine

\* Outside the lock: nothing but logs and statuses is written.
LEMMA Outside ==
    ASSUME Inv, NEW t \in Tasks, NEW w, Well(w), task' = [task EXCEPT ![t] = w],
           lock # t, UNCHANGED <<lock, before, default>>, FilesFine, TallyFine,
           \A m \in Names, e \in Entries \ {"log", "run"} : file'[m][e] = file[m][e],
           budget' = budget \/ Fault \/ Call(t), Hand(t)'
    PROVE  Inv' /\ UNCHANGED RVars
<1>1. lock # NoTask => task'[lock] = task[lock]
  BY DEF Inv, TypeOK, Shapes
<1>2. lock' # NoTask => Held'
  BY <1>1, HeldKept
<1>3. Inv'
  BY <1>2, StepInv, Unchanged
<1>4. \A m \in Names : RecordOf(file'[m]) = RecordOf(file[m])
  BY LogsApart
<1>5. Records' = Records /\ Default' = Default
  BY <1>4 DEF Records, Default
<1> QED
  BY <1>3, <1>5, Unseen

\* The lock is taken, with the records that are there.
LEMMA Takes ==
    ASSUME Inv, NEW t \in Tasks, NEW w, Well(w), task' = [task EXCEPT ![t] = w],
           lock = NoTask, Locked(t), UNCHANGED <<file, default, history>>, Call(t), Hand(t)', Held'
    PROVE  Inv' /\ UNCHANGED RVars
<1>1. lock' = t /\ before' = [record |-> Records, default |-> Default]
  BY DEF Locked
<1>2. Records \in [Names -> R!Record]
  BY RecordTyped DEF Records, Inv, Folders
<1>3. Default \in Names \cup {NoName, Torn}
  BY DEF Default, Inv, TypeOK
<1>4. Inv'
  BY <1>1, <1>2, <1>3, StepInv, Unchanged
<1>5. UNCHANGED RVars
  BY <1>1, Unseen, SeedbankAssumption
<1> QED
  BY <1>4, <1>5

\* The call that holds the lock goes on.
LEMMA Continues ==
    ASSUME Inv, NEW t \in Tasks, NEW w, Well(w), task' = [task EXCEPT ![t] = w],
           lock = t, UNCHANGED <<lock, before, default, history, budget>>, FilesFine, Hand(t)', Held'
    PROVE  Inv' /\ UNCHANGED RVars
<1>1. Inv'
  BY StepInv, Unchanged
<1>2. lock # NoTask
  BY SeedbankAssumption
<1>3. UNCHANGED RVars
  BY <1>2, Unseen
<1> QED
  BY <1>1, <1>3

\* A call is answered.
LEMMA Answers ==
    ASSUME Inv, NEW t \in Tasks, Answer(t), UNCHANGED before, FilesFine, TallyFine,
           default' \in Names \cup {NoFile, Torn}, budget' = budget \/ Fault,
           lock # t => /\ UNCHANGED default
                       /\ \A m \in Names, e \in Entries \ {"log", "run"} : file'[m][e] = file[m][e],
           lock = t => [R!Next]_RVars
    PROVE  Inv' /\ [R!Next]_RVars
<1>1. task' = [task EXCEPT ![t] = Idle] /\ Well(Idle)
  BY IdleFacts DEF Answer
<1>2. task'[t] = Idle /\ t # NoTask
  BY <1>1, SeedbankAssumption DEF Inv, Shapes
<1>3. Hand(t)'
  <2>1. lock' # t
    BY <1>2 DEF Answer
  <2> QED
    BY <1>2, <2>1, IdleFacts DEF Hand, LockedSteps
<1>4. CASE lock # t
  <2>1. lock' = lock
    BY <1>4 DEF Answer
  <2> QED
    BY <1>1, <1>3, <1>4, <2>1, Outside
<1>5. CASE lock = t
  <2>1. lock' = NoTask
    BY <1>5 DEF Answer
  <2>2. Inv'
    BY <1>1, <1>3, <1>5, <2>1, StepInv, Unchanged
  <2> QED
    BY <1>5, <2>2
<1> QED
  BY <1>4, <1>5

-----------------------------------------------------------------------------
(* Calls that begin *)

\* What a call has to do when it takes the lock.
LEMMA HeldAtOnce ==
    ASSUME Inv, NEW t \in Tasks, NEW w \in Task, w.name \in Names,
           task' = [task EXCEPT ![t] = w], Locked(t), UNCHANGED <<file, default>>,
           NEW f, f = file[w.name], NEW old, old = RecordOf(f),
           \/ old = R!Absent /\ Creating(w, f) /\ Writing(w, f, old)
           \/ old # R!Absent /\ Updating(w, f, old) /\ Writing(w, f, old)
           \/ old # R!Absent /\ Deleting(w, f, old)
           \/ /\ w.step \in {"claim", "release"} /\ w.left = {}
              /\ w.step = "claim" => Default = NoName /\ old # R!Absent
              /\ w.step = "release" => Default = w.name
    PROVE  Held'
<1>1. /\ lock' = t /\ before' = [record |-> Records, default |-> Default]
      /\ task'[lock'] = w
  BY DEF Locked, Inv, Shapes
<1>2. Records' = Records /\ Default' = Default /\ \A m \in Names : Records[m] = RecordOf(file[m])
  BY DEF Records, Default
<1>3. Old' = old /\ Folder' = f /\ Records'[w.name] = old
  BY <1>1, <1>2 DEF Old, Folder
<1>4. Creating(w, f) => Creating(w, f)'
  BY DEF Creating
<1>5. \/ /\ w.step \in {"claim", "release"} /\ w.left = {}
         /\ w.step = "claim" => Default = NoName /\ old # R!Absent
         /\ w.step = "release" => Default = w.name
      => Claiming(w)'
  BY <1>1, <1>2, <1>3 DEF Claiming
<1> QED
  BY <1>1, <1>2, <1>3, <1>4, <1>5 DEF Held

\* What the writes of a definition hold.
LEMMA DefinitionHolds ==
    ASSUME NEW v \in Versions, NEW new, new["version"] = v, new["definition"] = v,
           \A e \in MountEntries : new[e] = There
    PROVE  \A e \in Required(v) : new[e] \in Holds(e)
<1>1. Required(v) \subseteq {"version", "definition"} \cup MountEntries
  BY EntryFacts DEF Required
<1>2. \A e \in MountEntries : e \notin {"id", "version", "definition", "log"}
  BY EntryFacts
<1> QED
  BY <1>1, <1>2 DEF Holds

LEMMA CreateStep ==
    ASSUME Inv, NEW t \in Tasks, Create(t)
    PROVE  Inv' /\ UNCHANGED RVars
<1>1. PICK n \in Names, v \in Versions, next \in Ids \ UsedIds :
        \E order \in Orders(v) :
            /\ ~Exists(n)
            /\ Goes(t, "write", n, <<"folder", "id">> \o Definition(v, order), {},
                    WithId(Contents(v), next))
  BY DEF Create
<1>2. PICK order \in Orders(v) :
            /\ ~Exists(n)
            /\ Goes(t, "write", n, <<"folder", "id">> \o Definition(v, order), {},
                    WithId(Contents(v), next))
  BY <1>1
<1> DEFINE d == Definition(v, order)
           todo == <<"folder", "id">> \o d
           new == WithId(Contents(v), next)
           w == [step |-> "write", name |-> n, todo |-> todo, left |-> {}, new |-> new]
           f == file[n]
<1>3. /\ d \in Seq(Entries) /\ Len(d) > 0 /\ d[Len(d)] = "version"
      /\ {d[i] : i \in 1..Len(d)} = Required(v) /\ Once(d)
  BY DefinitionFacts
<1>4. /\ new \in New /\ new["version"] = v /\ new["definition"] = v /\ new["id"] = next
      /\ new["folder"] = There /\ \A e \in MountEntries : new[e] = There
  BY CreationFacts
<1>5. /\ todo \in Seq(Entries) /\ todo[Len(todo)] = "version"
      /\ {todo[i] : i \in 1..Len(todo)} = {"folder", "id"} \cup Required(v)
      /\ Once(todo)
  <2> HIDE DEF d
  <2>1. <<"folder", "id">> \in Seq(Entries)
    BY DEF Entries, Parts
  <2>2. /\ todo \in Seq(Entries) /\ Len(todo) = Len(d) + 2
        /\ todo[1] = "folder" /\ todo[2] = "id"
        /\ \A i \in 3..Len(todo) : todo[i] = d[i - 2]
        /\ \A i \in 1..Len(d) : todo[i + 2] = d[i]
    BY <1>3, <2>1
  <2>3. \A i \in 1..Len(todo) : i = 1 \/ i = 2 \/ (i \in 3..Len(todo) /\ i - 2 \in 1..Len(d))
    BY <1>3, <2>2
  <2>4. 1 \in 1..Len(todo) /\ 2 \in 1..Len(todo) /\ \A i \in 1..Len(d) : i + 2 \in 1..Len(todo)
    BY <1>3, <2>2
  <2>5. todo[Len(todo)] = "version"
    BY <1>3, <2>2
  <2>6. \A i \in 1..Len(todo) : todo[i] \in {"folder", "id"} \cup Required(v)
    BY <1>3, <2>2, <2>3
  <2>7. \A e \in {"folder", "id"} \cup Required(v) : \E i \in 1..Len(todo) : todo[i] = e
    BY <1>3, <2>2, <2>4
  <2>8. {todo[i] : i \in 1..Len(todo)} = {"folder", "id"} \cup Required(v)
    BY <2>6, <2>7
  <2>9. Once(todo)
    <3>1. {"folder", "id"} \cap Required(v) = {}
      BY EntryFacts
    <3>2. \A i \in 3..Len(todo) : i - 2 \in 1..Len(d) /\ todo[i] \notin {"folder", "id"}
      <4> TAKE i \in 3..Len(todo)
      <4>1. i - 2 \in 1..Len(d) /\ todo[i] = d[i - 2]
        BY <1>3, <2>2
      <4>2. d[i - 2] \in Required(v)
        BY <1>3, <4>1
      <4> QED
        BY <3>1, <4>1, <4>2
    <3>3. ASSUME NEW i \in 3..Len(todo), NEW j \in 3..Len(todo), todo[i] = todo[j] PROVE i = j
      <4>1. d[i - 2] = d[j - 2]
        BY <2>2, <3>3
      <4>2. i - 2 = j - 2
        BY <1>3, <3>2, <4>1 DEF Once
      <4> QED
        BY <4>2
    <3> QED
      BY <2>2, <2>3, <3>2, <3>3 DEF Once
  <2> QED
    BY <2>2, <2>5, <2>8, <2>9
<1> HIDE DEF d, todo, new
<1>6. w \in Task /\ ToDo(w) = {"folder", "id"} \cup Required(v)
  BY <1>4, <1>5 DEF Task, Steps, ToDo
<1>7. Well(w)
  <2>1. \A e \in ToDo(w) : new[e] \in Holds(e)
    BY <1>4, <1>6, DefinitionHolds DEF Holds
  <2> QED
    BY <1>6, <2>1 DEF Well, ToDo
<1>8. task' = [task EXCEPT ![t] = w]
  BY <1>2 DEF Goes, todo, new, d
<1>9. f["folder"] = NoFile /\ \A e \in Entries : f[e] = NoFile
  <2>1. f["folder"] \in {There, NoFile}
    BY DEF Inv, TypeOK, Folders, Holds, Entries, Parts
  <2> QED
    BY <1>2, <2>1 DEF Exists, Inv, Folders
<1>10. RecordOf(f) = R!Absent
  BY <1>9, RecordTyped
<1>11. Writing(w, f, R!Absent)
  <2>1. \A e \in Required(v) : e \in ToDo(w)
    BY <1>6
  <2>2. \A e \in MountEntries : f[e] = NoFile
    BY <1>9, EntryFacts
  <2> QED
    BY <1>4, <1>5, <2>1, <2>2 DEF Writing
<1>12. Creating(w, f)
  <2>1. \A m \in Names \ {n} : file[m]["id"] # next
    <3> TAKE m \in Names \ {n}
    <3>1. CASE Exists(m)
      BY <3>1 DEF UsedIds
    <3>2. CASE ~Exists(m)
      <4>1. file[m]["folder"] \in {There, NoFile} /\ "id" \in Entries
        BY DEF Inv, TypeOK, Folders, Holds, Entries, Parts
      <4>2. file[m]["id"] = NoFile
        BY <3>2, <4>1 DEF Exists, Inv, Folders
      <4> QED
        BY <4>2, HoldsFacts DEF Values
    <3> QED
      BY <3>1, <3>2
  <2>2. f["id"] = NoFile /\ f["version"] = NoFile /\ f["folder"] = NoFile
    BY <1>9 DEF Entries, Parts
  <2> QED
    BY <1>4, <1>6, <2>1, <2>2 DEF Creating
<1>13. lock = NoTask /\ Call(t) /\ Locked(t) /\ UNCHANGED <<file, default, history>>
  BY DEF Create, Call
<1>14. Held'
  BY <1>6, <1>8, <1>10, <1>11, <1>12, <1>13, HeldAtOnce
<1>15. Hand(t)'
  <2>1. task'[t] = w /\ lock' = t
    BY <1>8, <1>13 DEF Inv, Shapes, Locked
  <2> QED
    BY <2>1 DEF Hand, LockedSteps
<1> QED
  BY <1>7, <1>8, <1>13, <1>14, <1>15, Takes

LEMMA UpdateStep ==
    ASSUME Inv, NEW t \in Tasks, Update(t)
    PROVE  Inv' /\ UNCHANGED RVars
<1>1. PICK n \in Names, v \in Versions : \E order \in Orders(v) :
         /\ Exists(n) /\ file[n]["version"] \in Versions /\ v > file[n]["version"]
         /\ Loadable(file[n])
         /\ Goes(t, "write", n, Definition(v, order), Stale(file[n], v), Contents(v))
  BY DEF Update
<1>2. PICK order \in Orders(v) :
         Goes(t, "write", n, Definition(v, order), Stale(file[n], v), Contents(v))
  BY <1>1
<1> DEFINE d == Definition(v, order)
           new == Contents(v)
           f == file[n]
           left == Stale(f, v)
           w == [step |-> "write", name |-> n, todo |-> d, left |-> left, new |-> new]
           old == RecordOf(f)
<1>3. /\ d \in Seq(Entries) /\ Len(d) > 0 /\ d[Len(d)] = "version"
      /\ {d[i] : i \in 1..Len(d)} = Required(v) /\ Once(d)
  BY DefinitionFacts
<1>4. /\ new \in New /\ new["version"] = v /\ new["definition"] = v
      /\ \A e \in MountEntries : new[e] = There
  BY ContentsFacts
<1>5. left \subseteq MountEntries
  BY DEF Stale, MountEntries
<1>6. task' = [task EXCEPT ![t] = w]
  BY <1>2 DEF Goes
<1>7. f["folder"] = There /\ There # NoFile /\ f["version"] \in Versions /\ f["version"] < v
  BY <1>1, HoldsFacts, SeedbankAssumption DEF Exists
<1>8. /\ old.id = IdOf(f) /\ old.version = f["version"]
      /\ old # R!Absent /\ old.state \in {"whole", "damaged"}
      /\ old.state = "whole" => /\ f["definition"] = f["version"]
                                /\ MountIs(f, MountOf[f["version"]])
  <2>1. VersionOf(f) = f["version"]
    BY <1>7 DEF VersionOf
  <2> QED
    BY <1>7, <2>1, RecordFacts, StateFacts
<1>9. old.state = "whole" => \A e \in MountEntries \ Required(v) : f[e] = NoFile \/ e \in left
  <2> SUFFICES ASSUME old.state = "whole", NEW e \in MountEntries \ Required(v), f[e] # NoFile
               PROVE  e \in left
    OBVIOUS
  <2>1. f["definition"] = f["version"] /\ MountIs(f, MountOf[f["version"]])
    BY <1>8
  <2>2. MountOf[f["definition"]] # NoMount
    BY <2>1 DEF MountIs, MountEntries
  <2> DEFINE there == {p \in Paths : f[p] # NoFile}
  <2>3. left = IF MountOf[v] = NoMount \/ there = {} THEN there \cup {"mount"}
               ELSE there \ MountOf[v]
    BY <2>2 DEF Stale
  <2>4. e \in there \/ e = "mount"
    BY DEF MountEntries
  <2>5. MountOf[v] # NoMount => e # "mount" /\ e \notin MountOf[v]
    BY DEF Required, MountOfVersion
  <2> QED
    BY <2>3, <2>4, <2>5
<1> HIDE DEF d, new, left, old
<1>10. w \in Task /\ ToDo(w) = Required(v)
  BY <1>3, <1>4, <1>5, EntryFacts DEF Task, Steps, ToDo
<1>11. Well(w)
  <2>1. \A e \in ToDo(w) : new[e] \in Holds(e)
    BY <1>4, <1>10, DefinitionHolds
  <2> QED
    BY <1>10, <2>1 DEF Well, ToDo
<1>12. Writing(w, f, old)
  BY <1>3, <1>4, <1>8, <1>9, <1>10 DEF Writing
<1>13. Updating(w, f, old)
  BY <1>4, <1>5, <1>7, <1>8, <1>10 DEF Updating
<1>14. lock = NoTask /\ Call(t) /\ Locked(t) /\ UNCHANGED <<file, default, history>>
  BY DEF Update, Call
<1>15. Held'
  BY <1>6, <1>8, <1>10, <1>12, <1>13, <1>14, HeldAtOnce DEF old
<1>16. Hand(t)'
  <2>1. task'[t] = w /\ lock' = t
    BY <1>6, <1>14 DEF Inv, Shapes, Locked
  <2> QED
    BY <2>1 DEF Hand, LockedSteps
<1> QED
  BY <1>6, <1>11, <1>14, <1>15, <1>16, Takes

\* A folder that is there has a record.
LEMMA ThereIsRecord ==
    ASSUME Inv, NEW n \in Names
    PROVE  /\ Exists(n) => RecordOf(file[n]) # R!Absent
           /\ ~Exists(n) => \A e \in Entries : file[n][e] = NoFile
<1>1. file[n]["folder"] \in {There, NoFile} /\ There # NoFile
  BY SeedbankAssumption DEF Inv, TypeOK, Folders, Holds, Entries, Parts
<1> QED
  BY <1>1, RecordTyped DEF Exists, Inv, Folders

\* A call that has only its seedling and what is left to delete.
LEMMA PlainTask ==
    ASSUME NEW step \in Steps, NEW n \in Names, NEW left \in SUBSET Entries, NEW w,
           w = [step |-> step, name |-> n, todo |-> <<>>, left |-> left, new |-> <<>>]
    PROVE  Well(w) /\ w \in Task
<1>1. Idle.new \in New /\ Idle.new = <<>> /\ <<>> \in Seq(Entries)
  BY IdleFacts DEF Task, Idle
<1> QED
  BY <1>1 DEF Well, Task

LEMMA DeleteStep ==
    ASSUME Inv, NEW t \in Tasks, Delete(t)
    PROVE  Inv' /\ UNCHANGED RVars
<1>1. PICK n \in Names :
         /\ Exists(n)
         /\ Goes(t, "delete", n, <<>>, {e \in Entries \ {"folder"} : file[n][e] # NoFile}, <<>>)
  BY DEF Delete
<1> DEFINE left == {e \in Entries \ {"folder"} : file[n][e] # NoFile}
           w == [step |-> "delete", name |-> n, todo |-> <<>>, left |-> left, new |-> <<>>]
           f == file[n]
           old == RecordOf(f)
<1>2. Well(w) /\ w \in Task
  BY PlainTask DEF Steps
<1>3. task' = [task EXCEPT ![t] = w]
  BY <1>1 DEF Goes
<1>4. lock = NoTask /\ Call(t) /\ Locked(t) /\ UNCHANGED <<file, default, history>>
  BY DEF Delete, Call
<1>5. old # R!Absent /\ Deleting(w, f, old)
  BY <1>1, ThereIsRecord, RecordFacts DEF Deleting, Exists
<1> HIDE DEF old
<1>6. Held'
  BY <1>2, <1>3, <1>4, <1>5, HeldAtOnce DEF old
<1>7. Hand(t)'
  <2>1. task'[t] = w /\ lock' = t
    BY <1>2, <1>3, <1>4 DEF Inv, Shapes, Locked
  <2> QED
    BY <2>1 DEF Hand, LockedSteps
<1> QED
  BY <1>2, <1>3, <1>4, <1>6, <1>7, Takes

LEMMA DefaultSteps ==
    ASSUME Inv, NEW t \in Tasks, ClaimDefault(t) \/ ReleaseDefault(t)
    PROVE  Inv' /\ UNCHANGED RVars
<1>1. PICK n \in Names, step \in {"claim", "release"} :
         /\ Goes(t, step, n, <<>>, {}, <<>>)
         /\ step = "claim" => Exists(n) /\ default = NoFile
         /\ step = "release" => default = n
  BY DEF ClaimDefault, ReleaseDefault
<1> DEFINE w == [step |-> step, name |-> n, todo |-> <<>>, left |-> {}, new |-> <<>>]
           old == RecordOf(file[n])
<1>2. Well(w) /\ w \in Task
  BY PlainTask DEF Steps
<1>3. task' = [task EXCEPT ![t] = w]
  BY <1>1 DEF Goes
<1>4. lock = NoTask /\ Call(t) /\ Locked(t) /\ UNCHANGED <<file, default, history>>
  BY DEF ClaimDefault, ReleaseDefault, Call
<1>5. /\ step = "claim" => Default = NoName /\ old # R!Absent
      /\ step = "release" => Default = n
  <2>1. NoFile \notin Names
    BY SeedbankAssumption
  <2> QED
    BY <1>1, <2>1, ThereIsRecord DEF Default
<1>6. Held'
  <2>1. w.name = n /\ w.step = step /\ w.left = {}
    OBVIOUS
  <2> HIDE DEF w
  <2> QED
    BY <1>2, <1>3, <1>4, <1>5, <2>1, HeldAtOnce
<1>7. Hand(t)'
  <2>1. task'[t] = w /\ lock' = t
    BY <1>2, <1>3, <1>4 DEF Inv, Shapes, Locked
  <2> QED
    BY <2>1 DEF Hand, LockedSteps
<1> QED
  BY <1>2, <1>3, <1>4, <1>6, <1>7, Takes

\* The log and the status are one entry each, which a call of its own writes.
LEMMA EntryTask ==
    ASSUME NEW n \in Names, NEW e \in {"log", "run"}, NEW x \in Holds(e), NEW w,
           w = [step |-> "write", name |-> n, todo |-> <<e>>, left |-> {}, new |-> [d \in {e} |-> x]]
    PROVE  Well(w) /\ w \in Task /\ ToDo(w) = {e}
<1>1. e \in Entries
  BY DEF Entries, Parts
<1>2. [d \in {e} |-> x] \in [{e} -> Values]
  BY <1>1, HoldsFacts
<1>3. [d \in {e} |-> x] \in New
  BY <1>1, <1>2 DEF New
<1> QED
  BY <1>1, <1>3 DEF Well, Task, Steps, ToDo

LEMMA CallsOutside ==
    ASSUME Inv, NEW t \in Tasks,
           SetDesiredRunStatus(t) \/ ResetHealthLog(t) \/ IncrementHealthLog(t)
    PROVE  Inv' /\ UNCHANGED RVars
<1>1. /\ Call(t) /\ lock # t /\ UNCHANGED <<file, default, lock, before>>
  BY SeedbankAssumption DEF SetDesiredRunStatus, ResetHealthLog, IncrementHealthLog, Call
<1>2. TallyFine
  <2>1. earned \in [Names -> Nat] /\ overtaken \subseteq Names
    BY DEF Inv, TypeOK
  <2>2. CASE IncrementHealthLog(t)
    BY <2>1, <2>2 DEF IncrementHealthLog, TallyFine
  <2>3. CASE UNCHANGED history
    BY <2>1, <2>3 DEF TallyFine, history
  <2> QED
    BY <2>2, <2>3 DEF SetDesiredRunStatus, ResetHealthLog
<1>3. FilesFine
  BY <1>1, Unchanged
<1>4. ASSUME NEW w \in Task, Well(w), task' = [task EXCEPT ![t] = w], w.name \in Names,
             w.left = {},
             \/ w.step \in {"reset", "read"}
             \/ w.step = "write" /\ \A i \in 1..Len(w.todo) : w.todo[i] \in {"run", "log"}
      PROVE  Inv' /\ UNCHANGED RVars
  <2>1. task'[t] = w
    BY <1>4 DEF Inv, Shapes
  <2>2. Hand(t)'
    BY <1>1, <1>4, <2>1 DEF Hand, LockedSteps
  <2> QED
    BY <1>1, <1>2, <1>3, <1>4, <2>2, Outside
<1>5. CASE SetDesiredRunStatus(t)
  <2>1. PICK n \in Names : Goes(t, "write", n, <<"run">>, {}, [e \in {"run"} |-> There])
    BY <1>5 DEF SetDesiredRunStatus
  <2> DEFINE w == [step |-> "write", name |-> n, todo |-> <<"run">>, left |-> {},
                   new |-> [e \in {"run"} |-> There]]
  <2>2. Well(w) /\ w \in Task
    BY EntryTask DEF Holds
  <2>3. task' = [task EXCEPT ![t] = w]
    BY <2>1 DEF Goes
  <2>4. /\ w.name = n /\ w.left = {} /\ w.step = "write"
        /\ \A i \in 1..Len(w.todo) : w.todo[i] \in {"run", "log"}
    OBVIOUS
  <2> HIDE DEF w
  <2> QED
    BY <1>4, <2>2, <2>3, <2>4
<1>6. CASE ResetHealthLog(t) \/ IncrementHealthLog(t)
  <2>1. PICK n \in Names, step \in {"reset", "read"} : Goes(t, step, n, <<>>, {}, <<>>)
    BY <1>6 DEF ResetHealthLog, IncrementHealthLog
  <2> DEFINE w == [step |-> step, name |-> n, todo |-> <<>>, left |-> {}, new |-> <<>>]
  <2>2. Well(w) /\ w \in Task
    BY PlainTask DEF Steps
  <2>3. task' = [task EXCEPT ![t] = w]
    BY <2>1 DEF Goes
  <2> QED
    BY <1>4, <2>2, <2>3
<1> QED
  BY <1>5, <1>6

-----------------------------------------------------------------------------
(* Calls that go on *)

\* What a call that holds the lock has done by its next step.
LEMMA HeldOn ==
    ASSUME Inv, NEW t \in Tasks, lock = t, NEW w, w.name = task[t].name,
           task' = [task EXCEPT ![t] = w], UNCHANGED <<lock, before, default>>,
           \A m \in Names \ {w.name} : file'[m] = file[m], NEW f, f = file'[w.name],
           \/ Old = R!Absent /\ Creating(w, f) /\ Writing(w, f, Old)
           \/ Old # R!Absent /\ Updating(w, f, Old) /\ Writing(w, f, Old)
           \/ Old # R!Absent /\ Deleting(w, f, Old)
    PROVE  Held'
<1>1. task'[lock'] = w /\ Default' = Default
  BY DEF Inv, Shapes, Default
<1>2. Old' = Old /\ Folder' = f
  BY <1>1 DEF Old, Folder
<1>3. Held /\ w.name \in Names
  BY Holder
<1>4. \A m \in Names \ {w.name} : Records'[m] = before'.record[m]
  BY <1>3 DEF Held, Records
<1>5. Creating(w, f) => Creating(w, f)'
  BY DEF Creating
<1> QED
  BY <1>1, <1>2, <1>3, <1>4, <1>5 DEF Held

\* Answered with a failure, or cut off.
LEMMA Fails ==
    ASSUME Inv, NEW t \in Tasks, Answer(t), UNCHANGED <<file, default, before, history>>,
           budget' = budget \/ Fault
    PROVE  Inv' /\ [R!Next]_RVars
<1>1. FilesFine /\ TallyFine /\ default' \in Names \cup {NoFile, Torn}
  BY Unchanged
<1>2. ASSUME lock = t PROVE [R!Next]_RVars
  <2>1. lock' = NoTask
    BY <1>2 DEF Answer
  <2> QED
    BY <1>2, <2>1, CutOff
<1> QED
  BY <1>1, <1>2, Answers

LEMMA UnlinkStep ==
    ASSUME Inv, NEW t \in Tasks, Unlink(t)
    PROVE  Inv' /\ [R!Next]_RVars
<1>1. task[t].left # {} /\ UNCHANGED <<default, before, history>>
  BY DEF Unlink
<1>2. lock = t
  BY <1>1 DEF Inv, Hand, LockedSteps
<1>3. CASE Fault /\ Answer(t) /\ UNCHANGED file
  BY <1>1, <1>3, Fails
<1>4. ASSUME NEW e \in task[t].left, file' = [file EXCEPT ![task[t].name][e] = NoFile],
             task' = [task EXCEPT ![t].left = @ \ {e}], UNCHANGED <<lock, budget>>
      PROVE  Inv' /\ UNCHANGED RVars
  <2> DEFINE v == task[t]
             n == v.name
             f == file[n]
             w == [v EXCEPT !.left = @ \ {e}]
             g == file'[n]
  <2>1. /\ v \in Task /\ n \in Names /\ Held /\ e \in Entries /\ f = Folder
        /\ f \in [Entries -> Values \cup {NoFile, Torn}] /\ task \in [Tasks -> Task]
    BY <1>2, <1>4, Holder DEF Inv, Shapes, Task
  <2>2. /\ w \in Task /\ w.step = v.step /\ w.name = n /\ w.todo = v.todo /\ w.new = v.new
        /\ w.left = v.left \ {e}
    BY <2>1 DEF Task
  <2>3. task' = [task EXCEPT ![t] = w]
    BY <1>4, <2>1
  <2>4. Well(w)
    BY <2>2, TasksWell DEF Well
  <2>5. \/ Old # R!Absent /\ Updating(v, f, Old) /\ Writing(v, f, Old)
        \/ Old # R!Absent /\ Deleting(v, f, Old)
    BY <1>1, <1>2, <2>1 DEF Held, Creating, Claiming
  <2>6. e # "folder"
    BY <1>1, <2>5, EntryFacts DEF Updating, Deleting
  <2>7. FilesFine /\ g = [f EXCEPT ![e] = NoFile] /\ \A m \in Names \ {n} : file'[m] = file[m]
    <3>1. NoFile # Torn /\ NoFile \notin Ids
      BY HoldsFacts DEF Values
    <3>2. FilesFine
      BY <1>4, <2>1, <2>6, <3>1, FileChange
    <3>3. g = [f EXCEPT ![e] = NoFile] /\ \A m \in Names \ {n} : file'[m] = file[m]
      BY <1>4, <2>1 DEF Inv, Shapes
    <3> QED
      BY <3>2, <3>3
  <2> HIDE DEF w
  <2>8. ASSUME Old # R!Absent, Updating(v, f, Old), Writing(v, f, Old) PROVE Held'
    <3>1. e \in MountEntries /\ ToDo(w) = ToDo(v)
      BY <1>1, <2>2, <2>8 DEF Updating, ToDo
    <3>2. /\ {"folder", "id", "version"} \cap MountEntries = {}
          /\ {"folder", "id", "version"} \subseteq Entries /\ MountEntries \subseteq Entries
      BY EntryFacts DEF Parts
    <3>3. /\ g["folder"] = f["folder"] /\ g["id"] = f["id"] /\ g["version"] = f["version"]
          /\ g[e] = NoFile /\ \A d \in Entries \ {e} : g[d] = f[d]
      BY <2>1, <2>7, <3>1, <3>2
    <3>4. Updating(w, g, Old)
      BY <2>2, <2>8, <3>1, <3>3 DEF Updating, IdOf
    <3>5. Writing(w, g, Old)
      <4>1. \A d \in MountEntries \ Required(w.new["version"]) :
               f[d] = NoFile \/ d \in v.left => g[d] = NoFile \/ d \in w.left
        BY <2>2, <3>2, <3>3
      <4> QED
        BY <2>2, <2>8, <3>1, <4>1 DEF Writing, Updating
    <3>6. g = file'[w.name] /\ \A m \in Names \ {w.name} : file'[m] = file[m]
      BY <2>2, <2>7
    <3> QED
      BY <1>1, <1>2, <1>4, <2>2, <2>3, <2>7, <2>8, <3>4, <3>5, <3>6, HeldOn
  <2>9. ASSUME Old # R!Absent, Deleting(v, f, Old) PROVE Held'
    <3>1. {"folder", "id", "version"} \subseteq Entries
      BY DEF Entries, Parts
    <3>2. /\ g["folder"] = f["folder"] /\ g["id"] \in {f["id"], NoFile}
          /\ g["version"] \in {f["version"], NoFile}
      BY <2>1, <2>6, <2>7, <3>1
    <3>3. IdOf(g) \in {IdOf(f), NoId} /\ VersionOf(g) \in {VersionOf(f), 0}
      BY <3>2, HoldsFacts DEF IdOf, VersionOf, Values
    <3>4. Deleting(w, g, Old)
      BY <2>2, <2>9, <3>2, <3>3 DEF Deleting
    <3>5. g = file'[w.name] /\ \A m \in Names \ {w.name} : file'[m] = file[m]
      BY <2>2, <2>7
    <3> QED
      BY <1>1, <1>2, <1>4, <2>2, <2>3, <2>7, <2>9, <3>4, <3>5, HeldOn
  <2>10. Hand(t)'
    <3>1. task'[t] = w /\ lock' = t
      BY <1>2, <1>4, <2>1, <2>3
    <3>2. v.step \in LockedSteps
      BY <1>2 DEF Inv, Hand
    <3> QED
      BY <2>1, <2>2, <3>1, <3>2 DEF Hand, LockedSteps
  <2> QED
    BY <1>1, <1>2, <1>4, <2>3, <2>4, <2>5, <2>7, <2>8, <2>9, <2>10, Continues
<1> QED
  BY <1>1, <1>3, <1>4 DEF Unlink

\* A folder is deleted with all that was in it, or left if something has come into it.
LEMMA DeletedStep ==
    ASSUME Inv, NEW t \in Tasks, Deleted(t)
    PROVE  Inv' /\ [R!Next]_RVars
<1> DEFINE v == task[t]
           n == v.name
<1>1. v.step = "delete" /\ Answer(t) /\ UNCHANGED <<default, before, budget>>
  BY DEF Deleted
<1>2. lock = t /\ lock # NoTask
  BY <1>1, SeedbankAssumption DEF Inv, Hand, LockedSteps
<1>3. /\ v \in Task /\ n \in Names /\ Held
      /\ before.record \in [Names -> R!Record] /\ Old = before.record[n]
  BY <1>2, Holder DEF Old
<1>4. Old # R!Absent /\ Deleting(v, file[n], Old)
  BY <1>1, <1>2, <1>3 DEF Held, Creating, Updating, Claiming, Folder
<1>5. CASE UNCHANGED <<file, history>>
  BY <1>1, <1>5, Fails DEF history
<1>6. CASE /\ \A e \in Entries \ {"folder"} : file[n][e] = NoFile
           /\ file' = [file EXCEPT ![n]["folder"] = NoFile]
           /\ earned' = [earned EXCEPT ![n] = 0]
           /\ overtaken' = IF \E u \in Tasks \ {t} : task[u].name = n
                           THEN overtaken \cup {n} ELSE overtaken
  <2>1. "folder" \in Entries /\ NoFile # Torn /\ NoFile \notin Ids
    BY HoldsFacts DEF Entries, Parts, Values
  <2>2. file'[n] = [file[n] EXCEPT !["folder"] = NoFile] /\ \A m \in Names \ {n} : file'[m] = file[m]
    BY <1>3, <1>6, <2>1 DEF Inv, Shapes
  <2>11. FilesFine
    BY <1>3, <1>6, <2>1, FileChange
  <2>3. TallyFine
    BY <1>3, <1>6 DEF TallyFine, Inv, TypeOK
  <2>4. file[n] \in [Entries -> Values \cup {NoFile, Torn}]
    BY <1>3 DEF Inv, Shapes
  <2>5. file'[n]["folder"] = NoFile /\ \A e \in Entries : file'[n][e] = NoFile
    BY <1>6, <2>1, <2>2, <2>4
  <2>6. RecordOf(file'[n]) = R!Absent
    BY <2>5, RecordTyped
  <2>7. Result(Old, RecordOf(file'[n]))
    BY <1>4, <2>6 DEF Result
  <2>8. \A m \in Names \ {n} : RecordOf(file'[m]) = before.record[m]
    BY <1>2, <1>3, <2>2 DEF Held, Records
  <2>9. Default' = before.default /\ lock' = NoTask
    BY <1>1, <1>2, <1>3 DEF Held, Default, Answer
  <2>10. [R!Next]_RVars
    BY <1>2, <1>3, <2>7, <2>8, <2>9, Seen
  <2> QED
    BY <1>1, <1>2, <2>3, <2>10, <2>11, Answers, Unchanged
<1> QED
  BY <1>5, <1>6 DEF Deleted

LEMMA WrittenStep ==
    ASSUME Inv, NEW t \in Tasks, Written(t)
    PROVE  Inv' /\ [R!Next]_RVars
  BY Fails DEF Written

LEMMA WriteDefaultStep ==
    ASSUME Inv, NEW t \in Tasks, WriteDefault(t)
    PROVE  Inv' /\ [R!Next]_RVars
<1>1. /\ task[t].step \in {"claim", "release"} /\ Answer(t) /\ UNCHANGED <<file, before, history>>
      /\ budget' = budget \/ Fault
      /\ \/ UNCHANGED default
         \/ task[t].step = "claim" /\ default' \in {task[t].name, Torn}
         \/ task[t].step = "release" /\ default' = NoFile
  BY DEF WriteDefault
<1>2. lock = t
  BY <1>1 DEF Inv, Hand, LockedSteps
<1>3. lock' = NoTask
  BY <1>1, <1>2 DEF Answer
<1>4. [R!Next]_RVars
  BY <1>1, <1>2, <1>3, SeenClaim
<1>5. task[t].name \in Names
  BY <1>2, Holder
<1>6. default' \in Names \cup {NoFile, Torn} /\ FilesFine /\ TallyFine
  BY <1>1, <1>5, Unchanged
<1> QED
  BY <1>1, <1>2, <1>4, <1>6, Answers

LEMMA ResetStep ==
    ASSUME Inv, NEW t \in Tasks, Reset(t)
    PROVE  Inv' /\ [R!Next]_RVars
<1> DEFINE n == task[t].name
<1>1. task[t].step = "reset" /\ Answer(t) /\ UNCHANGED <<default, before>>
  BY DEF Reset
<1>2. lock # t /\ n \in Names
  BY <1>1 DEF Inv, Hand, LockedSteps
<1>3. CASE Fault /\ UNCHANGED <<file, history>>
  BY <1>1, <1>3, Fails DEF history
<1>4. CASE /\ file' = [file EXCEPT ![n]["log"] = NoFile]
           /\ earned' = [earned EXCEPT ![n] = 0]
           /\ overtaken' = IF \E u \in Tasks \ {t} : task[u].name = n
                           THEN overtaken \cup {n} ELSE overtaken
           /\ UNCHANGED budget
  <2>1. "log" \in Entries /\ NoFile # Torn
    BY HoldsFacts DEF Entries, Parts
  <2>2. FilesFine /\ \A m \in Names, e \in Entries \ {"log", "run"} : file'[m][e] = file[m][e]
    <3>1. FilesFine
      BY <1>2, <1>4, <2>1, FileChange
    <3>2. \A m \in Names, e \in Entries : file'[m][e] = IF m = n /\ e = "log" THEN NoFile ELSE file[m][e]
      BY <1>2, <1>4, <2>1 DEF Inv, Shapes
    <3> QED
      BY <3>1, <3>2
  <2>3. TallyFine
    BY <1>2, <1>4 DEF TallyFine, Inv, TypeOK
  <2> QED
    BY <1>1, <1>2, <1>4, <2>2, <2>3, Answers, Unchanged
<1> QED
  BY <1>3, <1>4 DEF Reset

LEMMA ReadLogStep ==
    ASSUME Inv, NEW t \in Tasks, ReadLog(t)
    PROVE  Inv' /\ [R!Next]_RVars
<1> DEFINE n == task[t].name
           log == file[n]["log"]
<1>1. task[t].step = "read" /\ UNCHANGED <<file, default, before, history, budget>>
  BY DEF ReadLog
<1>2. lock # t /\ n \in Names
  BY <1>1 DEF Inv, Hand, LockedSteps
<1>3. CASE Answer(t)
  BY <1>1, <1>3, Fails
<1>4. CASE /\ ~(log = Torn \/ Count(log) > MaxFailCount) /\ UNCHANGED lock
           /\ Goes(t, "write", n, <<"log">>, {}, [e \in {"log"} |-> Count(log)])
  <2> DEFINE w == [step |-> "write", name |-> n, todo |-> <<"log">>, left |-> {},
                   new |-> [e \in {"log"} |-> Count(log)]]
  <2>1. Count(log) \in Holds("log")
    <3>1. log \in 1..MaxFailCount \cup {NoFile, Torn} /\ MaxFailCount \in Nat
      BY <1>2, SeedbankAssumption DEF Inv, TypeOK, Holds, Entries, Parts
    <3>2. Count(log) \in Nat \ {0}
      BY <1>4, <3>1 DEF Count
    <3> QED
      BY <1>4, <3>1, <3>2 DEF Holds
  <2>2. Well(w) /\ w \in Task
    BY <1>2, <2>1, EntryTask
  <2>3. task' = [task EXCEPT ![t] = w]
    BY <1>4 DEF Goes
  <2>4. Hand(t)'
    <3>1. task'[t] = w /\ lock' # t
      BY <1>2, <1>4, <2>3 DEF Inv, Shapes
    <3> QED
      BY <1>2, <3>1 DEF Hand, LockedSteps
  <2>5. FilesFine /\ TallyFine
    BY <1>1, Unchanged
  <2> HIDE DEF w
  <2> QED
    BY <1>1, <1>2, <1>4, <2>2, <2>3, <2>4, <2>5, Outside
<1> QED
  BY <1>3, <1>4 DEF ReadLog

\* What is left of a definition once its next entry is written.
LEMMA TailFacts ==
    ASSUME NEW v \in Task, v.todo # <<>>, Once(v.todo), NEW w, w = [v EXCEPT !.todo = Tail(@)]
    PROVE  /\ w \in Task /\ w.step = v.step /\ w.name = v.name /\ w.new = v.new /\ w.left = v.left
           /\ w.todo \in Seq(Entries) /\ Once(w.todo)
           /\ Head(v.todo) \in ToDo(v) /\ ToDo(w) = ToDo(v) \ {Head(v.todo)}
           /\ w.todo # <<>> => w.todo[Len(w.todo)] = v.todo[Len(v.todo)]
<1> DEFINE d == v.todo
           c == Tail(d)
<1>1. d \in Seq(Entries) /\ d # <<>>
  BY DEF Task
<1>2. /\ c \in Seq(Entries) /\ Len(c) = Len(d) - 1 /\ Len(d) \in Nat \ {0}
      /\ \A i \in 1..Len(c) : c[i] = d[i + 1]
      /\ Head(d) = d[1] /\ Head(d) \in Entries
  BY <1>1
<1>3. /\ w \in Task /\ w.step = v.step /\ w.name = v.name /\ w.new = v.new /\ w.left = v.left
      /\ w.todo = c
  BY <1>2 DEF Task
<1>9. Once(d) /\ d = v.todo
  OBVIOUS
<1> HIDE DEF d, c
<1>4. /\ \A i \in 1..Len(c) : i + 1 \in 1..Len(d) /\ i + 1 # 1
      /\ 1 \in 1..Len(d)
      /\ \A i \in 1..Len(d) : i # 1 => i - 1 \in 1..Len(c) /\ d[i] = c[i - 1]
  BY <1>2
<1>5. Once(c)
  <2> SUFFICES ASSUME NEW i \in 1..Len(c), NEW j \in 1..Len(c), c[i] = c[j] PROVE i = j
    BY DEF Once
  <2>1. i + 1 = j + 1
    <3>1. d[i + 1] = d[j + 1] /\ i + 1 \in 1..Len(d) /\ j + 1 \in 1..Len(d)
      BY <1>2, <1>4
    <3> QED
      BY <1>9, <3>1 DEF Once
  <2> QED
    BY <1>2, <2>1
<1>6. ToDo(v) = {d[i] : i \in 1..Len(d)} /\ ToDo(w) = {c[i] : i \in 1..Len(c)}
  BY <1>3, <1>9 DEF ToDo
<1>7. ToDo(w) = ToDo(v) \ {Head(d)}
  <2>1. \A i \in 1..Len(c) : c[i] # d[1]
    BY <1>2, <1>4, <1>9 DEF Once
  <2>2. ASSUME NEW e \in ToDo(w)
        PROVE  e \in ToDo(v) /\ e # d[1]
    <3>1. PICK i \in 1..Len(c) : e = c[i]
      BY <1>6, <2>2
    <3>2. i + 1 \in 1..Len(d) /\ e = d[i + 1]
      BY <1>2, <1>4, <3>1
    <3> QED
      BY <1>6, <2>1, <3>1, <3>2
  <2>3. ASSUME NEW e \in ToDo(v), e # d[1]
        PROVE  e \in ToDo(w)
    <3>1. PICK i \in 1..Len(d) : e = d[i]
      BY <1>6
    <3>2. i - 1 \in 1..Len(c) /\ e = c[i - 1]
      BY <1>4, <2>3, <3>1
    <3> QED
      BY <1>6, <3>2
  <2> QED
    BY <1>2, <2>2, <2>3
<1>8. c # <<>> => c[Len(c)] = d[Len(d)]
  <2> SUFFICES ASSUME c # <<>> PROVE c[Len(c)] = d[Len(d)]
    OBVIOUS
  <2>1. Len(c) \in 1..Len(c) /\ Len(c) + 1 = Len(d)
    BY <1>2
  <2> QED
    BY <1>2, <2>1
<1> QED
  BY <1>2, <1>3, <1>4, <1>5, <1>6, <1>7, <1>8 DEF d

\* Nothing is torn but the file that is written, or cut.
LEMMA TornWrite ==
    ASSUME Inv, NEW t \in Tasks, task[t].step = "write", NEW e \in ToDo(task[t]),
           e \notin {"folder", "mount"}, Exists(task[t].name),
           file' = [file EXCEPT ![task[t].name][e] = Torn], Fault, Answer(t),
           UNCHANGED <<default, before, history>>
    PROVE  Inv' /\ [R!Next]_RVars
<1> DEFINE v == task[t]
           n == v.name
<1>1. v \in Task /\ n \in Names /\ e \in Entries
  <2>1. v \in Task /\ n \in Names
    BY DEF Inv, Shapes, Hand
  <2> QED
    BY <2>1 DEF Task, ToDo
<1>6. Torn \notin Ids /\ NoFile # Torn
  BY HoldsFacts DEF Values
<1>7. FilesFine
  BY <1>1, <1>6, FileChange
<1>2. /\ file'[n] = [file[n] EXCEPT ![e] = Torn] /\ \A m \in Names \ {n} : file'[m] = file[m]
      /\ \A m \in Names, d \in Entries : file'[m][d] = IF m = n /\ d = e THEN Torn ELSE file[m][d]
  BY <1>1 DEF Inv, Shapes
<1>3. TallyFine /\ default' \in Names \cup {NoFile, Torn}
  BY Unchanged
<1>4. ASSUME lock # t
      PROVE  \A m \in Names, d \in Entries \ {"log", "run"} : file'[m][d] = file[m][d]
  <2>1. e \in {"log", "run"}
    BY <1>4 DEF Inv, Hand, ToDo
  <2> QED
    BY <1>2, <2>1
<1>5. ASSUME lock = t
      PROVE  [R!Next]_RVars
  <2>1. Folder = file[n] /\ file \in [Names -> [Entries -> Values \cup {NoFile, Torn}]]
    BY <1>5, Holder DEF Inv, Shapes
  <2> DEFINE g == [file[n] EXCEPT ![e] = Torn]
  <2>2. g \in Broken(v, Folder)
    BY <2>1 DEF Broken, Exists
  <2>3. file' = [file EXCEPT ![n] = g]
    BY <1>1, <2>1
  <2>4. lock' = NoTask
    BY <1>5 DEF Answer
  <2> HIDE DEF g
  <2> QED
    BY <1>5, <2>2, <2>3, <2>4, CutOff
<1> QED
  BY <1>3, <1>4, <1>5, <1>7, Answers

\* The next entry of a definition is written by the call that holds the lock.
LEMMA HeldWrite ==
    ASSUME Inv, NEW t \in Tasks, lock = t, NEW v, v = task[t], v.step = "write", v.left = {}, v.todo # <<>>,
           NEW e, e = Head(v.todo), e = "folder" \/ Exists(v.name),
           file' = [file EXCEPT ![v.name][e] = v.new[e]],
           NEW w, w = [v EXCEPT !.todo = Tail(@)], task' = [task EXCEPT ![t] = w],
           UNCHANGED <<lock, before, default>>
    PROVE  FilesFine /\ Held'
<1> DEFINE n == v.name
           f == file[n]
           g == file'[n]
           x == v.new[e]
           version == v.new["version"]
<1>1. /\ v \in Task /\ n \in Names /\ Held /\ f = Folder
      /\ f \in [Entries -> Values \cup {NoFile, Torn}]
      /\ file \in [Names -> [Entries -> Values \cup {NoFile, Torn}]]
  BY Holder DEF Inv, Shapes
<1>2. \/ Old = R!Absent /\ Creating(v, f) /\ Writing(v, f, Old)
      \/ Old # R!Absent /\ Updating(v, f, Old) /\ Writing(v, f, Old)
  BY <1>1 DEF Held, Deleting, Claiming
<1>3. Once(v.todo) /\ (v.todo # <<>> => v.todo[Len(v.todo)] = "version")
  BY <1>2 DEF Writing
<1>4. /\ w.step = "write" /\ w.name = n /\ w.new = v.new /\ w.left = v.left
      /\ Once(w.todo) /\ e \in ToDo(v) /\ ToDo(w) = ToDo(v) \ {e}
      /\ w.todo # <<>> => w.todo[Len(w.todo)] = "version"
      /\ w.todo \in Seq(Entries)
  <2>1. w.step = v.step /\ w.name = v.name /\ w.new = v.new /\ w.left = v.left
    BY <1>1, <1>3, TailFacts
  <2>2. Once(w.todo) /\ w.todo \in Seq(Entries)
    BY <1>1, <1>3, TailFacts
  <2>3. e \in ToDo(v) /\ ToDo(w) = ToDo(v) \ {e}
    BY <1>1, <1>3, TailFacts
  <2>4. w.todo # <<>> => w.todo[Len(w.todo)] = v.todo[Len(v.todo)]
    BY <1>1, <1>3, TailFacts
  <2> QED
    BY <1>3, <2>1, <2>2, <2>3, <2>4
<1>5. w.todo # <<>> => e # "version"
  <2>1. ASSUME w.todo # <<>> PROVE Len(w.todo) \in 1..Len(w.todo)
    BY <1>4, <2>1
  <2>2. w.todo # <<>> => "version" \in ToDo(w)
    BY <1>4, <2>1 DEF ToDo
  <2> QED
    BY <1>4, <2>2
<1>6. e \in Entries /\ x \in Holds(e) /\ x \in Values /\ x # Torn /\ x # NoFile
  <2>1. PICK i \in 1..Len(v.todo) : v.todo[i] = e
    BY <1>4 DEF ToDo
  <2>2. e \in Entries /\ x \in Holds(e)
    BY <1>1, <2>1, TasksWell DEF Well, Task
  <2> QED
    BY <2>2, HoldsFacts
<1>7. /\ g = [f EXCEPT ![e] = x] /\ \A m \in Names \ {n} : file'[m] = file[m]
      /\ g[e] = x /\ \A d \in Entries \ {e} : g[d] = f[d]
  BY <1>1, <1>6
<1>8. /\ {"folder", "id", "version"} \subseteq Entries /\ MountEntries \subseteq Entries
      /\ version \in Versions /\ Required(version) \subseteq Entries
      /\ {"folder", "id"} \cap Required(version) = {}
      /\ {"folder", "id"} \cap MountEntries = {}
  BY <1>2, EntryFacts DEF Parts, Writing
<1>9. FilesFine
  <2>1. e = "id" /\ x \in Ids => \A m \in Names \ {n} : file[m]["id"] # x
    BY <1>2, <1>4, <1>8 DEF Creating, Updating
  <2> QED
    BY ZenonT(30), <1>1, <1>6, <2>1, FileChange
<1>10. Writing(w, g, Old)
  <2>1. e \in Required(version) \/ e \in {"folder", "id"}
    BY <1>2, <1>4 DEF Creating, Updating
  <2>2. \A d \in Required(version) : d \notin ToDo(w) => g[d] = w.new[d]
    BY ZenonT(30), <1>2, <1>4, <1>7, <1>8 DEF Writing
  <2>3. Old.state \in {"absent", "whole"} => \A d \in MountEntries \ Required(version) : g[d] = NoFile
    <3> SUFFICES ASSUME Old.state \in {"absent", "whole"}, NEW d \in MountEntries \ Required(version)
                 PROVE  g[d] = NoFile
      OBVIOUS
    <3>1. f[d] = NoFile
      BY <1>2 DEF Writing
    <3>2. d # e
      BY <1>8, <2>1
    <3> QED
      BY <1>7, <1>8, <3>1, <3>2
  <2> QED
    BY <1>2, <1>4, <2>2, <2>3 DEF Writing
<1>11. CASE Old = R!Absent /\ Creating(v, f)
  <2>1. Creating(w, g)
    <3>1. "folder" \in ToDo(w) => g["folder"] = NoFile
      BY <1>4, <1>7, <1>8, <1>11 DEF Creating
    <3>2. "folder" \notin ToDo(w) => g["folder"] = There
      BY <1>4, <1>7, <1>8, <1>11 DEF Creating
    <3>3. g["id"] = IF "id" \in ToDo(w) THEN NoFile ELSE w.new["id"]
      BY ZenonT(30), <1>4, <1>7, <1>8, <1>11 DEF Creating
    <3>4. w.todo # <<>> => g["version"] = NoFile
      BY <1>5, <1>7, <1>8, <1>11 DEF Creating
    <3> QED
      BY <1>4, <1>11, <3>1, <3>2, <3>3, <3>4 DEF Creating
  <2> QED
    BY <1>4, <1>7, <1>10, <1>9, <1>11, <2>1, HeldOn
<1>12. CASE Old # R!Absent /\ Updating(v, f, Old)
  <2>1. e \notin {"folder", "id"}
    BY <1>4, <1>8, <1>12 DEF Updating
  <2>2. g["folder"] = f["folder"] /\ g["id"] = f["id"]
    BY <1>7, <1>8, <2>1
  <2>3. w.todo # <<>> => g["version"] = f["version"]
    BY <1>5, <1>7, <1>8
  <2>4. Updating(w, g, Old)
    BY <1>4, <1>12, <2>2, <2>3 DEF Updating, IdOf
  <2> QED
    BY <1>4, <1>7, <1>10, <1>9, <1>12, <2>4, HeldOn
<1> QED
  BY <1>2, <1>11, <1>12

LEMMA WriteStep ==
    ASSUME Inv, NEW t \in Tasks, Write(t)
    PROVE  Inv' /\ [R!Next]_RVars
<1> DEFINE v == task[t]
           n == v.name
           e == Head(v.todo)
           w == [v EXCEPT !.todo = Tail(@)]
<1>1. v.step = "write" /\ v.left = {} /\ v.todo # <<>> /\ UNCHANGED <<default, before, history>>
  BY DEF Write
<1>2. v \in Task /\ n \in Names /\ v.todo \in Seq(Entries) /\ task \in [Tasks -> Task]
  BY <1>1 DEF Inv, Shapes, Hand, Task
<1>3. e \in ToDo(v) /\ e \in Entries /\ 1 \in 1..Len(v.todo) /\ e = v.todo[1]
  BY <1>1, <1>2 DEF ToDo
<1>4. CASE Answer(t) /\ UNCHANGED file /\ (budget' = budget \/ Fault)
  BY <1>1, <1>4, Fails
<1>5. CASE /\ Fault /\ Answer(t) /\ e \notin {"folder", "mount"} /\ Exists(n)
           /\ file' = [file EXCEPT ![n][e] = Torn]
  BY <1>1, <1>3, <1>5, TornWrite
<1>6. CASE /\ e = "folder" \/ Exists(n)
           /\ file' = [file EXCEPT ![n][e] = v.new[e]]
           /\ task' = [task EXCEPT ![t].todo = Tail(@)]
           /\ UNCHANGED <<lock, budget>>
  <2>1. task' = [task EXCEPT ![t] = w]
    BY <1>2, <1>6
  <2>2. Tail(v.todo) \in Seq(Entries) /\ Len(Tail(v.todo)) = Len(v.todo) - 1 /\ Len(v.todo) \in Nat
        /\ \A i \in 1..Len(Tail(v.todo)) : i + 1 \in 1..Len(v.todo) /\ Tail(v.todo)[i] = v.todo[i + 1]
    BY <1>1, <1>2
  <2>3. /\ w \in Task /\ w.step = "write" /\ w.name = n /\ w.new = v.new /\ w.left = v.left
        /\ w.todo = Tail(v.todo)
    BY <1>1, <1>2, <2>2 DEF Task
  <2> HIDE DEF w
  <2>4. Well(w)
    BY <2>2, <2>3, TasksWell DEF Well
  <2>5. task'[t] = w
    BY <1>2, <2>1
  <2>6. Hand(t)'
    <3>1. lock # t => \A i \in 1..Len(w.todo) : w.todo[i] \in {"run", "log"}
      BY <1>1, <2>2, <2>3 DEF Inv, Hand
    <3> QED
      BY <1>1, <1>2, <1>6, <2>3, <2>5, <3>1 DEF Hand, LockedSteps
  <2>7. CASE lock = t
    <3>1. FilesFine /\ Held'
      BY <1>1, <1>6, <2>1, <2>7, HeldWrite DEF w
    <3> QED
      BY <1>1, <1>6, <2>1, <2>4, <2>6, <2>7, <3>1, Continues
  <2>8. CASE lock # t
    <3>1. e \in {"run", "log"}
      BY <1>1, <1>3, <2>8 DEF Inv, Hand
    <3>2. v.new[e] \in Holds(e) /\ v.new[e] \in Values /\ v.new[e] \notin {NoFile, Torn}
      BY <1>3, TasksWell, HoldsFacts DEF Well
    <3>3. FilesFine
      <4> DEFINE x == v.new[e]
      <4>1. e \notin {"folder", "mount", "id"} /\ x \in Holds(e) /\ x # Torn /\ Exists(n)
        BY <1>6, <3>1, <3>2
      <4>2. file' = [file EXCEPT ![n][e] = x]
        BY <1>6
      <4> HIDE DEF x, e, n
      <4> QED
        BY <1>2, <1>3, <4>1, <4>2, FileChange
    <3>4. \A m \in Names, d \in Entries \ {"log", "run"} : file'[m][d] = file[m][d]
      BY <1>2, <1>3, <1>6, <3>1 DEF Inv, Shapes
    <3>5. TallyFine
      BY <1>1, Unchanged
    <3> QED
      BY <1>1, <1>6, <2>1, <2>4, <2>6, <2>8, <3>3, <3>4, <3>5, Outside
  <2> QED
    BY <2>7, <2>8
<1> QED
  BY <1>4, <1>5, <1>6 DEF Write

\* seedbank ends in the middle of any of its calls.
LEMMA CrashStep ==
    ASSUME Inv, Crash
    PROVE  Inv' /\ [R!Next]_RVars
<1>1. /\ UNCHANGED <<file, default, before, history>> /\ lock' = NoTask
      /\ task' = [t \in Tasks |-> Idle]
  BY DEF Crash
<1>2. FilesFine /\ TallyFine
  BY <1>1, Unchanged
<1>3. \A t \in Tasks : task'[t] = Idle /\ Well(task'[t]) /\ task'[t] \in Task
  BY <1>1, IdleFacts
<1>4. budget' \in [calls : 0..MaxCalls, faults : 0..MaxFaults, crashes : 0..MaxCrashes]
  <2> DEFINE left == budget.crashes - 1
  <2>1. /\ budget \in [calls : 0..MaxCalls, faults : 0..MaxFaults, crashes : 0..MaxCrashes]
        /\ MaxCrashes \in Nat
    BY SeedbankAssumption DEF Inv, TypeOK
  <2>2. left \in 0..MaxCrashes /\ budget' = [budget EXCEPT !.crashes = left]
    BY <2>1 DEF Crash
  <2> HIDE DEF left
  <2> QED
    BY <2>1, <2>2
<1>5. \A t \in Tasks :
         /\ task'[t].step \in Steps /\ task'[t].name \in Names \cup {NoName}
         /\ task'[t].todo \in Seq(Entries) /\ task'[t].left \subseteq Entries
         /\ \A i \in 1..Len(task'[t].todo) : task'[t].new[task'[t].todo[i]] \in Holds(task'[t].todo[i])
  BY <1>3 DEF Well, Task
<1>6. TypeOK'
  BY <1>1, <1>2, <1>4, <1>5 DEF TypeOK, FilesFine, TallyFine, Inv
<1>7. Shapes'
  BY <1>1, <1>2, IdleFacts DEF Shapes, FilesFine
<1>8. \A t \in Tasks : Hand(t)'
  <2>1. \A t \in Tasks : t # lock'
    BY <1>1, SeedbankAssumption
  <2> QED
    BY <1>3, <2>1, IdleFacts DEF Hand, LockedSteps
<1>9. Inv'
  BY <1>1, <1>2, <1>6, <1>7, <1>8 DEF Inv, FilesFine
<1>10. ASSUME lock = NoTask PROVE [R!Next]_RVars
  <2>1. UNCHANGED <<Records, Default>>
    BY <1>1 DEF Records, Default
  <2>2. UNCHANGED RVars
    BY <1>1, <1>10, <2>1, Unseen
  <2> QED
    BY <2>2
<1>11. ASSUME lock # NoTask PROVE [R!Next]_RVars
  <2>1. lock \in Tasks
    BY <1>11 DEF Inv, TypeOK
  <2> QED
    BY <1>1, <2>1, CutOff
<1> QED
  BY <1>9, <1>10, <1>11

LEMMA InitInv == Init => Inv /\ R!Init
<1> SUFFICES ASSUME Init PROVE Inv /\ R!Init
  OBVIOUS
<1>1. \A n \in Names, e \in Entries : file[n][e] = NoFile
  BY DEF Init
<1>2. \A n \in Names : file[n]["folder"] = NoFile /\ RecordOf(file[n]) = R!Absent
  <2>1. "folder" \in Entries
    BY DEF Entries, Parts
  <2> QED
    BY <1>1, <2>1, RecordTyped
<1>3. Records = [n \in Names |-> R!Absent] /\ Default = NoName
  BY <1>2 DEF Records, Default, Init
<1>4. \A t \in Tasks : task[t] = Idle /\ Well(task[t]) /\ task[t] \in Task /\ t # lock
  BY IdleFacts, SeedbankAssumption DEF Init
<1>5. TypeOK
  <2>1. before = [record |-> Records, default |-> NoName] /\ Records \in [Names -> R!Record]
    BY <1>3 DEF Init, R!Record
  <2>2. budget \in [calls : 0..MaxCalls, faults : 0..MaxFaults, crashes : 0..MaxCrashes]
    BY SeedbankAssumption DEF Init
  <2>3. \A t \in Tasks :
         /\ task[t].step \in Steps /\ task[t].name \in Names \cup {NoName}
         /\ task[t].todo \in Seq(Entries) /\ task[t].left \subseteq Entries
         /\ \A i \in 1..Len(task[t].todo) : task[t].new[task[t].todo[i]] \in Holds(task[t].todo[i])
    BY <1>4 DEF Well, Task
  <2> QED
    BY <1>1, <2>1, <2>2, <2>3 DEF TypeOK, Init
<1>6. Shapes
  BY IdleFacts DEF Shapes, Init
<1>7. Folders /\ IdsUnique
  <2>1. {"folder", "mount", "id"} \subseteq Entries /\ NoFile # Torn /\ NoFile \notin Ids
    BY HoldsFacts DEF Entries, Parts, Values
  <2> QED
    BY <1>1, <2>1 DEF Folders, IdsUnique
<1>8. \A t \in Tasks : Hand(t)
  BY <1>4, IdleFacts DEF Hand, LockedSteps
<1>9. R!Init
  BY <1>3 DEF R!Init, SeenRecord, SeenDefault, Init
<1> QED
  BY <1>5, <1>6, <1>7, <1>8, <1>9 DEF Inv, Init

LEMMA NextInv == Inv /\ [Next]_vars => Inv' /\ [R!Next]_RVars
<1> SUFFICES ASSUME Inv, [Next]_vars PROVE Inv' /\ [R!Next]_RVars
  OBVIOUS
<1>1. ASSUME NEW t \in Tasks, Begin(t) PROVE Inv' /\ [R!Next]_RVars
  BY <1>1, CreateStep, UpdateStep, DeleteStep, DefaultSteps, CallsOutside DEF Begin
<1>2. ASSUME NEW t \in Tasks, Step(t) PROVE Inv' /\ [R!Next]_RVars
  BY <1>2, UnlinkStep, DeletedStep, WriteStep, WrittenStep, WriteDefaultStep,
     ResetStep, ReadLogStep DEF Step
<1>3. CASE Crash
  BY <1>3, CrashStep
<1>4. CASE UNCHANGED vars
  <2>1. UNCHANGED <<file, default, lock, task, before, earned, overtaken, budget>>
    BY <1>4 DEF vars
  <2>2. UNCHANGED <<Records, Default, RVars>>
    BY <2>1 DEF Records, Default, RVars, SeenRecord, SeenDefault
  <2>3. TypeOK' /\ Shapes' /\ Folders' /\ IdsUnique' /\ \A t \in Tasks : Hand(t)'
    BY <2>1 DEF Inv, TypeOK, Shapes, Folders, IdsUnique, Hand
  <2>4. lock # NoTask => Held'
    BY <2>1, HeldKept DEF Inv, TypeOK
  <2> QED
    BY <2>1, <2>2, <2>3, <2>4 DEF Inv
<1> QED
  BY <1>1, <1>2, <1>3, <1>4 DEF Next

LEMMA InvAlways == Spec => []Inv
<1>1. Init => Inv
  BY InitInv
<1>2. Inv /\ [Next]_vars => Inv'
  BY NextInv
<1> QED
  BY <1>1, <1>2, PTL DEF Spec

\* The files, the lock and the calls that are served hold what they are meant to hold.
THEOREM TypeCorrect == Spec => []TypeOK
<1>1. Inv => TypeOK
  BY DEF Inv
<1> QED
  BY <1>1, InvAlways, PTL

\* No two seedlings have the same id on disk, whatever failed and whenever seedbank ended.
THEOREM IdsCorrect == Spec => []IdsUnique
<1>1. Inv => IdsUnique
  BY DEF Inv
<1> QED
  BY <1>1, InvAlways, PTL

\* Every call under the lock is done at once or not at all, but for a damage to its record:
\* the calls on the files implement Records.
THEOREM Implements == Spec => CallsAreAtomic
<1>1. Init => R!Init
  BY InitInv
<1>2. Inv /\ [Next]_vars => [R!Next]_RVars
  BY NextInv
<1>3. Inv /\ [Next]_vars => [R!Next]_(R!vars)
  BY <1>2 DEF RVars, R!vars
<1> QED
  BY <1>1, <1>3, InvAlways, PTL DEF Spec, CallsAreAtomic, R!Spec

-----------------------------------------------------------------------------
(* No log has more failed checks than there were *)

LEMMA ReadersCounted ==
    ASSUME NEW n
    PROVE  /\ IsFiniteSet(Readers(n)) /\ IsFiniteSet(Readers(n)')
           /\ Cardinality(Readers(n)) \in Nat /\ Cardinality(Readers(n)') \in Nat
<1>1. Readers(n) \subseteq Tasks /\ Readers(n)' \subseteq Tasks /\ IsFiniteSet(Tasks)
  BY SeedbankAssumption DEF Readers
<1> QED
  BY <1>1, FS_Subset, FS_CardinalityType

\* A call that writes a log does not hold the lock.
LogsUnlocked ==
    \A t \in Tasks :
        task[t].step = "write" /\ "log" \in ToDo(task[t]) =>
            lock # t /\ task[t].new["log"] \in Nat

LEMMA LogWriter == Inv => LogsUnlocked
<1> SUFFICES ASSUME Inv, NEW t \in Tasks, task[t].step = "write", "log" \in ToDo(task[t])
             PROVE  lock # t /\ task[t].new["log"] \in Nat
  BY DEF LogsUnlocked
<1>1. Well(task[t])
  BY TasksWell
<1>2. task[t].new["log"] \in Holds("log")
  BY <1>1 DEF Well, ToDo
<1>3. task[t].new["log"] \in Nat
  BY <1>2, SeedbankAssumption DEF Holds
<1>4. ASSUME lock = t PROVE FALSE
  <2>1. Held
    BY <1>4, Holder
  <2>2. /\ task[t].new["version"] \in Versions
        /\ ToDo(task[t]) \subseteq Required(task[t].new["version"]) \cup {"folder", "id"}
    BY <1>4, <2>1 DEF Held, Creating, Updating, Deleting, Claiming, Writing
  <2> QED
    BY <2>2, EntryFacts
<1> QED
  BY <1>3, <1>4

LEMMA LogWriterNext == Inv' => LogsUnlocked'
  BY LogWriter, PTL

\* Nothing is counted for n by a step after which t neither reads the log of n nor is
\* about to write more there, if the log holds what it did or what a call was about to write.
LEMMA Quiet ==
    ASSUME Inv, Strikes, NEW t \in Tasks, NEW n \in Names, n \notin overtaken,
           earned'[n] = earned[n], \A u \in Tasks \ {t} : task'[u] = task[u],
           task'[t].step = "read" => task'[t].name # n,
           \A k \in Nat : About(t, n, k)' => About(t, n, k),
           \A k \in Nat : file'[n]["log"] = k =>
               file[n]["log"] = k \/ \E u \in Tasks : About(u, n, k)
    PROVE  Strike(n)'
<1> DEFINE c == Cardinality(Readers(n))
           d == Cardinality(Readers(n)')
<1>1. c \in Nat /\ d \in Nat /\ earned[n] \in Nat
  BY ReadersCounted DEF Inv, TypeOK
<1>2. Readers(n)' \subseteq Readers(n)
  BY DEF Readers
<1>3. d <= c
  BY <1>2, ReadersCounted, FS_Subset
<1>4. /\ c <= earned[n]
      /\ \A k \in Nat : file[n]["log"] = k => k + c <= earned[n]
      /\ \A u \in Tasks, k \in Nat : About(u, n, k) => k + c <= earned[n]
  BY DEF Strikes, Strike
<1>5. \A u \in Tasks, k \in Nat : About(u, n, k)' => About(u, n, k)
  <2>1. \A u \in Tasks \ {t}, k \in Nat : About(u, n, k)' => About(u, n, k)
    BY DEF About, ToDo
  <2> QED
    BY <2>1
<1> HIDE DEF c
<1>6. \A k \in Nat : k + c <= earned[n] => k + d <= earned[n]
  BY <1>1, <1>3
<1> QED
  BY <1>1, <1>3, <1>4, <1>5, <1>6 DEF Strike

\* A call that is answered, or that holds the lock.
LEMMA QuietTask ==
    ASSUME Inv', NEW t \in Tasks, task'[t] = Idle \/ lock' = t
    PROVE  /\ task'[t].step # "read"
           /\ \A n \in Names, k \in Nat : ~About(t, n, k)'
<1>1. CASE task'[t] = Idle
  BY <1>1, IdleFacts DEF About
<1>2. CASE lock' = t
  <2>1. task'[t].step \in LockedSteps
    BY <1>2 DEF Inv, Hand
  <2> QED
    BY <1>2, <2>1, LogWriterNext DEF LogsUnlocked, About, LockedSteps
<1> QED
  BY <1>1, <1>2

\* The log that is reset has nothing of other calls to hold, unless one was overtaken.
LEMMA ResetStrike ==
    ASSUME Inv, NEW t \in Tasks, NEW n \in Names, n \notin overtaken',
           overtaken' = IF \E u \in Tasks \ {t} : task[u].name = n
                        THEN overtaken \cup {n} ELSE overtaken,
           \A u \in Tasks \ {t} : task'[u] = task[u], task'[t] = Idle,
           earned'[n] = 0, file'[n]["log"] = NoFile
    PROVE  Strike(n)'
<1>1. \A u \in Tasks : task'[u].step \in {"read", "write"} => task'[u].name # n
  BY IdleFacts
<1>2. Readers(n)' = {}
  BY <1>1 DEF Readers
<1>3. Cardinality(Readers(n)') = 0
  BY <1>2, FS_EmptySet
<1>4. \A u \in Tasks, k \in Nat : ~About(u, n, k)'
  BY <1>1 DEF About
<1>5. NoFile \notin Nat
  BY HoldsFacts DEF Values
<1> QED
  BY <1>3, <1>4, <1>5 DEF Strike

LEMMA CallStrikes ==
    ASSUME Inv, Inv', Strikes, NEW t \in Tasks, Begin(t), NEW n \in Names \ overtaken'
    PROVE  Strike(n)'
<1>1. /\ Call(t) /\ task[t] = Idle /\ UNCHANGED <<file, overtaken>> /\ n \notin overtaken
      /\ task \in [Tasks -> Task]
  BY DEF Begin, Create, Update, Delete, ClaimDefault, ReleaseDefault, SetDesiredRunStatus,
         ResetHealthLog, IncrementHealthLog, Call, history, Inv, Shapes
<1>2. \A u \in Tasks \ {t} : task'[u] = task[u]
  BY <1>1 DEF Begin, Create, Update, Delete, ClaimDefault, ReleaseDefault, SetDesiredRunStatus,
              ResetHealthLog, IncrementHealthLog, Goes
<1>3. CASE Create(t) \/ Update(t) \/ Delete(t) \/ ClaimDefault(t) \/ ReleaseDefault(t)
  <2>1. lock' = t /\ UNCHANGED history
    BY <1>3 DEF Create, Update, Delete, ClaimDefault, ReleaseDefault, Locked
  <2> QED
    BY <1>1, <1>2, <2>1, QuietTask, Quiet DEF history
<1>4. CASE SetDesiredRunStatus(t) \/ ResetHealthLog(t)
  <2>1. UNCHANGED history
    BY <1>4 DEF SetDesiredRunStatus, ResetHealthLog
  <2>2. /\ task'[t].step \in {"write", "reset"}
        /\ task'[t].step = "write" => task'[t].todo = <<"run">>
    BY <1>1, <1>4 DEF SetDesiredRunStatus, ResetHealthLog, Goes
  <2>3. task'[t].step = "write" => "log" \notin ToDo(task'[t])
    <3>1. Len(<<"run">>) = 1 /\ <<"run">>[1] = "run"
      OBVIOUS
    <3>2. \A w : w.todo = <<"run">> => \A i \in 1..Len(w.todo) : w.todo[i] = "run"
      BY <3>1
    <3> QED
      BY <2>2, <3>2 DEF ToDo
  <2>4. \A k \in Nat : ~About(t, n, k)'
    BY <2>2, <2>3 DEF About
  <2> QED
    BY <1>1, <1>2, <2>1, <2>2, <2>4, Quiet DEF history
<1>5. CASE IncrementHealthLog(t)
  <2>1. PICK m \in Names : /\ Goes(t, "read", m, <<>>, {}, <<>>)
                           /\ earned' = [earned EXCEPT ![m] = @ + 1]
    BY <1>5 DEF IncrementHealthLog
  <2>2. task'[t].step = "read" /\ task'[t].name = m
    BY <1>1, <2>1 DEF Goes
  <2>3. earned \in [Names -> Nat]
    BY DEF Inv, TypeOK
  <2>4. \A k \in Nat : ~About(t, n, k)'
    BY <2>2 DEF About
  <2>5. CASE m # n
    BY <1>1, <1>2, <2>1, <2>2, <2>3, <2>4, <2>5, Quiet
  <2>6. CASE m = n
    <3> DEFINE c == Cardinality(Readers(n))
               d == Cardinality(Readers(n)')
    <3>1. t \notin Readers(n) /\ Readers(n)' = Readers(n) \cup {t}
      BY <1>1, <1>2, <2>2, <2>6, IdleFacts DEF Readers
    <3>2. c \in Nat /\ d = c + 1
      BY <3>1, ReadersCounted, FS_AddElement
    <3>3. earned[n] \in Nat /\ earned'[n] = earned[n] + 1
      BY <2>1, <2>3, <2>6
    <3>4. \A u \in Tasks, k \in Nat : About(u, n, k)' => About(u, n, k)
      <4>1. \A u \in Tasks \ {t}, k \in Nat : About(u, n, k)' => About(u, n, k)
        BY <1>2 DEF About, ToDo
      <4> QED
        BY <2>4, <4>1
    <3>5. /\ c <= earned[n]
          /\ \A k \in Nat : file[n]["log"] = k => k + c <= earned[n]
          /\ \A u \in Tasks, k \in Nat : About(u, n, k) => k + c <= earned[n]
      BY <1>1 DEF Strikes, Strike
    <3> HIDE DEF c
    <3>6. \A k \in Nat : k + c <= earned[n] => k + d <= earned'[n]
      BY <3>2, <3>3
    <3> QED
      BY <1>1, <3>2, <3>3, <3>4, <3>5, <3>6 DEF Strike
  <2> QED
    BY <2>5, <2>6
<1> QED
  BY <1>3, <1>4, <1>5 DEF Begin

\* A reader becomes a writer of one more than it has read.
LEMMA ReadStrikes ==
    ASSUME Inv, Inv', Strikes, NEW t \in Tasks, ReadLog(t), NEW n \in Names \ overtaken'
    PROVE  Strike(n)'
<1> DEFINE m == task[t].name
           log == file[m]["log"]
<1>1. /\ task[t].step = "read" /\ UNCHANGED <<file, earned, overtaken>> /\ n \notin overtaken
      /\ task \in [Tasks -> Task]
  BY DEF ReadLog, history, Inv, Shapes
<1>2. \A u \in Tasks \ {t} : task'[u] = task[u]
  BY <1>1 DEF ReadLog, Answer, Goes
<1>3. CASE Answer(t)
  <2>1. task'[t] = Idle
    BY <1>1, <1>3 DEF Answer
  <2> QED
    BY <1>1, <1>2, <2>1, QuietTask, Quiet
<1>4. CASE log # Torn /\ Goes(t, "write", m, <<"log">>, {}, [e \in {"log"} |-> Count(log)])
  <2>1. /\ task'[t].step = "write" /\ task'[t].name = m
        /\ task'[t].new["log"] = Count(log)
    BY <1>1, <1>4 DEF Goes
  <2>2. CASE m # n
    <3>1. \A k \in Nat : ~About(t, n, k)'
      BY <2>1, <2>2 DEF About
    <3> QED
      BY <1>1, <1>2, <2>1, <3>1, Quiet
  <2>3. CASE m = n
    <3> DEFINE c == Cardinality(Readers(n))
               d == Cardinality(Readers(n)')
    <3>1. t \in Readers(n) /\ Readers(n)' = Readers(n) \ {t}
      BY <1>1, <1>2, <2>1, <2>3 DEF Readers
    <3>2. c \in Nat /\ d \in Nat /\ d = c - 1
      BY <3>1, ReadersCounted, FS_RemoveElement
    <3>3. earned[n] \in Nat
      BY DEF Inv, TypeOK
    <3>4. /\ c <= earned[n]
          /\ \A k \in Nat : file[n]["log"] = k => k + c <= earned[n]
          /\ \A u \in Tasks, k \in Nat : About(u, n, k) => k + c <= earned[n]
      BY <1>1 DEF Strikes, Strike
    <3>5. log \in Nat \cup {NoFile}
      <4>1. log \in 1..MaxFailCount \cup {NoFile, Torn} /\ MaxFailCount \in Nat
        BY <2>3, SeedbankAssumption DEF Inv, TypeOK, Holds, Entries, Parts
      <4> QED
        BY <1>4, <4>1
    <3>6. Count(log) \in Nat /\ Count(log) + d <= earned[n]
      <4>1. CASE log = NoFile
        <5>1. Count(log) = 1
          BY <4>1 DEF Count
        <5> HIDE DEF c, d
        <5> QED
          BY <3>2, <3>3, <3>4, <5>1
      <4>2. CASE log # NoFile
        <5>1. Count(log) = log + 1 /\ log \in Nat /\ log + c <= earned[n]
          BY <2>3, <3>4, <3>5, <4>2 DEF Count
        <5> HIDE DEF c, d, log
        <5> QED
          BY <3>2, <3>3, <5>1
      <4> QED
        BY <4>1, <4>2
    <3>7. \A u \in Tasks \ {t}, k \in Nat : About(u, n, k)' => About(u, n, k)
      BY <1>2 DEF About, ToDo
    <3>8. \A k \in Nat : About(t, n, k)' => k = Count(log)
      BY <2>1 DEF About
    <3> HIDE DEF c, log
    <3>9. \A k \in Nat : k + c <= earned[n] => k + d <= earned[n]
      BY <3>2, <3>3
    <3> QED
      BY <1>1, <3>2, <3>3, <3>4, <3>6, <3>7, <3>8, <3>9 DEF Strike
  <2> QED
    BY <2>2, <2>3
<1> QED
  BY <1>3, <1>4 DEF ReadLog

\* A write of a log writes what the call was about to.
LEMMA WriteStrikes ==
    ASSUME Inv, Inv', Strikes, NEW t \in Tasks, Write(t), NEW n \in Names \ overtaken'
    PROVE  Strike(n)'
<1> DEFINE v == task[t]
           m == v.name
           e == Head(v.todo)
<1>1. /\ v.step = "write" /\ v.todo # <<>> /\ UNCHANGED history /\ task \in [Tasks -> Task]
      /\ v \in Task /\ m \in Names /\ file \in [Names -> [Entries -> Values \cup {NoFile, Torn}]]
  BY DEF Write, Inv, Shapes, Hand
<1>2. UNCHANGED <<earned, overtaken>> /\ n \notin overtaken
  BY <1>1 DEF history
<1>3. v.todo \in Seq(Entries) /\ e \in ToDo(v) /\ e \in Entries /\ "log" \in Entries
  <2>1. v.todo \in Seq(Entries) /\ "log" \in Entries
    BY <1>1 DEF Task, Entries, Parts
  <2>2. 1 \in 1..Len(v.todo) /\ e = v.todo[1] /\ e \in Entries
    BY <1>1, <2>1
  <2> QED
    BY <2>1, <2>2 DEF ToDo
<1>4. ASSUME Answer(t), UNCHANGED file \/ file' = [file EXCEPT ![m][e] = Torn]
      PROVE  Strike(n)'
  <2>1. task'[t] = Idle /\ \A u \in Tasks \ {t} : task'[u] = task[u]
    BY <1>1, <1>4 DEF Answer
  <2>2. file'[n]["log"] \in {file[n]["log"], Torn}
    BY <1>1, <1>3, <1>4
  <2>3. Torn \notin Nat
    BY HoldsFacts DEF Values
  <2> QED
    BY <1>2, <2>1, <2>2, <2>3, QuietTask, Quiet
<1>5. ASSUME file' = [file EXCEPT ![m][e] = v.new[e]], task' = [task EXCEPT ![t].todo = Tail(@)]
      PROVE  Strike(n)'
  <2>1. /\ \A u \in Tasks \ {t} : task'[u] = task[u]
        /\ task'[t].step = "write" /\ task'[t].name = m /\ task'[t].new = v.new
        /\ task'[t].todo = Tail(v.todo)
    BY <1>1, <1>5 DEF Task
  <2>2. ToDo(task'[t]) \subseteq ToDo(v)
    <3>1. \A i \in 1..Len(Tail(v.todo)) : i + 1 \in 1..Len(v.todo) /\ Tail(v.todo)[i] = v.todo[i + 1]
      BY <1>1, <1>3
    <3> QED
      BY <2>1, <3>1 DEF ToDo
  <2>3. \A k \in Nat : About(t, n, k)' => About(t, n, k)
    BY <1>1, <2>1, <2>2 DEF About
  <2>4. file'[n]["log"] = IF n = m /\ e = "log" THEN v.new[e] ELSE file[n]["log"]
    BY <1>1, <1>3, <1>5
  <2>5. \A k \in Nat : file'[n]["log"] = k => file[n]["log"] = k \/ About(t, n, k)
    BY <1>1, <1>3, <2>4 DEF About
  <2> QED
    BY <1>2, <2>1, <2>3, <2>5, Quiet
<1> QED
  BY <1>4, <1>5 DEF Write

LEMMA StepStrikes ==
    ASSUME Inv, Inv', Strikes, NEW t \in Tasks, Step(t), NEW n \in Names \ overtaken'
    PROVE  Strike(n)'
<1> DEFINE v == task[t]
           m == v.name
<1>1. task \in [Tasks -> Task] /\ v \in Task /\ Hand(t)
      /\ file \in [Names -> [Entries -> Values \cup {NoFile, Torn}]]
  BY DEF Inv, Shapes
<1>2. NoFile \notin Nat /\ "log" \in Entries
  BY HoldsFacts DEF Values, Entries, Parts
<1>3. ASSUME Answer(t)
      PROVE  task'[t] = Idle /\ \A u \in Tasks \ {t} : task'[u] = task[u]
  BY <1>1, <1>3 DEF Answer
\* What neither counts nor writes a log.
<1>4. ASSUME UNCHANGED history, file'[n]["log"] \in {file[n]["log"], NoFile},
             task'[t] = Idle \/ lock' = t, \A u \in Tasks \ {t} : task'[u] = task[u]
      PROVE  Strike(n)'
  <2>1. n \notin overtaken /\ earned'[n] = earned[n]
    BY <1>4 DEF history
  <2> QED
    BY <1>2, <1>4, <2>1, QuietTask, Quiet
\* What resets the log of one.
<1>5. ASSUME Answer(t), m \in Names, file'[m]["log"] = NoFile,
             \A k \in Names \ {m} : file'[k] = file[k], earned' = [earned EXCEPT ![m] = 0],
             overtaken' = IF \E u \in Tasks \ {t} : task[u].name = m
                          THEN overtaken \cup {m} ELSE overtaken
      PROVE  Strike(n)'
  <2>1. CASE n = m
    BY <1>3, <1>5, <2>1, ResetStrike DEF Inv, TypeOK
  <2>2. CASE n # m
    <3>1. n \notin overtaken /\ earned'[n] = earned[n] /\ file'[n] = file[n]
      BY <1>5, <2>2 DEF Inv, TypeOK
    <3> QED
      BY <1>3, <1>5, <3>1, QuietTask, Quiet
  <2> QED
    BY <2>1, <2>2
<1>6. CASE Unlink(t)
  <2>1. lock = t /\ m \in Names /\ UNCHANGED history
    BY <1>1, <1>6 DEF Unlink, Hand, LockedSteps
  <2>2. CASE Answer(t) /\ UNCHANGED file
    BY <1>3, <1>4, <2>1, <2>2
  <2>3. CASE /\ \E e \in v.left : /\ file' = [file EXCEPT ![m][e] = NoFile]
                                  /\ task' = [task EXCEPT ![t].left = @ \ {e}]
             /\ UNCHANGED lock
    <3>1. PICK e \in v.left : /\ file' = [file EXCEPT ![m][e] = NoFile]
                              /\ task' = [task EXCEPT ![t].left = @ \ {e}]
      BY <2>3
    <3>2. e \in Entries
      BY <1>1 DEF Task
    <3>3. file'[n]["log"] \in {file[n]["log"], NoFile}
      BY <1>1, <1>2, <2>1, <3>1, <3>2
    <3>4. \A u \in Tasks \ {t} : task'[u] = task[u]
      BY <1>1, <3>1
    <3> QED
      BY <1>4, <2>1, <2>3, <3>3, <3>4
  <2> QED
    BY <1>6, <2>2, <2>3 DEF Unlink
<1>8. CASE Written(t) \/ WriteDefault(t)
  BY <1>3, <1>4, <1>8 DEF Written, WriteDefault
<1>9. CASE Reset(t)
  <2>1. m \in Names /\ Answer(t)
    BY <1>1, <1>9 DEF Reset, Hand
  <2>2. CASE UNCHANGED <<file, history>>
    BY <1>3, <1>4, <2>1, <2>2
  <2>3. CASE /\ file' = [file EXCEPT ![m]["log"] = NoFile]
             /\ earned' = [earned EXCEPT ![m] = 0]
             /\ overtaken' = IF \E u \in Tasks \ {t} : task[u].name = m
                             THEN overtaken \cup {m} ELSE overtaken
    <3>1. file'[m]["log"] = NoFile /\ \A k \in Names \ {m} : file'[k] = file[k]
      BY <1>1, <1>2, <2>1, <2>3
    <3> QED
      BY <1>5, <2>1, <2>3, <3>1
  <2> QED
    BY <1>9, <2>2, <2>3 DEF Reset
<1>10. CASE Deleted(t)
  <2>1. m \in Names /\ Answer(t)
    BY <1>1, <1>10 DEF Deleted, Hand
  <2>2. CASE UNCHANGED <<file, history>>
    BY <1>3, <1>4, <2>1, <2>2
  <2>3. CASE /\ \A e \in Entries \ {"folder"} : file[m][e] = NoFile
             /\ file' = [file EXCEPT ![m]["folder"] = NoFile]
             /\ earned' = [earned EXCEPT ![m] = 0]
             /\ overtaken' = IF \E u \in Tasks \ {t} : task[u].name = m
                             THEN overtaken \cup {m} ELSE overtaken
    <3>1. file'[m]["log"] = NoFile /\ \A k \in Names \ {m} : file'[k] = file[k]
      BY <1>1, <1>2, <2>1, <2>3
    <3> QED
      BY <1>5, <2>1, <2>3, <3>1
  <2> QED
    BY <1>10, <2>2, <2>3 DEF Deleted
<1> QED
  BY <1>6, <1>8, <1>9, <1>10, WriteStrikes, ReadStrikes DEF Step

LEMMA StrikesKept == Inv /\ Inv' /\ Strikes /\ [Next]_vars => Strikes'
<1> SUFFICES ASSUME Inv, Inv', Strikes, [Next]_vars, NEW n \in Names \ overtaken' PROVE Strike(n)'
  BY DEF Strikes
<1>1. ASSUME NEW t \in Tasks, Begin(t) \/ Step(t) PROVE Strike(n)'
  BY <1>1, CallStrikes, StepStrikes
<1>2. CASE Crash
  <2>1. UNCHANGED <<file, earned, overtaken>> /\ \A t \in Tasks : task'[t] = Idle
    BY <1>2 DEF Crash, history
  <2>2. Readers(n)' = {} /\ \A t \in Tasks, k \in Nat : ~About(t, n, k)'
    BY <2>1, IdleFacts DEF Readers, About
  <2>3. Cardinality(Readers(n)') = 0
    BY <2>2, FS_EmptySet
  <2>4. Strike(n) /\ Cardinality(Readers(n)) \in Nat /\ earned[n] \in Nat
    BY <2>1, ReadersCounted DEF Strikes, Inv, TypeOK
  <2> DEFINE c == Cardinality(Readers(n))
  <2>5. c \in Nat /\ \A k \in Nat : file[n]["log"] = k => k + c <= earned[n]
    BY <2>4 DEF Strike
  <2> HIDE DEF c
  <2>6. \A k \in Nat : file'[n]["log"] = k => k <= earned'[n]
    BY <2>1, <2>4, <2>5
  <2> QED
    BY <2>1, <2>2, <2>3, <2>4, <2>6 DEF Strike
<1>3. CASE UNCHANGED vars
  <2>1. UNCHANGED <<file, task, earned, overtaken>>
    BY <1>3 DEF vars
  <2>2. Readers(n)' = Readers(n) /\ \A t \in Tasks, k \in Nat : About(t, n, k)' => About(t, n, k)
    BY <2>1 DEF Readers, About, ToDo
  <2>3. Strike(n)
    BY <2>1 DEF Strikes
  <2> QED
    BY <2>1, <2>2, <2>3 DEF Strike
<1> QED
  BY <1>1, <1>2, <1>3 DEF Next

\* No seedling is given up too early: a log never holds more failed checks than there were
\* since it was reset, unless the reset overtook another call on the seedling.
THEOREM StrikesCorrect == Spec => []StrikesAreEarned
<1>1. Init => Strikes
  <2> SUFFICES ASSUME Init, NEW n \in Names PROVE Strike(n)
    BY DEF Strikes
  <2>1. \A t \in Tasks : task[t] = Idle
    BY DEF Init
  <2>2. Readers(n) = {} /\ \A t \in Tasks, k \in Nat : ~About(t, n, k)
    BY <2>1, IdleFacts DEF Readers, About
  <2>3. Cardinality(Readers(n)) = 0
    BY <2>2, FS_EmptySet
  <2>4. earned[n] = 0 /\ file[n]["log"] = NoFile /\ NoFile \notin Nat
    BY HoldsFacts DEF Init, Entries, Parts, Values
  <2> QED
    BY <2>2, <2>3, <2>4 DEF Strike
<1>2. Inv /\ Strikes => StrikesAreEarned
  <2> SUFFICES ASSUME Inv, Strikes, NEW n \in Names \ overtaken, file[n]["log"] \in Nat
               PROVE  file[n]["log"] <= earned[n]
    BY DEF StrikesAreEarned
  <2> DEFINE c == Cardinality(Readers(n))
  <2>1. c \in Nat /\ earned[n] \in Nat /\ file[n]["log"] + c <= earned[n]
    BY ReadersCounted DEF Strikes, Strike, Inv, TypeOK
  <2> HIDE DEF c
  <2> QED
    BY <2>1
<1> QED
  BY <1>1, <1>2, InvAlways, StrikesKept, PTL DEF Spec

-----------------------------------------------------------------------------
(* What Records promises, of what is seen of the files *)

\* What a call leaves in the place of a record is a record.
LEMMA RecordCallTyped ==
    ASSUME R!TypeOK, NEW n \in Names, R!Create(n) \/ R!Update(n) \/ R!Delete(n)
    PROVE  \E new \in R!Record : R!Becomes(n, new)
<1>1. SeenRecord[n] \in R!Record
  BY DEF R!TypeOK
<1>2. /\ SeenRecord[n].id \in Ids \cup {NoId} /\ SeenRecord[n].version \in Versions \cup {0}
      /\ \A i \in {SeenRecord[n].id, NoId}, v \in Versions \cup {0} : R!Damaged(i, v) \in R!Record
  <2>1. SeenRecord[n].id \in Ids \cup {NoId} /\ SeenRecord[n].version \in Versions \cup {0}
    <3>1. CASE SeenRecord[n] = R!Absent
      BY <3>1 DEF R!Absent
    <3>2. CASE \E i \in Ids, v \in Versions : SeenRecord[n] = R!Whole(i, v)
      BY <3>2 DEF R!Whole
    <3>3. CASE \E i \in Ids \cup {NoId}, v \in Versions \cup {0} : SeenRecord[n] = R!Damaged(i, v)
      BY <3>3 DEF R!Damaged
    <3> QED
      BY <1>1, <3>1, <3>2, <3>3 DEF R!Record
  <2>2. \A i \in Ids \cup {NoId}, v \in Versions \cup {0} : R!Damaged(i, v) \in R!Record
    BY DEF R!Record
  <2> QED
    BY <2>1, <2>2
<1>3. CASE R!Create(n)
  <2>1. \A i \in Ids, v \in Versions : R!Whole(i, v) \in R!Record
    BY DEF R!Record
  <2>2. \A i \in Ids \cup {NoId} : R!Damaged(i, 0) \in R!Record
    BY DEF R!Record
  <2> QED
    BY <1>3, <2>1, <2>2 DEF R!Create
<1>4. CASE R!Update(n)
  <2>1. \/ \E v \in Versions : SeenRecord[n].id # NoId /\ R!Becomes(n, R!Whole(SeenRecord[n].id, v))
        \/ \E v \in Versions \cup {0} : R!Becomes(n, R!Damaged(SeenRecord[n].id, v))
    BY <1>4 DEF R!Update
  <2>2. \A v \in Versions : SeenRecord[n].id # NoId => R!Whole(SeenRecord[n].id, v) \in R!Record
    BY <1>2 DEF R!Record
  <2>3. \A v \in Versions \cup {0} : R!Damaged(SeenRecord[n].id, v) \in R!Record
    BY <1>2 DEF R!Record
  <2> QED
    BY <2>1, <2>2, <2>3
<1>5. CASE R!Delete(n)
  <2>1. R!Absent \in R!Record
    BY DEF R!Record
  <2> QED
    BY <1>2, <1>5, <2>1 DEF R!Delete
<1> QED
  BY <1>3, <1>4, <1>5

\* What is seen of the files is the records and the default of Records, however many calls
\* there are and whatever they leave when they fail.
THEOREM RecordsTyped == Spec => []R!TypeOK
<1>1. R!Init => R!TypeOK
  BY DEF R!Init, R!TypeOK, R!Record
<1>2. R!TypeOK /\ [R!Next]_(R!vars) => R!TypeOK'
  <2> SUFFICES ASSUME R!TypeOK, [R!Next]_(R!vars) PROVE R!TypeOK'
    OBVIOUS
  <2>1. ASSUME NEW n \in Names, R!Create(n) \/ R!Update(n) \/ R!Delete(n)
        PROVE  R!TypeOK'
    <3>1. PICK new \in R!Record : R!Becomes(n, new)
      BY <2>1, RecordCallTyped
    <3> QED
      BY <3>1 DEF R!Becomes, R!TypeOK
  <2>2. ASSUME NEW n \in Names, R!Claim(n) \/ R!Release(n)
        PROVE  R!TypeOK'
    BY <2>2 DEF R!Claim, R!Release, R!TypeOK
  <2>3. CASE UNCHANGED R!vars
    BY <2>3 DEF R!vars, R!TypeOK
  <2> QED
    BY <2>1, <2>2, <2>3 DEF R!Next
<1> QED
  BY <1>1, <1>2, Implements, PTL DEF CallsAreAtomic, R!Spec

\* Whatever a call leaves of the record it is about, its id is the old one, none, or
\* one that no record has.
LEMMA RecordCallId ==
    ASSUME R!TypeOK, NEW n \in Names, R!Create(n) \/ R!Update(n) \/ R!Delete(n)
    PROVE  \E new : /\ SeenRecord' = [SeenRecord EXCEPT ![n] = new]
                    /\ new.id \in {SeenRecord[n].id, NoId} \/ R!Unused(new.id)
<1>1. \A i, v : R!Whole(i, v).id = i /\ R!Damaged(i, v).id = i
  BY DEF R!Whole, R!Damaged
<1>2. CASE R!Create(n)
  BY <1>1, <1>2 DEF R!Create, R!Becomes
<1>3. CASE R!Update(n)
  BY <1>1, <1>3 DEF R!Update, R!Becomes
<1>4. CASE R!Delete(n)
  BY <1>1, <1>4 DEF R!Delete, R!Becomes, R!Absent
<1> QED
  BY <1>2, <1>3, <1>4

\* Two records never have the same id, damaged ones included: what bract names after
\* an id (users, networks, folders) belongs to one seedling.
THEOREM RecordsIdsCorrect == Spec => []R!IdsUnique
<1>1. R!Init => R!IdsUnique
  BY DEF R!Init, R!IdsUnique, R!Absent
<1>2. R!TypeOK /\ R!IdsUnique /\ [R!Next]_(R!vars) => R!IdsUnique'
  <2> SUFFICES ASSUME R!TypeOK, R!IdsUnique, [R!Next]_(R!vars) PROVE R!IdsUnique'
    OBVIOUS
  <2>1. ASSUME NEW n \in Names, R!Create(n) \/ R!Update(n) \/ R!Delete(n)
        PROVE  R!IdsUnique'
    <3>1. PICK new : /\ SeenRecord' = [SeenRecord EXCEPT ![n] = new]
                     /\ new.id \in {SeenRecord[n].id, NoId} \/ R!Unused(new.id)
      BY <2>1, RecordCallId
    <3>2. SeenRecord'[n] = new /\ \A m \in Names : m # n => SeenRecord'[m] = SeenRecord[m]
      BY <3>1 DEF R!TypeOK
    <3>3. ASSUME NEW k \in Names, NEW m \in Names, k # m, SeenRecord'[k].id # NoId
          PROVE  SeenRecord'[k].id # SeenRecord'[m].id
      <4>1. CASE k # n /\ m # n
        BY <3>2, <3>3, <4>1 DEF R!IdsUnique
      <4>2. CASE k = n
        BY <3>1, <3>2, <3>3, <4>2 DEF R!IdsUnique, R!Unused
      <4>3. CASE m = n
        BY <3>1, <3>2, <3>3, <4>3 DEF R!IdsUnique, R!Unused
      <4> QED
        BY <4>1, <4>2, <4>3
    <3> QED
      BY <3>3 DEF R!IdsUnique
  <2>2. ASSUME NEW n \in Names, R!Claim(n) \/ R!Release(n)
        PROVE  R!IdsUnique'
    BY <2>2 DEF R!Claim, R!Release, R!IdsUnique
  <2>3. CASE UNCHANGED R!vars
    BY <2>3 DEF R!vars, R!IdsUnique
  <2> QED
    BY <2>1, <2>2, <2>3 DEF R!Next
<1> QED
  BY <1>1, <1>2, RecordsTyped, Implements, PTL DEF CallsAreAtomic, R!Spec

\* Until it is deleted a record keeps its id, or loses the file of it, and its version
\* never goes back, whatever updates fail: what bract built for it stays its own.
THEOREM IdentityKept == Spec => R!KeepsIdentity
<1>1. ASSUME R!TypeOK, [R!Next]_(R!vars), NEW m \in Names,
             SeenRecord[m] # R!Absent, SeenRecord'[m] # R!Absent
      PROVE  /\ SeenRecord'[m].id \in {SeenRecord[m].id, NoId}
             /\ SeenRecord'[m].version >= SeenRecord[m].version \/ SeenRecord'[m].version = 0
  <2>1. SeenRecord[m].version \in Nat
    BY <1>1, SeedbankAssumption DEF R!TypeOK, R!Record, R!Absent, R!Whole, R!Damaged
  <2>2. CASE SeenRecord'[m] = SeenRecord[m]
    BY <2>1, <2>2
  <2>3. CASE SeenRecord'[m] # SeenRecord[m]
    <3>1. R!Update(m) \/ R!Delete(m)
      BY <1>1, <2>3 DEF R!Next, R!vars, R!Create, R!Update, R!Delete, R!Claim, R!Release,
                        R!Becomes, R!TypeOK
    <3>2. \A i, v : /\ R!Whole(i, v).id = i /\ R!Whole(i, v).version = v
                    /\ R!Damaged(i, v).id = i /\ R!Damaged(i, v).version = v
      BY DEF R!Whole, R!Damaged
    <3>3. CASE R!Update(m)
      <4>1. PICK new : R!Becomes(m, new) /\ new.id = SeenRecord[m].id
                       /\ (new.version = 0 \/ new.version >= SeenRecord[m].version)
        <5>1. CASE \E v \in Versions :
                      /\ v > SeenRecord[m].version \/ v = SeenRecord[m].version
                      /\ R!Becomes(m, R!Whole(SeenRecord[m].id, v))
          BY <2>1, <3>2, <5>1, SeedbankAssumption
        <5>2. CASE \E v \in Versions \cup {0} :
                      /\ v \in {0, SeenRecord[m].version} \/ v > SeenRecord[m].version
                      /\ R!Becomes(m, R!Damaged(SeenRecord[m].id, v))
          BY <2>1, <3>2, <5>2, SeedbankAssumption
        <5> QED
          BY <3>3, <5>1, <5>2 DEF R!Update
      <4> QED
        BY <1>1, <4>1 DEF R!Becomes, R!TypeOK
    <3>4. CASE R!Delete(m)
      <4>1. \E new \in {R!Absent} \cup {R!Damaged(id, v) : id \in {SeenRecord[m].id, NoId},
                                                       v \in {SeenRecord[m].version, 0}} :
                R!Becomes(m, new)
        BY <3>4 DEF R!Delete
      <4> QED
        BY <1>1, <2>1, <3>2, <4>1 DEF R!Becomes, R!TypeOK
    <3> QED
      BY <3>1, <3>3, <3>4
  <2> QED
    BY <2>2, <2>3
<1>2. R!TypeOK /\ [R!Next]_(R!vars) =>
        [\A n \in Names : SeenRecord[n] # R!Absent /\ SeenRecord'[n] # R!Absent =>
            /\ SeenRecord'[n].id \in {SeenRecord[n].id, NoId}
            /\ SeenRecord'[n].version >= SeenRecord[n].version \/ SeenRecord'[n].version = 0]_(R!vars)
  BY <1>1
<1> QED
  BY <1>2, RecordsTyped, Implements, PTL DEF CallsAreAtomic, R!Spec, R!KeepsIdentity
=============================================================================
