--------------------------- MODULE RegistryProofs ---------------------------
(* What resin guarantees of manifests and cached blobs for any requests at a *)
(* time, digests, tags and sizes of bodies, whatever fails and whenever it   *)
(* ends: a digest whose saves were left alone is served whole, a request     *)
(* that reads it is answered with all of it, and its tags can be resolved.   *)
EXTENDS Registry, FiniteSetTheorems, SequenceTheorems, TLAPS

\* The files that are named after a digest.
Named(d) == {tmp[d], final[d]} \ {NoFile}

\* No file has the names of two digests, and none is written to for another digest.
Apart ==
    /\ \A d, e \in Digests : d # e => Named(d) \cap Named(e) = {}
    /\ \A t \in Tasks, e \in Digests :
          At(t, "copy") /\ task[t].digest # e => task[t].fd \notin Named(e)

\* What a request has at each of its steps.
InHand(t) ==
    LET r == task[t] IN
    /\ r.step = "idle" => r.fd = NoFile /\ r.got = <<>> /\ r.op = "none"
    /\ r.step \in {"resolve", "stats", "get", "read"} => r.op = "pull"
    /\ r.step \in {"resolve", "stats", "get", "exists", "open"} => r.fd = NoFile /\ r.got = <<>>
    /\ r.step = "resolve" => r.tag \in Tags
    /\ r.step \notin {"idle", "resolve"} => r.digest \in Digests
    /\ r.step \in {"exists"} \cup Saving => r.op \in {"fetch", "push"}
    /\ r.step \in {"read", "copy", "rename"} => r.fd \in Files
    /\ r.step \in {"rename", "media"} => r.got = Content
    /\ r.step \in {"truncate", "tag"} => r.tag \in Tags
    /\ r.step \in {"truncate", "tag"} => r.op = "push"
    /\ r.step \in {"list", "delete", "read_tag", "untag"}
          => r.op = "delete" /\ r.digest \in disturbed
    /\ r.step = "delete" => r.left \subseteq Entries
    /\ r.step \in {"read_tag", "untag"} => r.left \subseteq Tags
    /\ r.step = "untag" => r.tag \in Tags

Savers(d) == {t \in Tasks : task[t].digest = d /\ task[t].step \in Saving}

\* How far the save of a digest is that is alone.
SaveOf(r, d) ==
    /\ ~media[d]
    /\ r.step \in {"open", "copy", "unlink", "rename", "clean_media"} => final[d] = NoFile
    /\ r.step \in {"open", "media", "clean_final", "clean_media"} => tmp[d] = NoFile
    /\ r.step \in {"copy", "rename"} => tmp[d] = r.fd /\ data[r.fd] = r.got
    /\ r.step = "media" => final[d] # NoFile

\* A digest whose saves come one after another is whole when it is there, with its media
\* type beside it unless it is being saved, and a save begins with nothing.
Alone(d) ==
    /\ \A t, u \in Savers(d) : t = u
    /\ final[d] # NoFile => data[final[d]] = Content
    /\ Savers(d) = {} => tmp[d] = NoFile /\ (media[d] <=> final[d] # NoFile)
    /\ \A t \in Savers(d) : SaveOf(task[t], d)

\* A digest that a tag names, or is about to, is there.
Tagged(d) ==
    \/ \E g \in Tags : tags[g] = d
    \/ \E t \in Tasks : task[t].digest = d /\ task[t].step \in {"truncate", "tag"}
Shown(d) == Tagged(d) => final[d] # NoFile /\ media[d]

\* A request that reads a digest that is undisturbed has a whole file open, which nothing
\* is written to, and its length.
Reader(t) ==
    LET r == task[t] IN
    /\ r.step \in {"get", "read"} /\ r.digest \notin disturbed => r.size = Size
    /\ r.step = "read" /\ r.digest \notin disturbed =>
          /\ data[r.fd] = Content
          /\ \A u \in Tasks : At(u, "copy") => task[u].fd # r.fd
          /\ \A e \in Digests \ {r.digest} : r.fd \notin Named(e)
Readers == \A t \in Tasks : Reader(t)

Inv ==
    /\ TypeOK /\ Apart /\ Readers
    /\ \A t \in Tasks : InHand(t)
    /\ \A d \in Digests \ disturbed : Alone(d) /\ Shown(d)

\* All that a step does to the requests is what it does to one of them.
Moves(t) == task'[t] \in Task /\ task' = [task EXCEPT ![t] = task'[t]]

RestTyped ==
    /\ tmp \in [Digests -> Files \cup {NoFile}] /\ final \in [Digests -> Files \cup {NoFile}]
    /\ media \in [Digests -> BOOLEAN]
    /\ data \in [Files -> Seq(0..Size)]
    /\ tags \in [Tags -> Digests \cup {NoDigest, Torn}]
    /\ disturbed \subseteq Digests
    /\ budget \in Budget

-----------------------------------------------------------------------------
(* Numbers, types and single requests *)

\* The body, the files and the bounds.
LEMMA Numbers ==
    /\ Size \in Nat /\ Size > 0 /\ Len(Content) = Size /\ Content \in Seq(0..Size)
    /\ Content # <<>> /\ \A i \in 1..Size : Content[i] = i
    /\ Cardinality(Digests) \in Nat /\ Cardinality(Tasks) \in Nat
    /\ NoFile \notin Files /\ Files \subseteq Nat
    /\ NoDigest \notin Digests /\ NoTag \notin Tags
<1>1. Size \in Nat /\ Size > 0
  BY RegistryAssumption
<1>2. Content \in [1..Size -> 0..Size] /\ \A i \in 1..Size : Content[i] = i
  BY <1>1 DEF Content
<1>3. Len(Content) = Size /\ Content \in Seq(0..Size)
  BY <1>1, <1>2
<1>4. Cardinality(Digests) \in Nat /\ Cardinality(Tasks) \in Nat
  BY RegistryAssumption, FS_CardinalityType
<1>5. NoFile \notin Files /\ Files \subseteq Nat
  BY <1>4, RegistryAssumption DEF Files
<1>6. Content # <<>>
  BY <1>1, <1>3
<1> QED
  BY <1>1, <1>2, <1>3, <1>4, <1>5, <1>6, RegistryAssumption

LEMMA Typed == TypeOK <=> RestTyped /\ task \in [Tasks -> Task]
BY DEF TypeOK, RestTyped

LEMMA TypedNext == TypeOK' <=> RestTyped' /\ task' \in [Tasks -> Task]
BY DEF TypeOK, RestTyped

\* What is known of the other requests.
LEMMA Others ==
    ASSUME TypeOK, NEW t \in Tasks, Moves(t)
    PROVE  /\ task' \in [Tasks -> Task]
           /\ \A u \in Tasks : u # t => task'[u] = task[u]
BY DEF TypeOK, Moves

LEMMA FaultTyped == ASSUME TypeOK, Fault PROVE budget' \in Budget
<1>1. budget \in Budget /\ MaxFaults \in Nat /\ budget.faults - 1 \in 0..MaxFaults
  BY RegistryAssumption DEF TypeOK, Fault, Budget
<1> QED
  BY <1>1 DEF Fault, Budget

\* A request that is idle, and one that has just been answered.
LEMMA IdleTyped ==
    /\ Idle \in Task /\ Idle.fd = NoFile /\ Idle.got = <<>>
    /\ Idle.op = "none" /\ Idle.step = "idle" /\ Idle.digest = NoDigest
  BY DEF Idle, Task, Steps, Ops

LEMMA Answers ==
    ASSUME TypeOK, NEW t \in Tasks, Answer(t)
    PROVE  /\ Moves(t) /\ task'[t].step = "idle" /\ InHand(t)' /\ task'[t].digest = NoDigest
<1>1. task \in [Tasks -> Task] /\ task' = [task EXCEPT ![t] = Idle]
  BY DEF TypeOK, Answer
<1>2. task'[t] = Idle
  BY <1>1
<1> QED
  BY <1>1, <1>2, IdleTyped DEF Moves, InHand, Saving

LEMMA GoesTo ==
    ASSUME TypeOK, NEW t \in Tasks, NEW step \in Steps, GoTo(t, step)
    PROVE  /\ Moves(t) /\ task'[t].step = step
           /\ task'[t] = [task[t] EXCEPT !.step = step]
           /\ task'[t].op = task[t].op /\ task'[t].digest = task[t].digest
           /\ task'[t].tag = task[t].tag /\ task'[t].fd = task[t].fd /\ task'[t].got = task[t].got
           /\ task'[t].size = task[t].size /\ task'[t].left = task[t].left
<1> DEFINE new == [task[t] EXCEPT !.step = step]
<1>1. task \in [Tasks -> Task] /\ task' = [task EXCEPT ![t] = new] /\ task[t] \in Task
  BY DEF TypeOK, GoTo
<1>2. task'[t] = new
  BY <1>1
<1>3. new \in Task
  BY <1>1 DEF Task
<1> QED
  BY <1>1, <1>2, <1>3 DEF Moves, Task

\* How a save ends for its request: with an answer, or with a tag to write.
LEMMA SaveEndsIs ==
    ASSUME Inv, NEW t \in Tasks, NEW ok \in BOOLEAN, SaveEnds(t, ok),
           task[t].step \in {"exists"} \cup Saving
    PROVE  /\ Moves(t) /\ InHand(t)'
           /\ \/ task'[t].step = "idle" /\ task'[t].digest = NoDigest
              \/ ok /\ task'[t].step = "truncate" /\ task'[t].digest = task[t].digest
<1>1. TypeOK /\ task[t] \in Task /\ InHand(t)
  BY DEF Inv, TypeOK
<1>2. task[t].digest \in Digests
  BY <1>1 DEF InHand, Saving
<1>3. CASE Answer(t)
  BY <1>1, <1>3, Answers
<1>4. CASE ok /\ task[t].op = "push" /\ task[t].tag # NoTag /\ GoTo(t, "truncate")
  <2>1. task[t].tag \in Tags /\ "truncate" \in Steps
    BY <1>1, <1>4 DEF Task, Steps
  <2>2. /\ Moves(t) /\ task'[t].step = "truncate" /\ task'[t].op = "push"
        /\ task'[t].digest = task[t].digest /\ task'[t].tag = task[t].tag
    BY <1>1, <1>4, <2>1, GoesTo
  <2> QED
    BY <1>2, <1>4, <2>1, <2>2 DEF InHand, Saving
<1> QED
  BY <1>3, <1>4 DEF SaveEnds

-----------------------------------------------------------------------------
(* What a step leaves as it was *)

\* A request that another step is about stays in order.
LEMMA InHandStays ==
    ASSUME NEW u \in Tasks, task'[u] = task[u], disturbed \subseteq disturbed', InHand(u)
    PROVE  InHand(u)'
BY DEF InHand

\* Nothing gets a name or is opened to be written to.
LEMMA ApartStays ==
    ASSUME TypeOK, Apart, NEW t \in Tasks, Moves(t),
           \A e \in Digests : Named(e)' \subseteq Named(e),
           At(t, "copy")' => /\ At(t, "copy") /\ task'[t].fd = task[t].fd
                             /\ task'[t].digest = task[t].digest
    PROVE  Apart'
<1>1. \A u \in Tasks : u # t => task'[u] = task[u]
  BY Others
<1>2. \A u \in Tasks, e \in Digests :
         At(u, "copy")' /\ task'[u].digest # e => task'[u].fd \notin Named(e)'
  <2> SUFFICES ASSUME NEW u \in Tasks, NEW e \in Digests, At(u, "copy")', task'[u].digest # e
               PROVE  task'[u].fd \notin Named(e)'
    OBVIOUS
  <2>1. At(u, "copy") /\ task'[u].fd = task[u].fd /\ task'[u].digest = task[u].digest
    BY <1>1 DEF At
  <2> QED
    BY <2>1 DEF Apart
<1>3. \A d, e \in Digests : d # e => Named(d)' \cap Named(e)' = {}
  BY DEF Apart
<1> QED
  BY <1>2, <1>3 DEF Apart

\* Nor is anything written, and a request that begins to read does it as it should.
LEMMA ReadersStay ==
    ASSUME TypeOK, Readers, NEW t \in Tasks, Moves(t), disturbed \subseteq disturbed',
           UNCHANGED data,
           \A e \in Digests : Named(e)' \subseteq Named(e),
           At(t, "copy")' => At(t, "copy") /\ task'[t].fd = task[t].fd,
           task'[t].step \notin {"get", "read"} \/ Reader(t)'
    PROVE  Readers'
<1>1. \A u \in Tasks : u # t => task'[u] = task[u]
  BY Others
<1>2. \A u \in Tasks : At(u, "copy")' => At(u, "copy") /\ task'[u].fd = task[u].fd
  BY <1>1 DEF At
<1>3. ASSUME NEW u \in Tasks, u # t PROVE Reader(u)'
  <2>1. Reader(u) /\ task'[u] = task[u]
    BY <1>1, <1>3 DEF Readers
  <2> QED
    BY <1>2, <2>1 DEF Reader
<1>4. Reader(t)'
  BY DEF Reader
<1> QED
  BY <1>3, <1>4 DEF Readers

\* A file is written to that no request reads.
LEMMA ReadersSee ==
    ASSUME TypeOK, Readers, NEW t \in Tasks, Moves(t), disturbed \subseteq disturbed',
           task'[t].step \notin {"get", "read"},
           \A u \in Tasks : u # t /\ At(u, "read") /\ task[u].digest \notin disturbed' =>
               /\ data'[task[u].fd] = data[task[u].fd]
               /\ At(t, "copy")' => task'[t].fd # task[u].fd
               /\ \A e \in Digests \ {task[u].digest} : task[u].fd \notin Named(e)'
    PROVE  Readers'
<1>1. \A u \in Tasks : u # t => task'[u] = task[u]
  BY Others
<1>2. ASSUME NEW u \in Tasks, u # t PROVE Reader(u)'
  <2>1. Reader(u) /\ task'[u] = task[u]
    BY <1>1, <1>2 DEF Readers
  <2>2. task[u].step \in {"get", "read"} /\ task[u].digest \notin disturbed' => task[u].size = Size
    BY <2>1 DEF Reader
  <2>3. ASSUME task[u].step = "read", task[u].digest \notin disturbed'
        PROVE  /\ data'[task[u].fd] = Content
               /\ \A v \in Tasks : At(v, "copy")' => task'[v].fd # task[u].fd
               /\ \A e \in Digests \ {task[u].digest} : task[u].fd \notin Named(e)'
    <3>1. At(u, "read") /\ data[task[u].fd] = Content
          /\ \A v \in Tasks : At(v, "copy") => task[v].fd # task[u].fd
      BY <2>1, <2>3 DEF Reader, At
    <3>2. \A v \in Tasks : At(v, "copy")' => task'[v].fd # task[u].fd
      BY <1>1, <1>2, <2>3, <3>1 DEF At
    <3> QED
      BY <1>2, <2>3, <3>1, <3>2
  <2> QED
    BY <2>1, <2>2, <2>3 DEF Reader
<1>3. Reader(t)'
  BY DEF Reader
<1> QED
  BY <1>2, <1>3 DEF Readers

\* A digest that a step of t is not about: what it was known to be, it is.
Unconcerned(t, e) ==
    /\ tmp'[e] = tmp[e] /\ final'[e] = final[e] /\ media'[e] = media[e]
    /\ \A f \in Named(e) : data'[f] = data[f]
    /\ t \notin Savers(e) /\ t \notin Savers(e)'
    /\ Tagged(e)' => Tagged(e) \/ (final[e] # NoFile /\ media[e])

LEMMA StaysAlone ==
    ASSUME Inv, NEW t \in Tasks, Moves(t), NEW e \in Digests \ disturbed, Unconcerned(t, e)
    PROVE  Alone(e)' /\ Shown(e)'
<1>1. Alone(e) /\ Shown(e) /\ TypeOK
  BY DEF Inv
<1>2. \A u \in Tasks : u # t => task'[u] = task[u]
  BY <1>1, Others
<1>3. Savers(e)' = Savers(e)
  BY <1>2 DEF Unconcerned, Savers
<1>4. \A u \in Savers(e) : u # t /\ u \in Tasks /\ task'[u] = task[u]
  BY <1>2 DEF Unconcerned, Savers
<1>5. tmp'[e] = tmp[e] /\ final'[e] = final[e] /\ media'[e] = media[e]
  BY DEF Unconcerned
<1>6. final[e] # NoFile => data'[final[e]] = data[final[e]]
  BY DEF Unconcerned, Named
<1>7. ASSUME NEW u \in Savers(e) PROVE SaveOf(task[u], e)'
  <2>1. SaveOf(task[u], e) /\ InHand(u) /\ u \in Tasks /\ task'[u] = task[u]
    BY <1>1, <1>4 DEF Inv, Alone
  <2>2. task[u].step \in {"copy", "rename"} => tmp[e] = task[u].fd /\ data[task[u].fd] = task[u].got
    BY <2>1 DEF SaveOf
  <2>3. tmp[e] # NoFile => data'[tmp[e]] = data[tmp[e]]
    BY DEF Unconcerned, Named
  <2>4. task[u].step \in {"copy", "rename"} => tmp[e] # NoFile
    BY <2>1, Numbers DEF SaveOf, InHand
  <2> QED
    BY <1>5, <2>1, <2>2, <2>3, <2>4 DEF SaveOf
<1>8. Alone(e)'
  BY <1>1, <1>3, <1>5, <1>6, <1>7 DEF Alone
<1>9. Shown(e)'
  BY <1>1, <1>5 DEF Unconcerned, Shown
<1> QED
  BY <1>8, <1>9

\* What is to be shown of a step.
LEMMA Keeps ==
    ASSUME Inv, NEW t \in Tasks, Moves(t), RestTyped', disturbed \subseteq disturbed',
           InHand(t)', Apart', Readers',
           \A e \in Digests \ disturbed' : Alone(e)' /\ Shown(e)'
    PROVE  Inv'
<1>1. TypeOK'
  BY TypedNext, Others DEF Inv
<1>2. \A u \in Tasks : InHand(u)'
  BY Others, InHandStays DEF Inv
<1> QED
  BY <1>1, <1>2 DEF Inv

-----------------------------------------------------------------------------
(* Requests that save nothing *)

\* A step that changes no file of a digest that is undisturbed, neither begins nor ends a
\* save of one, and lets no tag name what is not there.
LEMMA Bystander ==
    ASSUME Inv, NEW t \in Tasks, Moves(t), InHand(t)', RestTyped', disturbed \subseteq disturbed',
           ~At(t, "copy")', UNCHANGED data, task'[t].step \notin {"get", "read"} \/ Reader(t)',
           \A e \in Digests : Named(e)' \subseteq Named(e),
           \A e \in Digests \ disturbed' :
               /\ tmp'[e] = tmp[e] /\ final'[e] = final[e] /\ media'[e] = media[e]
               /\ t \notin Savers(e) /\ t \notin Savers(e)'
               /\ Tagged(e)' => Tagged(e) \/ (final[e] # NoFile /\ media[e])
    PROVE  Inv'
<1>1. TypeOK
  BY DEF Inv
<1>2. Apart' /\ Readers'
  BY <1>1, ApartStays, ReadersStay DEF Inv
<1>3. ASSUME NEW e \in Digests \ disturbed' PROVE Alone(e)' /\ Shown(e)'
  <2>1. Unconcerned(t, e) /\ e \in Digests \ disturbed
    BY DEF Unconcerned
  <2> QED
    BY <2>1, StaysAlone
<1> QED
  BY <1>2, <1>3, Keeps

\* A request that neither saves nor writes a tag, before and after.
LEMMA Reads ==
    ASSUME Inv, NEW t \in Tasks, Moves(t), InHand(t)', budget' \in Budget,
           UNCHANGED <<files, tags>>, disturbed \subseteq disturbed', disturbed' \subseteq Digests,
           task[t].step \notin Saving,
           task'[t].step \notin Saving \cup {"truncate", "tag"},
           task'[t].step \notin {"get", "read"} \/ Reader(t)'
    PROVE  Inv'
<1>1. TypeOK /\ RestTyped' /\ UNCHANGED <<tmp, final, media, data, tags>>
  BY Typed DEF Inv, RestTyped, files
<1>2. \A u \in Tasks : u # t => task'[u] = task[u]
  BY <1>1, Others
<1>3. ~At(t, "copy")'
  BY DEF At, Saving
<1>4. \A e \in Digests : Named(e)' \subseteq Named(e)
  BY <1>1 DEF Named
<1>5. ASSUME NEW e \in Digests
      PROVE  t \notin Savers(e) /\ t \notin Savers(e)' /\ (Tagged(e)' => Tagged(e))
  <2>1. t \notin Savers(e) /\ t \notin Savers(e)'
    BY DEF Savers
  <2>2. Tagged(e)' => Tagged(e)
    BY <1>1, <1>2 DEF Tagged
  <2> QED
    BY <2>1, <2>2
<1> QED
  BY <1>1, <1>3, <1>4, <1>5, Bystander

\* An answer needs no more.
LEMMA AnswersKeep ==
    ASSUME Inv, NEW t \in Tasks, Answer(t),
           UNCHANGED <<files, tags, disturbed>>, budget' \in Budget,
           task[t].step \notin Saving
    PROVE  Inv'
<1>1. TypeOK /\ disturbed \subseteq Digests
  BY DEF Inv, TypeOK
<1>2. Moves(t) /\ task'[t].step = "idle" /\ InHand(t)'
  BY <1>1, Answers
<1> QED
  BY <1>1, <1>2, Reads DEF Saving

\* A new record of a request that goes on.
LEMMA NewRecord ==
    ASSUME TypeOK, NEW t \in Tasks, NEW new \in Task, task' = [task EXCEPT ![t] = new]
    PROVE  Moves(t) /\ task'[t] = new
BY DEF TypeOK, Moves

LEMMA BeginKeeps ==
    ASSUME Inv, NEW t \in Tasks, Begin(t)
    PROVE  Inv'
<1>1. TypeOK /\ task[t].step = "idle" /\ disturbed \subseteq Digests
  BY DEF Inv, TypeOK, Begin, At
<1>2. PICK d \in Digests, g \in Tags \cup {NoTag}, first \in {"resolve", "stats", "exists", "list"} :
         LET op == CASE first = "exists" -> "push" [] first = "list" -> "delete" [] OTHER -> "pull" IN
         /\ first = "resolve" => g # NoTag
         /\ task' = [task EXCEPT ![t] = [Idle EXCEPT
                !.step = first, !.op = op, !.tag = g,
                !.digest = IF first = "resolve" THEN NoDigest ELSE d]]
         /\ disturbed' = IF op = "delete" THEN disturbed \cup {d} ELSE disturbed
  BY DEF Begin
<1> DEFINE op == CASE first = "exists" -> "push" [] first = "list" -> "delete" [] OTHER -> "pull"
           dig == IF first = "resolve" THEN NoDigest ELSE d
           new == [Idle EXCEPT !.step = first, !.op = op, !.tag = g, !.digest = dig]
<1>3. /\ op \in Ops /\ first \in Steps /\ dig \in Digests \cup {NoDigest}
      /\ first # "resolve" => dig \in Digests
      /\ first = "exists" <=> op = "push"
      /\ first = "list" <=> op = "delete"
      /\ first \in {"resolve", "stats"} <=> op = "pull"
      /\ first \notin Saving /\ first \notin {"truncate", "tag", "idle", "read", "copy", "rename",
                                              "media", "delete", "read_tag", "untag"}
      /\ first = "resolve" => g \in Tags
  BY <1>2 DEF Ops, Steps, Saving
<1>4. first = "list" => dig = d /\ disturbed' = disturbed \cup {d}
  BY <1>2, <1>3
<1>5. task' = [task EXCEPT ![t] = new] /\ disturbed \subseteq disturbed' /\ disturbed' \subseteq Digests
  BY <1>1, <1>2
<1> HIDE DEF op, dig
<1>6. /\ new \in Task /\ new.step = first /\ new.op = op /\ new.tag = g /\ new.digest = dig
      /\ new.fd = NoFile /\ new.got = <<>>
  BY <1>3, IdleTyped DEF Task
<1> HIDE DEF new
<1>7. Moves(t) /\ task'[t] = new
  BY <1>1, <1>5, <1>6, NewRecord
<1>8. InHand(t)'
  BY <1>3, <1>4, <1>6, <1>7 DEF InHand
<1>9. budget' \in Budget
  <2>1. budget \in Budget /\ budget.requests - 1 \in 0..MaxRequests
    BY <1>1, RegistryAssumption DEF TypeOK, Begin, Budget
  <2> QED
    BY <2>1 DEF Begin, Budget
<1>10. UNCHANGED <<files, tags>>
  BY DEF Begin
<1> QED
  BY <1>1, <1>3, <1>5, <1>6, <1>7, <1>8, <1>9, <1>10, Reads DEF Saving

LEMMA ResolveKeeps ==
    ASSUME Inv, NEW t \in Tasks, Resolve(t)
    PROVE  Inv'
<1>1. TypeOK /\ InHand(t) /\ task[t].step = "resolve" /\ task[t] \in Task /\ budget' \in Budget
      /\ UNCHANGED <<files, tags, disturbed>> /\ disturbed \subseteq Digests
  BY DEF Inv, TypeOK, Resolve, At
<1>2. task[t].op = "pull" /\ task[t].tag \in Tags /\ task[t].step \notin Saving
      /\ task[t].fd = NoFile /\ task[t].got = <<>>
  BY <1>1 DEF InHand, Saving
<1>3. CASE Answer(t)
  BY <1>1, <1>2, <1>3, AnswersKeep
<1>4. CASE ~Answer(t)
  <2> DEFINE new == [task[t] EXCEPT !.step = "stats", !.digest = tags[task[t].tag]]
  <2>1. /\ tags[task[t].tag] # NoDigest /\ tags[task[t].tag] # Torn
        /\ task' = [task EXCEPT ![t].step = "stats", ![t].digest = tags[task[t].tag]]
    BY <1>4 DEF Resolve
  <2>2. tags[task[t].tag] \in Digests
    BY <1>1, <1>2, <2>1 DEF TypeOK
  <2>3. task' = [task EXCEPT ![t] = new]
    BY <1>1, <2>1 DEF TypeOK
  <2>4. /\ new \in Task /\ new.step = "stats" /\ new.digest \in Digests /\ new.op = "pull"
        /\ new.fd = NoFile /\ new.got = <<>>
    BY <1>1, <1>2, <2>2 DEF Task, Steps
  <2> HIDE DEF new
  <2>5. Moves(t) /\ task'[t] = new
    BY <1>1, <2>3, <2>4, NewRecord
  <2>6. InHand(t)'
    BY <2>4, <2>5 DEF InHand, Saving
  <2> QED
    BY <1>1, <1>2, <2>4, <2>5, <2>6, Reads DEF Saving
<1> QED
  BY <1>3, <1>4

LEMMA StatsKeeps ==
    ASSUME Inv, NEW t \in Tasks, Stats(t)
    PROVE  Inv'
<1>1. TypeOK /\ InHand(t) /\ task[t].step = "stats" /\ task[t] \in Task /\ budget \in Budget
      /\ UNCHANGED <<files, tags, disturbed>> /\ disturbed \subseteq Digests
  BY DEF Inv, TypeOK, Stats, At
<1>2. task[t].op = "pull" /\ task[t].digest \in Digests /\ task[t].step \notin Saving
      /\ task[t].fd = NoFile /\ task[t].got = <<>>
  BY <1>1 DEF InHand, Saving
<1>3. budget' \in Budget
  BY <1>1, FaultTyped DEF Stats
<1>4. CASE Answer(t)
  BY <1>1, <1>2, <1>3, <1>4, AnswersKeep
<1>5. CASE ~Answer(t)
  <2>1. PICK size \in {Size} \cup {Len(data[f]) : f \in Files} :
           /\ task' = [task EXCEPT ![t].step = "get", ![t].size = size]
           /\ task[t].digest \notin disturbed => size = Size
    <3> DEFINE d == task[t].digest
    <3>1. \/ final[d] # NoFile /\ task' = [task EXCEPT ![t].step = "get", ![t].size = Len(data[final[d]])]
          \/ task' = [task EXCEPT ![t].step = "get", ![t].size = Size]
      BY <1>5 DEF Stats
    <3>2. final[d] # NoFile => final[d] \in Files
      BY <1>1, <1>2 DEF TypeOK
    <3>3. final[d] # NoFile /\ d \notin disturbed => Len(data[final[d]]) = Size
      BY <1>2, Numbers DEF Inv, Alone
    <3> QED
      BY <3>1, <3>2, <3>3
  <2> DEFINE new == [task[t] EXCEPT !.step = "get", !.size = size]
  <2>2. size \in Nat
    BY <1>1, Numbers DEF TypeOK
  <2>3. task' = [task EXCEPT ![t] = new]
    BY <1>1, <2>1 DEF TypeOK
  <2>4. /\ new \in Task /\ new.step = "get" /\ new.digest \in Digests /\ new.op = "pull"
        /\ new.fd = NoFile /\ new.got = <<>> /\ new.size = size /\ new.digest = task[t].digest
    BY <1>1, <1>2, <2>2 DEF Task, Steps
  <2> HIDE DEF new
  <2>5. Moves(t) /\ task'[t] = new
    BY <1>1, <2>3, <2>4, NewRecord
  <2>6. InHand(t)'
    BY <2>4, <2>5 DEF InHand, Saving
  <2>7. Reader(t)'
    BY <1>1, <2>1, <2>4, <2>5 DEF Reader
  <2> QED
    BY <1>1, <1>2, <1>3, <2>4, <2>5, <2>6, <2>7, Reads DEF Saving
<1> QED
  BY <1>4, <1>5

LEMMA GetKeeps ==
    ASSUME Inv, NEW t \in Tasks, Get(t)
    PROVE  Inv'
<1>1. TypeOK /\ InHand(t) /\ task[t].step = "get" /\ task[t] \in Task /\ budget \in Budget
      /\ UNCHANGED <<files, tags, disturbed>> /\ disturbed \subseteq Digests
  BY DEF Inv, TypeOK, Get, At
<1>2. task[t].op = "pull" /\ task[t].digest \in Digests /\ task[t].step \notin Saving
      /\ task[t].fd = NoFile /\ task[t].got = <<>>
  BY <1>1 DEF InHand, Saving
<1>3. budget' \in Budget
  BY <1>1, FaultTyped DEF Get
<1>4. CASE Answer(t)
  BY <1>1, <1>2, <1>3, <1>4, AnswersKeep
<1>5. CASE final[task[t].digest] # NoFile /\ ~Answer(t)
  <2> DEFINE file == final[task[t].digest]
             new == [task[t] EXCEPT !.step = "read", !.fd = file]
  <2>1. task' = [task EXCEPT ![t].step = "read", ![t].fd = file]
    BY <1>5 DEF Get
  <2>2. file \in Files
    BY <1>1, <1>2, <1>5 DEF TypeOK
  <2>3. task' = [task EXCEPT ![t] = new]
    BY <1>1, <2>1 DEF TypeOK
  <2> HIDE DEF file
  <2>4. /\ new \in Task /\ new.step = "read" /\ new.digest \in Digests /\ new.op = "pull"
        /\ new.fd = file /\ file \in Files /\ new.size = task[t].size
        /\ new.digest = task[t].digest
    BY <1>1, <1>2, <2>2 DEF Task, Steps
  <2> HIDE DEF new
  <2>5. Moves(t) /\ task'[t] = new
    BY <1>1, <2>3, <2>4, NewRecord
  <2>6. InHand(t)'
    BY <2>4, <2>5 DEF InHand, Saving
  <2>7. Reader(t)'
    <3> SUFFICES ASSUME task[t].digest \notin disturbed
                 PROVE  /\ task[t].size = Size /\ data'[file] = Content
                        /\ \A u \in Tasks : At(u, "copy")' => task'[u].fd # file
                        /\ \A e \in Digests \ {task[t].digest} : file \notin Named(e)'
      BY <1>1, <2>4, <2>5 DEF Reader
    <3>1. Alone(task[t].digest) /\ file = final[task[t].digest] /\ file # NoFile
      BY <1>2, <1>5 DEF Inv, file
    <3>2. UNCHANGED <<tmp, final, data>> /\ file \in Named(task[t].digest)
      BY <1>1, <3>1 DEF files, Named
    <3>3. task[t].size = Size /\ data'[file] = Content
      BY <1>1, <3>1, <3>2 DEF Inv, Readers, Reader, Alone
    <3>4. \A e \in Digests \ {task[t].digest} : file \notin Named(e)'
      BY <1>2, <3>2 DEF Inv, Apart, Named
    <3>5. ASSUME NEW u \in Tasks, At(u, "copy")' PROVE task'[u].fd # file
      <4>1. u # t /\ task'[u] = task[u]
        BY <1>1, <2>4, <2>5, <3>5, Others DEF At
      <4>2. CASE task[u].digest = task[t].digest
        <5>1. u \in Savers(task[t].digest)
          BY <3>5, <4>1, <4>2 DEF Savers, Saving, At
        <5> QED
          BY <3>1, <3>5, <4>1, <5>1 DEF Alone, SaveOf, At
      <4>3. CASE task[u].digest # task[t].digest
        BY <1>2, <3>2, <3>5, <4>1, <4>3 DEF Inv, Apart, At
      <4> QED
        BY <4>1, <4>2, <4>3
    <3> QED
      BY <3>3, <3>4, <3>5
  <2> QED
    BY <1>1, <1>2, <1>3, <2>4, <2>5, <2>6, <2>7, Reads DEF Saving
<1>6. CASE final[task[t].digest] = NoFile /\ ~Answer(t)
  <2> DEFINE new == [task[t] EXCEPT !.step = "exists", !.op = "fetch"]
  <2>1. task' = [task EXCEPT ![t].step = "exists", ![t].op = "fetch"]
    BY <1>6 DEF Get
  <2>3. task' = [task EXCEPT ![t] = new]
    BY <1>1, <2>1 DEF TypeOK
  <2>4. /\ new \in Task /\ new.step = "exists" /\ new.digest \in Digests /\ new.op = "fetch"
        /\ new.fd = NoFile /\ new.got = <<>>
    BY <1>1, <1>2 DEF Task, Steps, Ops
  <2> HIDE DEF new
  <2>5. Moves(t) /\ task'[t] = new
    BY <1>1, <2>3, <2>4, NewRecord
  <2>6. InHand(t)'
    BY <2>4, <2>5 DEF InHand, Saving
  <2> QED
    BY <1>1, <1>2, <1>3, <2>4, <2>5, <2>6, Reads DEF Saving
<1> QED
  BY <1>4, <1>5, <1>6

LEMMA ReadKeeps ==
    ASSUME Inv, NEW t \in Tasks, Read(t)
    PROVE  Inv'
<1>1. InHand(t) /\ task[t].step = "read" /\ budget' \in Budget
  BY DEF Inv, TypeOK, Read, At
<1>2. task[t].op = "pull" /\ task[t].step \notin Saving
  BY <1>1 DEF InHand, Saving
<1> QED
  BY <1>1, <1>2, AnswersKeep DEF Read

-----------------------------------------------------------------------------
(* Tags, and deleting *)

\* A tag names a manifest once the media type of the manifest is beside it.
LEMMA TruncateKeeps ==
    ASSUME Inv, NEW t \in Tasks, Truncate(t)
    PROVE  Inv'
<1>1. TypeOK /\ InHand(t) /\ task[t].step = "truncate" /\ budget \in Budget
      /\ UNCHANGED <<files, disturbed>> /\ tags' = [tags EXCEPT ![task[t].tag] = Torn]
  BY DEF Inv, TypeOK, Truncate, At
<1>2. task[t].op = "push" /\ task[t].tag \in Tags /\ task[t].digest \in Digests
     
  BY <1>1 DEF InHand
<1>3. budget' \in Budget
  BY <1>1, FaultTyped DEF Truncate
<1>4. /\ Moves(t) /\ InHand(t)' /\ task'[t].step \in {"tag", "idle"}
      /\ task'[t].step = "tag" => task'[t].digest = task[t].digest
  <2>1. CASE GoTo(t, "tag")
    <3>1. "tag" \in Steps
      BY DEF Steps
    <3>2. /\ Moves(t) /\ task'[t].step = "tag" /\ task'[t].op = "push"
          /\ task'[t].digest = task[t].digest /\ task'[t].tag = task[t].tag
      BY <1>1, <1>2, <2>1, <3>1, GoesTo
    <3> QED
      BY <1>2, <3>2 DEF InHand, Saving
  <2>2. CASE Answer(t)
    BY <1>1, <1>2, <2>2, Answers
  <2> QED
    BY <2>1, <2>2 DEF Truncate
<1>5. RestTyped'
  BY <1>1, <1>3, Typed DEF RestTyped, files
<1>6. \A u \in Tasks : u # t => task'[u] = task[u]
  BY <1>1, <1>4, Others
<1>7. ASSUME NEW e \in Digests
      PROVE  t \notin Savers(e) /\ t \notin Savers(e)' /\ (Tagged(e)' => Tagged(e))
  <2>1. t \notin Savers(e) /\ t \notin Savers(e)'
    BY <1>1, <1>4 DEF Savers, Saving
  <2>2. \A g \in Tags : tags'[g] = e => tags[g] = e
    BY <1>1, <1>2, RegistryAssumption DEF TypeOK
  <2>3. \A u \in Tasks : task'[u].digest = e /\ task'[u].step \in {"truncate", "tag"}
                            => task[u].digest = e /\ task[u].step \in {"truncate", "tag"}
    BY <1>1, <1>4, <1>6
  <2> QED
    BY <2>1, <2>2, <2>3 DEF Tagged
<1>8. \A e \in Digests : Named(e)' = Named(e)
  BY <1>1 DEF Named, files
<1>9. ~At(t, "copy")' /\ UNCHANGED <<tmp, final, media, data>> /\ disturbed \subseteq disturbed'
  BY <1>1, <1>4 DEF At, files
<1> QED
  BY <1>4, <1>5, <1>7, <1>8, <1>9, Bystander

LEMMA WriteTagKeeps ==
    ASSUME Inv, NEW t \in Tasks, WriteTag(t)
    PROVE  Inv'
<1>1. TypeOK /\ InHand(t) /\ task[t].step = "tag" /\ budget' \in Budget
      /\ UNCHANGED <<files, disturbed>>
      /\ tags' = [tags EXCEPT ![task[t].tag] = task[t].digest] /\ Answer(t)
  BY DEF Inv, TypeOK, WriteTag, At
<1>2. task[t].op = "push" /\ task[t].tag \in Tags /\ task[t].digest \in Digests
  BY <1>1 DEF InHand
<1>3. Moves(t) /\ InHand(t)' /\ task'[t].step = "idle"
  BY <1>1, <1>2, Answers
<1>4. RestTyped'
  BY <1>1, <1>2, Typed DEF RestTyped, files
<1>5. \A u \in Tasks : u # t => task'[u] = task[u]
  BY <1>1, <1>3, Others
<1>6. ASSUME NEW e \in Digests
      PROVE  t \notin Savers(e) /\ t \notin Savers(e)' /\ (Tagged(e)' => Tagged(e))
  <2>1. t \notin Savers(e) /\ t \notin Savers(e)'
    BY <1>1, <1>3 DEF Savers, Saving
  <2>2. \A g \in Tags : tags'[g] = e => tags[g] = e \/ task[t].digest = e
    BY <1>1, <1>2 DEF TypeOK
  <2>3. \A u \in Tasks : task'[u].digest = e /\ task'[u].step \in {"truncate", "tag"}
                            => task[u].digest = e /\ task[u].step \in {"truncate", "tag"}
    BY <1>1, <1>3, <1>5
  <2> QED
    BY <1>1, <2>1, <2>2, <2>3 DEF Tagged
<1>7. \A e \in Digests : Named(e)' = Named(e)
  BY <1>1 DEF Named, files
<1>8. ~At(t, "copy")' /\ UNCHANGED <<tmp, final, media, data>> /\ disturbed \subseteq disturbed'
  BY <1>1, <1>3 DEF At, files
<1> QED
  BY <1>3, <1>4, <1>6, <1>7, <1>8, Bystander

LEMMA UntagKeeps ==
    ASSUME Inv, NEW t \in Tasks, Untag(t)
    PROVE  Inv'
<1>1. TypeOK /\ InHand(t) /\ task[t].step = "untag" /\ budget \in Budget
      /\ UNCHANGED <<files, disturbed>>
      /\ tags' \in {tags, [tags EXCEPT ![task[t].tag] = NoDigest]} /\ GoTo(t, "read_tag")
  BY DEF Inv, TypeOK, Untag, At
<1>2. task[t].op = "delete" /\ task[t].tag \in Tags /\ task[t].digest \in disturbed
      /\ task[t].left \subseteq Tags
  BY <1>1 DEF InHand
<1>3. budget' \in Budget
  BY <1>1, FaultTyped DEF Untag
<1>4. Moves(t) /\ InHand(t)' /\ task'[t].step = "read_tag"
  <2>1. "read_tag" \in Steps
    BY DEF Steps
  <2>2. /\ Moves(t) /\ task'[t].step = "read_tag" /\ task'[t].op = "delete"
        /\ task'[t].digest = task[t].digest /\ task'[t].left = task[t].left
    BY <1>1, <1>2, <2>1, GoesTo
  <2> QED
    BY <1>1, <1>2, <2>2 DEF InHand, Saving, TypeOK
<1>5. RestTyped'
  BY <1>1, <1>2, <1>3, Typed DEF RestTyped, files
<1>6. \A u \in Tasks : u # t => task'[u] = task[u]
  BY <1>1, <1>4, Others
<1>7. ASSUME NEW e \in Digests
      PROVE  t \notin Savers(e) /\ t \notin Savers(e)' /\ (Tagged(e)' => Tagged(e))
  <2>1. t \notin Savers(e) /\ t \notin Savers(e)'
    BY <1>1, <1>4 DEF Savers, Saving
  <2>2. \A g \in Tags : tags'[g] = e => tags[g] = e
    BY <1>1, <1>2, RegistryAssumption DEF TypeOK
  <2>3. \A u \in Tasks : task'[u].digest = e /\ task'[u].step \in {"truncate", "tag"}
                            => task[u].digest = e /\ task[u].step \in {"truncate", "tag"}
    BY <1>1, <1>4, <1>6
  <2> QED
    BY <2>1, <2>2, <2>3 DEF Tagged
<1>8. \A e \in Digests : Named(e)' = Named(e)
  BY <1>1 DEF Named, files
<1>9. ~At(t, "copy")' /\ UNCHANGED <<tmp, final, media, data>> /\ disturbed \subseteq disturbed'
  BY <1>1, <1>4 DEF At, files
<1> QED
  BY <1>4, <1>5, <1>7, <1>8, <1>9, Bystander

\* A request to delete goes on with what it has left to do.
LEMMA DeleteGoesOn ==
    ASSUME Inv, NEW t \in Tasks, task[t].op = "delete", task[t].digest \in disturbed,
           NEW step \in {"delete", "read_tag", "untag"}, NEW left, NEW g \in Tags \cup {NoTag},
           left \subseteq IF step = "delete" THEN Entries ELSE Tags,
           step = "untag" => g \in Tags,
           task' = [task EXCEPT ![t] = [task[t] EXCEPT !.step = step, !.left = left, !.tag = g]],
           UNCHANGED disturbed
    PROVE  Moves(t) /\ InHand(t)' /\ task'[t].step = step
<1> DEFINE new == [task[t] EXCEPT !.step = step, !.left = left, !.tag = g]
<1>1. TypeOK /\ task[t] \in Task /\ disturbed \subseteq Digests
  BY DEF Inv, TypeOK
<1>2. step \in Steps /\ left \in SUBSET (Entries \cup Tags)
  BY DEF Steps
<1>3. task' = [task EXCEPT ![t] = new]
  OBVIOUS
<1>4. /\ new \in Task /\ new.step = step /\ new.left = left /\ new.tag = g /\ new.op = "delete"
      /\ new.digest = task[t].digest
  BY <1>1, <1>2 DEF Task
<1> HIDE DEF new
<1>5. Moves(t) /\ task'[t] = new
  BY <1>1, <1>3, <1>4, NewRecord
<1> QED
  BY <1>1, <1>4, <1>5 DEF InHand, Saving

LEMMA ListKeeps ==
    ASSUME Inv, NEW t \in Tasks, List(t)
    PROVE  Inv'
<1>1. TypeOK /\ InHand(t) /\ task[t].step = "list" /\ task[t] \in Task /\ budget' \in Budget
      /\ UNCHANGED <<files, tags, disturbed>> /\ disturbed \subseteq Digests
  BY DEF Inv, TypeOK, List, At
<1>2. task[t].op = "delete" /\ task[t].digest \in disturbed
      /\ task[t].step \notin Saving
  BY <1>1 DEF InHand, Saving
<1>3. CASE Answer(t)
  BY <1>1, <1>2, <1>3, AnswersKeep
<1>4. CASE ~Answer(t)
  <2>1. PICK there \in SUBSET Entries :
           task' = [task EXCEPT ![t].step = "delete", ![t].left = there]
    BY <1>4 DEF List
  <2>2. task' = [task EXCEPT ![t] = [task[t] EXCEPT !.step = "delete", !.left = there,
                                                    !.tag = task[t].tag]]
    BY <1>1, <2>1 DEF TypeOK, Task
  <2>3. task[t].tag \in Tags \cup {NoTag}
    BY <1>1 DEF Task
  <2>4. Moves(t) /\ InHand(t)' /\ task'[t].step = "delete"
    BY <1>1, <1>2, <2>2, <2>3, DeleteGoesOn
  <2> QED
    BY <1>1, <1>2, <2>4, Reads DEF Saving
<1> QED
  BY <1>3, <1>4

LEMMA ListTagsKeeps ==
    ASSUME Inv, NEW t \in Tasks, ListTags(t)
    PROVE  Inv'
<1>1. TypeOK /\ InHand(t) /\ task[t].step = "delete" /\ task[t] \in Task /\ budget' \in Budget
      /\ UNCHANGED <<files, tags, disturbed>> /\ disturbed \subseteq Digests
  BY DEF Inv, TypeOK, ListTags, At
<1>2. task[t].op = "delete" /\ task[t].digest \in disturbed
      /\ task[t].step \notin Saving
  BY <1>1 DEF InHand, Saving
<1>3. PICK there \in SUBSET Tags :
         task' = [task EXCEPT ![t].step = "read_tag", ![t].left = there]
  BY DEF ListTags
<1>4. task' = [task EXCEPT ![t] = [task[t] EXCEPT !.step = "read_tag", !.left = there,
                                                  !.tag = task[t].tag]]
  BY <1>1, <1>3 DEF TypeOK, Task
<1>5. task[t].tag \in Tags \cup {NoTag}
  BY <1>1 DEF Task
<1>6. Moves(t) /\ InHand(t)' /\ task'[t].step = "read_tag"
  BY <1>1, <1>2, <1>4, <1>5, DeleteGoesOn
<1> QED
  BY <1>1, <1>2, <1>6, Reads DEF Saving

LEMMA ReadTagKeeps ==
    ASSUME Inv, NEW t \in Tasks, ReadTag(t)
    PROVE  Inv'
<1>1. TypeOK /\ InHand(t) /\ task[t].step = "read_tag" /\ task[t] \in Task /\ budget' \in Budget
      /\ UNCHANGED <<files, tags, disturbed>> /\ disturbed \subseteq Digests
  BY DEF Inv, TypeOK, ReadTag, At
<1>2. task[t].op = "delete" /\ task[t].digest \in disturbed
      /\ task[t].step \notin Saving /\ task[t].left \subseteq Tags
  BY <1>1 DEF InHand, Saving
<1>3. CASE Answer(t)
  BY <1>1, <1>2, <1>3, AnswersKeep
<1>4. CASE ~Answer(t)
  <2>1. PICK g \in task[t].left :
            task' = [task EXCEPT ![t].left = @ \ {g}, ![t].tag = g,
                                 ![t].step = IF tags[g] = task[t].digest THEN "untag" ELSE @]
    BY <1>4 DEF ReadTag
  <2>2. PICK step \in {"read_tag", "untag"} :
            task' = [task EXCEPT ![t] = [task[t] EXCEPT !.step = step,
                                             !.left = task[t].left \ {g}, !.tag = g]]
    BY <1>1, <2>1 DEF TypeOK, Task
  <2>3. g \in Tags /\ task[t].left \ {g} \subseteq Tags
    BY <1>2
  <2> DEFINE left == task[t].left \ {g}
  <2>5. /\ left \subseteq IF step = "delete" THEN Entries ELSE Tags
        /\ g \in Tags \cup {NoTag} /\ UNCHANGED disturbed
        /\ step \in {"delete", "read_tag", "untag"} /\ (step = "untag" => g \in Tags)
    BY <1>1, <2>3
  <2>6. task' = [task EXCEPT ![t] = [task[t] EXCEPT !.step = step, !.left = left, !.tag = g]]
    BY <2>2
  <2> HIDE DEF left
  <2>4. Moves(t) /\ InHand(t)' /\ task'[t].step = step
    BY <1>2, <2>5, <2>6, DeleteGoesOn
  <2> QED
    BY <1>1, <1>2, <2>2, <2>4, Reads DEF Saving
<1> QED
  BY <1>3, <1>4

\* What is deleted is a file of a digest that has been counted as disturbed.
LEMMA DeleteKeeps ==
    ASSUME Inv, NEW t \in Tasks, Delete(t)
    PROVE  Inv'
<1>1. TypeOK /\ InHand(t) /\ task[t].step = "delete" /\ task[t] \in Task /\ budget \in Budget
      /\ UNCHANGED <<data, tags, disturbed>> /\ disturbed \subseteq Digests
  BY DEF Inv, TypeOK, Delete, At
<1>2. task[t].op = "delete" /\ task[t].digest \in disturbed
      /\ task[t].step \notin Saving /\ task[t].left \subseteq Entries
  BY <1>1 DEF InHand, Saving
<1>3. budget' \in Budget
  BY <1>1, FaultTyped DEF Delete
<1>4. CASE Answer(t) /\ UNCHANGED <<tmp, final, media>>
  BY <1>1, <1>2, <1>3, <1>4, AnswersKeep DEF files
<1>5. CASE ~(Answer(t) /\ UNCHANGED <<tmp, final, media>>)
  <2> DEFINE d == task[t].digest
  <2>1. PICK x \in task[t].left :
              /\ tmp' = IF x = "tmp" THEN [tmp EXCEPT ![d] = NoFile] ELSE tmp
              /\ final' = IF x = "final" THEN [final EXCEPT ![d] = NoFile] ELSE final
              /\ media' = IF x = "media" THEN [media EXCEPT ![d] = FALSE] ELSE media
              /\ task' = [task EXCEPT ![t].left = @ \ {x}]
    BY <1>5 DEF Delete
  <2>2. task' = [task EXCEPT ![t] = [task[t] EXCEPT !.step = "delete",
                                         !.left = task[t].left \ {x}, !.tag = task[t].tag]]
    BY <1>1, <2>1 DEF TypeOK, Task
  <2>3. task[t].tag \in Tags \cup {NoTag} /\ task[t].left \ {x} \subseteq Entries
    BY <1>1, <1>2 DEF Task
  <2>4. Moves(t) /\ InHand(t)' /\ task'[t].step = "delete"
    BY <1>1, <1>2, <2>2, <2>3, DeleteGoesOn
  <2>5. d \in Digests /\ d \in disturbed
    BY <1>1, <1>2
  <2>6. RestTyped'
    <3>1. tmp' \in [Digests -> Files \cup {NoFile}]
      BY <1>1, <2>1, <2>5 DEF TypeOK
    <3>2. final' \in [Digests -> Files \cup {NoFile}]
      BY <1>1, <2>1, <2>5 DEF TypeOK
    <3>3. media' \in [Digests -> BOOLEAN]
      BY <1>1, <2>1, <2>5 DEF TypeOK
    <3> QED
      BY <1>1, <1>3, <3>1, <3>2, <3>3 DEF RestTyped, TypeOK
  <2>7. \A u \in Tasks : u # t => task'[u] = task[u]
    BY <1>1, <2>4, Others
  <2>8. ASSUME NEW e \in Digests
        PROVE  /\ Named(e)' \subseteq Named(e)
               /\ e # d => tmp'[e] = tmp[e] /\ final'[e] = final[e] /\ media'[e] = media[e]
    <3>1. tmp'[e] \in {tmp[e], NoFile} /\ (e # d => tmp'[e] = tmp[e])
      BY <1>1, <2>1, <2>5 DEF TypeOK
    <3>2. final'[e] \in {final[e], NoFile} /\ (e # d => final'[e] = final[e])
      BY <1>1, <2>1, <2>5 DEF TypeOK
    <3>3. e # d => media'[e] = media[e]
      BY <1>1, <2>1, <2>5 DEF TypeOK
    <3> QED
      BY <3>1, <3>2, <3>3 DEF Named
  <2>9. ASSUME NEW e \in Digests
        PROVE  t \notin Savers(e) /\ t \notin Savers(e)' /\ (Tagged(e)' => Tagged(e))
    <3>1. t \notin Savers(e) /\ t \notin Savers(e)'
      BY <1>1, <2>4 DEF Savers, Saving
    <3>2. Tagged(e)' => Tagged(e)
      BY <1>1, <2>4, <2>7 DEF Tagged
    <3> QED
      BY <3>1, <3>2
  <2>10. ~At(t, "copy")' /\ disturbed \subseteq disturbed' /\ \A e \in Digests \ disturbed' : e # d
    BY <1>1, <2>4, <2>5 DEF At
  <2> QED
    BY <1>1, <2>4, <2>6, <2>8, <2>9, <2>10, Bystander
<1> QED
  BY <1>4, <1>5

-----------------------------------------------------------------------------
(* Saving *)

\* A step of a save concerns no other digest.
LEMMA SavesKeep ==
    ASSUME Inv, NEW t \in Tasks, NEW d \in Digests, task[t].digest = d,
           Moves(t), InHand(t)', RestTyped', disturbed \subseteq disturbed', Apart', Readers',
           UNCHANGED tags, task'[t].digest \in {d, NoDigest},
           \A e \in Digests \ {d} :
               /\ tmp'[e] = tmp[e] /\ final'[e] = final[e] /\ media'[e] = media[e]
               /\ \A f \in Named(e) : data'[f] = data[f],
           d \notin disturbed' => Alone(d)' /\ Shown(d)'
    PROVE  Inv'
<1>1. \A u \in Tasks : u # t => task'[u] = task[u]
  BY Others DEF Inv
<1>2. ASSUME NEW e \in Digests \ disturbed', e # d PROVE Alone(e)' /\ Shown(e)'
  <2>1. t \notin Savers(e) /\ t \notin Savers(e)'
    BY <1>2, RegistryAssumption DEF Savers
  <2>2. Tagged(e)' => Tagged(e)
    BY <1>1, <1>2, RegistryAssumption DEF Tagged
  <2>3. Unconcerned(t, e) /\ e \in Digests \ disturbed
    BY <1>2, <2>1, <2>2 DEF Unconcerned
  <2> QED
    BY <2>3, StaysAlone
<1> QED
  BY <1>2, Keeps

\* The save of a digest that is alone goes on, or ends with all or with nothing.
SaveGoesOn(t, d) ==
    /\ final'[d] # NoFile => data'[final'[d]] = Content
    /\ task'[t].step \in Saving => task'[t].digest = d /\ SaveOf(task[t], d)'
    /\ task'[t].step \notin Saving => tmp'[d] = NoFile /\ (media'[d] <=> final'[d] # NoFile)
    /\ task'[t].step \in {"truncate", "tag"} => final'[d] # NoFile

LEMMA SaveKeeps ==
    ASSUME Inv, NEW t \in Tasks, NEW d \in Digests, task[t].digest = d, task[t].step \in Saving,
           Moves(t), InHand(t)', RestTyped', disturbed \subseteq disturbed', Apart', Readers',
           UNCHANGED tags, task'[t].digest \in {d, NoDigest},
           \A e \in Digests \ {d} :
               /\ tmp'[e] = tmp[e] /\ final'[e] = final[e] /\ media'[e] = media[e]
               /\ \A f \in Named(e) : data'[f] = data[f],
           d \notin disturbed' /\ SaveOf(task[t], d) /\ (final[d] # NoFile => data[final[d]] = Content)
               => SaveGoesOn(t, d)
    PROVE  Inv'
<1>1. \A u \in Tasks : u # t => task'[u] = task[u]
  BY Others DEF Inv
<1>2. ASSUME d \notin disturbed' PROVE Alone(d)' /\ Shown(d)'
  <2>1. Alone(d) /\ Shown(d) /\ t \in Savers(d)
    BY <1>2 DEF Inv, Savers
  <2>2. /\ SaveOf(task[t], d) /\ (final[d] # NoFile => data[final[d]] = Content)
        /\ \A u \in Savers(d) : u = t
    BY <2>1 DEF Alone
  <2>3. ~media[d] /\ ~Tagged(d)
    BY <2>1, <2>2 DEF SaveOf, Shown
  <2>4. SaveGoesOn(t, d)
    BY <1>2, <2>2
  <2>5. \A u \in Tasks : u \in Savers(d)' => u = t /\ task'[t].step \in Saving
    BY <1>1, <2>2 DEF Savers
  <2>6. Savers(d)' \subseteq Tasks
    BY DEF Savers
  <2>7. Savers(d)' = {} => task'[t].step \notin Saving
    BY <2>4 DEF Savers, SaveGoesOn
  <2>8. \A u \in Savers(d)' : SaveOf(task[u], d)'
    BY <2>4, <2>5, <2>6 DEF SaveGoesOn
  <2>9. Alone(d)'
    BY <2>4, <2>5, <2>6, <2>7, <2>8 DEF SaveGoesOn, Alone
  <2>10. Tagged(d)' => task'[t].step \in {"truncate", "tag"}
    BY <1>1, <2>3 DEF Tagged
  <2>11. Shown(d)'
    BY <2>4, <2>10 DEF Shown, SaveGoesOn, Saving
  <2> QED
    BY <2>9, <2>11
<1> QED
  BY <1>2, SavesKeep

LEMMA ExistsKeeps ==
    ASSUME Inv, NEW t \in Tasks, Exists(t)
    PROVE  Inv'
<1>0. task[t].digest \in Digests
  BY DEF Inv, InHand, Exists, At
<1> PICK d \in Digests : task[t].digest = d
  BY <1>0
<1>1. /\ TypeOK /\ InHand(t) /\ task[t].step = "exists" /\ disturbed \subseteq Digests
      /\ UNCHANGED <<tmp, final, media, data, tags, budget>>
      /\ IF final[d] # NoFile THEN SaveEnds(t, TRUE) ELSE GoTo(t, "open")
      /\ disturbed' = IF Crowded(t, d) THEN disturbed \cup {d} ELSE disturbed
  BY DEF Inv, TypeOK, Exists, At, files
<1>2. task[t].got = <<>> /\ task[t].op \in {"fetch", "push"}
      /\ task[t].fd = NoFile /\ task[t].step \notin Saving
  BY <1>1 DEF InHand, Saving
<1>3. RestTyped' /\ disturbed \subseteq disturbed'
  <2>1. disturbed' \subseteq Digests /\ disturbed \subseteq disturbed'
    BY <1>1, <1>2
  <2> QED
    BY <1>1, <2>1, Typed DEF RestTyped
<1>4. /\ Moves(t) /\ InHand(t)' /\ task'[t].digest \in {d, NoDigest}
      /\ task'[t].step \in {"idle", "truncate", "open"}
      /\ task'[t].step = "open" => final[d] = NoFile /\ task'[t].digest = d
      /\ task'[t].step = "truncate" => final[d] # NoFile
  <2>1. CASE final[d] # NoFile
    <3>1. SaveEnds(t, TRUE)
      BY <1>1, <2>1
    <3> QED
      BY <1>1, <1>2, <2>1, <3>1, SaveEndsIs
  <2>2. CASE final[d] = NoFile
    <3>1. GoTo(t, "open") /\ "open" \in Steps
      BY <1>1, <2>2 DEF Steps, Saving
    <3>2. /\ Moves(t) /\ task'[t].step = "open" /\ task'[t].op = task[t].op
          /\ task'[t].digest = d /\ task'[t].fd = NoFile /\ task'[t].got = <<>>
      BY <1>1, <1>2, <3>1, GoesTo
    <3> QED
      BY <1>2, <2>2, <3>2 DEF InHand, Saving
  <2> QED
    BY <2>1, <2>2
<1>5. \A u \in Tasks : u # t => task'[u] = task[u]
  BY <1>1, <1>4, Others
<1>6. Apart' /\ Readers'
  <2>1. ~At(t, "copy")' /\ \A e \in Digests : Named(e)' = Named(e)
    BY <1>1, <1>4 DEF At, Named
  <2> QED
    BY <1>1, <1>4, <2>1, ApartStays, ReadersStay DEF Inv
<1>7. ASSUME d \notin disturbed' PROVE Alone(d)' /\ Shown(d)'
  <2>1. ~Crowded(t, d) /\ d \notin disturbed
    BY <1>1, <1>2, <1>7
  <2>2. Savers(d) = {} /\ Alone(d) /\ Shown(d)
    BY <1>1, <1>2, <2>1 DEF Savers, Crowded, Inv
  <2>3. tmp[d] = NoFile /\ (media[d] <=> final[d] # NoFile)
        /\ (final[d] # NoFile => data[final[d]] = Content)
    BY <2>2 DEF Alone
  <2>4. \A u \in Tasks : u \in Savers(d)' => u = t /\ task'[t].step = "open"
    BY <1>4, <1>5, <2>2 DEF Savers, Saving
  <2>5. Savers(d)' \subseteq Tasks
    BY DEF Savers
  <2>6. \A u \in Savers(d)' : SaveOf(task[u], d)'
    BY <1>1, <1>4, <2>3, <2>4, <2>5 DEF SaveOf
  <2>7. Alone(d)'
    BY <1>1, <2>3, <2>4, <2>5, <2>6 DEF Alone
  <2>8. Tagged(d)' => Tagged(d) \/ task'[t].step = "truncate"
    BY <1>1, <1>4, <1>5 DEF Tagged
  <2>9. Shown(d)'
    BY <1>1, <1>4, <2>2, <2>3, <2>8 DEF Shown
  <2> QED
    BY <2>7, <2>9
<1>8. \A e \in Digests : /\ tmp'[e] = tmp[e] /\ final'[e] = final[e] /\ media'[e] = media[e]
                         /\ \A f \in Named(e) : data'[f] = data[f]
  BY <1>1
<1> QED
  BY <1>1, <1>3, <1>4, <1>6, <1>7, <1>8, SavesKeep

LEMMA Saver ==
    ASSUME Inv, NEW t \in Tasks, task[t].step \in Saving
    PROVE  /\ TypeOK /\ InHand(t) /\ task[t] \in Task /\ task[t].digest \in Digests
           /\ task[t].op \in {"fetch", "push"}
           /\ budget \in Budget /\ disturbed \subseteq Digests
<1>1. TypeOK /\ InHand(t) /\ task[t] \in Task /\ budget \in Budget /\ disturbed \subseteq Digests
  BY DEF Inv, TypeOK
<1> QED
  BY <1>1 DEF InHand, Saving

\* A save that goes on with its next step.
LEMMA SaverGoesTo ==
    ASSUME Inv, NEW t \in Tasks, task[t].step \in Saving,
           NEW step \in Saving \ {"open", "copy"}, GoTo(t, step), disturbed \subseteq disturbed',
           step = "rename" => task[t].fd \in Files,
           step \in {"rename", "media"} => task[t].got = Content
    PROVE  /\ Moves(t) /\ InHand(t)' /\ task'[t].step = step
           /\ task'[t].digest = task[t].digest
           /\ task'[t].fd = task[t].fd /\ task'[t].got = task[t].got
<1>1. step \in Steps
  BY DEF Steps
<1>2. TypeOK /\ task[t].digest \in Digests /\ task[t].op \in {"fetch", "push"}
     
  BY Saver
<1>3. /\ Moves(t) /\ task'[t].step = step /\ task'[t].op = task[t].op
      /\ task'[t].digest = task[t].digest /\ task'[t].fd = task[t].fd
      /\ task'[t].got = task[t].got
  BY <1>1, <1>2, GoesTo
<1> QED
  BY <1>2, <1>3 DEF InHand, Saving

LEMMA CopyFailsKeeps ==
    ASSUME Inv, NEW t \in Tasks, CopyFails(t)
    PROVE  Inv'
<1>1. /\ task[t].step = "copy" /\ task[t].step \in Saving /\ Fault /\ GoTo(t, "unlink")
      /\ UNCHANGED <<tmp, final, media, data, tags, disturbed>>
  BY DEF CopyFails, At, Saving, files
<1>2. PICK d \in Digests : task[t].digest = d
  BY <1>1, Saver
<1>3. TypeOK
  BY <1>1, Saver
<1>4. Moves(t) /\ InHand(t)' /\ task'[t].step = "unlink" /\ task'[t].digest = d
  BY <1>1, <1>2, SaverGoesTo DEF Saving
<1>5. budget' \in Budget /\ RestTyped'
  BY <1>1, <1>3, FaultTyped, Typed DEF RestTyped
<1>6. Apart' /\ Readers'
  <2>1. ~At(t, "copy")' /\ \A e \in Digests : Named(e)' = Named(e)
    BY <1>1, <1>4 DEF At, Named
  <2> QED
    BY <1>1, <1>3, <1>4, <2>1, ApartStays, ReadersStay DEF Inv
<1>7. SaveOf(task[t], d) /\ (final[d] # NoFile => data[final[d]] = Content) => SaveGoesOn(t, d)
  BY <1>1, <1>4 DEF SaveOf, SaveGoesOn, Saving
<1> QED
  BY <1>1, <1>2, <1>4, <1>5, <1>6, <1>7, SaveKeeps

\* The digest of what was read decides whether the file is served.
LEMMA VerifyKeeps ==
    ASSUME Inv, NEW t \in Tasks, Verify(t)
    PROVE  Inv'
<1>1. /\ task[t].step = "copy" /\ task[t].step \in Saving
      /\ UNCHANGED <<tmp, final, media, data, tags, disturbed, budget>>
  BY DEF Verify, At, Saving, files
<1>2. PICK d \in Digests : task[t].digest = d
  BY <1>1, Saver
<1>3. TypeOK /\ task[t].fd \in Files
  BY <1>1, Saver DEF InHand
<1>4. PICK step \in {"rename", "clean_tmp"} :
         GoTo(t, step) /\ (step = "rename" => task[t].got = Content)
  BY DEF Verify
<1>5. /\ Moves(t) /\ InHand(t)' /\ task'[t].step = step /\ task'[t].digest = d
      /\ task'[t].fd = task[t].fd /\ task'[t].got = task[t].got
  BY <1>1, <1>2, <1>3, <1>4, SaverGoesTo DEF Saving
<1>6. RestTyped'
  BY <1>1, <1>3, Typed DEF RestTyped
<1>7. Apart' /\ Readers'
  <2>1. ~At(t, "copy")' /\ \A e \in Digests : Named(e)' = Named(e)
    BY <1>1, <1>5 DEF At, Named
  <2> QED
    BY <1>1, <1>3, <1>5, <2>1, ApartStays, ReadersStay DEF Inv
<1>8. SaveOf(task[t], d) /\ (final[d] # NoFile => data[final[d]] = Content) => SaveGoesOn(t, d)
  BY <1>1, <1>5 DEF SaveOf, SaveGoesOn, Saving
<1> QED
  BY <1>1, <1>2, <1>5, <1>6, <1>7, <1>8, SaveKeeps

LEMMA UnlinkKeeps ==
    ASSUME Inv, NEW t \in Tasks, Unlink(t)
    PROVE  Inv'
<1>1. /\ task[t].step = "unlink" /\ task[t].step \in Saving /\ GoTo(t, "clean_tmp")
      /\ tmp' = [tmp EXCEPT ![task[t].digest] = NoFile] \/ UNCHANGED tmp
      /\ UNCHANGED budget \/ Fault
      /\ UNCHANGED <<final, media, data, tags, disturbed>>
  BY DEF Unlink, At, Saving
<1>2. PICK d \in Digests : task[t].digest = d
  BY <1>1, Saver
<1>3. TypeOK /\ budget' \in Budget
  BY <1>1, Saver, FaultTyped
<1>4. Moves(t) /\ InHand(t)' /\ task'[t].step = "clean_tmp" /\ task'[t].digest = d
  BY <1>1, <1>2, SaverGoesTo DEF Saving
<1>5. tmp'[d] \in {tmp[d], NoFile} /\ \A e \in Digests \ {d} : tmp'[e] = tmp[e]
  BY <1>1, <1>2, <1>3 DEF TypeOK
<1>6. RestTyped'
  BY <1>1, <1>3, Typed DEF RestTyped
<1>7. Apart' /\ Readers'
  <2>1. ~At(t, "copy")' /\ \A e \in Digests : Named(e)' \subseteq Named(e)
    BY <1>1, <1>4, <1>5 DEF At, Named
  <2> QED
    BY <1>1, <1>3, <1>4, <2>1, ApartStays, ReadersStay DEF Inv
<1>8. SaveOf(task[t], d) /\ (final[d] # NoFile => data[final[d]] = Content) => SaveGoesOn(t, d)
  BY <1>1, <1>4, <1>5 DEF SaveOf, SaveGoesOn, Saving
<1> QED
  BY <1>1, <1>2, <1>4, <1>5, <1>6, <1>7, <1>8, SaveKeeps

LEMMA CleanTmpKeeps ==
    ASSUME Inv, NEW t \in Tasks, CleanTmp(t)
    PROVE  Inv'
<1>1. /\ task[t].step = "clean_tmp" /\ task[t].step \in Saving /\ GoTo(t, "clean_final")
      /\ tmp' = [tmp EXCEPT ![task[t].digest] = NoFile]
      /\ UNCHANGED <<final, media, data, tags, disturbed, budget>>
  BY DEF CleanTmp, At, Saving
<1>2. PICK d \in Digests : task[t].digest = d
  BY <1>1, Saver
<1>3. TypeOK
  BY <1>1, Saver
<1>4. Moves(t) /\ InHand(t)' /\ task'[t].step = "clean_final" /\ task'[t].digest = d
  BY <1>1, <1>2, SaverGoesTo DEF Saving
<1>5. tmp'[d] = NoFile /\ \A e \in Digests \ {d} : tmp'[e] = tmp[e]
  BY <1>1, <1>2, <1>3 DEF TypeOK
<1>6. RestTyped'
  BY <1>1, <1>3, Typed DEF RestTyped
<1>7. Apart' /\ Readers'
  <2>1. ~At(t, "copy")' /\ \A e \in Digests : Named(e)' \subseteq Named(e)
    BY <1>1, <1>4, <1>5 DEF At, Named
  <2> QED
    BY <1>1, <1>3, <1>4, <2>1, ApartStays, ReadersStay DEF Inv
<1>8. SaveOf(task[t], d) /\ (final[d] # NoFile => data[final[d]] = Content) => SaveGoesOn(t, d)
  BY <1>1, <1>4, <1>5 DEF SaveOf, SaveGoesOn, Saving
<1> QED
  BY <1>1, <1>2, <1>4, <1>5, <1>6, <1>7, <1>8, SaveKeeps

LEMMA CleanFinalKeeps ==
    ASSUME Inv, NEW t \in Tasks, CleanFinal(t)
    PROVE  Inv'
<1>1. /\ task[t].step = "clean_final" /\ task[t].step \in Saving /\ GoTo(t, "clean_media")
      /\ final' = [final EXCEPT ![task[t].digest] = NoFile]
      /\ UNCHANGED <<tmp, media, data, tags, disturbed, budget>>
  BY DEF CleanFinal, At, Saving
<1>2. PICK d \in Digests : task[t].digest = d
  BY <1>1, Saver
<1>3. TypeOK
  BY <1>1, Saver
<1>4. Moves(t) /\ InHand(t)' /\ task'[t].step = "clean_media" /\ task'[t].digest = d
  BY <1>1, <1>2, SaverGoesTo DEF Saving
<1>5. final'[d] = NoFile /\ \A e \in Digests \ {d} : final'[e] = final[e]
  BY <1>1, <1>2, <1>3 DEF TypeOK
<1>6. RestTyped'
  BY <1>1, <1>3, Typed DEF RestTyped
<1>7. Apart' /\ Readers'
  <2>1. ~At(t, "copy")' /\ \A e \in Digests : Named(e)' \subseteq Named(e)
    BY <1>1, <1>4, <1>5 DEF At, Named
  <2> QED
    BY <1>1, <1>3, <1>4, <2>1, ApartStays, ReadersStay DEF Inv
<1>8. SaveOf(task[t], d) /\ (final[d] # NoFile => data[final[d]] = Content) => SaveGoesOn(t, d)
  BY <1>1, <1>4, <1>5 DEF SaveOf, SaveGoesOn, Saving
<1> QED
  BY <1>1, <1>2, <1>4, <1>5, <1>6, <1>7, <1>8, SaveKeeps

LEMMA CleanMediaKeeps ==
    ASSUME Inv, NEW t \in Tasks, CleanMedia(t)
    PROVE  Inv'
<1>1. /\ task[t].step = "clean_media" /\ task[t].step \in Saving /\ SaveEnds(t, FALSE)
      /\ media' = [media EXCEPT ![task[t].digest] = FALSE]
      /\ UNCHANGED <<tmp, final, data, tags, disturbed, budget>>
  BY DEF CleanMedia, At, Saving
<1>2. PICK d \in Digests : task[t].digest = d
  BY <1>1, Saver
<1>3. TypeOK
  BY <1>1, Saver
<1>4. Moves(t) /\ InHand(t)' /\ task'[t].step = "idle" /\ task'[t].digest \in {d, NoDigest}
  BY <1>1, SaveEndsIs
<1>5. media'[d] = FALSE /\ \A e \in Digests \ {d} : media'[e] = media[e]
  BY <1>1, <1>2, <1>3 DEF TypeOK
<1>6. RestTyped'
  BY <1>1, <1>3, Typed DEF RestTyped
<1>7. Apart' /\ Readers'
  <2>1. ~At(t, "copy")' /\ \A e \in Digests : Named(e)' \subseteq Named(e)
    BY <1>1, <1>4 DEF At, Named
  <2> QED
    BY <1>1, <1>3, <1>4, <2>1, ApartStays, ReadersStay DEF Inv
<1>8. SaveOf(task[t], d) /\ (final[d] # NoFile => data[final[d]] = Content) => SaveGoesOn(t, d)
  BY <1>1, <1>4, <1>5 DEF SaveOf, SaveGoesOn, Saving
<1> QED
  BY <1>1, <1>2, <1>4, <1>5, <1>6, <1>7, <1>8, SaveKeeps

\* Cleaning up that fails leaves the digest disturbed.
LEMMA CleanFailsKeeps ==
    ASSUME Inv, NEW t \in Tasks, CleanFails(t)
    PROVE  Inv'
<1>1. /\ task[t].step \in Saving /\ Fault
      /\ GoTo(t, "clean_tmp") \/ SaveEnds(t, FALSE)
      /\ disturbed' = disturbed \cup {task[t].digest}
      /\ UNCHANGED <<tmp, final, media, data, tags>>
  BY DEF CleanFails, Saving, files
<1>2. PICK d \in Digests : task[t].digest = d
  BY <1>1, Saver
<1>3. TypeOK /\ budget' \in Budget /\ disturbed' \subseteq Digests
  BY <1>1, Saver, FaultTyped
<1>4. /\ Moves(t) /\ InHand(t)' /\ task'[t].step \in {"clean_tmp", "idle"}
      /\ task'[t].digest \in {d, NoDigest}
  <2>1. CASE GoTo(t, "clean_tmp")
    BY <1>1, <1>2, <2>1, SaverGoesTo DEF Saving
  <2>2. CASE SaveEnds(t, FALSE)
    BY <1>1, <1>2, <2>2, SaveEndsIs
  <2> QED
    BY <1>1, <2>1, <2>2
<1>5. RestTyped'
  BY <1>1, <1>3, Typed DEF RestTyped
<1>6. Apart' /\ Readers'
  <2>1. ~At(t, "copy")' /\ \A e \in Digests : Named(e)' \subseteq Named(e)
    BY <1>1, <1>4 DEF At, Named
  <2> QED
    BY <1>1, <1>3, <1>4, <2>1, ApartStays, ReadersStay DEF Inv
<1>7. \A e \in Digests \ {d} : /\ tmp'[e] = tmp[e] /\ final'[e] = final[e] /\ media'[e] = media[e]
                               /\ \A f \in Named(e) : data'[f] = data[f]
  BY <1>1
<1>8. disturbed \subseteq disturbed' /\ d \in disturbed' /\ UNCHANGED tags
  BY <1>1, <1>2
<1> QED
  BY <1>2, <1>4, <1>5, <1>6, <1>7, <1>8, SavesKeep

\* A media type is written to a file that is there, unless the digest is disturbed.
LEMMA WriteMediaKeeps ==
    ASSUME Inv, NEW t \in Tasks, WriteMedia(t)
    PROVE  Inv'
<1>1. /\ task[t].step = "media" /\ task[t].step \in Saving
      /\ UNCHANGED <<tmp, final, data, tags, disturbed>>
  BY DEF WriteMedia, At, Saving
<1>2. PICK d \in Digests : task[t].digest = d
  BY <1>1, Saver
<1>3. TypeOK /\ budget \in Budget /\ task[t].got = Content
  BY <1>1, Saver DEF InHand
<1>4. budget' \in Budget
  BY <1>3, FaultTyped DEF WriteMedia
<1>5. /\ Moves(t) /\ InHand(t)' /\ task'[t].digest \in {d, NoDigest}
      /\ \/ task'[t].step \in {"idle", "truncate"} /\ media' = [media EXCEPT ![d] = TRUE]
         \/ task'[t].step = "clean_tmp" /\ task'[t].digest = d /\ media' = media
  <2>1. CASE media' = [media EXCEPT ![task[t].digest] = TRUE] /\ SaveEnds(t, TRUE)
    BY <1>1, <1>2, <1>3, <2>1, SaveEndsIs
  <2>2. CASE GoTo(t, "clean_tmp") /\ UNCHANGED media
    BY <1>1, <1>2, <2>2, SaverGoesTo DEF Saving
  <2> QED
    BY <2>1, <2>2 DEF WriteMedia
<1>6. /\ \A e \in Digests \ {d} : media'[e] = media[e]
      /\ media' \in [Digests -> BOOLEAN]
      /\ task'[t].step # "clean_tmp" => media'[d]
      /\ task'[t].step = "clean_tmp" => media'[d] = media[d]
  BY <1>3, <1>5 DEF TypeOK
<1>7. RestTyped'
  BY <1>1, <1>3, <1>4, <1>6, Typed DEF RestTyped
<1>8. Apart' /\ Readers'
  <2>1. ~At(t, "copy")' /\ \A e \in Digests : Named(e)' \subseteq Named(e)
    BY <1>1, <1>5 DEF At, Named
  <2> QED
    BY <1>1, <1>3, <1>5, <2>1, ApartStays, ReadersStay DEF Inv
<1>9. SaveOf(task[t], d) /\ (final[d] # NoFile => data[final[d]] = Content) => SaveGoesOn(t, d)
  BY <1>1, <1>5, <1>6 DEF SaveOf, SaveGoesOn, Saving
<1> QED
  BY <1>1, <1>2, <1>5, <1>6, <1>7, <1>8, <1>9, SaveKeeps

\* What is served has the chunks that were verified, unless the digest is disturbed.
LEMMA RenameKeeps ==
    ASSUME Inv, NEW t \in Tasks, Rename(t)
    PROVE  Inv'
<1>1. /\ task[t].step = "rename" /\ task[t].step \in Saving
      /\ UNCHANGED <<media, data, tags, disturbed, budget>>
  BY DEF Rename, At, Saving
<1>2. PICK d \in Digests : task[t].digest = d
  BY <1>1, Saver
<1>3. TypeOK /\ task[t].got = Content /\ task[t].fd \in Files
  BY <1>1, Saver DEF InHand
<1>4. IF tmp[d] = NoFile
      THEN GoTo(t, "clean_tmp") /\ UNCHANGED <<tmp, final>>
      ELSE /\ final' = [final EXCEPT ![d] = tmp[d]] /\ tmp' = [tmp EXCEPT ![d] = NoFile]
           /\ GoTo(t, "media")
  BY <1>2 DEF Rename
<1>5. /\ Moves(t) /\ InHand(t)' /\ task'[t].digest = d
      /\ task'[t].step = IF tmp[d] = NoFile THEN "clean_tmp" ELSE "media"
  BY <1>1, <1>2, <1>3, <1>4, SaverGoesTo DEF Saving
<1>6. /\ \A e \in Digests \ {d} : tmp'[e] = tmp[e] /\ final'[e] = final[e]
      /\ tmp' \in [Digests -> Files \cup {NoFile}] /\ final' \in [Digests -> Files \cup {NoFile}]
      /\ tmp[d] = NoFile => tmp' = tmp /\ final' = final
      /\ tmp[d] # NoFile => tmp'[d] = NoFile /\ final'[d] = tmp[d]
  BY <1>3, <1>4 DEF TypeOK
<1>7. RestTyped'
  BY <1>1, <1>3, <1>6, Typed DEF RestTyped
<1>8. Apart' /\ Readers'
  <2>1. ~At(t, "copy")'
    BY <1>5 DEF At
  <2>2. \A e \in Digests : Named(e)' \subseteq Named(e)
    BY <1>6 DEF Named
  <2> QED
    BY <1>1, <1>3, <1>5, <2>1, <2>2, ApartStays, ReadersStay DEF Inv
<1>9. SaveOf(task[t], d) /\ (final[d] # NoFile => data[final[d]] = Content) => SaveGoesOn(t, d)
  <2> SUFFICES ASSUME SaveOf(task[t], d) PROVE SaveGoesOn(t, d)
    OBVIOUS
  <2>1. tmp[d] = task[t].fd /\ data[tmp[d]] = Content /\ tmp[d] # NoFile /\ ~media[d]
    BY <1>1, <1>3, Numbers DEF SaveOf
  <2> QED
    BY <1>1, <1>5, <1>6, <2>1 DEF SaveOf, SaveGoesOn, Saving
<1> QED
  BY <1>1, <1>2, <1>5, <1>6, <1>7, <1>8, <1>9, SaveKeeps

\* The values of a function on a finite set are no more than its arguments.
LEMMA Values ==
    ASSUME NEW S, IsFiniteSet(S), NEW fn, fn = [x \in S |-> fn[x]]
    PROVE  /\ IsFiniteSet({fn[x] : x \in S})
           /\ Cardinality({fn[x] : x \in S}) <= Cardinality(S)
<1> DEFINE T == {fn[x] : x \in S}
<1>1. fn \in Surjection(S, T)
  BY DEF Surjection
<1> HIDE DEF T
<1>2. IsFiniteSet(T) /\ Cardinality(T) <= Cardinality(S)
  BY <1>1, FS_Surjection
<1> QED
  BY <1>2 DEF T

\* A name for each digest twice and an open file for each request leave a file that does
\* not live, as one request has none open.
LEMMA ThereIsFresh ==
    ASSUME Inv, NEW t \in Tasks, task[t].fd = NoFile
    PROVE  Fresh \in Files /\ ~Lives(Fresh)
<1> DEFINE fds == [u \in Tasks |-> task[u].fd]
           A == {tmp[d] : d \in Digests}
           B == {final[d] : d \in Digests}
           C == {fds[u] : u \in Tasks}
           D == Cardinality(Digests)
           T == Cardinality(Tasks)
<1>1. IsFiniteSet(Digests) /\ IsFiniteSet(Tasks) /\ D \in Nat /\ T \in Nat
  BY RegistryAssumption, Numbers
<1>2. IsFiniteSet(A) /\ Cardinality(A) <= D
  <2>1. tmp = [d \in Digests |-> tmp[d]]
    BY DEF Inv, TypeOK
  <2> QED
    BY <1>1, <2>1, Values
<1>3. IsFiniteSet(B) /\ Cardinality(B) <= D
  <2>1. final = [d \in Digests |-> final[d]]
    BY DEF Inv, TypeOK
  <2> QED
    BY <1>1, <2>1, Values
<1>4. IsFiniteSet(C) /\ Cardinality(C) <= T
  <2>1. fds = [u \in Tasks |-> fds[u]]
    OBVIOUS
  <2> HIDE DEF fds
  <2> QED
    BY <1>1, <2>1, Values
<1>5. \A f : Lives(f) <=> f \in A \cup B \cup C
  BY DEF Lives
<1>6. NoFile \in C
  OBVIOUS
<1> HIDE DEF A, B, C, D, T, fds
<1>7. IsFiniteSet(A \cup B) /\ Cardinality(A \cup B) <= 2 * D
  <2>1. /\ IsFiniteSet(A \cup B)
        /\ Cardinality(A \cup B) = Cardinality(A) + Cardinality(B) - Cardinality(A \cap B)
    BY <1>2, <1>3, FS_Union
  <2>2. IsFiniteSet(A \cap B)
    BY <1>2, FS_Subset
  <2>3. Cardinality(A) \in Nat /\ Cardinality(B) \in Nat /\ Cardinality(A \cap B) \in Nat
    BY <1>2, <1>3, <2>2, FS_CardinalityType
  <2> QED
    BY <1>1, <1>2, <1>3, <2>1, <2>3
<1>8. IsFiniteSet(A \cup B \cup C) /\ Cardinality(A \cup B \cup C) <= 2 * D + T
  <2> DEFINE AB == A \cup B
  <2>1. IsFiniteSet(AB) /\ Cardinality(AB) <= 2 * D
    BY <1>7
  <2> HIDE DEF AB
  <2>2. /\ IsFiniteSet(AB \cup C)
        /\ Cardinality(AB \cup C) = Cardinality(AB) + Cardinality(C) - Cardinality(AB \cap C)
    BY <1>4, <2>1, FS_Union
  <2>3. IsFiniteSet(AB \cap C)
    BY <1>4, FS_Subset
  <2>4. Cardinality(AB) \in Nat /\ Cardinality(C) \in Nat /\ Cardinality(AB \cap C) \in Nat
    BY <1>4, <2>1, <2>3, FS_CardinalityType
  <2>5. Cardinality(AB \cup C) <= 2 * D + T
    BY <1>1, <1>4, <2>1, <2>2, <2>4
  <2> QED
    BY <2>2, <2>5 DEF AB
<1>9. IsFiniteSet(Files \cup {NoFile}) /\ Cardinality(Files \cup {NoFile}) = 2 * D + T + 1
  <2> DEFINE n == 2 * D + T
  <2>1. n \in Nat /\ Files = 1..n /\ NoFile \notin Files
    BY <1>1, Numbers DEF Files, D, T
  <2> HIDE DEF n
  <2>2. IsFiniteSet(Files) /\ Cardinality(Files) = n
    BY <2>1, FS_Interval
  <2>3. /\ IsFiniteSet(Files \cup {NoFile})
        /\ Cardinality(Files \cup {NoFile}) = Cardinality(Files) + 1
    BY <2>1, <2>2, FS_AddElement
  <2> QED
    BY <2>2, <2>3 DEF n
<1>10. \E f \in Files : ~Lives(f)
  <2> SUFFICES ASSUME \A f \in Files : Lives(f) PROVE FALSE
    OBVIOUS
  <2>1. Files \cup {NoFile} \subseteq A \cup B \cup C
    BY <1>5, <1>6
  <2>2. Cardinality(Files \cup {NoFile}) <= Cardinality(A \cup B \cup C)
    BY <1>8, <2>1, FS_Subset
  <2>3. Cardinality(A \cup B \cup C) \in Nat
    BY <1>8, FS_CardinalityType
  <2> QED
    BY <1>1, <1>8, <1>9, <2>2, <2>3
<1> QED
  BY <1>10 DEF Fresh

LEMMA CreateKeeps ==
    ASSUME Inv, NEW t \in Tasks, Create(t)
    PROVE  Inv'
<1>1. /\ task[t].step = "open" /\ task[t].step \in Saving
      /\ UNCHANGED <<final, media, tags, budget>>
  BY DEF Create, At, Saving
<1>2. PICK d \in Digests : task[t].digest = d
  BY <1>1, Saver
<1>3. TypeOK /\ InHand(t) /\ task[t] \in Task /\ disturbed \subseteq Digests
      /\ task[t].op \in {"fetch", "push"} /\ task[t].fd = NoFile
  BY <1>1, Saver DEF InHand
<1>4. PICK f \in Files :
         /\ f = IF tmp[d] = NoFile THEN Fresh ELSE tmp[d]
         /\ tmp[d] = NoFile => ~Lives(f)
  BY <1>3, ThereIsFresh DEF TypeOK
<1> DEFINE new == [task[t] EXCEPT !.step = "copy", !.fd = f, !.got = <<>>]
<1>5. /\ tmp' = [tmp EXCEPT ![d] = f]
      /\ data' = [g \in Files |-> IF Lives(g) THEN data[g] ELSE <<>>]
      /\ task' = [task EXCEPT ![t].step = "copy", ![t].fd = f, ![t].got = <<>>]
      /\ disturbed' = IF final[d] # NoFile \/ Crowded(t, d)
                      THEN disturbed \cup {d} ELSE disturbed
  BY <1>2, <1>4 DEF Create
<1>6. task' = [task EXCEPT ![t] = new]
  BY <1>3, <1>5 DEF TypeOK
<1>7. /\ new \in Task /\ new.step = "copy" /\ new.fd = f /\ new.got = <<>> /\ new.digest = d
      /\ new.op = task[t].op
  <2>1. <<>> \in Seq(0..Size) /\ "copy" \in Steps
    BY DEF Steps, Saving
  <2> QED
    BY <1>2, <1>3, <2>1 DEF Task
<1> HIDE DEF new
<1>8. Moves(t) /\ task'[t] = new
  BY <1>3, <1>6, <1>7, NewRecord
<1>9. disturbed \subseteq disturbed' /\ disturbed' \subseteq Digests
      /\ (d \notin disturbed' => final[d] = NoFile)
  BY <1>3, <1>5
<1>10. InHand(t)'
  BY <1>3, <1>7, <1>8 DEF InHand, Saving
<1>11. /\ tmp' \in [Digests -> Files \cup {NoFile}]
       /\ tmp'[d] = f /\ \A e \in Digests \ {d} : tmp'[e] = tmp[e]
  BY <1>3, <1>5 DEF TypeOK
<1>12. data' \in [Files -> Seq(0..Size)] /\ \A g \in Files : Lives(g) => data'[g] = data[g]
  <2>1. data \in [Files -> Seq(0..Size)] /\ <<>> \in Seq(0..Size)
    BY <1>3 DEF TypeOK
  <2>2. \A g \in Files : (IF Lives(g) THEN data[g] ELSE <<>>) \in Seq(0..Size)
    BY <2>1
  <2> QED
    BY <1>5, <2>2
<1>13. RestTyped'
  BY <1>1, <1>3, <1>9, <1>11, <1>12, Typed DEF RestTyped
<1>14. \A e \in Digests \ {d} : /\ tmp'[e] = tmp[e] /\ final'[e] = final[e]
                                /\ media'[e] = media[e]
                                /\ \A g \in Named(e) : data'[g] = data[g]
  <2>1. ASSUME NEW e \in Digests, NEW g \in Named(e) PROVE g \in Files /\ Lives(g)
    BY <1>3 DEF Named, Lives, TypeOK
  <2> QED
    BY <1>1, <1>11, <1>12, <2>1
<1>15. \A e \in Digests \ {d} : f \notin Named(e) /\ Named(e)' = Named(e)
  <2>1. ASSUME NEW e \in Digests \ {d} PROVE f \notin Named(e)
    <3>1. CASE tmp[d] = NoFile
      BY <1>4, <3>1 DEF Named, Lives
    <3>2. CASE tmp[d] # NoFile
      <4>1. f \in Named(d)
        BY <1>4, <3>2, Numbers DEF Named
      <4> QED
        BY <4>1 DEF Inv, Apart
    <3> QED
      BY <3>1, <3>2
  <2> QED
    BY <1>1, <1>11, <2>1 DEF Named
<1>16. Named(d)' \subseteq Named(d) \cup {f}
  BY <1>1, <1>11 DEF Named
<1>17. \A u \in Tasks : u # t => task'[u] = task[u]
  BY <1>3, <1>8, Others
<1>18. Apart'
  <2>1. ASSUME NEW x \in Digests, NEW e \in Digests, x # e PROVE Named(x)' \cap Named(e)' = {}
    <3>1. Named(x) \cap Named(e) = {}
      BY <2>1 DEF Inv, Apart
    <3> QED
      BY <1>15, <1>16, <2>1, <3>1
  <2>2. ASSUME NEW u \in Tasks, NEW e \in Digests, At(u, "copy")', task'[u].digest # e
        PROVE  task'[u].fd \notin Named(e)'
    <3>1. CASE u = t
      BY <1>7, <1>8, <1>15, <2>2, <3>1
    <3>2. CASE u # t
      <4>1. task[u].fd \notin Named(e) /\ task'[u] = task[u]
        BY <1>17, <2>2, <3>2 DEF Inv, Apart, At
      <4>2. task[u].fd = f => e # d
        <5>1. SUFFICES ASSUME task[u].fd = f, e = d PROVE FALSE
          OBVIOUS
        <5>2. Lives(f)
          BY <5>1 DEF Lives
        <5>3. f \in Named(d)
          BY <1>4, <5>2, Numbers DEF Named
        <5> QED
          BY <4>1, <5>1, <5>3
      <4> QED
        BY <1>15, <1>16, <4>1, <4>2
    <3> QED
      BY <3>1, <3>2
  <2> QED
    BY <2>1, <2>2 DEF Apart
<1>19. d \notin disturbed' /\ SaveOf(task[t], d) /\ (final[d] # NoFile => data[final[d]] = Content)
         => SaveGoesOn(t, d)
  <2> SUFFICES ASSUME d \notin disturbed', SaveOf(task[t], d) PROVE SaveGoesOn(t, d)
    OBVIOUS
  <2>1. final[d] = NoFile /\ tmp[d] = NoFile /\ ~media[d] /\ ~Lives(f)
    BY <1>1, <1>4, <1>9 DEF SaveOf
  <2>2. data'[f] = <<>>
    BY <1>5, <2>1
  <2> QED
    BY <1>1, <1>7, <1>8, <1>11, <2>1, <2>2 DEF SaveOf, SaveGoesOn, Saving
<1>20. d \in Digests /\ UNCHANGED tags /\ task'[t].digest \in {d, NoDigest}
  BY <1>1, <1>7, <1>8
<1>21. Readers'
  <2>1. ASSUME NEW u \in Tasks, u # t, At(u, "read"), task[u].digest \notin disturbed'
        PROVE  /\ data'[task[u].fd] = data[task[u].fd] /\ f # task[u].fd
               /\ \A e \in Digests \ {task[u].digest} : task[u].fd \notin Named(e)'
    <3>1. /\ task[u].fd \in Files /\ Lives(task[u].fd) /\ task[u].digest \notin disturbed
          /\ \A e \in Digests \ {task[u].digest} : task[u].fd \notin Named(e)
      BY <1>9, <2>1 DEF Inv, InHand, Readers, Reader, At, Lives
    <3>2. f # task[u].fd
      <4>1. CASE tmp[d] = NoFile
        BY <1>4, <3>1, <4>1
      <4>2. CASE tmp[d] # NoFile /\ task[u].digest # d
        <5>1. f \in Named(d)
          BY <1>4, <4>2 DEF Named
        <5> QED
          BY <3>1, <4>2, <5>1
      <4>3. CASE tmp[d] # NoFile /\ task[u].digest = d
        <5>1. Alone(d) /\ t \in Savers(d)
          BY <1>1, <1>2, <3>1, <4>3 DEF Inv, Savers
        <5> QED
          BY <1>1, <4>3, <5>1 DEF Alone, SaveOf
      <4> QED
        BY <4>1, <4>2, <4>3
    <3> QED
      BY <1>12, <1>15, <1>16, <3>1, <3>2
  <2> QED
    BY <1>3, <1>7, <1>8, <1>9, <2>1, ReadersSee DEF Inv
<1> QED
  BY <1>1, <1>2, <1>21, <1>8, <1>9, <1>10, <1>13, <1>14, <1>18, <1>19, <1>20, SaveKeeps

\* A chunk is appended to a file that has no name of another digest.
LEMMA CopyKeeps ==
    ASSUME Inv, NEW t \in Tasks, Copy(t)
    PROVE  Inv'
<1>1. /\ task[t].step = "copy" /\ task[t].step \in Saving /\ Len(task[t].got) < Size
      /\ UNCHANGED <<tmp, final, media, tags, disturbed>>
  BY DEF Copy, At, Saving
<1>2. PICK d \in Digests : task[t].digest = d
  BY <1>1, Saver
<1>3. TypeOK /\ InHand(t) /\ task[t] \in Task /\ budget \in Budget
      /\ task[t].op \in {"fetch", "push"} /\ task[t].fd \in Files
  BY <1>1, Saver DEF InHand
<1>4. PICK c \in {Len(task[t].got) + 1, Wrong} :
         /\ IF c = Wrong THEN task[t].op = "fetch" /\ Fault ELSE UNCHANGED budget
         /\ data' = [data EXCEPT ![task[t].fd] = Append(@, c)]
         /\ task' = [task EXCEPT ![t].got = Append(@, c)]
  BY DEF Copy
<1>5. c \in 0..Size /\ task[t].got \in Seq(0..Size)
  <2>1. task[t].got \in Seq(0..Size) /\ Len(task[t].got) \in Nat
    BY <1>3 DEF Task
  <2> QED
    BY <1>1, <2>1, Numbers DEF Wrong
<1> DEFINE new == [task[t] EXCEPT !.got = Append(task[t].got, c)]
<1>6. task' = [task EXCEPT ![t] = new]
  BY <1>3, <1>4 DEF TypeOK
<1>7. /\ new \in Task /\ new.step = "copy" /\ new.fd = task[t].fd /\ new.digest = d
      /\ new.op = task[t].op /\ new.got = Append(task[t].got, c)
  <2>1. Append(task[t].got, c) \in Seq(0..Size)
    BY <1>5
  <2> QED
    BY <1>1, <1>2, <1>3, <2>1 DEF Task
<1> HIDE DEF new
<1>8. Moves(t) /\ task'[t] = new
  BY <1>3, <1>6, <1>7, NewRecord
<1>9. InHand(t)'
  BY <1>2, <1>3, <1>7, <1>8 DEF InHand, Saving
<1>10. budget' \in Budget
  BY <1>3, <1>4, FaultTyped
<1>11. /\ data' \in [Files -> Seq(0..Size)]
       /\ data'[task[t].fd] = Append(data[task[t].fd], c)
       /\ \A g \in Files : g # task[t].fd => data'[g] = data[g]
  <2>1. data \in [Files -> Seq(0..Size)] /\ data[task[t].fd] \in Seq(0..Size)
    BY <1>3 DEF TypeOK
  <2>2. Append(data[task[t].fd], c) \in Seq(0..Size)
    BY <1>5, <2>1
  <2> QED
    BY <1>3, <1>4, <2>1, <2>2
<1>12. RestTyped'
  BY <1>1, <1>3, <1>10, <1>11, Typed DEF RestTyped
<1>13. Apart'
  <2>1. \A e \in Digests : Named(e)' \subseteq Named(e)
    BY <1>1 DEF Named
  <2>2. At(t, "copy") /\ task'[t].fd = task[t].fd /\ task'[t].digest = task[t].digest
    BY <1>1, <1>2, <1>7, <1>8 DEF At
  <2> QED
    BY <1>1, <1>3, <1>8, <2>1, <2>2, ApartStays DEF Inv
<1>14. \A e \in Digests \ {d} : \A g \in Named(e) : data'[g] = data[g]
  <2> SUFFICES ASSUME NEW e \in Digests \ {d}, NEW g \in Named(e) PROVE data'[g] = data[g]
    OBVIOUS
  <2>1. g \in Files
    BY <1>3 DEF Named, TypeOK
  <2>2. g # task[t].fd
    BY <1>1, <1>2 DEF Inv, Apart, At
  <2> QED
    BY <1>11, <2>1, <2>2
<1>15. SaveOf(task[t], d) => SaveGoesOn(t, d)
  <2> SUFFICES ASSUME SaveOf(task[t], d) PROVE SaveGoesOn(t, d)
    OBVIOUS
  <2>1. /\ ~media[d] /\ final[d] = NoFile /\ tmp[d] = task[t].fd
        /\ data[task[t].fd] = task[t].got
    BY <1>1 DEF SaveOf
  <2> QED
    BY <1>1, <1>7, <1>8, <1>11, <2>1 DEF SaveOf, SaveGoesOn, Saving
<1>16. \A e \in Digests \ {d} : /\ tmp'[e] = tmp[e] /\ final'[e] = final[e]
                                /\ media'[e] = media[e]
                                /\ \A g \in Named(e) : data'[g] = data[g]
  BY <1>1, <1>14
<1>17. Readers'
  <2>1. ASSUME NEW u \in Tasks, u # t, At(u, "read"), task[u].digest \notin disturbed'
        PROVE  /\ data'[task[u].fd] = data[task[u].fd] /\ task[t].fd # task[u].fd
               /\ \A e \in Digests \ {task[u].digest} : task[u].fd \notin Named(e)'
    <3>1. /\ task[u].fd \in Files /\ task[u].fd # task[t].fd
          /\ \A e \in Digests \ {task[u].digest} : task[u].fd \notin Named(e)
      BY <1>1, <2>1 DEF Inv, InHand, Readers, Reader, At
    <3> QED
      BY <1>1, <1>11, <3>1 DEF Named
  <2> QED
    BY <1>1, <1>3, <1>7, <1>8, <2>1, ReadersSee DEF Inv
<1> QED
  BY <1>1, <1>2, <1>17, <1>7, <1>8, <1>9, <1>12, <1>13, <1>15, <1>16, SaveKeeps

-----------------------------------------------------------------------------
(* The end of resin, and the theorems *)

\* A save that was cut off leaves a digest that is counted as disturbed.
LEMMA RestartKeeps ==
    ASSUME Inv, Restart
    PROVE  Inv'
<1>1. /\ UNCHANGED <<tmp, final, media, data, tags>> /\ task' = [t \in Tasks |-> Idle]
      /\ disturbed' = disturbed \cup {task[t].digest : t \in {u \in Tasks : task[u].step \in Saving}}
      /\ budget.restarts > 0 /\ budget' = [budget EXCEPT !.restarts = @ - 1]
  BY DEF Restart, files
<1>2. TypeOK /\ Apart /\ \A t \in Tasks : InHand(t)
  BY DEF Inv
<1>3. task' \in [Tasks -> Task] /\ \A t \in Tasks : task'[t] = Idle
  BY <1>1, IdleTyped
<1>4. budget' \in Budget
  <2>1. budget \in Budget /\ MaxRestarts \in Nat
    BY <1>2, RegistryAssumption DEF TypeOK
  <2>2. budget.restarts - 1 \in 0..MaxRestarts
    BY <1>1, <2>1 DEF Budget
  <2> QED
    BY <1>1, <2>1, <2>2 DEF Budget
<1>5. disturbed' \subseteq Digests
  BY <1>1, <1>2 DEF TypeOK, InHand, Saving
<1>6. TypeOK'
  BY <1>1, <1>2, <1>3, <1>4, <1>5, Typed, TypedNext DEF RestTyped
<1>7. \A t \in Tasks : InHand(t)'
  BY <1>3, IdleTyped DEF InHand, Saving
<1>8. Apart'
  <2>1. \A e \in Digests : Named(e)' = Named(e)
    BY <1>1 DEF Named
  <2>2. \A t \in Tasks : ~At(t, "copy")'
    BY <1>3, IdleTyped DEF At
  <2> QED
    BY <1>2, <2>1, <2>2 DEF Apart
<1>9. ASSUME NEW e \in Digests \ disturbed' PROVE Alone(e)' /\ Shown(e)'
  <2>1. Alone(e) /\ Shown(e)
    BY <1>1 DEF Inv
  <2>2. Savers(e) = {}
    BY <1>1 DEF Savers
  <2>3. Savers(e)' = {}
    BY <1>3, IdleTyped DEF Savers, Saving
  <2>4. /\ tmp[e] = NoFile /\ (media[e] <=> final[e] # NoFile)
        /\ (final[e] # NoFile => data[final[e]] = Content)
    BY <2>1, <2>2 DEF Alone
  <2>5. Alone(e)'
    BY <1>1, <2>3, <2>4 DEF Alone
  <2>6. Tagged(e)' => Tagged(e)
    BY <1>1, <1>3, IdleTyped DEF Tagged
  <2> QED
    BY <1>1, <2>1, <2>5, <2>6 DEF Shown
<1>10. Readers'
  BY <1>3, IdleTyped DEF Readers, Reader
<1> QED
  BY <1>6, <1>7, <1>8, <1>9, <1>10 DEF Inv

LEMMA InitInv == Init => Inv
<1> SUFFICES ASSUME Init PROVE Inv
  OBVIOUS
<1>1. /\ tmp = [d \in Digests |-> NoFile] /\ final = [d \in Digests |-> NoFile]
      /\ media = [d \in Digests |-> FALSE] /\ data = [f \in Files |-> <<>>]
      /\ tags = [g \in Tags |-> NoDigest] /\ task = [t \in Tasks |-> Idle] /\ disturbed = {}
      /\ budget = [requests |-> MaxRequests, faults |-> MaxFaults, restarts |-> MaxRestarts]
  BY DEF Init
<1>2. TypeOK
  <2>1. budget \in Budget
    BY <1>1, RegistryAssumption DEF Budget
  <2>2. data \in [Files -> Seq(0..Size)]
    BY <1>1
  <2> QED
    BY <1>1, <2>1, <2>2, IdleTyped DEF TypeOK
<1>3. \A t \in Tasks : task[t] = Idle
  BY <1>1
<1>4. \A t \in Tasks : InHand(t)
  BY <1>3, IdleTyped DEF InHand, Saving
<1>5. Apart
  BY <1>1, <1>3, IdleTyped DEF Apart, Named, At
<1>6. ASSUME NEW e \in Digests PROVE Alone(e) /\ Shown(e)
  <2>1. Savers(e) = {}
    BY <1>3, IdleTyped DEF Savers, Saving
  <2>2. Alone(e)
    BY <1>1, <2>1 DEF Alone
  <2>3. ~Tagged(e)
    BY <1>1, <1>3, IdleTyped, RegistryAssumption DEF Tagged
  <2> QED
    BY <2>2, <2>3 DEF Shown
<1>7. Readers
  BY <1>3, IdleTyped DEF Readers, Reader
<1> QED
  BY <1>2, <1>4, <1>5, <1>6, <1>7 DEF Inv

LEMMA StutterKeeps == Inv /\ UNCHANGED vars => Inv'
<1> SUFFICES ASSUME Inv, UNCHANGED vars PROVE Inv'
  OBVIOUS
<1>1. UNCHANGED <<tmp, final, media, data, tags, task, disturbed, budget>>
  BY DEF vars
<1>2. TypeOK'
  BY <1>1 DEF Inv, TypeOK
<1>3. \A e \in Digests : Named(e)' = Named(e)
  BY <1>1 DEF Named
<1>4. Apart'
  BY <1>1, <1>3 DEF Inv, Apart, At
<1>5. \A t \in Tasks : InHand(t)'
  BY <1>1 DEF Inv, InHand
<1>6. ASSUME NEW e \in Digests \ disturbed' PROVE Alone(e)' /\ Shown(e)'
  <2>1. Alone(e) /\ Shown(e)
    BY <1>1 DEF Inv
  <2>2. Savers(e)' = Savers(e)
    BY <1>1 DEF Savers
  <2>3. \A t : SaveOf(task[t], e) <=> SaveOf(task[t], e)'
    BY <1>1 DEF SaveOf
  <2>4. Tagged(e)' = Tagged(e)
    BY <1>1 DEF Tagged
  <2> QED
    BY <1>1, <2>1, <2>2, <2>3, <2>4 DEF Alone, Shown
<1>7. Readers'
  BY <1>1, <1>3 DEF Inv, Readers, Reader, At
<1> QED
  BY <1>2, <1>4, <1>5, <1>6, <1>7 DEF Inv

LEMMA NextInv == Inv /\ [Next]_vars => Inv'
<1> SUFFICES ASSUME Inv, [Next]_vars PROVE Inv'
  OBVIOUS
<1>1. CASE Restart
  BY <1>1, RestartKeeps
<1>2. CASE UNCHANGED vars
  BY <1>2, StutterKeeps
<1>3. ASSUME NEW t \in Tasks, Begin(t) PROVE Inv'
  BY <1>3, BeginKeeps
<1>4. ASSUME NEW t \in Tasks, Step(t) PROVE Inv'
  BY <1>4, ResolveKeeps, StatsKeeps, GetKeeps, ReadKeeps, ExistsKeeps, CreateKeeps, CopyKeeps,
     CopyFailsKeeps, UnlinkKeeps, VerifyKeeps, RenameKeeps, WriteMediaKeeps, CleanTmpKeeps,
     CleanFinalKeeps, CleanMediaKeeps, CleanFailsKeeps, TruncateKeeps, WriteTagKeeps, ListKeeps, DeleteKeeps,
     ListTagsKeeps, ReadTagKeeps, UntagKeeps DEF Step
<1> QED
  BY <1>1, <1>2, <1>3, <1>4 DEF Next

LEMMA Invariant == Spec => []Inv
BY InitInv, NextInv, PTL DEF Spec

\* The variables have their types: among them, no save copies a chunk past the last of its
\* body, and a file to write to can always be created.
THEOREM TypeCorrect == Spec => []TypeOK
<1>1. Inv => TypeOK
  BY DEF Inv
<1> QED
  BY <1>1, Invariant, PTL

\* A digest whose saves came one after another, and each to its end, is served whole,
\* whatever else was saved, deleted or lost at the time.
THEOREM WholeCorrect == Spec => []WholeWhenAlone
<1>1. Inv => WholeWhenAlone
  BY DEF Inv, Alone, WholeWhenAlone
<1> QED
  BY <1>1, Invariant, PTL

\* A request that reads a digest that is undisturbed is answered with the whole body,
\* whatever was replaced, cleaned up or saved between its calls.
THEOREM ReadCorrect == Spec => []ReadIsWhole
<1>1. Inv => ReadIsWhole
  BY DEF Inv, Readers, Reader, ReadIsWhole, At
<1> QED
  BY <1>1, Invariant, PTL

\* A tag names a manifest that can be read, unless the manifest was deleted or disturbed.
THEOREM TagsCorrect == Spec => []TagsResolve
<1>1. Inv => TagsResolve
  <2> SUFFICES ASSUME Inv, NEW g \in Tags, tags[g] \in Digests \ disturbed
               PROVE  final[tags[g]] # NoFile /\ media[tags[g]]
    BY DEF TagsResolve
  <2>1. Shown(tags[g])
    BY DEF Inv
  <2>2. Tagged(tags[g])
    BY DEF Tagged
  <2> QED
    BY <2>1, <2>2 DEF Shown
<1> QED
  BY <1>1, Invariant, PTL
=============================================================================
