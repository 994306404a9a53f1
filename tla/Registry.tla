------------------------------ MODULE Registry ------------------------------
(***************************************************************************)
(* The manifests and cached blobs of douglas-resin: the file blob store,   *)
(* the proxy that fetches from an upstream registry and caches what passes, *)
(* the tags of local repositories, and the requests that use them.         *)
(* Requests run in parallel and nothing locks the files of a digest: a     *)
(* step of a request is one call on the file system or on the upstream.    *)
(* A body is Size chunks; its digest is right when it is 1, 2, ..., Size.  *)
(***************************************************************************)
EXTENDS Naturals, Sequences, FiniteSets

CONSTANTS
    Tasks,        \* the requests resin serves at a time
    Digests,      \* the digests that are asked for
    Remote,       \* those of an upstream repository; the others are local
    Tags,         \* the tags of the local repository
    Size,         \* the chunks of a body
    NoFile, NoDigest, NoTag,
    MaxRequests, MaxFaults, MaxRestarts   \* bounds on what happens

Torn == "torn"       \* a tag that is truncated and not written yet

ASSUME RegistryAssumption ==
    /\ IsFiniteSet(Tasks) /\ IsFiniteSet(Digests)
    /\ Remote \subseteq Digests /\ Torn \notin Digests
    /\ Size \in Nat \ {0}
    /\ NoFile \notin Nat /\ NoDigest \notin Digests /\ NoTag \notin Tags
    /\ MaxRequests \in Nat /\ MaxFaults \in Nat /\ MaxRestarts \in Nat

VARIABLES
    tmp,        \* the file <digest>.tmp that a save writes to
    final,      \* the file <digest> that is served
    media,      \* whether the file <digest>.mediatype is there
    data,       \* what each file holds, under whatever name
    tags,       \* what the file of each tag names
    task,       \* what each request does
    disturbed,  \* history: the digests whose saves did not run alone to their end
    budget      \* the requests, faults and restarts that are left

vars == <<tmp, final, media, data, tags, task, disturbed, budget>>
files == <<tmp, final, media, data>>

Local == Digests \ Remote
Files == 1..(2 * Cardinality(Digests) + Cardinality(Tasks))
Content == [i \in 1..Size |-> i]
Wrong == 0           \* a chunk that does not belong to the body
Entries == {"tmp", "final", "media"}

Saving == {"open", "copy", "rename", "media", "unlink", "clean_tmp", "clean_final", "clean_media"}
Steps == {"idle", "resolve", "stats", "get", "read", "exists", "truncate", "tag",
          "list", "delete", "read_tag", "untag"} \cup Saving
Ops == {"none", "pull", "fetch", "push", "delete"}

Idle == [step |-> "idle", op |-> "none", digest |-> NoDigest, tag |-> NoTag, fd |-> NoFile,
         got |-> <<>>, size |-> 0, left |-> {}]

Init ==
    /\ tmp = [d \in Digests |-> NoFile] /\ final = [d \in Digests |-> NoFile]
    /\ media = [d \in Digests |-> FALSE]
    /\ data = [f \in Files |-> <<>>]
    /\ tags = [g \in Tags |-> NoDigest]
    /\ task = [t \in Tasks |-> Idle]
    /\ disturbed = {}
    /\ budget = [requests |-> MaxRequests, faults |-> MaxFaults, restarts |-> MaxRestarts]

-----------------------------------------------------------------------------
(* The steps of a request *)

At(t, step) == task[t].step = step

GoTo(t, step) == task' = [task EXCEPT ![t].step = step]

\* The request is answered, and nothing is kept of it.
Answer(t) == task' = [task EXCEPT ![t] = Idle]

Fault == budget.faults > 0 /\ budget' = [budget EXCEPT !.faults = @ - 1]

Begin(t) ==
    /\ At(t, "idle") /\ budget.requests > 0
    /\ budget' = [budget EXCEPT !.requests = @ - 1]
    /\ \E d \in Digests, g \in Tags \cup {NoTag}, first \in {"resolve", "stats", "exists", "list"} :
         LET op == CASE first = "exists" -> "push" [] first = "list" -> "delete" [] OTHER -> "pull" IN
         /\ first = "resolve" => g # NoTag
         /\ first \in {"stats", "list"} => g = NoTag
         /\ first # "stats" => d \in Local
         /\ task' = [task EXCEPT ![t] = [Idle EXCEPT
                !.step = first, !.op = op, !.tag = g,
                !.digest = IF first = "resolve" THEN NoDigest ELSE d]]
         /\ disturbed' = IF op = "delete" THEN disturbed \cup {d} ELSE disturbed
    /\ UNCHANGED <<files, tags>>

-----------------------------------------------------------------------------
(* Reading *)

\* A tag is looked up in its file; upstream has no part in a local repository.
Resolve(t) ==
    /\ At(t, "resolve")
    /\ LET named == tags[task[t].tag] IN
         IF named \in {NoDigest, Torn} THEN Answer(t)
         ELSE task' = [task EXCEPT ![t].step = "stats", ![t].digest = named]
    /\ UNCHANGED <<files, tags, disturbed, budget>>

\* The size and the media type, of the file or else of the upstream's answer.
Stats(t) ==
    /\ At(t, "stats")
    /\ LET d == task[t].digest IN
         \/ /\ final[d] # NoFile
            /\ IF media[d]
               THEN task' = [task EXCEPT ![t].step = "get", ![t].size = Len(data[final[d]])]
               ELSE Answer(t)
            /\ UNCHANGED budget
         \/ final[d] = NoFile /\ d \in Local /\ Answer(t) /\ UNCHANGED budget
         \/ /\ final[d] = NoFile /\ d \in Remote
            /\ task' = [task EXCEPT ![t].step = "get", ![t].size = Size]
            /\ UNCHANGED budget
         \/ final[d] = NoFile /\ d \in Remote /\ Fault /\ Answer(t)
    /\ UNCHANGED <<files, tags, disturbed>>

\* The file is opened, or else the upstream asked, whose body a task of its own saves.
Get(t) ==
    /\ At(t, "get")
    /\ LET d == task[t].digest IN
         \/ /\ final[d] # NoFile
            /\ task' = [task EXCEPT ![t].step = "read", ![t].fd = final[d]]
            /\ UNCHANGED budget
         \/ final[d] = NoFile /\ d \in Local /\ Answer(t) /\ UNCHANGED budget
         \/ /\ final[d] = NoFile /\ d \in Remote
            /\ task' = [task EXCEPT ![t].step = "exists", ![t].op = "fetch"]
            /\ UNCHANGED budget
         \/ final[d] = NoFile /\ d \in Remote /\ Fault /\ Answer(t)
    /\ UNCHANGED <<files, tags, disturbed>>

\* The body follows, under the length that was read before.
Read(t) ==
    /\ At(t, "read")
    /\ Answer(t)
    /\ UNCHANGED <<files, tags, disturbed, budget>>

-----------------------------------------------------------------------------
(* Saving *)

MutantIgnored(t, ok) ==
    LET r == task[t] IN
    IF r.op = "push" /\ r.tag # NoTag THEN GoTo(t, "truncate") ELSE Answer(t)
\* A pushed manifest that was saved is tagged next.  The client of a pull that fetches had
\* the length and every chunk as it was read: how the save ends reaches it only when the
\* body was cut short.
SaveEnds(t, ok) ==
    LET r == task[t] IN
    IF r.op = "push" /\ ok /\ r.tag # NoTag THEN GoTo(t, "truncate") ELSE Answer(t)

\* Another request is saving the same digest.
Crowded(t, d) == \E u \in Tasks \ {t} : task[u].digest = d /\ task[u].step \in Saving

\* What is there is not saved again, and the source is not read.
Exists(t) ==
    /\ At(t, "exists")
    /\ LET d == task[t].digest IN
         /\ IF final[d] # NoFile THEN SaveEnds(t, TRUE) ELSE GoTo(t, "open")
         /\ disturbed' = IF Crowded(t, d) THEN disturbed \cup {d} ELSE disturbed
    /\ UNCHANGED <<files, tags, budget>>

\* A file lives as long as it has a name or a request has it open.
Lives(f) == f \in {tmp[d] : d \in Digests} \cup {final[d] : d \in Digests}
                 \cup {task[t].fd : t \in Tasks}

Fresh == CHOOSE f \in Files : ~Lives(f)

\* The temporary file is named after the digest alone and is opened to append.
Create(t) ==
    /\ At(t, "open")
    /\ LET d == task[t].digest
           f == IF tmp[d] = NoFile THEN Fresh ELSE tmp[d] IN
         /\ tmp' = [tmp EXCEPT ![d] = f]
         /\ data' = [g \in Files |-> IF Lives(g) THEN data[g] ELSE <<>>]
         /\ task' = [task EXCEPT ![t].step = "copy", ![t].fd = f, ![t].got = <<>>]
         /\ disturbed' = IF final[d] # NoFile \/ Crowded(t, d)
                         THEN disturbed \cup {d} ELSE disturbed
    /\ UNCHANGED <<final, media, tags, budget>>

MutantOverrun(t) ==
    /\ At(t, "copy") /\ Len(task[t].got) <= Size
    /\ data' = [data EXCEPT ![task[t].fd] = Append(@, Len(task[t].got) + 1)]
    /\ task' = [task EXCEPT ![t].got = Append(@, Len(@) + 1)]
    /\ UNCHANGED <<tmp, final, media, tags, disturbed, budget>>
\* One chunk is read, hashed and appended; the source's may be a wrong one.
Copy(t) ==
    /\ At(t, "copy") /\ Len(task[t].got) < Size
    /\ \E c \in {Len(task[t].got) + 1, Wrong} :
         /\ IF c = Wrong THEN task[t].op = "fetch" /\ Fault ELSE UNCHANGED budget
         /\ data' = [data EXCEPT ![task[t].fd] = Append(@, c)]
         /\ task' = [task EXCEPT ![t].got = Append(@, c)]
    /\ UNCHANGED <<tmp, final, media, tags, disturbed>>

\* Reading from the source or writing to the file fails: the writer is dropped.
CopyFails(t) ==
    /\ At(t, "copy") /\ Fault
    /\ GoTo(t, "unlink")
    /\ UNCHANGED <<files, tags, disturbed>>

\* The writer that is not closed deletes the temporary file by its name.
MutantKeep(t) ==
    /\ At(t, "unlink")
    /\ SaveEnds(t, FALSE)
    /\ UNCHANGED <<files, tags, disturbed, budget>>
Unlink(t) ==
    /\ At(t, "unlink")
    /\ \/ tmp' = [tmp EXCEPT ![task[t].digest] = NoFile] /\ UNCHANGED budget
       \/ Fault /\ UNCHANGED tmp
    /\ GoTo(t, "clean_tmp")
    /\ UNCHANGED <<final, media, data, tags, disturbed>>

MutantUnverified(t) ==
    /\ At(t, "copy") /\ Len(task[t].got) = Size
    /\ GoTo(t, "rename")
    /\ UNCHANGED <<files, tags, disturbed, budget>>

\* The digest is that of the bytes that were read, not of the file.
Verify(t) ==
    /\ At(t, "copy") /\ Len(task[t].got) = Size
    /\ GoTo(t, IF task[t].got = Content THEN "rename" ELSE "clean_tmp")
    /\ UNCHANGED <<files, tags, disturbed, budget>>

\* BlobCommit::complete, its first half: what has the temporary name is served.
Rename(t) ==
    /\ At(t, "rename")
    /\ LET d == task[t].digest IN
         IF tmp[d] = NoFile
         THEN GoTo(t, "clean_tmp") /\ UNCHANGED <<tmp, final>>
         ELSE /\ final' = [final EXCEPT ![d] = tmp[d]] /\ tmp' = [tmp EXCEPT ![d] = NoFile]
              /\ GoTo(t, "media")
    /\ UNCHANGED <<media, data, tags, disturbed, budget>>

\* Its second half: the media type is written beside it, or all is cleaned up.
WriteMedia(t) ==
    /\ At(t, "media")
    /\ \/ /\ media' = [media EXCEPT ![task[t].digest] = TRUE]
          /\ SaveEnds(t, TRUE) /\ UNCHANGED budget
       \/ Fault /\ GoTo(t, "clean_tmp") /\ UNCHANGED media
    /\ UNCHANGED <<tmp, final, data, tags, disturbed>>

CleanTmp(t) ==
    /\ At(t, "clean_tmp")
    /\ tmp' = [tmp EXCEPT ![task[t].digest] = NoFile]
    /\ GoTo(t, "clean_final")
    /\ UNCHANGED <<final, media, data, tags, disturbed, budget>>

CleanFinal(t) ==
    /\ At(t, "clean_final")
    /\ final' = [final EXCEPT ![task[t].digest] = NoFile]
    /\ GoTo(t, "clean_media")
    /\ UNCHANGED <<tmp, media, data, tags, disturbed, budget>>

CleanMedia(t) ==
    /\ At(t, "clean_media")
    /\ media' = [media EXCEPT ![task[t].digest] = FALSE]
    /\ SaveEnds(t, FALSE)
    /\ UNCHANGED <<tmp, final, data, tags, disturbed, budget>>

\* A file that cannot be deleted ends the cleaning up; the commit that is dropped begins
\* it once more, unless it was doing so.
CleanFails(t) ==
    /\ task[t].step \in {"clean_tmp", "clean_final", "clean_media"}
    /\ Fault
    /\ GoTo(t, "clean_tmp") \/ SaveEnds(t, FALSE)
    /\ disturbed' = disturbed \cup {task[t].digest}
    /\ UNCHANGED <<files, tags>>

-----------------------------------------------------------------------------
(* Tags, and deleting *)

\* The file of the tag is truncated and then written.
Truncate(t) ==
    /\ At(t, "truncate")
    /\ tags' = [tags EXCEPT ![task[t].tag] = Torn]
    /\ \/ GoTo(t, "tag") /\ UNCHANGED budget
       \/ Fault /\ Answer(t)
    /\ UNCHANGED <<files, disturbed>>

WriteTag(t) ==
    /\ At(t, "tag")
    /\ tags' = [tags EXCEPT ![task[t].tag] = task[t].digest]
    /\ Answer(t)
    /\ UNCHANGED <<files, disturbed, budget>>

\* The entries in the folder of a manifest, of which the served file must be one.
List(t) ==
    /\ At(t, "list")
    /\ LET d == task[t].digest
           there == {e \in Entries : \/ e = "tmp" /\ tmp[d] # NoFile
                                     \/ e = "final" /\ final[d] # NoFile
                                     \/ e = "media" /\ media[d]} IN
         IF final[d] = NoFile THEN Answer(t)
         ELSE task' = [task EXCEPT ![t].step = "delete", ![t].left = there]
    /\ UNCHANGED <<files, tags, disturbed, budget>>

\* They are deleted one by one, those that went meanwhile without an error.
Delete(t) ==
    /\ At(t, "delete") /\ task[t].left # {}
    /\ \/ /\ \E e \in task[t].left :
              LET d == task[t].digest IN
              /\ tmp' = IF e = "tmp" THEN [tmp EXCEPT ![d] = NoFile] ELSE tmp
              /\ final' = IF e = "final" THEN [final EXCEPT ![d] = NoFile] ELSE final
              /\ media' = IF e = "media" THEN [media EXCEPT ![d] = FALSE] ELSE media
              /\ task' = [task EXCEPT ![t].left = @ \ {e}]
          /\ UNCHANGED budget
       \/ Fault /\ Answer(t) /\ UNCHANGED <<tmp, final, media>>
    /\ UNCHANGED <<data, tags, disturbed>>

ListTags(t) ==
    /\ At(t, "delete") /\ task[t].left = {}
    /\ task' = [task EXCEPT ![t].step = "read_tag",
                            ![t].left = {g \in Tags : tags[g] # NoDigest}]
    /\ UNCHANGED <<files, tags, disturbed, budget>>

\* A tag that names the deleted manifest is deleted next, any other is left.
ReadTag(t) ==
    /\ At(t, "read_tag")
    /\ \/ task[t].left = {} /\ Answer(t)
       \/ \E g \in task[t].left :
            task' = [task EXCEPT ![t].left = @ \ {g}, ![t].tag = g,
                                 ![t].step = IF tags[g] = task[t].digest THEN "untag" ELSE @]
    /\ UNCHANGED <<files, tags, disturbed, budget>>

\* A tag that cannot be deleted is left, with a warning.
Untag(t) ==
    /\ At(t, "untag")
    /\ \/ tags' = [tags EXCEPT ![task[t].tag] = NoDigest] /\ UNCHANGED budget
       \/ Fault /\ UNCHANGED tags
    /\ GoTo(t, "read_tag")
    /\ UNCHANGED <<files, disturbed>>

-----------------------------------------------------------------------------

\* resin ends and is started again; what it wrote stays, nothing looks at it.
Restart ==
    /\ budget.restarts > 0
    /\ budget' = [budget EXCEPT !.restarts = @ - 1]
    /\ disturbed' = disturbed \cup {task[t].digest : t \in {u \in Tasks : task[u].step \in Saving}}
    /\ task' = [t \in Tasks |-> Idle]
    /\ UNCHANGED <<files, tags>>

Step(t) ==
    \/ Resolve(t) \/ Stats(t) \/ Get(t) \/ Read(t)
    \/ Exists(t) \/ Create(t) \/ Copy(t) \/ CopyFails(t) \/ Unlink(t) \/ Verify(t)
    \/ Rename(t) \/ WriteMedia(t) \/ CleanTmp(t) \/ CleanFinal(t) \/ CleanMedia(t)
    \/ CleanFails(t) \/ Truncate(t) \/ WriteTag(t)
    \/ List(t) \/ Delete(t) \/ ListTags(t) \/ ReadTag(t) \/ Untag(t)

Next == Restart \/ \E t \in Tasks : Begin(t) \/ Step(t)

Spec == Init /\ [][Next]_vars

-----------------------------------------------------------------------------
(* Properties *)

Task == [step : Steps, op : Ops, digest : Digests \cup {NoDigest}, tag : Tags \cup {NoTag},
         fd : Files \cup {NoFile}, got : Seq(0..Size), size : Nat,
         left : SUBSET (Entries \cup Tags)]
Budget == [requests : 0..MaxRequests, faults : 0..MaxFaults, restarts : 0..MaxRestarts]

TypeOK ==
    /\ tmp \in [Digests -> Files \cup {NoFile}] /\ final \in [Digests -> Files \cup {NoFile}]
    /\ media \in [Digests -> BOOLEAN]
    /\ data \in [Files -> Seq(0..Size)]
    /\ tags \in [Tags -> Digests \cup {NoDigest, Torn}]
    /\ task \in [Tasks -> Task]
    /\ disturbed \subseteq Digests
    /\ budget \in Budget

\* What is served under a digest is what the digest says, if its saves came one after
\* another and each to its end: one that fails leaves nothing to the next.
WholeWhenAlone ==
    \A d \in Digests \ disturbed : final[d] # NoFile => data[final[d]] = Content

\* A pull that reads from the disk is answered with the whole body, under its length: also
\* when the file is replaced, cleaned up or saved anew between the calls that ask for its
\* size, open it and read it; if the digest was not deleted and its saves were not disturbed.
ReadIsWhole ==
    \A t \in Tasks :
        At(t, "read") /\ task[t].digest \notin disturbed =>
            data[task[t].fd] = Content /\ task[t].size = Size

\* A tag names a manifest that can be read, if the manifest was not deleted and its
\* saves were not disturbed; at every moment of other pushes, faults and restarts.
TagsResolve ==
    \A g \in Tags : tags[g] \in Digests \ disturbed => final[tags[g]] # NoFile /\ media[tags[g]]
=============================================================================
