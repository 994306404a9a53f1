------------------------------ MODULE Uploads ------------------------------
(***************************************************************************)
(* The blobs of the local repositories of douglas-resin: uploads in chunks, *)
(* the commit that names an upload after its digest, mounts of a blob from *)
(* one repository into another, and deletion.  A mutex guards the table of *)
(* uploads; it is not held while a chunk arrives, and neither mounts nor   *)
(* deletions take it.  A digest is modelled by the body it is the hash of, *)
(* a sequence of chunks, and a hasher by the chunks it was given.          *)
(***************************************************************************)
EXTENDS Naturals, Sequences

CONSTANTS
    Clients,      \* the requests that are served at a time
    Uuids,        \* the names of the uploads, each used once
    Repositories, \* the local repositories
    Bodies,       \* the bodies of the blobs
    NoUuid, NoRepository, NoBody,
    NoHasher,     \* the hasher of an upload whose chunk is under way, or was lost
    NoFile,       \* no file has this name
    MaxRequests, MaxFaults, MaxRestarts   \* bounds on what happens

ASSUME UploadsAssumption ==
    /\ Bodies \subseteq Seq(Nat) /\ <<>> \notin Bodies
    /\ NoUuid \notin Uuids /\ NoRepository \notin Repositories
    /\ NoBody \notin Bodies /\ NoHasher \notin Seq(Nat) /\ NoFile \notin Seq(Nat)
    /\ MaxRequests \in Nat /\ MaxFaults \in Nat /\ MaxRestarts \in Nat

VARIABLES
    upload,    \* the table of uploads, and what is known of those that ended
    temp,      \* the temporary file of each upload
    final,     \* the file of each blob in each repository
    media,     \* whether its media type is beside it
    client,    \* what each request does
    commit,    \* the upload that is being committed under the mutex
    poisoned,  \* a panic came while the mutex was held
    budget     \* the requests, faults and restarts that are left

vars == <<upload, temp, final, media, client, commit, poisoned, budget>>
blobs == <<final, media>>

NoUpload == [state |-> "new", repository |-> NoRepository, body |-> NoBody,
             hasher |-> NoHasher, offset |-> 0]
Idle == [step |-> "idle", uuid |-> NoUuid, from |-> NoRepository, repository |-> NoRepository,
         body |-> NoBody, hasher |-> NoHasher, start |-> 0, written |-> 0, left |-> {}]

Init ==
    /\ upload = [u \in Uuids |-> NoUpload]
    /\ temp = [u \in Uuids |-> NoFile]
    /\ final = [r \in Repositories |-> [b \in Bodies |-> NoFile]]
    /\ media = [r \in Repositories |-> [b \in Bodies |-> FALSE]]
    /\ client = [c \in Clients |-> Idle]
    /\ commit = NoUuid
    /\ poisoned = FALSE
    /\ budget = [requests |-> MaxRequests, faults |-> MaxFaults, restarts |-> MaxRestarts]

-----------------------------------------------------------------------------

Fault == budget.faults > 0 /\ budget' = [budget EXCEPT !.faults = @ - 1]
Request == budget.requests > 0 /\ budget' = [budget EXCEPT !.requests = @ - 1]

\* The mutex is free; a poisoned one makes whoever takes it panic.
Locked == commit = NoUuid /\ ~poisoned

At(c, step) == client[c].step = step
GoTo(c, step) == client' = [client EXCEPT ![c].step = step]
Answer(c) == client' = [client EXCEPT ![c] = Idle]

-----------------------------------------------------------------------------
(* Uploading *)

Start(c) ==
    /\ At(c, "idle") /\ Request /\ Locked
    /\ \E u \in Uuids, r \in Repositories, b \in Bodies :
         /\ upload[u].state = "new"
         /\ upload' = [upload EXCEPT ![u] = [state |-> "open", repository |-> r, body |-> b,
                                             hasher |-> <<>>, offset |-> 0]]
    /\ UNCHANGED <<temp, blobs, client, commit, poisoned>>

\* A chunk comes with the offset its sender believes in, who may have sent it before.
MutantShared(c) ==
    /\ At(c, "idle") /\ Request /\ Locked
    /\ \E u \in Uuids : \E offset \in 0..upload[u].offset :
         /\ upload[u].state = "open" /\ upload[u].hasher # NoHasher
         /\ offset = upload[u].offset /\ offset < Len(upload[u].body)
         /\ client' = [client EXCEPT ![c] = [Idle EXCEPT !.step = "receive", !.uuid = u,
                           !.hasher = upload[u].hasher, !.start = offset]]
    /\ UNCHANGED <<upload, temp, blobs, commit, poisoned>>
WriteChunk(c) ==
    /\ At(c, "idle") /\ Request /\ Locked
    /\ \E u \in Uuids : \E offset \in 0..upload[u].offset :
         /\ upload[u].state = "open" /\ upload[u].hasher # NoHasher
         /\ offset = upload[u].offset /\ offset < Len(upload[u].body)
         /\ upload' = [upload EXCEPT ![u].hasher = NoHasher]
         /\ client' = [client EXCEPT ![c] = [Idle EXCEPT !.step = "receive", !.uuid = u,
                           !.hasher = upload[u].hasher, !.start = offset]]
    /\ UNCHANGED <<temp, blobs, commit, poisoned>>

Appended(file, chunk) == IF file = NoFile THEN <<chunk>> ELSE Append(file, chunk)

\* The chunk that the request brings next.
Chunk(c) == upload[client[c].uuid].body[client[c].start + client[c].written + 1]

\* It is read and given to the hasher ...
Receive(c) ==
    /\ At(c, "receive")
    /\ client[c].start + client[c].written < Len(upload[client[c].uuid].body)
    /\ client' = [client EXCEPT ![c].step = "append", ![c].hasher = Append(@, Chunk(c))]
    /\ UNCHANGED <<upload, temp, blobs, commit, poisoned, budget>>

\* ... and then appended to the file, which is created if it is not there.
AppendChunk(c) ==
    /\ At(c, "append")
    /\ temp' = [temp EXCEPT ![client[c].uuid] = Appended(@, Chunk(c))]
    /\ client' = [client EXCEPT ![c].step = "receive", ![c].written = @ + 1]
    /\ UNCHANGED <<upload, blobs, commit, poisoned, budget>>

\* The body ends with an error, or the append does: the hasher is lost.
ChunkFails(c) ==
    /\ client[c].step \in {"receive", "append"} /\ Fault
    /\ Answer(c)
    /\ UNCHANGED <<upload, temp, blobs, commit, poisoned>>

\* The sender goes away during the append, which a thread of its own completes.
Abandon(c) ==
    /\ At(c, "append") /\ Fault
    /\ GoTo(c, "late")
    /\ UNCHANGED <<upload, temp, blobs, commit, poisoned>>

LateAppend(c) ==
    /\ At(c, "late")
    /\ temp' = [temp EXCEPT ![client[c].uuid] = Appended(@, Chunk(c))]
    /\ Answer(c)
    /\ UNCHANGED <<upload, blobs, commit, poisoned, budget>>

\* The end of the request gives the hasher back, if the upload is still there.
ChunkEnds(c) ==
    /\ At(c, "receive") /\ commit = NoUuid
    /\ LET u == client[c].uuid IN
         IF ~poisoned /\ upload[u].state = "open"
         THEN upload' = [upload EXCEPT ![u].hasher = client[c].hasher,
                                       ![u].offset = client[c].start + client[c].written]
         ELSE UNCHANGED upload
    /\ Answer(c)
    /\ UNCHANGED <<temp, blobs, commit, poisoned, budget>>

\* The upload that is removed from the table deletes its file.
Removed(u) ==
    /\ upload' = [upload EXCEPT ![u].state = "ended"]
    /\ temp' = [temp EXCEPT ![u] = NoFile]

MutantUnchecked(c) ==
    /\ At(c, "idle") /\ Request /\ Locked
    /\ \E u \in Uuids, b \in Bodies :
         /\ upload[u].state = "open"
         /\ upload' = [upload EXCEPT ![u].state = "ended"]
         /\ commit' = u
         /\ client' = [client EXCEPT ![c] = [Idle EXCEPT !.step = "rename", !.uuid = u,
                           !.repository = upload[u].repository, !.body = b]]
         /\ UNCHANGED <<temp, poisoned>>
    /\ UNCHANGED blobs
\* An upload is committed under a digest, or deleted if it is not its own.  Without a
\* hasher the request panics, which poisons the mutex.
Complete(c) ==
    /\ At(c, "idle") /\ Request /\ Locked
    /\ \E u \in Uuids, b \in Bodies :
         /\ upload[u].state = "open"
         /\ \/ /\ upload[u].hasher = b
               /\ upload' = [upload EXCEPT ![u].state = "ended"]
               /\ commit' = u
               /\ client' = [client EXCEPT ![c] = [Idle EXCEPT !.step = "rename", !.uuid = u,
                                 !.repository = upload[u].repository, !.body = b]]
               /\ UNCHANGED <<temp, poisoned>>
            \/ /\ upload[u].hasher # b
               /\ poisoned' = (upload[u].hasher = NoHasher)
               /\ Removed(u)
               /\ UNCHANGED <<client, commit>>
    /\ UNCHANGED blobs

Rename(c) ==
    /\ At(c, "rename")
    /\ LET k == client[c] IN
         \/ /\ temp[k.uuid] # NoFile
            /\ final' = [final EXCEPT ![k.repository][k.body] = temp[k.uuid]]
            /\ temp' = [temp EXCEPT ![k.uuid] = NoFile]
            /\ GoTo(c, "media") /\ UNCHANGED budget
         \/ /\ Fault \/ (temp[k.uuid] = NoFile /\ UNCHANGED budget)
            /\ GoTo(c, "clean") /\ UNCHANGED <<final, temp>>
    /\ UNCHANGED <<upload, media, commit, poisoned>>

WriteMedia(c) ==
    /\ At(c, "media")
    /\ \/ /\ media' = [media EXCEPT ![client[c].repository][client[c].body] = TRUE]
          /\ commit' = NoUuid
          /\ Answer(c) /\ UNCHANGED budget
       \/ Fault /\ GoTo(c, "clean") /\ UNCHANGED <<media, commit>>
    /\ UNCHANGED <<upload, temp, final, poisoned>>

\* A commit that fails takes away its three files, one after the other.
CleanUp(c) ==
    /\ LET k == client[c] IN
         \/ /\ At(c, "clean") /\ temp' = [temp EXCEPT ![k.uuid] = NoFile]
            /\ GoTo(c, "clean_final") /\ UNCHANGED <<blobs, commit>>
         \/ /\ At(c, "clean_final") /\ final' = [final EXCEPT ![k.repository][k.body] = NoFile]
            /\ GoTo(c, "clean_media") /\ UNCHANGED <<temp, media, commit>>
         \/ /\ At(c, "clean_media") /\ media' = [media EXCEPT ![k.repository][k.body] = FALSE]
            /\ Answer(c) /\ commit' = NoUuid /\ UNCHANGED <<temp, final>>
    /\ UNCHANGED <<upload, poisoned, budget>>

\* One that cannot be deleted ends that; the commit that is dropped begins it once more.
CleanFails(c) ==
    /\ client[c].step \in {"clean", "clean_final", "clean_media"} /\ Fault
    /\ \/ GoTo(c, "clean") /\ UNCHANGED commit
       \/ Answer(c) /\ commit' = NoUuid
    /\ UNCHANGED <<upload, temp, blobs, poisoned>>

Abort(c) ==
    /\ At(c, "idle") /\ Request /\ Locked
    /\ \E u \in Uuids : upload[u].state = "open" /\ Removed(u)
    /\ UNCHANGED <<blobs, client, commit, poisoned>>

-----------------------------------------------------------------------------
(* Mounting and deleting *)

\* A repository that has the blob and its media type, first of all the one that is named.
Found(r, b) == final[r][b] # NoFile /\ media[r][b]

Mount(c) ==
    /\ At(c, "idle") /\ Request
    /\ \E from, r \in Repositories, b \in Bodies :
         /\ Found(from, b)
         /\ client' = [client EXCEPT ![c] = [Idle EXCEPT !.step = "link", !.from = from,
                                               !.repository = r, !.body = b]]
    /\ UNCHANGED <<upload, temp, blobs, commit, poisoned>>

\* A hard link needs what it links and a name that is not taken.
Link(c) ==
    /\ At(c, "link")
    /\ LET k == client[c] IN
         \/ /\ final[k.from][k.body] # NoFile /\ final[k.repository][k.body] = NoFile
            /\ final' = [final EXCEPT ![k.repository][k.body] = final[k.from][k.body]]
            /\ GoTo(c, "link_media")
         \/ /\ final[k.from][k.body] = NoFile \/ final[k.repository][k.body] # NoFile
            /\ Answer(c) /\ UNCHANGED final
    /\ UNCHANGED <<upload, temp, media, commit, poisoned, budget>>

\* Without the media type the blob is taken away again.
LinkMedia(c) ==
    /\ At(c, "link_media")
    /\ LET k == client[c] IN
         \/ /\ media[k.from][k.body] /\ ~media[k.repository][k.body]
            /\ media' = [media EXCEPT ![k.repository][k.body] = TRUE]
            /\ UNCHANGED <<final, budget>>
         \/ /\ \/ (~media[k.from][k.body] \/ media[k.repository][k.body]) /\ UNCHANGED budget
               \/ Fault
            /\ final' = [final EXCEPT ![k.repository][k.body] = NoFile]
            /\ UNCHANGED media
    /\ Answer(c)
    /\ UNCHANGED <<upload, temp, commit, poisoned>>

\* What is in the folder of a blob that is there is deleted file by file.
List(c) ==
    /\ At(c, "idle") /\ Request
    /\ \E r \in Repositories, b \in Bodies :
         /\ final[r][b] # NoFile
         /\ client' = [client EXCEPT ![c] = [Idle EXCEPT !.step = "delete", !.repository = r,
                !.body = b, !.left = {"final"} \cup (IF media[r][b] THEN {"media"} ELSE {})]]
    /\ UNCHANGED <<upload, temp, blobs, commit, poisoned>>

Delete(c) ==
    /\ At(c, "delete")
    /\ LET k == client[c] IN
         \/ /\ \E e \in k.left :
                 /\ final' = IF e = "final"
                             THEN [final EXCEPT ![k.repository][k.body] = NoFile] ELSE final
                 /\ media' = IF e = "media"
                             THEN [media EXCEPT ![k.repository][k.body] = FALSE] ELSE media
                 /\ client' = [client EXCEPT ![c].left = @ \ {e}]
            /\ UNCHANGED budget
         \/ k.left = {} /\ Answer(c) /\ UNCHANGED <<blobs, budget>>
         \/ Fault /\ Answer(c) /\ UNCHANGED blobs
    /\ UNCHANGED <<upload, temp, commit, poisoned>>

-----------------------------------------------------------------------------

\* resin ends and is started again: it knows of no upload, and deletes no file.
Restart ==
    /\ budget.restarts > 0
    /\ budget' = [budget EXCEPT !.restarts = @ - 1]
    /\ upload' = [u \in Uuids |-> IF upload[u].state = "open"
                                  THEN [upload[u] EXCEPT !.state = "ended"] ELSE upload[u]]
    /\ client' = [c \in Clients |-> Idle]
    /\ commit' = NoUuid /\ poisoned' = FALSE
    /\ UNCHANGED <<temp, blobs>>

Serve(c) ==
    \/ Start(c) \/ WriteChunk(c) \/ Receive(c) \/ AppendChunk(c) \/ ChunkFails(c)
    \/ Abandon(c) \/ LateAppend(c) \/ ChunkEnds(c)
    \/ Complete(c) \/ Rename(c) \/ WriteMedia(c) \/ CleanUp(c) \/ CleanFails(c)
    \/ Abort(c)
    \/ Mount(c) \/ Link(c) \/ LinkMedia(c) \/ List(c) \/ Delete(c)

Next == Restart \/ \E c \in Clients : Serve(c)

Spec == Init /\ [][Next]_vars

-----------------------------------------------------------------------------
(* Properties *)

Steps == {"idle", "receive", "append", "late", "rename", "media", "clean",
          "clean_final", "clean_media", "link", "link_media", "delete"}

TypeOK ==
    /\ upload \in [Uuids -> [state : {"new", "open", "ended"},
           repository : Repositories \cup {NoRepository}, body : Bodies \cup {NoBody},
           hasher : Seq(Nat) \cup {NoHasher}, offset : Nat]]
    /\ temp \in [Uuids -> Seq(Nat) \cup {NoFile}]
    /\ final \in [Repositories -> [Bodies -> Seq(Nat) \cup {NoFile}]]
    /\ media \in [Repositories -> [Bodies -> BOOLEAN]]
    /\ client \in [Clients -> [step : Steps, uuid : Uuids \cup {NoUuid},
           from : Repositories \cup {NoRepository}, repository : Repositories \cup {NoRepository},
           body : Bodies \cup {NoBody}, hasher : Seq(Nat) \cup {NoHasher},
           start : Nat, written : Nat, left : SUBSET {"final", "media"}]]
    /\ commit \in Uuids \cup {NoUuid} /\ poisoned \in BOOLEAN
    /\ budget \in [requests : 0..MaxRequests, faults : 0..MaxFaults, restarts : 0..MaxRestarts]

\* An upload that can be completed has hashed what its file holds and nothing else, and
\* that is the beginning of its body: no chunk twice, none left out, none of another request.
FileIsHashed ==
    \A u \in Uuids : upload[u].state = "open" /\ upload[u].hasher # NoHasher =>
        /\ upload[u].hasher = SubSeq(upload[u].body, 1, upload[u].offset)
        /\ temp[u] = IF upload[u].offset = 0 THEN NoFile ELSE upload[u].hasher

\* A blob that is served under a digest is the body it is the digest of, whatever
\* chunks failed or came late, and wherever it was mounted from.
BlobsAreWhole == \A r \in Repositories, b \in Bodies : final[r][b] \in {b, NoFile}
=============================================================================
