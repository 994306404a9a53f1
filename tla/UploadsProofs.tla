---------------------------- MODULE UploadsProofs ----------------------------
(* What is served under a digest is the body it is the digest of, for any    *)
(* requests, uploads, repositories and bodies, and however many chunks fail  *)
(* or come late and restarts there are.                                      *)
EXTENDS Uploads, TLAPS

Upload == [state : {"new", "open", "ended"},
           repository : Repositories \cup {NoRepository}, body : Bodies \cup {NoBody},
           hasher : Seq(Nat) \cup {NoHasher}, offset : Nat]
Client == [step : Steps, uuid : Uuids \cup {NoUuid},
           from : Repositories \cup {NoRepository}, repository : Repositories \cup {NoRepository},
           body : Bodies \cup {NoBody}, hasher : Seq(Nat) \cup {NoHasher},
           start : Nat, written : Nat, left : SUBSET {"final", "media"}]
Budget == [requests : 0..MaxRequests, faults : 0..MaxFaults, restarts : 0..MaxRestarts]

\* The chunks of an upload that are in its file while a request brings more.
Sent(c) == client[c].start + client[c].written

\* A request that brings chunks has the hasher of its upload, which has seen the chunks
\* that the file holds and, until it is appended, the one that was just read.  When the
\* upload ends meanwhile, or the request is dropped, the file is anything.
Holds(c) == client[c].step \in {"receive", "append", "late"}
Held(c) ==
    Holds(c) =>
      LET k == client[c]
          p == upload[client[c].uuid] IN
        /\ k.uuid \in Uuids /\ p.state # "new" /\ p.hasher = NoHasher /\ p.body \in Bodies
        /\ Sent(c) <= Len(p.body)
        /\ k.step # "receive" => Sent(c) < Len(p.body)
        /\ k.step = "receive" => k.hasher = SubSeq(p.body, 1, Sent(c))
        /\ k.step = "append" => k.hasher = SubSeq(p.body, 1, Sent(c) + 1)
        /\ p.state = "open" /\ k.step # "late" =>
             temp[k.uuid] = IF Sent(c) = 0 THEN NoFile ELSE SubSeq(p.body, 1, Sent(c))

\* Nobody else brings chunks of the same upload.
Alone == \A c, d \in Clients : Holds(c) /\ Holds(d) /\ client[c].uuid = client[d].uuid => c = d

Committing == {"rename", "media", "clean", "clean_final", "clean_media"}

\* What is committed has ended with all it has hashed, and its file holds that.
Commits(c) ==
    client[c].step \in Committing =>
      LET k == client[c] IN
        /\ k.uuid \in Uuids /\ k.repository \in Repositories /\ k.body \in Bodies
        /\ upload[k.uuid].state = "ended" /\ upload[k.uuid].hasher # NoHasher
        /\ k.step = "rename" => temp[k.uuid] \in {k.body, NoFile}

\* A request that links or deletes knows the blob.
Links(c) ==
    client[c].step \in {"link", "link_media", "delete"} =>
        /\ client[c].repository \in Repositories /\ client[c].body \in Bodies
        /\ client[c].step # "delete" => client[c].from \in Repositories

Files ==
    \A u \in Uuids : /\ upload[u].state = "new" => temp[u] = NoFile
                     /\ upload[u].state = "open" => /\ upload[u].body \in Bodies
                                                    /\ upload[u].repository \in Repositories

IInv ==
    /\ TypeOK
    /\ \A c \in Clients : Held(c) /\ Commits(c) /\ Links(c)
    /\ Alone
    /\ Files
    /\ FileIsHashed
    /\ BlobsAreWhole

USE UploadsAssumption

LEMMA NextChunk ==
    ASSUME NEW s \in Seq(Nat), NEW n \in Nat, n < Len(s)
    PROVE  /\ s[n + 1] \in Nat
           /\ Append(SubSeq(s, 1, n), s[n + 1]) = SubSeq(s, 1, n + 1)
           /\ SubSeq(s, 1, n + 1) \in Seq(Nat)
OBVIOUS

LEMMA NothingSent == ASSUME NEW s \in Seq(Nat) PROVE SubSeq(s, 1, 0) = <<>>
OBVIOUS

LEMMA SomeSent ==
    ASSUME NEW s \in Seq(Nat), NEW n \in Nat, n <= Len(s)
    PROVE  SubSeq(s, 1, n) \in Seq(Nat) /\ (n > 0 => SubSeq(s, 1, n) # <<>>)
OBVIOUS

\* What the state consists of besides the uploads, their files and the requests.
RestTyped ==
    /\ final \in [Repositories -> [Bodies -> Seq(Nat) \cup {NoFile}]]
    /\ media \in [Repositories -> [Bodies -> BOOLEAN]]
    /\ commit \in Uuids \cup {NoUuid} /\ poisoned \in BOOLEAN
    /\ budget \in Budget

LEMMA Records ==
    TypeOK <=> /\ upload \in [Uuids -> Upload] /\ client \in [Clients -> Client]
               /\ temp \in [Uuids -> Seq(Nat) \cup {NoFile}]
               /\ RestTyped
BY DEF TypeOK, Upload, Client, RestTyped, Budget

LEMMA RecordsNext ==
    TypeOK' <=> /\ upload' \in [Uuids -> Upload] /\ client' \in [Clients -> Client]
                /\ temp' \in [Uuids -> Seq(Nat) \cup {NoFile}]
                /\ RestTyped'
BY DEF TypeOK, Upload, Client, RestTyped, Budget

LEMMA Bringing ==
    ASSUME IInv, NEW c \in Clients, Holds(c)
    PROVE  /\ client[c] \in Client /\ client[c].uuid \in Uuids /\ Sent(c) \in Nat
           /\ upload[client[c].uuid].body \in Seq(Nat)
           /\ Sent(c) < Len(upload[client[c].uuid].body) => Chunk(c) \in Nat
           /\ Chunk(c) = upload[client[c].uuid].body[Sent(c) + 1]
           /\ client[c].step \in {"receive", "append"} => client[c].hasher \in Seq(Nat)
<1>1. /\ client[c] \in Client /\ client[c].uuid \in Uuids /\ Sent(c) \in Nat
      /\ upload[client[c].uuid].body \in Seq(Nat)
      /\ Chunk(c) = upload[client[c].uuid].body[Sent(c) + 1]
  BY Records DEF IInv, Client, Held, Sent, Chunk
<1>2. Sent(c) < Len(upload[client[c].uuid].body) => Chunk(c) \in Nat
  BY <1>1, NextChunk
<1>3. client[c].step \in {"receive", "append"} => client[c].hasher \in Seq(Nat)
  BY <1>1, NextChunk, SomeSent DEF IInv, Held
<1> QED
  BY <1>1, <1>2, <1>3

\* One request goes on and no upload begins, gets a hasher back or ends: all that is to
\* be shown is that the request itself is in order then, and the blobs are.
LEMMA Moves ==
    ASSUME IInv, NEW c \in Clients, NEW new \in Client,
           client' = [client EXCEPT ![c] = new], UNCHANGED upload,
           temp' \in [Uuids -> Seq(Nat) \cup {NoFile}], RestTyped', BlobsAreWhole',
           \A u \in Uuids : temp'[u] # temp[u] =>
               /\ u = client[c].uuid
               /\ Holds(c) \/ (client[c].step \in Committing /\ temp'[u] = NoFile),
           Held(c)', Commits(c)', Links(c)',
           Holds(c)' => Holds(c) /\ client'[c].uuid = client[c].uuid
    PROVE  IInv'
<1>1. TypeOK'
  BY Records, RecordsNext DEF IInv
<1>2. \A d \in Clients : d # c => client'[d] = client[d]
  BY Records DEF IInv
<1>3. \A d \in Clients : Held(d)'
  <2> SUFFICES ASSUME NEW d \in Clients, d # c, Holds(d) PROVE Held(d)'
    BY <1>2 DEF Held, Holds
  <2>1. Held(d) /\ client'[d] = client[d] /\ Sent(d)' = Sent(d)
    BY <1>2 DEF IInv, Sent
  <2>2. temp'[client[d].uuid] = temp[client[d].uuid]
    BY <2>1 DEF IInv, Held, Alone, Commits, Committing
  <2> QED
    BY <2>1, <2>2 DEF Held, Holds
<1>4. \A d \in Clients : Commits(d)'
  <2> SUFFICES ASSUME NEW d \in Clients, d # c, client[d].step \in Committing
               PROVE  Commits(d)'
    BY <1>2 DEF Commits, Committing
  <2>1. Commits(d) /\ client'[d] = client[d] /\ client[d].uuid \in Uuids
    BY <1>2 DEF IInv, Commits, Committing
  <2>2. temp'[client[d].uuid] \in {temp[client[d].uuid], NoFile}
    BY <2>1 DEF IInv, Held, Commits, Committing
  <2> QED
    BY <2>1, <2>2 DEF Commits
<1>5. \A d \in Clients : Links(d)'
  BY <1>2 DEF IInv, Links
<1>6. Alone'
  BY <1>2 DEF IInv, Alone, Holds
<1>7. Files' /\ FileIsHashed'
  BY DEF IInv, Files, FileIsHashed, Held, Commits, Committing
<1> QED
  BY <1>1, <1>3, <1>4, <1>5, <1>6, <1>7 DEF IInv

LEMMA IdleTyped == Idle \in Client
BY DEF Idle, Client, Steps

\* A request that is answered is in order, whatever it leaves.
LEMMA Answers ==
    ASSUME IInv, NEW c \in Clients, Answer(c), UNCHANGED upload,
           temp' \in [Uuids -> Seq(Nat) \cup {NoFile}], RestTyped', BlobsAreWhole',
           \A u \in Uuids : temp'[u] # temp[u] =>
               /\ u = client[c].uuid
               /\ Holds(c) \/ (client[c].step \in Committing /\ temp'[u] = NoFile)
    PROVE  IInv'
<1>1. client'[c] = Idle
  BY Records DEF IInv, Answer
<1>2. Held(c)' /\ Commits(c)' /\ Links(c)' /\ ~Holds(c)'
  BY <1>1 DEF Idle, Held, Holds, Commits, Committing, Links
<1> QED
  BY <1>2, IdleTyped, Moves DEF Answer

LEMMA ReceiveKeeps ==
    ASSUME IInv, NEW c \in Clients, Receive(c)
    PROVE  IInv'
<1> DEFINE new == [client[c] EXCEPT !.step = "append", !.hasher = Append(@, Chunk(c))]
<1>1. Holds(c) /\ client[c].step = "receive" /\ Sent(c) < Len(upload[client[c].uuid].body)
  BY DEF Receive, At, Holds, Sent
<1>2. client' = [client EXCEPT ![c] = new] /\ UNCHANGED <<upload, temp, final, media, commit, poisoned, budget>>
  BY DEF Receive, blobs
<1>3. Append(client[c].hasher, Chunk(c)) \in Seq(Nat)
  BY <1>1, Bringing
<1>4. new \in Client
  <2>1. client[c] \in Client /\ "append" \in Steps
    BY <1>1, Bringing DEF Steps
  <2> QED
    BY <1>3, <2>1 DEF Client
<1>5. /\ client'[c] = new /\ new.step = "append" /\ new.uuid = client[c].uuid
      /\ new.start = client[c].start /\ new.written = client[c].written
      /\ new.hasher = Append(client[c].hasher, Chunk(c))
  BY <1>1, <1>2, Bringing, Records DEF IInv, Client
<1> HIDE DEF new
<1>6. Append(client[c].hasher, Chunk(c)) = SubSeq(upload[client[c].uuid].body, 1, Sent(c) + 1)
  BY <1>1, Bringing, NextChunk DEF IInv, Held
<1>7. Held(c)'
  BY <1>1, <1>2, <1>5, <1>6 DEF IInv, Held, Holds, Sent
<1>8. Commits(c)' /\ Links(c)'
  BY <1>5 DEF Commits, Committing, Links
<1> QED
  BY <1>1, <1>2, <1>4, <1>5, <1>7, <1>8, Moves, Records DEF IInv, RestTyped, BlobsAreWhole

LEMMA AppendChunkKeeps ==
    ASSUME IInv, NEW c \in Clients, AppendChunk(c)
    PROVE  IInv'
<1> DEFINE new == [client[c] EXCEPT !.step = "receive", !.written = @ + 1]
           u == client[c].uuid
<1>1. Holds(c) /\ client[c].step = "append" /\ Sent(c) < Len(upload[u].body)
  BY DEF AppendChunk, At, Holds, IInv, Held
<1>2. /\ client' = [client EXCEPT ![c] = new] /\ temp' = [temp EXCEPT ![u] = Appended(@, Chunk(c))]
      /\ UNCHANGED <<upload, final, media, commit, poisoned, budget>>
  BY DEF AppendChunk, blobs
<1>3. new \in Client
  <2>1. client[c] \in Client /\ "receive" \in Steps
    BY <1>1, Bringing DEF Steps
  <2>2. client[c].written + 1 \in Nat
    BY <2>1 DEF Client
  <2> QED
    BY <2>1, <2>2 DEF Client
<1>4. /\ client'[c] = new /\ new.step = "receive" /\ new.uuid = u
      /\ new.start = client[c].start /\ new.written = client[c].written + 1
      /\ new.hasher = client[c].hasher
  BY <1>1, <1>2, Bringing, Records DEF IInv, Client
<1>5. Sent(c)' = Sent(c) + 1
  BY <1>1, <1>4, Bringing DEF Sent, Client
<1> HIDE DEF new
<1>6. temp[u] \in Seq(Nat) \cup {NoFile} /\ Chunk(c) \in Nat /\ u \in Uuids
  BY <1>1, Bringing, Records DEF IInv
<1>7. temp' \in [Uuids -> Seq(Nat) \cup {NoFile}] /\ temp'[u] = Appended(temp[u], Chunk(c))
  BY <1>2, <1>6, Records DEF IInv, Appended
<1>8. upload[u].state = "open" => temp'[u] = SubSeq(upload[u].body, 1, Sent(c) + 1)
  <2> SUFFICES ASSUME upload[u].state = "open" PROVE temp'[u] = SubSeq(upload[u].body, 1, Sent(c) + 1)
    OBVIOUS
  <2>1. /\ Chunk(c) = upload[u].body[Sent(c) + 1] /\ upload[u].body \in Seq(Nat) /\ Sent(c) \in Nat
        /\ temp[u] = IF Sent(c) = 0 THEN NoFile ELSE SubSeq(upload[u].body, 1, Sent(c))
    BY <1>1, Bringing DEF IInv, Held
  <2>2. CASE Sent(c) = 0
    BY <1>1, <1>7, <2>1, <2>2, NextChunk, NothingSent DEF Appended
  <2>3. CASE Sent(c) # 0
    <3>1. Sent(c) <= Len(upload[u].body)
      BY <1>1, <2>1
    <3>2. SubSeq(upload[u].body, 1, Sent(c)) \in Seq(Nat)
      BY <2>1, <3>1, SomeSent
    <3>3. temp[u] = SubSeq(upload[u].body, 1, Sent(c)) /\ temp[u] # NoFile
      BY <2>1, <2>3, <3>2
    <3> QED
      BY <1>1, <1>7, <2>1, <3>3, NextChunk DEF Appended
  <2> QED
    BY <2>2, <2>3
<1>9. Held(c)'
  <2>1. Sent(c) \in Nat /\ upload[u].body \in Seq(Nat) /\ Sent(c) + 1 <= Len(upload[u].body)
    BY <1>1, Bringing
  <2>2. client[c].hasher = SubSeq(upload[u].body, 1, Sent(c) + 1)
    BY <1>1 DEF IInv, Held, Holds
  <2>3. /\ u \in Uuids /\ upload[u].state # "new" /\ upload[u].hasher = NoHasher
        /\ upload[u].body \in Bodies /\ upload' = upload
    BY <1>1, <1>2 DEF IInv, Held, Holds
  <2>4. Sent(c) + 1 # 0
    BY <2>1
  <2> QED
    BY <1>4, <1>5, <1>8, <2>1, <2>2, <2>3, <2>4 DEF Held
<1>10. Commits(c)' /\ Links(c)'
  BY <1>4 DEF Commits, Committing, Links
<1>11. RestTyped' /\ BlobsAreWhole'
  BY <1>2, Records DEF IInv, RestTyped, BlobsAreWhole
<1> QED
  BY <1>1, <1>2, <1>3, <1>4, <1>7, <1>9, <1>10, <1>11, Moves, Records DEF IInv

LEMMA FaultTyped == ASSUME budget \in Budget, Fault \/ Request PROVE budget' \in Budget
BY DEF Fault, Request, Budget

\* The requests that are dropped leave the rest as it is, or append once more.
LEMMA DropKeeps ==
    ASSUME IInv, NEW c \in Clients, ChunkFails(c) \/ Abandon(c) \/ LateAppend(c)
    PROVE  IInv'
<1>1. UNCHANGED <<upload, final, media, commit, poisoned>> /\ (Fault \/ UNCHANGED budget)
  BY DEF ChunkFails, Abandon, LateAppend, blobs
<1>2. budget' \in Budget
  BY <1>1, FaultTyped, Records DEF IInv, RestTyped
<1>3. RestTyped' /\ BlobsAreWhole'
  BY <1>1, <1>2, Records DEF IInv, RestTyped, BlobsAreWhole
<1>4. CASE ChunkFails(c)
  BY <1>1, <1>3, <1>4, Answers, Records DEF IInv, ChunkFails
<1>5. CASE Abandon(c)
  <2> DEFINE new == [client[c] EXCEPT !.step = "late"]
  <2>1. Holds(c) /\ client[c].step = "append" /\ client' = [client EXCEPT ![c] = new] /\ temp' = temp
    BY <1>5 DEF Abandon, At, Holds, GoTo
  <2>2. new \in Client
    <3>1. client[c] \in Client /\ "late" \in Steps
      BY <2>1, Bringing DEF Steps
    <3> QED
      BY <3>1 DEF Client
  <2>3. /\ client'[c] = new /\ new.step = "late" /\ new.uuid = client[c].uuid
        /\ new.start = client[c].start /\ new.written = client[c].written
    BY <2>1, Bringing, Records DEF IInv, Client
  <2> HIDE DEF new
  <2>4. Held(c)' /\ Commits(c)' /\ Links(c)'
    BY <1>1, <2>1, <2>3 DEF IInv, Held, Holds, Sent, Commits, Committing, Links
  <2> QED
    BY <1>1, <1>3, <2>1, <2>2, <2>3, <2>4, Moves, Records DEF IInv
<1>6. CASE LateAppend(c)
  <2>1. Holds(c) /\ Sent(c) < Len(upload[client[c].uuid].body)
    BY <1>6 DEF LateAppend, At, Holds, IInv, Held
  <2>2. temp[client[c].uuid] \in Seq(Nat) \cup {NoFile} /\ Chunk(c) \in Nat
    BY <2>1, Bringing, Records DEF IInv
  <2>3. temp' = [temp EXCEPT ![client[c].uuid] = Appended(@, Chunk(c))]
    BY <1>6 DEF LateAppend
  <2>4. temp' \in [Uuids -> Seq(Nat) \cup {NoFile}]
    <3>1. Appended(temp[client[c].uuid], Chunk(c)) \in Seq(Nat)
      BY <2>2 DEF Appended
    <3> QED
      BY <2>3, <3>1, Records DEF IInv
  <2> QED
    BY <1>1, <1>3, <1>6, <2>1, <2>3, <2>4, Answers, Records DEF IInv, LateAppend
<1> QED
  BY <1>4, <1>5, <1>6

\* A blob that is replaced by its own body or removed leaves the blobs whole.
LEMMA BlobReplaced ==
    ASSUME RestTyped, BlobsAreWhole,
           final' = final \/ \E r \in Repositories, b \in Bodies : \E file \in {b, NoFile} :
                                final' = [final EXCEPT ![r][b] = file]
    PROVE  final' \in [Repositories -> [Bodies -> Seq(Nat) \cup {NoFile}]] /\ BlobsAreWhole'
<1>1. CASE final' = final
  BY <1>1 DEF RestTyped, BlobsAreWhole
<1>2. ASSUME NEW r \in Repositories, NEW b \in Bodies, NEW file \in {b, NoFile},
             final' = [final EXCEPT ![r][b] = file]
      PROVE  final' \in [Repositories -> [Bodies -> Seq(Nat) \cup {NoFile}]] /\ BlobsAreWhole'
  <2> DEFINE blobsOf == [final[r] EXCEPT ![b] = file]
  <2>1. file \in Seq(Nat) \cup {NoFile} /\ final[r] \in [Bodies -> Seq(Nat) \cup {NoFile}]
    BY <1>2 DEF RestTyped
  <2>2. /\ blobsOf \in [Bodies -> Seq(Nat) \cup {NoFile}]
        /\ blobsOf[b] = file /\ \A x \in Bodies \ {b} : blobsOf[x] = final[r][x]
    BY <2>1
  <2>3. final' = [final EXCEPT ![r] = blobsOf]
    BY <1>2
  <2> HIDE DEF blobsOf
  <2>4. final' \in [Repositories -> [Bodies -> Seq(Nat) \cup {NoFile}]]
    BY <2>2, <2>3 DEF RestTyped
  <2>5. final'[r] = blobsOf /\ \A x \in Repositories \ {r} : final'[x] = final[x]
    BY <2>3 DEF RestTyped
  <2> QED
    BY <1>2, <2>2, <2>4, <2>5 DEF BlobsAreWhole
<1> QED
  BY <1>1, <1>2

LEMMA MediaReplaced ==
    ASSUME RestTyped,
           media' = media \/ \E r \in Repositories, b \in Bodies : \E there \in BOOLEAN :
                                media' = [media EXCEPT ![r][b] = there]
    PROVE  media' \in [Repositories -> [Bodies -> BOOLEAN]]
<1>1. ASSUME NEW r \in Repositories, NEW b \in Bodies, NEW there \in BOOLEAN,
             media' = [media EXCEPT ![r][b] = there]
      PROVE  media' \in [Repositories -> [Bodies -> BOOLEAN]]
  <2>1. [media[r] EXCEPT ![b] = there] \in [Bodies -> BOOLEAN]
    BY DEF RestTyped
  <2> QED
    BY <1>1, <2>1 DEF RestTyped
<1> QED
  BY <1>1 DEF RestTyped

\* Committing: the file gets the name of its digest, and only then its media type.
LEMMA CommitKeeps ==
    ASSUME IInv, NEW c \in Clients, Rename(c) \/ WriteMedia(c) \/ CleanUp(c) \/ CleanFails(c)
    PROVE  IInv'
<1> DEFINE k == client[c]
<1>1. /\ k.step \in Committing /\ k.uuid \in Uuids /\ k.repository \in Repositories /\ k.body \in Bodies
      /\ upload[k.uuid].state = "ended" /\ upload[k.uuid].hasher # NoHasher
      /\ k.step = "rename" => temp[k.uuid] \in {k.body, NoFile}
      /\ k \in Client
  BY Records DEF Rename, WriteMedia, CleanUp, CleanFails, At, Committing, IInv, Commits
<1>2. /\ temp \in [Uuids -> Seq(Nat) \cup {NoFile}] /\ RestTyped /\ client \in [Clients -> Client]
      /\ \A r \in Repositories, b \in Bodies : final[r][b] \in {b, NoFile}
  BY Records DEF IInv, BlobsAreWhole
<1>3. UNCHANGED <<upload, poisoned>> /\ (Fault \/ UNCHANGED budget)
  BY DEF Rename, WriteMedia, CleanUp, CleanFails, blobs
<1>4. budget' \in Budget /\ poisoned' \in BOOLEAN
  BY <1>2, <1>3, FaultTyped DEF RestTyped
<1>5. temp' = temp \/ temp' = [temp EXCEPT ![k.uuid] = NoFile]
  BY DEF Rename, WriteMedia, CleanUp, CleanFails, blobs
<1>6. temp' \in [Uuids -> Seq(Nat) \cup {NoFile}] /\ \A u \in Uuids : temp'[u] # temp[u] => u = k.uuid /\ temp'[u] = NoFile
  BY <1>2, <1>5
<1>7. final' = final \/ \E file \in {k.body, NoFile} : final' = [final EXCEPT ![k.repository][k.body] = file]
  BY <1>1 DEF Rename, WriteMedia, CleanUp, CleanFails, At, blobs
<1>8. final' \in [Repositories -> [Bodies -> Seq(Nat) \cup {NoFile}]] /\ BlobsAreWhole'
  BY <1>1, <1>2, <1>7, BlobReplaced DEF BlobsAreWhole
<1>9. media' = media \/ \E there \in BOOLEAN : media' = [media EXCEPT ![k.repository][k.body] = there]
  BY DEF Rename, WriteMedia, CleanUp, CleanFails, blobs
<1>10. media' \in [Repositories -> [Bodies -> BOOLEAN]] /\ commit' \in Uuids \cup {NoUuid}
  <2>1. media' \in [Repositories -> [Bodies -> BOOLEAN]]
    BY <1>1, <1>2, <1>9, MediaReplaced
  <2>2. commit' \in {commit, NoUuid}
    BY DEF Rename, WriteMedia, CleanUp, CleanFails
  <2> QED
    BY <1>2, <2>1, <2>2 DEF RestTyped
<1>11. RestTyped'
  BY <1>4, <1>8, <1>10 DEF RestTyped
<1>12. CASE Answer(c)
  BY <1>1, <1>3, <1>6, <1>8, <1>11, <1>12, Answers
<1>13. CASE \E step \in {"media", "clean", "clean_final", "clean_media"} : GoTo(c, step)
  <2>1. PICK step \in {"media", "clean", "clean_final", "clean_media"} : GoTo(c, step)
    BY <1>13
  <2> DEFINE new == [client[c] EXCEPT !.step = step]
  <2>2. new \in Client /\ client' = [client EXCEPT ![c] = new]
    BY <1>1, <2>1 DEF Client, Steps, GoTo
  <2>3. /\ client'[c] = new /\ new.step = step /\ new.uuid = k.uuid /\ new.repository = k.repository
        /\ new.body = k.body
    BY <1>1, <1>2, <2>2 DEF Client
  <2> HIDE DEF new
  <2>4. Held(c)' /\ Commits(c)' /\ Links(c)' /\ ~Holds(c)'
    BY <1>1, <1>3, <2>1, <2>3 DEF Held, Holds, Commits, Committing, Links
  <2> QED
    BY <1>1, <1>3, <1>6, <1>8, <1>11, <2>2, <2>4, Moves
<1> QED
  BY <1>12, <1>13 DEF Rename, WriteMedia, CleanUp, CleanFails

\* Mounting and deleting: a link is of a blob that is whole already.
LEMMA MountKeeps ==
    ASSUME IInv, NEW c \in Clients,
           Mount(c) \/ Link(c) \/ LinkMedia(c) \/ List(c) \/ Delete(c)
    PROVE  IInv'
<1> DEFINE k == client[c]
<1>1. RestTyped /\ client \in [Clients -> Client] /\ k \in Client /\ Links(c) /\ BlobsAreWhole
      /\ temp \in [Uuids -> Seq(Nat) \cup {NoFile}]
  BY Records DEF IInv
<1>2. UNCHANGED <<upload, temp, commit, poisoned>> /\ (Fault \/ Request \/ UNCHANGED budget) /\ ~Holds(c)
  BY DEF Mount, Link, LinkMedia, List, Delete, At, Holds
<1>3. budget' \in Budget
  BY <1>1, <1>2, FaultTyped DEF RestTyped
<1> DEFINE Final == \E r \in Repositories, b \in Bodies : \E file \in {b, NoFile} :
                        final' = [final EXCEPT ![r][b] = file]
           Media == \E r \in Repositories, b \in Bodies : \E there \in BOOLEAN :
                        media' = [media EXCEPT ![r][b] = there]
<1>4. (final' = final \/ Final) /\ (media' = media \/ Media)
  <2>1. CASE Mount(c) \/ List(c)
    BY <2>1 DEF Mount, List, blobs
  <2>2. ASSUME Link(c) \/ LinkMedia(c) \/ Delete(c)
        PROVE  /\ k.repository \in Repositories /\ k.body \in Bodies
               /\ ~Delete(c) => final[k.from][k.body] \in {k.body, NoFile}
    BY <1>1, <2>2 DEF Link, LinkMedia, Delete, At, Links, BlobsAreWhole
  <2>3. CASE Link(c)
    <3>1. \/ final' = final
          \/ final' = [final EXCEPT ![k.repository][k.body] = final[k.from][k.body]]
      BY <2>3 DEF Link
    <3>2. final[k.from][k.body] \in {k.body, NoFile}
      BY <1>1, <2>3 DEF Link, At, Links, BlobsAreWhole
    <3> QED
      BY <2>2, <2>3, <3>1, <3>2 DEF Link
  <2>4. CASE LinkMedia(c)
    BY <2>2, <2>4 DEF LinkMedia
  <2>5. CASE Delete(c)
    <3>1. /\ final' = final \/ final' = [final EXCEPT ![k.repository][k.body] = NoFile]
          /\ media' = media \/ media' = [media EXCEPT ![k.repository][k.body] = FALSE]
      BY <2>5 DEF Delete, blobs
    <3> QED
      BY <2>2, <2>5, <3>1
  <2> QED
    BY <2>1, <2>3, <2>4, <2>5
<1>5. RestTyped' /\ BlobsAreWhole'
  <2>1. /\ final' \in [Repositories -> [Bodies -> Seq(Nat) \cup {NoFile}]] /\ BlobsAreWhole'
    BY <1>1, <1>4, BlobReplaced
  <2>2. media' \in [Repositories -> [Bodies -> BOOLEAN]]
    BY <1>1, <1>4, MediaReplaced
  <2> QED
    BY <1>1, <1>2, <1>3, <2>1, <2>2 DEF RestTyped
<1>6. ASSUME NEW new \in Client, client' = [client EXCEPT ![c] = new],
             new.step \in {"link", "link_media", "delete"},
             new.repository \in Repositories /\ new.body \in Bodies,
             new.step # "delete" => new.from \in Repositories
      PROVE  IInv'
  <2>1. client'[c] = new
    BY <1>1, <1>6
  <2>2. Held(c)' /\ Commits(c)' /\ Links(c)' /\ ~Holds(c)'
    BY <1>6, <2>1 DEF Held, Holds, Commits, Committing, Links
  <2> QED
    BY <1>1, <1>2, <1>5, <1>6, <2>2, Moves
<1>7. CASE Answer(c)
  BY <1>1, <1>2, <1>5, <1>7, Answers
<1>8. CASE Mount(c)
  <2>1. PICK from \in Repositories, r \in Repositories, b \in Bodies :
            client' = [client EXCEPT ![c] = [Idle EXCEPT !.step = "link", !.from = from,
                                               !.repository = r, !.body = b]]
    BY <1>8 DEF Mount
  <2> DEFINE new == [Idle EXCEPT !.step = "link", !.from = from, !.repository = r, !.body = b]
  <2>2. new \in Client /\ new.step = "link" /\ new.from = from /\ new.repository = r /\ new.body = b
    BY DEF Idle, Client, Steps
  <2> HIDE DEF new
  <2> QED
    BY <1>6, <2>1, <2>2 DEF new
<1>9. CASE List(c)
  <2>1. PICK r \in Repositories, b \in Bodies : \E left \in SUBSET {"final", "media"} :
            client' = [client EXCEPT ![c] = [Idle EXCEPT !.step = "delete", !.repository = r,
                                               !.body = b, !.left = left]]
    BY <1>9 DEF List
  <2>2. PICK left \in SUBSET {"final", "media"} :
            client' = [client EXCEPT ![c] = [Idle EXCEPT !.step = "delete", !.repository = r,
                                               !.body = b, !.left = left]]
    BY <2>1
  <2> DEFINE new == [Idle EXCEPT !.step = "delete", !.repository = r, !.body = b, !.left = left]
  <2>3. new \in Client /\ new.step = "delete" /\ new.repository = r /\ new.body = b
    BY DEF Idle, Client, Steps
  <2> HIDE DEF new
  <2> QED
    BY <1>6, <2>2, <2>3 DEF new
<1>10. CASE Link(c) /\ GoTo(c, "link_media")
  <2> DEFINE new == [k EXCEPT !.step = "link_media"]
  <2>1. /\ new \in Client /\ new.step = "link_media" /\ new.from = k.from
        /\ new.repository = k.repository /\ new.body = k.body
        /\ client' = [client EXCEPT ![c] = new]
    BY <1>1, <1>10 DEF Client, Steps, GoTo
  <2> HIDE DEF new
  <2> QED
    BY <1>1, <1>6, <1>10, <2>1 DEF Links, Link, At
<1>11. CASE Delete(c) /\ ~Answer(c)
  <2>1. PICK e \in k.left : client' = [client EXCEPT ![c].left = @ \ {e}]
    BY <1>11 DEF Delete
  <2> DEFINE new == [k EXCEPT !.left = @ \ {e}]
  <2>2. /\ new \in Client /\ new.step = k.step
        /\ new.repository = k.repository /\ new.body = k.body
        /\ client' = [client EXCEPT ![c] = new]
    BY <1>1, <2>1 DEF Client
  <2> HIDE DEF new
  <2> QED
    BY <1>1, <1>6, <1>11, <2>2 DEF Links, Delete, At
<1> QED
  BY <1>7, <1>8, <1>9, <1>10, <1>11 DEF Link, LinkMedia

-----------------------------------------------------------------------------
(* The steps that begin or end an upload, or take its hasher or give it back *)

\* The requests that bring chunks of other uploads do not notice a change of u, and
\* neither do commits, if u had not ended.
LEMMA OthersStay ==
    ASSUME IInv, NEW c \in Clients, NEW u \in Uuids, NEW new \in Client,
           client' = client \/ client' = [client EXCEPT ![c] = new],
           \A w \in Uuids \ {u} : upload'[w] = upload[w] /\ temp'[w] = temp[w],
           upload[u].state # "ended", NEW d \in Clients, client'[d] = client[d]
    PROVE  /\ Commits(d)' /\ Links(d)'
           /\ Holds(d) /\ client[d].uuid # u => Held(d)'
           /\ Holds(d)' <=> Holds(d)
<1>1. Holds(d)' <=> Holds(d)
  BY DEF Holds
<1>2. Commits(d)' /\ Links(d)'
  BY DEF IInv, Commits, Committing, Links
<1>3. ASSUME Holds(d), client[d].uuid # u PROVE Held(d)'
  BY <1>3 DEF IInv, Held, Holds, Sent
<1> QED
  BY <1>1, <1>2, <1>3

LEMMA StartKeeps ==
    ASSUME IInv, NEW c \in Clients, Start(c)
    PROVE  IInv'
<1>1. PICK u \in Uuids, r \in Repositories, b \in Bodies :
          /\ upload[u].state = "new"
          /\ upload' = [upload EXCEPT ![u] = [state |-> "open", repository |-> r, body |-> b,
                                              hasher |-> <<>>, offset |-> 0]]
  BY DEF Start
<1> DEFINE new == [state |-> "open", repository |-> r, body |-> b, hasher |-> <<>>, offset |-> 0]
<1>2. UNCHANGED <<temp, final, media, client, commit, poisoned>> /\ Request
  BY DEF Start, blobs
<1>3. /\ new \in Upload /\ new.state = "open" /\ new.body = b /\ new.hasher = <<>> /\ new.offset = 0
      /\ new.repository = r
  BY DEF Upload
<1>4. upload' = [upload EXCEPT ![u] = new]
  BY <1>1
<1> HIDE DEF new
<1>5. upload' \in [Uuids -> Upload] /\ upload'[u] = new /\ \A w \in Uuids \ {u} : upload'[w] = upload[w]
  BY <1>3, <1>4, Records DEF IInv
<1>6. TypeOK'
  BY <1>2, <1>5, FaultTyped, Records, RecordsNext DEF IInv, RestTyped
<1>7. \A d \in Clients : Held(d)' /\ Commits(d)' /\ Links(d)'
  <2> SUFFICES ASSUME NEW d \in Clients PROVE Held(d)' /\ Commits(d)' /\ Links(d)'
    OBVIOUS
  <2>1. Holds(d) => client[d].uuid # u
    BY <1>1 DEF IInv, Held
  <2>2. client' = client /\ Idle \in Client
    BY <1>2, IdleTyped
  <2> QED
    BY <1>1, <1>2, <1>5, <2>1, <2>2, OthersStay DEF Held
<1>8. Alone' /\ BlobsAreWhole'
  BY <1>2 DEF IInv, Alone, Holds, BlobsAreWhole
<1>9. Files' /\ FileIsHashed'
  <2>1. temp'[u] = NoFile /\ SubSeq(b, 1, 0) = <<>>
    BY <1>1, <1>2, NothingSent DEF IInv, Files
  <2>2. Files'
    BY <1>2, <1>3, <1>5 DEF IInv, Files
  <2>3. ASSUME NEW w \in Uuids, upload'[w].state = "open", upload'[w].hasher # NoHasher
        PROVE  /\ upload'[w].hasher = SubSeq(upload'[w].body, 1, upload'[w].offset)
               /\ temp'[w] = IF upload'[w].offset = 0 THEN NoFile ELSE upload'[w].hasher
    <3>1. CASE w = u
      BY <1>3, <1>5, <2>1, <3>1
    <3>2. CASE w # u
      BY <1>2, <1>5, <2>3, <3>2 DEF IInv, FileIsHashed
    <3> QED
      BY <3>1, <3>2
  <2> QED
    BY <2>2, <2>3 DEF FileIsHashed
<1> QED
  BY <1>6, <1>7, <1>8, <1>9 DEF IInv

LEMMA WriteChunkKeeps ==
    ASSUME IInv, NEW c \in Clients, WriteChunk(c)
    PROVE  IInv'
<1>1. PICK u \in Uuids : \E offset \in 0..upload[u].offset :
          /\ upload[u].state = "open" /\ upload[u].hasher # NoHasher
          /\ offset = upload[u].offset /\ offset < Len(upload[u].body)
          /\ upload' = [upload EXCEPT ![u].hasher = NoHasher]
          /\ client' = [client EXCEPT ![c] = [Idle EXCEPT !.step = "receive", !.uuid = u,
                            !.hasher = upload[u].hasher, !.start = offset]]
  BY DEF WriteChunk
<1> DEFINE offset == upload[u].offset
<1>14. /\ upload[u].state = "open" /\ upload[u].hasher # NoHasher
          /\ offset = upload[u].offset /\ offset < Len(upload[u].body)
          /\ upload' = [upload EXCEPT ![u].hasher = NoHasher]
          /\ client' = [client EXCEPT ![c] = [Idle EXCEPT !.step = "receive", !.uuid = u,
                            !.hasher = upload[u].hasher, !.start = offset]]
  BY <1>1
<1> DEFINE new == [Idle EXCEPT !.step = "receive", !.uuid = u, !.hasher = upload[u].hasher,
                               !.start = offset]
           up == [upload[u] EXCEPT !.hasher = NoHasher]
<1>2. UNCHANGED <<temp, final, media, commit, poisoned>> /\ Request /\ client[c].step = "idle"
  BY DEF WriteChunk, blobs, At
<1>3. upload[u] \in Upload
  BY Records DEF IInv
<1>4. /\ new \in Client /\ new.step = "receive" /\ new.uuid = u /\ new.hasher = upload[u].hasher
      /\ new.start = offset /\ new.written = 0
  BY <1>3 DEF Idle, Client, Steps, Upload
<1>5. /\ up \in Upload /\ up.state = "open" /\ up.body = upload[u].body /\ up.hasher = NoHasher
      /\ up.repository = upload[u].repository
  BY <1>14, <1>3 DEF Upload
<1>6. upload' = [upload EXCEPT ![u] = up] /\ client' = [client EXCEPT ![c] = new]
  BY <1>14
<1> HIDE DEF new, up
<1>7. /\ upload' \in [Uuids -> Upload] /\ upload'[u] = up /\ \A w \in Uuids \ {u} : upload'[w] = upload[w]
      /\ client' \in [Clients -> Client] /\ client'[c] = new
      /\ \A d \in Clients \ {c} : client'[d] = client[d]
  BY <1>4, <1>5, <1>6, Records DEF IInv
<1>8. TypeOK'
  BY <1>2, <1>7, FaultTyped, Records, RecordsNext DEF IInv, RestTyped
<1>9. \A d \in Clients \ {c} : Held(d)' /\ Commits(d)' /\ Links(d)' /\ (Holds(d)' => Holds(d) /\ client'[d].uuid # u)
  <2> SUFFICES ASSUME NEW d \in Clients \ {c}
               PROVE  Held(d)' /\ Commits(d)' /\ Links(d)' /\ (Holds(d)' => Holds(d) /\ client'[d].uuid # u)
    OBVIOUS
  <2>1. Holds(d) => client[d].uuid # u
    BY <1>14 DEF IInv, Held
  <2>2. /\ client'[d] = client[d] /\ upload[u].state # "ended" /\ client' = [client EXCEPT ![c] = new]
        /\ \A w \in Uuids \ {u} : upload'[w] = upload[w] /\ temp'[w] = temp[w]
    BY <1>14, <1>2, <1>6, <1>7
  <2>3. /\ Commits(d)' /\ Links(d)' /\ (Holds(d)' <=> Holds(d))
        /\ Holds(d) => Held(d)'
    BY <1>4, <2>1, <2>2, OthersStay
  <2> QED
    BY <2>1, <2>2, <2>3 DEF Held
<1>10. Commits(c)' /\ Links(c)'
  BY <1>4, <1>7 DEF Commits, Committing, Links
<1>11. Held(c)'
  <2>1. upload[u].body \in Bodies /\ upload[u].body \in Seq(Nat) /\ offset <= Len(upload[u].body)
    BY <1>14, <1>3 DEF IInv, Files, Upload
  <2>2. Sent(c)' = offset
    BY <1>3, <1>4, <1>7 DEF Sent, Upload
  <2>3. /\ upload[u].hasher = SubSeq(upload[u].body, 1, offset)
        /\ temp[u] = IF offset = 0 THEN NoFile ELSE upload[u].hasher
    BY <1>14, <1>3 DEF IInv, FileIsHashed
  <2> QED
    BY <1>2, <1>4, <1>5, <1>7, <2>1, <2>2, <2>3 DEF Held
<1>12. Alone'
  BY <1>4, <1>7, <1>9 DEF IInv, Alone, Holds
<1>13. Files' /\ FileIsHashed' /\ BlobsAreWhole'
  BY <1>14, <1>2, <1>5, <1>7 DEF IInv, Files, FileIsHashed, BlobsAreWhole
<1> QED
  BY <1>8, <1>9, <1>10, <1>11, <1>12, <1>13 DEF IInv

LEMMA ChunkEndsKeeps ==
    ASSUME IInv, NEW c \in Clients, ChunkEnds(c)
    PROVE  IInv'
<1> DEFINE u == client[c].uuid
           up == [upload[u] EXCEPT !.hasher = client[c].hasher, !.offset = Sent(c)]
<1>1. /\ Holds(c) /\ client[c].step = "receive" /\ Answer(c)
      /\ UNCHANGED <<temp, final, media, commit, poisoned, budget>>
      /\ \/ upload' = upload
         \/ upload[u].state = "open" /\ upload' = [upload EXCEPT ![u] = up]
  BY DEF ChunkEnds, At, Holds, Sent, blobs
<1>2. CASE upload' = upload
  <2>1. RestTyped' /\ BlobsAreWhole'
    BY <1>1, Records DEF IInv, RestTyped, BlobsAreWhole
  <2> QED
    BY <1>1, <1>2, <2>1, Answers, Records DEF IInv
<1>3. CASE upload[u].state = "open" /\ upload' = [upload EXCEPT ![u] = up]
  <2>1. u \in Uuids /\ upload[u] \in Upload /\ client[c].hasher \in Seq(Nat) /\ Sent(c) \in Nat
    BY <1>1, Bringing, Records DEF IInv
  <2>2. /\ up \in Upload /\ up.state = "open" /\ up.body = upload[u].body
        /\ up.hasher = client[c].hasher /\ up.offset = Sent(c) /\ up.repository = upload[u].repository
    BY <1>3, <2>1 DEF Upload
  <2> HIDE DEF up
  <2>3. /\ upload' \in [Uuids -> Upload] /\ upload'[u] = up
        /\ \A w \in Uuids \ {u} : upload'[w] = upload[w] /\ temp'[w] = temp[w]
        /\ client' \in [Clients -> Client] /\ client' = [client EXCEPT ![c] = Idle] /\ client'[c] = Idle
        /\ \A d \in Clients \ {c} : client'[d] = client[d]
    BY <1>1, <1>3, <2>1, <2>2, IdleTyped, Records DEF IInv, Answer
  <2>4. TypeOK'
    BY <1>1, <2>3, Records, RecordsNext DEF IInv, RestTyped
  <2>5. Held(c)' /\ Commits(c)' /\ Links(c)' /\ ~Holds(c)'
    BY <2>3 DEF Idle, Held, Holds, Commits, Committing, Links
  <2>6. \A d \in Clients \ {c} : Held(d)' /\ Commits(d)' /\ Links(d)' /\ (Holds(d)' => Holds(d))
    <3> SUFFICES ASSUME NEW d \in Clients \ {c}
                 PROVE  Held(d)' /\ Commits(d)' /\ Links(d)' /\ (Holds(d)' => Holds(d))
      OBVIOUS
    <3>1. Holds(d) => client[d].uuid # u
      BY <1>1 DEF IInv, Alone
    <3>2. /\ Commits(d)' /\ Links(d)' /\ (Holds(d)' <=> Holds(d))
          /\ Holds(d) => Held(d)'
      <4>1. client'[d] = client[d] /\ upload[u].state # "ended" /\ Idle \in Client
        BY <1>3, <2>3, IdleTyped
      <4> QED
        BY <2>1, <2>3, <3>1, <4>1, OthersStay
    <3> QED
      BY <3>2 DEF Held
  <2>7. Alone' /\ BlobsAreWhole'
    BY <1>1, <2>3, <2>5, <2>6 DEF IInv, Alone, BlobsAreWhole
  <2>8. Files'
    BY <1>1, <1>3, <2>2, <2>3 DEF IInv, Files
  <2>9. FileIsHashed'
    <3>1. /\ client[c].hasher = SubSeq(upload[u].body, 1, Sent(c))
          /\ temp[u] = IF Sent(c) = 0 THEN NoFile ELSE SubSeq(upload[u].body, 1, Sent(c))
      BY <1>1, <1>3 DEF IInv, Held
    <3>2. ASSUME NEW w \in Uuids, upload'[w].state = "open", upload'[w].hasher # NoHasher
          PROVE  /\ upload'[w].hasher = SubSeq(upload'[w].body, 1, upload'[w].offset)
                 /\ temp'[w] = IF upload'[w].offset = 0 THEN NoFile ELSE upload'[w].hasher
      <4>1. CASE w = u
        BY <1>1, <2>2, <2>3, <3>1, <4>1
      <4>2. CASE w # u
        BY <2>3, <3>2, <4>2 DEF IInv, FileIsHashed
      <4> QED
        BY <4>1, <4>2
    <3> QED
      BY <3>2 DEF FileIsHashed
  <2> QED
    BY <2>4, <2>5, <2>6, <2>7, <2>8, <2>9 DEF IInv
<1> QED
  BY <1>1, <1>2, <1>3

\* The end of an upload: who brings chunks to it goes on with a file that is nobody's.
LEMMA EndKeeps ==
    ASSUME IInv, NEW c \in Clients, NEW u \in Uuids, NEW new \in Client,
           client' = client \/ client' = [client EXCEPT ![c] = new],
           ~Holds(c), Held(c)', Commits(c)', Links(c)', ~Holds(c)',
           upload[u].state = "open", upload' = [upload EXCEPT ![u].state = "ended"],
           temp' = temp \/ temp' = [temp EXCEPT ![u] = NoFile],
           RestTyped', UNCHANGED final
    PROVE  IInv'
<1> DEFINE up == [upload[u] EXCEPT !.state = "ended"]
<1>1. /\ up \in Upload /\ up.state = "ended" /\ up.body = upload[u].body
      /\ up.hasher = upload[u].hasher /\ upload' = [upload EXCEPT ![u] = up]
  <2>1. upload[u] \in Upload
    BY Records DEF IInv
  <2> QED
    BY <2>1 DEF Upload
<1> HIDE DEF up
<1>2. /\ upload' \in [Uuids -> Upload] /\ upload'[u] = up
      /\ temp' \in [Uuids -> Seq(Nat) \cup {NoFile}]
      /\ \A w \in Uuids \ {u} : upload'[w] = upload[w] /\ temp'[w] = temp[w]
      /\ client' \in [Clients -> Client]
      /\ \A d \in Clients \ {c} : client'[d] = client[d]
  BY <1>1, Records DEF IInv
<1>3. TypeOK'
  BY <1>2, RecordsNext
<1>4. \A d \in Clients \ {c} : Held(d)' /\ Commits(d)' /\ Links(d)' /\ (Holds(d)' => Holds(d))
  <2> SUFFICES ASSUME NEW d \in Clients \ {c}
               PROVE  Held(d)' /\ Commits(d)' /\ Links(d)' /\ (Holds(d)' => Holds(d))
    OBVIOUS
  <2>1. /\ Commits(d)' /\ Links(d)' /\ (Holds(d)' <=> Holds(d))
        /\ Holds(d) /\ client[d].uuid # u => Held(d)'
    BY <1>2, OthersStay
  <2>2. ASSUME Holds(d), client[d].uuid = u PROVE Held(d)'
    <3>1. client'[d] = client[d] /\ Sent(d)' = Sent(d) /\ Held(d)
      BY <1>2 DEF IInv, Sent
    <3> QED
      BY <1>1, <1>2, <2>2, <3>1 DEF Held
  <2> QED
    BY <2>1, <2>2 DEF Held
<1>5. Alone'
  BY <1>2, <1>4 DEF IInv, Alone
<1>6. Files' /\ FileIsHashed'
  BY <1>1, <1>2 DEF IInv, Files, FileIsHashed
<1>7. BlobsAreWhole'
  BY DEF IInv, BlobsAreWhole
<1> QED
  BY <1>3, <1>4, <1>5, <1>6, <1>7 DEF IInv

LEMMA CompleteKeeps ==
    ASSUME IInv, NEW c \in Clients, Complete(c) \/ Abort(c)
    PROVE  IInv'
<1>1. /\ client[c].step = "idle" /\ Request /\ UNCHANGED <<final, media>> /\ RestTyped
  BY Records DEF Complete, Abort, At, blobs, IInv
<1>2. budget' \in Budget /\ ~Holds(c)
  BY <1>1, FaultTyped DEF RestTyped, Holds
<1>3. ASSUME NEW u \in Uuids, upload[u].state = "open", Removed(u),
             UNCHANGED <<client, commit>>, poisoned' \in BOOLEAN
      PROVE  IInv'
  <2>1. /\ RestTyped' /\ Held(c)' /\ Commits(c)' /\ Links(c)' /\ ~Holds(c)'
    BY <1>1, <1>2, <1>3 DEF RestTyped, Held, Holds, Commits, Committing, Links
  <2> QED
    BY <1>1, <1>2, <1>3, <2>1, IdleTyped, EndKeeps DEF Removed
<1>4. CASE Abort(c)
  BY <1>1, <1>3, <1>4 DEF Abort, RestTyped
<1>5. ASSUME NEW u \in Uuids, NEW b \in Bodies, upload[u].state = "open", upload[u].hasher = b,
             upload' = [upload EXCEPT ![u].state = "ended"], commit' = u,
             client' = [client EXCEPT ![c] = [Idle EXCEPT !.step = "rename", !.uuid = u,
                           !.repository = upload[u].repository, !.body = b]],
             UNCHANGED <<temp, poisoned>>
      PROVE  IInv'
  <2> DEFINE new == [Idle EXCEPT !.step = "rename", !.uuid = u,
                                 !.repository = upload[u].repository, !.body = b]
  <2>1. upload[u] \in Upload /\ upload[u].repository \in Repositories
    BY <1>5, Records DEF IInv, Files
  <2>2. /\ new \in Client /\ new.step = "rename" /\ new.uuid = u /\ new.body = b
        /\ new.repository = upload[u].repository
    BY <2>1 DEF Idle, Client, Steps
  <2>3. client' = [client EXCEPT ![c] = new]
    BY <1>5
  <2> HIDE DEF new
  <2>4. /\ client'[c] = new /\ upload'[u].state = "ended" /\ upload'[u].hasher = upload[u].hasher
    BY <1>5, <2>1, <2>3, Records DEF IInv, Upload
  <2>5. temp'[u] \in {b, NoFile} /\ b # NoHasher
    BY <1>5 DEF IInv, FileIsHashed
  <2>6. Held(c)' /\ Commits(c)' /\ Links(c)' /\ ~Holds(c)'
    BY <1>5, <2>1, <2>2, <2>4, <2>5 DEF Held, Holds, Commits, Committing, Links
  <2>7. RestTyped'
    BY <1>1, <1>2, <1>5 DEF RestTyped
  <2> QED
    BY <1>1, <1>2, <1>5, <2>2, <2>3, <2>6, <2>7, EndKeeps
<1>6. CASE Complete(c)
  BY <1>1, <1>3, <1>5, <1>6 DEF Complete, RestTyped
<1> QED
  BY <1>4, <1>6

LEMMA RestartKeeps ==
    ASSUME IInv, Restart
    PROVE  IInv'
<1>1. /\ \A u \in Uuids : upload[u] \in Upload
      /\ upload' = [u \in Uuids |-> IF upload[u].state = "open"
                                    THEN [upload[u] EXCEPT !.state = "ended"] ELSE upload[u]]
      /\ client' = [c \in Clients |-> Idle] /\ UNCHANGED <<temp, final, media>>
      /\ commit' = NoUuid /\ poisoned' = FALSE
  BY Records DEF IInv, Restart, blobs
<1>2. \A u \in Uuids : /\ upload'[u] \in Upload /\ upload'[u].state # "open"
                        /\ upload'[u].state = "new" => upload[u].state = "new"
  BY <1>1 DEF Upload
<1>3. upload' \in [Uuids -> Upload] /\ client' \in [Clients -> Client]
  <2> DEFINE Ended(u) == IF upload[u].state = "open"
                         THEN [upload[u] EXCEPT !.state = "ended"] ELSE upload[u]
  <2>1. upload' = [u \in Uuids |-> Ended(u)]
    BY <1>1
  <2>2. \A u \in Uuids : Ended(u) \in Upload
    BY <1>1 DEF Upload
  <2> HIDE DEF Ended
  <2>3. upload' \in [Uuids -> Upload]
    BY <2>1, <2>2
  <2> QED
    BY <1>1, <2>3, IdleTyped
<1>4. RestTyped'
  <2>1. budget' \in Budget
    BY Records DEF IInv, RestTyped, Restart, Budget
  <2> QED
    BY <1>1, <2>1, Records DEF IInv, RestTyped
<1>5. TypeOK'
  BY <1>1, <1>3, <1>4, Records, RecordsNext DEF IInv
<1>6. \A c \in Clients : Held(c)' /\ Commits(c)' /\ Links(c)' /\ ~Holds(c)'
  BY <1>1 DEF Idle, Held, Holds, Commits, Committing, Links
<1>7. Alone' /\ Files' /\ FileIsHashed' /\ BlobsAreWhole'
  BY <1>1, <1>2, <1>6 DEF IInv, Alone, Files, FileIsHashed, BlobsAreWhole
<1> QED
  BY <1>5, <1>6, <1>7 DEF IInv

-----------------------------------------------------------------------------

LEMMA Inductive == Spec => []IInv
<1>1. Init => IInv
  <2> SUFFICES ASSUME Init PROVE IInv
    OBVIOUS
  <2>1. NoUpload \in Upload /\ NoUpload.state = "new"
    BY DEF NoUpload, Upload
  <2>2. budget \in Budget
    BY DEF Init, Budget
  <2>3. TypeOK
    BY <2>1, <2>2, IdleTyped, Records DEF Init, RestTyped
  <2>4. \A c \in Clients : Held(c) /\ Commits(c) /\ Links(c) /\ ~Holds(c)
    BY DEF Init, Idle, Held, Holds, Commits, Committing, Links
  <2>5. Alone /\ Files /\ FileIsHashed /\ BlobsAreWhole
    BY <2>1, <2>4 DEF Init, Alone, Files, FileIsHashed, BlobsAreWhole
  <2> QED
    BY <2>3, <2>4, <2>5 DEF IInv
<1>2. IInv /\ [Next]_vars => IInv'
  <2> SUFFICES ASSUME IInv, [Next]_vars PROVE IInv'
    OBVIOUS
  <2>1. ASSUME NEW c \in Clients, Serve(c) PROVE IInv'
    <3>1. CASE Start(c)
      BY <3>1, StartKeeps
    <3>2. CASE WriteChunk(c)
      BY <3>2, WriteChunkKeeps
    <3>3. CASE Receive(c)
      BY <3>3, ReceiveKeeps
    <3>4. CASE AppendChunk(c)
      BY <3>4, AppendChunkKeeps
    <3>5. CASE ChunkFails(c) \/ Abandon(c) \/ LateAppend(c)
      BY <3>5, DropKeeps
    <3>6. CASE ChunkEnds(c)
      BY <3>6, ChunkEndsKeeps
    <3>7. CASE Complete(c) \/ Abort(c)
      BY <3>7, CompleteKeeps
    <3>8. CASE Rename(c) \/ WriteMedia(c) \/ CleanUp(c) \/ CleanFails(c)
      BY <3>8, CommitKeeps
    <3>9. CASE Mount(c) \/ Link(c) \/ LinkMedia(c) \/ List(c) \/ Delete(c)
      BY <3>9, MountKeeps
    <3> QED
      BY <2>1, <3>1, <3>2, <3>3, <3>4, <3>5, <3>6, <3>7, <3>8, <3>9 DEF Serve
  <2>2. CASE Restart
    BY <2>2, RestartKeeps
  <2>3. CASE UNCHANGED vars
    <3>1. TypeOK'
      BY <2>3, Records, RecordsNext DEF IInv, vars, blobs, RestTyped
    <3>2. \A c \in Clients : Held(c)' /\ Commits(c)' /\ Links(c)'
      BY <2>3 DEF IInv, vars, Held, Holds, Sent, Commits, Committing, Links
    <3>3. Alone' /\ Files' /\ FileIsHashed' /\ BlobsAreWhole'
      BY <2>3 DEF IInv, vars, blobs, Alone, Holds, Files, FileIsHashed, BlobsAreWhole
    <3> QED
      BY <3>1, <3>2, <3>3 DEF IInv
  <2> QED
    BY <2>1, <2>2, <2>3 DEF Next
<1> QED
  BY <1>1, <1>2, PTL DEF Spec

\* Uploads, files, requests and the mutex keep their types, whatever fails.
THEOREM TypeCorrect == Spec => []TypeOK
BY Inductive, PTL DEF IInv

\* Whoever may complete an upload has hashed what its file holds and nothing else.
THEOREM HashedCorrect == Spec => []FileIsHashed
BY Inductive, PTL DEF IInv

\* A blob that is served under a digest is the body it is the digest of.
THEOREM BlobsCorrect == Spec => []BlobsAreWhole
BY Inductive, PTL DEF IInv
=============================================================================
