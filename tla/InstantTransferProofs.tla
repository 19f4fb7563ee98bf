----------------------- MODULE InstantTransferProofs -----------------------
(* Proofs about InstantTransfer, for any number of tasks, fileKeys, paths   *)
(* and contents, of an app that puts one content under a fileKey and does   *)
(* not rewrite the files of its tasks.                                      *)
EXTENDS InstantTransfer, TLAPS

Careful == ~ReuseKeys /\ ~RewriteFiles

(* A task in memory and its row are about the same transfer, and a transfer *)
(* under way has what its place needs.                                      *)
WorkOf(t) ==
    /\ task[t] = None <=> row[t] = None
    /\ task[t] # None => task[t].type = row[t].type /\ task[t].key = row[t].key
    /\ work[t].at # "idle" => task[t] # None
    /\ work[t].at = "copy" =>
            /\ work[t].from # None /\ work[t].from.status = "Finish"
            /\ task[t].type = "Upload" => work[t].from.md5 = task[t].md5
            /\ task[t].type = "Download" => work[t].from.key = task[t].key
    /\ work[t].at = "digest" => task[t].type = "Download"
    /\ work[t].at = "update" /\ ~work[t].err /\ task[t].type = "Upload"
            => object[task[t].key] = task[t].md5

WorkFits == \A t \in Tasks : WorkOf(t)

(* The digest of an upload is what its object is or will be, and is when    *)
(* the upload is finished; the digest of a download is that of its object,  *)
(* or of nothing.                                                           *)
DigestsAreTrue ==
    \A r \in Records :
        /\ r.type = "Upload" =>
                /\ r.md5 \in Contents
                /\ object[r.key] \in {None, r.md5}
                /\ r.status = "Finish" => object[r.key] = r.md5
        /\ r.type = "Download" => r.md5 \in {None, ErrorDigest, object[r.key]}

(* A file is the content of every task that refers to it.                   *)
FilesAreTrue == \A r \in Records : file[r.path] \in {None, ContentOf(r)}

(* A fileKey names one content, ...                                         *)
KeysNameContents ==
    \A r, s \in Records :
        r.type = "Upload" /\ s.type = "Upload" /\ r.key = s.key => r.md5 = s.md5

(* ... and a path is shared by tasks of one content only.                   *)
PathsAreShared ==
    \A r, s \in Records :
        r.path = s.path =>
            \/ r.type = "Download" /\ s.type = "Download" /\ r.key = s.key
            \/ ContentOf(r) = ContentOf(s) /\ ContentOf(r) # None

RecordsInv == DigestsAreTrue /\ FilesAreTrue /\ KeysNameContents /\ PathsAreShared

InstantInv == TypeOK /\ WorkFits /\ RecordsInv

-----------------------------------------------------------------------------
LEMMA InitInstant == Init => InstantInv
  <1> SUFFICES ASSUME Init PROVE InstantInv
    OBVIOUS
  <1>1. TypeOK
    BY DEF Init, TypeOK, Idle, Work, Place
  <1>2. WorkFits
    BY DEF Init, WorkFits, WorkOf, Idle
  <1>3. Records = {}
    BY DEF Init, Records, Idle
  <1> QED BY <1>1, <1>2, <1>3
      DEF InstantInv, RecordsInv, DigestsAreTrue, FilesAreTrue, KeysNameContents, PathsAreShared

LEMMA RecordsFacts ==
    ASSUME TypeOK
    PROVE  /\ Records \subseteq TaskRecord
           /\ \A r : r \in Records <=>
                    r # None /\ \E t \in Tasks : r = task[t] \/ r = row[t] \/ r = work[t].from
  BY DEF Records, TypeOK, Work

LEMMA NewRecords ==
    ASSUME NEW r, r \in Records'
    PROVE  r # None /\ \E t \in Tasks : r = task'[t] \/ r = row'[t] \/ r = work'[t].from
  BY DEF Records

LEMMA RecordType ==
    ASSUME NEW r \in TaskRecord
    PROVE  /\ r.type \in {"Upload", "Download"} /\ r.type = "Upload" <=> r.type # "Download"
           /\ r.key \in Keys /\ r.path \in Paths /\ r # None
           /\ r.md5 \in Contents \cup {ErrorDigest, None}
           /\ r.status \in {"Create", "Finish", "Failed", "Interrupt"}
  BY TaskAssumption DEF TaskRecord

(* Record n is record r with, at most, another status or digest.            *)
Continues(n, r) ==
    /\ n.type = r.type /\ n.key = r.key /\ n.path = r.path
    /\ n.type = "Upload" => /\ n.md5 = r.md5
                            /\ n.status = "Finish" => object[n.key] = n.md5
    /\ n.type = "Download" => n.md5 \in {None, ErrorDigest, object[n.key]}

LEMMA ContinuesFacts ==
    ASSUME NEW n, NEW r, Continues(n, r)
    PROVE  /\ n.type = r.type /\ n.key = r.key /\ n.path = r.path
           /\ n.type = "Upload" => n.md5 = r.md5
           /\ ContentOf(n) = ContentOf(r)
  BY DEF Continues, ContentOf

(* A step that leaves bucket and files alone, after which every record      *)
(* continues an old one.                                                    *)
LEMMA RecordsChange ==
    ASSUME InstantInv, UNCHANGED <<object, file>>, TypeOK',
           \A n \in Records' : \E r \in Records : Continues(n, r)
    PROVE  RecordsInv'
  <1> USE DEF InstantInv, RecordsInv
  <1>1. DigestsAreTrue'
    BY DEF DigestsAreTrue, Continues
  <1>2. \A r : ContentOf(r)' = ContentOf(r)
    BY DEF ContentOf
  <1>3. FilesAreTrue'
    BY <1>2, ContinuesFacts DEF FilesAreTrue
  <1>4. KeysNameContents'
    BY ContinuesFacts DEF KeysNameContents
  <1>5. PathsAreShared'
    <2> SUFFICES ASSUME NEW n \in Records', NEW m \in Records', n.path = m.path
                 PROVE  \/ n.type = "Download" /\ m.type = "Download" /\ n.key = m.key
                        \/ ContentOf(n) = ContentOf(m) /\ ContentOf(n) # None
      BY <1>2 DEF PathsAreShared
    <2>1. PICK r \in Records : Continues(n, r)
      OBVIOUS
    <2>2. PICK s \in Records : Continues(m, s)
      OBVIOUS
    <2>3. r.path = s.path
      BY <2>1, <2>2, ContinuesFacts
    <2>4. \/ r.type = "Download" /\ s.type = "Download" /\ r.key = s.key
          \/ ContentOf(r) = ContentOf(s) /\ ContentOf(r) # None
      BY <2>3 DEF PathsAreShared
    <2> QED BY <2>1, <2>2, <2>4, ContinuesFacts
  <1> QED BY <1>1, <1>3, <1>4, <1>5

(* A step on the bucket or the files that keeps to the contents of the      *)
(* tasks.                                                                   *)
LEMMA ContentsChange ==
    ASSUME InstantInv, Records' \subseteq Records,
           \A k \in Keys : object[k] # None => object'[k] = object[k],
           \A r \in Records : r.type = "Upload" => object'[r.key] \in {None, r.md5},
           \A r \in Records : file'[r.path] \in {None, ContentOf(r)'}
    PROVE  RecordsInv'
  <1> USE DEF InstantInv, RecordsInv
  <1>1. \A r \in Records : /\ r.key \in Keys
                           /\ r.type = "Upload" <=> r.type # "Download"
    BY RecordsFacts, RecordType
  <1>2. \A r \in Records : ContentOf(r) # None => ContentOf(r)' = ContentOf(r)
    BY <1>1 DEF ContentOf
  <1>3. DigestsAreTrue'
    <2> SUFFICES ASSUME NEW r \in Records
                 PROVE  /\ r.type = "Upload" =>
                                /\ r.md5 \in Contents
                                /\ object'[r.key] \in {None, r.md5}
                                /\ r.status = "Finish" => object'[r.key] = r.md5
                        /\ r.type = "Download" => r.md5 \in {None, ErrorDigest, object'[r.key]}
      BY DEF DigestsAreTrue
    <2> QED BY <1>1, ContentAssumption DEF DigestsAreTrue
  <1>4. FilesAreTrue'
    BY DEF FilesAreTrue
  <1>5. KeysNameContents'
    BY DEF KeysNameContents
  <1>6. PathsAreShared'
    <2> SUFFICES ASSUME NEW r \in Records, NEW s \in Records, r.path = s.path
                 PROVE  \/ r.type = "Download" /\ s.type = "Download" /\ r.key = s.key
                        \/ ContentOf(r)' = ContentOf(s)' /\ ContentOf(r)' # None
      BY DEF PathsAreShared
    <2> QED BY <1>2 DEF PathsAreShared
  <1> QED BY <1>3, <1>4, <1>5, <1>6

(* A record r is added.                                                     *)
LEMMA RecordsAdd ==
    ASSUME InstantInv, NEW r \in TaskRecord, Records' \subseteq Records \cup {r},
           UNCHANGED <<object, file>>,
           r.type = "Upload" => /\ r.md5 \in Contents /\ object[r.key] \in {None, r.md5}
                                /\ r.status = "Finish" => object[r.key] = r.md5,
           r.type = "Download" => r.md5 \in {None, ErrorDigest, object[r.key]},
           file[r.path] \in {None, ContentOf(r)},
           \A s \in Records : r.type = "Upload" /\ s.type = "Upload" /\ r.key = s.key
                => r.md5 = s.md5,
           \A s \in Records : r.path = s.path =>
                \/ r.type = "Download" /\ s.type = "Download" /\ r.key = s.key
                \/ ContentOf(r) = ContentOf(s) /\ ContentOf(r) # None
    PROVE  RecordsInv'
  <1> USE DEF InstantInv, RecordsInv
  <1>1. r.type = "Upload" <=> r.type # "Download"
    BY RecordType
  <1>2. \A s : ContentOf(s)' = ContentOf(s)
    BY DEF ContentOf
  <1>3. DigestsAreTrue'
    BY DEF DigestsAreTrue
  <1>4. FilesAreTrue'
    BY <1>2 DEF FilesAreTrue
  <1>5. KeysNameContents'
    BY DEF KeysNameContents
  <1>6. r.type = "Download" \/ ContentOf(r) # None
    BY <1>1, ContentAssumption DEF ContentOf
  <1>7. PathsAreShared'
    BY <1>2, <1>6 DEF PathsAreShared
  <1> QED BY <1>3, <1>4, <1>5, <1>7

(* What is on record of contents only grows.                                *)
Stable == \A k \in Keys : object[k] # None => object'[k] = object[k]

(* A task that a step leaves alone.                                         *)
LEMMA OtherWork ==
    ASSUME InstantInv, Stable, NEW d \in Tasks,
           task'[d] = task[d], row'[d] = row[d], work'[d] = work[d]
    PROVE  WorkOf(d)'
  <1>1. WorkOf(d)
    BY DEF InstantInv, WorkFits
  <1>2. task[d] # None => /\ task[d] \in Records /\ task[d].key \in Keys
                          /\ task[d].type = "Upload" => task[d].md5 # None
    <2>1. task[d] # None => task[d] \in Records
      BY RecordsFacts DEF InstantInv
    <2>2. task[d] # None => task[d].key \in Keys
      BY <2>1, RecordsFacts, RecordType DEF InstantInv
    <2>3. task[d] # None /\ task[d].type = "Upload" => task[d].md5 \in Contents
      BY <2>1 DEF InstantInv, RecordsInv, DigestsAreTrue
    <2> QED BY <2>1, <2>2, <2>3, ContentAssumption
  <1> QED BY <1>1, <1>2 DEF WorkOf, Stable

LEMMA WorkSet ==
    ASSUME work \in [Tasks -> Work], NEW t \in Tasks, NEW w \in Work,
           work' = [work EXCEPT ![t] = w]
    PROVE  /\ work' \in [Tasks -> Work] /\ work'[t] = w
           /\ \A d \in Tasks : d # t => work'[d] = work[d]
  OBVIOUS

LEMMA GotoWork ==
    ASSUME work \in [Tasks -> Work], NEW t \in Tasks, NEW place \in Place, Goto(t, place)
    PROVE  /\ work' \in [Tasks -> Work]
           /\ work'[t].at = place /\ work'[t].from = work[t].from /\ work'[t].err = work[t].err
           /\ \A d \in Tasks : d # t => work'[d] = work[d]
  <1> DEFINE w == [work[t] EXCEPT !.at = place]
  <1>1. w \in Work /\ w.at = place /\ w.from = work[t].from /\ w.err = work[t].err
    BY DEF Work
  <1>2. work' = [work EXCEPT ![t] = w]
    BY DEF Goto
  <1> HIDE DEF w
  <1> QED BY <1>1, <1>2

LEMMA EndWork ==
    ASSUME work \in [Tasks -> Work], NEW t \in Tasks, Fail(t) \/ Succeed(t)
    PROVE  /\ work' \in [Tasks -> Work]
           /\ work'[t].at = "update" /\ work'[t].from = work[t].from
           /\ Fail(t) => work'[t].err = TRUE
           /\ \A d \in Tasks : d # t => work'[d] = work[d]
  <1>1. ASSUME NEW e \in BOOLEAN, work' = [work EXCEPT ![t].at = "update", ![t].err = e]
        PROVE  /\ work' \in [Tasks -> Work]
               /\ work'[t].at = "update" /\ work'[t].from = work[t].from
               /\ work'[t].err = e
               /\ \A d \in Tasks : d # t => work'[d] = work[d]
    <2> DEFINE w == [work[t] EXCEPT !.at = "update", !.err = e]
    <2>1. w \in Work /\ w.at = "update" /\ w.from = work[t].from /\ w.err = e
      BY DEF Work, Place
    <2>2. work' = [work EXCEPT ![t] = w]
      BY <1>1 DEF Work
    <2> HIDE DEF w
    <2> QED BY <2>1, <2>2
  <1>2. CASE Fail(t)
    BY <1>1, <1>2 DEF Fail
  <1>3. CASE Succeed(t) /\ ~Fail(t)
    BY <1>1, <1>3 DEF Succeed
  <1> QED BY <1>2, <1>3

(* A step that changes no task and no row and takes nothing new in hand.    *)
LEMMA SameRecords ==
    ASSUME TypeOK, UNCHANGED <<task, row>>,
           \A t \in Tasks : work'[t].from \in Records \cup {None, work[t].from}
    PROVE  Records' \subseteq Records
  BY RecordsFacts, NewRecords

(* A step of task t on its place alone.                                     *)
LEMMA PlaceStep ==
    ASSUME InstantInv, NEW t \in Tasks, UNCHANGED <<object, file, task, row>>,
           work' \in [Tasks -> Work], \A d \in Tasks : d # t => work'[d] = work[d],
           work'[t].from \in Records \cup {None, work[t].from},
           WorkOf(t)'
    PROVE  InstantInv'
  <1> USE DEF InstantInv
  <1>1. Records' \subseteq Records
    BY SameRecords
  <1>2. \A d \in Tasks : d # t => WorkOf(d)'
    BY OtherWork DEF Stable
  <1>3. TypeOK'
    BY DEF TypeOK
  <1>4. \A r \in Records : ContentOf(r)' = ContentOf(r)
    BY DEF ContentOf
  <1>5. RecordsInv'
    BY <1>1, <1>4, ContentsChange DEF RecordsInv, DigestsAreTrue, FilesAreTrue
  <1> QED BY <1>2, <1>3, <1>5 DEF WorkFits

(* p_start, of a task that is known.                                        *)
LEMMA StartPlace ==
    ASSUME InstantInv, NEW t \in Tasks, task[t] # None, p_start(t),
           UNCHANGED <<task, row>>
    PROVE  /\ work' \in [Tasks -> Work]
           /\ \A d \in Tasks : d # t => work'[d] = work[d]
           /\ work'[t].from = work[t].from
           /\ WorkOf(t)'
  <1>1. WorkOf(t) /\ work \in [Tasks -> Work] /\ "transfer" \in Place
    BY DEF InstantInv, WorkFits, TypeOK, Place
  <1>2. CASE Fail(t)
    BY <1>1, <1>2, EndWork DEF WorkOf
  <1>3. CASE Goto(t, "transfer")
    BY <1>1, <1>3, GotoWork DEF WorkOf
  <1> QED BY <1>2, <1>3 DEF p_start

LEMMA AgainInstant ==
    ASSUME InstantInv, NEW t \in Tasks, StartAgain(t)
    PROVE  InstantInv'
  <1>1. /\ work \in [Tasks -> Work] /\ WorkOf(t) /\ Goto(t, "ask") /\ "ask" \in Place
        /\ task[t] # None /\ UNCHANGED <<object, file, task, row>>
    BY DEF InstantInv, TypeOK, WorkFits, StartAgain, Place
  <1>2. /\ work' \in [Tasks -> Work] /\ work'[t].at = "ask" /\ work'[t].from = work[t].from
        /\ \A d \in Tasks : d # t => work'[d] = work[d]
    BY <1>1, GotoWork
  <1>3. WorkOf(t)'
    BY <1>1, <1>2 DEF WorkOf
  <1> QED BY <1>1, <1>2, <1>3, PlaceStep

LEMMA HanderInstant ==
    ASSUME InstantInv, NEW t \in Tasks, HanderStart(t)
    PROVE  InstantInv'
  <1>1. /\ TypeOK /\ work \in [Tasks -> Work] /\ WorkOf(t) /\ work[t].at = "ask"
        /\ task[t] # None /\ UNCHANGED <<object, file, task, row>>
    BY DEF InstantInv, TypeOK, WorkFits, HanderStart, At, WorkOf
  <1>2. CASE p_start(t)
    BY <1>1, <1>2, StartPlace, PlaceStep
  <1>3. ASSUME NEW s \in SameTasks(t),
               work' = [work EXCEPT ![t].at = "copy", ![t].from = row[s]]
        PROVE  InstantInv'
    <2>1. /\ s \in Tasks /\ row[s] # None /\ row[s].status = "Finish"
          /\ IF task[t].type = "Upload" THEN row[s].md5 = task[t].md5
             ELSE row[s].key = task[t].key
      BY DEF SameTasks
    <2>2. row[s] \in Records /\ row[s] \in TaskRecord
      BY <1>1, <2>1, RecordsFacts
    <2> DEFINE w == [work[t] EXCEPT !.at = "copy", !.from = row[s]]
    <2>3. w \in Work /\ w.at = "copy" /\ w.from = row[s]
      BY <1>1, <2>2 DEF Work, Place
    <2>4. work' = [work EXCEPT ![t] = w]
      BY <1>1, <1>3 DEF Work
    <2> HIDE DEF w
    <2>5. /\ work' \in [Tasks -> Work] /\ work'[t].at = "copy" /\ work'[t].from = row[s]
          /\ \A d \in Tasks : d # t => work'[d] = work[d]
      BY <1>1, <2>3, <2>4, WorkSet
    <2>6. WorkOf(t)'
      BY <1>1, <2>1, <2>5 DEF WorkOf
    <2> QED BY <1>1, <2>2, <2>5, <2>6, PlaceStep
  <1> QED BY <1>2, <1>3 DEF HanderStart

(* A step of task t on the bucket or the files.                             *)
LEMMA ContentsStep ==
    ASSUME InstantInv, NEW t \in Tasks, UNCHANGED <<task, row>>,
           object' \in [Keys -> Contents \cup {None}],
           file' \in [Paths -> Contents \cup {None}],
           work' \in [Tasks -> Work], \A d \in Tasks : d # t => work'[d] = work[d],
           work'[t].from = work[t].from,
           Stable,
           \A r \in Records : r.type = "Upload" => object'[r.key] \in {None, r.md5},
           \A r \in Records : file'[r.path] \in {None, ContentOf(r)'},
           WorkOf(t)'
    PROVE  InstantInv'
  <1> USE DEF InstantInv
  <1>1. Records' \subseteq Records
    BY SameRecords
  <1>2. \A d \in Tasks : d # t => WorkOf(d)'
    BY OtherWork
  <1>3. TypeOK'
    BY DEF TypeOK
  <1>4. RecordsInv'
    BY <1>1, ContentsChange DEF Stable
  <1> QED BY <1>2, <1>3, <1>4 DEF WorkFits

(* An object that becomes the content of an upload.                         *)
LEMMA ObjectOfUpload ==
    ASSUME InstantInv, NEW u \in Records, u.type = "Upload", file' = file,
           object' = [object EXCEPT ![u.key] = u.md5]
    PROVE  /\ object' \in [Keys -> Contents \cup {None}] /\ object'[u.key] = u.md5
           /\ Stable
           /\ \A r \in Records : r.type = "Upload" => object'[r.key] \in {None, r.md5}
           /\ \A r \in Records : file'[r.path] \in {None, ContentOf(r)'}
  <1> USE DEF InstantInv, RecordsInv
  <1>1. \A r \in Records : r.key \in Keys /\ r.path \in Paths
    BY RecordsFacts, RecordType
  <1>2. u.key \in Keys /\ u.md5 \in Contents /\ object[u.key] \in {None, u.md5}
    BY <1>1 DEF DigestsAreTrue
  <1>3. \A k \in Keys : object'[k] = IF k = u.key THEN u.md5 ELSE object[k]
    BY DEF TypeOK
  <1>4. Stable
    BY <1>2, <1>3 DEF Stable
  <1>5. \A r \in Records : r.type = "Upload" => object'[r.key] \in {None, r.md5}
    BY <1>1, <1>3 DEF DigestsAreTrue, KeysNameContents
  <1>6. \A r \in Records : file'[r.path] \in {None, ContentOf(r)'}
    BY <1>1, <1>4 DEF Stable, FilesAreTrue, ContentOf
  <1> QED BY <1>2, <1>3, <1>4, <1>5, <1>6 DEF TypeOK

(* A file that becomes the object of a download.                            *)
LEMMA FileOfDownload ==
    ASSUME InstantInv, NEW u \in Records, u.type = "Download", object' = object,
           object[u.key] # None,
           file' = [file EXCEPT ![u.path] = object[u.key]]
    PROVE  /\ file' \in [Paths -> Contents \cup {None}] /\ file'[u.path] = object[u.key]
           /\ Stable
           /\ \A r \in Records : r.type = "Upload" => object'[r.key] \in {None, r.md5}
           /\ \A r \in Records : file'[r.path] \in {None, ContentOf(r)'}
  <1> USE DEF InstantInv, RecordsInv
  <1>1. \A r \in Records : r.key \in Keys /\ r.path \in Paths
                           /\ (r.type = "Upload" <=> r.type # "Download")
    BY RecordsFacts, RecordType
  <1>2. \A p \in Paths : file'[p] = IF p = u.path THEN object[u.key] ELSE file[p]
    BY DEF TypeOK
  <1>3. \A r \in Records : ContentOf(r)' = ContentOf(r)
    BY DEF ContentOf
  <1>4. ContentOf(u) = object[u.key] /\ object[u.key] \in Contents
    BY <1>1 DEF ContentOf, TypeOK
  <1>5. ASSUME NEW r \in Records PROVE file'[r.path] \in {None, ContentOf(r)}
    <2>1. CASE r.path = u.path
      <3>1. \/ r.type = "Download" /\ r.key = u.key
            \/ ContentOf(r) = ContentOf(u)
        BY <2>1 DEF PathsAreShared
      <3>2. ContentOf(r) = object[u.key]
        BY <1>4, <3>1 DEF ContentOf
      <3> QED BY <1>1, <1>2, <2>1, <3>2
    <2>2. CASE r.path # u.path
      BY <1>1, <1>2, <2>2 DEF FilesAreTrue
    <2> QED BY <2>1, <2>2
  <1>6. \A r \in Records : r.type = "Upload" => object'[r.key] \in {None, r.md5}
    BY DEF DigestsAreTrue
  <1> QED BY <1>1, <1>2, <1>3, <1>4, <1>5, <1>6 DEF TypeOK, Stable

(* What a copy finds in the finished task it copies from.                   *)
LEMMA CopySource ==
    ASSUME InstantInv, NEW t \in Tasks, work[t].at = "copy"
    PROVE  /\ task[t] # None /\ task[t] \in Records
           /\ task[t].type = "Upload" => object[work[t].from.key] = task[t].md5
           /\ task[t].type = "Download" =>
                    file[work[t].from.path] \in {None, object[task[t].key]}
  <1> DEFINE from == work[t].from
  <1>1. /\ task[t] # None /\ from # None /\ from.status = "Finish"
        /\ task[t].type = "Upload" => from.md5 = task[t].md5
        /\ task[t].type = "Download" => from.key = task[t].key
    BY DEF InstantInv, WorkFits, WorkOf
  <1>2. task[t] \in Records /\ from \in Records /\ from \in TaskRecord
    BY <1>1, RecordsFacts DEF InstantInv
  <1>3. from.type = "Upload" <=> from.type # "Download"
    BY <1>2, RecordType
  <1> HIDE DEF from
  <1>4. ASSUME task[t].type = "Upload" PROVE object[from.key] = task[t].md5
    <2>1. task[t].md5 \in Contents
      BY <1>2, <1>4 DEF InstantInv, RecordsInv, DigestsAreTrue
    <2>2. from.type = "Upload" => object[from.key] = from.md5
      BY <1>1, <1>2 DEF InstantInv, RecordsInv, DigestsAreTrue
    <2>3. from.type = "Download" => from.md5 \in {None, ErrorDigest, object[from.key]}
      BY <1>2 DEF InstantInv, RecordsInv, DigestsAreTrue
    <2> QED BY <1>1, <1>3, <1>4, <2>1, <2>2, <2>3, ContentAssumption
  <1>5. ASSUME task[t].type = "Download"
        PROVE  file[from.path] \in {None, object[task[t].key]}
    <2>1. file[from.path] \in {None, ContentOf(from)}
      BY <1>2 DEF InstantInv, RecordsInv, FilesAreTrue
    <2>2. from.type = "Upload" => object[from.key] = from.md5
      BY <1>1, <1>2 DEF InstantInv, RecordsInv, DigestsAreTrue
    <2> QED BY <1>1, <1>5, <2>1, <2>2 DEF ContentOf
  <1> QED BY <1>1, <1>2, <1>4, <1>5 DEF from

(* A copy or a transfer of an upload gives the object the digest of the     *)
(* task.                                                                    *)
LEMMA UploadStep ==
    ASSUME InstantInv, NEW t \in Tasks, task[t] # None, task[t].type = "Upload",
           object' = [object EXCEPT ![task[t].key] = task[t].md5],
           UNCHANGED <<file, task, row>>,
           Succeed(t) \/ p_start(t) \/ Fail(t)
    PROVE  InstantInv'
  <1>1. task[t] \in Records /\ work \in [Tasks -> Work] /\ WorkOf(t)
    BY RecordsFacts DEF InstantInv, TypeOK, WorkFits
  <1>2. /\ object' \in [Keys -> Contents \cup {None}]
        /\ object'[task[t].key] = task[t].md5
        /\ Stable
        /\ \A r \in Records : r.type = "Upload" => object'[r.key] \in {None, r.md5}
        /\ \A r \in Records : file'[r.path] \in {None, ContentOf(r)'}
    BY <1>1, ObjectOfUpload
  <1>3. file' \in [Paths -> Contents \cup {None}]
    BY DEF InstantInv, TypeOK
  <1>4. /\ work' \in [Tasks -> Work] /\ work'[t].from = work[t].from
        /\ \A d \in Tasks : d # t => work'[d] = work[d]
        /\ WorkOf(t)'
    <2>1. CASE Succeed(t) \/ Fail(t)
      BY <1>1, <1>2, <2>1, EndWork DEF WorkOf
    <2>2. CASE p_start(t)
      BY <2>2, StartPlace
    <2> QED BY <2>1, <2>2
  <1> QED BY <1>2, <1>3, <1>4, ContentsStep

LEMMA DownloadStep ==
    ASSUME InstantInv, NEW t \in Tasks, task[t] # None, task[t].type = "Download",
           object[task[t].key] # None,
           file' = [file EXCEPT ![task[t].path] = object[task[t].key]],
           UNCHANGED <<object, task, row>>,
           Goto(t, "digest")
    PROVE  InstantInv'
  <1>1. /\ task[t] \in Records /\ work \in [Tasks -> Work] /\ WorkOf(t)
        /\ "digest" \in Place
    BY RecordsFacts DEF InstantInv, TypeOK, WorkFits, Place
  <1>2. /\ file' \in [Paths -> Contents \cup {None}]
        /\ Stable
        /\ \A r \in Records : r.type = "Upload" => object'[r.key] \in {None, r.md5}
        /\ \A r \in Records : file'[r.path] \in {None, ContentOf(r)'}
    BY <1>1, FileOfDownload
  <1>3. object' \in [Keys -> Contents \cup {None}]
    BY DEF InstantInv, TypeOK
  <1>4. /\ work' \in [Tasks -> Work] /\ work'[t].from = work[t].from
        /\ work'[t].at = "digest"
        /\ \A d \in Tasks : d # t => work'[d] = work[d]
    BY <1>1, GotoWork
  <1>5. WorkOf(t)'
    BY <1>1, <1>4 DEF WorkOf
  <1> QED BY <1>2, <1>3, <1>4, <1>5, ContentsStep

(* A step that only sends a task on to the transfer or to its end.          *)
LEMMA GiveUp ==
    ASSUME InstantInv, NEW t \in Tasks, task[t] # None, p_start(t) \/ Fail(t),
           UNCHANGED <<object, file, task, row>>
    PROVE  InstantInv'
  <1>1. work \in [Tasks -> Work] /\ WorkOf(t)
    BY DEF InstantInv, TypeOK, WorkFits
  <1>2. /\ work' \in [Tasks -> Work] /\ work'[t].from = work[t].from
        /\ \A d \in Tasks : d # t => work'[d] = work[d]
        /\ WorkOf(t)'
    <2>1. CASE Fail(t)
      BY <1>1, <2>1, EndWork DEF WorkOf
    <2>2. CASE p_start(t)
      BY <2>2, StartPlace
    <2> QED BY <2>1, <2>2
  <1> QED BY <1>2, PlaceStep

LEMMA CopyInstant ==
    ASSUME InstantInv, NEW t \in Tasks, lc_copyFile(t) \/ copyItem(t)
    PROVE  InstantInv'
  <1>1. work[t].at = "copy" /\ UNCHANGED <<task, row>>
    BY DEF lc_copyFile, copyItem, At
  <1>2. /\ task[t] # None /\ task[t] \in Records
        /\ task[t].type = "Upload" => object[work[t].from.key] = task[t].md5
        /\ task[t].type = "Download" =>
                 file[work[t].from.path] \in {None, object[task[t].key]}
    BY <1>1, CopySource
  <1>3. CASE lc_copyFile(t)
    <2>1. /\ task[t].type = "Upload" /\ file' = file
          /\ \/ /\ object' = [object EXCEPT ![task[t].key] = object[work[t].from.key]]
                /\ Succeed(t) \/ p_start(t)
             \/ p_start(t) /\ object' = object
      BY <1>3 DEF lc_copyFile, CopyFails
    <2>2. CASE /\ object' = [object EXCEPT ![task[t].key] = object[work[t].from.key]]
               /\ Succeed(t) \/ p_start(t)
      BY <1>1, <1>2, <2>1, <2>2, UploadStep
    <2>3. CASE p_start(t) /\ object' = object
      BY <1>1, <1>2, <2>1, <2>3, GiveUp
    <2> QED BY <2>1, <2>2, <2>3
  <1>4. CASE copyItem(t)
    <2>1. /\ task[t].type = "Download" /\ object' = object
          /\ \/ /\ file[work[t].from.path] # None
                /\ file' = [file EXCEPT ![task[t].path] = file[work[t].from.path]]
                /\ Goto(t, "digest")
             \/ p_start(t) /\ file' = file
      BY <1>4 DEF copyItem, CopyFails
    <2>2. CASE /\ file[work[t].from.path] # None
               /\ file' = [file EXCEPT ![task[t].path] = file[work[t].from.path]]
               /\ Goto(t, "digest")
      BY <1>1, <1>2, <2>1, <2>2, DownloadStep
    <2>3. CASE p_start(t) /\ file' = file
      BY <1>1, <1>2, <2>1, <2>3, GiveUp
    <2> QED BY <2>1, <2>2, <2>3
  <1> QED BY <1>3, <1>4

LEMMA TransferInstant ==
    ASSUME InstantInv, NEW t \in Tasks, Transfer(t)
    PROVE  InstantInv'
  <1>1. work[t].at = "transfer" /\ UNCHANGED <<task, row>>
    BY DEF Transfer, At
  <1>2. task[t] # None /\ task[t] \in Records
    BY <1>1, RecordsFacts DEF InstantInv, WorkFits, WorkOf
  <1>3. CASE /\ task[t].type = "Upload" /\ file[task[t].path] # None
             /\ object' = [object EXCEPT ![task[t].key] = file[task[t].path]]
             /\ Succeed(t) \/ Fail(t)
             /\ UNCHANGED file
    <2>1. file[task[t].path] = task[t].md5
      BY <1>2, <1>3 DEF InstantInv, RecordsInv, FilesAreTrue, ContentOf
    <2> QED BY <1>1, <1>2, <1>3, <2>1, UploadStep
  <1>4. CASE /\ task[t].type = "Download" /\ object[task[t].key] # None
             /\ file' = [file EXCEPT ![task[t].path] = object[task[t].key]]
             /\ Goto(t, "digest")
             /\ UNCHANGED object
    BY <1>1, <1>2, <1>4, DownloadStep
  <1>5. CASE Fail(t) /\ UNCHANGED <<object, file>>
    BY <1>1, <1>2, <1>5, GiveUp
  <1> QED BY <1>3, <1>4, <1>5 DEF Transfer

(* A step that rewrites what is known of task t, bucket and files alone.    *)
LEMMA TaskStep ==
    ASSUME InstantInv, NEW t \in Tasks, UNCHANGED <<object, file>>,
           task' \in [Tasks -> TaskRecord \cup {None}],
           row' \in [Tasks -> TaskRecord \cup {None}],
           work' \in [Tasks -> Work],
           \A d \in Tasks : d # t => /\ task'[d] = task[d] /\ row'[d] = row[d]
                                     /\ work'[d] = work[d],
           WorkOf(t)', RecordsInv'
    PROVE  InstantInv'
  <1>1. \A d \in Tasks : d # t => WorkOf(d)'
    BY OtherWork DEF Stable
  <1>2. TypeOK'
    BY DEF InstantInv, TypeOK
  <1> QED BY <1>1, <1>2 DEF InstantInv, WorkFits

LEMMA DigestInstant ==
    ASSUME InstantInv, NEW t \in Tasks, DigestFile(t)
    PROVE  InstantInv'
  <1> DEFINE d == fileMD5WithPath(task[t].path)
             n == [task[t] EXCEPT !.md5 = d]
  <1> USE DEF InstantInv
  <1>1. /\ work[t].at = "digest" /\ Succeed(t) /\ UNCHANGED <<object, file, row>>
        /\ task' = [task EXCEPT ![t].md5 = d]
    BY DEF DigestFile, At
  <1>2. /\ WorkOf(t) /\ work \in [Tasks -> Work]
        /\ task[t] # None /\ task[t].type = "Download" /\ task[t] \in Records
    BY <1>1, RecordsFacts DEF WorkFits, WorkOf, TypeOK
  <1>3. task[t] \in TaskRecord
    BY <1>2, RecordsFacts
  <1>4. d \in Contents \cup {ErrorDigest} /\ d \in {ErrorDigest, object[task[t].key]}
    <2>1. file[task[t].path] \in {None, object[task[t].key]}
      BY <1>2 DEF RecordsInv, FilesAreTrue, ContentOf
    <2>2. file[task[t].path] \in Contents \cup {None}
      BY <1>3, RecordType DEF TypeOK
    <2> QED BY <2>1, <2>2 DEF fileMD5WithPath
  <1> HIDE DEF d
  <1>5. /\ n \in TaskRecord /\ n.type = task[t].type /\ n.key = task[t].key
        /\ n.path = task[t].path /\ n.md5 = d
    BY <1>3, <1>4 DEF TaskRecord
  <1>6. task' = [task EXCEPT ![t] = n]
    BY <1>1
  <1> HIDE DEF n
  <1>7. /\ task' \in [Tasks -> TaskRecord \cup {None}] /\ task'[t] = n
        /\ \A s \in Tasks : s # t => task'[s] = task[s]
    BY <1>5, <1>6 DEF TypeOK
  <1>8. /\ work' \in [Tasks -> Work] /\ work'[t].at = "update" /\ work'[t].from = work[t].from
        /\ \A s \in Tasks : s # t => work'[s] = work[s]
    BY <1>1, <1>2, EndWork
  <1>9. n # None
    BY <1>5, RecordType
  <1>10. WorkOf(t)'
    BY <1>1, <1>2, <1>5, <1>7, <1>8, <1>9 DEF WorkOf
  <1>11. TypeOK'
    BY <1>1, <1>7, <1>8 DEF TypeOK
  <1>12. ASSUME NEW m \in Records' PROVE m \in Records \cup {n}
    BY <1>1, <1>7, <1>8, NewRecords, RecordsFacts
  <1>13. RecordsInv'
    <2> SUFFICES ASSUME NEW m \in Records'
                 PROVE  \E r \in Records : Continues(m, r)
      BY <1>1, <1>11, RecordsChange
    <2>1. CASE m \in Records
      BY <2>1 DEF RecordsInv, DigestsAreTrue, Continues
    <2>2. CASE m = n
      BY <1>2, <1>4, <1>5, <2>2 DEF Continues
    <2> QED BY <1>12, <2>1, <2>2
  <1> QED BY <1>1, <1>7, <1>8, <1>10, <1>13, TaskStep DEF TypeOK

LEMMA UpdateInstant ==
    ASSUME InstantInv, NEW t \in Tasks, UpdateStatus(t)
    PROVE  InstantInv'
  <1> DEFINE status == IF work[t].err THEN "Failed" ELSE "Finish"
             n == [task[t] EXCEPT !.status = status]
             m == [row[t] EXCEPT !.status = status]
  <1> USE DEF InstantInv
  <1>1. /\ work[t].at = "update" /\ Goto(t, "save") /\ UNCHANGED <<object, file>>
        /\ task' = [task EXCEPT ![t] = n] /\ row' = [row EXCEPT ![t] = m]
        /\ "save" \in Place
    BY DEF UpdateStatus, At, Place
  <1>2. /\ WorkOf(t) /\ work \in [Tasks -> Work]
        /\ task[t] # None /\ row[t] # None
        /\ task[t].type = row[t].type /\ task[t].key = row[t].key
        /\ ~work[t].err /\ task[t].type = "Upload" => object[task[t].key] = task[t].md5
    BY <1>1 DEF WorkFits, WorkOf, TypeOK
  <1>3. /\ task[t] \in Records /\ row[t] \in Records
        /\ task[t] \in TaskRecord /\ row[t] \in TaskRecord
    BY <1>2, RecordsFacts
  <1>4. status \in {"Failed", "Finish"} /\ (status = "Finish" => ~work[t].err)
    OBVIOUS
  <1> HIDE DEF status
  <1>5. /\ n \in TaskRecord /\ n.type = task[t].type /\ n.key = task[t].key
        /\ n.path = task[t].path /\ n.md5 = task[t].md5 /\ n.status = status
    BY <1>3, <1>4 DEF TaskRecord
  <1>6. /\ m \in TaskRecord /\ m.type = row[t].type /\ m.key = row[t].key
        /\ m.path = row[t].path /\ m.md5 = row[t].md5 /\ m.status = status
    BY <1>3, <1>4 DEF TaskRecord
  <1>7. n # None /\ m # None
    BY <1>5, <1>6, RecordType
  <1> HIDE DEF n, m
  <1>8. /\ task' \in [Tasks -> TaskRecord \cup {None}] /\ task'[t] = n
        /\ row' \in [Tasks -> TaskRecord \cup {None}] /\ row'[t] = m
        /\ \A s \in Tasks : s # t => task'[s] = task[s] /\ row'[s] = row[s]
    BY <1>1, <1>5, <1>6 DEF TypeOK
  <1>9. /\ work' \in [Tasks -> Work] /\ work'[t].at = "save" /\ work'[t].from = work[t].from
        /\ \A s \in Tasks : s # t => work'[s] = work[s]
    BY <1>1, <1>2, GotoWork
  <1>10. WorkOf(t)'
    BY <1>2, <1>5, <1>6, <1>7, <1>8, <1>9 DEF WorkOf
  <1>11. TypeOK'
    BY <1>1, <1>8, <1>9 DEF TypeOK
  <1>12. ASSUME NEW x \in Records' PROVE x \in Records \cup {n, m}
    BY <1>8, <1>9, NewRecords, RecordsFacts
  <1>13. task[t].type = "Upload" => row[t].md5 = task[t].md5
    BY <1>2, <1>3 DEF RecordsInv, KeysNameContents
  <1>14. RecordsInv'
    <2> SUFFICES ASSUME NEW x \in Records'
                 PROVE  \E r \in Records : Continues(x, r)
      BY <1>1, <1>11, RecordsChange
    <2>1. CASE x \in Records
      BY <2>1 DEF RecordsInv, DigestsAreTrue, Continues
    <2>2. CASE x = n
      <3>1. Continues(n, task[t])
        BY <1>2, <1>3, <1>4, <1>5 DEF RecordsInv, DigestsAreTrue, Continues
      <3> QED BY <1>3, <2>2, <3>1
    <2>3. CASE x = m
      <3>1. Continues(m, row[t])
        BY <1>2, <1>3, <1>4, <1>6, <1>13 DEF RecordsInv, DigestsAreTrue, Continues
      <3> QED BY <1>3, <2>3, <3>1
    <2> QED BY <1>12, <2>1, <2>2, <2>3
  <1> QED BY <1>1, <1>8, <1>9, <1>10, <1>14, TaskStep

LEMMA IdleWork == Idle \in Work /\ Idle.at = "idle" /\ Idle.from = None
  BY DEF Idle, Work, Place

LEMMA SaveInstant ==
    ASSUME InstantInv, NEW t \in Tasks, lc_saveTask(t)
    PROVE  InstantInv'
  <1> USE DEF InstantInv
  <1>1. /\ work[t].at = "save" /\ UNCHANGED <<object, file, task>>
        /\ row' = [row EXCEPT ![t] = task[t]] /\ work' = [work EXCEPT ![t] = Idle]
    BY DEF lc_saveTask, At
  <1>2. /\ work \in [Tasks -> Work] /\ task[t] # None /\ task[t] \in TaskRecord
        /\ task[t] \in Records
    BY <1>1, RecordsFacts DEF WorkFits, WorkOf, TypeOK
  <1>3. /\ row' \in [Tasks -> TaskRecord \cup {None}] /\ row'[t] = task[t]
        /\ \A s \in Tasks : s # t => row'[s] = row[s]
    BY <1>1, <1>2 DEF TypeOK
  <1>4. /\ work' \in [Tasks -> Work] /\ work'[t] = Idle
        /\ \A s \in Tasks : s # t => work'[s] = work[s]
    BY <1>1, <1>2, IdleWork, WorkSet
  <1>5. WorkOf(t)'
    BY <1>1, <1>2, <1>3, <1>4, IdleWork DEF WorkOf
  <1>6. TypeOK'
    BY <1>1, <1>3, <1>4 DEF TypeOK
  <1>7. ASSUME NEW x \in Records' PROVE x \in Records
    BY <1>1, <1>2, <1>3, <1>4, IdleWork, NewRecords, RecordsFacts
  <1>8. RecordsInv'
    BY <1>1, <1>6, <1>7, RecordsChange DEF RecordsInv, DigestsAreTrue, Continues
  <1> QED BY <1>1, <1>3, <1>4, <1>5, <1>8, TaskStep DEF TypeOK

LEMMA PathInstant ==
    ASSUME InstantInv, Careful, NEW t \in Tasks, NEW p \in Paths, lc_updatetask(t, p)
    PROVE  InstantInv'
  <1> DEFINE n == [row[t] EXCEPT !.path = p]
  <1> USE DEF InstantInv
  <1>1. /\ row[t] # None /\ file[p] # None /\ file[p] = ContentOf(row[t])
        /\ row' = [row EXCEPT ![t] = n] /\ UNCHANGED <<object, file, task, work>>
    BY DEF lc_updatetask, Careful
  <1>2. row[t] \in Records /\ row[t] \in TaskRecord
    BY <1>1, RecordsFacts
  <1>3. /\ n \in TaskRecord /\ n.type = row[t].type /\ n.key = row[t].key
        /\ n.path = p /\ n.md5 = row[t].md5 /\ n.status = row[t].status
    BY <1>2 DEF TaskRecord
  <1>4. n # None
    BY <1>3, RecordType
  <1> HIDE DEF n
  <1>5. /\ row' \in [Tasks -> TaskRecord \cup {None}] /\ row'[t] = n
        /\ \A s \in Tasks : s # t => row'[s] = row[s]
    BY <1>1, <1>3 DEF TypeOK
  <1>6. WorkOf(t)'
    BY <1>1, <1>3, <1>4, <1>5 DEF WorkFits, WorkOf
  <1>7. ContentOf(n) = ContentOf(row[t])
    BY <1>3 DEF ContentOf
  <1>8. ASSUME NEW x \in Records' PROVE x \in Records \cup {n}
    BY <1>1, <1>5, NewRecords, RecordsFacts
  <1>9. /\ n.type = "Upload" => /\ n.md5 \in Contents /\ object[n.key] \in {None, n.md5}
                                /\ n.status = "Finish" => object[n.key] = n.md5
        /\ n.type = "Download" => n.md5 \in {None, ErrorDigest, object[n.key]}
    BY <1>2, <1>3 DEF RecordsInv, DigestsAreTrue
  <1>10. file[n.path] \in {None, ContentOf(n)}
    BY <1>1, <1>3, <1>7
  <1>11. \A s \in Records : n.type = "Upload" /\ s.type = "Upload" /\ n.key = s.key
                => n.md5 = s.md5
    BY <1>2, <1>3 DEF RecordsInv, KeysNameContents
  <1>12. \A s \in Records : n.path = s.path => ContentOf(n) = ContentOf(s) /\ ContentOf(n) # None
    BY <1>1, <1>3, <1>7 DEF RecordsInv, FilesAreTrue
  <1>13. RecordsInv'
    BY <1>1, <1>3, <1>8, <1>9, <1>10, <1>11, <1>12, RecordsAdd
  <1> QED BY <1>1, <1>5, <1>6, <1>13, TaskStep DEF TypeOK

(* A new task, with the digest that p_checkTask took.                       *)
LEMMA NewTask ==
    ASSUME InstantInv, NEW t \in Tasks, NEW r \in TaskRecord, r.status = "Create",
           task' = [task EXCEPT ![t] = r], row' = [row EXCEPT ![t] = r],
           work' = [work EXCEPT ![t] = [Idle EXCEPT !.at = "ask"]],
           UNCHANGED <<object, file>>,
           r.type = "Upload" => /\ r.md5 \in Contents /\ object[r.key] \in {None, r.md5}
                                /\ file[r.path] = r.md5,
           r.type = "Download" => r.md5 = None /\ file[r.path] = None,
           \A s \in Records : r.type = "Upload" /\ s.type = "Upload" /\ r.key = s.key
                => r.md5 = s.md5,
           \A s \in Records : r.path = s.path => r.type = "Upload"
    PROVE  InstantInv'
  <1> USE DEF InstantInv
  <1> DEFINE w == [Idle EXCEPT !.at = "ask"]
  <1>1. w \in Work /\ w.at = "ask" /\ w.from = None
    BY DEF Idle, Work, Place
  <1>2. r # None /\ (r.type = "Upload" <=> r.type # "Download")
    BY RecordType
  <1>3. work' = [work EXCEPT ![t] = w]
    OBVIOUS
  <1> HIDE DEF w
  <1>4. /\ work' \in [Tasks -> Work] /\ work'[t] = w
        /\ \A d \in Tasks : d # t => work'[d] = work[d]
    BY <1>1, <1>3, WorkSet DEF TypeOK
  <1>5. /\ task' \in [Tasks -> TaskRecord \cup {None}] /\ task'[t] = r
        /\ row' \in [Tasks -> TaskRecord \cup {None}] /\ row'[t] = r
        /\ \A d \in Tasks : d # t => task'[d] = task[d] /\ row'[d] = row[d]
    BY DEF TypeOK
  <1>6. WorkOf(t)'
    BY <1>1, <1>2, <1>4, <1>5 DEF WorkOf
  <1>7. ASSUME NEW n \in Records' PROVE n \in Records \cup {r}
    <2>1. PICK d \in Tasks : n # None /\ (n = task'[d] \/ n = row'[d] \/ n = work'[d].from)
      BY NewRecords
    <2>2. CASE d = t
      BY <1>1, <1>4, <1>5, <2>1, <2>2
    <2>3. CASE d # t
      <3>1. n = task[d] \/ n = row[d] \/ n = work[d].from
        BY <1>4, <1>5, <2>1, <2>3
      <3> QED BY <2>1, <3>1, RecordsFacts
    <2> QED BY <2>2, <2>3
  <1>8. file[r.path] \in {None, ContentOf(r)}
    BY <1>2 DEF ContentOf
  <1>9. ASSUME NEW s \in Records, r.path = s.path
        PROVE  ContentOf(r) = ContentOf(s) /\ ContentOf(r) # None
    <2>1. r.type = "Upload" /\ file[r.path] = r.md5 /\ r.md5 \in Contents
      BY <1>9
    <2>2. file[r.path] \in {None, ContentOf(s)}
      BY <1>9 DEF RecordsInv, FilesAreTrue
    <2> QED BY <2>1, <2>2, ContentAssumption DEF ContentOf
  <1>10. RecordsInv'
    BY <1>7, <1>8, <1>9, RecordsAdd
  <1> QED BY <1>4, <1>5, <1>6, <1>10, TaskStep

LEMMA StartInstant ==
    ASSUME InstantInv, Careful, NEW t \in Tasks, Start(t)
    PROVE  InstantInv'
  <1> USE DEF InstantInv
  <1>1. PICK k \in Keys, p \in Paths :
        \/ /\ MayPut(k, file[p])
           /\ lc_startTask(t, [type |-> "Upload", key |-> k, path |-> p,
                               md5 |-> None, status |-> "Create"])
        \/ /\ MayDownloadTo(p)
           /\ lc_startTask(t, [type |-> "Download", key |-> k, path |-> p,
                               md5 |-> None, status |-> "Create"])
    BY DEF Start
  <1>2. ASSUME MayPut(k, file[p]),
               lc_startTask(t, [type |-> "Upload", key |-> k, path |-> p,
                                md5 |-> None, status |-> "Create"])
        PROVE  InstantInv'
    <2> DEFINE r == [type |-> "Upload", key |-> k, path |-> p,
                     md5 |-> file[p], status |-> "Create"]
    <2> DEFINE new == [type |-> "Upload", key |-> k, path |-> p,
                       md5 |-> None, status |-> "Create"]
    <2>0. /\ new.type = "Upload" /\ new.path = p
          /\ r = [new EXCEPT !.md5 = IF new.type = "Upload" THEN file[new.path] ELSE None]
      OBVIOUS
    <2>1. /\ file[p] # None
          /\ task' = [task EXCEPT ![t] = r] /\ row' = [row EXCEPT ![t] = r]
          /\ work' = [work EXCEPT ![t] = [Idle EXCEPT !.at = "ask"]]
          /\ UNCHANGED <<object, file>>
      <3>1. lc_startTask(t, new)
        BY <1>2
      <3> HIDE DEF new, r
      <3> QED BY <2>0, <3>1 DEF lc_startTask
    <2>2. file[p] \in Contents
      BY <2>1 DEF TypeOK
    <2>3. /\ r \in TaskRecord /\ r.type = "Upload" /\ r.key = k /\ r.path = p
          /\ r.md5 = file[p] /\ r.status = "Create"
      BY <2>2 DEF TaskRecord
    <2> HIDE DEF r
    <2>4. /\ object[k] \in {None, file[p]}
          /\ \A s \in Records : s.type = "Upload" /\ s.key = k => s.md5 = file[p]
      BY <1>2 DEF MayPut, Careful
    <2> QED BY <2>1, <2>2, <2>3, <2>4, NewTask
  <1>3. ASSUME MayDownloadTo(p),
               lc_startTask(t, [type |-> "Download", key |-> k, path |-> p,
                                md5 |-> None, status |-> "Create"])
        PROVE  InstantInv'
    <2> DEFINE r == [type |-> "Download", key |-> k, path |-> p,
                     md5 |-> None, status |-> "Create"]
    <2> DEFINE new == [type |-> "Download", key |-> k, path |-> p,
                       md5 |-> None, status |-> "Create"]
    <2>0. /\ new.type = "Download" /\ new.path = p
          /\ r = [new EXCEPT !.md5 = IF new.type = "Upload" THEN file[new.path] ELSE None]
      OBVIOUS
    <2>1. /\ task' = [task EXCEPT ![t] = r] /\ row' = [row EXCEPT ![t] = r]
          /\ work' = [work EXCEPT ![t] = [Idle EXCEPT !.at = "ask"]]
          /\ UNCHANGED <<object, file>>
      <3>1. lc_startTask(t, new)
        BY <1>3
      <3> HIDE DEF new, r
      <3> QED BY <2>0, <3>1 DEF lc_startTask
    <2>2. /\ r \in TaskRecord /\ r.type = "Download" /\ r.key = k /\ r.path = p
          /\ r.md5 = None /\ r.status = "Create"
      BY DEF TaskRecord
    <2> HIDE DEF r
    <2>3. file[p] = None /\ \A s \in Records : s.path # p
      BY <1>3 DEF MayDownloadTo, Careful
    <2> QED BY <2>1, <2>2, <2>3, NewTask
  <1> QED BY <1>1, <1>2, <1>3

(* The tasks after a restart are the rows, some with another status.        *)
LEMMA RestartInstant ==
    ASSUME InstantInv, Restart
    PROVE  InstantInv'
  <1> USE DEF InstantInv
  <1> DEFINE n(t) == IF row[t] # None /\ row[t].status = "Create"
                     THEN [row[t] EXCEPT !.status = "Interrupt"] ELSE row[t]
  <1>1. /\ task' = [t \in Tasks |-> n(t)] /\ work' = [t \in Tasks |-> Idle]
        /\ UNCHANGED <<object, file, row>>
    BY DEF Restart
  <1>2. ASSUME NEW t \in Tasks
        PROVE  /\ n(t) \in TaskRecord \cup {None} /\ (n(t) = None <=> row[t] = None)
               /\ n(t) # None =>
                    /\ n(t).type = row[t].type /\ n(t).key = row[t].key
                    /\ n(t).path = row[t].path /\ n(t).md5 = row[t].md5
                    /\ n(t).status = "Finish" => row[t].status = "Finish"
    <2>1. CASE row[t] # None /\ row[t].status = "Create"
      <3> DEFINE m == [row[t] EXCEPT !.status = "Interrupt"]
      <3>1. row[t] \in TaskRecord
        BY <2>1 DEF TypeOK
      <3>2. /\ m \in TaskRecord /\ m.type = row[t].type /\ m.key = row[t].key
            /\ m.path = row[t].path /\ m.md5 = row[t].md5 /\ m.status = "Interrupt"
        BY <3>1 DEF TaskRecord
      <3>3. m # None
        BY <3>2, RecordType
      <3>4. n(t) = m
        BY <2>1
      <3> HIDE DEF m
      <3> QED BY <2>1, <3>2, <3>3, <3>4
    <2>2. CASE ~(row[t] # None /\ row[t].status = "Create")
      <3>1. n(t) = row[t]
        BY <2>2
      <3> HIDE DEF n
      <3> QED BY <3>1 DEF TypeOK
    <2> QED BY <2>1, <2>2
  <1> HIDE DEF n
  <1>3. TypeOK'
    BY <1>1, <1>2, IdleWork DEF TypeOK
  <1>4. WorkFits'
    BY <1>1, <1>2, IdleWork DEF WorkFits, WorkOf
  <1>5. ASSUME NEW x \in Records'
        PROVE  \E t \in Tasks : row[t] # None /\ (x = n(t) \/ x = row[t])
    BY <1>1, <1>2, IdleWork, NewRecords
  <1>6. RecordsInv'
    <2> SUFFICES ASSUME NEW x \in Records'
                 PROVE  \E r \in Records : Continues(x, r)
      BY <1>1, <1>3, RecordsChange
    <2>1. PICK t \in Tasks : row[t] # None /\ (x = n(t) \/ x = row[t])
      BY <1>5
    <2>2. row[t] \in Records
      BY <2>1, RecordsFacts
    <2>3. /\ x.type = row[t].type /\ x.key = row[t].key /\ x.path = row[t].path
          /\ x.md5 = row[t].md5 /\ (x.status = "Finish" => row[t].status = "Finish")
      BY <1>2, <2>1
    <2> QED BY <2>2, <2>3 DEF RecordsInv, DigestsAreTrue, Continues
  <1> QED BY <1>3, <1>4, <1>6

(* What the app and others do to the files and the bucket.                  *)
LEMMA OutsideInstant ==
    ASSUME InstantInv, UNCHANGED <<task, row, work>>,
           object' \in [Keys -> Contents \cup {None}],
           file' \in [Paths -> Contents \cup {None}],
           Stable,
           \A r \in Records : r.type = "Upload" => object'[r.key] \in {None, r.md5},
           \A r \in Records : file'[r.path] \in {None, ContentOf(r)'}
    PROVE  InstantInv'
  <1> USE DEF InstantInv
  <1>1. WorkFits'
    BY OtherWork DEF WorkFits
  <1>2. Records' \subseteq Records
    BY DEF Records
  <1>3. RecordsInv'
    BY <1>2, ContentsChange DEF Stable
  <1> QED BY <1>1, <1>3 DEF TypeOK

LEMMA FileInstant ==
    ASSUME InstantInv, Careful, NEW p \in Paths,
           DeleteFile(p) \/ \E c \in Contents : WriteFile(p, c)
    PROVE  InstantInv'
  <1> USE DEF InstantInv
  <1>1. PICK c \in Contents \cup {None} :
            /\ file' = [file EXCEPT ![p] = c] /\ UNCHANGED <<object, task, row, work>>
            /\ c = None \/ \A r \in Records : r.path = p => ContentOf(r) = c
    BY DEF DeleteFile, WriteFile, MayWrite, Careful
  <1>2. \A r \in Records : ContentOf(r)' = ContentOf(r) /\ r.path \in Paths
    BY <1>1, RecordsFacts, RecordType DEF ContentOf
  <1>3. \A r \in Records : file'[r.path] \in {None, ContentOf(r)'}
    BY <1>1, <1>2 DEF TypeOK, RecordsInv, FilesAreTrue
  <1>4. \A r \in Records : r.type = "Upload" => object'[r.key] \in {None, r.md5}
    BY <1>1 DEF RecordsInv, DigestsAreTrue
  <1>5. /\ file' \in [Paths -> Contents \cup {None}]
        /\ object' \in [Keys -> Contents \cup {None}] /\ Stable
    BY <1>1 DEF TypeOK, Stable
  <1> QED BY <1>1, <1>3, <1>4, <1>5, OutsideInstant

LEMMA ObjectInstant ==
    ASSUME InstantInv, Careful, NEW k \in Keys, NEW c \in Contents, PutObject(k, c)
    PROVE  InstantInv'
  <1> USE DEF InstantInv
  <1>1. /\ object' = [object EXCEPT ![k] = c] /\ UNCHANGED <<file, task, row, work>>
        /\ object[k] \in {None, c}
        /\ \A r \in Records : r.type = "Upload" /\ r.key = k => r.md5 = c
    BY DEF PutObject, MayPut, Careful
  <1>2. \A r \in Records : r.key \in Keys
    BY RecordsFacts, RecordType
  <1>3. \A j \in Keys : object'[j] = IF j = k THEN c ELSE object[j]
    BY <1>1 DEF TypeOK
  <1>4. Stable
    BY <1>1, <1>3 DEF Stable
  <1>5. \A r \in Records : r.type = "Upload" => object'[r.key] \in {None, r.md5}
    BY <1>1, <1>2, <1>3 DEF RecordsInv, DigestsAreTrue
  <1>6. \A r \in Records : file'[r.path] \in {None, ContentOf(r)'}
    BY <1>1, <1>2, <1>4 DEF Stable, RecordsInv, FilesAreTrue, ContentOf
  <1>7. /\ file' \in [Paths -> Contents \cup {None}]
        /\ object' \in [Keys -> Contents \cup {None}]
    BY <1>1 DEF TypeOK
  <1> QED BY <1>1, <1>4, <1>5, <1>6, <1>7, OutsideInstant

LEMMA StutterInstant ==
    ASSUME InstantInv, UNCHANGED instantVars
    PROVE  InstantInv'
  BY DEF InstantInv, instantVars, TypeOK, WorkFits, WorkOf, RecordsInv, DigestsAreTrue,
         FilesAreTrue, KeysNameContents, PathsAreShared, Records, ContentOf

LEMMA NextInstant ==
    ASSUME InstantInv, Careful, [Next]_instantVars
    PROVE  InstantInv'
  <1>1. ASSUME NEW t \in Tasks, Start(t) \/ StartAgain(t)
        PROVE  InstantInv'
    BY <1>1, StartInstant, AgainInstant
  <1>2. ASSUME NEW t \in Tasks, Run(t)
        PROVE  InstantInv'
    BY <1>2, HanderInstant, CopyInstant, TransferInstant, DigestInstant, UpdateInstant,
       SaveInstant DEF Run
  <1>3. ASSUME NEW t \in Tasks, NEW p \in Paths, lc_updatetask(t, p)
        PROVE  InstantInv'
    BY <1>3, PathInstant
  <1>4. ASSUME NEW p \in Paths, DeleteFile(p) \/ \E c \in Contents : WriteFile(p, c)
        PROVE  InstantInv'
    BY <1>4, FileInstant
  <1>5. ASSUME NEW k \in Keys, NEW c \in Contents, PutObject(k, c)
        PROVE  InstantInv'
    BY <1>5, ObjectInstant
  <1>6. CASE Restart
    BY <1>6, RestartInstant
  <1>7. CASE UNCHANGED instantVars
    BY <1>7, StutterInstant
  <1> QED BY <1>1, <1>2, <1>3, <1>4, <1>5, <1>6, <1>7 DEF Next

-----------------------------------------------------------------------------
LEMMA InstantHolds == ASSUME Careful PROVE Spec => []InstantInv
  <1>1. InstantInv /\ [Next]_instantVars => InstantInv'
    BY NextInstant
  <1> QED BY InitInstant, <1>1, PTL DEF Spec

(* FinishedIsTrue for every number of tasks, fileKeys, files and contents:  *)
(* when an app puts one content under a fileKey and does not rewrite the    *)
(* files of its tasks, what lc_getTaskByMd5 and lc_getTaskByFileKey read in *)
(* a finished row is what bucket and file system have.                      *)
THEOREM FinishedRowsAreTrue == ASSUME Careful PROVE Spec => []FinishedIsTrue
  <1>1. InstantInv => FinishedIsTrue
    <2> SUFFICES ASSUME InstantInv, NEW t \in Tasks, row[t] # None, row[t].status = "Finish"
                 PROVE  /\ IF row[t].type = "Upload" THEN row[t].md5 = object[row[t].key]
                           ELSE row[t].md5 \in {None, ErrorDigest, object[row[t].key]}
                        /\ file[row[t].path] \in {None, object[row[t].key]}
      BY DEF FinishedIsTrue
    <2>1. row[t] \in Records /\ (row[t].type = "Upload" <=> row[t].type # "Download")
      BY RecordsFacts, RecordType DEF InstantInv
    <2> QED BY <2>1 DEF InstantInv, RecordsInv, DigestsAreTrue, FilesAreTrue, ContentOf
  <1> QED BY <1>1, InstantHolds, PTL

(* UploadCopyIsFile for every instance: of a careful app, the object that   *)
(* lc_copyFile makes is the file the upload was asked for.                  *)
THEOREM UploadsAreCopiedRight == ASSUME Careful PROVE Spec => UploadCopyIsFile
  <1>1. ASSUME InstantInv
        PROVE  [\A t \in Tasks : lc_copyFile(t) /\ object' # object
                    => object'[task[t].key] = task[t].md5]_instantVars
    <2> SUFFICES ASSUME NEW t \in Tasks, lc_copyFile(t), object' # object
                 PROVE  object'[task[t].key] = task[t].md5
      OBVIOUS
    <2>1. /\ work[t].at = "copy" /\ task[t].type = "Upload"
          /\ object' = [object EXCEPT ![task[t].key] = object[work[t].from.key]]
      BY DEF lc_copyFile, At
    <2>2. /\ task[t] # None /\ task[t] \in Records
          /\ object[work[t].from.key] = task[t].md5
      BY <1>1, <2>1, CopySource
    <2>3. task[t].key \in Keys
      BY <1>1, <2>2, RecordsFacts, RecordType DEF InstantInv
    <2> QED BY <1>1, <2>1, <2>2, <2>3 DEF InstantInv, TypeOK
  <1> QED BY <1>1, InstantHolds, PTL DEF UploadCopyIsFile

(* DownloadCopyIsObject for every instance: of a careful app, the file that *)
(* copyItemAtPath makes is the object the download was asked for.           *)
THEOREM DownloadsAreCopiedRight == ASSUME Careful PROVE Spec => DownloadCopyIsObject
  <1>1. ASSUME InstantInv
        PROVE  [\A t \in Tasks : copyItem(t) /\ file' # file
                    => file'[task[t].path] = object[task[t].key]]_instantVars
    <2> SUFFICES ASSUME NEW t \in Tasks, copyItem(t), file' # file
                 PROVE  file'[task[t].path] = object[task[t].key]
      OBVIOUS
    <2>1. /\ work[t].at = "copy" /\ task[t].type = "Download"
          /\ file[work[t].from.path] # None
          /\ file' = [file EXCEPT ![task[t].path] = file[work[t].from.path]]
      BY DEF copyItem, At
    <2>2. /\ task[t] # None /\ task[t] \in Records
          /\ file[work[t].from.path] \in {None, object[task[t].key]}
      BY <1>1, <2>1, CopySource
    <2>3. task[t].path \in Paths
      BY <1>1, <2>2, RecordsFacts, RecordType DEF InstantInv
    <2> QED BY <1>1, <2>1, <2>2, <2>3 DEF InstantInv, TypeOK
  <1> QED BY <1>1, InstantHolds, PTL DEF DownloadCopyIsObject
=============================================================================
