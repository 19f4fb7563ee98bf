--------------------------- MODULE InstantTransfer ---------------------------
(***************************************************************************)
(* What is transferred: the contents behind the tasks of LCFileNetService   *)
(* and LCS3Hander.  An upload whose digest a finished task has is answered  *)
(* by a copy of that task's object; a download whose fileKey a finished     *)
(* task has, by a copy of that task's file (LCS3Hander.m, LCFileTaskDB.mm). *)
(*                                                                          *)
(* A content stands for its digest.  Pausing, cancelling, the queues and    *)
(* the status Progress, which no query here tells from Create or Failed,    *)
(* are the business of module LCFileNetService; here a task runs, fails,    *)
(* and may be started again.  A step is one access to the table, to the     *)
(* bucket or to the file system.                                            *)
(***************************************************************************)
CONSTANTS
    Tasks,         \* taskIds
    Keys,          \* fileKeys of the bucket
    Paths,         \* files on the device
    Contents,
    ErrorDigest,   \* the digest Md5Tools gives a file it cannot open
    None,          \* "nil"
    ReuseKeys,     \* whether other contents are uploaded under a used fileKey
    RewriteFiles   \* whether files that tasks refer to are given other contents

ASSUME ContentAssumption ==
    /\ None \notin Contents \cup Paths \cup Keys \cup Tasks
    /\ ErrorDigest \notin Contents \cup {None}
    /\ ReuseKeys \in BOOLEAN /\ RewriteFiles \in BOOLEAN

VARIABLES
    object,   \* the bucket: fileKey -> content
    file,     \* the file system: path -> content
    task,     \* the LCFileNetTask instance of a task that was started
    row,      \* the table of LCFileTaskDB
    work      \* where the transfer of a task is

instantVars == <<object, file, task, row, work>>

TaskRecord ==
    [type : {"Upload", "Download"}, key : Keys, path : Paths,
     md5 : Contents \cup {ErrorDigest, None},
     status : {"Create", "Finish", "Failed", "Interrupt"}]
ASSUME TaskAssumption == None \notin TaskRecord

(* A transfer's place in the code, the finished task it copies from, and    *)
(* whether it ends with an error.                                           *)
Place == {"idle", "ask", "copy", "transfer", "digest", "update", "save"}
Work == [at : Place, from : TaskRecord \cup {None}, err : BOOLEAN]
Idle == [at |-> "idle", from |-> None, err |-> FALSE]

TypeOK ==
    /\ object \in [Keys -> Contents \cup {None}]
    /\ file \in [Paths -> Contents \cup {None}]
    /\ task \in [Tasks -> TaskRecord \cup {None}]
    /\ row \in [Tasks -> TaskRecord \cup {None}]
    /\ work \in [Tasks -> Work]

Init ==
    /\ object = [k \in Keys |-> None]
    /\ file = [p \in Paths |-> None]
    /\ task = [t \in Tasks |-> None]
    /\ row = [t \in Tasks |-> None]
    /\ work = [t \in Tasks |-> Idle]

At(t, place) == work[t].at = place
Goto(t, place) == work' = [work EXCEPT ![t].at = place]
Fail(t) == work' = [work EXCEPT ![t].at = "update", ![t].err = TRUE]
Succeed(t) == work' = [work EXCEPT ![t].at = "update", ![t].err = FALSE]

-----------------------------------------------------------------------------
(* How careful the app is.                                                  *)

(* The content a task is about, as far as it is known.                      *)
ContentOf(r) == IF r.type = "Upload" THEN r.md5 ELSE object[r.key]
(* The tasks as they are in memory, in the table, and in a copy's hands.    *)
Records ==
    {r \in UNION {{task[t], row[t], work[t].from} : t \in Tasks} : r # None}

MayPut(k, c) ==
    \/ ReuseKeys
    \/ /\ object[k] \in {None, c}
       /\ \A r \in Records : r.type = "Upload" /\ r.key = k => r.md5 = c

MayWrite(p, c) ==
    \/ RewriteFiles
    \/ \A r \in Records : r.path = p => ContentOf(r) = c

MayDownloadTo(p) ==
    \/ RewriteFiles
    \/ file[p] = None /\ \A r \in Records : r.path # p

-----------------------------------------------------------------------------
(* lc_startTask of a new task: p_checkTask takes the digest of an upload's  *)
(* file, the row is saved, the operation is queued.                         *)
lc_startTask(t, new) ==
    /\ task[t] = None
    /\ new.type = "Upload" => file[new.path] # None
    /\ LET r == [new EXCEPT !.md5 = IF new.type = "Upload" THEN file[new.path] ELSE None]
       IN  task' = [task EXCEPT ![t] = r] /\ row' = [row EXCEPT ![t] = r]
    /\ work' = [work EXCEPT ![t] = [Idle EXCEPT !.at = "ask"]]
    /\ UNCHANGED <<object, file>>

Start(t) ==
    \E k \in Keys, p \in Paths :
        \/ /\ MayPut(k, file[p])
           /\ lc_startTask(t, [type |-> "Upload", key |-> k, path |-> p,
                               md5 |-> None, status |-> "Create"])
        \/ /\ MayDownloadTo(p)
           /\ lc_startTask(t, [type |-> "Download", key |-> k, path |-> p,
                               md5 |-> None, status |-> "Create"])

(* lc_startTask of a task that failed or was interrupted: the digest it has *)
(* is kept.                                                                 *)
StartAgain(t) ==
    /\ At(t, "idle") /\ task[t] # None /\ task[t].status \in {"Failed", "Interrupt"}
    /\ task[t].type = "Upload" => file[task[t].path] # None
    /\ Goto(t, "ask")
    /\ UNCHANGED <<object, file, task, row>>

(* p_startUpload, p_startDownload: the transfer utility is asked, unless    *)
(* the file of an upload is missing.                                        *)
p_start(t) ==
    IF task[t].type = "Upload" /\ file[task[t].path] = None
    THEN Fail(t) ELSE Goto(t, "transfer")

(* Mutants: the digest, or the fileKey, is not compared. *)
SameTasks_AnyDigest(t) ==
    {s \in Tasks : /\ row[s] # None /\ row[s].status = "Finish"
                   /\ task[t].type = "Download" => row[s].key = task[t].key}
SameTasks_AnyKey(t) ==
    {s \in Tasks : /\ row[s] # None /\ row[s].status = "Finish"
                   /\ task[t].type = "Upload" => row[s].md5 = task[t].md5}

(* lc_getTaskByMd5, lc_getTaskByFileKey: the finished tasks to copy from.   *)
SameTasks(t) ==
    {s \in Tasks : /\ row[s] # None /\ row[s].status = "Finish"
                   /\ IF task[t].type = "Upload" THEN row[s].md5 = task[t].md5
                      ELSE row[s].key = task[t].key}

(* lc_fileNetHanderUpload, lc_fileNetHanderDownload and the start of        *)
(* p_copyTask.  A file that is gone is not copied.                          *)
HanderStart(t) ==
    /\ At(t, "ask")
    /\ \/ /\ SameTasks(t) = {}
          /\ p_start(t)
       \/ \E s \in SameTasks(t) :
            IF task[t].type = "Download" /\ file[row[s].path] = None
            THEN p_start(t)
            ELSE work' = [work EXCEPT ![t].at = "copy", ![t].from = row[s]]
    /\ UNCHANGED <<object, file, task, row>>

(* Mutant: the error of the copy is not looked at. *)
CopyFails_Ignored(t) == Succeed(t)

(* Mutant: a failed copy is answered by nothing. *)
CopyFails_Silent(t) == UNCHANGED work

(* The callback of p_copyTask with an error: the transfer takes its place.  *)
CopyFails(t) == p_start(t)

(* lc_copyFile: the bucket copies the object; then the url is asked for.    *)
(* Either may fail.                                                         *)
lc_copyFile(t) ==
    /\ At(t, "copy") /\ task[t].type = "Upload"
    /\ \/ /\ object[work[t].from.key] # None
          /\ object' = [object EXCEPT ![task[t].key] = object[work[t].from.key]]
          /\ Succeed(t) \/ CopyFails(t)
       \/ CopyFails(t) /\ UNCHANGED object
    /\ UNCHANGED <<file, task, row>>

(* copyItemAtPath: fails also when the target is there.                     *)
copyItem(t) ==
    /\ At(t, "copy") /\ task[t].type = "Download"
    /\ \/ /\ file[work[t].from.path] # None /\ file[task[t].path] = None
          /\ file' = [file EXCEPT ![task[t].path] = file[work[t].from.path]]
          /\ Goto(t, "digest")
       \/ CopyFails(t) /\ UNCHANGED file
    /\ UNCHANGED <<object, task, row>>

(* The transfer utility: an upload reads the file when it runs, and the url *)
(* is asked for; a download replaces the file.                              *)
Transfer(t) ==
    /\ At(t, "transfer")
    /\ LET r == task[t]
       IN  \/ /\ r.type = "Upload" /\ file[r.path] # None
              /\ object' = [object EXCEPT ![r.key] = file[r.path]]
              /\ Succeed(t) \/ Fail(t)
              /\ UNCHANGED file
           \/ /\ r.type = "Download" /\ object[r.key] # None
              /\ file' = [file EXCEPT ![r.path] = object[r.key]]
              /\ Goto(t, "digest")
              /\ UNCHANGED object
           \/ Fail(t) /\ UNCHANGED <<object, file>>
    /\ UNCHANGED <<task, row>>

(* fileMD5WithPath of a file that arrived. *)
fileMD5WithPath(p) == IF file[p] = None THEN ErrorDigest ELSE file[p]

DigestFile(t) ==
    /\ At(t, "digest")
    /\ task' = [task EXCEPT ![t].md5 = fileMD5WithPath(task[t].path)]
    /\ Succeed(t)
    /\ UNCHANGED <<object, file, row>>

(* The finish block: the status is set and written, ...                     *)
UpdateStatus(t) ==
    LET status == IF work[t].err THEN "Failed" ELSE "Finish"
    IN  /\ At(t, "update")
        /\ task' = [task EXCEPT ![t].status = status]
        /\ row' = [row EXCEPT ![t].status = status]
        /\ Goto(t, "save")
        /\ UNCHANGED <<object, file>>

(* ... then lc_saveTask writes the whole task. *)
lc_saveTask(t) ==
    /\ At(t, "save")
    /\ row' = [row EXCEPT ![t] = task[t]]
    /\ work' = [work EXCEPT ![t] = Idle]
    /\ UNCHANGED <<object, file, task>>

(* lc_updatetask:filePath: writes the row, and not the cached task.         *)
lc_updatetask(t, p) ==
    /\ row[t] # None /\ row[t].path # p
    /\ RewriteFiles \/ (file[p] # None /\ file[p] = ContentOf(row[t]))
    /\ row' = [row EXCEPT ![t].path = p]
    /\ UNCHANGED <<object, file, task, work>>

(* The app is killed and launched again; the tasks are those of the table.  *)
(* (A transfer that the system completes in the background is one of the    *)
(* writes below.)                                                           *)
Restart ==
    /\ task' = [t \in Tasks |->
                    IF row[t] # None /\ row[t].status = "Create"
                    THEN [row[t] EXCEPT !.status = "Interrupt"] ELSE row[t]]
    /\ work' = [t \in Tasks |-> Idle]
    /\ UNCHANGED <<object, file, row>>

(* The app and other users of the bucket.                                   *)
WriteFile(p, c) ==
    /\ c # file[p] /\ MayWrite(p, c)
    /\ file' = [file EXCEPT ![p] = c]
    /\ UNCHANGED <<object, task, row, work>>

DeleteFile(p) ==
    /\ file[p] # None
    /\ file' = [file EXCEPT ![p] = None]
    /\ UNCHANGED <<object, task, row, work>>

PutObject(k, c) ==
    /\ c # object[k] /\ MayPut(k, c)
    /\ object' = [object EXCEPT ![k] = c]
    /\ UNCHANGED <<file, task, row, work>>

Run(t) ==
    \/ HanderStart(t) \/ lc_copyFile(t) \/ copyItem(t) \/ Transfer(t)
    \/ DigestFile(t) \/ UpdateStatus(t) \/ lc_saveTask(t)

Next ==
    \/ \E t \in Tasks : Start(t) \/ StartAgain(t) \/ Run(t)
    \/ \E t \in Tasks, p \in Paths : lc_updatetask(t, p)
    \/ \E p \in Paths : DeleteFile(p) \/ \E c \in Contents : WriteFile(p, c)
    \/ \E k \in Keys, c \in Contents : PutObject(k, c)
    \/ Restart

Spec == Init /\ [][Next]_instantVars

-----------------------------------------------------------------------------
(* Where fileKeys name contents and files are not rewritten, a finished row *)
(* tells the truth, also while other tasks run, fail and copy, and when the *)
(* app was killed between the writes of the finish block: the object        *)
(* of an upload is the file whose digest the row has, the digest of a       *)
(* download is that of the object, and a file at the row's path is the      *)
(* object.  This is what the digest and fileKey queries rely on.            *)
FinishedIsTrue ==
    \A t \in Tasks :
        row[t] # None /\ row[t].status = "Finish" =>
            /\ IF row[t].type = "Upload" THEN row[t].md5 = object[row[t].key]
               ELSE row[t].md5 \in {None, ErrorDigest, object[row[t].key]}
            /\ file[row[t].path] \in {None, object[row[t].key]}

(* The copy that answers an upload gives what the upload would have given:  *)
(* the object becomes the file whose digest was looked up (README.md:8, "by *)
(* MD5 and FileKey it is decided whether the file was uploaded or           *)
(* downloaded already; if so, copy").                                       *)
UploadCopyIsFile ==
    [][\A t \in Tasks : lc_copyFile(t) /\ object' # object
            => object'[task[t].key] = task[t].md5]_instantVars

(* The copy that answers a download gives the object of the fileKey.        *)
DownloadCopyIsObject ==
    [][\A t \in Tasks : copyItem(t) /\ file' # file
            => file'[task[t].path] = object[task[t].key]]_instantVars

(* A task that was started is never stuck: a copy that fails, a file that   *)
(* is gone and a transfer that fails all go on to the finish block, whatever*)
(* other tasks, the app and the bucket's users did since it was started.    *)
TaskGoesOn ==
    \A t \in Tasks : ~At(t, "idle") => ENABLED <<Run(t)>>_instantVars
=============================================================================
