# LCCFileService in TLA+

LCCFileService is an Objective-C pod that uploads and downloads files through a
pluggable handler (Amazon S3 in the repository), survives restarts by keeping its
tasks in a database, and stores local files with tags. This directory holds TLA+
modules that model its transfer side, its file store, its observer registry and its
digests, the TLC configurations that check them, and TLAPS proofs of the safety
properties of every one of these parts. Paths below are relative to
`src/LCCFileService/Classes/` unless they start with `src/`.

## 1. The system

| Component | State | Operations | Threads |
|---|---|---|---|
| `FileNetService/LCFileNetService` | `cache` (taskId -> task), three callback caches, `taskOperationDic`, `uploadQueue`, `downloadQueue` (one operation at a time each) | `lc_startTask`, `lc_resumTask`, `lc_getTask`, `lc_cancelTask`, `lc_pauseTask`, `lc_pauseAllTask`, the operation's delegate callbacks | callers (main thread); delegate callbacks on the operation's and the transfer's thread, with a `dispatch_sync` to main for every notification |
| `Model/LCFileNetOperation` | `finished`, `executing`, `cancelled`, its task and handler | `start`, `main`, `cancel`, `pause`, `p_notifyStart`, the finish blocks, `p_finishOperatioin` | queue thread, main thread, transfer thread |
| `Model/LCFileNetTask` | taskId, type, status, blocks, paths, keys, sizes | creation; stores to `status` from three kinds of thread | any |
| `FileNetService/DB/LCFileTaskDB` | one table keyed by taskId | save, update of status, sizes and path, delete, queries | any; each statement is atomic |
| `AWSS3/LCS3Hander` | `taskDic` (taskId -> AWS task) | start, copy, resume, cancel and pause of upload and download; completion handlers | queue thread, main thread, threads of the SDK |
| AWS transfer utility (vendored) | an `AWSS3TransferUtilityTask` per transfer | suspend, resume, cancel, completion handler | its own |
| `FileSaveService/LCFileSaveService`, `LCFileDB`, `LCFileM`, `LCFileTagM` | two tables (files, tags) and the file system | save, look up, tag, group, delete | callers |
| `ProtocolFinder` | registry of weak implementers per protocol | register, unregister, find | a private serial queue |
| `Md5Tools` | none | digest of a file read in chunks | callers |
| Example app, tests | - | - | - |

### Interactions

A caller starts a task. The service checks it, looks it up in its cache and then
in the database, keeps the caller's blocks, and gives an operation to a queue (its
own, or the one passed in). The queue starts the operation on a thread of its own;
`main` asks `LCS3Hander` to start or resume the transfer and then tells the service
that the task is in progress. The handler answers inside the call, or later on a
thread of the SDK; the answer's finish block stores the status, writes it to the
database, hops to the main thread to notify, saves the whole task, hops again to
call the blocks and finally marks the operation finished, which frees the queue.
Meanwhile the main thread may pause, cancel, resume or start the same task again.
No lock guards `task.status`, `cache`, `taskOperationDic` or `taskDic`.

### What is hard

* Three threads write one task's status and row, and none of the writes checks
  what it overwrites.
* The handler may answer before `main` has stored "Progress".
* A pause or cancel may find no AWS task yet, an ended one, or one that belongs to
  another operation of the same task.
* A finish block may be waiting for the main thread while the task is cancelled.
* The app may be killed between any two database statements, and between a file, its
  row and its tag.
* Transfers outlive the process and come back some time after the launch, or do not,
  or come back as something the SDK knows nothing of any more.
* An upload or download may be answered by a copy of what an earlier task left, which
  may have changed since.
* Registrations of observers are carried out later than they are asked for, and the
  observers may die in between.
* A file may grow while its digest is taken.
* A queue with one slot stops for good if its operation never finishes.

`PROJECT.json` lists each of these at its line under "hazards".

### What makes each component correct

* Service: cache, table, callback caches and operation dictionary describe the same
  tasks; no success is invented; a task is always startable or being worked on.
* Operation: once started it finishes, and its finish block runs once; pause and cancel
  stop its transfer.
* Task and table: the in-memory-only status never reaches the table; a cached task
  has a row.
* Handler: every transfer that is not suspended answers once, to the operation that
  waits for it.
* What is transferred: a finished row tells what the bucket and the device hold, and a
  copy gives what the transfer would have given.
* Transfers of an earlier launch: nothing runs that no task waits for, and a resume
  goes on with the transfer the task had.
* File store: what a save or a lookup returns is there, a content is on the disk once,
  only contents without a tag are removed, and a delete leaves nothing without a tag, as
  far as no other thread interferes; the first of these also depends on files and rows
  having been left together by whatever came before.
* ProtocolFinder: an inquiry sees the registrations asked for before it, in order,
  once each, and the objects it goes through are alive.
* Md5Tools: the digest of a file read in pieces is that of the whole file at some moment
  of the call.

## 2. Modules

| Module | What it models |
|---|---|
| `LCFileNetTask` | task instances, the status and type enumerations, the table and its statements |
| `LCS3Hander` | the life of a transfer and the handler's answers, as operators on an operation's record |
| `LCFileNetService` | the state machine of the service: public calls, operation threads, transfer threads, restart; composes the two modules above |
| `MCLCFileNetService` | symmetry and the bounds of the safety runs |
| `MCCaller` | a caller that makes only the calls named in `CallerCalls` besides starting new tasks; for the liveness runs |
| `LCFileNetServiceProofs` | type correctness and the consistency invariant |
| `LCFileNetServiceOutcome` | the proofs about answers: no success is made up, no started operation is left unserved, no finish block runs twice |
| `LCFileNetServiceStatus` | proofs about the statuses before the first run, Create and Interrupt |
| `InstantTransfer`, `MCInstantTransfer` | the contents behind the tasks: bucket, files, digests, copies instead of transfers |
| `InstantTransferProofs` | the proofs about them, for a careful app |
| `TransferHistory`, `MCTransferHistory` | AWS tasks of an earlier launch and `loadHistoryAWSTask` |
| `TransferHistoryProofs` | the proofs about them |
| `LCFileDB` | the two tables of the file store and their statements |
| `LCFileSaveService` | the file store, one step per access to a table or to the disk |
| `StoreCalls` | the store, with the memory of what came between the steps of each call |
| `MCStoreCalls` | symmetry and the bound of its run |
| `StoreCallsProofs` | the proofs about the store |
| `MCFileStore` | a caller of the store that never deletes, and what it tagged |
| `PointerArray` | what is left of an array of weak pointers when some objects are gone |
| `ObserverRegistry` | abstract: what a registry of weakly held observers promises |
| `ProtocolFinder` | the arrays behind the serial queue; implements `ObserverRegistry` |
| `ProtocolFinderProofs` | the proof that it does |
| `Md5Tools` | the two reading loops |
| `Md5ToolsProofs` | the proofs about the digests |

Definitions named `X_Something` next to a definition `X` are mutated forms of it; they
are used by nothing, and show that a property would notice the bug they describe.

### The transfer service: state and code

| Variable | Code |
|---|---|
| `task` | the `LCFileNetTask` instances of this launch; an unused one has id `None` |
| `cache`, `callbacks`, `opDic` | `cache`, the three callback caches, `taskOperationDic` |
| `row` | the table of `LCFileTaskDB` |
| `op[p].thread` | where the queue's thread is in `start`/`main`/`p_notifyStart` |
| `op[p].cb`, `err`, `sync`, `resumed`, `forget` | where the finish block is (`askUrl`: it waits for the url of an upload that had ended), its error, whether it runs inside the handler's call, whether it belongs to a resume, whether the completion handler still has to remove its `taskDic` entry |
| `op[p].transfer` | the AWS task of this operation |
| `op[p].cancelled`, `finished` | the NSOperation flags |
| `waiting` | the operations the service's two queues have not started |
| `taskDic` | `taskDic` of `LCS3Hander`; the operation stands for its AWS task |
| `main` | the pause or cancel the main thread is in the middle of |
| `delivered` | ghost: taskIds for which the handler reported a success |

### The transfer service: grain of the steps

A step is what one thread does between two points where another thread's write
can be seen.

* A public call is one step on the main thread, except that cancel and pause are
  split after the check of the status: a finish block may run in between.
  `lc_pauseAllTask` repeats check and rest for every key it took.
* The finish block is four steps: store the status, write it, save the whole task
  (with the notification it waits for on main), notify the end and free the slot.
  The two steps on main exclude public calls in progress.
* `main` of an operation is one step up to the handler's answer, then two steps for
  `p_notifyStart`. When the handler answers inside the call they come after the
  whole finish block.

### The transfer service: what is left out, and why

* Paths, keys and digests: no control of the service depends on them, apart from the
  file's existence (a free choice at each call) and the digest lookup (the handler may
  or may not copy, also free). `InstantTransfer` has them. The size and path updates
  touch no column that the model has.
* Status notification blocks are called but change no state of the service. Blocks
  are assumed not to call back into the service.
* The failure to obtain the url of an upload that has just ended counts as a failed
  transfer. When a resume finds an upload that had ended before, the url is asked for in
  a step of its own (`UrlAnswer`), and without it the transfer starts anew.
* The SDK hands over the AWS task before the transfer ends.
* A `taskDic` entry whose operation has gone on to a new transfer stands for its
  failed AWS task, or for the ended one whose url could not be had.
* A kill may find the row with the status Canceled, which cancel writes before it deletes
  the row (`RowsAtKill`): the two statements are otherwise one step.
* The copy of a download calls back on main; the model lets it come at any time,
  which includes the real behaviours.
* AWS tasks of an earlier launch are registered by their fileKey; for the service they
  are not there unless the app uses the taskId as fileKey (`TransferHistory`).
* The handler is alive (it is held weakly); database statements succeed; taskId is
  not nil. `StatusUnkown` is never assigned by the code.
* The queues are `NSOperationQueue`s: the order and width of the service's own
  queues are kept (`Dequeue`, `SlotFree`), a queue passed in is unordered.

### What is transferred: `InstantTransfer`

| Variable | Code |
|---|---|
| `object`, `file` | the bucket (fileKey -> content) and the device's files (path -> content); a content stands for its digest |
| `task`, `row` | the cached `LCFileNetTask` and its row: type, fileKey, path, digest, status |
| `work` | how far the transfer is: the queries by digest or fileKey, the copy, the transfer, the digest of what arrived, the status update, the save of the whole task |

A step is one access to the table, the bucket or the file system. Other tasks, the
app (which writes and deletes files), other users of the bucket and the end of the
process may come between any two. `ReuseKeys` and `RewriteFiles` say how careful the
app is: with both `FALSE`, another content is never put under a fileKey in use, and a
file that a task refers to may vanish but is not rewritten. Pause, cancel, the queues
and the status Progress are left to `LCFileNetService`: no query here tells Progress
from Create or Failed. A task's digest and the check that its file exists are one step.

### Transfers of an earlier launch: `TransferHistory`

| Variable | Code |
|---|---|
| `aws` | the AWS tasks, of this launch or in the utility's own database (external): whose they are, their state, how much was sent, and whether a start or a resume of this launch gave them a completion handler (`handler`) |
| `taskDic` | the handler's dictionary |
| `status` | what the service knows of a task; `new` when it knows nothing |
| `working` | tasks with an operation of this launch that was not paused: cancel asks the handler for these only |
| `loaded` | whether `loadHistoryAWSTask` has run |
| `early` | ghost: tasks whose last start or resume was answered inside the call, so that `p_notifyStart` stored Progress over the answer |
| `orphaned` | ghost: tasks whose cancel left them an unfinished AWS task |

`FileKey` is a parameter, because what is filed under a fileKey and looked up under a
taskId depends on the app's choice; `Patient` says whether the app waits for the history
before it makes calls. A public call is one step, and an AWS task is filed as it is made;
the steps in between are those of `LCFileNetService`.

* A relaunch (`Recovered`) leaves each unfinished AWS task one of four fates, as
  `src/Example/Pods/AWSS3/AWSS3/AWSS3TransferUtility.m:575-640` does: it is kept, made
  again from the beginning, has failed meanwhile, or is *unknown*: in progress for the
  utility, not there for the session. An unknown one is still handed out and filed, and
  answers nothing.
* The completion handler a start gave reports the result and removes the `taskDic` entry;
  the one a resume gave leaves the entry, and on an error starts a new transfer
  (`Handler`, `LCFileNetOperation.m:169` and 189). A start may also be refused inside the
  call.
* A resume of an ended AWS task is answered at once or, for an upload, when the url is
  there; without the url a new transfer starts (`TakeUpCompleted`). The time in between
  is left to `LCFileNetService`.

The kinds of AWS task (plain, multipart, download) are left out, and with them the resume
that does nothing because the kind is another (`LCS3Hander.m:205`).

### The file store: `LCFileDB`, `LCFileSaveService`, `StoreCalls`

| Variable | Code |
|---|---|
| `files`, `tags` | the tables of `LCFileM` (by key) and `LCFileTagM` (by tag: the getter of `tagId` returns the tag) |
| `disk` | the stored files; a path is a document directory, a day and a digest |
| `rootDir`, `today` | the app's document directory, which another container replaces, and the day |
| `sources` | contents for which the app has a file of its own |
| `call` | where each caller is: the file in its hands, the rows it is about to remove (`rows`), and those of them whose files are still to be removed (`left`) |
| `added`, `removed` (`StoreCalls`) | ghosts: the calls in progress during which another thread added a row or a tag; took away a row, a tag or a file (replacing a row is both) |
| `mixed`, `torn`, `reused` (`StoreCalls`) | ghosts: whether a call ever changed anything while another was in progress; whether a launch ever found a row without its file or a file without a row; whether a key was ever given another content |

Every method is there. Each statement and each access to the disk is a step; calls of
other threads and a kill may come between two. A cleanup removes its files one per step.
After a relaunch the container may have moved: the files are in the next document
directory, and no recorded path, being absolute, ever leads to one again. Left out: path
extensions; the directory of the day, which `p_getSaveDir` names and never creates (a
copy may simply fail); a source that changes during the call. `NSAssert` is compiled out
in a release build. A tag is only ever made by the app through `LCFileDB`'s
`lc_saveTag`, because the store's own call lacks tag and group.

### Observers: `ObserverRegistry`, `ProtocolFinder`

`objArray` is `objRegistrationDic`, `queue` the serial queue with its blocks, `call`
what each thread's inquiry got, `held` the objects that something outside the finder
refers to. An object lives as long as it is held, captured by a block in the queue, or
in an array that was returned; otherwise its weak pointer is gone at the next access.
Objects are compared by identity, and a thread inside `execute` makes no second
inquiry. `execute:selector:withObj:` hands each object to the run loop; what the run
loop does with it is not modelled.

`IsRegistry` is the refinement: in the abstract registry a registration takes effect at
the call. The mapping (`Registered`, a recursive function over the queue) applies the
blocks still in the queue to the arrays without their dead pointers, and an inquiry that
waits (`Seen`) sees the blocks before its own. Objects that die leave the registry and
waiting inquiries, never an array somebody is going through.

### Digests: `Md5Tools`

`file` is the content, which grows by one write at a time, `hashed` what was given to
`CC_MD5_Update`. Both loops (`fileMD5WithPath`, `getFileMD5WithPath`) read up to a chunk
at a time and stop at the first read that returns nothing (`done`); the return is a later
step, and the file may have grown in between. `held` (ghost) are the contents the file has
had since it was opened. A digest stands for the bytes it was given (CommonCrypto is
external). `fileMD5WithData` is that function alone, keeps no state, and nothing in the
pod calls it; it is not modelled.

## 3. Runs

| Run | Instance | Shows |
|---|---|---|
| `service` | 1 task, 2 instances, 2 operations that may run at once, download (1.9 M states) | `CachedHasRow`, `BlocksHaveTask`, `OpDicMatchesCache`, `SuccessIsReal`, `CreateHasOperation`, `StartedOperationsGoOn`, `FinishBlockOnce` over all interleavings within `PauseBound` |
| `service_restart` | 1 task, 2 instances, 2 operations one after the other, upload, restarts (1.0 M states) | `TypeOK`, `SuccessIsReal`, `CreateHasOperation`, `InterruptNeverSaved` when the app is killed between any two steps, the second operation possibly taking over the ended transfer of the first |
| `pause_resume` | 1 task, 1 instance, 2 operations, fair; the caller pauses, resumes and cancels (0.4 M states) | `StartedOperationsEnd`: every operation that started gives its slot back, unless another operation of the same task took its transfer away |
| `instant` | 2 tasks, fileKeys, paths and contents each, careful app (0.2 M states) | `FinishedIsTrue`, `UploadCopyIsFile`, `DownloadCopyIsObject`: rows tell the truth and copies are what the transfer would have given; `TaskGoesOn`: no failure leaves a task without a next step |
| `history` | 2 tasks, 3 AWS tasks, taskId used as fileKey, the app waits for the history | `NothingRunsUnasked`, `ProgressIsTransfer`, `ResumeContinues` over relaunches, with every fate of every transfer |
| `store` | 2 threads, 2 contents, 1 app key, 1 tag, 2 days, 2 document directories, restarts (0.9 M states) | `TypeOK`, `DoomedAreUntagged`, `LookupIsLive`, `SavedIsThere`, `CleanupIsComplete`, `OneCopyPerContent` with another thread's steps or a kill between any two statements, each under the condition on the other threads that it states |
| `finder` | 2 objects, 2 threads, 1 protocol, 2 blocks in the queue | `IsRegistry`: the finder implements the abstract registry |
| `digest` | files of up to 4 bytes, chunks of 2, writes of up to 2, fair | `DigestIsContent`: a digest is that of a content the file had during the call; `DigestReturns` |
| `progress_is_working`, `operations_end`, `tagged_file_stays`, `resume_continues` | smallest instance that shows it | violated: see findings |

**Bounds.**
* *Service.* One taskId is enough for the hazards: the per-task state (cache entry, row,
  dictionaries) of different ids interacts only through the queue's slot, and the proofs
  cover any number of ids. Two instances let a caller start a task with another instance
  than the cached one; two operations let a late finish block or a paused operation meet
  its successor. Instances and operations are never recycled within a launch, so a run
  without restarts may run out of them, and only that is why these runs do not check
  deadlock; after a restart all are available again, and `service_restart` checks it.
  There `OneAfterTheOther` lets the second operation begin when the first has ended: how
  two operations overlap is the business of `service`. In `service`, `PauseBound` keeps
  pauses to a task with one instance and leaves out `lc_pauseAllTask`; `service_restart`
  has both with two instances, and the proofs need no bound. In
  `pause_resume` `FirstIsP1` leaves out the behaviours that differ from others by the names
  of the two operations. `service` gives operations to a queue that was passed in, which
  allows every order the service's own queues do.
* *Instant.* Two tasks: one that finished and one that copies from it; two fileKeys and
  paths, so that the copy has another target than its source; two contents, so that a
  wrong copy shows.
* *History.* A second transfer for a task needs two AWS tasks; the third serves the
  other task. `Size` 1 tells a transfer at its end from one before it. When all AWS
  tasks are used up a relaunch frees the ended ones.
* *Store.* Two contents and a key of the app's own for either, so that a key or a tag can
  change hands; the digest serves as key too, so a content can have two rows. Two days,
  and two document directories, give a content more than one path. One tag: a content has
  a tag or has none. Two threads: what happens to a call is another thread's step or is
  not, whoever it was. `OverlapBound` keeps the run small: calls overlap in the first
  document directory, as long as there is one content about and no key was given two; with
  two contents one thread at a time works; the second day comes if no launch found tables
  and disk apart, or with one thread and one content, and so does the second directory. The
  proofs need no such bound. Every condition in the properties is needed: TLC refutes each
  of them in this instance without it.
* *Finder.* Two blocks in the queue put a registration before or behind an inquiry or
  another registration; a bounded queue, two threads that wait and no object left is an
  end of the model, not of the program, so deadlock is not checked.
* *Digest.* A file of two chunks, reads that are cut short, and growth at any point, in
  writes as long as a chunk. `MaxLen` also stops the writer: a file that grows for ever
  faster than it is read is never done with.

Symmetry is used in safety runs only, over sets whose members the properties do not
name.

**Fairness.** In the service: the main thread completes the call it is in (weak,
`MainStep`); a queue thread that can run does (weak, `OpThread`); a transfer that is not
suspended ends, well or badly, and a url that was asked for comes or does not (weak,
`TransferRuns`); a block given to the main queue with `dispatch_sync` is served in turn
even if the main thread keeps making calls (strong, `TransferNotifies`); a completion
handler returns (weak, `ForgetTransfer`). In the digests: the reading thread reads and
returns (weak, `Read`); no read has to fail, and the writer may stop. `InstantTransfer`
assumes none: `TaskGoesOn` is the safety half of "a task is answered", and every step of
a task's `Run` moves it forward along ask, copy, transfer, digest, update, save. Nothing
obliges a caller to make a call or the app to be killed.

**Mutants.** For every property of a passing run a definition is replaced by a
plausible bug and TLC finds the property violated.

## 4. Findings

With a run of their own; the quotes they are measured against are in `PROJECT.json`.

1. `progress_is_working`: "Progress" is stored after the handler was called
   (`LCFileNetOperation.m:102`) and may overwrite Failed, Finish or Pause. The task
   is then shown in progress for good, and start and resume leave it alone.
2. `operations_end`: an operation paused after its `isCancelled` check takes over
   the transfer of its successor, which then never finishes (`LCS3Hander.m:212`).
3. `tagged_file_stays`: a lookup that finds no row deletes tags with three nil
   restrictions, that is every tag of every file (`LCFileSaveService.m:135`).
4. `resume_continues`: transfers of an earlier launch are filed under the fileKey and
   looked up by taskId (`LCS3Hander.m:314`); unless the two are equal, a resume after a
   relaunch starts from the beginning.

Disagreements between the code and its comments or docs that were seen while modelling
and are visible in the models, without a run of their own. None of them is hidden by a
passing property: where a property leaves one out, it says so by name.

*The transfer service and its handler*

* `lc_resumTask` of a task that is not cached queries the database with the taskId of a
  nil task (`LCFileNetService.m:128`; `LCFileNetService.h:26` promises to resume).
* A pause or cancel before the AWS task is in `taskDic` suspends nothing; the transfer
  goes on (`LCS3Hander.m:501`).
* A finish block that was waiting for main saves the task after the cancel deleted its
  row (`LCFileNetService.m:231`; the comment at line 158 says the row is deleted). A task
  that completes between the check and the rest of a cancel comes back in the same way
  (line 150), and whoever has blocks in the cache by then is answered by it.
* A kill inside a cancel leaves a row with the status Canceled (lines 241 and 159). It is
  run again by a start; but once `lc_getTask` has cached it, a start is ignored (line 81
  names only paused, failed and interrupted tasks).
* A paused or failed task may be queued several times (`LCFileNetService.m:81`).
* A cancel of a task that was paused, or that is of an earlier launch, does not ask the
  handler (`LCFileNetOperation.m:51`: its operation is finished and cancelled, or there
  is none): its AWS task stays, suspended, and gets in the way of the next one under
  that fileKey (`orphaned` in `TransferHistory`).
* A cancelled AWS task stays in `taskDic` (`LCS3Hander.m:252`). When the same task is
  started again and that start is refused, the next resume takes the cancelled one up and
  is never answered; the task is in progress for good.
* A handler that answers inside the call - a refused start, or the resume of a download
  that had ended - is overwritten by `p_notifyStart` (`LCFileNetOperation.m:102`, as in
  finding 1): in progress for good, without a transfer (`early` in `TransferHistory`).
* The resume of a transfer that fails starts a new one (`LCFileNetOperation.m:169` and
  189), also when the operation was finished by a pause or a cancel meanwhile.

*Transfers of an earlier launch*

* The utility hands out transfers that the session no longer knows, with the status
  Unknown, and says that the app should look into them
  (`src/Example/Pods/AWSS3/AWSS3/AWSS3TransferUtility.m:598-606` and 629-637).
  `loadHistoryAWSTask` files them like the others (`LCS3Hander.m:312`), and their resume
  does nothing and never answers: the task is in progress for good.
* A transfer that was paused, and that the session lost, is made again from the beginning
  (592-597, 625-627), so what was sent is sent again (against `src/README.md:2`).
* What the parameters of the passing runs exclude: with `Patient = FALSE`,
  `loadHistoryAWSTask` suspends transfers that were started in this launch
  (`LCS3Hander.m:313`), so `ProgressIsTransfer` fails, and a resume before it makes a
  second transfer, so `ResumeContinues` does; with `ReuseKeys = TRUE` or `RewriteFiles =
  TRUE`, a copy may give another content than the transfer would have
  (`LCS3Hander.m:338`, `LCFileNetService.m:258`, against `src/README.md:8`).
* `lc_updatetask:filePath:` writes the row and not the cached task, whose next save
  brings the old path back (`LCFileNetService.m:198` and 231).

*Contents*

* A failed copy of a download has already given the task its source's sizes
  (`LCS3Hander.m:360`).
* A multipart upload is chosen by `totalSize`, which is 0 when a task is first started
  (`LCS3Hander.m:385`, against `src/README.md:4`); `lc_downlaodTask` never sets the type
  (`LCFileNetTask.m:50`).

*The file store and the tools*

* `lc_saveFileFrom` never fills in the tag and the group, so the tag it was asked to
  save is refused and the next lookup or delete removes the file
  (`LCFileSaveService.m:42`, against `LCFileSaveService.h:17`).
* `deleteSource` is ignored when the content is there already (`LCFileSaveService.m:150`).
* "A file is kept only once" (`LCFileSaveService.h:16`) fails in four ways, because
  `p_copyFile` looks at one row of the content and at today's path (lines 149-153): the
  app is killed between the copy and the row, and the content is saved again on another
  day; a key is given another content, which leaves the first file without a row, and the
  first content is saved again; the app got another container, and the path of the one row
  looked at leads nowhere; two saves of a content overlap around midnight, or a save and a
  cleanup. The property `OneCopyPerContent` is therefore conditional (`~torn`, `~reused`,
  `~mixed`); without any one of the three the run `store` violates it.
* The store takes no lock. A tag saved between the cleanup's query and its removal does
  not save the file, and what a save or a lookup is about to return may be removed by
  another thread (line 110). No document says which threads may use the store. The
  properties say how far a call can rely on it all the same; without their `added` and
  `removed` the run `store` violates them.
* A tag that is used for a second file, or in a second group, is taken from the first
  (`LCFileTagM.m:12`), which the next cleanup removes.
* The length of the data is cut to an int (`Md5Tools.m:14`).
* Registering an object again does not move it to the end (`ProtocolFinder.m:48`,
  against `ProtocolFinder.h:50`); `ObserverRegistry` states what the code does.

## 5. Proofs

A theorem holds for every value of the constants that satisfies the named assumptions of
its modules. They say that `None` is no task, row or transfer (`NoneAssumption`,
`TaskAssumption`, `NilAssumption`, `RowAssumption`, `FileMAssumption`), that types, queues,
contents and days are what the code has (`ConstantsAssumption`, `ContentAssumption`,
`DBAssumption`, `HistoryAssumption`), and that sizes are numbers (`SizeAssumption`,
`MaxQueueAssumption`). TLC evaluates them on every run.

Where a theorem has a hypothesis of its own, the property is false without it (TLC finds
a counterexample when the constants of the run break it), and section 4 says what goes
wrong: the hypothesis describes the use of the program for which the property is true.

**The service** (`LCFileNetServiceProofs`, `LCFileNetServiceOutcome`,
`LCFileNetServiceStatus`; no hypotheses)

* `Consistent`: `Spec => []Consistency`, the inductive invariant: `TypeOK`, a cached
  instance carries the id it is cached under, an operation that exists has a known
  instance, the dictionaries hold only operations that exist and concern the id, and the
  properties `CachedHasRow`, `BlocksHaveTask`, `OpDicMatchesCache`. The middle parts are
  needed because cancel and pause go from an id to an operation to an instance and write
  through the latter; without them the step could write the row of another task. One
  step per action, each action reduced to a lemma; what the handler's operators return
  is stated once (`AnswerFacts`, `ResumFacts`, `AnswerStep`), as is what a kill leaves in
  the table (`KillFacts`). `TypeCorrect`,
  `CacheIsBackedByRows`, `DicMatchesCache` and `BlocksAreOwned` follow.
* `StartedOperationsAreServed` (`StartedOperationsGoOn`) and `FinishBlocksRunOnce`
  (`FinishBlockOnce`), on top of `Consistency`, from `Lives`: where the operation's
  thread, its transfer and its finish block are determine each other (`LifeCycle`, a
  statement about one record), and a transfer that was stopped or taken over was so by
  somebody who is named (`StoppedByRivals`). `LifeCycle` is needed because the finish
  block is called from four places - inside the handler's call, from the SDK's thread,
  from the transfer a resume took over, and from the answer with the url - and only the
  place of the thread tells that the others can no longer come. `TaskDicHoldsId` and
  `NamesKept` are needed because a resume takes its transfer out of `taskDic` by id:
  they say that what it takes belongs to an operation of the same task, which then
  counts as the rival of the one it robbed. `StartedOperationsGoOn` is the safety half
  of `StartedOperationsEnd`: what has started and not ended has a thread, a transfer or
  an answer to end it, or a rival.
* `SuccessNeverMadeUp` (`SuccessIsReal`), on top of `Consistency`: tasks, rows and *every
  stage of a pending answer* are real (`TasksReal`, `RowsReal`, `AnswersReal`). The last
  is the strengthening: a finish block without error anywhere between the transfer's end
  and its notification, and a completed transfer that a resume may take over later,
  concern a delivered task.
* `CreatedTasksAreRun` (`CreateHasOperation`) and `InterruptStaysInMemory`
  (`InterruptNeverSaved`), on top of `Consistency`: only a cached instance is marked
  Interrupt, and once a finish block has stored a status its task is in neither of the
  first two (`AnswersMarked`). The first keeps the mark away from the saves of a
  forgotten instance; the second is why the end of an operation, which is told after two
  more steps, never leaves a task in Create behind.

**The contents** (`InstantTransferProofs`, under `Careful`: no fileKey is used for
another content and no file of a task is rewritten)

* `FinishedRowsAreTrue`, `UploadsAreCopiedRight`, `DownloadsAreCopiedRight` from
  `InstantInv`: a transfer under way has what its place needs (`WorkFits`), and of
  everything on record - tasks, rows, and the finished row a copy works from - the digest
  is true, the file has the content, a fileKey names one content, and a path is shared by
  tasks of one content only (`RecordsInv`). The row a copy has read may be stale when it
  is used; what makes the copy right is that `RecordsInv` holds of it still.

**Transfers of an earlier launch** (`TransferHistoryProofs`, under `KeysApart`: no fileKey
is the taskId of another task)

The inductive invariant `HistoryInv` is a conjunction over the tasks (`TaskInv`): a step of
one task leaves what is said of the others alone (`Frame`, `FrameKeeps`), so that each
action is an argument about one task.

* `NothingRunsBehindTheApp` (`NothingRunsUnasked`), whether or not the app waits for the
  history, from `RunningIsFiled`: once the history is loaded, what runs is filed under its
  task, has a handler, and the task is in progress. It needs that an entry under a taskId
  is a transfer of that task (`EntryIsOfTask`) and that the cancel of a task in progress
  reaches the handler (`ProgressWorks`). `KeysApart` is needed because the history is
  filed under fileKeys: one that is another task's taskId would give that task a foreign
  transfer.
* `ProgressIsBacked` (`ProgressIsTransfer`) of an app that waits for `loadHistoryAWSTask`
  (`Patient`), from `ProgressAt`, which says it of one task with its exceptions, and
  `BeforeLoad`: before the history is loaded nothing was started or resumed. Resumed
  transfers that fail and are started again, kills and loads are cases of it.
* `ResumeFindsTheTransfer` (`ResumeContinues`) of such an app, if every fileKey is the
  taskId (`KeyIsId`): in addition, a task none of whose cancels missed its transfer has at
  most one unfinished transfer, and it is filed where resume looks (`UnfinishedIsFiled`),
  and none once it was forgotten (`NewIsOver`). The run `resume_continues` shows what
  happens otherwise.

**The store** (`StoreCallsProofs`, no hypotheses: any number of threads)

* `StoreTypeCorrect`: with it, a call that saves has a file and a key in its hands.
* `TaggedIsNotRemoved`, `LookupsAreLive`, `SavesAreThere`, `CleanupsAreComplete` from
  `StoreInv`: a row's path is one of its content, and what a call holds from one statement
  to the next is still true (`Saving`, `Looking`, `Cleaning`) as far as no other thread
  touched it. Two arguments meet: the call's own step leads from what it relied on to what
  it relies on next (one lemma per method), and a step of another thread leaves it alone
  or is remembered (`UntouchedCall`), because additions only grow the tables and removals
  only shrink them.
* `ContentIsKeptOnce` (`OneCopyPerContent`) from `KeptInv`: until calls are mixed, a key is
  given another content or a launch finds tables and disk apart, every row has its file or
  is about to be dropped with it (`RowsHaveFiles`), every file has its row or is in the
  hands of a save that will record it or a lookup that will remove it (`FilesHaveRows`,
  `Holds`), and a content has one file, to which its rows lead (`OneFile`). Of a call under
  way: a save has in its hands the file all rows of the content lead to (`SavesTheFile`), a
  lookup drops no row of a content that has a file and no file that has a row
  (`DropsTogether`), and a cleanup has every file of its rows still to remove, or gone
  (`RemovesAll`). Calls that are not mixed may still overlap: a save may begin between two
  steps of a cleanup and find rows without a file, which is the second disjunct of
  `SavesTheFile` (TLC found that the invariant is not inductive without it).
* `OneThreadIsUndisturbed`: with one thread the conditions are always met, and the five
  results hold of every call.

**The finder** (`ProtocolFinderProofs`, no hypotheses)

* `FinderIsRegistry`: `Spec => IsRegistry`, the refinement. `FinderInv` says that an array
  points to an object at most once and that a thread waits exactly while one inquiry of
  its is in the queue. The mapping applies the queue to the arrays, so the argument is
  about sequences: removing a pointer is keeping the others (`DropIsOnly`), and blocks
  commute with the death of objects that none of them retains (`AppliedOnly`), which is
  why it does not matter that `compact` runs late. Then every action is a step of the
  registry: a submission is `Register`, `Unregister` or `Ask`, the execution of a block is
  `Answer` or merely `Die`, since the block counted already.
* It is an induction over data. The induction theorems of the library take an operator
  as a parameter, which no prover here can instantiate; `Induction` and
  `SequenceInduction` are therefore proved with *sets* in the place of properties, from
  the least-number principle (`WFMin`), and with them that recursive functions exist
  (`Recursion`), so that `Only` and `Applied` can be unfolded.

**The digests** (`Md5ToolsProofs`, no hypotheses)

* `DigestIsThatOfTheFile` (`DigestIsContent`) from `ReadingInv`: what was hashed is the
  beginning of the file (`HashedIsPrefix`), so a read that finds nothing has seen all of
  it; and from then on it is one of the contents the file has had since it was opened
  (`HeldHolds`), although the file may have another one by the return.

Only model-checked: liveness (`StartedOperationsEnd`, `DigestReturns`),
`TaskGoesOn`, which uses `ENABLED`, and the four violations. Liveness under fairness and
`ENABLED` are out of the prover's reach; of `StartedOperationsEnd` the safety half is
proved (`StartedOperationsAreServed`). The bounds of section 3 are those of the runs; no
theorem has them.

## 6. Not modelled

* The vendored pods (AWS SDK, WCDB, SQLCipher, Bolts, ...), which make up nearly all of
  the repository's lines: third-party code. The models take from it what the program
  relies on: the life of an `AWSS3TransferUtilityTask`, atomic statements, the serial
  queue, weak pointers.
* The example application, a template that does not use the library, and the tests,
  which were read for what they expect.
* Sizes and progress blocks, credentials and regions, logging, path extensions.
* Queries of `LCFileDB` and `fileMD5WithData` of `Md5Tools`, which nothing in the pod calls.
* Failing database statements: their results are ignored throughout the code.
* Callers whose blocks call the service again or make the main thread wait for an
  operation; objects of the app that make an inquiry of `ProtocolFinder` in their
  `isEqual:` or `dealloc`, which may run on its queue; a handler that was released.

## 7. Plan

Done: the transfer service with its operation, table and S3 handler; the contents; the
history; the file store with several threads; the observer registry and its refinement;
the digests; a proof of every property that a passing run checks, except liveness and
`TaskGoesOn`. Left:

1. `TaskGoesOn` without `ENABLED`: the guards of a task's steps written out as predicates,
   so that it can be proved too.
2. A weaker condition than `~mixed` for `OneCopyPerContent`: calls about different
   contents do not disturb each other.
3. A released handler, and blocks of callers that call the service again.
