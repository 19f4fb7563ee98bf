-------------------------- MODULE LCFileNetService --------------------------
(***************************************************************************)
(* The transfer service: LCFileNetService.m (public calls, task cache,      *)
(* callback caches, operation dictionary), LCFileNetOperation.m (the        *)
(* NSOperation that drives one transfer) and LCFileTaskDB.mm.               *)
(*                                                                          *)
(* Three kinds of thread run this code:                                     *)
(*   - the main thread runs every public call and, by dispatch_sync, every  *)
(*     notification block; `main' says which call is in the middle of it;   *)
(*   - the queue's thread runs [operation start], field `thread';           *)
(*   - the transfer's thread runs the finish block given to the handler,    *)
(*     field `cb' (when the handler answers inside the call, the queue's    *)
(*     thread runs it: field `sync').                                       *)
(* A step is what one thread does between two points where another thread's *)
(* write can be seen: a store to task.status, a database statement, a       *)
(* dispatch_sync.                                                           *)
(*                                                                          *)
(* The handler is LCS3Hander; its answers come on threads of the AWS SDK.   *)
(***************************************************************************)
EXTENDS LCFileNetTask, LCS3Hander, Sequences

CONSTANTS
    Objects,     \* LCFileNetTask instances one launch may create (bound)
    Operations,  \* LCFileNetOperation instances one launch may create (bound)
    Types,       \* the task types callers use
    Queues,      \* "default": the service's own queue, "user": one passed in
    CanRestart   \* whether the app may be killed and launched again

ASSUME ConstantsAssumption ==
    /\ None \notin TaskIds \cup Objects \cup Operations
    /\ Types \subseteq TaskType
    /\ Queues \subseteq {"default", "user"}
    /\ CanRestart \in BOOLEAN

VARIABLES
    task,        \* every LCFileNetTask instance of this launch
    cache,       \* cache: taskId -> the instance the service works with
    row,         \* the database table
    callbacks,   \* the three callback caches: taskId -> instances whose blocks are kept
    op,          \* every LCFileNetOperation instance of this launch
    opDic,       \* taskOperationDic
    waiting,     \* operations of uploadQueue / downloadQueue not started yet
    taskDic,     \* LCS3Hander's taskDic: taskId -> operation whose AWS transfer it holds
    main,        \* the call the main thread is inside of
    delivered    \* ghost: tasks for which the handler reported success

vars == <<task, cache, row, callbacks, op, opDic, waiting, taskDic, main,
          delivered>>

(* LCFileNetOperation's state, the thread that executes it, and its transfer. *)
OperationState ==
    [obj : Objects \cup {None}, queue : {"Upload", "Download", "user"},
     thread : {"none", "queued", "main", "setProgress", "saveProgress", "done"},
     cb : {"none", "askUrl", "setStatus", "saveStatus", "saveTask", "tellFinish", "over"},
     err : BOOLEAN, sync : BOOLEAN, resumed : BOOLEAN,
     transfer : TransferState, forget : BOOLEAN,
     cancelled : BOOLEAN, finished : BOOLEAN]

NoOperation ==
    [obj |-> None, queue |-> "user", thread |-> "none", cb |-> "none",
     err |-> FALSE, sync |-> FALSE, resumed |-> FALSE, transfer |-> "none",
     forget |-> FALSE, cancelled |-> FALSE, finished |-> FALSE]

MainIdle == [todo |-> {}, pausing |-> None, cancelling |-> None]

TypeOK ==
    /\ task \in [Objects -> TaskObject]
    /\ cache \in [TaskIds -> Objects \cup {None}]
    /\ row \in Table
    /\ callbacks \in [TaskIds -> SUBSET Objects]
    /\ op \in [Operations -> OperationState]
    /\ opDic \in [TaskIds -> Operations \cup {None}]
    /\ waiting \in [{"Upload", "Download"} -> Seq(Operations)]
    /\ taskDic \in [TaskIds -> Operations \cup {None}]
    /\ main \in [todo : SUBSET TaskIds, pausing : TaskIds \cup {None},
                 cancelling : TaskIds \cup {None}]
    /\ delivered \subseteq TaskIds

MemoryInit ==
    /\ task = [o \in Objects |-> NoObject]
    /\ cache = [id \in TaskIds |-> None]
    /\ callbacks = [id \in TaskIds |-> {}]
    /\ op = [p \in Operations |-> NoOperation]
    /\ opDic = [id \in TaskIds |-> None]
    /\ waiting = [type \in {"Upload", "Download"} |-> << >>]
    /\ taskDic = [id \in TaskIds |-> None]
    /\ main = MainIdle

Init ==
    /\ MemoryInit
    /\ row = [id \in TaskIds |-> None]
    /\ delivered = {}
-----------------------------------------------------------------------------
(* Helpers.                                                                 *)
Fresh(tasks) == {o \in Objects : tasks[o].id = None}
Known == Objects \ Fresh(task)
IdOf(p) == task[op[p].obj].id
MainIsFree == main = MainIdle

(* Mutant: an interrupted task keeps its mark. *)
SetStatus_KeepsInterrupt(objects, status) ==
    [o \in Objects |-> IF o \in objects /\ task[o].status # "Interrupt"
                       THEN [task[o] EXCEPT !.status = status] ELSE task[o]]

(* A store to the status of some instances. *)
SetStatus(objects, status) ==
    [o \in Objects |-> IF o \in objects
                       THEN [task[o] EXCEPT !.status = status] ELSE task[o]]

(* p_saveCallback: the blocks of t join those kept for its taskId.          *)
p_saveCallback(o, t) ==
    IF t.blocks THEN [callbacks EXCEPT ![t.id] = @ \cup {o}] ELSE callbacks

(* Mutant: the blocks stay registered. *)
p_notifyFinish_KeepsBlocks(id) == UNCHANGED callbacks

(* p_notifyFinish, on the main thread: every kept block is called and the   *)
(* three callback caches drop the taskId.                                   *)
p_notifyFinish(id) == callbacks' = [callbacks EXCEPT ![id] = {}]

(* p_checkTask: the task has a type and, for an upload, its file exists.    *)
(* Whether the file is there is the environment's choice at every call.     *)
p_checkTask(t, fileExists) ==
    /\ t.type # "Unknown"
    /\ t.type = "Upload" => fileExists

(* p_addTask: a new operation replaces the one taskOperationDic holds for   *)
(* the task and joins the queue.  A task of type Unknown is not added.      *)
p_addTask(o, t, queue) ==
    /\ t.type # "Unknown"
    /\ \E p \in Operations :
        /\ op[p].thread = "none"
        /\ op' = [op EXCEPT ![p] =
                    [NoOperation EXCEPT
                        !.obj = o, !.thread = "queued",
                        !.queue = IF queue = "user" THEN "user" ELSE t.type]]
        /\ opDic' = [opDic EXCEPT ![t.id] = p]
        /\ waiting' = IF queue = "user" THEN waiting
                      ELSE [waiting EXCEPT ![t.type] = Append(@, p)]

(* lc_fileNetHanderCancelTask and lc_fileNetHanderPauseTask: the AWS task   *)
(* is looked up in taskDic, where it stays.                                 *)
HanderCancel(ops, id) ==
    IF taskDic[id] = None THEN ops
    ELSE [ops EXCEPT ![taskDic[id]].transfer = AfterCancel(@)]
HanderPause(ops, id) ==
    IF taskDic[id] = None THEN ops
    ELSE [ops EXCEPT ![taskDic[id]].transfer = AfterSuspend(@)]

(* Mutant: the operation is cancelled but keeps its slot. *)
EndOperation_KeepsSlot(ops, p) == [ops EXCEPT ![p].cancelled = TRUE]

(* [super cancel] and p_finishOperatioin, the tail of cancel and of pause.  *)
EndOperation(ops, p) ==
    [ops EXCEPT ![p].cancelled = TRUE, ![p].finished = TRUE]

-----------------------------------------------------------------------------
(* Public calls, on the main thread.                                        *)

(* lc_startTask on instance o of the instances `tasks' (o may be one the    *)
(* caller has just made).                                                   *)
StartRejected(o, tasks, fileExists) ==
    /\ ~p_checkTask(tasks[o], fileExists)
    /\ p_notifyFinish(tasks[o].id)
    /\ task' = tasks
    /\ UNCHANGED <<cache, row, op, opDic, waiting>>

StartCached(o, tasks, queue) ==
    LET id == tasks[o].id
        old == cache[id]
    IN  /\ old # None
        /\ task' = tasks
        /\ UNCHANGED <<cache, row>>
        /\ \/ /\ tasks[old].status = "Finish"
              /\ p_notifyFinish(id)
              /\ UNCHANGED <<op, opDic, waiting>>
           \/ /\ tasks[old].status \in Restartable
              /\ p_addTask(old, tasks[old], queue)
              /\ callbacks' = p_saveCallback(o, tasks[o])
           \/ /\ tasks[old].status \in {"Create", "Progress", "Canceled"}
              /\ callbacks' = p_saveCallback(o, tasks[o])
              /\ UNCHANGED <<op, opDic, waiting>>

(* The task a row becomes when this launch meets it for the first time.     *)
Reloaded(id) ==
    LET found == lc_getTaskByTaskId(row, id)
    IN  [id |-> found.id, type |-> found.type,
         status |-> AfterReload(found.status), blocks |-> found.blocks]

StartFromDatabase(o, tasks, queue) ==
    LET id == tasks[o].id
    IN  /\ cache[id] = None /\ row[id] # None
        /\ UNCHANGED row
        /\ \E n \in Fresh(tasks) :
            LET loaded == Reloaded(id)
            IN  /\ task' = [tasks EXCEPT ![n] = loaded]
                /\ cache' = [cache EXCEPT ![id] = n]
                /\ \/ /\ loaded.status = "Finish"
                      /\ p_notifyFinish(id)
                      /\ UNCHANGED <<op, opDic, waiting>>
                   \/ /\ loaded.status # "Finish"
                      /\ p_addTask(n, loaded, queue)
                      /\ callbacks' = p_saveCallback(o, tasks[o])

StartNew(o, tasks, queue) ==
    LET id == tasks[o].id
    IN  /\ cache[id] = None /\ row[id] = None
        /\ task' = tasks
        /\ cache' = [cache EXCEPT ![id] = o]
        /\ row' = lc_saveTask(row, tasks[o])
        /\ p_addTask(o, tasks[o], queue)
        /\ callbacks' = p_saveCallback(o, tasks[o])

lc_startTask(o, tasks, queue, fileExists) ==
    /\ \/ StartRejected(o, tasks, fileExists)
       \/ /\ p_checkTask(tasks[o], fileExists)
          /\ \/ StartCached(o, tasks, queue)
             \/ StartFromDatabase(o, tasks, queue)
             \/ StartNew(o, tasks, queue)
    /\ UNCHANGED <<taskDic, main, delivered>>

(* The caller starts an instance it has just made ...                       *)
StartFresh(o, id, type, queue, fileExists) ==
    /\ MainIsFree
    /\ o \in Fresh(task)
    /\ lc_startTask(o, [task EXCEPT ![o] = [id |-> id, type |-> type,
                            status |-> "Create", blocks |-> TRUE]],
                    queue, fileExists)

(* ... or one it made before, or got from lc_getTask.                       *)
StartAgain(o, queue, fileExists) ==
    /\ MainIsFree
    /\ o \in Known
    /\ lc_startTask(o, task, queue, fileExists)

(* lc_resumTask.  When the task is not cached, line 128 asks the database   *)
(* for the taskId of a nil task, finds nothing, and the call returns.       *)
lc_resumTask(id, queue, fileExists) ==
    /\ MainIsFree
    /\ \/ /\ cache[id] # None
          /\ task[cache[id]].status # "Finish"
          /\ lc_startTask(cache[id], task, queue, fileExists)
       \/ /\ cache[id] = None
          /\ UNCHANGED vars

(* lc_getTask of a task that is not cached: the row becomes a cached task.  *)
lc_getTask(id) ==
    /\ MainIsFree
    /\ cache[id] = None /\ row[id] # None
    /\ \E n \in Fresh(task) :
        /\ task' = [task EXCEPT ![n] = Reloaded(id)]
        /\ cache' = [cache EXCEPT ![id] = n]
    /\ UNCHANGED <<row, callbacks, op, opDic, waiting, taskDic, main,
                   delivered>>

(* lc_cancelTask: the check of the status, then the rest of the call.       *)
lc_cancelTask(id) ==
    /\ MainIsFree
    /\ cache[id] # None
    /\ task[cache[id]].status # "Finish"
    /\ main' = [main EXCEPT !.cancelling = id]
    /\ UNCHANGED <<task, cache, row, callbacks, op, opDic, waiting, taskDic,
                   delivered>>

(* The guard of cancel and of pause: not both finished and cancelled.       *)
Interruptible(p) == ~op[p].finished \/ ~op[p].cancelled

CancelOperation(id, p) ==
    /\ IF Interruptible(p)
       THEN /\ task' = SetStatus({cache[id], op[p].obj}, "Canceled")
            /\ op' = EndOperation(HanderCancel(op, IdOf(p)), p)
       ELSE /\ task' = SetStatus({cache[id]}, "Canceled")
            /\ op' = EndOperation(op, p)

(* Mutant: the dictionary keeps the cancelled operation. *)
ForgetOperation_Not(id) == UNCHANGED opDic

(* taskOperationDic drops the task. *)
ForgetOperation(id) == opDic' = [opDic EXCEPT ![id] = None]

CancelRest ==
    LET id == main.cancelling
    IN  /\ id # None
        /\ \/ /\ opDic[id] # None
              /\ CancelOperation(id, opDic[id])
           \/ /\ opDic[id] = None
              /\ task' = SetStatus({cache[id]}, "Canceled")
              /\ UNCHANGED op
        /\ ForgetOperation(id)
        /\ row' = lc_deleteTaskByTaskId(row, id)
        /\ p_notifyFinish(id)
        /\ cache' = [cache EXCEPT ![id] = None]
        /\ main' = [main EXCEPT !.cancelling = None]
        /\ UNCHANGED <<waiting, taskDic, delivered>>

(* lc_pauseTask: the check of the status, then the rest of the call.        *)
(* lc_pauseAllTask: the same for every key of taskOperationDic.             *)
CanPause(id) == cache[id] # None /\ task[cache[id]].status # "Finish"

lc_pauseTask(id) ==
    /\ MainIsFree
    /\ CanPause(id)
    /\ main' = [main EXCEPT !.pausing = id]
    /\ UNCHANGED <<task, cache, row, callbacks, op, opDic, waiting, taskDic,
                   delivered>>

lc_pauseAllTask ==
    /\ MainIsFree
    /\ \E id \in TaskIds : opDic[id] # None
    /\ main' = [main EXCEPT !.todo = {id \in TaskIds : opDic[id] # None}]
    /\ UNCHANGED <<task, cache, row, callbacks, op, opDic, waiting, taskDic,
                   delivered>>

PauseCheck(id) ==
    /\ id \in main.todo
    /\ main.pausing = None
    /\ main' = [main EXCEPT !.todo = @ \ {id},
                            !.pausing = IF CanPause(id) THEN id ELSE None]
    /\ UNCHANGED <<task, cache, row, callbacks, op, opDic, waiting, taskDic,
                   delivered>>

(* Mutant: only the operation is stopped, the task keeps its status. *)
PauseOperation_KeepsStatus(id, p) ==
    /\ op' = EndOperation(HanderPause(op, IdOf(p)), p)
    /\ UNCHANGED <<task, row>>

PauseOperation(id, p) ==
    /\ IF Interruptible(p)
       THEN /\ task' = SetStatus({cache[id], op[p].obj}, "Pause")
            /\ op' = EndOperation(HanderPause(op, IdOf(p)), p)
            /\ row' = lc_updateTask(row, IdOf(p), "Pause")
       ELSE /\ task' = SetStatus({cache[id]}, "Pause")
            /\ op' = EndOperation(op, p)
            /\ UNCHANGED row

PauseRest ==
    LET id == main.pausing
    IN  /\ id # None
        /\ \/ /\ opDic[id] # None
              /\ PauseOperation(id, opDic[id])
           \/ /\ opDic[id] = None
              /\ task' = SetStatus({cache[id]}, "Pause")
              /\ UNCHANGED <<op, row>>
        /\ main' = [main EXCEPT !.pausing = None]
        /\ UNCHANGED <<cache, callbacks, opDic, waiting, taskDic, delivered>>
-----------------------------------------------------------------------------
(* The queue's thread: [operation start].                                   *)

(* NSOperationQueue (Foundation): an operation queue with                   *)
(* maxConcurrentOperationCount 1 starts its operations in order, the next   *)
(* one once the previous isFinished.  A caller's queue has no such limit.   *)
SlotFree(queue) ==
    \A p \in Operations :
        op[p].queue = queue /\ op[p].thread \notin {"none", "queued"}
            => op[p].finished

Dequeue(p) ==
    IF op[p].queue = "user" THEN UNCHANGED waiting
    ELSE /\ waiting[op[p].queue] # << >>
         /\ Head(waiting[op[p].queue]) = p
         /\ SlotFree(op[p].queue)
         /\ waiting' = [waiting EXCEPT ![op[p].queue] = Tail(@)]

(* start: an operation cancelled before it started only becomes finished.   *)
OpStart(p) ==
    /\ op[p].thread = "queued"
    /\ Dequeue(p)
    /\ op' = IF op[p].cancelled
             THEN [op EXCEPT ![p].thread = "done", ![p].finished = TRUE]
             ELSE [op EXCEPT ![p].thread = "main"]
    /\ UNCHANGED <<task, cache, row, callbacks, opDic, taskDic, main,
                   delivered>>

(* main up to p_notifyStart: a task that was paused, failed or interrupted  *)
(* takes over the AWS task that taskDic holds; when there is none, or it    *)
(* has failed, the resume answers with an error at once and the transfer is *)
(* started anew.                                                            *)
OpMain(p) ==
    LET id == IdOf(p)
        q == taskDic[id]
        started == [op[p] EXCEPT !.thread = "setProgress"]
        canResume == /\ task[op[p].obj].status \in Restartable
                     /\ q # None
                     /\ op[q].transfer \in TakenOver
        upload == task[op[p].obj].type = "Upload"
    IN  /\ op[p].thread = "main"
        /\ \/ /\ canResume
              /\ op' = [op EXCEPT ![q].transfer = "lost",
                                  ![p] = HanderResum(started, op[q].transfer, upload)]
              /\ taskDic' = [taskDic EXCEPT ![id] = p]
              /\ delivered' = IF op[q].transfer = "completed"
                              THEN delivered \cup {id} ELSE delivered
           \/ /\ ~canResume
              /\ \E answer \in HanderStart(started, TRUE) :
                    op' = [op EXCEPT ![p] = answer]
              /\ UNCHANGED <<taskDic, delivered>>
        /\ UNCHANGED <<task, cache, row, callbacks, opDic, waiting, main>>

(* p_notifyStart -> lc_netOperationStart: status, database, notification.   *)
(* When the handler answered inside the call, the finish block ran first.   *)
SetProgress(p) ==
    /\ op[p].thread = "setProgress"
    /\ op[p].sync => op[p].cb = "over"
    /\ task' = SetStatus({op[p].obj}, "Progress")
    /\ op' = [op EXCEPT ![p].thread = "saveProgress"]
    /\ UNCHANGED <<cache, row, callbacks, opDic, waiting, taskDic, main,
                   delivered>>

SaveProgress(p) ==
    /\ op[p].thread = "saveProgress"
    /\ row' = lc_updateTask(row, IdOf(p), "Progress")
    /\ op' = [op EXCEPT ![p].thread = "done"]
    /\ UNCHANGED <<task, cache, callbacks, opDic, waiting, taskDic, main,
                   delivered>>

-----------------------------------------------------------------------------
(* The transfer's thread.                                                   *)

(* The transfer utility hands over the AWS task, which joins taskDic in the *)
(* place of whatever was there, or an error.                                *)
RegisterTransfer(p, err) ==
    /\ op[p].transfer = "starting"
    /\ \/ /\ err
          /\ op' = [op EXCEPT ![p] = AnswerError(op[p], FALSE)]
          /\ UNCHANGED taskDic
       \/ /\ ~err
          /\ op' = [op EXCEPT ![p].transfer = "running"]
          /\ taskDic' = [taskDic EXCEPT ![IdOf(p)] = p]
    /\ UNCHANGED <<task, cache, row, callbacks, opDic, waiting, main, delivered>>

(* The AWS transfer of p ends and its completion handler calls the finish   *)
(* block.  A resumed transfer that fails is started anew.  The completion   *)
(* handler of a resumed transfer leaves taskDic alone.                      *)
TransferFinish(p, err) ==
    /\ op[p].transfer = "running"
    /\ \/ /\ err /\ op[p].resumed
          /\ \E answer \in HanderStart(op[p], FALSE) :
                op' = [op EXCEPT ![p] = answer]
          /\ UNCHANGED delivered
       \/ /\ ~(err /\ op[p].resumed)
          /\ op' = [op EXCEPT ![p] =
                        [op[p] EXCEPT !.cb = "setStatus", !.err = err,
                                      !.transfer = IF err THEN "failed" ELSE "completed",
                                      !.forget = ~op[p].resumed]]
          /\ delivered' = IF err THEN delivered ELSE delivered \cup {IdOf(p)}
    /\ UNCHANGED <<task, cache, row, callbacks, opDic, waiting, taskDic, main>>

(* p_copyTask ends.  A copy that fails is followed by an ordinary transfer. *)
CopyFinish(p, err) ==
    /\ op[p].transfer = "copying"
    /\ \/ /\ err
          /\ \E answer \in p_startTransfer(op[p], FALSE) :
                op' = [op EXCEPT ![p] = answer]
          /\ UNCHANGED delivered
       \/ /\ ~err
          /\ op' = [op EXCEPT ![p] = [op[p] EXCEPT !.cb = "setStatus", !.err = FALSE,
                                                  !.transfer = "lost"]]
          /\ delivered' = delivered \cup {IdOf(p)}
    /\ UNCHANGED <<task, cache, row, callbacks, opDic, waiting, taskDic, main>>

(* lc_getURLByFileKey answers the resume of a completed upload.  No url is  *)
(* an error to the resume's finish block, which starts the transfer anew.   *)
UrlAnswer(p, err) ==
    /\ op[p].cb = "askUrl"
    /\ \/ /\ err
          /\ \E answer \in HanderStart([op[p] EXCEPT !.cb = "none"], FALSE) :
                op' = [op EXCEPT ![p] = answer]
          /\ UNCHANGED delivered
       \/ /\ ~err
          /\ op' = [op EXCEPT ![p].cb = "setStatus"]
          /\ delivered' = delivered \cup {IdOf(p)}
    /\ UNCHANGED <<task, cache, row, callbacks, opDic, waiting, taskDic, main>>

(* The end of the completion handler: the taskId's entry, whoever           *)
(* registered it, leaves taskDic.  It follows the finish block, except      *)
(* that a successful upload asks for its url in between.                    *)
ForgetTransfer(p) ==
    /\ op[p].forget
    /\ \/ op[p].cb = "over"
       \/ task[op[p].obj].type = "Upload" /\ ~op[p].err
    /\ taskDic' = [taskDic EXCEPT ![IdOf(p)] = None]
    /\ op' = [op EXCEPT ![p].forget = FALSE]
    /\ UNCHANGED <<task, cache, row, callbacks, opDic, waiting, main, delivered>>

(* Mutant: the error is not looked at. *)
FinishStatus_IgnoresError(err) == "Finish"

(* The finish block.  p_notifyStatusUpadteWithNewStatus stores the status   *)
(* and writes it to the database ...                                        *)
FinishStatus(err) == IF err THEN "Failed" ELSE "Finish"

SetFinishStatus(p) ==
    /\ op[p].cb = "setStatus"
    /\ task' = SetStatus({op[p].obj}, FinishStatus(op[p].err))
    /\ op' = [op EXCEPT ![p].cb = "saveStatus"]
    /\ UNCHANGED <<cache, row, callbacks, opDic, waiting, taskDic, main,
                   delivered>>

SaveFinishStatus(p) ==
    /\ op[p].cb = "saveStatus"
    /\ row' = lc_updateTask(row, IdOf(p), task[op[p].obj].status)
    /\ op' = [op EXCEPT ![p].cb = "saveTask"]
    /\ UNCHANGED <<task, cache, callbacks, opDic, waiting, taskDic, main,
                   delivered>>

(* ... then waits for the main thread to notify the status.                 *)
(* lc_netOperationStatusFinish: an error sets Failed, the whole task is     *)
(* saved.  (The save commutes with the check that opens a public call, so   *)
(* it is taken together with the notification it follows.)                  *)
StatusToSave(p) == IF op[p].err THEN "Failed" ELSE task[op[p].obj].status

SaveFinishedTask(p) ==
    /\ op[p].cb = "saveTask"
    /\ MainIsFree
    /\ task' = SetStatus({op[p].obj}, StatusToSave(p))
    /\ row' = lc_saveTask(row, [task[op[p].obj] EXCEPT !.status = StatusToSave(p)])
    /\ op' = [op EXCEPT ![p].cb = "tellFinish"]
    /\ UNCHANGED <<cache, callbacks, opDic, waiting, taskDic, main,
                   delivered>>

(* Mutant: the operation stays executing. *)
p_finishOperatioin_Executing(p) ==
    [op EXCEPT ![p].cb = "over", ![p].err = FALSE, ![p].sync = FALSE,
               ![p].resumed = FALSE]

(* The finish notification on the main thread, then p_finishOperatioin.     *)
p_finishOperatioin(p) ==
    [op EXCEPT ![p].cb = "over", ![p].finished = TRUE, ![p].err = FALSE,
               ![p].sync = FALSE, ![p].resumed = FALSE]

TellFinish(p) ==
    /\ op[p].cb = "tellFinish"
    /\ MainIsFree
    /\ p_notifyFinish(IdOf(p))
    /\ op' = p_finishOperatioin(p)
    /\ UNCHANGED <<task, cache, row, opDic, waiting, taskDic, main, delivered>>

-----------------------------------------------------------------------------
(* The tables a kill may leave: cancel records the status before            *)
(* lc_cancelTask deletes the row.                                           *)
RowsAtKill ==
    {row} \cup {lc_updateTask(row, IdOf(opDic[id]), "Canceled") :
                    id \in {i \in TaskIds : /\ i = main.cancelling /\ opDic[i] # None
                                            /\ Interruptible(opDic[i])}}

(* The app is killed and launched again: only the database survives.        *)
Restart ==
    /\ CanRestart
    /\ task' = [o \in Objects |-> NoObject]
    /\ cache' = [id \in TaskIds |-> None]
    /\ callbacks' = [id \in TaskIds |-> {}]
    /\ op' = [p \in Operations |-> NoOperation]
    /\ opDic' = [id \in TaskIds |-> None]
    /\ waiting' = [type \in {"Upload", "Download"} |-> << >>]
    /\ taskDic' = [id \in TaskIds |-> None]
    /\ main' = MainIdle
    /\ row' \in RowsAtKill
    /\ UNCHANGED delivered

PublicCall ==
    \/ \E o \in Objects, id \in TaskIds, type \in Types, q \in Queues,
          f \in BOOLEAN : StartFresh(o, id, type, q, f)
    \/ \E o \in Objects, q \in Queues, f \in BOOLEAN : StartAgain(o, q, f)
    \/ \E id \in TaskIds, q \in Queues, f \in BOOLEAN : lc_resumTask(id, q, f)
    \/ \E id \in TaskIds : lc_getTask(id) \/ lc_cancelTask(id) \/ lc_pauseTask(id)
    \/ lc_pauseAllTask

MainStep == CancelRest \/ PauseRest \/ \E id \in TaskIds : PauseCheck(id)

OpThread(p) ==
    OpStart(p) \/ OpMain(p) \/ SetProgress(p) \/ SaveProgress(p)

TransferRuns(p) ==
    \/ \E err \in BOOLEAN :
            \/ RegisterTransfer(p, err) \/ TransferFinish(p, err)
            \/ CopyFinish(p, err) \/ UrlAnswer(p, err)
    \/ SetFinishStatus(p) \/ SaveFinishStatus(p)

TransferNotifies(p) == SaveFinishedTask(p) \/ TellFinish(p)

TransferThread(p) == TransferRuns(p) \/ TransferNotifies(p) \/ ForgetTransfer(p)

Next ==
    \/ PublicCall
    \/ MainStep
    \/ \E p \in Operations : OpThread(p) \/ TransferThread(p)
    \/ Restart

Spec == Init /\ [][Next]_vars

(* The main thread finishes the call it is in; a thread that can run does;  *)
(* a block handed to the main queue is served in turn however many calls    *)
(* the main thread makes in between (strong fairness); a transfer that is   *)
(* not suspended ends.                                                      *)
Fairness ==
    /\ WF_vars(MainStep)
    /\ \A p \in Operations :
        /\ WF_vars(OpThread(p))
        /\ WF_vars(TransferRuns(p))
        /\ SF_vars(TransferNotifies(p))
        /\ WF_vars(ForgetTransfer(p))

FairSpec == Spec /\ Fairness

-----------------------------------------------------------------------------
(* Properties.                                                              *)

(* Blocks are kept only for a task the service knows: a rejected start and  *)
(* a cancel answer the callers and drop their blocks, so none can be called *)
(* by a later task that reuses the taskId.                                  *)
BlocksHaveTask == \A id \in TaskIds : callbacks[id] # {} => cache[id] # None

(* A cached task always has a row: whatever lc_pauseTask, the operation's   *)
(* notifications and lc_updateTask write is never lost in an UPDATE that    *)
(* matches no row (lc_startTask, lc_getTask, lc_cancelTask keep cache and   *)
(* table in step).                                                          *)
CachedHasRow == \A id \in TaskIds : cache[id] # None => row[id] # None

(* The operation lc_cancelTask and lc_pauseTask find in taskOperationDic    *)
(* works on the very instance the cache holds, so the status they set and   *)
(* the transfer they stop belong together.                                  *)
OpDicMatchesCache ==
    \A id \in TaskIds :
        opDic[id] # None => /\ cache[id] # None
                            /\ op[opDic[id]].obj = cache[id]

(* Nobody believes in a success the handler did not report: neither a       *)
(* task in memory, nor a row, nor the watchers, over any interleaving of    *)
(* late finish blocks, pauses, cancels, restarts.                           *)
SuccessIsReal ==
    /\ \A o \in Objects :
        task[o].status = "Finish" => task[o].id \in delivered
    /\ \A id \in TaskIds :
        row[id] # None /\ row[id].status = "Finish" => id \in delivered
    /\ \A p \in Operations :
        op[p].cb = "tellFinish" /\ ~op[p].err => IdOf(p) \in delivered

(* A cached task that is still in its first status has an operation that    *)
(* will run it: lc_startTask ignores a second start of such a task.         *)
CreateHasOperation ==
    \A id \in TaskIds :
        cache[id] # None /\ task[cache[id]].status = "Create" =>
            /\ opDic[id] # None
            /\ ~op[opDic[id]].cancelled /\ ~op[opDic[id]].finished

(* Interrupt exists in memory only: lc_startTask and lc_getTask derive it   *)
(* from the row, and no save writes it back.                                *)
InterruptNeverSaved ==
    \A id \in TaskIds : row[id] # None => row[id].status # "Interrupt"

(* An operation that started is finished in the end, so that the queue's    *)
(* single slot is given back by pause, cancel and every finish block,       *)
(* unless another operation of the same task got in its way: its transfer   *)
(* was aborted or taken over, or suspended by a pause of the other one.     *)
LosesTransfer(p) ==
    /\ op[p].cb = "none"
    /\ \/ op[p].transfer \in {"cancelled", "lost"}
       \/ op[p].transfer = "paused" /\ opDic[IdOf(p)] # p
StartedOperationsEnd ==
    \A p \in Operations :
        op[p].thread \notin {"none", "queued"} ~>
            op[p].finished \/ LosesTransfer(p) \/ op[p].thread = "none"

(* The same as a state predicate, and stronger: an operation that started   *)
(* and is not finished has a thread, a transfer or a pending finish block   *)
(* that will finish it, unless another operation of its task was made.  So  *)
(* a task that is started once never blocks the queue, whenever it is       *)
(* paused and cancelled and whatever its transfers answer.                  *)
GoesOn(p) ==
    \/ op[p].thread = "main"
    \/ op[p].transfer \in {"starting", "copying", "running"}
    \/ op[p].cb \notin {"none", "over"}
Rivals(p) == {q \in Operations \ {p} : op[q].thread # "none" /\ IdOf(q) = IdOf(p)}
StartedOperationsGoOn ==
    \A p \in Operations :
        op[p].thread \notin {"none", "queued"} /\ ~op[p].finished =>
            GoesOn(p) \/ (LosesTransfer(p) /\ Rivals(p) # {})

(* The finish block of an operation is called once: its transfer ends once, *)
(* although a pause, a cancel, another operation that takes the AWS task    *)
(* over and the answers of the handler may all come together; a resume that *)
(* asks for the url first calls it, or starts anew, when the answer comes.  *)
FinishBlockOnce ==
    [][\A p \in Operations :
        op[p].cb \notin {"none", "askUrl"} /\ op'[p].cb = "setStatus"
            => op[p].cb = "setStatus"]_vars

-----------------------------------------------------------------------------
(* What the repository's comments and tests say and the code does not do.   *)

(* Something in this launch still concerns the task. *)
Working(id) ==
    \E p \in Operations :
        /\ op[p].obj # None /\ IdOf(p) = id
        /\ \/ ~op[p].finished
           \/ op[p].thread \notin {"done", "queued"}
           \/ op[p].cb \notin {"none", "over"}
           \/ op[p].transfer \in {"starting", "running", "copying"}

(* A task shown as in progress (LCFileNetTask.h:13) is being worked on:     *)
(* lc_startTask and lc_resumTask rely on it when they leave it alone.       *)
ProgressIsWorking ==
    \A id \in TaskIds :
        cache[id] # None /\ task[cache[id]].status = "Progress" => Working(id)

(* Every operation a queue was given is finished in the end: a task paused  *)
(* and resumed completes (testDownLoadPauseAndReusmATask).                  *)
OperationsEnd ==
    \A p \in Operations :
        op[p].thread # "none" ~> op[p].finished \/ op[p].thread = "none"
=============================================================================
