---------------------- MODULE LCFileNetServiceOutcome ----------------------
(* Proofs about how operations end, on top of the consistency of the        *)
(* service's tables: a success is never made up (SuccessIsReal), a started  *)
(* operation is served until it is finished (StartedOperationsGoOn), and    *)
(* its finish block is called once (FinishBlockOnce).                       *)
EXTENDS LCFileNetServiceProofs

(* A finish block under way for p that was not given an error.              *)
Answered(p) ==
    /\ op[p].cb \in {"setStatus", "saveStatus", "saveTask", "tellFinish"}
    /\ ~op[p].err

TasksReal ==
    \A o \in Objects : task[o].status = "Finish" => task[o].id \in delivered
RowsReal ==
    \A id \in TaskIds :
        row[id] # None /\ row[id].status = "Finish" => id \in delivered
AnswersReal == \A p \in Operations : Answered(p) => IdOf(p) \in delivered

(* The strengthening: the finish block carries the success from the moment  *)
(* the handler calls it, before any store of a status.                      *)
Reality == TasksReal /\ RowsReal /\ AnswersReal

LEMMA RealityIsEnough == Reality => SuccessIsReal
  BY DEF Reality, TasksReal, RowsReal, AnswersReal, Answered, SuccessIsReal

LEMMA InitReality == Init => Reality
  BY DEF Init, MemoryInit, Reality, TasksReal, RowsReal, AnswersReal, Answered,
         NoObject, NoOperation

(* A step that makes no finish block start, and renames no instance, leaves *)
(* the finish blocks' answers true.                                         *)
LEMMA AnswersFrame ==
    ASSUME Consistency, AnswersReal, delivered' = delivered,
           \A p \in Operations : Answered(p)' => Answered(p) /\ op'[p].obj = op[p].obj,
           \A o \in Objects : task[o].id # None => task'[o].id = task[o].id
    PROVE  AnswersReal'
  <1> SUFFICES ASSUME NEW p \in Operations, Answered(p)'
               PROVE  IdOf(p)' \in delivered'
    BY DEF AnswersReal
  <1>1. Answered(p) /\ op'[p].obj = op[p].obj
    OBVIOUS
  <1>2. op[p].thread # "none"
    BY <1>1 DEF Answered, Consistency, OperationsHaveTask
  <1>3. op[p].obj \in Objects /\ task[op[p].obj].id # None
    BY <1>2, Lookups DEF IdOf
  <1>4. IdOf(p)' = IdOf(p)
    BY <1>1, <1>3 DEF IdOf
  <1> QED BY <1>1, <1>4 DEF AnswersReal

(* p_addTask starts no finish block.                                        *)
LEMMA AddTaskAnswers ==
    ASSUME Consistency, NEW o, NEW t, NEW queue, p_addTask(o, t, queue)
    PROVE  \A p \in Operations : Answered(p)' => Answered(p) /\ op'[p].obj = op[p].obj
  <1>1. PICK n \in Operations :
            op' = [op EXCEPT ![n] =
                    [NoOperation EXCEPT
                        !.obj = o, !.thread = "queued",
                        !.queue = IF queue = "user" THEN "user" ELSE t.type]]
    BY DEF p_addTask
  <1>2. op'[n].cb = "none" /\ \A p \in Operations : p # n => op'[p] = op[p]
    BY <1>1 DEF Consistency, TypeOK, NoOperation
  <1> QED BY <1>2 DEF Answered

LEMMA StartTaskReality ==
    ASSUME Consistency, Reality,
           NEW o \in Objects, NEW tasks \in [Objects -> TaskObject],
           NEW queue, NEW fileExists,
           tasks[o].id # None,
           \A x \in Objects : task[x].id # None => tasks[x] = task[x],
           \A x \in Objects : tasks[x].status = "Finish" => tasks[x].id \in delivered,
           lc_startTask(o, tasks, queue, fileExists)
    PROVE  Reality'
  <1>1. delivered' = delivered /\ tasks[o].id \in TaskIds
    BY DEF lc_startTask, TaskObject
  <1>2. \A p \in Operations : Answered(p)' => Answered(p) /\ op'[p].obj = op[p].obj
    <2>1. \/ op' = op
          \/ \E x, t : p_addTask(x, t, queue)
      BY DEF lc_startTask, StartRejected, StartCached, StartFromDatabase, StartNew
    <2> QED BY <2>1, AddTaskAnswers DEF Answered
  <1>3. CASE task' = tasks /\ row' = row
    <2>1. AnswersReal'
      BY <1>1, <1>2, <1>3, AnswersFrame DEF Reality
    <2> QED BY <1>1, <1>3, <2>1 DEF Reality, TasksReal, RowsReal
  <1>4. CASE StartFromDatabase(o, tasks, queue)
    <2> DEFINE i == tasks[o].id
    <2>1. PICK n \in Fresh(tasks) : task' = [tasks EXCEPT ![n] = Reloaded(i)]
      BY <1>4 DEF StartFromDatabase
    <2>2. row[i] # None /\ row' = row /\ n \in Objects /\ tasks[n].id = None
      BY <1>4 DEF StartFromDatabase, Fresh
    <2>3. /\ Reloaded(i).id = i
          /\ Reloaded(i).status = "Finish" => row[i].status = "Finish"
      BY <1>1, <2>2, ReloadedFacts DEF AfterReload, Consistency, TypeOK
    <2> HIDE DEF i
    <2>4. /\ task'[n] = Reloaded(i)
          /\ \A x \in Objects : x # n => task'[x] = tasks[x]
      BY <2>1, <2>2
    <2>5. TasksReal'
      BY <1>1, <2>2, <2>3, <2>4 DEF i, TasksReal, RowsReal, Reality
    <2>6. AnswersReal'
      BY <1>1, <1>2, <2>2, <2>4, AnswersFrame DEF Reality
    <2> QED BY <1>1, <2>2, <2>5, <2>6 DEF Reality, RowsReal
  <1>5. CASE StartNew(o, tasks, queue)
    <2>1. task' = tasks /\ row' = lc_saveTask(row, tasks[o])
      BY <1>5 DEF StartNew
    <2>2. TasksReal' /\ AnswersReal'
      BY <1>1, <1>2, <2>1, AnswersFrame DEF Reality, TasksReal
    <2>3. RowsReal'
      <3>1. \A id \in TaskIds :
                row'[id] = IF id = tasks[o].id
                           THEN [type |-> tasks[o].type, status |-> tasks[o].status]
                           ELSE row[id]
        <4>1. tasks[o] \in TaskObject /\ row \in Table
          BY DEF Consistency, TypeOK
        <4> QED BY <2>1, <4>1, SaveFacts
      <3> QED BY <1>1, <3>1 DEF RowsReal, Reality
    <2> QED BY <2>2, <2>3 DEF Reality
  <1> QED BY <1>3, <1>4, <1>5 DEF lc_startTask, StartRejected, StartCached

(* A pause or a cancel stores a status other than Finish.                   *)
LEMMA StatusStoreReality ==
    ASSUME Consistency, Reality, NEW S, NEW s \in TaskStatus, s # "Finish",
           task' = SetStatus(S, s), delivered' = delivered
    PROVE  /\ TasksReal'
           /\ \A o \in Objects : task'[o].id = task[o].id
  <1>1. task \in [Objects -> TaskObject]
    BY DEF Consistency, TypeOK
  <1> QED BY <1>1, SetStatusFacts DEF Reality, TasksReal

LEMMA UpdateReality ==
    ASSUME Consistency, Reality, NEW i \in TaskIds, NEW s \in TaskStatus,
           s = "Finish" => i \in delivered,
           row' = lc_updateTask(row, i, s), delivered' = delivered
    PROVE  RowsReal'
  BY DEF Consistency, TypeOK, Table, Reality, RowsReal, lc_updateTask

LEMMA CallReality ==
    ASSUME Consistency, Reality, PublicCall \/ MainStep PROVE Reality'
  <1>0. /\ task \in [Objects -> TaskObject] /\ row \in Table
        /\ \A o \in Objects : task[o].status = "Finish" => task[o].id \in delivered
    BY DEF Consistency, TypeOK, Reality, TasksReal
  <1>1. ASSUME NEW o \in Objects, NEW id \in TaskIds, NEW type \in Types,
               NEW q, NEW f, StartFresh(o, id, type, q, f)
        PROVE  Reality'
    <2> DEFINE made == [id |-> id, type |-> type, status |-> "Create",
                        blocks |-> TRUE]
               tasks == [task EXCEPT ![o] = made]
    <2>1. made \in TaskObject /\ made.id # None /\ made.status # "Finish"
      BY ConstantsAssumption, NoneAssumption DEF TaskObject, TaskStatus
    <2>2. /\ tasks \in [Objects -> TaskObject] /\ tasks[o].id # None
          /\ \A x \in Objects : task[x].id # None => tasks[x] = task[x]
          /\ \A x \in Objects : tasks[x].status = "Finish" => tasks[x].id \in delivered
          /\ lc_startTask(o, tasks, q, f)
      BY <1>0, <1>1, <2>1 DEF StartFresh, Fresh
    <2> HIDE DEF tasks
    <2> QED BY <2>2, StartTaskReality
  <1>2. ASSUME NEW o \in Objects, NEW q, NEW f, StartAgain(o, q, f) PROVE Reality'
    <2>1. task[o].id # None /\ lc_startTask(o, task, q, f)
      BY <1>2 DEF StartAgain, Known, Fresh
    <2> QED BY <1>0, <2>1, StartTaskReality
  <1>3. ASSUME NEW id \in TaskIds, NEW q, NEW f, lc_resumTask(id, q, f) PROVE Reality'
    <2>1. CASE cache[id] # None /\ lc_startTask(cache[id], task, q, f)
      <3>1. cache[id] \in Objects /\ task[cache[id]].id # None
        BY <2>1, NoneAssumption, Lookups DEF Consistency, CacheHoldsId
      <3> QED BY <1>0, <2>1, <3>1, StartTaskReality
    <2>2. CASE UNCHANGED vars
      BY <2>2 DEF vars, Reality, TasksReal, RowsReal, AnswersReal, Answered, IdOf
    <2> QED BY <1>3, <2>1, <2>2 DEF lc_resumTask
  <1>4. ASSUME NEW id \in TaskIds, lc_getTask(id) PROVE Reality'
    <2>1. PICK n \in Fresh(task) : task' = [task EXCEPT ![n] = Reloaded(id)]
      BY <1>4 DEF lc_getTask
    <2>2. /\ row[id] # None /\ UNCHANGED <<row, op, delivered>>
          /\ n \in Objects /\ task[n].id = None
      BY <1>4 DEF lc_getTask, Fresh
    <2>3. /\ Reloaded(id).id = id
          /\ Reloaded(id).status = "Finish" => row[id].status = "Finish"
      BY <1>0, <2>2, ReloadedFacts DEF AfterReload
    <2>4. /\ task'[n] = Reloaded(id)
          /\ \A x \in Objects : x # n => task'[x] = task[x]
      BY <1>0, <2>1, <2>2
    <2>5. TasksReal'
      BY <1>0, <2>2, <2>3, <2>4 DEF TasksReal, RowsReal, Reality
    <2>6. AnswersReal'
      BY <2>2, <2>4, AnswersFrame DEF Reality, Answered
    <2> QED BY <2>2, <2>5, <2>6 DEF Reality, RowsReal
  <1>5. CASE UNCHANGED <<task, row, op, delivered>>
    BY <1>5 DEF Reality, TasksReal, RowsReal, AnswersReal, Answered, IdOf
  <1>6. CASE CancelRest
    <2> DEFINE i == main.cancelling
    <2>1. /\ i \in TaskIds /\ delivered' = delivered
          /\ row' = [row EXCEPT ![i] = None]
      BY <1>6 DEF CancelRest, lc_deleteTaskByTaskId, Consistency, TypeOK
    <2>2. PICK S : task' = SetStatus(S, "Canceled")
      BY <1>6 DEF CancelRest, CancelOperation
    <2>3. TasksReal' /\ \A o \in Objects : task'[o].id = task[o].id
      BY <2>1, <2>2, StatusStoreReality DEF TaskStatus
    <2>4. RowsReal'
      BY <1>0, <2>1 DEF Reality, RowsReal, Table
    <2>5. SameOperations(op')
      <3>1. /\ SameOperations(op)
            /\ opDic[i] # None => opDic[i] \in Operations /\ IdOf(opDic[i]) = i
        BY <2>1, Lookups DEF Consistency, TypeOK, SameOperations, OpDicMatchesCache,
                             CacheHoldsId, IdOf
      <3> QED BY <1>6, <2>1, <3>1, HanderFacts, EndOperationFacts
              DEF CancelRest, CancelOperation
    <2>6. AnswersReal'
      BY <2>1, <2>3, <2>5, AnswersFrame DEF Reality, Answered, SameOperations
    <2> QED BY <2>3, <2>4, <2>6 DEF Reality
  <1>7. CASE PauseRest
    <2> DEFINE i == main.pausing
    <2>1. i \in TaskIds /\ delivered' = delivered
      BY <1>7 DEF PauseRest, Consistency, TypeOK
    <2>2. PICK S : task' = SetStatus(S, "Pause")
      BY <1>7 DEF PauseRest, PauseOperation
    <2>3. TasksReal' /\ \A o \in Objects : task'[o].id = task[o].id
      BY <2>1, <2>2, StatusStoreReality DEF TaskStatus
    <2>4. /\ SameOperations(op)
          /\ opDic[i] # None => opDic[i] \in Operations /\ IdOf(opDic[i]) = i
      BY <2>1, Lookups DEF Consistency, TypeOK, SameOperations, OpDicMatchesCache,
                           CacheHoldsId, IdOf
    <2>5. RowsReal'
      <3>1. row' = row \/ row' = lc_updateTask(row, i, "Pause")
        BY <1>7, <2>4 DEF PauseRest, PauseOperation
      <3>2. CASE row' = row
        BY <2>1, <3>2 DEF Reality, RowsReal
      <3> QED BY <2>1, <3>1, <3>2, UpdateReality DEF TaskStatus
    <2>6. SameOperations(op')
      BY <1>7, <2>1, <2>4, HanderFacts, EndOperationFacts DEF PauseRest, PauseOperation
    <2>7. AnswersReal'
      BY <2>1, <2>3, <2>6, AnswersFrame DEF Reality, Answered, SameOperations
    <2> QED BY <2>3, <2>5, <2>7 DEF Reality
  <1>8. ASSUME NEW id \in TaskIds,
               lc_cancelTask(id) \/ lc_pauseTask(id) \/ PauseCheck(id)
        PROVE  Reality'
    BY <1>5, <1>8 DEF lc_cancelTask, lc_pauseTask, PauseCheck
  <1>9. CASE lc_pauseAllTask
    BY <1>5, <1>9 DEF lc_pauseAllTask
  <1>10. CASE PublicCall
    BY <1>1, <1>2, <1>3, <1>4, <1>8, <1>9, <1>10 DEF PublicCall
  <1>11. CASE MainStep
    BY <1>6, <1>7, <1>8, <1>11 DEF MainStep
  <1> QED BY <1>10, <1>11

(* An update of one operation that leaves its task, and whose finish block  *)
(* carries no success that was not there.                                   *)
LEMMA OneAnswer ==
    ASSUME Consistency, NEW p \in Operations, NEW r,
           r.obj = op[p].obj,
           r.cb \in {"setStatus", "saveStatus", "saveTask", "tellFinish"} /\ ~r.err
                => Answered(p),
           op' = [op EXCEPT ![p] = r]
    PROVE  \A q \in Operations : Answered(q)' => Answered(q) /\ op'[q].obj = op[q].obj
  <1>1. op'[p] = r /\ \A q \in Operations : q # p => op'[q] = op[q]
    BY DEF Consistency, TypeOK
  <1> QED BY <1>1 DEF Answered

(* A step in which the handler answers the operation p, with a success only *)
(* if that success is recorded.                                             *)
LEMMA AnswerReality ==
    ASSUME Consistency, Reality, NEW p \in Operations, op[p].thread # "none",
           task' = task, row' = row, delivered \subseteq delivered',
           \A q \in Operations : op'[q].obj = op[q].obj,
           \A q \in Operations : q # p /\ Answered(q)' => Answered(q),
           Answered(p)' => Answered(p) \/ IdOf(p) \in delivered'
    PROVE  Reality'
  <1>1. AnswersReal'
    <2> SUFFICES ASSUME NEW q \in Operations, Answered(q)'
                 PROVE  IdOf(q)' \in delivered'
      BY DEF AnswersReal
    <2>1. IdOf(q)' = IdOf(q)
      BY DEF IdOf
    <2> QED BY <2>1 DEF Reality, AnswersReal
  <1> QED BY <1>1 DEF Reality, TasksReal, RowsReal

(* The handler's start answers, if at once, with an error.                  *)
LEMMA StartAnswer ==
    ASSUME Consistency, Reality, NEW p \in Operations, op[p].thread # "none",
           task' = task, row' = row, delivered' = delivered,
           NEW o \in OperationState, o.obj = op[p].obj, o.cb = op[p].cb,
           o.err = op[p].err, NEW sync \in BOOLEAN,
           \E answer \in HanderStart(o, sync) : op' = [op EXCEPT ![p] = answer]
    PROVE  Reality'
  <1>1. PICK answer \in HanderStart(o, sync) : op' = [op EXCEPT ![p] = answer]
    OBVIOUS
  <1>2. /\ answer.obj = op[p].obj
        /\ answer.err \/ (answer.cb = op[p].cb /\ answer.err = op[p].err)
    BY AnswerFacts
  <1>3. op'[p] = answer /\ \A q \in Operations : q # p => op'[q] = op[q]
    BY <1>1 DEF Consistency, TypeOK
  <1> QED BY <1>2, <1>3, AnswerReality DEF Answered

LEMMA OpThreadReality ==
    ASSUME Consistency, Reality, NEW p \in Operations, OpThread(p) PROVE Reality'
  <1>1. /\ op[p].thread # "none"
        /\ op \in [Operations -> OperationState] /\ op[p] \in OperationState
        /\ IdOf(p) \in TaskIds
    BY Lookups
    DEF OpThread, OpStart, OpMain, SetProgress, SaveProgress, Consistency, TypeOK
  <1>2. CASE OpStart(p)
    <2> DEFINE over == [op[p] EXCEPT !.thread = "done", !.finished = TRUE]
               on == [op[p] EXCEPT !.thread = "main"]
    <2>1. over.obj = op[p].obj /\ over.cb = op[p].cb /\ over.err = op[p].err
      BY <1>1 DEF OperationState
    <2>2. on.obj = op[p].obj /\ on.cb = op[p].cb /\ on.err = op[p].err
      BY <1>1 DEF OperationState
    <2>3. op' = [op EXCEPT ![p] = over] \/ op' = [op EXCEPT ![p] = on]
      BY <1>1, <1>2 DEF OpStart
    <2>4. \A q \in Operations : Answered(q)' => Answered(q) /\ op'[q].obj = op[q].obj
      <3> HIDE DEF over, on
      <3> QED BY <2>1, <2>2, <2>3, OneAnswer DEF Answered
    <2>5. task' = task /\ row' = row /\ delivered' = delivered
      BY <1>2 DEF OpStart
    <2>6. AnswersReal'
      BY <1>1, <2>4, <2>5, AnswersFrame DEF Reality
    <2> QED BY <1>1, <2>5, <2>6 DEF Reality, TasksReal, RowsReal
  <1>3. CASE OpMain(p)
    <2> DEFINE q == taskDic[IdOf(p)]
               started == [op[p] EXCEPT !.thread = "setProgress"]
               upload == task[op[p].obj].type = "Upload"
    <2>1. task' = task /\ row' = row
      BY <1>3 DEF OpMain
    <2>2. /\ started \in OperationState /\ started.obj = op[p].obj
          /\ started.cb = op[p].cb /\ started.err = op[p].err
      BY <1>1 DEF OperationState
    <2>9. upload \in BOOLEAN
      OBVIOUS
    <2> HIDE DEF started, upload
    <2>3. CASE /\ q # None /\ op[q].transfer \in TakenOver
               /\ op' = [op EXCEPT ![q].transfer = "lost",
                                   ![p] = HanderResum(started, op[q].transfer, upload)]
               /\ delivered' = IF op[q].transfer = "completed"
                               THEN delivered \cup {IdOf(p)} ELSE delivered
      <3> DEFINE lost == [op[q] EXCEPT !.transfer = "lost"]
                 taken == HanderResum(started, op[q].transfer, upload)
      <3>1. q \in Operations
        BY <1>1, <2>3, Lookups
      <3>2. lost.obj = op[q].obj /\ lost.cb = op[q].cb /\ lost.err = op[q].err
        BY <1>1, <3>1 DEF OperationState
      <3>3. /\ taken.obj = op[p].obj
            /\ op[q].transfer # "completed" =>
                    taken.cb = op[p].cb /\ taken.err = op[p].err
        BY <2>2, <2>3, <2>9, ResumFacts
      <3>4. op' = [[op EXCEPT ![q] = lost] EXCEPT ![p] = taken]
        BY <1>1, <2>3, <3>1
      <3>5. /\ op'[p] = taken
            /\ \A x \in Operations : x # p => /\ op'[x].obj = op[x].obj
                                             /\ op'[x].cb = op[x].cb
                                             /\ op'[x].err = op[x].err
        <4> HIDE DEF lost, taken, q
        <4> QED BY <1>1, <3>1, <3>2, <3>4
      <3> HIDE DEF lost, taken
      <3>6. Answered(p)' => Answered(p) \/ IdOf(p) \in delivered'
        BY <2>3, <3>3, <3>5 DEF Answered
      <3>7. delivered \subseteq delivered'
        BY <2>3
      <3>8. \A x \in Operations : op'[x].obj = op[x].obj
        BY <3>3, <3>5
      <3>9. \A x \in Operations : x # p /\ Answered(x)' => Answered(x)
        BY <3>5 DEF Answered
      <3> QED BY <1>1, <2>1, <3>6, <3>7, <3>8, <3>9, AnswerReality
    <2>4. CASE /\ \E answer \in HanderStart(started, TRUE) :
                     op' = [op EXCEPT ![p] = answer]
               /\ UNCHANGED delivered
      BY <1>1, <2>1, <2>2, <2>4, StartAnswer
    <2> QED BY <1>3, <2>3, <2>4 DEF OpMain, started, upload
  <1>4. CASE SetProgress(p)
    <2> DEFINE r == [op[p] EXCEPT !.thread = "saveProgress"]
    <2>1. r.obj = op[p].obj /\ r.cb = op[p].cb /\ r.err = op[p].err
      BY <1>1 DEF OperationState
    <2>2. /\ op' = [op EXCEPT ![p] = r] /\ row' = row /\ delivered' = delivered
          /\ task' = SetStatus({op[p].obj}, "Progress")
      BY <1>1, <1>4 DEF SetProgress
    <2>3. \A q \in Operations : Answered(q)' => Answered(q) /\ op'[q].obj = op[q].obj
      <3> HIDE DEF r
      <3> QED BY <2>1, <2>2, OneAnswer DEF Answered
    <2>4. TasksReal' /\ \A o \in Objects : task'[o].id = task[o].id
      BY <2>2, StatusStoreReality DEF TaskStatus
    <2>5. AnswersReal'
      BY <2>2, <2>3, <2>4, AnswersFrame DEF Reality
    <2> QED BY <1>1, <2>2, <2>4, <2>5 DEF Reality, RowsReal
  <1>5. CASE SaveProgress(p)
    <2> DEFINE r == [op[p] EXCEPT !.thread = "done"]
    <2>1. r.obj = op[p].obj /\ r.cb = op[p].cb /\ r.err = op[p].err
      BY <1>1 DEF OperationState
    <2>2. /\ op' = [op EXCEPT ![p] = r] /\ task' = task /\ delivered' = delivered
          /\ row' = lc_updateTask(row, IdOf(p), "Progress")
      BY <1>1, <1>5 DEF SaveProgress
    <2>3. \A q \in Operations : Answered(q)' => Answered(q) /\ op'[q].obj = op[q].obj
      <3> HIDE DEF r
      <3> QED BY <2>1, <2>2, OneAnswer DEF Answered
    <2>4. RowsReal'
      BY <1>1, <2>2, UpdateReality DEF TaskStatus
    <2>5. AnswersReal'
      BY <1>1, <2>2, <2>3, AnswersFrame DEF Reality
    <2> QED BY <1>1, <2>2, <2>4, <2>5 DEF Reality, TasksReal
  <1> QED BY <1>2, <1>3, <1>4, <1>5 DEF OpThread

LEMMA TransferThreadReality ==
    ASSUME Consistency, Reality, NEW p \in Operations, TransferThread(p)
    PROVE  Reality'
  <1>1. /\ op[p].thread # "none"
        /\ op \in [Operations -> OperationState] /\ op[p] \in OperationState
        /\ task \in [Objects -> TaskObject] /\ row \in Table
    BY DEF TransferThread, TransferRuns, TransferNotifies, RegisterTransfer,
           TransferFinish, CopyFinish, UrlAnswer, ForgetTransfer, SetFinishStatus,
           SaveFinishStatus, SaveFinishedTask, TellFinish, Consistency, TypeOK,
           OperationsHaveTask
  <1>2. op[p].obj \in Objects /\ IdOf(p) \in TaskIds /\ IdOf(p) # None
    BY <1>1, Lookups
  <1>3. ASSUME NEW err \in BOOLEAN, RegisterTransfer(p, err) PROVE Reality'
    <2> DEFINE running == [op[p] EXCEPT !.transfer = "running"]
    <2>1. UNCHANGED <<task, row, delivered>>
      BY <1>3 DEF RegisterTransfer
    <2>2. CASE op' = [op EXCEPT ![p] = AnswerError(op[p], FALSE)]
      <3>1. AnswerError(op[p], FALSE) \in HanderStart(op[p], FALSE)
        BY DEF HanderStart, p_startTransfer
      <3> QED BY <1>1, <2>1, <2>2, <3>1, StartAnswer
    <2>3. CASE op' = [op EXCEPT ![p] = running]
      <3>1. /\ running.obj = op[p].obj /\ running.cb = op[p].cb
            /\ running.err = op[p].err
        BY <1>1 DEF OperationState
      <3> HIDE DEF running
      <3>2. op'[p] = running /\ \A q \in Operations : q # p => op'[q] = op[q]
        BY <1>1, <2>3
      <3> QED BY <1>1, <2>1, <3>1, <3>2, AnswerReality DEF Answered
    <2> QED BY <1>1, <1>3, <2>2, <2>3 DEF RegisterTransfer
  <1>8. ASSUME NEW err \in BOOLEAN, TransferFinish(p, err) PROVE Reality'
    <2> DEFINE over == [op[p] EXCEPT !.cb = "setStatus", !.err = err,
                            !.transfer = IF err THEN "failed" ELSE "completed",
                            !.forget = ~op[p].resumed]
    <2>1. task' = task /\ row' = row
      BY <1>8 DEF TransferFinish
    <2>2. CASE /\ \E answer \in HanderStart(op[p], FALSE) :
                     op' = [op EXCEPT ![p] = answer]
               /\ UNCHANGED delivered
      BY <1>1, <2>1, <2>2, StartAnswer
    <2>3. CASE /\ op' = [op EXCEPT ![p] = over]
               /\ delivered' = IF err THEN delivered ELSE delivered \cup {IdOf(p)}
      <3>1. over.obj = op[p].obj /\ over.err = err
        BY <1>1 DEF OperationState
      <3> HIDE DEF over
      <3>2. op'[p] = over /\ \A q \in Operations : q # p => op'[q] = op[q]
        BY <1>1, <2>3
      <3>3. Answered(p)' => IdOf(p) \in delivered'
        BY <2>3, <3>1, <3>2 DEF Answered
      <3>4. delivered \subseteq delivered'
        BY <2>3
      <3>5. \A q \in Operations : /\ op'[q].obj = op[q].obj
                                  /\ q # p /\ Answered(q)' => Answered(q)
        BY <3>1, <3>2 DEF Answered
      <3> QED BY <1>1, <2>1, <3>3, <3>4, <3>5, AnswerReality
    <2> QED BY <1>8, <2>2, <2>3 DEF TransferFinish
  <1>11. ASSUME NEW err \in BOOLEAN, UrlAnswer(p, err) PROVE Reality'
    <2> DEFINE again == [op[p] EXCEPT !.cb = "none"]
               over == [op[p] EXCEPT !.cb = "setStatus"]
    <2>1. task' = task /\ row' = row
      BY <1>11 DEF UrlAnswer
    <2>2. CASE /\ \E answer \in HanderStart(again, FALSE) :
                     op' = [op EXCEPT ![p] = answer]
               /\ UNCHANGED delivered
      <3>1. /\ again \in OperationState /\ again.obj = op[p].obj
            /\ again.cb = "none"
        BY <1>1, ZenonT(60) DEF OperationState
      <3> HIDE DEF again
      <3>2. PICK answer \in HanderStart(again, FALSE) : op' = [op EXCEPT ![p] = answer]
        BY <2>2
      <3>3. answer.obj = op[p].obj /\ (answer.err \/ answer.cb = "none")
        BY <3>1, <3>2, AnswerFacts
      <3>4. op'[p] = answer /\ \A q \in Operations : q # p => op'[q] = op[q]
        BY <1>1, <3>2
      <3> QED BY <1>1, <2>1, <2>2, <3>3, <3>4, AnswerReality DEF Answered
    <2>3. CASE /\ op' = [op EXCEPT ![p] = over]
               /\ delivered' = delivered \cup {IdOf(p)}
      <3>1. over.obj = op[p].obj
        BY <1>1 DEF OperationState
      <3> HIDE DEF over
      <3>2. op'[p] = over /\ \A q \in Operations : q # p => op'[q] = op[q]
        BY <1>1, <2>3
      <3>3. \A q \in Operations : /\ op'[q].obj = op[q].obj
                                  /\ q # p /\ Answered(q)' => Answered(q)
        BY <3>1, <3>2 DEF Answered
      <3> QED BY <1>1, <2>1, <2>3, <3>3, AnswerReality
    <2> QED BY <1>1, <1>11, <2>2, <2>3 DEF UrlAnswer
  <1>9. ASSUME NEW err \in BOOLEAN, CopyFinish(p, err) PROVE Reality'
    <2> DEFINE over == [op[p] EXCEPT !.cb = "setStatus", !.err = FALSE,
                                     !.transfer = "lost"]
    <2>1. task' = task /\ row' = row
      BY <1>9 DEF CopyFinish
    <2>2. CASE /\ \E answer \in p_startTransfer(op[p], FALSE) :
                     op' = [op EXCEPT ![p] = answer]
               /\ UNCHANGED delivered
      <3>1. \E answer \in HanderStart(op[p], FALSE) : op' = [op EXCEPT ![p] = answer]
        BY <2>2 DEF HanderStart
      <3> QED BY <1>1, <2>1, <2>2, <3>1, StartAnswer
    <2>3. CASE /\ op' = [op EXCEPT ![p] = over]
               /\ delivered' = delivered \cup {IdOf(p)}
      <3>1. over.obj = op[p].obj
        BY <1>1 DEF OperationState
      <3> HIDE DEF over
      <3>2. op'[p] = over /\ \A q \in Operations : q # p => op'[q] = op[q]
        BY <1>1, <2>3
      <3>3. \A q \in Operations : /\ op'[q].obj = op[q].obj
                                  /\ q # p /\ Answered(q)' => Answered(q)
        BY <3>1, <3>2 DEF Answered
      <3> QED BY <1>1, <2>1, <2>3, <3>3, AnswerReality
    <2> QED BY <1>9, <2>2, <2>3 DEF CopyFinish
  <1>10. CASE ForgetTransfer(p)
    <2> DEFINE r == [op[p] EXCEPT !.forget = FALSE]
    <2>1. r.obj = op[p].obj /\ r.cb = op[p].cb /\ r.err = op[p].err
      BY <1>1 DEF OperationState
    <2>2. op' = [op EXCEPT ![p] = r] /\ UNCHANGED <<task, row, delivered>>
      BY <1>1, <1>10 DEF ForgetTransfer
    <2> HIDE DEF r
    <2>3. op'[p] = r /\ \A q \in Operations : q # p => op'[q] = op[q]
      BY <1>1, <2>2
    <2> QED BY <1>1, <2>1, <2>2, <2>3, AnswerReality DEF Answered
  <1>4. CASE SetFinishStatus(p)
    <2> DEFINE r == [op[p] EXCEPT !.cb = "saveStatus"]
    <2>1. r.obj = op[p].obj /\ r.err = op[p].err
      BY <1>1 DEF OperationState
    <2>2. /\ op' = [op EXCEPT ![p] = r] /\ row' = row /\ delivered' = delivered
          /\ op[p].cb = "setStatus"
          /\ task' = SetStatus({op[p].obj}, FinishStatus(op[p].err))
      BY <1>1, <1>4 DEF SetFinishStatus
    <2>3. \A q \in Operations : Answered(q)' => Answered(q) /\ op'[q].obj = op[q].obj
      <3> HIDE DEF r
      <3> QED BY <2>1, <2>2, OneAnswer DEF Answered
    <2>4. /\ FinishStatus(op[p].err) \in TaskStatus
          /\ FinishStatus(op[p].err) = "Finish" => IdOf(p) \in delivered
      BY <2>2 DEF FinishStatus, TaskStatus, Reality, AnswersReal, Answered
    <2>5. \A o \in Objects :
            /\ task'[o].id = task[o].id
            /\ task'[o].status = IF o = op[p].obj THEN FinishStatus(op[p].err)
                                                  ELSE task[o].status
      BY <1>1, <2>2, <2>4, SetStatusFacts
    <2>6. TasksReal'
      BY <2>2, <2>4, <2>5 DEF Reality, TasksReal, IdOf
    <2>7. AnswersReal'
      BY <2>2, <2>3, <2>5, AnswersFrame DEF Reality
    <2> QED BY <2>2, <2>6, <2>7 DEF Reality, RowsReal
  <1>5. CASE SaveFinishStatus(p)
    <2> DEFINE r == [op[p] EXCEPT !.cb = "saveTask"]
    <2>1. r.obj = op[p].obj /\ r.err = op[p].err
      BY <1>1 DEF OperationState
    <2>2. /\ op' = [op EXCEPT ![p] = r] /\ task' = task /\ delivered' = delivered
          /\ op[p].cb = "saveStatus"
          /\ row' = lc_updateTask(row, IdOf(p), task[op[p].obj].status)
      BY <1>1, <1>5 DEF SaveFinishStatus
    <2>3. \A q \in Operations : Answered(q)' => Answered(q) /\ op'[q].obj = op[q].obj
      <3> HIDE DEF r
      <3> QED BY <2>1, <2>2, OneAnswer DEF Answered
    <2>4. /\ task[op[p].obj].status \in TaskStatus
          /\ task[op[p].obj].status = "Finish" => IdOf(p) \in delivered
      BY <1>1, <1>2 DEF TaskObject, Reality, TasksReal, IdOf
    <2>5. RowsReal'
      BY <1>2, <2>2, <2>4, UpdateReality
    <2>6. AnswersReal'
      BY <2>2, <2>3, AnswersFrame DEF Reality
    <2> QED BY <2>2, <2>5, <2>6 DEF Reality, TasksReal
  <1>6. CASE SaveFinishedTask(p)
    <2> DEFINE r == [op[p] EXCEPT !.cb = "tellFinish"]
               t == [task[op[p].obj] EXCEPT !.status = StatusToSave(p)]
    <2>1. r.obj = op[p].obj /\ r.err = op[p].err
      BY <1>1 DEF OperationState
    <2>2. /\ op' = [op EXCEPT ![p] = r] /\ delivered' = delivered
          /\ op[p].cb = "saveTask"
          /\ task' = SetStatus({op[p].obj}, StatusToSave(p))
          /\ row' = lc_saveTask(row, t)
      BY <1>1, <1>6 DEF SaveFinishedTask
    <2>3. \A q \in Operations : Answered(q)' => Answered(q) /\ op'[q].obj = op[q].obj
      <3> HIDE DEF r
      <3> QED BY <2>1, <2>2, OneAnswer DEF Answered
    <2>4. /\ StatusToSave(p) \in TaskStatus
          /\ StatusToSave(p) = "Finish" => IdOf(p) \in delivered
      BY <1>1, <1>2 DEF StatusToSave, TaskStatus, TaskObject, Reality, TasksReal, IdOf
    <2>5. \A o \in Objects :
            /\ task'[o].id = task[o].id
            /\ task'[o].status = IF o = op[p].obj THEN StatusToSave(p)
                                                  ELSE task[o].status
      BY <1>1, <2>2, <2>4, SetStatusFacts
    <2>6. TasksReal'
      BY <2>2, <2>4, <2>5 DEF Reality, TasksReal, IdOf
    <2>7. t \in TaskObject /\ t.id = IdOf(p) /\ t.status = StatusToSave(p)
      BY <1>1, <1>2, <2>4 DEF TaskObject, IdOf
    <2>8. RowsReal'
      <3> HIDE DEF t
      <3>1. \A id \in TaskIds :
                row'[id] = IF id = t.id THEN [type |-> t.type, status |-> t.status]
                           ELSE row[id]
        BY <1>1, <1>2, <2>2, <2>7, SaveFacts
      <3> QED BY <2>2, <2>4, <2>7, <3>1 DEF Reality, RowsReal
    <2>9. AnswersReal'
      BY <2>2, <2>3, <2>5, AnswersFrame DEF Reality
    <2> QED BY <2>6, <2>8, <2>9 DEF Reality
  <1>7. CASE TellFinish(p)
    <2> DEFINE r == [op[p] EXCEPT !.cb = "over", !.finished = TRUE, !.err = FALSE,
                                  !.sync = FALSE, !.resumed = FALSE]
    <2>1. r.obj = op[p].obj /\ r.cb = "over"
      BY <1>1 DEF OperationState
    <2>2. /\ op' = [op EXCEPT ![p] = r]
          /\ UNCHANGED <<task, row, delivered>>
      BY <1>1, <1>7 DEF TellFinish, p_finishOperatioin
    <2>3. \A q \in Operations : Answered(q)' => Answered(q) /\ op'[q].obj = op[q].obj
      <3> HIDE DEF r
      <3> QED BY <2>1, <2>2, OneAnswer DEF Answered
    <2>4. AnswersReal'
      BY <2>2, <2>3, AnswersFrame DEF Reality
    <2> QED BY <2>2, <2>4 DEF Reality, TasksReal, RowsReal
  <1> QED BY <1>3, <1>4, <1>5, <1>6, <1>7, <1>8, <1>9, <1>10, <1>11
          DEF TransferThread, TransferRuns, TransferNotifies

LEMMA NextReality == Consistency /\ Reality /\ [Next]_vars => Reality'
  <1> SUFFICES ASSUME Consistency, Reality, [Next]_vars PROVE Reality'
    OBVIOUS
  <1>1. CASE PublicCall \/ MainStep
    BY <1>1, CallReality
  <1>2. ASSUME NEW p \in Operations, OpThread(p) \/ TransferThread(p)
        PROVE  Reality'
    BY <1>2, OpThreadReality, TransferThreadReality
  <1>3. CASE Restart
    <2>1. \A i \in TaskIds : row' = lc_updateTask(row, i, "Canceled") => RowsReal'
      <3>1. "Canceled" \in TaskStatus
        BY DEF TaskStatus
      <3> QED BY <1>3, <3>1, UpdateReality DEF Restart
    <2>2. RowsReal'
      BY <1>3, <2>1, KillFacts DEF Restart, Consistency, Reality, RowsReal
    <2> QED BY <1>3, <2>2 DEF Restart, Reality, TasksReal, AnswersReal, Answered,
                              NoObject, NoOperation
  <1>4. CASE UNCHANGED vars
    BY <1>4 DEF vars, Reality, TasksReal, RowsReal, AnswersReal, Answered, IdOf
  <1> QED BY <1>1, <1>2, <1>3, <1>4 DEF Next

(* No task in memory, no row and no finish notification claims a success    *)
(* the handler did not report, whatever pauses, cancels, late finish blocks *)
(* and restarts come in between.                                            *)
THEOREM SuccessNeverMadeUp == Spec => []SuccessIsReal
  <1>1. Init => Reality
    BY InitReality
  <1>2. Consistency /\ Reality /\ [Next]_vars => Reality'
    BY NextReality
  <1>3. Reality => SuccessIsReal
    BY RealityIsEnough
  <1> QED BY <1>1, <1>2, <1>3, Consistent, PTL DEF Spec

-----------------------------------------------------------------------------
(* The life of an operation.                                               *)

(* How the thread, the transfer and the finish block of an operation go     *)
(* together.                                                                *)
LifeCycle(r) ==
    /\ r.thread \in {"none", "queued", "main"} => r.transfer = "none" /\ r.cb = "none"
    /\ r.thread \notin {"none", "queued", "main"} /\ ~r.finished => r.transfer # "none"
    /\ r.transfer \in {"completed", "failed"} => r.cb # "none"
    /\ r.cb # "none" => r.transfer \notin {"starting", "copying", "running", "paused"}
    /\ r.cb = "over" => r.finished

(* The operation is not finished and its transfer will not call its finish  *)
(* block.                                                                   *)
Stopped(r) ==
    /\ r.thread \notin {"none", "queued"} /\ ~r.finished
    /\ r.cb = "none" /\ r.transfer \in {"paused", "cancelled", "lost"}

LifeCycles == \A p \in Operations : LifeCycle(op[p])
StoppedByRivals ==
    \A p \in Operations :
        Stopped(op[p]) => /\ Rivals(p) # {}
                          /\ op[p].transfer = "paused" => opDic[IdOf(p)] # p

(* The handler files an AWS task under the taskId of its operation.         *)
TaskDicHoldsId == \A id \in TaskIds : taskDic[id] # None => IdOf(taskDic[id]) = id

(* The strengthening: what stops a transfer is looked up by taskId, so it   *)
(* is a call for the operation that is ended with it or an operation of the *)
(* same task.                                                               *)
Lives == LifeCycles /\ StoppedByRivals /\ TaskDicHoldsId

LEMMA LivesIsEnough == Consistency /\ Lives => StartedOperationsGoOn
  <1> SUFFICES ASSUME Consistency, Lives, NEW p \in Operations,
                      op[p].thread \notin {"none", "queued"}, ~op[p].finished
               PROVE  GoesOn(p) \/ (LosesTransfer(p) /\ Rivals(p) # {})
    BY DEF StartedOperationsGoOn
  <1>1. /\ LifeCycle(op[p]) /\ op[p].transfer \in TransferState
        /\ Stopped(op[p]) => /\ Rivals(p) # {}
                             /\ op[p].transfer = "paused" => opDic[IdOf(p)] # p
    BY DEF Lives, LifeCycles, StoppedByRivals, Consistency, TypeOK, OperationState
  <1> QED BY <1>1 DEF LifeCycle, Stopped, GoesOn, LosesTransfer, TransferState

LEMMA InitLives == Init => Lives
  BY DEF Init, MemoryInit, Lives, LifeCycles, StoppedByRivals, TaskDicHoldsId,
         LifeCycle, Stopped, NoOperation

(* Operations keep their tasks, so rivals stay rivals.                      *)
NamesKept ==
    /\ \A p \in Operations : op[p].thread # "none" =>
            op'[p].thread # "none" /\ op'[p].obj = op[p].obj
    /\ \A o \in Objects : task[o].id # None => task'[o].id = task[o].id

(* No finish block is called a second time in this step.                    *)
CalledOnce ==
    \A p \in Operations :
        op[p].cb \notin {"none", "askUrl"} /\ op'[p].cb = "setStatus"
            => op[p].cb = "setStatus"

LEMMA RivalsKept ==
    ASSUME Consistency, NamesKept, NEW p \in Operations, op[p].thread # "none"
    PROVE  IdOf(p)' = IdOf(p) /\ Rivals(p) \subseteq Rivals(p)'
  <1>1. \A q \in Operations : op[q].thread # "none" => IdOf(q)' = IdOf(q)
    BY Lookups DEF NamesKept, Consistency, OperationsHaveTask, IdOf
  <1> QED BY <1>1 DEF NamesKept, Rivals

LEMMA LivesFrame ==
    ASSUME Consistency, Lives, NamesKept,
           \A p \in Operations : LifeCycle(op'[p]),
           \A p \in Operations : Stopped(op'[p]) =>
                /\ op[p].thread # "none"
                /\ Stopped(op[p]) \/ Rivals(p) # {}
                /\ op'[p].transfer = "paused" => opDic'[IdOf(p)] # p,
           \A id \in TaskIds : taskDic'[id] # None =>
                \/ taskDic'[id] = taskDic[id]
                \/ /\ taskDic'[id] \in Operations /\ op[taskDic'[id]].thread # "none"
                   /\ IdOf(taskDic'[id]) = id
    PROVE  Lives'
  <1>1. LifeCycles'
    BY DEF LifeCycles
  <1>2. StoppedByRivals'
    BY RivalsKept DEF Lives, StoppedByRivals
  <1>3. TaskDicHoldsId'
    <2> SUFFICES ASSUME NEW id \in TaskIds, taskDic'[id] # None
                 PROVE  task'[op'[taskDic'[id]].obj].id = id
      BY DEF TaskDicHoldsId, IdOf
    <2> DEFINE q == taskDic'[id]
    <2>1. q \in Operations /\ op[q].thread # "none" /\ IdOf(q) = id
      BY Lookups DEF Lives, TaskDicHoldsId, Consistency, DicHoldsOperations
    <2> HIDE DEF q
    <2>2. op'[q].obj = op[q].obj
        /\ task[op[q].obj].id # None /\ op[q].obj \in Objects
      BY <2>1, Lookups DEF NamesKept, Consistency, OperationsHaveTask
    <2>3. task'[op'[q].obj].id = id
      BY <2>1, <2>2 DEF NamesKept, IdOf
    <2> QED BY <2>3 DEF q
  <1> QED BY <1>1, <1>2, <1>3 DEF Lives

(* A step of p's threads that changes p's record only.                      *)
LEMMA OneLife ==
    ASSUME Consistency, Lives, NEW p \in Operations, op[p].thread # "none",
           NEW r, r.obj = op[p].obj, r.thread # "none", LifeCycle(r),
           Stopped(r) => Stopped(op[p]) /\ r.transfer = op[p].transfer,
           op[p].cb \notin {"none", "askUrl"} /\ r.cb = "setStatus"
                => op[p].cb = "setStatus",
           op' = [op EXCEPT ![p] = r], opDic' = opDic,
           \A o \in Objects : task'[o].id = task[o].id,
           \A id \in TaskIds :
                taskDic'[id] \in {taskDic[id], None} \/ (id = IdOf(p) /\ taskDic'[id] = p)
    PROVE  Lives' /\ CalledOnce
  <1>1. op'[p] = r /\ \A q \in Operations : q # p => op'[q] = op[q]
    BY DEF Consistency, TypeOK
  <1>2. NamesKept
    BY <1>1 DEF NamesKept
  <1>3. \A q \in Operations : LifeCycle(op'[q])
    BY <1>1 DEF Lives, LifeCycles
  <1>4. \A q \in Operations : Stopped(op'[q]) =>
                /\ op[q].thread # "none"
                /\ Stopped(op[q]) \/ Rivals(q) # {}
                /\ op'[q].transfer = "paused" => opDic'[IdOf(q)] # q
    BY <1>1 DEF Lives, StoppedByRivals, Stopped
  <1>5. CalledOnce
    BY <1>1 DEF CalledOnce
  <1> QED BY <1>2, <1>3, <1>4, <1>5, LivesFrame

(* p_addTask makes an operation without a transfer and a finish block.      *)
LEMMA AddTaskLives ==
    ASSUME Consistency, Lives, NEW o, NEW t, NEW queue,
           p_addTask(o, t, queue), taskDic' = taskDic,
           \A x \in Objects : task[x].id # None => task'[x].id = task[x].id
    PROVE  Lives' /\ CalledOnce
  <1>1. PICK n \in Operations :
            /\ op[n].thread = "none"
            /\ op' = [op EXCEPT ![n] =
                    [NoOperation EXCEPT
                        !.obj = o, !.thread = "queued",
                        !.queue = IF queue = "user" THEN "user" ELSE t.type]]
            /\ opDic' = [opDic EXCEPT ![t.id] = n]
    BY DEF p_addTask
  <1>2. /\ op'[n].thread = "queued" /\ op'[n].cb = "none" /\ op'[n].transfer = "none"
        /\ \A p \in Operations : p # n => op'[p] = op[p]
    BY <1>1 DEF Consistency, TypeOK, NoOperation
  <1>3. NamesKept
    BY <1>1, <1>2 DEF NamesKept
  <1>4. \A p \in Operations : LifeCycle(op'[p])
    BY <1>2 DEF LifeCycle, Lives, LifeCycles
  <1>5. \A p \in Operations : Stopped(op'[p]) => p # n /\ Stopped(op[p])
    BY <1>2 DEF Stopped
  <1>6. \A id \in TaskIds : opDic'[id] \in {n, opDic[id]}
    BY <1>1 DEF Consistency, TypeOK
  <1>7. ASSUME NEW p \in Operations, Stopped(op'[p])
        PROVE  /\ op[p].thread # "none"
               /\ Stopped(op[p])
               /\ op'[p].transfer = "paused" => opDic'[IdOf(p)] # p
    <2>1. p # n /\ Stopped(op[p]) /\ op'[p] = op[p] /\ op[p].thread # "none"
      BY <1>2, <1>5, <1>7 DEF Stopped
    <2>2. IdOf(p) \in TaskIds
      BY <2>1, Lookups
    <2> QED BY <1>6, <2>1, <2>2 DEF Lives, StoppedByRivals
  <1>8. CalledOnce
    BY <1>2 DEF CalledOnce
  <1> QED BY <1>3, <1>4, <1>7, <1>8, LivesFrame

(* A call that makes no operation and stops none.                           *)
LEMMA NamingLives ==
    ASSUME Consistency, Lives, op' = op, taskDic' = taskDic, opDic' = opDic,
           \A x \in Objects : task[x].id # None => task'[x].id = task[x].id
    PROVE  Lives' /\ CalledOnce
  <1>1. NamesKept
    BY DEF NamesKept
  <1>2. CalledOnce
    BY DEF CalledOnce
  <1> QED BY <1>1, <1>2, LivesFrame DEF Lives, LifeCycles, StoppedByRivals, Stopped

LEMMA StartTaskLives ==
    ASSUME Consistency, Lives,
           NEW o \in Objects, NEW tasks \in [Objects -> TaskObject],
           NEW queue, NEW fileExists,
           tasks[o].id # None,
           \A x \in Objects : task[x].id # None => tasks[x] = task[x],
           lc_startTask(o, tasks, queue, fileExists)
    PROVE  Lives' /\ CalledOnce
  <1>1. taskDic' = taskDic /\ tasks[o].id \in TaskIds
    BY DEF lc_startTask, TaskObject
  <1>2. \A x \in Objects : task[x].id # None => task'[x].id = task[x].id
    <2>1. CASE task' = tasks
      BY <2>1
    <2>2. CASE \E n \in Fresh(tasks) :
                    task' = [tasks EXCEPT ![n] = Reloaded(tasks[o].id)]
      BY <2>2 DEF Fresh
    <2> QED BY <2>1, <2>2
            DEF lc_startTask, StartRejected, StartCached, StartFromDatabase, StartNew
  <1>3. \/ op' = op /\ opDic' = opDic
        \/ \E x, t : p_addTask(x, t, queue)
    BY DEF lc_startTask, StartRejected, StartCached, StartFromDatabase, StartNew
  <1> QED BY <1>1, <1>2, <1>3, AddTaskLives, NamingLives

(* A transfer that is cancelled or suspended, an operation that is ended.   *)
LEMMA StopLife ==
    ASSUME NEW o \in OperationState, LifeCycle(o),
           NEW w \in {AfterCancel(o.transfer), AfterSuspend(o.transfer)}
    PROVE  /\ LifeCycle([o EXCEPT !.transfer = w])
           /\ [o EXCEPT !.transfer = w] \in OperationState
           /\ [o EXCEPT !.transfer = w].obj = o.obj
           /\ [o EXCEPT !.transfer = w].thread = o.thread
           /\ [o EXCEPT !.transfer = w].cb = o.cb
           /\ [o EXCEPT !.transfer = w].finished = o.finished
  <1>1. w \in TransferState
    BY DEF AfterCancel, AfterSuspend, TransferState, OperationState
  <1>2. /\ [o EXCEPT !.transfer = w] \in OperationState
        /\ [o EXCEPT !.transfer = w].transfer = w
        /\ [o EXCEPT !.transfer = w].obj = o.obj
        /\ [o EXCEPT !.transfer = w].thread = o.thread
        /\ [o EXCEPT !.transfer = w].cb = o.cb
        /\ [o EXCEPT !.transfer = w].finished = o.finished
    BY <1>1 DEF OperationState
  <1>3. LifeCycle([o EXCEPT !.transfer = w])
    BY <1>2 DEF LifeCycle, AfterCancel, AfterSuspend
  <1> QED BY <1>2, <1>3

LEMMA EndLife ==
    ASSUME NEW o \in OperationState, LifeCycle(o)
    PROVE  LET e == [o EXCEPT !.cancelled = TRUE, !.finished = TRUE]
           IN  /\ LifeCycle(e) /\ ~Stopped(e)
               /\ e.obj = o.obj /\ e.thread = o.thread /\ e.cb = o.cb
  <1> DEFINE e == [o EXCEPT !.cancelled = TRUE, !.finished = TRUE]
  <1>1. /\ e.obj = o.obj /\ e.thread = o.thread /\ e.cb = o.cb
        /\ e.transfer = o.transfer /\ e.finished
    BY DEF OperationState
  <1> HIDE DEF e
  <1>2. LifeCycle(e) /\ ~Stopped(e)
    BY <1>1 DEF LifeCycle, Stopped
  <1> QED BY <1>1, <1>2 DEF e

(* A pause or a cancel ends the operation p that taskOperationDic holds for *)
(* the taskId; the transfer it stops is p's or that of a rival of p.        *)
LEMMA EndLives ==
    ASSUME Consistency, Lives, NEW i \in TaskIds, NEW p \in Operations,
           op[p].thread # "none", IdOf(p) = i,
           NEW ops, ops \in {op, HanderCancel(op, i), HanderPause(op, i)},
           op' = EndOperation(ops, p), taskDic' = taskDic,
           \A id \in TaskIds : opDic'[id] \in {opDic[id], None},
           opDic[i] = p,
           \A x \in Objects : task'[x].id = task[x].id
    PROVE  Lives' /\ CalledOnce
  <1> DEFINE q == taskDic[i]
  <1>1. /\ op \in [Operations -> OperationState]
        /\ \A x \in Operations : LifeCycle(op[x])
        /\ q # None => q \in Operations /\ op[q].thread # "none" /\ IdOf(q) = i
    BY Lookups DEF Consistency, TypeOK, DicHoldsOperations, Lives, LifeCycles,
                   TaskDicHoldsId
  <1>2. /\ ops \in [Operations -> OperationState]
        /\ \A x \in Operations :
                /\ LifeCycle(ops[x])
                /\ ops[x].obj = op[x].obj /\ ops[x].thread = op[x].thread
                /\ ops[x].cb = op[x].cb
                /\ x # q => ops[x] = op[x]
    <2>1. CASE ops = op
      BY <1>1, <2>1
    <2>2. CASE q # None /\ \E w \in {AfterCancel(op[q].transfer), AfterSuspend(op[q].transfer)} :
                                ops = [op EXCEPT ![q].transfer = w]
      <3>1. PICK w \in {AfterCancel(op[q].transfer), AfterSuspend(op[q].transfer)} :
                    ops = [op EXCEPT ![q].transfer = w]
        BY <2>2
      <3> DEFINE t == op[q]
                 r == [t EXCEPT !.transfer = w]
      <3>4. t \in OperationState /\ LifeCycle(t)
        BY <1>1, <2>2
      <3>5. w \in {AfterCancel(t.transfer), AfterSuspend(t.transfer)}
        OBVIOUS
      <3>2. /\ LifeCycle(r) /\ r \in OperationState
            /\ r.obj = t.obj /\ r.thread = t.thread /\ r.cb = t.cb
        <4> HIDE DEF t
        <4> QED BY <3>4, <3>5, StopLife
      <3>3. ops = [op EXCEPT ![q] = r]
        BY <1>1, <2>2, <3>1
      <3> HIDE DEF r, q
      <3> QED BY <1>1, <2>2, <3>2, <3>3
    <2> QED BY <2>1, <2>2 DEF HanderCancel, HanderPause
  <1> DEFINE e == [ops[p] EXCEPT !.cancelled = TRUE, !.finished = TRUE]
  <1>3. op' = [ops EXCEPT ![p] = e]
    BY <1>2 DEF EndOperation
  <1>4. /\ LifeCycle(e) /\ ~Stopped(e)
        /\ e.obj = op[p].obj /\ e.thread = op[p].thread /\ e.cb = op[p].cb
    BY <1>2, EndLife
  <1> HIDE DEF e, q
  <1>5. op'[p] = e /\ \A x \in Operations : x # p => op'[x] = ops[x]
    BY <1>2, <1>3
  <1>6. NamesKept
    BY <1>2, <1>4, <1>5 DEF NamesKept
  <1>7. \A x \in Operations : LifeCycle(op'[x])
    BY <1>2, <1>4, <1>5
  <1>8. ASSUME NEW x \in Operations, Stopped(op'[x])
        PROVE  /\ op[x].thread # "none"
               /\ Stopped(op[x]) \/ Rivals(x) # {}
               /\ op'[x].transfer = "paused" => opDic'[IdOf(x)] # x
    <2>1. x # p /\ op'[x] = ops[x] /\ op[x].thread # "none"
      BY <1>2, <1>4, <1>5, <1>8 DEF Stopped
    <2>2. IdOf(x) \in TaskIds
      BY <2>1, Lookups
    <2>3. CASE x = q
      <3>1. p \in Rivals(x) /\ IdOf(x) = i
        BY <1>1, <2>1, <2>3, ConstantsAssumption DEF Rivals
      <3>2. opDic'[i] # x
        BY <2>1, ConstantsAssumption
      <3> QED BY <2>1, <3>1, <3>2
    <2>4. CASE x # q
      <3>1. op'[x] = op[x]
        BY <1>2, <2>1, <2>4
      <3> QED BY <1>8, <2>1, <2>2, <3>1, ConstantsAssumption DEF Lives, StoppedByRivals
    <2> QED BY <2>3, <2>4
  <1>9. CalledOnce
    BY <1>2, <1>4, <1>5 DEF CalledOnce
  <1> QED BY <1>6, <1>7, <1>8, <1>9, LivesFrame

LEMMA CallLives ==
    ASSUME Consistency, Lives, PublicCall \/ MainStep PROVE Lives' /\ CalledOnce
  <1>0. /\ task \in [Objects -> TaskObject] /\ row \in Table
        /\ opDic \in [TaskIds -> Operations \cup {None}]
        /\ main.cancelling \in TaskIds \cup {None} /\ main.pausing \in TaskIds \cup {None}
        /\ \A id \in TaskIds : opDic[id] # None =>
                /\ opDic[id] \in Operations /\ op[opDic[id]].thread # "none"
                /\ IdOf(opDic[id]) = id
    BY Lookups DEF Consistency, TypeOK, DicHoldsOperations, OpDicMatchesCache,
                   CacheHoldsId, IdOf
  <1>1. ASSUME NEW o \in Objects, NEW id \in TaskIds, NEW type \in Types,
               NEW q, NEW f, StartFresh(o, id, type, q, f)
        PROVE  Lives' /\ CalledOnce
    <2> DEFINE made == [id |-> id, type |-> type, status |-> "Create",
                        blocks |-> TRUE]
               tasks == [task EXCEPT ![o] = made]
    <2>1. made \in TaskObject /\ made.id # None
      BY ConstantsAssumption, NoneAssumption DEF TaskObject, TaskStatus
    <2>2. /\ tasks \in [Objects -> TaskObject] /\ tasks[o].id # None
          /\ \A x \in Objects : task[x].id # None => tasks[x] = task[x]
          /\ lc_startTask(o, tasks, q, f)
      BY <1>0, <1>1, <2>1 DEF StartFresh, Fresh
    <2> HIDE DEF tasks
    <2> QED BY <2>2, StartTaskLives
  <1>2. ASSUME NEW o \in Objects, NEW q, NEW f, StartAgain(o, q, f) PROVE Lives' /\ CalledOnce
    <2>1. task[o].id # None /\ lc_startTask(o, task, q, f)
      BY <1>2 DEF StartAgain, Known, Fresh
    <2> QED BY <1>0, <2>1, StartTaskLives
  <1>3. ASSUME NEW id \in TaskIds, NEW q, NEW f, lc_resumTask(id, q, f) PROVE Lives' /\ CalledOnce
    <2>1. CASE cache[id] # None /\ lc_startTask(cache[id], task, q, f)
      <3>1. cache[id] \in Objects /\ task[cache[id]].id # None
        BY <2>1, NoneAssumption, Lookups DEF Consistency, CacheHoldsId
      <3> QED BY <1>0, <2>1, <3>1, StartTaskLives
    <2>2. CASE UNCHANGED vars
      BY <2>2, NamingLives DEF vars
    <2> QED BY <1>3, <2>1, <2>2 DEF lc_resumTask
  <1>4. ASSUME NEW id \in TaskIds, lc_getTask(id) PROVE Lives' /\ CalledOnce
    <2>1. PICK n \in Fresh(task) : task' = [task EXCEPT ![n] = Reloaded(id)]
      BY <1>4 DEF lc_getTask
    <2>2. /\ UNCHANGED <<op, opDic, taskDic>>
          /\ \A x \in Objects : task[x].id # None => task'[x].id = task[x].id
      BY <1>0, <1>4, <2>1 DEF lc_getTask, Fresh
    <2> QED BY <2>2, NamingLives
  <1>5. ASSUME NEW S, NEW w \in TaskStatus, task' = SetStatus(S, w)
        PROVE  \A x \in Objects : task'[x].id = task[x].id
    BY <1>0, <1>5, SetStatusFacts
  <1>6. CASE CancelRest
    <2> DEFINE i == main.cancelling
    <2>1. /\ i \in TaskIds /\ taskDic' = taskDic
          /\ opDic' = [opDic EXCEPT ![i] = None]
      BY <1>0, <1>6 DEF CancelRest, ForgetOperation
    <2>2. \A x \in Objects : task'[x].id = task[x].id
      BY <1>5, <1>6 DEF CancelRest, CancelOperation, TaskStatus
    <2>3. \A id \in TaskIds : opDic'[id] \in {opDic[id], None}
      BY <1>0, <2>1
    <2>4. CASE opDic[i] # None
      <3>1. \E ops \in {op, HanderCancel(op, i)} : op' = EndOperation(ops, opDic[i])
        BY <1>0, <1>6, <2>1, <2>4 DEF CancelRest, CancelOperation
      <3> HIDE DEF i
      <3> QED BY <1>0, <2>1, <2>2, <2>3, <2>4, <3>1, EndLives
    <2>5. CASE opDic[i] = None
      <3>1. op' = op /\ opDic' = opDic
        BY <1>0, <1>6, <2>1, <2>5 DEF CancelRest
      <3> QED BY <2>1, <2>2, <3>1, NamingLives
    <2> QED BY <2>4, <2>5
  <1>7. CASE PauseRest
    <2> DEFINE i == main.pausing
    <2>1. i \in TaskIds /\ taskDic' = taskDic /\ opDic' = opDic
      BY <1>0, <1>7 DEF PauseRest
    <2>2. \A x \in Objects : task'[x].id = task[x].id
      BY <1>5, <1>7 DEF PauseRest, PauseOperation, TaskStatus
    <2>3. CASE opDic[i] # None
      <3>1. \E ops \in {op, HanderPause(op, i)} : op' = EndOperation(ops, opDic[i])
        BY <1>0, <1>7, <2>1, <2>3 DEF PauseRest, PauseOperation
      <3> HIDE DEF i
      <3> QED BY <1>0, <2>1, <2>2, <2>3, <3>1, EndLives
    <2>4. CASE opDic[i] = None
      <3>1. op' = op
        BY <1>7, <2>4 DEF PauseRest
      <3> QED BY <2>1, <2>2, <3>1, NamingLives
    <2> QED BY <2>3, <2>4
  <1>8. ASSUME NEW id \in TaskIds,
               lc_cancelTask(id) \/ lc_pauseTask(id) \/ PauseCheck(id)
        PROVE  Lives' /\ CalledOnce
    BY <1>8, NamingLives DEF lc_cancelTask, lc_pauseTask, PauseCheck
  <1>9. CASE lc_pauseAllTask
    BY <1>9, NamingLives DEF lc_pauseAllTask
  <1>10. CASE PublicCall
    BY <1>1, <1>2, <1>3, <1>4, <1>8, <1>9, <1>10 DEF PublicCall
  <1>11. CASE MainStep
    BY <1>6, <1>7, <1>8, <1>11 DEF MainStep
  <1> QED BY <1>10, <1>11

(* The handler's answer to a start: a transfer, or the finish block at once.*)
LEMMA StartLife ==
    ASSUME NEW o \in OperationState, o.cb = "none",
           o.thread \notin {"none", "queued", "main"},
           NEW sync \in BOOLEAN, NEW r \in HanderStart(o, sync)
    PROVE  /\ LifeCycle(r) /\ ~Stopped(r)
           /\ r.obj = o.obj /\ r.thread = o.thread
  <1> DEFINE failed == [o EXCEPT !.cb = "setStatus", !.err = TRUE, !.sync = sync,
                                 !.resumed = FALSE, !.transfer = "lost"]
             starting == [o EXCEPT !.resumed = FALSE, !.transfer = "starting"]
             copying == [o EXCEPT !.resumed = FALSE, !.transfer = "copying"]
  <1>1. /\ failed.obj = o.obj /\ failed.thread = o.thread
        /\ failed.cb = "setStatus" /\ failed.transfer = "lost"
    BY DEF OperationState
  <1>2. /\ starting.obj = o.obj /\ starting.thread = o.thread
        /\ starting.cb = "none" /\ starting.transfer = "starting"
    BY DEF OperationState
  <1>3. /\ copying.obj = o.obj /\ copying.thread = o.thread
        /\ copying.cb = "none" /\ copying.transfer = "copying"
    BY DEF OperationState
  <1>4. r \in {failed, starting, copying}
    BY DEF HanderStart, p_startTransfer, AnswerError
  <1> HIDE DEF failed, starting, copying
  <1> QED BY <1>1, <1>2, <1>3, <1>4 DEF LifeCycle, Stopped

(* What an operation becomes that takes over an AWS task, and what the one  *)
(* becomes that loses it.                                                   *)
LEMMA ResumLife ==
    ASSUME NEW o \in OperationState, o.cb = "none",
           o.thread \notin {"none", "queued", "main"}, NEW state \in TakenOver,
           NEW upload \in BOOLEAN
    PROVE  LET r == HanderResum(o, state, upload)
           IN  /\ LifeCycle(r) /\ (Stopped(r) => r.transfer # "paused")
               /\ r.obj = o.obj /\ r.thread = o.thread
  <1> DEFINE answer == IF upload THEN "askUrl" ELSE "setStatus"
             atOnce == ~upload
             done == [o EXCEPT !.cb = answer, !.err = FALSE, !.sync = atOnce,
                               !.resumed = TRUE, !.transfer = "completed"]
             dead == [o EXCEPT !.resumed = TRUE, !.transfer = "cancelled"]
             on == [o EXCEPT !.resumed = TRUE, !.transfer = "running"]
  <1>1. /\ done.obj = o.obj /\ done.thread = o.thread
        /\ done.cb \in {"askUrl", "setStatus"} /\ done.transfer = "completed"
    BY DEF OperationState
  <1>2. /\ dead.obj = o.obj /\ dead.thread = o.thread
        /\ dead.cb = "none" /\ dead.transfer = "cancelled"
    BY DEF OperationState
  <1>3. /\ on.obj = o.obj /\ on.thread = o.thread
        /\ on.cb = "none" /\ on.transfer = "running"
    BY DEF OperationState
  <1>4. HanderResum(o, state, upload) \in {done, dead, on}
    BY DEF HanderResum
  <1> HIDE DEF done, dead, on
  <1> QED BY <1>1, <1>2, <1>3, <1>4 DEF LifeCycle, Stopped

LEMMA OpThreadLives ==
    ASSUME Consistency, Lives, NEW p \in Operations, OpThread(p) PROVE Lives' /\ CalledOnce
  <1>1. /\ op[p].thread # "none"
        /\ op \in [Operations -> OperationState] /\ op[p] \in OperationState
        /\ task \in [Objects -> TaskObject]
        /\ taskDic \in [TaskIds -> Operations \cup {None}]
        /\ IdOf(p) \in TaskIds /\ opDic' = opDic
        /\ LifeCycle(op[p])
    BY Lookups
    DEF OpThread, OpStart, OpMain, SetProgress, SaveProgress, Consistency, TypeOK,
        Lives, LifeCycles
  <1>2. CASE OpStart(p)
    <2> DEFINE over == [op[p] EXCEPT !.thread = "done", !.finished = TRUE]
               on == [op[p] EXCEPT !.thread = "main"]
    <2>1. /\ op[p].thread = "queued"
          /\ UNCHANGED <<task, taskDic>>
          /\ \/ op' = [op EXCEPT ![p] = over]
             \/ op' = [op EXCEPT ![p] = on]
      BY <1>1, <1>2 DEF OpStart
    <2>2. /\ over.obj = op[p].obj /\ over.thread = "done" /\ over.finished
          /\ over.cb = op[p].cb /\ over.transfer = op[p].transfer
          /\ on.obj = op[p].obj /\ on.thread = "main"
          /\ on.cb = op[p].cb /\ on.transfer = op[p].transfer
      BY <1>1 DEF OperationState
    <2> HIDE DEF over, on
    <2>3. /\ LifeCycle(over) /\ ~Stopped(over)
          /\ LifeCycle(on) /\ ~Stopped(on)
      BY <1>1, <2>1, <2>2 DEF LifeCycle, Stopped
    <2>4. over.obj = op[p].obj /\ over.thread # "none"
      BY <2>2
    <2>5. on.obj = op[p].obj /\ on.thread # "none"
      BY <2>2
    <2>6. CASE op' = [op EXCEPT ![p] = over]
      BY <1>1, <2>1, <2>2, <2>3, <2>4, <2>6, OneLife
    <2>7. CASE op' = [op EXCEPT ![p] = on]
      BY <1>1, <2>1, <2>2, <2>3, <2>5, <2>7, OneLife
    <2> QED BY <2>1, <2>6, <2>7
  <1>3. CASE OpMain(p)
    <2> DEFINE q == taskDic[IdOf(p)]
               started == [op[p] EXCEPT !.thread = "setProgress"]
               upload == task[op[p].obj].type = "Upload"
    <2>1. /\ op[p].thread = "main" /\ UNCHANGED task
          /\ op[p].cb = "none" /\ op[p].transfer = "none"
      BY <1>1, <1>3 DEF OpMain, LifeCycle
    <2>2. /\ started \in OperationState /\ started.obj = op[p].obj
          /\ started.thread = "setProgress" /\ started.cb = "none"
      BY <1>1, <2>1 DEF OperationState
    <2>9. upload \in BOOLEAN
      OBVIOUS
    <2> HIDE DEF started, upload
    <2>3. CASE /\ q # None /\ op[q].transfer \in TakenOver
               /\ op' = [op EXCEPT ![q].transfer = "lost",
                                   ![p] = HanderResum(started, op[q].transfer, upload)]
               /\ taskDic' = [taskDic EXCEPT ![IdOf(p)] = p]
      <3> DEFINE lost == [op[q] EXCEPT !.transfer = "lost"]
                 taken == HanderResum(started, op[q].transfer, upload)
      <3>1. /\ q \in Operations /\ op[q].thread # "none" /\ IdOf(q) = IdOf(p)
            /\ LifeCycle(op[q]) /\ q # p
        BY <1>1, <2>1, <2>3, Lookups
        DEF Consistency, DicHoldsOperations, Lives, LifeCycles, TaskDicHoldsId, TakenOver
      <3>2. /\ lost.obj = op[q].obj /\ lost.thread = op[q].thread
            /\ lost.cb = op[q].cb /\ lost.finished = op[q].finished
            /\ lost.transfer = "lost"
        BY <1>1, <3>1 DEF OperationState
      <3>3. /\ LifeCycle(taken) /\ (Stopped(taken) => taken.transfer # "paused")
            /\ taken.obj = op[p].obj /\ taken.thread # "none"
        BY <2>2, <2>3, <2>9, ResumLife
      <3>4. op' = [[op EXCEPT ![q] = lost] EXCEPT ![p] = taken]
        BY <1>1, <2>3, <3>1
      <3> HIDE DEF lost, taken, q
      <3>5. /\ op'[p] = taken /\ op'[q] = lost
            /\ \A x \in Operations \ {p, q} : op'[x] = op[x]
        BY <1>1, <3>1, <3>4
      <3>6. LifeCycle(lost)
        BY <2>3, <3>1, <3>2 DEF LifeCycle, TakenOver
      <3>7. p \in Rivals(q) /\ q \in Rivals(p)
        BY <1>1, <3>1 DEF Rivals
      <3>8. NamesKept
        BY <2>1, <3>2, <3>3, <3>5 DEF NamesKept
      <3>9. \A x \in Operations : LifeCycle(op'[x])
        BY <3>3, <3>5, <3>6 DEF Lives, LifeCycles
      <3>10. ASSUME NEW x \in Operations, Stopped(op'[x])
             PROVE  /\ op[x].thread # "none"
                    /\ Stopped(op[x]) \/ Rivals(x) # {}
                    /\ op'[x].transfer = "paused" => opDic'[IdOf(x)] # x
        <4>1. CASE x = p
          BY <1>1, <3>3, <3>5, <3>7, <3>10, <4>1
        <4>2. CASE x = q
          BY <3>1, <3>2, <3>5, <3>7, <4>2
        <4>3. CASE x \notin {p, q}
          <5>1. op'[x] = op[x] /\ Stopped(op[x])
            BY <3>5, <3>10, <4>3
          <5> QED BY <1>1, <5>1 DEF Lives, StoppedByRivals, Stopped
        <4> QED BY <4>1, <4>2, <4>3
      <3>11. \A id \in TaskIds : taskDic'[id] = taskDic[id] \/ (id = IdOf(p) /\ taskDic'[id] = p)
        BY <1>1, <2>3
      <3>12. CalledOnce
        BY <2>1, <3>2, <3>5 DEF CalledOnce
      <3> QED BY <1>1, <3>8, <3>9, <3>10, <3>11, <3>12, LivesFrame
    <2>4. CASE /\ \E answer \in HanderStart(started, TRUE) :
                     op' = [op EXCEPT ![p] = answer]
               /\ UNCHANGED taskDic
      <3>1. PICK answer \in HanderStart(started, TRUE) :
                op' = [op EXCEPT ![p] = answer]
        BY <2>4
      <3>2. /\ LifeCycle(answer) /\ ~Stopped(answer)
            /\ answer.obj = op[p].obj /\ answer.thread # "none"
        BY <2>2, StartLife
      <3> QED BY <1>1, <2>1, <2>4, <3>1, <3>2, OneLife
    <2> QED BY <1>3, <2>3, <2>4 DEF OpMain, started, upload
  <1>4. CASE SetProgress(p) \/ SaveProgress(p)
    <2>1. PICK w \in {"saveProgress", "done"} : op' = [op EXCEPT ![p].thread = w]
      BY <1>4 DEF SetProgress, SaveProgress
    <2> DEFINE r == [op[p] EXCEPT !.thread = w]
    <2>2. /\ r.obj = op[p].obj /\ r.thread = w /\ r.cb = op[p].cb
          /\ r.transfer = op[p].transfer /\ r.finished = op[p].finished
      BY <1>1 DEF OperationState
    <2>3. /\ op' = [op EXCEPT ![p] = r] /\ taskDic' = taskDic
          /\ op[p].thread \in {"setProgress", "saveProgress"}
      BY <1>1, <1>4, <2>1 DEF SetProgress, SaveProgress
    <2>4. \A o \in Objects : task'[o].id = task[o].id
      BY <1>1, <1>4, SetStatusFacts DEF SetProgress, SaveProgress, TaskStatus
    <2> HIDE DEF r
    <2>5. /\ LifeCycle(r) /\ r.thread # "none"
          /\ Stopped(r) => Stopped(op[p]) /\ r.transfer = op[p].transfer
      BY <1>1, <2>2, <2>3 DEF LifeCycle, Stopped
    <2> QED BY <1>1, <2>2, <2>3, <2>4, <2>5, OneLife
  <1> QED BY <1>2, <1>3, <1>4 DEF OpThread

LEMMA TransferThreadLives ==
    ASSUME Consistency, Lives, NEW p \in Operations, TransferThread(p)
    PROVE  Lives' /\ CalledOnce
  <1>1. /\ op[p].thread # "none"
        /\ op \in [Operations -> OperationState] /\ op[p] \in OperationState
        /\ task \in [Objects -> TaskObject]
        /\ taskDic \in [TaskIds -> Operations \cup {None}]
        /\ IdOf(p) \in TaskIds /\ opDic' = opDic /\ op[p].obj \in Objects
        /\ LifeCycle(op[p])
    <2>1. op[p].thread # "none" /\ opDic' = opDic
      BY DEF TransferThread, TransferRuns, TransferNotifies, RegisterTransfer,
             TransferFinish, CopyFinish, UrlAnswer, ForgetTransfer, SetFinishStatus,
             SaveFinishStatus, SaveFinishedTask, TellFinish, Consistency, TypeOK,
             OperationsHaveTask
    <2> QED BY <2>1, Lookups DEF Consistency, TypeOK, Lives, LifeCycles
  <1>2. ASSUME op[p].transfer \in {"starting", "copying", "running"},
               task' = task,
               \A id \in TaskIds :
                    taskDic'[id] = taskDic[id] \/ (id = IdOf(p) /\ taskDic'[id] = p)
        PROVE  /\ op[p].cb = "none" /\ op[p].thread \notin {"none", "queued", "main"}
               /\ \A r : /\ r.obj = op[p].obj /\ r.thread = op[p].thread
                         /\ LifeCycle(r) /\ ~Stopped(r)
                         /\ op' = [op EXCEPT ![p] = r]
                         => Lives' /\ CalledOnce
    <2>1. op[p].cb = "none" /\ op[p].thread \notin {"none", "queued", "main"}
      BY <1>1, <1>2 DEF LifeCycle
    <2> QED BY <1>1, <1>2, <2>1, OneLife
  <1>3. ASSUME NEW err \in BOOLEAN, RegisterTransfer(p, err)
        PROVE  Lives' /\ CalledOnce
    <2> DEFINE running == [op[p] EXCEPT !.transfer = "running"]
               failed == AnswerError(op[p], FALSE)
    <2>1. /\ op[p].transfer = "starting" /\ task' = task
          /\ \A id \in TaskIds :
                taskDic'[id] = taskDic[id] \/ (id = IdOf(p) /\ taskDic'[id] = p)
      BY <1>1, <1>3 DEF RegisterTransfer
    <2>2. op[p].cb = "none" /\ op[p].thread \notin {"none", "queued", "main"}
      BY <1>2, <2>1
    <2>3. /\ LifeCycle(failed) /\ ~Stopped(failed)
          /\ failed.obj = op[p].obj /\ failed.thread = op[p].thread
      <3>1. failed \in HanderStart(op[p], FALSE)
        BY DEF HanderStart, p_startTransfer
      <3> HIDE DEF failed
      <3> QED BY <1>1, <2>2, <3>1, StartLife
    <2>4. /\ running.obj = op[p].obj /\ running.thread = op[p].thread
          /\ running.cb = "none" /\ running.transfer = "running"
      BY <1>1, <2>2 DEF OperationState
    <2>5. op' = [op EXCEPT ![p] = failed] \/ op' = [op EXCEPT ![p] = running]
      BY <1>1, <1>3 DEF RegisterTransfer
    <2> HIDE DEF running, failed
    <2>6. LifeCycle(running) /\ ~Stopped(running)
      BY <2>2, <2>4 DEF LifeCycle, Stopped
    <2> QED BY <1>2, <2>1, <2>3, <2>4, <2>5, <2>6
  <1>4. ASSUME NEW err \in BOOLEAN, TransferFinish(p, err)
        PROVE  Lives' /\ CalledOnce
    <2> DEFINE over == [op[p] EXCEPT !.cb = "setStatus", !.err = err,
                            !.transfer = IF err THEN "failed" ELSE "completed",
                            !.forget = ~op[p].resumed]
    <2>1. op[p].transfer = "running" /\ task' = task /\ taskDic' = taskDic
      BY <1>4 DEF TransferFinish
    <2>2. op[p].cb = "none" /\ op[p].thread \notin {"none", "queued", "main"}
      BY <1>2, <2>1
    <2>3. CASE \E answer \in HanderStart(op[p], FALSE) :
                    op' = [op EXCEPT ![p] = answer]
      BY <1>1, <1>2, <2>1, <2>2, <2>3, StartLife
    <2>4. CASE op' = [op EXCEPT ![p] = over]
      <3>1. /\ over.obj = op[p].obj /\ over.thread = op[p].thread
            /\ over.cb = "setStatus" /\ over.transfer \in {"failed", "completed"}
        BY <1>1 DEF OperationState
      <3> HIDE DEF over
      <3>2. LifeCycle(over) /\ ~Stopped(over)
        BY <2>2, <3>1 DEF LifeCycle, Stopped
      <3> QED BY <1>2, <2>1, <2>4, <3>1, <3>2
    <2> QED BY <1>4, <2>3, <2>4 DEF TransferFinish
  <1>9. ASSUME NEW err \in BOOLEAN, UrlAnswer(p, err)
        PROVE  Lives' /\ CalledOnce
    <2> DEFINE again == [op[p] EXCEPT !.cb = "none"]
               over == [op[p] EXCEPT !.cb = "setStatus"]
    <2>1. op[p].cb = "askUrl" /\ task' = task /\ taskDic' = taskDic
      BY <1>9 DEF UrlAnswer
    <2>2. op[p].thread \notin {"none", "queued", "main"}
      BY <1>1, <2>1 DEF LifeCycle
    <2>3. ASSUME NEW answer \in HanderStart(again, FALSE),
                 op' = [op EXCEPT ![p] = answer]
          PROVE  Lives' /\ CalledOnce
      <3>1. /\ again \in OperationState /\ again.obj = op[p].obj
            /\ again.cb = "none" /\ again.thread = op[p].thread
        BY <1>1, ZenonT(60) DEF OperationState
      <3> HIDE DEF again
      <3>2. /\ LifeCycle(answer) /\ ~Stopped(answer)
            /\ answer.obj = op[p].obj /\ answer.thread = op[p].thread
        BY <2>2, <2>3, <3>1, StartLife
      <3> QED BY <1>1, <2>1, <2>3, <3>2, OneLife
    <2>4. CASE op' = [op EXCEPT ![p] = over]
      <3>1. /\ over.obj = op[p].obj /\ over.thread = op[p].thread
            /\ over.cb = "setStatus" /\ over.transfer = op[p].transfer
            /\ over.finished = op[p].finished
        BY <1>1 DEF OperationState
      <3> HIDE DEF over
      <3>2. LifeCycle(over) /\ ~Stopped(over)
        BY <1>1, <2>1, <3>1 DEF LifeCycle, Stopped
      <3> QED BY <1>1, <2>1, <2>4, <3>1, <3>2, OneLife
    <2> QED BY <1>9, <2>3, <2>4 DEF UrlAnswer
  <1>5. ASSUME NEW err \in BOOLEAN, CopyFinish(p, err)
        PROVE  Lives' /\ CalledOnce
    <2> DEFINE over == [op[p] EXCEPT !.cb = "setStatus", !.err = FALSE,
                                     !.transfer = "lost"]
    <2>1. op[p].transfer = "copying" /\ task' = task /\ taskDic' = taskDic
      BY <1>5 DEF CopyFinish
    <2>2. op[p].cb = "none" /\ op[p].thread \notin {"none", "queued", "main"}
      BY <1>2, <2>1
    <2>3. CASE \E answer \in p_startTransfer(op[p], FALSE) :
                    op' = [op EXCEPT ![p] = answer]
      <3>1. \E answer \in HanderStart(op[p], FALSE) : op' = [op EXCEPT ![p] = answer]
        BY <2>3 DEF HanderStart
      <3> QED BY <1>1, <1>2, <2>1, <2>2, <3>1, StartLife
    <2>4. CASE op' = [op EXCEPT ![p] = over]
      <3>1. /\ over.obj = op[p].obj /\ over.thread = op[p].thread
            /\ over.cb = "setStatus" /\ over.transfer = "lost"
        BY <1>1 DEF OperationState
      <3> HIDE DEF over
      <3>2. LifeCycle(over) /\ ~Stopped(over)
        BY <2>2, <3>1 DEF LifeCycle, Stopped
      <3> QED BY <1>2, <2>1, <2>4, <3>1, <3>2
    <2> QED BY <1>5, <2>3, <2>4 DEF CopyFinish
  <1>6. CASE ForgetTransfer(p)
    <2> DEFINE r == [op[p] EXCEPT !.forget = FALSE]
    <2>1. /\ r.obj = op[p].obj /\ r.thread = op[p].thread /\ r.cb = op[p].cb
          /\ r.transfer = op[p].transfer /\ r.finished = op[p].finished
      BY <1>1 DEF OperationState
    <2>2. /\ op' = [op EXCEPT ![p] = r] /\ task' = task
          /\ \A id \in TaskIds : taskDic'[id] \in {taskDic[id], None}
      BY <1>1, <1>6 DEF ForgetTransfer
    <2> HIDE DEF r
    <2>3. LifeCycle(r) /\ (Stopped(r) => Stopped(op[p]) /\ r.transfer = op[p].transfer)
      BY <1>1, <2>1 DEF LifeCycle, Stopped
    <2> QED BY <1>1, <2>1, <2>2, <2>3, OneLife
  <1>7. CASE SetFinishStatus(p) \/ SaveFinishStatus(p) \/ SaveFinishedTask(p)
    <2>1. PICK w \in {"saveStatus", "saveTask", "tellFinish"} :
                op' = [op EXCEPT ![p].cb = w]
      BY <1>7 DEF SetFinishStatus, SaveFinishStatus, SaveFinishedTask
    <2> DEFINE r == [op[p] EXCEPT !.cb = w]
    <2>2. /\ op' = [op EXCEPT ![p] = r] /\ taskDic' = taskDic
          /\ op[p].cb \in {"setStatus", "saveStatus", "saveTask"}
      BY <1>1, <1>7, <2>1 DEF SetFinishStatus, SaveFinishStatus, SaveFinishedTask
    <2>3. /\ r.obj = op[p].obj /\ r.thread = op[p].thread /\ r.cb = w
          /\ r.transfer = op[p].transfer /\ r.finished = op[p].finished
      BY <1>1 DEF OperationState
    <2>4. \A o \in Objects : task'[o].id = task[o].id
      <3>1. FinishStatus(op[p].err) \in TaskStatus /\ StatusToSave(p) \in TaskStatus
        BY <1>1 DEF FinishStatus, StatusToSave, TaskStatus, TaskObject
      <3> QED BY <1>1, <1>7, <3>1, SetStatusFacts
              DEF SetFinishStatus, SaveFinishStatus, SaveFinishedTask
    <2> HIDE DEF r
    <2>5. LifeCycle(r) /\ ~Stopped(r) /\ r.cb # "setStatus"
      BY <1>1, <2>2, <2>3 DEF LifeCycle, Stopped
    <2> QED BY <1>1, <2>2, <2>3, <2>4, <2>5, OneLife
  <1>8. CASE TellFinish(p)
    <2> DEFINE r == [op[p] EXCEPT !.cb = "over", !.finished = TRUE, !.err = FALSE,
                                  !.sync = FALSE, !.resumed = FALSE]
    <2>1. /\ op' = [op EXCEPT ![p] = r] /\ UNCHANGED <<task, taskDic>>
          /\ op[p].cb = "tellFinish"
      BY <1>1, <1>8 DEF TellFinish, p_finishOperatioin
    <2>2. /\ r.obj = op[p].obj /\ r.thread = op[p].thread /\ r.cb = "over"
          /\ r.transfer = op[p].transfer /\ r.finished
      BY <1>1 DEF OperationState
    <2> HIDE DEF r
    <2>3. LifeCycle(r) /\ ~Stopped(r)
      BY <1>1, <2>1, <2>2 DEF LifeCycle, Stopped
    <2> QED BY <1>1, <2>1, <2>2, <2>3, OneLife
  <1> QED BY <1>3, <1>4, <1>5, <1>6, <1>7, <1>8, <1>9
          DEF TransferThread, TransferRuns, TransferNotifies

LEMMA NextLives == Consistency /\ Lives /\ [Next]_vars => Lives' /\ CalledOnce
  <1> SUFFICES ASSUME Consistency, Lives, [Next]_vars PROVE Lives' /\ CalledOnce
    OBVIOUS
  <1>1. CASE PublicCall \/ MainStep
    BY <1>1, CallLives
  <1>2. ASSUME NEW p \in Operations, OpThread(p) \/ TransferThread(p)
        PROVE  Lives' /\ CalledOnce
    BY <1>2, OpThreadLives, TransferThreadLives
  <1>3. CASE Restart
    BY <1>3 DEF Restart, Lives, LifeCycles, StoppedByRivals, TaskDicHoldsId,
                LifeCycle, Stopped, CalledOnce, NoOperation
  <1>4. CASE UNCHANGED vars
    BY <1>4, NamingLives DEF vars
  <1> QED BY <1>1, <1>2, <1>3, <1>4 DEF Next

LEMMA Alive == Spec => []Lives
  <1>1. Init => Lives
    BY InitLives
  <1>2. Consistency /\ Lives /\ [Next]_vars => Lives'
    BY NextLives
  <1> QED BY <1>1, <1>2, Consistent, PTL DEF Spec

(* An operation that was started is served until it is finished, however    *)
(* pauses, cancels and the answers of the handler interleave: nothing but   *)
(* another operation of its task can leave it waiting for a transfer that   *)
(* does not call back, and keep its queue's slot.                           *)
THEOREM StartedOperationsAreServed == Spec => []StartedOperationsGoOn
  BY Alive, Consistent, LivesIsEnough, PTL

(* The finish block of an operation is called once.                         *)
THEOREM FinishBlocksRunOnce == Spec => FinishBlockOnce
  <1>1. Consistency /\ Lives /\ [Next]_vars =>
            [\A p \in Operations :
                op[p].cb \notin {"none", "askUrl"} /\ op'[p].cb = "setStatus"
                    => op[p].cb = "setStatus"]_vars
    BY NextLives DEF CalledOnce
  <1> QED BY <1>1, Alive, Consistent, PTL DEF Spec, FinishBlockOnce
=============================================================================
