----------------------- MODULE LCFileNetServiceProofs -----------------------
(* Proofs about LCFileNetService for every number of tasks, instances and   *)
(* operations.                                                              *)
EXTENDS LCFileNetService, TLAPS

(* The cache files an instance under its own taskId.                        *)
CacheHoldsId ==
    \A id \in TaskIds : cache[id] # None => task[cache[id]].id = id

(* An operation that was created works on an instance that was created; one *)
(* that was not has no transfer and no finish block under way.              *)
OperationsHaveTask ==
    \A p \in Operations :
        /\ op[p].thread # "none" => op[p].obj # None /\ task[op[p].obj].id # None
        /\ op[p].thread = "none" => /\ op[p].cb = "none" /\ op[p].transfer = "none"
                                    /\ ~op[p].forget

(* taskOperationDic and the handler hold operations that were created.      *)
DicHoldsOperations ==
    \A id \in TaskIds :
        /\ opDic[id] # None => op[opDic[id]].thread # "none"
        /\ taskDic[id] # None => op[taskDic[id]].thread # "none"

Consistency ==
    /\ TypeOK
    /\ CacheHoldsId
    /\ OperationsHaveTask
    /\ DicHoldsOperations
    /\ CachedHasRow
    /\ BlocksHaveTask
    /\ OpDicMatchesCache

LEMMA InitConsistency == Init => Consistency
  BY ConstantsAssumption
  DEF Init, MemoryInit, Consistency, TypeOK, CacheHoldsId, OperationsHaveTask,
      DicHoldsOperations, CachedHasRow, BlocksHaveTask, OpDicMatchesCache,
      TaskObject, NoObject, NoOperation, OperationState, TransferState, Table,
      Row, MainIdle, TaskType, TaskStatus

(* What the lookups by taskId and by operation find.                        *)
LEMMA Lookups ==
    ASSUME Consistency
    PROVE  /\ \A p \in Operations : op[p].obj # None => op[p].obj \in Objects
           /\ \A p \in Operations : op[p].thread # "none" =>
                    /\ op[p].obj \in Objects /\ op[p].obj # None
                    /\ IdOf(p) \in TaskIds /\ IdOf(p) # None
           /\ \A id \in TaskIds : opDic[id] # None => opDic[id] \in Operations
           /\ \A id \in TaskIds : taskDic[id] # None => taskDic[id] \in Operations
           /\ \A id \in TaskIds : cache[id] # None => cache[id] \in Objects
  BY DEF Consistency, TypeOK, OperationsHaveTask, OperationState, IdOf, TaskObject

(* A store of a status changes no instance's identity.                      *)
LEMMA SetStatusFacts ==
    ASSUME task \in [Objects -> TaskObject], NEW S, NEW s \in TaskStatus
    PROVE  /\ SetStatus(S, s) \in [Objects -> TaskObject]
           /\ \A o \in Objects : /\ SetStatus(S, s)[o].id = task[o].id
                                 /\ SetStatus(S, s)[o].type = task[o].type
                                 /\ SetStatus(S, s)[o].blocks = task[o].blocks
                                 /\ SetStatus(S, s)[o].status =
                                      IF o \in S THEN s ELSE task[o].status
  BY DEF SetStatus, TaskObject

(* What an UPDATE and an INSERT OR REPLACE leave in the table.              *)
LEMMA UpdateFacts ==
    ASSUME row \in Table, NEW i \in TaskIds, NEW s \in TaskStatus
    PROVE  /\ lc_updateTask(row, i, s) \in Table
           /\ \A id \in TaskIds :
                /\ lc_updateTask(row, i, s)[id] = None <=> row[id] = None
                /\ id # i => lc_updateTask(row, i, s)[id] = row[id]
  BY NoneAssumption DEF lc_updateTask, Table, Row

(* A kill in the middle of a cancel leaves the row marked as canceled.      *)
LEMMA KillFacts ==
    ASSUME Consistency, NEW r \in RowsAtKill
    PROVE  /\ r \in Table
           /\ r = row \/ \E i \in TaskIds : r = lc_updateTask(row, i, "Canceled")
  <1>1. r = row \/ \E i \in TaskIds : opDic[i] # None
                        /\ r = lc_updateTask(row, IdOf(opDic[i]), "Canceled")
    BY DEF RowsAtKill
  <1>2. \A i \in TaskIds : opDic[i] # None => IdOf(opDic[i]) = i
    BY DEF Consistency, OpDicMatchesCache, CacheHoldsId, IdOf
  <1>3. r = row \/ \E i \in TaskIds : r = lc_updateTask(row, i, "Canceled")
    BY <1>1, <1>2
  <1>4. row \in Table /\ "Canceled" \in TaskStatus
    BY DEF Consistency, TypeOK, TaskStatus
  <1> QED BY <1>3, <1>4, UpdateFacts

LEMMA SaveFacts ==
    ASSUME row \in Table, NEW t \in TaskObject, t.id # None
    PROVE  /\ lc_saveTask(row, t) \in Table
           /\ \A id \in TaskIds :
                /\ lc_saveTask(row, t)[id] =
                     IF id = t.id THEN [type |-> t.type, status |-> t.status]
                                  ELSE row[id]
                /\ id = t.id => lc_saveTask(row, t)[id] # None
  BY NoneAssumption DEF lc_saveTask, Table, Row, TaskObject

(* A row read back is a task under the same taskId.                         *)
LEMMA ReloadedFacts ==
    ASSUME row \in Table, NEW i \in TaskIds, row[i] # None
    PROVE  /\ Reloaded(i) \in TaskObject
           /\ Reloaded(i).id = i
           /\ Reloaded(i).status = AfterReload(row[i].status)
  <1>1. row[i] \in Row
    BY DEF Table
  <1>2. row[i].type \in TaskType /\ row[i].status \in TaskStatus
    BY <1>1 DEF Row
  <1>3. AfterReload(row[i].status) \in TaskStatus
    BY <1>2 DEF AfterReload, TaskStatus
  <1>4. Reloaded(i) = [id |-> i, type |-> row[i].type,
                       status |-> AfterReload(row[i].status), blocks |-> FALSE]
    BY DEF Reloaded, lc_getTaskByTaskId, AfterReload
  <1> QED BY <1>2, <1>3, <1>4 DEF TaskObject

(* What the handler's cancel and pause, and the tail of an operation's, do  *)
(* to the operations: none is created, none changes its task.               *)
SameOperations(ops) ==
    /\ ops \in [Operations -> OperationState]
    /\ \A p \in Operations :
        /\ ops[p].obj = op[p].obj /\ ops[p].thread = op[p].thread
        /\ ops[p].cb = op[p].cb /\ ops[p].err = op[p].err
        /\ ops[p].forget = op[p].forget
        /\ op[p].thread = "none" => ops[p].transfer = op[p].transfer

LEMMA HanderFacts ==
    ASSUME Consistency, NEW i \in TaskIds
    PROVE  SameOperations(HanderCancel(op, i)) /\ SameOperations(HanderPause(op, i))
  <1>1. /\ op \in [Operations -> OperationState]
        /\ taskDic[i] # None =>
                taskDic[i] \in Operations /\ op[taskDic[i]].thread # "none"
    BY DEF Consistency, TypeOK, DicHoldsOperations
  <1>2. SameOperations(op)
    BY <1>1 DEF SameOperations
  <1>3. ASSUME NEW q \in Operations, op[q].thread # "none",
               NEW w \in TransferState
        PROVE  SameOperations([op EXCEPT ![q].transfer = w])
    BY <1>1, <1>3 DEF SameOperations, OperationState
  <1>4. ASSUME NEW w \in TransferState
        PROVE  AfterCancel(w) \in TransferState /\ AfterSuspend(w) \in TransferState
    BY DEF AfterCancel, AfterSuspend, TransferState
  <1>5. taskDic[i] # None => op[taskDic[i]].transfer \in TransferState
    BY <1>1 DEF OperationState
  <1>6. SameOperations(HanderCancel(op, i))
    BY <1>1, <1>2, <1>3, <1>4, <1>5 DEF HanderCancel
  <1>7. SameOperations(HanderPause(op, i))
    BY <1>1, <1>2, <1>3, <1>4, <1>5 DEF HanderPause
  <1> QED BY <1>6, <1>7

LEMMA EndOperationFacts ==
    ASSUME NEW ops, SameOperations(ops), NEW p \in Operations
    PROVE  SameOperations(EndOperation(ops, p))
  <1> DEFINE ended == [ops[p] EXCEPT !.cancelled = TRUE, !.finished = TRUE]
  <1>1. ops \in [Operations -> OperationState]
    BY DEF SameOperations
  <1>2. /\ ended \in OperationState
        /\ ended.obj = ops[p].obj /\ ended.thread = ops[p].thread
        /\ ended.cb = ops[p].cb /\ ended.err = ops[p].err
        /\ ended.transfer = ops[p].transfer /\ ended.forget = ops[p].forget
    BY <1>1, ZenonT(60) DEF OperationState
  <1>3. EndOperation(ops, p) = [ops EXCEPT ![p] = ended]
    BY <1>1, ZenonT(60) DEF EndOperation
  <1> HIDE DEF ended
  <1> QED BY <1>1, <1>2, <1>3 DEF SameOperations

(* The blocks kept after p_saveCallback and after p_notifyFinish.           *)
LEMMA SaveCallbackFacts ==
    ASSUME callbacks \in [TaskIds -> SUBSET Objects],
           NEW o \in Objects, NEW t
    PROVE  /\ p_saveCallback(o, t) \in [TaskIds -> SUBSET Objects]
           /\ \A id \in TaskIds :
                id # t.id => p_saveCallback(o, t)[id] = callbacks[id]
  BY DEF p_saveCallback

LEMMA NotifyFinishFacts ==
    ASSUME callbacks \in [TaskIds -> SUBSET Objects], NEW i,
           p_notifyFinish(i)
    PROVE  /\ callbacks' \in [TaskIds -> SUBSET Objects]
           /\ \A id \in TaskIds :
                callbacks'[id] = IF id = i THEN {} ELSE callbacks[id]
  BY DEF p_notifyFinish

(* p_addTask registers a new operation for instance o, the one the cache    *)
(* holds for its task after the step.                                       *)
LEMMA AddTaskStep ==
    ASSUME Consistency,
           NEW o \in Objects, NEW t \in TaskObject, NEW queue, t.id # None,
           task' \in [Objects -> TaskObject], task'[o].id = t.id,
           \A x \in Objects : task[x].id # None => task'[x].id = task[x].id,
           \A id \in TaskIds : cache[id] # None => cache'[id] = cache[id],
           cache'[t.id] = o,
           p_addTask(o, t, queue), taskDic' = taskDic
    PROVE  /\ op' \in [Operations -> OperationState]
           /\ opDic' \in [TaskIds -> Operations \cup {None}]
           /\ waiting' \in [{"Upload", "Download"} -> Seq(Operations)]
           /\ OperationsHaveTask'
           /\ DicHoldsOperations'
           /\ OpDicMatchesCache'
  <1>1. PICK p \in Operations :
            /\ op[p].thread = "none"
            /\ op' = [op EXCEPT ![p] =
                        [NoOperation EXCEPT
                            !.obj = o, !.thread = "queued",
                            !.queue = IF queue = "user" THEN "user" ELSE t.type]]
            /\ opDic' = [opDic EXCEPT ![t.id] = p]
            /\ waiting' = IF queue = "user" THEN waiting
                          ELSE [waiting EXCEPT ![t.type] = Append(@, p)]
    BY DEF p_addTask
  <1>2. t.type \in {"Upload", "Download"} /\ t.id \in TaskIds
    BY DEF p_addTask, TaskObject, TaskType
  <1>3. op' \in [Operations -> OperationState]
    BY <1>1, <1>2
    DEF Consistency, TypeOK, NoOperation, OperationState, TransferState
  <1>4. /\ \A q \in Operations : q # p => op'[q] = op[q]
        /\ op'[p].obj = o /\ op'[p].thread = "queued"
    BY <1>1 DEF Consistency, TypeOK, NoOperation
  <1>5. waiting' \in [{"Upload", "Download"} -> Seq(Operations)]
    BY <1>1, <1>2 DEF Consistency, TypeOK
  <1>6. /\ opDic' \in [TaskIds -> Operations \cup {None}]
        /\ opDic'[t.id] = p
        /\ \A id \in TaskIds : id # t.id => opDic'[id] = opDic[id]
    BY <1>1, <1>2 DEF Consistency, TypeOK
  <1>7. OperationsHaveTask'
    <2>1. o # None /\ task'[o].id # None
      BY ConstantsAssumption
    <2> QED BY <1>4, <2>1, Lookups DEF OperationsHaveTask, Consistency, IdOf
  <1>8. DicHoldsOperations'
    BY <1>1, <1>4, <1>6, Lookups DEF DicHoldsOperations, Consistency
  <1>9. OpDicMatchesCache'
    BY <1>1, <1>2, <1>4, <1>6, ConstantsAssumption
    DEF OpDicMatchesCache, DicHoldsOperations, Consistency, TypeOK
  <1> QED BY <1>3, <1>5, <1>6, <1>7, <1>8, <1>9

(* lc_startTask, whatever its outcome.                                      *)
LEMMA StartTaskStep ==
    ASSUME Consistency,
           NEW o \in Objects, NEW tasks \in [Objects -> TaskObject],
           NEW queue, NEW fileExists,
           tasks[o].id # None,
           \A x \in Objects : task[x].id # None => tasks[x] = task[x],
           lc_startTask(o, tasks, queue, fileExists)
    PROVE  Consistency'
  <1> DEFINE i == tasks[o].id
  <1>0. /\ i \in TaskIds
        /\ UNCHANGED <<taskDic, main, delivered>>
        /\ \A id \in TaskIds : cache[id] # None =>
                cache[id] \in Objects /\ tasks[cache[id]].id = id
    BY NoneAssumption
    DEF lc_startTask, TaskObject, Consistency, TypeOK, CacheHoldsId
  <1>1. CASE StartRejected(o, tasks, fileExists)
    BY <1>0, <1>1, ConstantsAssumption
    DEF StartRejected, p_notifyFinish, Consistency, TypeOK, CacheHoldsId,
        OperationsHaveTask, DicHoldsOperations, CachedHasRow, BlocksHaveTask,
        OpDicMatchesCache, OperationState
  <1>2. CASE StartCached(o, tasks, queue)
    <2> DEFINE old == cache[i]
    <2>1. /\ old # None /\ old \in Objects /\ tasks[old].id = i
          /\ task' = tasks /\ UNCHANGED <<cache, row>>
      BY <1>0, <1>2 DEF StartCached
    <2>2. callbacks' \in [TaskIds -> SUBSET Objects] /\ BlocksHaveTask'
      <3>1. callbacks \in [TaskIds -> SUBSET Objects] /\ BlocksHaveTask
        BY DEF Consistency, TypeOK
      <3>2. p_notifyFinish(i) \/ callbacks' = p_saveCallback(o, tasks[o])
        BY <1>2 DEF StartCached
      <3>3. /\ callbacks' \in [TaskIds -> SUBSET Objects]
            /\ \A id \in TaskIds :
                  id # i => callbacks'[id] = callbacks[id]
        BY <3>1, <3>2, NotifyFinishFacts, SaveCallbackFacts
      <3> QED BY <2>1, <3>1, <3>3 DEF BlocksHaveTask
    <2>3. CacheHoldsId' /\ CachedHasRow'
      BY <1>0, <2>1 DEF Consistency, CacheHoldsId, CachedHasRow
    <2>4. CASE p_addTask(old, tasks[old], queue)
      <3>1. /\ tasks[old] \in TaskObject /\ cache'[tasks[old].id] = old
            /\ task'[old].id = tasks[old].id /\ tasks[old].id # None
        BY <1>0, <2>1, NoneAssumption
      <3>2. /\ op' \in [Operations -> OperationState]
            /\ opDic' \in [TaskIds -> Operations \cup {None}]
            /\ waiting' \in [{"Upload", "Download"} -> Seq(Operations)]
            /\ OperationsHaveTask' /\ DicHoldsOperations' /\ OpDicMatchesCache'
        BY <1>0, <2>1, <2>4, <3>1, AddTaskStep
      <3> QED BY <1>0, <2>1, <2>2, <2>3, <3>2 DEF Consistency, TypeOK
    <2>5. CASE UNCHANGED <<op, opDic, waiting>>
      BY <1>0, <2>1, <2>2, <2>3, <2>5, ConstantsAssumption
      DEF Consistency, TypeOK, OperationsHaveTask, DicHoldsOperations,
          OpDicMatchesCache, OperationState
    <2> QED BY <1>2, <2>4, <2>5 DEF StartCached
  <1>3. CASE StartFromDatabase(o, tasks, queue)
    <2> DEFINE loaded == Reloaded(i)
    <2>1. PICK n \in Fresh(tasks) :
            /\ task' = [tasks EXCEPT ![n] = loaded]
            /\ cache' = [cache EXCEPT ![i] = n]
            /\ \/ /\ p_notifyFinish(i)
                  /\ UNCHANGED <<op, opDic, waiting>>
               \/ /\ p_addTask(n, loaded, queue)
                  /\ callbacks' = p_saveCallback(o, tasks[o])
      BY <1>3 DEF StartFromDatabase
    <2>2. cache[i] = None /\ row[i] # None /\ row' = row
      BY <1>3 DEF StartFromDatabase
    <2>3. n \in Objects /\ tasks[n].id = None
      BY DEF Fresh
    <2>4. loaded \in TaskObject /\ loaded.id = i
      BY <1>0, <2>2, ReloadedFacts DEF Consistency, TypeOK
    <2>5. /\ task' \in [Objects -> TaskObject] /\ task'[n] = loaded
          /\ \A x \in Objects : x # n => task'[x] = tasks[x]
          /\ \A x \in Objects : task[x].id # None => task'[x].id = task[x].id
      BY <2>1, <2>3, <2>4
    <2>6. /\ cache' \in [TaskIds -> Objects \cup {None}] /\ cache'[i] = n
          /\ \A id \in TaskIds : id # i => cache'[id] = cache[id]
      BY <1>0, <2>1, <2>3 DEF Consistency, TypeOK
    <2>7. CacheHoldsId'
      BY <1>0, <2>3, <2>4, <2>5, <2>6, NoneAssumption DEF CacheHoldsId
    <2>8. CachedHasRow'
      BY <2>2, <2>6 DEF Consistency, CachedHasRow
    <2>9. callbacks' \in [TaskIds -> SUBSET Objects] /\ BlocksHaveTask'
      <3>1. callbacks \in [TaskIds -> SUBSET Objects] /\ BlocksHaveTask
        BY DEF Consistency, TypeOK
      <3>2. /\ callbacks' \in [TaskIds -> SUBSET Objects]
            /\ \A id \in TaskIds :
                  id # i => callbacks'[id] = callbacks[id]
        BY <2>1, <3>1, NotifyFinishFacts, SaveCallbackFacts
      <3> QED BY <2>3, <2>6, <3>1, <3>2, ConstantsAssumption DEF BlocksHaveTask
    <2>10. CASE p_addTask(n, loaded, queue)
      <3>1. /\ op' \in [Operations -> OperationState]
            /\ opDic' \in [TaskIds -> Operations \cup {None}]
            /\ waiting' \in [{"Upload", "Download"} -> Seq(Operations)]
            /\ OperationsHaveTask' /\ DicHoldsOperations' /\ OpDicMatchesCache'
        <4>1. /\ loaded \in TaskObject /\ loaded.id # None
              /\ task'[n].id = loaded.id /\ cache'[loaded.id] = n
              /\ \A id \in TaskIds : cache[id] # None => cache'[id] = cache[id]
          BY <1>0, <2>2, <2>4, <2>5, <2>6, NoneAssumption
        <4> HIDE DEF loaded
        <4> QED BY <1>0, <2>3, <2>5, <2>10, <4>1, AddTaskStep
      <3> QED BY <1>0, <2>2, <2>5, <2>6, <2>7, <2>8, <2>9, <3>1
              DEF Consistency, TypeOK
    <2>11. CASE UNCHANGED <<op, opDic, waiting>>
      <3>1. OperationsHaveTask' /\ DicHoldsOperations'
        BY <1>0, <2>5, <2>11, Lookups
        DEF Consistency, OperationsHaveTask, DicHoldsOperations
      <3>2. OpDicMatchesCache'
        BY <2>2, <2>6, <2>11 DEF Consistency, OpDicMatchesCache
      <3> QED BY <1>0, <2>2, <2>5, <2>6, <2>7, <2>8, <2>9, <2>11, <3>1, <3>2
              DEF Consistency, TypeOK
    <2> QED BY <2>1, <2>10, <2>11
  <1>4. CASE StartNew(o, tasks, queue)
    <2>1. /\ cache[i] = None /\ row[i] = None /\ task' = tasks
          /\ cache' = [cache EXCEPT ![i] = o]
          /\ row' = lc_saveTask(row, tasks[o])
          /\ p_addTask(o, tasks[o], queue)
          /\ callbacks' = p_saveCallback(o, tasks[o])
      BY <1>4 DEF StartNew
    <2>2. /\ cache' \in [TaskIds -> Objects \cup {None}] /\ cache'[i] = o
          /\ \A id \in TaskIds : id # i => cache'[id] = cache[id]
      BY <1>0, <2>1 DEF Consistency, TypeOK
    <2>3. row' \in Table /\ CachedHasRow'
      <3>1. tasks[o] \in TaskObject /\ row \in Table
        BY DEF Consistency, TypeOK
      <3>2. /\ row' \in Table /\ row'[i] # None
            /\ \A id \in TaskIds : id # i => row'[id] = row[id]
        BY <1>0, <2>1, <3>1, SaveFacts
      <3> QED BY <2>2, <3>2 DEF Consistency, CachedHasRow
    <2>4. CacheHoldsId'
      BY <1>0, <2>1, <2>2 DEF CacheHoldsId
    <2>5. callbacks' \in [TaskIds -> SUBSET Objects] /\ BlocksHaveTask'
      BY <1>0, <2>1, <2>2, ConstantsAssumption
      DEF p_saveCallback, Consistency, TypeOK, BlocksHaveTask
    <2>6. /\ op' \in [Operations -> OperationState]
          /\ opDic' \in [TaskIds -> Operations \cup {None}]
          /\ waiting' \in [{"Upload", "Download"} -> Seq(Operations)]
          /\ OperationsHaveTask' /\ DicHoldsOperations' /\ OpDicMatchesCache'
      <3>1. /\ tasks[o] \in TaskObject /\ task'[o].id = tasks[o].id
            /\ cache'[tasks[o].id] = o
            /\ \A id \in TaskIds : cache[id] # None => cache'[id] = cache[id]
        BY <2>1, <2>2
      <3> QED BY <1>0, <2>1, <3>1, AddTaskStep
    <2> QED BY <1>0, <2>1, <2>2, <2>3, <2>4, <2>5, <2>6 DEF Consistency, TypeOK
  <1> QED BY <1>1, <1>2, <1>3, <1>4 DEF lc_startTask

(* The other public calls and the rest of cancel and pause.                 *)
LEMMA CallStep ==
    ASSUME Consistency, PublicCall \/ MainStep PROVE Consistency'
  <1>1. ASSUME NEW o \in Objects, NEW id \in TaskIds, NEW type \in Types,
               NEW q, NEW f, StartFresh(o, id, type, q, f)
        PROVE  Consistency'
    <2> DEFINE made == [id |-> id, type |-> type, status |-> "Create",
                        blocks |-> TRUE]
               tasks == [task EXCEPT ![o] = made]
    <2>1. made \in TaskObject /\ made.id # None
      BY ConstantsAssumption, NoneAssumption DEF TaskObject, TaskStatus
    <2>2. /\ tasks \in [Objects -> TaskObject] /\ tasks[o].id # None
          /\ \A x \in Objects : task[x].id # None => tasks[x] = task[x]
          /\ lc_startTask(o, tasks, q, f)
      BY <1>1, <2>1 DEF StartFresh, Fresh, Consistency, TypeOK
    <2> HIDE DEF tasks
    <2> QED BY <2>2, StartTaskStep
  <1>2. ASSUME NEW o \in Objects, NEW q, NEW f, StartAgain(o, q, f)
        PROVE  Consistency'
    <2>1. /\ task[o].id # None /\ task \in [Objects -> TaskObject]
          /\ lc_startTask(o, task, q, f)
      BY <1>2 DEF StartAgain, Known, Fresh, Consistency, TypeOK
    <2> QED BY <2>1, StartTaskStep
  <1>3. ASSUME NEW id \in TaskIds, NEW q, NEW f, lc_resumTask(id, q, f)
        PROVE  Consistency'
    <2>1. CASE cache[id] # None /\ lc_startTask(cache[id], task, q, f)
      <3>1. /\ cache[id] \in Objects /\ task[cache[id]].id # None
            /\ task \in [Objects -> TaskObject]
        BY <2>1, NoneAssumption DEF Consistency, TypeOK, CacheHoldsId
      <3> QED BY <2>1, <3>1, StartTaskStep
    <2>2. CASE UNCHANGED vars
      BY <2>2
      DEF vars, Consistency, TypeOK, CacheHoldsId, OperationsHaveTask,
          DicHoldsOperations, CachedHasRow, BlocksHaveTask, OpDicMatchesCache
    <2> QED BY <1>3, <2>1, <2>2 DEF lc_resumTask
  <1>4. ASSUME NEW id \in TaskIds, lc_getTask(id) PROVE Consistency'
    <2> DEFINE loaded == Reloaded(id)
    <2>1. PICK n \in Fresh(task) :
            /\ task' = [task EXCEPT ![n] = loaded]
            /\ cache' = [cache EXCEPT ![id] = n]
      BY <1>4 DEF lc_getTask
    <2>2. /\ cache[id] = None /\ row[id] # None
          /\ UNCHANGED <<row, callbacks, op, opDic, waiting, taskDic, main,
                         delivered>>
      BY <1>4 DEF lc_getTask
    <2>3. n \in Objects /\ task[n].id = None
      BY DEF Fresh
    <2>4. loaded \in TaskObject /\ loaded.id = id
      BY <2>2, ReloadedFacts DEF Consistency, TypeOK
    <2>5. /\ task' \in [Objects -> TaskObject] /\ task'[n].id = id
          /\ \A x \in Objects : x # n => task'[x] = task[x]
      BY <2>1, <2>3, <2>4 DEF Consistency, TypeOK
    <2>6. /\ cache' \in [TaskIds -> Objects \cup {None}] /\ cache'[id] = n
          /\ \A i \in TaskIds : i # id => cache'[i] = cache[i]
      BY <2>1, <2>3 DEF Consistency, TypeOK
    <2>7. CacheHoldsId'
      <3> HIDE DEF loaded
      <3>1. ASSUME NEW i \in TaskIds, cache'[i] # None
            PROVE  task'[cache'[i]].id = i
        <4>1. CASE i = id
          BY <2>5, <2>6, <4>1
        <4>2. CASE i # id
          <5>1. cache[i] \in Objects /\ cache'[i] = cache[i] /\ task[cache[i]].id = i
            BY <2>6, <3>1, <4>2 DEF Consistency, CacheHoldsId, TypeOK
          <5>2. cache[i] # n
            BY <2>3, <5>1, NoneAssumption
          <5> QED BY <2>5, <5>1, <5>2
        <4> QED BY <4>1, <4>2
      <3> QED BY <3>1 DEF CacheHoldsId
    <2>8. CachedHasRow' /\ BlocksHaveTask' /\ OpDicMatchesCache'
      BY <2>2, <2>3, <2>6, ConstantsAssumption
      DEF Consistency, CachedHasRow, BlocksHaveTask, OpDicMatchesCache
    <2>9. OperationsHaveTask' /\ DicHoldsOperations'
      BY <2>2, <2>3, <2>5, ConstantsAssumption
      DEF Consistency, OperationsHaveTask, DicHoldsOperations, TypeOK,
          OperationState
    <2> QED BY <2>2, <2>5, <2>6, <2>7, <2>8, <2>9 DEF Consistency, TypeOK
  <1>5. ASSUME NEW id \in TaskIds,
               lc_cancelTask(id) \/ lc_pauseTask(id) \/ PauseCheck(id)
        PROVE  Consistency'
    <2>1. /\ main' \in [todo : SUBSET TaskIds, pausing : TaskIds \cup {None},
                        cancelling : TaskIds \cup {None}]
          /\ UNCHANGED <<task, cache, row, callbacks, op, opDic, waiting,
                         taskDic, delivered>>
      BY <1>5 DEF lc_cancelTask, lc_pauseTask, PauseCheck, Consistency,
                  TypeOK
    <2> QED BY <2>1
      DEF Consistency, TypeOK, CacheHoldsId, OperationsHaveTask,
          DicHoldsOperations, CachedHasRow, BlocksHaveTask, OpDicMatchesCache
  <1>6. CASE lc_pauseAllTask
    <2>1. /\ main' \in [todo : SUBSET TaskIds, pausing : TaskIds \cup {None},
                        cancelling : TaskIds \cup {None}]
          /\ UNCHANGED <<task, cache, row, callbacks, op, opDic, waiting,
                         taskDic, delivered>>
      BY <1>6 DEF lc_pauseAllTask, Consistency, TypeOK
    <2> QED BY <2>1
      DEF Consistency, TypeOK, CacheHoldsId, OperationsHaveTask,
          DicHoldsOperations, CachedHasRow, BlocksHaveTask, OpDicMatchesCache
  <1>7. CASE CancelRest
    <2> DEFINE i == main.cancelling
    <2>1. /\ i \in TaskIds /\ i # None
          /\ cache' = [cache EXCEPT ![i] = None]
          /\ opDic' = [opDic EXCEPT ![i] = None]
          /\ row' = [row EXCEPT ![i] = None]
          /\ callbacks' = [callbacks EXCEPT ![i] = {}]
          /\ main' = [main EXCEPT !.cancelling = None]
          /\ UNCHANGED <<waiting, taskDic, delivered>>
      BY <1>7
      DEF CancelRest, ForgetOperation, lc_deleteTaskByTaskId, p_notifyFinish,
          Consistency, TypeOK
    <2>2. PICK S : task' = SetStatus(S, "Canceled")
      BY <1>7 DEF CancelRest, CancelOperation
    <2>3. /\ task' \in [Objects -> TaskObject]
          /\ \A o \in Objects : task'[o].id = task[o].id
      BY <2>2, SetStatusFacts DEF Consistency, TypeOK, TaskStatus
    <2>4. SameOperations(op')
      <3>1. /\ SameOperations(op)
            /\ opDic[i] # None => opDic[i] \in Operations /\ IdOf(opDic[i]) = i
        BY <2>1 DEF Consistency, TypeOK, SameOperations, OpDicMatchesCache,
                    CacheHoldsId, IdOf
      <3>2. CASE opDic[i] # None /\ CancelOperation(i, opDic[i])
        BY <2>1, <3>1, <3>2, HanderFacts, EndOperationFacts DEF CancelOperation
      <3>3. CASE UNCHANGED op
        BY <3>1, <3>3
      <3> QED BY <1>7, <3>2, <3>3 DEF CancelRest
    <2>5. TypeOK'
      BY <2>1, <2>3, <2>4 DEF Consistency, TypeOK, Table, SameOperations
    <2>6. CacheHoldsId' /\ CachedHasRow' /\ BlocksHaveTask'
      BY <2>1, <2>3
      DEF Consistency, TypeOK, CacheHoldsId, CachedHasRow, BlocksHaveTask, Table
    <2>7. OperationsHaveTask' /\ DicHoldsOperations' /\ OpDicMatchesCache'
      <3>1. opDic' \in [TaskIds -> Operations \cup {None}]
            /\ \A id \in TaskIds : opDic'[id] # None =>
                    /\ opDic'[id] = opDic[id] /\ cache'[id] = cache[id]
        BY <2>1 DEF Consistency, TypeOK
      <3>2. OperationsHaveTask'
        BY <2>3, <2>4, Lookups
        DEF Consistency, OperationsHaveTask, SameOperations
      <3>3. DicHoldsOperations'
        BY <2>1, <2>4, <3>1, Lookups
        DEF Consistency, DicHoldsOperations, SameOperations
      <3>4. OpDicMatchesCache'
        BY <2>4, <3>1 DEF Consistency, OpDicMatchesCache, SameOperations
      <3> QED BY <3>2, <3>3, <3>4
    <2> QED BY <2>5, <2>6, <2>7 DEF Consistency
  <1>8. CASE PauseRest
    <2> DEFINE i == main.pausing
    <2>1. /\ i \in TaskIds /\ i # None
          /\ main' = [main EXCEPT !.pausing = None]
          /\ UNCHANGED <<cache, callbacks, opDic, waiting, taskDic, delivered>>
      BY <1>8 DEF PauseRest, Consistency, TypeOK
    <2>2. PICK S : task' = SetStatus(S, "Pause")
      BY <1>8 DEF PauseRest, PauseOperation
    <2>3. /\ task' \in [Objects -> TaskObject]
          /\ \A o \in Objects : task'[o].id = task[o].id
      BY <2>2, SetStatusFacts DEF Consistency, TypeOK, TaskStatus
    <2>4. SameOperations(op')
      <3>1. /\ SameOperations(op)
            /\ opDic[i] # None => opDic[i] \in Operations /\ IdOf(opDic[i]) = i
        BY <2>1 DEF Consistency, TypeOK, SameOperations, OpDicMatchesCache,
                    CacheHoldsId, IdOf
      <3>2. CASE opDic[i] # None /\ PauseOperation(i, opDic[i])
        BY <2>1, <3>1, <3>2, HanderFacts, EndOperationFacts DEF PauseOperation
      <3>3. CASE UNCHANGED <<op, row>>
        BY <3>1, <3>3
      <3> QED BY <1>8, <3>2, <3>3 DEF PauseRest
    <2>5. row' = row \/ row' = lc_updateTask(row, i, "Pause")
      <3>1. opDic[i] # None => IdOf(opDic[i]) = i
        BY <2>1 DEF Consistency, OpDicMatchesCache, CacheHoldsId, IdOf
      <3> QED BY <1>8, <3>1 DEF PauseRest, PauseOperation
    <2>6. row' \in Table /\ \A id \in TaskIds : row'[id] = None <=> row[id] = None
      BY <2>1, <2>5, UpdateFacts DEF Consistency, TypeOK, TaskStatus
    <2>7. TypeOK'
      BY <2>1, <2>3, <2>4, <2>6 DEF Consistency, TypeOK, SameOperations
    <2>8. CacheHoldsId' /\ CachedHasRow' /\ BlocksHaveTask'
      BY <2>1, <2>3, <2>6
      DEF Consistency, TypeOK, CacheHoldsId, CachedHasRow, BlocksHaveTask
    <2>9. OperationsHaveTask' /\ DicHoldsOperations' /\ OpDicMatchesCache'
      <3>1. opDic' \in [TaskIds -> Operations \cup {None}]
            /\ \A id \in TaskIds : opDic'[id] # None =>
                    /\ opDic'[id] = opDic[id] /\ cache'[id] = cache[id]
        BY <2>1 DEF Consistency, TypeOK
      <3>2. OperationsHaveTask'
        BY <2>3, <2>4, Lookups
        DEF Consistency, OperationsHaveTask, SameOperations
      <3>3. DicHoldsOperations'
        BY <2>1, <2>4, <3>1, Lookups
        DEF Consistency, DicHoldsOperations, SameOperations
      <3>4. OpDicMatchesCache'
        BY <2>4, <3>1 DEF Consistency, OpDicMatchesCache, SameOperations
      <3> QED BY <3>2, <3>3, <3>4
    <2> QED BY <2>7, <2>8, <2>9 DEF Consistency
  <1>9. CASE PublicCall
    BY <1>1, <1>2, <1>3, <1>4, <1>5, <1>6, <1>9 DEF PublicCall
  <1>10. CASE MainStep
    BY <1>5, <1>7, <1>8, <1>10 DEF MainStep
  <1> QED BY <1>9, <1>10

-----------------------------------------------------------------------------
(* Steps of an operation's threads.                                         *)

(* What such a step may do to the operations.                               *)
OperationsKept(ops) ==
    /\ ops \in [Operations -> OperationState]
    /\ \A p \in Operations :
        /\ ops[p].obj = op[p].obj
        /\ ops[p].thread = "none" <=> op[p].thread = "none"
        /\ op[p].thread = "none" => /\ ops[p].cb = op[p].cb
                                    /\ ops[p].transfer = op[p].transfer
                                    /\ ops[p].forget = op[p].forget

LEMMA OneOperationKept ==
    ASSUME Consistency, NEW p \in Operations, op[p].thread # "none",
           NEW r \in OperationState, r.obj = op[p].obj, r.thread # "none"
    PROVE  OperationsKept([op EXCEPT ![p] = r])
  BY DEF Consistency, TypeOK, OperationsKept

LEMMA OpFrame ==
    ASSUME Consistency, NEW p \in Operations, op[p].thread # "none",
           OperationsKept(op'),
           task' \in [Objects -> TaskObject],
           \A o \in Objects : task'[o].id = task[o].id,
           UNCHANGED <<cache, opDic, main>>,
           row' \in Table,
           \A id \in TaskIds : row[id] # None => row'[id] # None,
           UNCHANGED callbacks \/ p_notifyFinish(IdOf(p)),
           waiting' \in [{"Upload", "Download"} -> Seq(Operations)],
           taskDic' \in [TaskIds -> Operations \cup {None}],
           \A id \in TaskIds : taskDic'[id] \in {taskDic[id], None, p},
           delivered' \subseteq TaskIds
    PROVE  Consistency'
  <1>1. /\ callbacks' \in [TaskIds -> SUBSET Objects]
        /\ \A id \in TaskIds : callbacks'[id] # {} => callbacks[id] # {}
    <2>1. callbacks \in [TaskIds -> SUBSET Objects]
      BY DEF Consistency, TypeOK
    <2> QED BY <2>1, NotifyFinishFacts
  <1>2. TypeOK'
    BY <1>1 DEF Consistency, TypeOK, OperationsKept
  <1>3. CacheHoldsId' /\ CachedHasRow' /\ BlocksHaveTask'
    BY <1>1, Lookups DEF Consistency, CacheHoldsId, CachedHasRow, BlocksHaveTask
  <1>4. OperationsHaveTask'
    BY Lookups DEF Consistency, OperationsHaveTask, OperationsKept
  <1>5. DicHoldsOperations'
    BY Lookups DEF Consistency, DicHoldsOperations, OperationsKept
  <1>6. OpDicMatchesCache'
    BY Lookups DEF Consistency, OpDicMatchesCache, OperationsKept
  <1> QED BY <1>2, <1>3, <1>4, <1>5, <1>6 DEF Consistency

(* The handler's answer to a start: the record of the operation that asked, *)
(* with at most an error for its finish block.                              *)
LEMMA AnswerFacts ==
    ASSUME NEW o \in OperationState, NEW sync \in BOOLEAN,
           NEW r \in HanderStart(o, sync)
    PROVE  /\ r \in OperationState
           /\ r.obj = o.obj /\ r.thread = o.thread
           /\ r.err \/ (r.cb = o.cb /\ r.err = o.err)
  <1> DEFINE failed == [o EXCEPT !.cb = "setStatus", !.err = TRUE, !.sync = sync,
                                 !.resumed = FALSE, !.transfer = "lost"]
             starting == [o EXCEPT !.resumed = FALSE, !.transfer = "starting"]
             copying == [o EXCEPT !.resumed = FALSE, !.transfer = "copying"]
  <1>1. /\ failed \in OperationState /\ failed.obj = o.obj
        /\ failed.thread = o.thread /\ failed.err
    BY DEF OperationState, TransferState
  <1>2. /\ starting \in OperationState /\ starting.obj = o.obj
        /\ starting.thread = o.thread /\ starting.cb = o.cb /\ starting.err = o.err
    BY DEF OperationState, TransferState
  <1>3. /\ copying \in OperationState /\ copying.obj = o.obj
        /\ copying.thread = o.thread /\ copying.cb = o.cb /\ copying.err = o.err
    BY DEF OperationState, TransferState
  <1>4. r = failed \/ r = starting \/ r = copying
    BY DEF HanderStart, p_startTransfer, AnswerError
  <1> HIDE DEF failed, starting, copying
  <1> QED BY <1>1, <1>2, <1>3, <1>4

(* A transfer or a copy that ends touches neither task nor thread.          *)
LEMMA TransferEndFacts ==
    ASSUME NEW o \in OperationState, NEW err \in BOOLEAN
    PROVE  \A w \in TransferState, left \in BOOLEAN :
             LET r == [o EXCEPT !.cb = "setStatus", !.err = err,
                                !.transfer = w, !.forget = left]
             IN  r \in OperationState /\ r.obj = o.obj /\ r.thread = o.thread
  <1> TAKE w \in TransferState, left \in BOOLEAN
  <1> QED BY ZenonT(60) DEF OperationState

LEMMA CopyEndFacts ==
    ASSUME NEW o \in OperationState, NEW w \in TransferState,
           NEW r, r = [o EXCEPT !.cb = "setStatus", !.err = FALSE, !.transfer = w]
    PROVE  r \in OperationState /\ r.obj = o.obj /\ r.thread = o.thread
  BY ZenonT(60) DEF OperationState

(* A transfer that is taken over answers at once only if it is complete.    *)
LEMMA ResumFacts ==
    ASSUME NEW o \in OperationState, NEW state \in TakenOver, NEW upload \in BOOLEAN
    PROVE  LET r == HanderResum(o, state, upload)
           IN  /\ r \in OperationState
               /\ r.obj = o.obj /\ r.thread = o.thread
               /\ state # "completed" => r.cb = o.cb /\ r.err = o.err
  <1> DEFINE answer == IF upload THEN "askUrl" ELSE "setStatus"
             atOnce == ~upload
             done == [o EXCEPT !.cb = answer, !.err = FALSE, !.sync = atOnce,
                               !.resumed = TRUE, !.transfer = "completed"]
             dead == [o EXCEPT !.resumed = TRUE, !.transfer = "cancelled"]
             on == [o EXCEPT !.resumed = TRUE, !.transfer = "running"]
  <1>1. done \in OperationState /\ done.obj = o.obj /\ done.thread = o.thread
    <2>1. answer \in {"askUrl", "setStatus"} /\ atOnce \in BOOLEAN
      OBVIOUS
    <2> HIDE DEF answer, atOnce
    <2> QED BY <2>1 DEF OperationState, TransferState
  <1>2. /\ dead \in OperationState /\ dead.obj = o.obj /\ dead.thread = o.thread
        /\ dead.cb = o.cb /\ dead.err = o.err
    BY DEF OperationState, TransferState
  <1>3. /\ on \in OperationState /\ on.obj = o.obj /\ on.thread = o.thread
        /\ on.cb = o.cb /\ on.err = o.err
    BY DEF OperationState, TransferState
  <1>4. \/ state = "completed" /\ HanderResum(o, state, upload) = done
        \/ state # "completed" /\ HanderResum(o, state, upload) \in {dead, on}
    BY DEF HanderResum
  <1> HIDE DEF done, dead, on
  <1> QED BY <1>1, <1>2, <1>3, <1>4

(* A step of p's threads that changes p's record only.                      *)
LEMMA AnswerStep ==
    ASSUME Consistency, NEW p \in Operations, op[p].thread # "none",
           NEW r \in OperationState, r.obj = op[p].obj, r.thread # "none",
           op' = [op EXCEPT ![p] = r],
           UNCHANGED <<task, cache, row, callbacks, opDic, waiting, main>>,
           taskDic' \in [TaskIds -> Operations \cup {None}],
           \A id \in TaskIds : taskDic'[id] \in {taskDic[id], None, p},
           delivered' \subseteq TaskIds
    PROVE  Consistency'
  <1>1. OperationsKept(op')
    BY OneOperationKept
  <1>2. /\ task \in [Objects -> TaskObject] /\ row \in Table
        /\ waiting \in [{"Upload", "Download"} -> Seq(Operations)]
    BY DEF Consistency, TypeOK
  <1> QED BY <1>1, <1>2, OpFrame

(* The queue's thread.                                                      *)
LEMMA OpThreadStep ==
    ASSUME Consistency, NEW p \in Operations, OpThread(p) PROVE Consistency'
  <1>1. /\ op[p].thread # "none"
        /\ op \in [Operations -> OperationState] /\ op[p] \in OperationState
        /\ task \in [Objects -> TaskObject] /\ row \in Table
        /\ waiting \in [{"Upload", "Download"} -> Seq(Operations)]
        /\ taskDic \in [TaskIds -> Operations \cup {None}]
        /\ delivered \subseteq TaskIds
        /\ IdOf(p) \in TaskIds
    BY Lookups
    DEF OpThread, OpStart, OpMain, SetProgress, SaveProgress, Consistency, TypeOK
  <1>2. CASE OpStart(p)
    <2> DEFINE over == [op[p] EXCEPT !.thread = "done", !.finished = TRUE]
               on == [op[p] EXCEPT !.thread = "main"]
    <2>1. over \in OperationState /\ over.obj = op[p].obj /\ over.thread = "done"
      BY <1>1 DEF OperationState
    <2>2. on \in OperationState /\ on.obj = op[p].obj /\ on.thread = "main"
      BY <1>1 DEF OperationState
    <2>3. op' = [op EXCEPT ![p] = over] \/ op' = [op EXCEPT ![p] = on]
      BY <1>1, <1>2 DEF OpStart
    <2>4. OperationsKept(op')
      <3> HIDE DEF over, on
      <3> QED BY <1>1, <2>1, <2>2, <2>3, OneOperationKept
    <2>5. waiting' \in [{"Upload", "Download"} -> Seq(Operations)]
      <3>1. CASE op[p].queue = "user"
        BY <1>1, <1>2, <3>1 DEF OpStart, Dequeue
      <3>2. CASE op[p].queue # "user"
        <4>1. op[p].queue \in {"Upload", "Download"}
          BY <1>1, <3>2 DEF OperationState
        <4>2. /\ waiting[op[p].queue] # << >>
              /\ waiting' = [waiting EXCEPT ![op[p].queue] = Tail(waiting[op[p].queue])]
          BY <1>2, <3>2 DEF OpStart, Dequeue
        <4>3. Tail(waiting[op[p].queue]) \in Seq(Operations)
          BY <1>1, <4>1, <4>2
        <4> QED BY <1>1, <4>1, <4>2, <4>3
      <3> QED BY <3>1, <3>2
    <2>6. UNCHANGED <<task, cache, row, callbacks, opDic, taskDic, main, delivered>>
      BY <1>2 DEF OpStart
    <2> QED BY <1>1, <2>4, <2>5, <2>6, OpFrame
  <1>3. CASE OpMain(p)
    <2> DEFINE q == taskDic[IdOf(p)]
               started == [op[p] EXCEPT !.thread = "setProgress"]
               upload == task[op[p].obj].type = "Upload"
    <2>1. /\ started \in OperationState /\ started.obj = op[p].obj
          /\ started.thread = "setProgress"
      BY <1>1 DEF OperationState
    <2>2. UNCHANGED <<task, cache, row, callbacks, opDic, waiting, main>>
      BY <1>3 DEF OpMain
    <2>5. upload \in BOOLEAN
      OBVIOUS
    <2> HIDE DEF started, upload
    <2>3. CASE /\ q # None /\ op[q].transfer \in TakenOver
               /\ op' = [op EXCEPT ![q].transfer = "lost",
                                   ![p] = HanderResum(started, op[q].transfer, upload)]
               /\ taskDic' = [taskDic EXCEPT ![IdOf(p)] = p]
               /\ delivered' = IF op[q].transfer = "completed"
                               THEN delivered \cup {IdOf(p)} ELSE delivered
      <3> DEFINE lost == [op[q] EXCEPT !.transfer = "lost"]
                 taken == HanderResum(started, op[q].transfer, upload)
      <3>1. q \in Operations /\ op[q].thread # "none"
        BY <1>1, <2>3, Lookups DEF Consistency, DicHoldsOperations
      <3>2. /\ lost \in OperationState /\ lost.obj = op[q].obj
            /\ lost.thread = op[q].thread
        BY <1>1, <3>1 DEF OperationState, TransferState
      <3>3. /\ taken \in OperationState /\ taken.obj = op[p].obj
            /\ taken.thread # "none"
        BY <2>1, <2>3, <2>5, ResumFacts
      <3>4. op' = [[op EXCEPT ![q] = lost] EXCEPT ![p] = taken]
        BY <1>1, <2>3, <3>1
      <3>5. OperationsKept(op')
        <4> HIDE DEF lost, taken, q
        <4> QED BY <1>1, <3>1, <3>2, <3>3, <3>4 DEF OperationsKept
      <3>6. /\ taskDic' \in [TaskIds -> Operations \cup {None}]
            /\ \A id \in TaskIds : taskDic'[id] \in {taskDic[id], None, p}
            /\ delivered' \subseteq TaskIds
        BY <1>1, <2>3
      <3> QED BY <1>1, <2>2, <3>5, <3>6, OpFrame
    <2>4. CASE /\ \E answer \in HanderStart(started, TRUE) :
                     op' = [op EXCEPT ![p] = answer]
               /\ UNCHANGED <<taskDic, delivered>>
      <3>1. PICK answer \in HanderStart(started, TRUE) :
                op' = [op EXCEPT ![p] = answer]
        BY <2>4
      <3>2. /\ answer \in OperationState /\ answer.obj = op[p].obj
            /\ answer.thread # "none"
        BY <2>1, AnswerFacts
      <3> QED BY <1>1, <2>2, <2>4, <3>1, <3>2, AnswerStep
    <2> QED BY <1>3, <2>3, <2>4 DEF OpMain, started, upload
  <1>4. CASE SetProgress(p)
    <2> DEFINE r == [op[p] EXCEPT !.thread = "saveProgress"]
    <2>1. r \in OperationState /\ r.obj = op[p].obj /\ r.thread # "none"
      BY <1>1 DEF OperationState
    <2>2. /\ op' = [op EXCEPT ![p] = r]
          /\ task' = SetStatus({op[p].obj}, "Progress")
          /\ UNCHANGED <<cache, row, callbacks, opDic, waiting, taskDic, main,
                         delivered>>
      BY <1>1, <1>4 DEF SetProgress
    <2>3. OperationsKept(op')
      <3> HIDE DEF r
      <3> QED BY <1>1, <2>1, <2>2, OneOperationKept
    <2>4. /\ task' \in [Objects -> TaskObject]
          /\ \A o \in Objects : task'[o].id = task[o].id
      BY <1>1, <2>2, SetStatusFacts DEF TaskStatus
    <2> QED BY <1>1, <2>2, <2>3, <2>4, OpFrame
  <1>5. CASE SaveProgress(p)
    <2> DEFINE r == [op[p] EXCEPT !.thread = "done"]
    <2>1. r \in OperationState /\ r.obj = op[p].obj /\ r.thread # "none"
      BY <1>1 DEF OperationState
    <2>2. /\ op' = [op EXCEPT ![p] = r]
          /\ row' = lc_updateTask(row, IdOf(p), "Progress")
          /\ UNCHANGED <<task, cache, callbacks, opDic, waiting, taskDic, main,
                         delivered>>
      BY <1>1, <1>5 DEF SaveProgress
    <2>3. OperationsKept(op')
      <3> HIDE DEF r
      <3> QED BY <1>1, <2>1, <2>2, OneOperationKept
    <2>4. row' \in Table /\ \A id \in TaskIds : row[id] # None => row'[id] # None
      BY <1>1, <2>2, UpdateFacts DEF TaskStatus
    <2> QED BY <1>1, <2>2, <2>3, <2>4, OpFrame
  <1> QED BY <1>2, <1>3, <1>4, <1>5 DEF OpThread

(* The transfer's thread.                                                   *)
LEMMA TransferThreadStep ==
    ASSUME Consistency, NEW p \in Operations, TransferThread(p) PROVE Consistency'
  <1>1. /\ op[p].thread # "none"
        /\ op \in [Operations -> OperationState] /\ op[p] \in OperationState
        /\ task \in [Objects -> TaskObject] /\ row \in Table
        /\ waiting \in [{"Upload", "Download"} -> Seq(Operations)]
        /\ taskDic \in [TaskIds -> Operations \cup {None}]
        /\ delivered \subseteq TaskIds
    BY DEF TransferThread, TransferRuns, TransferNotifies, RegisterTransfer,
           TransferFinish, CopyFinish, UrlAnswer, ForgetTransfer, SetFinishStatus,
           SaveFinishStatus, SaveFinishedTask, TellFinish, Consistency, TypeOK,
           OperationsHaveTask
  <1>2. op[p].obj \in Objects /\ IdOf(p) \in TaskIds /\ IdOf(p) # None
    BY <1>1, Lookups
  <1>3. ASSUME NEW err \in BOOLEAN, RegisterTransfer(p, err) PROVE Consistency'
    <2> DEFINE failed == AnswerError(op[p], FALSE)
               running == [op[p] EXCEPT !.transfer = "running"]
    <2>1. failed \in HanderStart(op[p], FALSE)
      BY DEF HanderStart, p_startTransfer
    <2>2. /\ failed \in OperationState /\ failed.obj = op[p].obj
          /\ failed.thread # "none"
      BY <1>1, <2>1, AnswerFacts
    <2>3. /\ running \in OperationState /\ running.obj = op[p].obj
          /\ running.thread # "none"
      BY <1>1, ZenonT(60) DEF OperationState, TransferState
    <2>4. /\ op' = [op EXCEPT ![p] = failed] \/ op' = [op EXCEPT ![p] = running]
          /\ taskDic' = taskDic \/ taskDic' = [taskDic EXCEPT ![IdOf(p)] = p]
          /\ UNCHANGED <<task, cache, row, callbacks, opDic, waiting, main, delivered>>
      BY <1>1, <1>3 DEF RegisterTransfer
    <2>5. /\ taskDic' \in [TaskIds -> Operations \cup {None}]
          /\ \A id \in TaskIds : taskDic'[id] \in {taskDic[id], None, p}
      BY <1>1, <2>4
    <2> HIDE DEF failed, running
    <2> QED BY <1>1, <2>2, <2>3, <2>4, <2>5, AnswerStep
  <1>8. ASSUME NEW err \in BOOLEAN, TransferFinish(p, err) PROVE Consistency'
    <2> DEFINE ending == IF err THEN "failed" ELSE "completed"
               left == ~op[p].resumed
               over == [op[p] EXCEPT !.cb = "setStatus", !.err = err,
                            !.transfer = ending, !.forget = left]
    <2>5. ending \in TransferState /\ left \in BOOLEAN
      BY DEF TransferState
    <2>1. over \in OperationState /\ over.obj = op[p].obj /\ over.thread # "none"
      <3>1. op[p] \in OperationState /\ op[p].thread # "none"
        BY <1>1
      <3>2. \A w \in TransferState, f \in BOOLEAN :
              LET r == [op[p] EXCEPT !.cb = "setStatus", !.err = err,
                                     !.transfer = w, !.forget = f]
              IN  r \in OperationState /\ r.obj = op[p].obj /\ r.thread = op[p].thread
        BY <3>1, TransferEndFacts, Zenon
      <3> HIDE DEF ending, left
      <3>3. over \in OperationState /\ over.obj = op[p].obj /\ over.thread = op[p].thread
        BY <2>5, <3>2, Zenon
      <3> QED BY <3>1, <3>3
    <2>2. \/ \E answer \in HanderStart(op[p], FALSE) : op' = [op EXCEPT ![p] = answer]
          \/ op' = [op EXCEPT ![p] = over]
      BY <1>8 DEF TransferFinish
    <2>3. /\ delivered' \subseteq TaskIds
          /\ UNCHANGED <<task, cache, row, callbacks, opDic, waiting, taskDic, main>>
      BY <1>1, <1>2, <1>8 DEF TransferFinish
    <2> HIDE DEF over
    <2>4. \A answer \in HanderStart(op[p], FALSE) :
            /\ answer \in OperationState /\ answer.obj = op[p].obj
            /\ answer.thread # "none"
      BY <1>1, AnswerFacts
    <2> QED BY <1>1, <2>1, <2>2, <2>3, <2>4, AnswerStep
  <1>11. ASSUME NEW err \in BOOLEAN, UrlAnswer(p, err) PROVE Consistency'
    <2> DEFINE again == [op[p] EXCEPT !.cb = "none"]
               over == [op[p] EXCEPT !.cb = "setStatus"]
    <2>1. /\ again \in OperationState /\ again.obj = op[p].obj
          /\ again.thread = op[p].thread
      BY <1>1, ZenonT(60) DEF OperationState
    <2>2. /\ over \in OperationState /\ over.obj = op[p].obj
          /\ over.thread = op[p].thread
      BY <1>1, ZenonT(60) DEF OperationState
    <2>3. /\ \/ \E answer \in HanderStart(again, FALSE) : op' = [op EXCEPT ![p] = answer]
             \/ op' = [op EXCEPT ![p] = over]
          /\ delivered' \subseteq TaskIds
          /\ UNCHANGED <<task, cache, row, callbacks, opDic, waiting, taskDic, main>>
      BY <1>1, <1>2, <1>11 DEF UrlAnswer
    <2> HIDE DEF again, over
    <2>4. \A answer \in HanderStart(again, FALSE) :
            /\ answer \in OperationState /\ answer.obj = op[p].obj
            /\ answer.thread # "none"
      BY <1>1, <2>1, AnswerFacts
    <2> QED BY <1>1, <2>2, <2>3, <2>4, AnswerStep
  <1>9. ASSUME NEW err \in BOOLEAN, CopyFinish(p, err) PROVE Consistency'
    <2> DEFINE over == [op[p] EXCEPT !.cb = "setStatus", !.err = FALSE,
                                     !.transfer = "lost"]
    <2>1. over \in OperationState /\ over.obj = op[p].obj /\ over.thread # "none"
      <3>1. "lost" \in TransferState
        BY DEF TransferState
      <3>2. over = [op[p] EXCEPT !.cb = "setStatus", !.err = FALSE,
                                 !.transfer = "lost"]
        OBVIOUS
      <3> HIDE DEF over
      <3>3. op[p] \in OperationState /\ op[p].thread # "none"
        BY <1>1
      <3>4. over \in OperationState /\ over.obj = op[p].obj /\ over.thread = op[p].thread
        BY <3>1, <3>2, <3>3, CopyEndFacts
      <3> QED BY <3>3, <3>4
    <2>2. \/ \E answer \in HanderStart(op[p], FALSE) : op' = [op EXCEPT ![p] = answer]
          \/ op' = [op EXCEPT ![p] = over]
      BY <1>9 DEF CopyFinish, HanderStart
    <2>3. /\ delivered' \subseteq TaskIds
          /\ UNCHANGED <<task, cache, row, callbacks, opDic, waiting, taskDic, main>>
      BY <1>1, <1>2, <1>9 DEF CopyFinish
    <2> HIDE DEF over
    <2>4. \A answer \in HanderStart(op[p], FALSE) :
            /\ answer \in OperationState /\ answer.obj = op[p].obj
            /\ answer.thread # "none"
      BY <1>1, AnswerFacts
    <2> QED BY <1>1, <2>1, <2>2, <2>3, <2>4, AnswerStep
  <1>10. CASE ForgetTransfer(p)
    <2> DEFINE r == [op[p] EXCEPT !.forget = FALSE]
    <2>1. r \in OperationState /\ r.obj = op[p].obj /\ r.thread # "none"
      BY <1>1 DEF OperationState
    <2>2. /\ op' = [op EXCEPT ![p] = r]
          /\ taskDic' = [taskDic EXCEPT ![IdOf(p)] = None]
          /\ UNCHANGED <<task, cache, row, callbacks, opDic, waiting, main, delivered>>
      BY <1>1, <1>10 DEF ForgetTransfer
    <2>3. /\ taskDic' \in [TaskIds -> Operations \cup {None}]
          /\ \A id \in TaskIds : taskDic'[id] \in {taskDic[id], None, p}
      BY <1>1, <2>2
    <2> HIDE DEF r
    <2> QED BY <1>1, <2>1, <2>2, <2>3, AnswerStep
  <1>4. CASE SetFinishStatus(p)
    <2> DEFINE r == [op[p] EXCEPT !.cb = "saveStatus"]
    <2>1. r \in OperationState /\ r.obj = op[p].obj /\ r.thread # "none"
      BY <1>1 DEF OperationState
    <2>2. /\ op' = [op EXCEPT ![p] = r]
          /\ task' = SetStatus({op[p].obj}, FinishStatus(op[p].err))
          /\ UNCHANGED <<cache, row, callbacks, opDic, waiting, taskDic, main,
                         delivered>>
      BY <1>1, <1>4 DEF SetFinishStatus
    <2>3. OperationsKept(op')
      <3> HIDE DEF r
      <3> QED BY <1>1, <2>1, <2>2, OneOperationKept
    <2>4. FinishStatus(op[p].err) \in TaskStatus
      BY DEF FinishStatus, TaskStatus
    <2>5. /\ task' \in [Objects -> TaskObject]
          /\ \A o \in Objects : task'[o].id = task[o].id
      BY <1>1, <2>2, <2>4, SetStatusFacts
    <2> QED BY <1>1, <2>2, <2>3, <2>5, OpFrame
  <1>5. CASE SaveFinishStatus(p)
    <2> DEFINE r == [op[p] EXCEPT !.cb = "saveTask"]
    <2>1. r \in OperationState /\ r.obj = op[p].obj /\ r.thread # "none"
      BY <1>1 DEF OperationState
    <2>2. /\ op' = [op EXCEPT ![p] = r]
          /\ row' = lc_updateTask(row, IdOf(p), task[op[p].obj].status)
          /\ UNCHANGED <<task, cache, callbacks, opDic, waiting, taskDic, main,
                         delivered>>
      BY <1>1, <1>5 DEF SaveFinishStatus
    <2>3. OperationsKept(op')
      <3> HIDE DEF r
      <3> QED BY <1>1, <2>1, <2>2, OneOperationKept
    <2>4. task[op[p].obj].status \in TaskStatus
      BY <1>1, <1>2 DEF TaskObject
    <2>5. row' \in Table /\ \A id \in TaskIds : row[id] # None => row'[id] # None
      BY <1>1, <1>2, <2>2, <2>4, UpdateFacts
    <2> QED BY <1>1, <2>2, <2>3, <2>5, OpFrame
  <1>6. CASE SaveFinishedTask(p)
    <2> DEFINE r == [op[p] EXCEPT !.cb = "tellFinish"]
               t == [task[op[p].obj] EXCEPT !.status = StatusToSave(p)]
    <2>1. r \in OperationState /\ r.obj = op[p].obj /\ r.thread # "none"
      BY <1>1 DEF OperationState
    <2>2. /\ op' = [op EXCEPT ![p] = r]
          /\ task' = SetStatus({op[p].obj}, StatusToSave(p))
          /\ row' = lc_saveTask(row, t)
          /\ UNCHANGED <<cache, callbacks, opDic, waiting, taskDic, main, delivered>>
      BY <1>1, <1>6 DEF SaveFinishedTask
    <2>3. OperationsKept(op')
      <3> HIDE DEF r
      <3> QED BY <1>1, <2>1, <2>2, OneOperationKept
    <2>4. StatusToSave(p) \in TaskStatus
      BY <1>1, <1>2 DEF StatusToSave, TaskStatus, TaskObject
    <2>5. /\ task' \in [Objects -> TaskObject]
          /\ \A o \in Objects : task'[o].id = task[o].id
      BY <1>1, <2>2, <2>4, SetStatusFacts
    <2>6. t \in TaskObject /\ t.id = IdOf(p)
      BY <1>1, <1>2, <2>4 DEF TaskObject, IdOf
    <2>7. row' \in Table /\ \A id \in TaskIds : row[id] # None => row'[id] # None
      <3> HIDE DEF t
      <3> QED BY <1>1, <1>2, <2>2, <2>6, SaveFacts
    <2> QED BY <1>1, <2>2, <2>3, <2>5, <2>7, OpFrame
  <1>7. CASE TellFinish(p)
    <2> DEFINE r == [op[p] EXCEPT !.cb = "over", !.finished = TRUE, !.err = FALSE,
                                  !.sync = FALSE, !.resumed = FALSE]
    <2>1. r \in OperationState /\ r.obj = op[p].obj /\ r.thread # "none"
      BY <1>1 DEF OperationState
    <2>2. /\ op' = [op EXCEPT ![p] = r]
          /\ p_notifyFinish(IdOf(p))
          /\ UNCHANGED <<task, cache, row, opDic, waiting, taskDic, main, delivered>>
      BY <1>1, <1>7 DEF TellFinish, p_finishOperatioin
    <2>3. OperationsKept(op')
      <3> HIDE DEF r
      <3> QED BY <1>1, <2>1, <2>2, OneOperationKept
    <2> QED BY <1>1, <2>2, <2>3, OpFrame
  <1> QED BY <1>3, <1>4, <1>5, <1>6, <1>7, <1>8, <1>9, <1>10, <1>11
          DEF TransferThread, TransferRuns, TransferNotifies

-----------------------------------------------------------------------------
LEMMA NextConsistency == Consistency /\ [Next]_vars => Consistency'
  <1> SUFFICES ASSUME Consistency, [Next]_vars PROVE Consistency'
    OBVIOUS
  <1>1. CASE PublicCall \/ MainStep
    BY <1>1, CallStep
  <1>2. ASSUME NEW p \in Operations, OpThread(p) \/ TransferThread(p)
        PROVE  Consistency'
    BY <1>2, OpThreadStep, TransferThreadStep
  <1>3. CASE Restart
    <2>1. row' \in Table
      BY <1>3, KillFacts DEF Restart, Consistency
    <2> QED BY <1>3, <2>1, ConstantsAssumption
    DEF Restart, Consistency, TypeOK, CacheHoldsId, OperationsHaveTask,
        DicHoldsOperations, CachedHasRow, BlocksHaveTask, OpDicMatchesCache,
        TaskObject, NoObject, NoOperation, OperationState, TransferState,
        MainIdle, TaskType, TaskStatus
  <1>4. CASE UNCHANGED vars
    BY <1>4
    DEF vars, Consistency, TypeOK, CacheHoldsId, OperationsHaveTask,
        DicHoldsOperations, CachedHasRow, BlocksHaveTask, OpDicMatchesCache
  <1> QED BY <1>1, <1>2, <1>3, <1>4 DEF Next

(* The inductive invariant holds in every reachable state, for any number   *)
(* of tasks, instances and operations.                                      *)
THEOREM Consistent == Spec => []Consistency
  BY InitConsistency, NextConsistency, PTL DEF Spec

(* Every variable of the service keeps its type.                            *)
THEOREM TypeCorrect == Spec => []TypeOK
  <1>1. Consistency => TypeOK
    BY DEF Consistency
  <1> QED BY <1>1, Consistent, PTL

(* The task cache and the database stay in step: no status update of a      *)
(* cached task is lost in an UPDATE that matches no row.                    *)
THEOREM CacheIsBackedByRows == Spec => []CachedHasRow
  <1>1. Consistency => CachedHasRow
    BY DEF Consistency
  <1> QED BY <1>1, Consistent, PTL

(* Cancel and pause reach, through taskOperationDic, the operation of the   *)
(* very instance whose status they change.                                  *)
THEOREM DicMatchesCache == Spec => []OpDicMatchesCache
  <1>1. Consistency => OpDicMatchesCache
    BY DEF Consistency
  <1> QED BY <1>1, Consistent, PTL

(* No caller's blocks outlive the task they were registered for.            *)
THEOREM BlocksAreOwned == Spec => []BlocksHaveTask
  <1>1. Consistency => BlocksHaveTask
    BY DEF Consistency
  <1> QED BY <1>1, Consistent, PTL
=============================================================================
