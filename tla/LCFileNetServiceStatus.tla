----------------------- MODULE LCFileNetServiceStatus -----------------------
(* Proofs about the statuses a task has before it runs: Create, with which  *)
(* it is made, and Interrupt, which lc_getTask and lc_startTask give to a   *)
(* task of an earlier launch.  On top of the consistency of the service's   *)
(* tables.                                                                  *)
EXTENDS LCFileNetServiceProofs

Initial == {"Create", "Interrupt"}

(* Only an instance in the cache is marked as interrupted, ...              *)
InterruptIsCached ==
    \A o \in Objects :
        task[o].status = "Interrupt" => task[o].id # None /\ cache[task[o].id] = o

(* ... and none whose finish block has stored a status is in a first one.   *)
Marked(p) == op[p].cb \in {"saveStatus", "saveTask", "tellFinish"}
AnswersMarked ==
    \A p \in Operations : Marked(p) => task[op[p].obj].status \notin Initial

Statuses == InterruptIsCached /\ AnswersMarked /\ CreateHasOperation
StatusInv == Statuses /\ InterruptNeverSaved

LEMMA InitStatus == Init => StatusInv
  BY DEF Init, MemoryInit, StatusInv, Statuses, InterruptIsCached, AnswersMarked, Marked,
         CreateHasOperation, InterruptNeverSaved, NoObject, NoOperation

-----------------------------------------------------------------------------
(* The table.                                                               *)
LEMMA RowUpdated ==
    ASSUME Consistency, InterruptNeverSaved, NEW i \in TaskIds, NEW s, s # "Interrupt",
           row' = lc_updateTask(row, i, s)
    PROVE  InterruptNeverSaved'
  BY DEF Consistency, TypeOK, Table, InterruptNeverSaved, lc_updateTask

LEMMA RowSaved ==
    ASSUME Consistency, InterruptNeverSaved, NEW t \in TaskObject, t.id # None,
           t.status # "Interrupt", row' = lc_saveTask(row, t)
    PROVE  InterruptNeverSaved'
  <1>1. row \in Table
    BY DEF Consistency, TypeOK
  <1>2. \A id \in TaskIds :
            row'[id] = IF id = t.id THEN [type |-> t.type, status |-> t.status] ELSE row[id]
    BY <1>1, SaveFacts
  <1> QED BY <1>2 DEF InterruptNeverSaved

-----------------------------------------------------------------------------
(* What a task that is known, or whose finish block runs, is.               *)
LEMMA KnownTasks ==
    ASSUME Consistency
    PROVE  /\ \A p \in Operations : op[p].thread # "none" =>
                    op[p].obj \in Objects /\ task[op[p].obj].id # None
           /\ \A p \in Operations : Marked(p) => op[p].thread # "none"
           /\ \A id \in TaskIds : cache[id] # None =>
                    /\ cache[id] \in Objects
                    /\ task[cache[id]].id = id /\ task[cache[id]].id # None
           /\ \A o \in Objects : task[o].id # None => task[o].id \in TaskIds
           /\ \A id \in TaskIds : opDic[id] # None =>
                    /\ opDic[id] \in Operations /\ op[opDic[id]].thread # "none"
                    /\ cache[id] # None /\ op[opDic[id]].obj = cache[id]
  <1>1. \A p \in Operations : op[p].thread # "none" =>
                    op[p].obj \in Objects /\ task[op[p].obj].id # None
    BY Lookups DEF Consistency, OperationsHaveTask
  <1>2. \A p \in Operations : Marked(p) => op[p].thread # "none"
    BY DEF Consistency, OperationsHaveTask, Marked
  <1>3. \A id \in TaskIds : cache[id] # None =>
                    /\ cache[id] \in Objects
                    /\ task[cache[id]].id = id /\ task[cache[id]].id # None
    BY Lookups, NoneAssumption DEF Consistency, CacheHoldsId
  <1>4. \A o \in Objects : task[o].id # None => task[o].id \in TaskIds
    BY DEF Consistency, TypeOK, TaskObject
  <1>5. \A id \in TaskIds : opDic[id] # None =>
                    /\ opDic[id] \in Operations /\ op[opDic[id]].thread # "none"
                    /\ cache[id] # None /\ op[opDic[id]].obj = cache[id]
    BY Lookups DEF Consistency, DicHoldsOperations, OpDicMatchesCache
  <1> QED BY <1>1, <1>2, <1>3, <1>4, <1>5

(* A step that gives no known instance a first status, caches at most an    *)
(* instance that is not new, and ends no operation of a task in its first   *)
(* status.                                                                  *)
LEMMA StatusFrame ==
    ASSUME Consistency, Statuses, opDic' = opDic,
           \A o \in Objects : task[o].id # None =>
                /\ task'[o].id = task[o].id
                /\ task'[o].status = task[o].status \/ task'[o].status \notin Initial,
           \A o \in Objects : task'[o].status = "Interrupt" =>
                \/ task[o].status = "Interrupt"
                \/ task'[o].id # None /\ cache'[task'[o].id] = o,
           \A id \in TaskIds :
                \/ cache'[id] = cache[id]
                \/ cache[id] = None /\ task'[cache'[id]].status # "Create",
           \A p \in Operations :
                /\ op'[p].obj = op[p].obj
                /\ Marked(p)' => Marked(p) \/ task'[op[p].obj].status \notin Initial,
           \A p \in Operations :
                ~op[p].cancelled /\ ~op[p].finished =>
                    \/ ~op'[p].cancelled /\ ~op'[p].finished
                    \/ task'[op[p].obj].status # "Create"
    PROVE  Statuses'
  <1>1. InterruptIsCached'
    <2> SUFFICES ASSUME NEW o \in Objects, task'[o].status = "Interrupt"
                 PROVE  task'[o].id # None /\ cache'[task'[o].id] = o
      BY DEF InterruptIsCached
    <2>1. CASE task[o].status = "Interrupt"
      <3>1. task[o].id # None /\ cache[task[o].id] = o
        BY <2>1 DEF Statuses, InterruptIsCached
      <3>2. task[o].id \in TaskIds /\ task'[o].id = task[o].id /\ o # None
        BY <3>1, KnownTasks, ConstantsAssumption
      <3> QED BY <3>1, <3>2
    <2> QED BY <2>1
  <1>2. AnswersMarked'
    <2> SUFFICES ASSUME NEW p \in Operations, Marked(p)'
                 PROVE  task'[op[p].obj].status \notin Initial
      BY DEF AnswersMarked
    <2>1. CASE Marked(p)
      <3>1. op[p].obj \in Objects /\ task[op[p].obj].id # None
        BY <2>1, KnownTasks
      <3>2. task[op[p].obj].status \notin Initial
        BY <2>1 DEF Statuses, AnswersMarked
      <3> QED BY <3>1, <3>2
    <2> QED BY <2>1
  <1>3. CreateHasOperation'
    <2> SUFFICES ASSUME NEW id \in TaskIds, cache'[id] # None,
                        task'[cache'[id]].status = "Create"
                 PROVE  /\ opDic[id] # None
                        /\ ~op'[opDic[id]].cancelled /\ ~op'[opDic[id]].finished
      BY DEF CreateHasOperation
    <2>1. cache'[id] = cache[id] /\ cache[id] \in Objects /\ task[cache[id]].id # None
      BY KnownTasks
    <2>2. task[cache[id]].status = "Create"
      BY <2>1 DEF Initial
    <2>3. opDic[id] # None /\ ~op[opDic[id]].cancelled /\ ~op[opDic[id]].finished
      BY <2>1, <2>2 DEF Statuses, CreateHasOperation
    <2>4. opDic[id] \in Operations /\ op[opDic[id]].obj = cache[id]
      BY <2>3, KnownTasks
    <2> QED BY <2>1, <2>3, <2>4
  <1> QED BY <1>1, <1>2, <1>3 DEF Statuses

(* A step of p's threads that changes p's record only.                      *)
LEMMA OperationStatus ==
    ASSUME Consistency, Statuses, NEW p \in Operations, NEW r,
           op' = [op EXCEPT ![p] = r], UNCHANGED <<cache, opDic>>,
           \A o \in Objects :
                /\ task'[o].id = task[o].id
                /\ task'[o].status = task[o].status \/ task'[o].status \notin Initial,
           r.obj = op[p].obj,
           r.cb \in {"saveStatus", "saveTask", "tellFinish"} =>
                Marked(p) \/ task'[op[p].obj].status \notin Initial,
           ~op[p].cancelled /\ ~op[p].finished =>
                \/ ~r.cancelled /\ ~r.finished
                \/ task'[op[p].obj].status # "Create"
    PROVE  Statuses'
  <1>1. op'[p] = r /\ \A q \in Operations : q # p => op'[q] = op[q]
    BY DEF Consistency, TypeOK
  <1>2. \A q \in Operations :
                /\ op'[q].obj = op[q].obj
                /\ Marked(q)' => Marked(q) \/ task'[op[q].obj].status \notin Initial
    BY <1>1 DEF Marked
  <1>3. \A q \in Operations :
                ~op[q].cancelled /\ ~op[q].finished =>
                    \/ ~op'[q].cancelled /\ ~op'[q].finished
                    \/ task'[op[q].obj].status # "Create"
    BY <1>1
  <1>4. \A o \in Objects : task'[o].status = "Interrupt" => task[o].status = "Interrupt"
    BY DEF Initial
  <1> QED BY <1>2, <1>3, <1>4, StatusFrame

(* A step of p's threads that stores no status.                             *)
LEMMA QuietStatus ==
    ASSUME Consistency, Statuses, NEW p \in Operations, NEW r,
           op' = [op EXCEPT ![p] = r], UNCHANGED <<task, cache, opDic>>,
           r.obj = op[p].obj,
           r.cb \in {"saveStatus", "saveTask", "tellFinish"} => Marked(p),
           r.cancelled = op[p].cancelled, r.finished = op[p].finished
    PROVE  Statuses'
  BY OperationStatus

-----------------------------------------------------------------------------
(* p_addTask gives the task t of instance o an operation of its own.        *)
LEMMA AddTaskStatus ==
    ASSUME Consistency, Statuses, NEW o \in Objects, NEW t \in TaskObject, NEW queue,
           t.id # None, p_addTask(o, t, queue),
           \A x \in Objects : task[x].id # None =>
                /\ task'[x].id = task[x].id
                /\ task'[x].status = task[x].status,
           \A x \in Objects : task'[x].status = "Interrupt" =>
                \/ task[x].status = "Interrupt"
                \/ task'[x].id # None /\ cache'[task'[x].id] = x,
           \A id \in TaskIds : cache'[id] = cache[id] \/ (id = t.id /\ cache[id] = None)
    PROVE  Statuses'
  <1> DEFINE new == [NoOperation EXCEPT !.obj = o, !.thread = "queued",
                        !.queue = IF queue = "user" THEN "user" ELSE t.type]
  <1>1. PICK n \in Operations : /\ op[n].thread = "none"
                                /\ op' = [op EXCEPT ![n] = new]
                                /\ opDic' = [opDic EXCEPT ![t.id] = n]
    BY DEF p_addTask
  <1>2. new.cb = "none" /\ new.cancelled = FALSE /\ new.finished = FALSE
    BY DEF NoOperation
  <1> HIDE DEF new
  <1>3. op'[n] = new /\ \A p \in Operations : p # n => op'[p] = op[p]
    BY <1>1 DEF Consistency, TypeOK
  <1>4. opDic'[t.id] = n /\ \A id \in TaskIds : id # t.id => opDic'[id] = opDic[id]
    BY <1>1 DEF Consistency, TypeOK, TaskObject
  <1>5. n # None
    BY ConstantsAssumption
  <1>6. InterruptIsCached'
    <2> SUFFICES ASSUME NEW x \in Objects, task'[x].status = "Interrupt"
                 PROVE  task'[x].id # None /\ cache'[task'[x].id] = x
      BY DEF InterruptIsCached
    <2>1. CASE task[x].status = "Interrupt"
      <3>1. task[x].id # None /\ cache[task[x].id] = x
        BY <2>1 DEF Statuses, InterruptIsCached
      <3>2. task[x].id \in TaskIds /\ task'[x].id = task[x].id /\ x # None
        BY <3>1, KnownTasks, ConstantsAssumption
      <3> QED BY <3>1, <3>2
    <2> QED BY <2>1
  <1>7. AnswersMarked'
    <2> SUFFICES ASSUME NEW p \in Operations, Marked(p)'
                 PROVE  task'[op'[p].obj].status \notin Initial
      BY DEF AnswersMarked
    <2>1. p # n
      BY <1>2, <1>3 DEF Marked
    <2>2. Marked(p) /\ op'[p] = op[p]
      BY <1>3, <2>1 DEF Marked
    <2>3. op[p].obj \in Objects /\ task[op[p].obj].id # None
      BY <2>2, KnownTasks
    <2> QED BY <2>2, <2>3 DEF Statuses, AnswersMarked
  <1>8. CreateHasOperation'
    <2> SUFFICES ASSUME NEW id \in TaskIds, cache'[id] # None,
                        task'[cache'[id]].status = "Create"
                 PROVE  /\ opDic'[id] # None
                        /\ ~op'[opDic'[id]].cancelled /\ ~op'[opDic'[id]].finished
      BY DEF CreateHasOperation
    <2>1. CASE id = t.id
      BY <1>2, <1>3, <1>4, <1>5, <2>1
    <2>2. CASE id # t.id
      <3>1. cache'[id] = cache[id] /\ opDic'[id] = opDic[id]
        BY <1>4, <2>2
      <3>2. cache[id] \in Objects /\ task[cache[id]].id # None
        BY <3>1, KnownTasks
      <3>3. opDic[id] # None /\ ~op[opDic[id]].cancelled /\ ~op[opDic[id]].finished
        BY <3>1, <3>2 DEF Statuses, CreateHasOperation
      <3>4. opDic[id] \in Operations /\ opDic[id] # n
        BY <1>1, <3>3, KnownTasks
      <3> QED BY <1>3, <3>1, <3>3, <3>4
    <2> QED BY <2>1, <2>2
  <1> QED BY <1>6, <1>7, <1>8 DEF Statuses

(* lc_startTask, whatever its outcome.                                      *)
LEMMA StartTaskStatus ==
    ASSUME Consistency, StatusInv,
           NEW o \in Objects, NEW tasks \in [Objects -> TaskObject],
           NEW queue, NEW fileExists,
           tasks[o].id # None,
           \A x \in Objects : task[x].id # None => tasks[x] = task[x],
           \A x \in Objects : tasks[x].status = "Interrupt" => task[x].status = "Interrupt",
           lc_startTask(o, tasks, queue, fileExists)
    PROVE  StatusInv'
  <1> USE DEF StatusInv
  <1> DEFINE i == tasks[o].id
  <1>1. i \in TaskIds /\ row \in Table
    BY DEF TaskObject, Consistency, TypeOK
  <1>2. ASSUME task' = tasks, UNCHANGED <<cache, op, opDic>>
        PROVE  Statuses'
    <2>1. \A p \in Operations : Marked(p)' => Marked(p)
      BY <1>2 DEF Marked
    <2> QED BY <1>2, <2>1, StatusFrame
  <1>3. CASE StartRejected(o, tasks, fileExists)
    <2>1. task' = tasks /\ UNCHANGED <<cache, row, op, opDic>>
      BY <1>3 DEF StartRejected
    <2> QED BY <1>2, <2>1 DEF InterruptNeverSaved
  <1>4. CASE StartCached(o, tasks, queue)
    <2> DEFINE old == cache[i]
    <2>1. /\ old # None /\ task' = tasks /\ UNCHANGED <<cache, row>>
          /\ UNCHANGED <<op, opDic>> \/ p_addTask(old, tasks[old], queue)
      BY <1>4 DEF StartCached
    <2>2. old \in Objects /\ tasks[old] = task[old] /\ task[old].id # None
      BY <1>1, <2>1, KnownTasks
    <2>3. InterruptNeverSaved'
      BY <2>1 DEF InterruptNeverSaved
    <2>4. CASE UNCHANGED <<op, opDic>>
      BY <1>2, <2>1, <2>3, <2>4
    <2>5. CASE p_addTask(old, tasks[old], queue)
      <3>1. tasks[old] \in TaskObject /\ tasks[old].id # None
        BY <2>2
      <3> HIDE DEF i, old
      <3> QED BY <2>1, <2>2, <2>3, <2>5, <3>1, AddTaskStatus
    <2> QED BY <2>1, <2>4, <2>5
  <1>5. CASE StartFromDatabase(o, tasks, queue)
    <2> DEFINE loaded == Reloaded(i)
    <2>1. PICK n \in Fresh(tasks) :
            /\ task' = [tasks EXCEPT ![n] = loaded]
            /\ cache' = [cache EXCEPT ![i] = n]
            /\ UNCHANGED <<op, opDic>> \/ p_addTask(n, loaded, queue)
      BY <1>5 DEF StartFromDatabase
    <2>2. cache[i] = None /\ row[i] # None /\ row' = row
      BY <1>5 DEF StartFromDatabase
    <2>3. n \in Objects /\ tasks[n].id = None /\ task[n].id = None
      BY DEF Fresh
    <2>4. /\ loaded \in TaskObject /\ loaded.id = i /\ i # None
          /\ loaded.status # "Create"
      BY <1>1, <2>2, ReloadedFacts, NoneAssumption DEF AfterReload
    <2> HIDE DEF loaded
    <2>5. task'[n] = loaded /\ \A x \in Objects : x # n => task'[x] = tasks[x]
      BY <2>1, <2>3
    <2>6. cache'[i] = n /\ \A id \in TaskIds : id # i => cache'[id] = cache[id]
      BY <1>1, <2>1 DEF Consistency, TypeOK
    <2>7. \A x \in Objects : task[x].id # None => task'[x] = task[x]
      BY <2>3, <2>5
    <2>8. \A x \in Objects : task'[x].status = "Interrupt" =>
                \/ task[x].status = "Interrupt"
                \/ task'[x].id # None /\ cache'[task'[x].id] = x
      BY <2>4, <2>5, <2>6
    <2>9. Statuses'
      <3>1. CASE UNCHANGED <<op, opDic>>
        <4>1. \A p \in Operations : Marked(p)' => Marked(p)
          BY <3>1 DEF Marked
        <4>2. \A id \in TaskIds :
                \/ cache'[id] = cache[id]
                \/ cache[id] = None /\ task'[cache'[id]].status # "Create"
          BY <2>2, <2>4, <2>5, <2>6
        <4> QED BY <2>7, <2>8, <3>1, <4>1, <4>2, StatusFrame
      <3>2. CASE p_addTask(n, loaded, queue)
        <4>1. \A id \in TaskIds :
                cache'[id] = cache[id] \/ (id = loaded.id /\ cache[id] = None)
          BY <2>2, <2>4, <2>6
        <4>2. loaded.id # None
          BY <2>4
        <4> HIDE DEF i
        <4> QED BY <2>3, <2>4, <2>7, <2>8, <3>2, <4>1, <4>2, AddTaskStatus
      <3> QED BY <2>1, <3>1, <3>2
    <2> QED BY <2>2, <2>9 DEF InterruptNeverSaved
  <1>6. CASE StartNew(o, tasks, queue)
    <2>1. /\ cache[i] = None /\ task' = tasks /\ cache' = [cache EXCEPT ![i] = o]
          /\ row' = lc_saveTask(row, tasks[o]) /\ p_addTask(o, tasks[o], queue)
      BY <1>6 DEF StartNew
    <2>2. \A id \in TaskIds : cache'[id] = cache[id] \/ (id = i /\ cache[id] = None)
      BY <2>1 DEF Consistency, TypeOK
    <2>3. Statuses'
      BY <2>1, <2>2, AddTaskStatus
    <2>4. tasks[o].status # "Interrupt"
      <3> SUFFICES ASSUME task[o].status = "Interrupt" PROVE FALSE
        OBVIOUS
      <3>1. task[o].id # None /\ cache[task[o].id] = o
        BY DEF Statuses, InterruptIsCached
      <3>2. tasks[o] = task[o]
        BY <3>1
      <3> QED BY <2>1, <3>1, <3>2, ConstantsAssumption
    <2>5. InterruptNeverSaved'
      BY <2>1, <2>4, RowSaved
    <2> QED BY <2>3, <2>5
  <1> QED BY <1>3, <1>4, <1>5, <1>6 DEF lc_startTask

(* The handler's cancel and pause end no operation; the tail of an          *)
(* operation's own cancel and pause ends that one.                          *)
Ends(ops, S) ==
    \A p \in Operations :
        /\ ops[p].obj = op[p].obj /\ ops[p].cb = op[p].cb
        /\ p \notin S => /\ ops[p].cancelled = op[p].cancelled
                         /\ ops[p].finished = op[p].finished

LEMMA EndsNothing ==
    ASSUME Consistency, NEW i \in TaskIds
    PROVE  Ends(op, {}) /\ Ends(HanderCancel(op, i), {}) /\ Ends(HanderPause(op, i), {})
  <1>1. /\ op \in [Operations -> OperationState]
        /\ taskDic[i] # None => taskDic[i] \in Operations
    BY Lookups DEF Consistency, TypeOK
  <1>2. ASSUME NEW q \in Operations, NEW w
        PROVE  Ends([op EXCEPT ![q].transfer = w], {})
    <2> DEFINE r == [op[q] EXCEPT !.transfer = w]
    <2>1. /\ r.obj = op[q].obj /\ r.cb = op[q].cb
          /\ r.cancelled = op[q].cancelled /\ r.finished = op[q].finished
      BY <1>1 DEF OperationState
    <2>2. [op EXCEPT ![q].transfer = w] = [op EXCEPT ![q] = r]
      BY <1>1
    <2> HIDE DEF r
    <2> QED BY <1>1, <2>1, <2>2 DEF Ends
  <1>3. Ends(op, {})
    BY DEF Ends
  <1> QED BY <1>1, <1>2, <1>3 DEF HanderCancel, HanderPause

LEMMA EndsOne ==
    ASSUME NEW ops, ops \in [Operations -> OperationState], Ends(ops, {}),
           NEW p \in Operations
    PROVE  Ends(EndOperation(ops, p), {p})
  <1> DEFINE r == [ops[p] EXCEPT !.cancelled = TRUE, !.finished = TRUE]
  <1>1. r.obj = ops[p].obj /\ r.cb = ops[p].cb
    BY DEF OperationState
  <1>2. EndOperation(ops, p) = [ops EXCEPT ![p] = r]
    BY DEF EndOperation
  <1> HIDE DEF r
  <1>3. /\ EndOperation(ops, p)[p] = r
        /\ \A q \in Operations : q # p => EndOperation(ops, p)[q] = ops[q]
    BY <1>2
  <1> QED BY <1>1, <1>3 DEF Ends

(* A cancel and a pause reach no operation but that of the task.            *)
LEMMA Interrupted ==
    ASSUME Consistency, NEW i \in TaskIds,
           \/ op' = op
           \/ /\ opDic[i] # None
              /\ op' \in {EndOperation(op, opDic[i]),
                          EndOperation(HanderCancel(op, IdOf(opDic[i])), opDic[i]),
                          EndOperation(HanderPause(op, IdOf(opDic[i])), opDic[i])}
    PROVE  Ends(op', IF opDic[i] = None THEN {} ELSE {opDic[i]})
  <1>1. CASE op' = op
    BY <1>1 DEF Ends
  <1>2. CASE opDic[i] # None /\ op' # op
    <2>1. opDic[i] \in Operations /\ IdOf(opDic[i]) = i
      BY <1>2, KnownTasks DEF IdOf
    <2>2. /\ op \in [Operations -> OperationState]
          /\ HanderCancel(op, i) \in [Operations -> OperationState]
          /\ HanderPause(op, i) \in [Operations -> OperationState]
      BY HanderFacts DEF Consistency, TypeOK, SameOperations
    <2> QED BY <1>2, <2>1, <2>2, EndsNothing, EndsOne
  <1> QED BY <1>1, <1>2

LEMMA CancelStatus ==
    ASSUME Consistency, StatusInv, CancelRest
    PROVE  StatusInv'
  <1> USE DEF StatusInv
  <1> DEFINE i == main.cancelling
  <1>1. /\ i \in TaskIds /\ row' = [row EXCEPT ![i] = None]
        /\ cache' = [cache EXCEPT ![i] = None] /\ opDic' = [opDic EXCEPT ![i] = None]
    BY DEF CancelRest, lc_deleteTaskByTaskId, ForgetOperation, Consistency, TypeOK
  <1>2. PICK S : task' = SetStatus(S, "Canceled") /\ cache[i] \in S
    BY DEF CancelRest, CancelOperation
  <1>3. \/ op' = op
        \/ /\ opDic[i] # None
           /\ op' \in {EndOperation(op, opDic[i]),
                       EndOperation(HanderCancel(op, IdOf(opDic[i])), opDic[i])}
    BY DEF CancelRest, CancelOperation
  <1> HIDE DEF i
  <1>4. Ends(op', IF opDic[i] = None THEN {} ELSE {opDic[i]})
    BY <1>1, <1>3, Interrupted
  <1>5. \A o \in Objects :
            /\ task'[o].id = task[o].id
            /\ task'[o].status = IF o \in S THEN "Canceled" ELSE task[o].status
    BY <1>2, SetStatusFacts DEF Consistency, TypeOK, TaskStatus
  <1>6. \A id \in TaskIds : /\ cache'[id] = IF id = i THEN None ELSE cache[id]
                            /\ opDic'[id] = IF id = i THEN None ELSE opDic[id]
    BY <1>1 DEF Consistency, TypeOK
  <1>7. InterruptIsCached'
    <2> SUFFICES ASSUME NEW o \in Objects, task'[o].status = "Interrupt"
                 PROVE  task'[o].id # None /\ cache'[task'[o].id] = o
      BY DEF InterruptIsCached
    <2>1. o # cache[i] /\ task[o].status = "Interrupt"
      BY <1>2, <1>5
    <2>2. task[o].id # None /\ cache[task[o].id] = o
      BY <2>1 DEF Statuses, InterruptIsCached
    <2>3. task[o].id \in TaskIds /\ task[o].id # i
      BY <2>1, <2>2, KnownTasks
    <2> QED BY <1>5, <1>6, <2>2, <2>3
  <1>8. AnswersMarked'
    <2> SUFFICES ASSUME NEW p \in Operations, Marked(p)'
                 PROVE  task'[op'[p].obj].status \notin Initial
      BY DEF AnswersMarked
    <2>1. Marked(p) /\ op'[p].obj = op[p].obj
      BY <1>4 DEF Marked, Ends
    <2>2. op[p].obj \in Objects
      BY <2>1, KnownTasks
    <2> QED BY <1>5, <2>1, <2>2 DEF Statuses, AnswersMarked, Initial
  <1>9. CreateHasOperation'
    <2> SUFFICES ASSUME NEW id \in TaskIds, cache'[id] # None,
                        task'[cache'[id]].status = "Create"
                 PROVE  /\ opDic'[id] # None
                        /\ ~op'[opDic'[id]].cancelled /\ ~op'[opDic'[id]].finished
      BY DEF CreateHasOperation
    <2>1. id # i /\ cache'[id] = cache[id] /\ opDic'[id] = opDic[id]
      BY <1>6
    <2>2. cache[id] \in Objects /\ task[cache[id]].id = id
      BY <2>1, KnownTasks
    <2>3. task[cache[id]].status = "Create"
      BY <1>5, <2>1, <2>2
    <2>4. opDic[id] # None /\ ~op[opDic[id]].cancelled /\ ~op[opDic[id]].finished
      BY <2>1, <2>3 DEF Statuses, CreateHasOperation
    <2>5. opDic[id] \in Operations /\ op[opDic[id]].obj = cache[id]
      BY <2>4, KnownTasks
    <2>6. opDic[i] # None => task[op[opDic[i]].obj].id = i
      BY <1>1, KnownTasks
    <2>7. opDic[i] # opDic[id]
      BY <2>1, <2>2, <2>4, <2>5, <2>6
    <2> QED BY <1>4, <2>1, <2>4, <2>5, <2>7 DEF Ends
  <1>10. InterruptNeverSaved'
    BY <1>1 DEF InterruptNeverSaved, Consistency, TypeOK, Table
  <1> QED BY <1>7, <1>8, <1>9, <1>10 DEF Statuses

LEMMA PauseStatus ==
    ASSUME Consistency, StatusInv, PauseRest
    PROVE  StatusInv'
  <1> USE DEF StatusInv
  <1> DEFINE i == main.pausing
  <1>1. i \in TaskIds /\ UNCHANGED <<cache, opDic>>
    BY DEF PauseRest, Consistency, TypeOK
  <1>2. PICK S : task' = SetStatus(S, "Pause") /\ cache[i] \in S
    BY DEF PauseRest, PauseOperation
  <1>3. \/ op' = op
        \/ /\ opDic[i] # None
           /\ op' \in {EndOperation(op, opDic[i]),
                       EndOperation(HanderPause(op, IdOf(opDic[i])), opDic[i])}
    BY DEF PauseRest, PauseOperation
  <1>4. \/ row' = row
        \/ opDic[i] # None /\ row' = lc_updateTask(row, IdOf(opDic[i]), "Pause")
    BY DEF PauseRest, PauseOperation
  <1> HIDE DEF i
  <1>5. Ends(op', IF opDic[i] = None THEN {} ELSE {opDic[i]})
    BY <1>1, <1>3, Interrupted
  <1>6. \A o \in Objects :
            /\ task'[o].id = task[o].id
            /\ task'[o].status = IF o \in S THEN "Pause" ELSE task[o].status
    BY <1>2, SetStatusFacts DEF Consistency, TypeOK, TaskStatus
  <1>7. opDic[i] # None => /\ opDic[i] \in Operations /\ op[opDic[i]].obj = cache[i]
                           /\ cache[i] \in Objects /\ IdOf(opDic[i]) = i
    BY <1>1, KnownTasks DEF IdOf
  <1>8. \A p \in Operations : /\ op'[p].obj = op[p].obj
                              /\ Marked(p)' => Marked(p)
    BY <1>5 DEF Marked, Ends
  <1>9. \A p \in Operations :
                ~op[p].cancelled /\ ~op[p].finished =>
                    \/ ~op'[p].cancelled /\ ~op'[p].finished
                    \/ task'[op[p].obj].status # "Create"
    BY <1>2, <1>5, <1>6, <1>7 DEF Ends
  <1>10. /\ \A o \in Objects :
                task'[o].status = task[o].status \/ task'[o].status \notin Initial
         /\ \A o \in Objects : task'[o].status = "Interrupt" => task[o].status = "Interrupt"
    BY <1>6 DEF Initial
  <1>11. Statuses'
    BY <1>1, <1>6, <1>8, <1>9, <1>10, StatusFrame
  <1>12. InterruptNeverSaved'
    <2>1. CASE row' = row
      BY <2>1 DEF InterruptNeverSaved
    <2>2. CASE opDic[i] # None /\ row' = lc_updateTask(row, IdOf(opDic[i]), "Pause")
      BY <1>1, <1>7, <2>2, RowUpdated
    <2> QED BY <1>4, <2>1, <2>2
  <1> QED BY <1>11, <1>12

LEMMA CallStatus ==
    ASSUME Consistency, StatusInv, PublicCall \/ MainStep
    PROVE  StatusInv'
  <1>1. ASSUME NEW o \in Objects, NEW id \in TaskIds, NEW type \in Types,
               NEW q, NEW f, StartFresh(o, id, type, q, f)
        PROVE  StatusInv'
    <2> DEFINE made == [id |-> id, type |-> type, status |-> "Create", blocks |-> TRUE]
               tasks == [task EXCEPT ![o] = made]
    <2>1. made \in TaskObject /\ made.id # None /\ made.status = "Create"
      BY ConstantsAssumption, NoneAssumption DEF TaskObject, TaskStatus
    <2> HIDE DEF made
    <2>2. task \in [Objects -> TaskObject] /\ task[o].id = None
      BY <1>1 DEF StartFresh, Fresh, Consistency, TypeOK
    <2>3. lc_startTask(o, tasks, q, f)
      BY <1>1 DEF StartFresh, made
    <2>4. /\ tasks \in [Objects -> TaskObject] /\ tasks[o].id # None
          /\ \A x \in Objects : task[x].id # None => tasks[x] = task[x]
          /\ \A x \in Objects : tasks[x].status = "Interrupt" => task[x].status = "Interrupt"
      BY <2>1, <2>2
    <2> HIDE DEF tasks
    <2> QED BY <2>3, <2>4, StartTaskStatus
  <1>2. ASSUME NEW o \in Objects, NEW q, NEW f, task[o].id # None,
               lc_startTask(o, task, q, f)
        PROVE  StatusInv'
    <2>1. task \in [Objects -> TaskObject]
      BY DEF Consistency, TypeOK
    <2> QED BY <1>2, <2>1, StartTaskStatus
  <1>3. ASSUME NEW o \in Objects, NEW q, NEW f, StartAgain(o, q, f)
        PROVE  StatusInv'
    BY <1>2, <1>3 DEF StartAgain, Known, Fresh
  <1>4. CASE UNCHANGED <<task, cache, row, op, opDic>>
    BY <1>4 DEF StatusInv, Statuses, InterruptIsCached, AnswersMarked, Marked,
                CreateHasOperation, InterruptNeverSaved
  <1>5. ASSUME NEW id \in TaskIds, NEW q, NEW f, lc_resumTask(id, q, f)
        PROVE  StatusInv'
    <2>1. CASE cache[id] # None /\ lc_startTask(cache[id], task, q, f)
      BY <1>2, <2>1, KnownTasks
    <2>2. CASE UNCHANGED vars
      BY <1>4, <2>2 DEF vars
    <2> QED BY <1>5, <2>1, <2>2 DEF lc_resumTask
  <1>6. ASSUME NEW id \in TaskIds, lc_getTask(id)
        PROVE  StatusInv'
    <2>1. PICK n \in Fresh(task) : /\ task' = [task EXCEPT ![n] = Reloaded(id)]
                                   /\ cache' = [cache EXCEPT ![id] = n]
      BY <1>6 DEF lc_getTask
    <2>2. /\ cache[id] = None /\ row[id] # None /\ UNCHANGED <<row, op, opDic>>
          /\ n \in Objects /\ task[n].id = None
      BY <1>6 DEF lc_getTask, Fresh
    <2>3. Reloaded(id).id = id /\ Reloaded(id).status # "Create" /\ id # None
      BY <2>2, ReloadedFacts, NoneAssumption DEF AfterReload, Consistency, TypeOK
    <2>4. task'[n] = Reloaded(id) /\ \A x \in Objects : x # n => task'[x] = task[x]
      BY <2>1, <2>2 DEF Consistency, TypeOK
    <2>5. cache'[id] = n /\ \A d \in TaskIds : d # id => cache'[d] = cache[d]
      BY <2>1 DEF Consistency, TypeOK
    <2>6. \A p \in Operations : Marked(p)' => Marked(p)
      BY <2>2 DEF Marked
    <2>7. \A x \in Objects : task[x].id # None => task'[x] = task[x]
      BY <2>2, <2>4
    <2>8. \A x \in Objects : task'[x].status = "Interrupt" =>
                \/ task[x].status = "Interrupt"
                \/ task'[x].id # None /\ cache'[task'[x].id] = x
      BY <2>3, <2>4, <2>5
    <2>9. \A d \in TaskIds :
                \/ cache'[d] = cache[d]
                \/ cache[d] = None /\ task'[cache'[d]].status # "Create"
      BY <2>2, <2>3, <2>4, <2>5
    <2>10. Statuses'
      BY <2>2, <2>6, <2>7, <2>8, <2>9, StatusFrame DEF StatusInv
    <2> QED BY <2>2, <2>10 DEF StatusInv, InterruptNeverSaved
  <1>7. ASSUME NEW id \in TaskIds,
               lc_cancelTask(id) \/ lc_pauseTask(id) \/ PauseCheck(id)
        PROVE  StatusInv'
    BY <1>4, <1>7 DEF lc_cancelTask, lc_pauseTask, PauseCheck
  <1>8. CASE lc_pauseAllTask
    BY <1>4, <1>8 DEF lc_pauseAllTask
  <1>9. CASE PublicCall
    BY <1>1, <1>3, <1>5, <1>6, <1>7, <1>8, <1>9 DEF PublicCall
  <1>10. CASE MainStep
    BY <1>7, <1>10, CancelStatus, PauseStatus DEF MainStep
  <1> QED BY <1>9, <1>10

-----------------------------------------------------------------------------
(* What the handler's answer leaves of an operation's record.               *)
LEMMA AnswerKeeps ==
    ASSUME NEW o \in OperationState, NEW sync \in BOOLEAN, NEW r \in HanderStart(o, sync)
    PROVE  /\ r.obj = o.obj /\ r.cancelled = o.cancelled /\ r.finished = o.finished
           /\ r.cb \in {o.cb, "setStatus"}
  <1> DEFINE failed == [o EXCEPT !.cb = "setStatus", !.err = TRUE, !.sync = sync,
                                 !.resumed = FALSE, !.transfer = "lost"]
             starting == [o EXCEPT !.resumed = FALSE, !.transfer = "starting"]
             copying == [o EXCEPT !.resumed = FALSE, !.transfer = "copying"]
  <1>1. /\ failed.obj = o.obj /\ failed.cancelled = o.cancelled
        /\ failed.finished = o.finished /\ failed.cb = "setStatus"
    BY DEF OperationState
  <1>2. /\ starting.obj = o.obj /\ starting.cancelled = o.cancelled
        /\ starting.finished = o.finished /\ starting.cb = o.cb
    BY DEF OperationState
  <1>3. /\ copying.obj = o.obj /\ copying.cancelled = o.cancelled
        /\ copying.finished = o.finished /\ copying.cb = o.cb
    BY DEF OperationState
  <1>4. r = failed \/ r = starting \/ r = copying
    BY DEF HanderStart, p_startTransfer, AnswerError
  <1> HIDE DEF failed, starting, copying
  <1> QED BY <1>1, <1>2, <1>3, <1>4

LEMMA ResumKeeps ==
    ASSUME NEW o \in OperationState, NEW state \in TakenOver, NEW upload \in BOOLEAN
    PROVE  LET r == HanderResum(o, state, upload)
           IN  /\ r.obj = o.obj /\ r.cancelled = o.cancelled
               /\ r.finished = o.finished
               /\ r.cb \in {o.cb, "askUrl", "setStatus"}
  <1> DEFINE answer == IF upload THEN "askUrl" ELSE "setStatus"
             atOnce == ~upload
             done == [o EXCEPT !.cb = answer, !.err = FALSE, !.sync = atOnce,
                               !.resumed = TRUE, !.transfer = "completed"]
             dead == [o EXCEPT !.resumed = TRUE, !.transfer = "cancelled"]
             on == [o EXCEPT !.resumed = TRUE, !.transfer = "running"]
  <1>1. /\ done.obj = o.obj /\ done.cancelled = o.cancelled
        /\ done.finished = o.finished /\ done.cb \in {"askUrl", "setStatus"}
    BY DEF OperationState
  <1>2. /\ dead.obj = o.obj /\ dead.cancelled = o.cancelled
        /\ dead.finished = o.finished /\ dead.cb = o.cb
    BY DEF OperationState
  <1>3. /\ on.obj = o.obj /\ on.cancelled = o.cancelled
        /\ on.finished = o.finished /\ on.cb = o.cb
    BY DEF OperationState
  <1>4. HanderResum(o, state, upload) \in {done, dead, on}
    BY DEF HanderResum
  <1> HIDE DEF done, dead, on
  <1> QED BY <1>1, <1>2, <1>3, <1>4

(* The handler is asked to start, or its answer arrives.                    *)
LEMMA StartedStatus ==
    ASSUME Consistency, StatusInv, NEW p \in Operations,
           NEW o \in OperationState, o.obj = op[p].obj, o.cb \in {op[p].cb, "none"},
           o.cancelled = op[p].cancelled, o.finished = op[p].finished,
           NEW sync \in BOOLEAN, NEW answer \in HanderStart(o, sync),
           op' = [op EXCEPT ![p] = answer], UNCHANGED <<task, row, cache, opDic>>
    PROVE  StatusInv'
  <1>1. /\ answer.obj = op[p].obj /\ answer.cancelled = op[p].cancelled
        /\ answer.finished = op[p].finished /\ answer.cb \in {op[p].cb, "none", "setStatus"}
    BY AnswerKeeps
  <1>2. Statuses'
    BY <1>1, QuietStatus DEF StatusInv, Marked
  <1> QED BY <1>2 DEF StatusInv, InterruptNeverSaved

LEMMA OpThreadStatus ==
    ASSUME Consistency, StatusInv, NEW p \in Operations, OpThread(p)
    PROVE  StatusInv'
  <1> USE DEF StatusInv
  <1>1. /\ op[p].thread # "none"
        /\ op \in [Operations -> OperationState] /\ op[p] \in OperationState
        /\ task \in [Objects -> TaskObject] /\ op[p].obj \in Objects
        /\ IdOf(p) \in TaskIds
    BY Lookups
    DEF OpThread, OpStart, OpMain, SetProgress, SaveProgress, Consistency, TypeOK
  <1>2. CASE OpStart(p)
    <2> DEFINE over == [op[p] EXCEPT !.thread = "done", !.finished = TRUE]
               on == [op[p] EXCEPT !.thread = "main"]
    <2>1. over.obj = op[p].obj /\ over.cb = op[p].cb
      BY <1>1 DEF OperationState
    <2>2. /\ on.obj = op[p].obj /\ on.cb = op[p].cb
          /\ on.cancelled = op[p].cancelled /\ on.finished = op[p].finished
      BY <1>1 DEF OperationState
    <2>3. /\ \/ op[p].cancelled /\ op' = [op EXCEPT ![p] = over]
             \/ op' = [op EXCEPT ![p] = on]
          /\ UNCHANGED <<task, cache, row, opDic>>
      BY <1>1, <1>2 DEF OpStart
    <2> HIDE DEF over, on
    <2>4. CASE op[p].cancelled /\ op' = [op EXCEPT ![p] = over]
      BY <2>1, <2>3, <2>4, OperationStatus DEF Marked, InterruptNeverSaved
    <2>5. CASE op' = [op EXCEPT ![p] = on]
      BY <2>2, <2>3, <2>5, QuietStatus DEF Marked, InterruptNeverSaved
    <2> QED BY <2>3, <2>4, <2>5
  <1>3. CASE OpMain(p)
    <2> DEFINE q == taskDic[IdOf(p)]
               started == [op[p] EXCEPT !.thread = "setProgress"]
               upload == task[op[p].obj].type = "Upload"
    <2>1. UNCHANGED <<task, row, cache, opDic>>
      BY <1>3 DEF OpMain
    <2>2. /\ started \in OperationState /\ started.obj = op[p].obj
          /\ started.cb = op[p].cb /\ started.cancelled = op[p].cancelled
          /\ started.finished = op[p].finished
      BY <1>1 DEF OperationState
    <2>9. upload \in BOOLEAN
      OBVIOUS
    <2> HIDE DEF started, upload
    <2>3. CASE /\ q # None /\ op[q].transfer \in TakenOver
               /\ op' = [op EXCEPT ![q].transfer = "lost",
                                   ![p] = HanderResum(started, op[q].transfer, upload)]
      <3> DEFINE lost == [op[q] EXCEPT !.transfer = "lost"]
                 taken == HanderResum(started, op[q].transfer, upload)
      <3>1. q \in Operations
        BY <1>1, <2>3, Lookups
      <3>2. /\ lost.obj = op[q].obj /\ lost.cb = op[q].cb
            /\ lost.cancelled = op[q].cancelled /\ lost.finished = op[q].finished
        BY <1>1, <3>1 DEF OperationState
      <3>3. /\ taken.obj = op[p].obj /\ taken.cb \in {op[p].cb, "askUrl", "setStatus"}
            /\ taken.cancelled = op[p].cancelled /\ taken.finished = op[p].finished
        BY <2>2, <2>3, <2>9, ResumKeeps
      <3>4. op' = [[op EXCEPT ![q] = lost] EXCEPT ![p] = taken]
        BY <1>1, <2>3, <3>1
      <3> HIDE DEF lost, taken, q
      <3>5. \A x \in Operations : /\ op'[x].obj = op[x].obj
                                  /\ op'[x].cb \in {op[x].cb, "askUrl", "setStatus"}
                                  /\ op'[x].cancelled = op[x].cancelled
                                  /\ op'[x].finished = op[x].finished
        BY <1>1, <3>1, <3>2, <3>3, <3>4
      <3>6. \A x \in Operations : Marked(x)' => Marked(x)
        BY <3>5 DEF Marked
      <3>7. Statuses'
        BY <2>1, <3>5, <3>6, StatusFrame
      <3> QED BY <2>1, <3>7 DEF InterruptNeverSaved
    <2>4. ASSUME NEW answer \in HanderStart(started, TRUE),
                 op' = [op EXCEPT ![p] = answer]
          PROVE  StatusInv'
      BY <1>1, <2>1, <2>2, <2>4, StartedStatus
    <2> QED BY <1>3, <2>3, <2>4 DEF OpMain, started, upload
  <1>4. CASE SetProgress(p)
    <2> DEFINE r == [op[p] EXCEPT !.thread = "saveProgress"]
    <2>1. /\ r.obj = op[p].obj /\ r.cb = op[p].cb
          /\ r.cancelled = op[p].cancelled /\ r.finished = op[p].finished
      BY <1>1 DEF OperationState
    <2>2. /\ op' = [op EXCEPT ![p] = r] /\ UNCHANGED <<cache, row, opDic>>
          /\ task' = SetStatus({op[p].obj}, "Progress")
      BY <1>1, <1>4 DEF SetProgress
    <2> HIDE DEF r
    <2>3. \A o \in Objects :
                /\ task'[o].id = task[o].id
                /\ task'[o].status = task[o].status \/ task'[o].status \notin Initial
      BY <1>1, <2>2, SetStatusFacts DEF TaskStatus, Initial
    <2>4. Statuses'
      BY <2>1, <2>2, <2>3, OperationStatus DEF Marked
    <2> QED BY <2>2, <2>4 DEF InterruptNeverSaved
  <1>5. CASE SaveProgress(p)
    <2> DEFINE r == [op[p] EXCEPT !.thread = "done"]
    <2>1. /\ r.obj = op[p].obj /\ r.cb = op[p].cb
          /\ r.cancelled = op[p].cancelled /\ r.finished = op[p].finished
      BY <1>1 DEF OperationState
    <2>2. /\ op' = [op EXCEPT ![p] = r] /\ UNCHANGED <<task, cache, opDic>>
          /\ row' = lc_updateTask(row, IdOf(p), "Progress")
      BY <1>1, <1>5 DEF SaveProgress
    <2> HIDE DEF r
    <2>3. Statuses'
      BY <2>1, <2>2, QuietStatus DEF Marked
    <2>4. InterruptNeverSaved'
      BY <1>1, <2>2, RowUpdated
    <2> QED BY <2>3, <2>4
  <1> QED BY <1>2, <1>3, <1>4, <1>5 DEF OpThread

LEMMA TransferThreadStatus ==
    ASSUME Consistency, StatusInv, NEW p \in Operations, TransferThread(p)
    PROVE  StatusInv'
  <1> USE DEF StatusInv
  <1>1. /\ op[p].thread # "none"
        /\ op \in [Operations -> OperationState] /\ op[p] \in OperationState
        /\ task \in [Objects -> TaskObject]
    BY DEF TransferThread, TransferRuns, TransferNotifies, RegisterTransfer,
           TransferFinish, CopyFinish, UrlAnswer, ForgetTransfer, SetFinishStatus,
           SaveFinishStatus, SaveFinishedTask, TellFinish, Consistency, TypeOK,
           OperationsHaveTask
  <1>2. op[p].obj \in Objects /\ IdOf(p) \in TaskIds /\ IdOf(p) # None
    BY <1>1, Lookups
  <1>3. ASSUME NEW r, op' = [op EXCEPT ![p] = r], UNCHANGED <<task, row, cache, opDic>>,
               r.obj = op[p].obj, r.cb \in {op[p].cb, "setStatus"},
               r.cancelled = op[p].cancelled, r.finished = op[p].finished
        PROVE  StatusInv'
    BY <1>3, QuietStatus DEF Marked, InterruptNeverSaved
  <1>4. ASSUME NEW answer \in HanderStart(op[p], FALSE), op' = [op EXCEPT ![p] = answer],
               UNCHANGED <<task, row, cache, opDic>>
        PROVE  StatusInv'
    BY <1>1, <1>4, StartedStatus
  <1>5. ASSUME NEW err \in BOOLEAN, RegisterTransfer(p, err)
        PROVE  StatusInv'
    <2> DEFINE running == [op[p] EXCEPT !.transfer = "running"]
    <2>1. UNCHANGED <<task, row, cache, opDic>>
      BY <1>5 DEF RegisterTransfer
    <2>2. CASE op' = [op EXCEPT ![p] = AnswerError(op[p], FALSE)]
      <3>1. AnswerError(op[p], FALSE) \in HanderStart(op[p], FALSE)
        BY DEF HanderStart, p_startTransfer
      <3> QED BY <1>4, <2>1, <2>2, <3>1
    <2>3. CASE op' = [op EXCEPT ![p] = running]
      <3>1. /\ running.obj = op[p].obj /\ running.cb = op[p].cb
            /\ running.cancelled = op[p].cancelled /\ running.finished = op[p].finished
        BY <1>1 DEF OperationState
      <3> HIDE DEF running
      <3> QED BY <1>3, <2>1, <2>3, <3>1
    <2> QED BY <1>1, <1>5, <2>2, <2>3 DEF RegisterTransfer
  <1>6. ASSUME NEW err \in BOOLEAN, TransferFinish(p, err)
        PROVE  StatusInv'
    <2> DEFINE over == [op[p] EXCEPT !.cb = "setStatus", !.err = err,
                            !.transfer = IF err THEN "failed" ELSE "completed",
                            !.forget = ~op[p].resumed]
    <2>1. UNCHANGED <<task, row, cache, opDic>>
      BY <1>6 DEF TransferFinish
    <2>2. CASE op' = [op EXCEPT ![p] = over]
      <3>1. /\ over.obj = op[p].obj /\ over.cb = "setStatus"
            /\ over.cancelled = op[p].cancelled /\ over.finished = op[p].finished
        BY <1>1 DEF OperationState
      <3> HIDE DEF over
      <3> QED BY <1>3, <2>1, <2>2, <3>1
    <2> QED BY <1>4, <1>6, <2>1, <2>2 DEF TransferFinish
  <1>13. ASSUME NEW err \in BOOLEAN, UrlAnswer(p, err)
         PROVE  StatusInv'
    <2> DEFINE again == [op[p] EXCEPT !.cb = "none"]
               over == [op[p] EXCEPT !.cb = "setStatus"]
    <2>1. UNCHANGED <<task, row, cache, opDic>>
      BY <1>13 DEF UrlAnswer
    <2>2. CASE op' = [op EXCEPT ![p] = over]
      <3>1. /\ over.obj = op[p].obj /\ over.cb = "setStatus"
            /\ over.cancelled = op[p].cancelled /\ over.finished = op[p].finished
        BY <1>1 DEF OperationState
      <3> HIDE DEF over
      <3> QED BY <1>3, <2>1, <2>2, <3>1
    <2>3. ASSUME NEW answer \in HanderStart(again, FALSE),
                 op' = [op EXCEPT ![p] = answer]
          PROVE  StatusInv'
      <3>1. /\ again \in OperationState /\ again.obj = op[p].obj
            /\ again.cb = "none"
            /\ again.cancelled = op[p].cancelled /\ again.finished = op[p].finished
        BY <1>1, ZenonT(60) DEF OperationState
      <3> HIDE DEF again
      <3> QED BY <2>1, <2>3, <3>1, StartedStatus
    <2> QED BY <1>13, <2>2, <2>3 DEF UrlAnswer
  <1>7. ASSUME NEW err \in BOOLEAN, CopyFinish(p, err)
        PROVE  StatusInv'
    <2> DEFINE over == [op[p] EXCEPT !.cb = "setStatus", !.err = FALSE,
                                     !.transfer = "lost"]
    <2>1. UNCHANGED <<task, row, cache, opDic>>
      BY <1>7 DEF CopyFinish
    <2>2. CASE op' = [op EXCEPT ![p] = over]
      <3>1. /\ over.obj = op[p].obj /\ over.cb = "setStatus"
            /\ over.cancelled = op[p].cancelled /\ over.finished = op[p].finished
        BY <1>1 DEF OperationState
      <3> HIDE DEF over
      <3> QED BY <1>3, <2>1, <2>2, <3>1
    <2>3. ASSUME NEW answer \in p_startTransfer(op[p], FALSE),
                 op' = [op EXCEPT ![p] = answer]
          PROVE  StatusInv'
      BY <1>4, <2>1, <2>3 DEF HanderStart
    <2> QED BY <1>7, <2>2, <2>3 DEF CopyFinish
  <1>8. CASE ForgetTransfer(p)
    <2> DEFINE r == [op[p] EXCEPT !.forget = FALSE]
    <2>1. /\ r.obj = op[p].obj /\ r.cb = op[p].cb
          /\ r.cancelled = op[p].cancelled /\ r.finished = op[p].finished
      BY <1>1 DEF OperationState
    <2>2. op' = [op EXCEPT ![p] = r] /\ UNCHANGED <<task, row, cache, opDic>>
      BY <1>1, <1>8 DEF ForgetTransfer
    <2> HIDE DEF r
    <2> QED BY <1>3, <2>1, <2>2
  <1>9. CASE SetFinishStatus(p)
    <2> DEFINE r == [op[p] EXCEPT !.cb = "saveStatus"]
               status == FinishStatus(op[p].err)
    <2>1. /\ r.obj = op[p].obj
          /\ r.cancelled = op[p].cancelled /\ r.finished = op[p].finished
      BY <1>1 DEF OperationState
    <2>2. /\ op' = [op EXCEPT ![p] = r] /\ UNCHANGED <<cache, row, opDic>>
          /\ task' = SetStatus({op[p].obj}, status)
      BY <1>1, <1>9 DEF SetFinishStatus
    <2>3. status \in TaskStatus /\ status \notin Initial
      BY DEF FinishStatus, TaskStatus, Initial
    <2> HIDE DEF r, status
    <2>4. \A o \in Objects :
                /\ task'[o].id = task[o].id
                /\ task'[o].status = IF o = op[p].obj THEN status ELSE task[o].status
      BY <1>1, <2>2, <2>3, SetStatusFacts
    <2>5. Statuses'
      BY <1>2, <2>1, <2>2, <2>3, <2>4, OperationStatus
    <2> QED BY <2>2, <2>5 DEF InterruptNeverSaved
  <1>10. CASE SaveFinishStatus(p)
    <2> DEFINE r == [op[p] EXCEPT !.cb = "saveTask"]
    <2>1. /\ r.obj = op[p].obj
          /\ r.cancelled = op[p].cancelled /\ r.finished = op[p].finished
      BY <1>1 DEF OperationState
    <2>2. /\ op' = [op EXCEPT ![p] = r] /\ UNCHANGED <<task, cache, opDic>>
          /\ row' = lc_updateTask(row, IdOf(p), task[op[p].obj].status)
          /\ Marked(p)
      BY <1>1, <1>10 DEF SaveFinishStatus, Marked
    <2> HIDE DEF r
    <2>3. Statuses'
      BY <2>1, <2>2, QuietStatus
    <2>4. task[op[p].obj].status # "Interrupt"
      BY <2>2 DEF Statuses, AnswersMarked, Initial
    <2>5. InterruptNeverSaved'
      BY <1>2, <2>2, <2>4, RowUpdated
    <2> QED BY <2>3, <2>5
  <1>11. CASE SaveFinishedTask(p)
    <2> DEFINE r == [op[p] EXCEPT !.cb = "tellFinish"]
               t == [task[op[p].obj] EXCEPT !.status = StatusToSave(p)]
    <2>1. /\ r.obj = op[p].obj
          /\ r.cancelled = op[p].cancelled /\ r.finished = op[p].finished
      BY <1>1 DEF OperationState
    <2>2. /\ op' = [op EXCEPT ![p] = r] /\ UNCHANGED <<cache, opDic>>
          /\ task' = SetStatus({op[p].obj}, StatusToSave(p))
          /\ row' = lc_saveTask(row, t)
          /\ Marked(p)
      BY <1>1, <1>11 DEF SaveFinishedTask, Marked
    <2>3. task[op[p].obj].status \notin Initial
      BY <2>2 DEF Statuses, AnswersMarked
    <2>4. StatusToSave(p) \in TaskStatus /\ StatusToSave(p) \notin Initial
      BY <1>1, <1>2, <2>3 DEF StatusToSave, TaskStatus, TaskObject, Initial
    <2>5. t \in TaskObject /\ t.id = IdOf(p) /\ t.status = StatusToSave(p)
      BY <1>1, <1>2, <2>4 DEF TaskObject, IdOf
    <2> HIDE DEF r, t
    <2>6. \A o \in Objects :
                /\ task'[o].id = task[o].id
                /\ task'[o].status = IF o = op[p].obj THEN StatusToSave(p)
                                                      ELSE task[o].status
      BY <1>1, <2>2, <2>4, SetStatusFacts
    <2>7. Statuses'
      BY <1>2, <2>1, <2>2, <2>4, <2>6, OperationStatus
    <2>8. InterruptNeverSaved'
      BY <1>2, <2>2, <2>4, <2>5, RowSaved DEF Initial
    <2> QED BY <2>7, <2>8
  <1>12. CASE TellFinish(p)
    <2> DEFINE r == [op[p] EXCEPT !.cb = "over", !.finished = TRUE, !.err = FALSE,
                                  !.sync = FALSE, !.resumed = FALSE]
    <2>1. r.obj = op[p].obj /\ r.cb = "over"
      BY <1>1 DEF OperationState
    <2>2. /\ op' = [op EXCEPT ![p] = r] /\ UNCHANGED <<task, row, cache, opDic>>
          /\ Marked(p)
      BY <1>1, <1>12 DEF TellFinish, p_finishOperatioin, Marked
    <2> HIDE DEF r
    <2>3. task[op[p].obj].status # "Create"
      BY <2>2 DEF Statuses, AnswersMarked, Initial
    <2>4. Statuses'
      BY <2>1, <2>2, <2>3, OperationStatus
    <2> QED BY <2>2, <2>4 DEF InterruptNeverSaved
  <1> QED BY <1>5, <1>6, <1>7, <1>8, <1>9, <1>10, <1>11, <1>12, <1>13
          DEF TransferThread, TransferRuns, TransferNotifies

LEMMA NextStatus ==
    ASSUME Consistency, StatusInv, [Next]_vars
    PROVE  StatusInv'
  <1>1. CASE PublicCall \/ MainStep
    BY <1>1, CallStatus
  <1>2. ASSUME NEW p \in Operations, OpThread(p) \/ TransferThread(p)
        PROVE  StatusInv'
    BY <1>2, OpThreadStatus, TransferThreadStatus
  <1>3. CASE Restart
    <2>1. \A i \in TaskIds : row' = lc_updateTask(row, i, "Canceled") => InterruptNeverSaved'
      BY <1>3, RowUpdated DEF StatusInv
    <2>2. InterruptNeverSaved'
      BY <1>3, <2>1, KillFacts DEF Restart, Consistency, StatusInv, InterruptNeverSaved
    <2> QED BY <1>3, <2>2
        DEF Restart, StatusInv, Statuses, InterruptIsCached, AnswersMarked, Marked,
            CreateHasOperation, NoObject, NoOperation
  <1>4. CASE UNCHANGED vars
    BY <1>4 DEF vars, StatusInv, Statuses, InterruptIsCached, AnswersMarked, Marked,
                CreateHasOperation, InterruptNeverSaved
  <1> QED BY <1>1, <1>2, <1>3, <1>4 DEF Next

LEMMA StatusHolds == Spec => []StatusInv
  <1>1. Consistency /\ StatusInv /\ [Next]_vars => StatusInv'
    BY NextStatus
  <1> QED BY <1>1, InitStatus, Consistent, PTL DEF Spec

(* CreateHasOperation for every number of tasks, instances and operations:  *)
(* a task that lc_startTask leaves alone because it is in its first status  *)
(* has an operation that nothing has ended, so the call that waits for it   *)
(* does not wait for nobody.                                                *)
THEOREM CreatedTasksAreRun == Spec => []CreateHasOperation
  <1>1. StatusInv => CreateHasOperation
    BY DEF StatusInv, Statuses
  <1> QED BY <1>1, StatusHolds, PTL

(* InterruptNeverSaved for every instance: the mark that lc_getTask and     *)
(* lc_startTask derive from a row is never written back to the table, by    *)
(* any finish block, pause, start or cancel of the task that carries it.    *)
THEOREM InterruptStaysInMemory == Spec => []InterruptNeverSaved
  <1>1. StatusInv => InterruptNeverSaved
    BY DEF StatusInv
  <1> QED BY <1>1, StatusHolds, PTL
=============================================================================
