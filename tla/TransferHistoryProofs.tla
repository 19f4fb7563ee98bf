------------------------ MODULE TransferHistoryProofs ------------------------
(* Proofs about TransferHistory, for every number of tasks and transfers    *)
(* and every size.  The invariant is a conjunction over the tasks: a step   *)
(* of one task leaves the others alone (Frame).                             *)
EXTENDS TransferHistory, TLAPS

(* No task's fileKey is the taskId of another task.                         *)
KeysApart == \A t \in Tasks : FileKey[t] \in Tasks => FileKey[t] = t

(* Every fileKey is the taskId.                                             *)
KeyIsId == \A t \in Tasks : FileKey[t] = t

Of(u, t) == aws[u] # None /\ aws[u].task = t

Runs(u) == aws[u].state = "running" /\ aws[u].handler # "none"

(* taskDic holds AWS tasks that were made ...                               *)
EntriesExist == \A n \in Names : taskDic[n] # None => aws[taskDic[n]] # None

(* ... under a taskId one of that task.                                     *)
EntryIsOfTask(t) == taskDic[t] # None => Of(taskDic[t], t)

(* The cancel of a task in progress reaches the handler.                    *)
ProgressWorks(t) == status[t] = "Progress" => t \in working

(* What runs is found by pause and cancel, and the task waits for it.       *)
RunningIsFiled(t) ==
    loaded => \A u \in Transfers :
        Of(u, t) /\ aws[u].state = "running" =>
            taskDic[t] = u /\ aws[u].handler # "none" /\ status[t] = "Progress"

(* Before the history is loaded nothing was started or resumed, of an app   *)
(* that waits for the history.                                              *)
BeforeLoad(t) ==
    ~loaded => /\ status[t] # "Progress"
               /\ \A u \in Transfers : Of(u, t) => aws[u].handler = "none"

ProgressAt(t) ==
    status[t] = "Progress" =>
        \/ \E u \in Transfers : Of(u, t) /\ Runs(u)
        \/ t \in early
        \/ Mute(taskDic[t])

(* Where the fileKey is the taskId, loadHistoryAWSTask files what is left   *)
(* of a task where resume looks for it: a task no cancel of which missed    *)
(* its transfer has at most one unfinished AWS task, and none once it was   *)
(* forgotten.                                                               *)
UnfinishedIsFiled(t) ==
    t \notin orphaned =>
        /\ loaded => \A u \in Transfers : Of(u, t) /\ IsUnfinished(aws[u]) => taskDic[t] = u
        /\ ~loaded => \A u, v \in Transfers : Of(u, t) /\ Of(v, t) => u = v

NewIsOver(t) ==
    t \notin orphaned /\ status[t] = "new" =>
        \A u \in Transfers : Of(u, t) => ~IsUnfinished(aws[u])

TaskInv(t) ==
    /\ EntryIsOfTask(t) /\ ProgressWorks(t) /\ RunningIsFiled(t)
    /\ Patient => BeforeLoad(t) /\ ProgressAt(t)
    /\ Patient /\ KeyIsId => UnfinishedIsFiled(t) /\ NewIsOver(t)

HistoryInv == TypeOK /\ EntriesExist /\ \A t \in Tasks : TaskInv(t)

(* A step of task t.                                                        *)
Frame(t) ==
    /\ loaded' = loaded
    /\ \A u \in Transfers : aws[u] # None => aws'[u] # None /\ aws'[u].task = aws[u].task
    /\ \A u \in Transfers : aws'[u] # None /\ aws'[u].task # t => aws'[u] = aws[u]
    /\ \A n \in Names \ {t} : taskDic'[n] = taskDic[n]
    /\ \A r \in Tasks \ {t} : /\ status'[r] = status[r]
                              /\ r \in working' <=> r \in working
                              /\ r \in early' <=> r \in early
                              /\ r \in orphaned' <=> r \in orphaned

TaskStatus == {"new", "Progress", "Pause", "Interrupt", "Failed", "Finish"}

-----------------------------------------------------------------------------
LEMMA InitHistory == Init => HistoryInv
  BY HistoryAssumption, NilAssumption
  DEF Init, HistoryInv, TypeOK, EntriesExist, TaskInv, EntryIsOfTask, ProgressWorks,
      RunningIsFiled, BeforeLoad, ProgressAt, UnfinishedIsFiled, NewIsOver, Of, Names

(* The other tasks.                                                         *)
LEMMA FrameKeeps ==
    ASSUME HistoryInv, NEW t \in Tasks, TypeOK', Frame(t), TaskInv(t)'
    PROVE  HistoryInv'
  <1>1. ASSUME NEW r \in Tasks, r # t
        PROVE  TaskInv(r)'
    <2>1. /\ r \in Names /\ taskDic'[r] = taskDic[r] /\ loaded' = loaded /\ status'[r] = status[r]
          /\ r \in working' <=> r \in working
          /\ r \in early' <=> r \in early
          /\ r \in orphaned' <=> r \in orphaned
      BY <1>1 DEF Frame, Names
    <2>2. \A u \in Transfers : /\ Of(u, r)' <=> Of(u, r)
                               /\ Of(u, r) => aws'[u] = aws[u]
      BY <1>1 DEF Frame, Of
    <2>3. TaskInv(r) /\ taskDic[r] \in Transfers \cup {None}
      BY <2>1 DEF HistoryInv, TypeOK
    <2>4. EntryIsOfTask(r)' /\ ProgressWorks(r)' /\ RunningIsFiled(r)'
      BY <2>1, <2>2, <2>3 DEF TaskInv, EntryIsOfTask, ProgressWorks, RunningIsFiled
    <2>5. ASSUME Patient PROVE BeforeLoad(r)' /\ ProgressAt(r)'
      <3>1. BeforeLoad(r) /\ ProgressAt(r) /\ EntryIsOfTask(r)
        BY <2>3, <2>5 DEF TaskInv
      <3>2. BeforeLoad(r)'
        BY <2>1, <2>2, <3>1 DEF BeforeLoad
      <3>3. Mute(taskDic[r]) => Mute(taskDic[r])'
        BY <2>1, <2>2, <2>3, <3>1, HistoryAssumption DEF Mute, EntryIsOfTask
      <3>4. ProgressAt(r)'
        BY <2>1, <2>2, <3>1, <3>3 DEF ProgressAt, Runs
      <3> QED BY <3>2, <3>4
    <2>6. ASSUME Patient, KeyIsId PROVE UnfinishedIsFiled(r)' /\ NewIsOver(r)'
      BY <2>1, <2>2, <2>3, <2>6 DEF TaskInv, UnfinishedIsFiled, NewIsOver
    <2> QED BY <2>4, <2>5, <2>6 DEF TaskInv, KeyIsId
  <1>2. EntriesExist'
    <2> SUFFICES ASSUME NEW n \in Names, taskDic'[n] # None
                 PROVE  aws'[taskDic'[n]] # None
      BY DEF EntriesExist
    <2>1. CASE n = t
      BY <2>1 DEF TaskInv, EntryIsOfTask, Of
    <2>2. CASE n # t
      BY <2>2 DEF Frame, HistoryInv, EntriesExist, TypeOK
    <2> QED BY <2>1, <2>2
  <1> QED BY <1>1, <1>2 DEF HistoryInv

LEMMA SuspendedFacts ==
    ASSUME NEW a \in AWSTask \cup {None}
    PROVE  /\ Suspended(a) \in AWSTask \cup {None}
           /\ Suspended(a) = None <=> a = None
           /\ a # None => /\ Suspended(a).task = a.task
                          /\ Suspended(a).handler = a.handler
                          /\ Suspended(a).state # "running"
                          /\ IsUnfinished(Suspended(a)) <=> IsUnfinished(a)
  BY NilAssumption DEF Suspended, AWSTask, AWSState, IsUnfinished

LEMMA RecoveredFacts ==
    ASSUME NEW a \in AWSTask, NEW f \in Fate
    PROVE  /\ Recovered(a, f) \in AWSTask /\ Recovered(a, f).task = a.task
           /\ Recovered(a, f).handler = "none"
  <1>1. 0 \in 0..Size
    BY HistoryAssumption
  <1> QED BY <1>1 DEF Recovered, AWSTask, AWSState, Fate

-----------------------------------------------------------------------------
(* The three kinds of step of a task: one of its AWS tasks changes ...      *)
LEMMA Changes ==
    ASSUME HistoryInv, NEW t \in Tasks, NEW u \in Transfers, NEW a \in AWSTask,
           NEW s \in TaskStatus,
           Of(u, t), a.task = t,
           loaded => taskDic[t] = u,
           aws' = [aws EXCEPT ![u] = a],
           status' = [status EXCEPT ![t] = s],
           \/ taskDic' = taskDic
           \/ a.state \notin {"running", "paused"} /\ taskDic' = [taskDic EXCEPT ![t] = None],
           loaded' = loaded,
           working' \in SUBSET Tasks, early' \in SUBSET Tasks, orphaned' \in SUBSET Tasks,
           \A r \in Tasks \ {t} : /\ r \in working' <=> r \in working
                                  /\ r \in early' <=> r \in early
                                  /\ r \in orphaned' <=> r \in orphaned,
           s = "Progress" => t \in working',
           loaded /\ a.state = "running" => a.handler # "none" /\ s = "Progress",
           Patient => /\ ~loaded => s = status[t] /\ a.handler = aws[u].handler
                      /\ s = "Progress" =>
                            \/ a.state = "running"
                            \/ t \in early'
                            \/ a.state \in {"unknown", "cancelled"} /\ taskDic' = taskDic,
           Patient /\ t \notin orphaned' =>
                /\ t \notin orphaned
                /\ a.state \in {"running", "paused"} => aws[u].state \in {"running", "paused"}
                /\ \/ s # "new"
                   \/ loaded /\ a.state \notin {"running", "paused"}
                   \/ status[t] = "new"
    PROVE  HistoryInv'
  <1>1. /\ a # None /\ t \in Names /\ u # None /\ aws'[u] = a /\ status'[t] = s
        /\ \A v \in Transfers : v # u => aws'[v] = aws[v]
        /\ \A n \in Names \ {t} : taskDic'[n] = taskDic[n]
        /\ taskDic'[t] \in {taskDic[t], None}
        /\ a.state \in {"running", "paused"} => taskDic'[t] = taskDic[t]
    BY HistoryAssumption, NilAssumption DEF HistoryInv, TypeOK, Names
  <1>2. TypeOK'
    BY <1>1 DEF HistoryInv, TypeOK, TaskStatus
  <1>3. Frame(t)
    BY <1>1 DEF Frame, Of, HistoryInv, TypeOK
  <1>4. \A v \in Transfers : Of(v, t)' <=> Of(v, t)
    BY <1>1 DEF Of
  <1>5. TaskInv(t)
    BY DEF HistoryInv
  <1>6. EntryIsOfTask(t)' /\ ProgressWorks(t)' /\ RunningIsFiled(t)'
    <2>1. EntryIsOfTask(t)'
      BY <1>1, <1>4, <1>5 DEF TaskInv, EntryIsOfTask, HistoryInv, TypeOK, Of
    <2>2. RunningIsFiled(t)'
      BY <1>1, <1>4, <1>5 DEF TaskInv, RunningIsFiled
    <2> QED BY <1>1, <2>1, <2>2 DEF ProgressWorks
  <1>7. ASSUME Patient PROVE BeforeLoad(t)' /\ ProgressAt(t)'
    <2>1. BeforeLoad(t)'
      BY <1>1, <1>4, <1>5, <1>7 DEF TaskInv, BeforeLoad
    <2>2. s = "Progress" => loaded
      BY <1>5, <1>7 DEF TaskInv, BeforeLoad
    <2>3. ProgressAt(t)'
      BY <1>1, <1>4, <1>7, <2>2 DEF ProgressAt, Runs, Mute
    <2> QED BY <2>1, <2>3
  <1>8. ASSUME Patient, KeyIsId PROVE UnfinishedIsFiled(t)' /\ NewIsOver(t)'
    <2>1. t \notin orphaned' => UnfinishedIsFiled(t) /\ NewIsOver(t) /\ t \notin orphaned
      BY <1>5, <1>8 DEF TaskInv
    <2>2. UnfinishedIsFiled(t)'
      BY <1>1, <1>4, <1>8, <2>1 DEF UnfinishedIsFiled, IsUnfinished, Of
    <2>3. NewIsOver(t)'
      BY <1>1, <1>4, <1>8, <2>1 DEF UnfinishedIsFiled, NewIsOver, IsUnfinished, Of
    <2> QED BY <2>2, <2>3
  <1>9. TaskInv(t)'
    BY <1>6, <1>7, <1>8 DEF TaskInv, KeyIsId
  <1> QED BY <1>2, <1>3, <1>9, FrameKeeps

(* ... none changes ...                                                     *)
LEMMA Stays ==
    ASSUME HistoryInv, NEW t \in Tasks, NEW s \in TaskStatus,
           UNCHANGED <<aws, taskDic, loaded>>,
           status' = [status EXCEPT ![t] = s],
           working' \in SUBSET Tasks, early' \in SUBSET Tasks, orphaned' \in SUBSET Tasks,
           \A r \in Tasks \ {t} : /\ r \in working' <=> r \in working
                                  /\ r \in early' <=> r \in early
                                  /\ r \in orphaned' <=> r \in orphaned,
           s = "Progress" => t \in working',
           loaded /\ s # "Progress" =>
                \A v \in Transfers : Of(v, t) => aws[v].state # "running",
           Patient => loaded /\ (s = "Progress" => t \in early'),
           t \notin orphaned' =>
                /\ t \notin orphaned
                /\ s = "new" => \A v \in Transfers : Of(v, t) => ~IsUnfinished(aws[v])
    PROVE  HistoryInv'
  <1>1. /\ status'[t] = s /\ \A r \in Tasks \ {t} : status'[r] = status[r]
        /\ \A v \in Transfers : Of(v, t)' <=> Of(v, t)
    BY DEF HistoryInv, TypeOK, Of
  <1>2. TypeOK'
    BY <1>1 DEF HistoryInv, TypeOK, TaskStatus
  <1>3. Frame(t)
    BY <1>1 DEF Frame
  <1>4. TaskInv(t)
    BY DEF HistoryInv
  <1>5. EntryIsOfTask(t)' /\ ProgressWorks(t)' /\ RunningIsFiled(t)'
    BY <1>1, <1>4
    DEF TaskInv, EntryIsOfTask, ProgressWorks, RunningIsFiled, Of
  <1>6. ASSUME Patient PROVE BeforeLoad(t)' /\ ProgressAt(t)'
    BY <1>1, <1>6 DEF BeforeLoad, ProgressAt
  <1>7. ASSUME Patient, KeyIsId PROVE UnfinishedIsFiled(t)' /\ NewIsOver(t)'
    BY <1>1, <1>4, <1>7 DEF TaskInv, UnfinishedIsFiled, NewIsOver, IsUnfinished
  <1>8. TaskInv(t)'
    BY <1>5, <1>6, <1>7 DEF TaskInv, KeyIsId
  <1> QED BY <1>2, <1>3, <1>8, FrameKeeps

(* ... or a new one is made, of a task that has nothing left to resume.     *)
LEMMA Starts ==
    ASSUME HistoryInv, NEW t \in Tasks, NEW s \in TaskStatus,
           NEW transfers \in [Transfers -> AWSTask \cup {None}],
           \A v \in Transfers :
                /\ transfers[v] = None <=> aws[v] = None
                /\ aws[v] # None => transfers[v].task = aws[v].task
                /\ aws[v] # None /\ aws[v].task # t => transfers[v] = aws[v],
           p_start(t, transfers),
           loaded' = loaded,
           status' = [status EXCEPT ![t] = s],
           working' \in SUBSET Tasks, early' \in SUBSET Tasks, orphaned' = orphaned,
           \A r \in Tasks \ {t} : /\ r \in working' <=> r \in working
                                  /\ r \in early' <=> r \in early,
           s = "Progress" => t \in working',
           loaded => /\ s = "Progress"
                     /\ \A v \in Transfers : Of(v, t) => transfers[v].state # "running",
           Patient => loaded,
           Patient /\ KeyIsId /\ t \notin orphaned =>
                \A v \in Transfers : Of(v, t) => ~IsUnfinished(transfers[v])
    PROVE  HistoryInv'
  <1> DEFINE a == [task |-> t, state |-> "running", sent |-> 0, handler |-> "start"]
  <1>1. PICK u \in Transfers : /\ transfers[u] = None
                               /\ aws' = [transfers EXCEPT ![u] = a]
                               /\ taskDic' = [taskDic EXCEPT ![t] = u]
    BY DEF p_start
  <1>2. 0 \in 0..Size
    BY HistoryAssumption
  <1>3. a \in AWSTask /\ a.task = t /\ a.state = "running" /\ a.handler = "start"
    BY <1>2 DEF AWSTask, AWSState
  <1> HIDE DEF a
  <1>4. /\ a # None /\ t \in Names /\ u # None /\ aws'[u] = a /\ status'[t] = s
        /\ \A v \in Transfers : v # u => aws'[v] = transfers[v]
        /\ \A n \in Names \ {t} : taskDic'[n] = taskDic[n]
        /\ taskDic'[t] = u
        /\ \A r \in Tasks \ {t} : status'[r] = status[r]
    BY <1>1, <1>3, HistoryAssumption, NilAssumption DEF HistoryInv, TypeOK, Names
  <1>5. TypeOK'
    BY <1>1, <1>3 DEF HistoryInv, TypeOK, TaskStatus
  <1>6. Frame(t)
    BY <1>1, <1>3, <1>4 DEF Frame, HistoryInv, TypeOK
  <1>7. \A v \in Transfers : Of(v, t)' <=> Of(v, t) \/ v = u
    BY <1>1, <1>3, <1>4 DEF Of
  <1>8. EntryIsOfTask(t)' /\ ProgressWorks(t)'
    BY <1>4, <1>7 DEF EntryIsOfTask, ProgressWorks, Of
  <1>9. RunningIsFiled(t)'
    BY <1>3, <1>4, <1>7 DEF RunningIsFiled
  <1>10. ASSUME Patient PROVE BeforeLoad(t)' /\ ProgressAt(t)'
    BY <1>3, <1>4, <1>7, <1>10 DEF BeforeLoad, ProgressAt, Runs
  <1>11. ASSUME Patient, KeyIsId PROVE UnfinishedIsFiled(t)' /\ NewIsOver(t)'
    BY <1>3, <1>4, <1>7, <1>11 DEF UnfinishedIsFiled, NewIsOver, IsUnfinished
  <1>12. TaskInv(t)'
    BY <1>8, <1>9, <1>10, <1>11 DEF TaskInv, KeyIsId
  <1> QED BY <1>5, <1>6, <1>12, FrameKeeps

-----------------------------------------------------------------------------
(* The operation's main, for a task without a transfer to resume.           *)
LEMMA StartAnewKeeps ==
    ASSUME HistoryInv, NEW t \in Tasks, StartAnew(t), MayCall,
           UNCHANGED <<loaded, orphaned>>, working' = working \cup {t},
           loaded => \A v \in Transfers : Of(v, t) => aws[v].state # "running",
           Patient /\ KeyIsId /\ t \notin orphaned =>
                \A v \in Transfers : Of(v, t) => ~IsUnfinished(aws[v])
    PROVE  HistoryInv'
  <1>1. /\ status' = [status EXCEPT ![t] = "Progress"] /\ "Progress" \in TaskStatus
        /\ aws \in [Transfers -> AWSTask \cup {None}]
        /\ working' \in SUBSET Tasks
        /\ Patient => loaded
    BY DEF StartAnew, HistoryInv, TypeOK, TaskStatus, MayCall
  <1>2. CASE p_start(t, aws) /\ early' = early \ {t}
    <2>1. early' \in SUBSET Tasks
      BY <1>2 DEF HistoryInv, TypeOK
    <2> QED BY <1>1, <1>2, <2>1, Starts
  <1>3. CASE p_refuse(aws) /\ early' = early \cup {t}
    <2>1. /\ early' \in SUBSET Tasks /\ orphaned' \in SUBSET Tasks
          /\ UNCHANGED <<aws, taskDic, loaded>>
      BY <1>3 DEF HistoryInv, TypeOK, p_refuse
    <2>2. "Progress" # "new" /\ t \in early' /\ t \in working'
      BY <1>3
    <2> HIDE DEF TaskStatus
    <2> QED BY <1>1, <1>3, <2>1, <2>2, Stays
  <1> QED BY <1>2, <1>3 DEF StartAnew

LEMMA StartKeeps ==
    ASSUME HistoryInv, NEW t \in Tasks, lc_startTask(t)
    PROVE  HistoryInv'
  <1>1. /\ TaskInv(t) /\ status[t] = "new" /\ StartAnew(t) /\ MayCall
        /\ working' = working \cup {t} /\ UNCHANGED <<loaded, orphaned>>
    BY DEF lc_startTask, HistoryInv
  <1>2. loaded => \A v \in Transfers : Of(v, t) => aws[v].state # "running"
    BY <1>1 DEF TaskInv, RunningIsFiled
  <1>3. Patient /\ KeyIsId /\ t \notin orphaned =>
            \A v \in Transfers : Of(v, t) => ~IsUnfinished(aws[v])
    BY <1>1 DEF TaskInv, NewIsOver
  <1> QED BY <1>1, <1>2, <1>3, StartAnewKeeps

LEMMA ResumeKeeps ==
    ASSUME HistoryInv, NEW t \in Tasks, lc_resumTask(t)
    PROVE  HistoryInv'
  <1> DEFINE u == taskDic[t]
  <1>1. /\ TaskInv(t) /\ MayCall /\ status[t] \in {"Pause", "Interrupt", "Failed"}
        /\ working' = working \cup {t} /\ loaded' = loaded /\ orphaned' = orphaned
        /\ t \in Names
    BY DEF lc_resumTask, HistoryInv, Names
  <1>2. /\ u \in Transfers \cup {None}
        /\ u # None => u \in Transfers /\ Of(u, t) /\ aws[u] \in AWSTask
    BY <1>1 DEF HistoryInv, TypeOK, TaskInv, EntryIsOfTask, Of
  <1>3. loaded => \A v \in Transfers : Of(v, t) => aws[v].state # "running"
    BY <1>1 DEF TaskInv, RunningIsFiled
  <1>4. Patient => loaded
    BY <1>1 DEF MayCall
  <1>5. Patient /\ KeyIsId /\ t \notin orphaned =>
            \A v \in Transfers : Of(v, t) /\ IsUnfinished(aws[v]) => u = v
    BY <1>1, <1>4 DEF TaskInv, UnfinishedIsFiled
  <1>6. CASE Gone(u) /\ StartAnew(t)
    <2>1. \A v \in Transfers : u = v => ~IsUnfinished(aws[v])
      BY <1>2, <1>6, HistoryAssumption DEF Gone, IsUnfinished
    <2>2. Patient /\ KeyIsId /\ t \notin orphaned =>
              \A v \in Transfers : Of(v, t) => ~IsUnfinished(aws[v])
      BY <1>5, <2>1
    <2> QED BY <1>1, <1>3, <1>6, <2>2, StartAnewKeeps
  <1>7. CASE ~Gone(u) /\ aws[u].state # "completed" /\ TakeUp(t, u)
    <2> DEFINE a == [aws[u] EXCEPT !.handler = "resume",
                                   !.state = IF @ = "paused" THEN "running" ELSE @]
    <2>1. /\ u \in Transfers /\ Of(u, t) /\ aws[u] \in AWSTask
          /\ aws[u].state \in {"running", "paused", "cancelled", "unknown"}
      BY <1>2, <1>7 DEF Gone, AWSTask, AWSState
    <2>2. /\ a \in AWSTask /\ a.task = t /\ a.handler = "resume"
          /\ a.state \in {"running", "cancelled", "unknown"}
          /\ a.state \in {"running", "paused"} => aws[u].state \in {"running", "paused"}
      BY <2>1 DEF AWSTask, AWSState, Of
    <2>3. /\ aws' = [aws EXCEPT ![u] = a]
          /\ status' = [status EXCEPT ![t] = "Progress"] /\ "Progress" \in TaskStatus
          /\ early' = early \ {t} /\ taskDic' = taskDic
      BY <1>7, <2>1 DEF TakeUp, HistoryInv, TypeOK, TaskStatus, AWSTask
    <2>4. /\ working' \in SUBSET Tasks /\ early' \in SUBSET Tasks /\ orphaned' \in SUBSET Tasks
          /\ t \in working'
      BY <1>1, <2>3 DEF HistoryInv, TypeOK
    <2> HIDE DEF a, u, TaskStatus
    <2>5. loaded => taskDic[t] = u
      BY DEF u
    <2> QED BY <1>1, <1>4, <2>1, <2>2, <2>3, <2>4, <2>5, Changes
  <1>8. CASE ~Gone(u) /\ aws[u].state = "completed" /\ TakeUpCompleted(t)
    <2>1. \A v \in Transfers : u = v => ~IsUnfinished(aws[v])
      BY <1>8 DEF IsUnfinished
    <2>2. Patient /\ KeyIsId /\ t \notin orphaned =>
              \A v \in Transfers : Of(v, t) => ~IsUnfinished(aws[v])
      BY <1>5, <2>1
    <2>3. aws \in [Transfers -> AWSTask \cup {None}] /\ working' \in SUBSET Tasks
          /\ orphaned' \in SUBSET Tasks /\ early \in SUBSET Tasks /\ t \in working'
      BY <1>1 DEF HistoryInv, TypeOK
    <2>4. CASE /\ p_start(t, aws) /\ status' = [status EXCEPT ![t] = "Progress"]
               /\ early' = early \ {t}
      <3>1. "Progress" \in TaskStatus /\ early' \in SUBSET Tasks
        BY <2>3, <2>4 DEF TaskStatus
      <3> HIDE DEF TaskStatus, u
      <3> QED BY <1>1, <1>3, <1>4, <2>2, <2>3, <2>4, <3>1, Starts
    <2>5. ASSUME NEW s \in TaskStatus, s # "new", UNCHANGED <<aws, taskDic>>,
                 status' = [status EXCEPT ![t] = s],
                 \/ early' = early \cup {t}
                 \/ early' = early \ {t} /\ s # "Progress"
          PROVE  HistoryInv'
      <3>1. early' \in SUBSET Tasks
        BY <2>3, <2>5
      <3> HIDE DEF TaskStatus, u
      <3> QED BY <1>1, <1>3, <1>4, <2>2, <2>3, <2>5, <3>1, Stays
    <2> QED BY <1>8, <2>4, <2>5 DEF TakeUpCompleted, TaskStatus
  <1> QED BY <1>6, <1>7, <1>8 DEF lc_resumTask

LEMMA PauseKeeps ==
    ASSUME HistoryInv, NEW t \in Tasks, lc_pauseTask(t)
    PROVE  HistoryInv'
  <1> DEFINE u == taskDic[t]
  <1>1. /\ TaskInv(t) /\ MayCall /\ t \in Names
        /\ status' = [status EXCEPT ![t] = "Pause"] /\ "Pause" \in TaskStatus
        /\ working' = working \ {t} /\ UNCHANGED <<taskDic, loaded, early, orphaned>>
        /\ working' \in SUBSET Tasks /\ early' \in SUBSET Tasks /\ orphaned' \in SUBSET Tasks
    BY DEF lc_pauseTask, HistoryInv, Names, TypeOK, TaskStatus
  <1>2. /\ u \in Transfers \cup {None}
        /\ u # None => u \in Transfers /\ Of(u, t) /\ aws[u] \in AWSTask
    BY <1>1 DEF HistoryInv, TypeOK, TaskInv, EntryIsOfTask, Of
  <1>3. Patient => loaded
    BY <1>1 DEF MayCall
  <1>4. CASE u = None
    <2>1. aws' = aws
      BY <1>4 DEF lc_pauseTask
    <2>2. loaded => \A v \in Transfers : Of(v, t) => aws[v].state # "running"
      BY <1>1, <1>4, HistoryAssumption DEF TaskInv, RunningIsFiled
    <2> HIDE DEF TaskStatus, u
    <2> QED BY <1>1, <1>3, <2>1, <2>2, Stays
  <1>5. CASE u # None
    <2> DEFINE a == Suspended(aws[u])
    <2>1. /\ a \in AWSTask /\ a.task = t /\ a.handler = aws[u].handler /\ a.state # "running"
          /\ a.state \in {"running", "paused"} => aws[u].state \in {"running", "paused"}
      BY <1>2, <1>5, SuspendedFacts DEF Of, IsUnfinished
    <2>2. aws' = [aws EXCEPT ![u] = a]
      BY <1>2, <1>5 DEF lc_pauseTask, HistoryInv, TypeOK
    <2>3. Of(u, t) /\ u \in Transfers
      BY <1>2, <1>5
    <2> HIDE DEF a, u, TaskStatus
    <2>4. loaded => taskDic[t] = u
      BY DEF u
    <2> QED BY <1>1, <1>3, <2>1, <2>2, <2>3, <2>4, Changes
  <1> QED BY <1>4, <1>5

LEMMA CancelKeeps ==
    ASSUME HistoryInv, NEW t \in Tasks, lc_cancelTask(t)
    PROVE  HistoryInv'
  <1> DEFINE u == taskDic[t]
  <1>1. /\ TaskInv(t) /\ MayCall /\ t \in Names
        /\ status' = [status EXCEPT ![t] = "new"] /\ "new" \in TaskStatus
        /\ working' = working \ {t} /\ UNCHANGED <<taskDic, loaded, early>>
        /\ working' \in SUBSET Tasks /\ early' \in SUBSET Tasks /\ orphaned' \in SUBSET Tasks
        /\ aws' = AfterCancel(t)
    BY DEF lc_cancelTask, HistoryInv, Names, TypeOK, TaskStatus
  <1>2. /\ u \in Transfers \cup {None}
        /\ u # None => u \in Transfers /\ Of(u, t) /\ aws[u] \in AWSTask
    BY <1>1 DEF HistoryInv, TypeOK, TaskInv, EntryIsOfTask, Of
  <1>3. Patient => loaded
    BY <1>1 DEF MayCall
  <1>4. /\ \A r \in Tasks \ {t} : r \in orphaned' <=> r \in orphaned
        /\ t \notin orphaned' =>
                /\ t \notin orphaned
                /\ \A v \in Transfers : ~(IsUnfinished(aws'[v]) /\ aws'[v].task = t)
    BY DEF lc_cancelTask
  <1>5. CASE aws' = aws /\ (t \notin working \/ Gone(u))
    <2>1. loaded => \A v \in Transfers : Of(v, t) => aws[v].state # "running"
      BY <1>1, <1>2, <1>5, HistoryAssumption DEF TaskInv, RunningIsFiled, ProgressWorks, Gone
    <2>2. t \notin orphaned' => \A v \in Transfers : Of(v, t) => ~IsUnfinished(aws[v])
      BY <1>4, <1>5 DEF Of
    <2> HIDE DEF TaskStatus, u
    <2> QED BY <1>1, <1>3, <1>4, <1>5, <2>1, <2>2, Stays
  <1>6. CASE ~Gone(u) /\ aws' = [aws EXCEPT ![u].state = "cancelled"]
    <2> DEFINE a == [aws[u] EXCEPT !.state = "cancelled"]
    <2>1. u \in Transfers /\ Of(u, t) /\ aws[u] \in AWSTask
      BY <1>2, <1>6 DEF Gone
    <2>2. /\ a \in AWSTask /\ a.task = t /\ a.handler = aws[u].handler /\ a.state = "cancelled"
      BY <2>1 DEF AWSTask, AWSState, Of
    <2>3. aws' = [aws EXCEPT ![u] = a]
      BY <1>6, <2>1 DEF HistoryInv, TypeOK
    <2> HIDE DEF a, u, TaskStatus
    <2>4. loaded => taskDic[t] = u
      BY DEF u
    <2> QED BY <1>1, <1>3, <1>4, <2>1, <2>2, <2>3, <2>4, Changes
  <1> QED BY <1>1, <1>5, <1>6 DEF AfterCancel

-----------------------------------------------------------------------------
(* The transfer utility.                                                    *)
LEMMA RunningFacts ==
    ASSUME HistoryInv, NEW u \in Transfers, aws[u] # None, aws[u].state = "running"
    PROVE  /\ aws[u] \in AWSTask /\ aws[u].task \in Tasks /\ Of(u, aws[u].task)
           /\ TaskInv(aws[u].task) /\ status[aws[u].task] \in TaskStatus
           /\ loaded => /\ taskDic[aws[u].task] = u
                        /\ aws[u].handler # "none" /\ status[aws[u].task] = "Progress"
           /\ Patient /\ aws[u].handler # "none" => loaded
  <1>1. /\ aws[u] \in AWSTask /\ aws[u].task \in Tasks /\ Of(u, aws[u].task)
        /\ TaskInv(aws[u].task)
    BY DEF HistoryInv, TypeOK, AWSTask, Of
  <1> QED BY <1>1 DEF HistoryInv, TypeOK, TaskInv, RunningIsFiled, BeforeLoad, TaskStatus

LEMMA SendKeeps ==
    ASSUME HistoryInv, NEW u \in Transfers, Send(u)
    PROVE  HistoryInv'
  <1> DEFINE t == aws[u].task
             a == [aws[u] EXCEPT !.sent = @ + 1]
  <1>1. /\ aws[u] # None /\ aws[u].state = "running"
        /\ UNCHANGED <<taskDic, status, working, loaded, early, orphaned>>
    BY DEF Send
  <1>2. /\ aws[u] \in AWSTask /\ t \in Tasks /\ Of(u, t)
        /\ TaskInv(t) /\ status[t] \in TaskStatus
        /\ loaded => taskDic[t] = u /\ aws[u].handler # "none" /\ status[t] = "Progress"
        /\ Patient /\ aws[u].handler # "none" => loaded
    BY <1>1, RunningFacts
  <1>3. aws[u].sent + 1 \in 0..Size
    BY <1>2, HistoryAssumption DEF AWSTask, Send
  <1>4. /\ a \in AWSTask /\ a.task = t /\ a.state = "running" /\ a.handler = aws[u].handler
    BY <1>1, <1>2, <1>3 DEF AWSTask
  <1>5. /\ aws' = [aws EXCEPT ![u] = a] /\ status' = [status EXCEPT ![t] = status[t]]
        /\ working' \in SUBSET Tasks /\ early' \in SUBSET Tasks /\ orphaned' \in SUBSET Tasks
        /\ t \in working' <=> t \in working
    BY <1>1, <1>2 DEF Send, HistoryInv, TypeOK
  <1>6. status[t] = "Progress" => t \in working
    BY <1>2 DEF TaskInv, ProgressWorks
  <1> HIDE DEF a, t, TaskStatus
  <1> QED BY <1>1, <1>2, <1>4, <1>5, <1>6, Changes

LEMMA EndsKeeps ==
    ASSUME HistoryInv, NEW u \in Transfers, NEW state \in {"completed", "failed"},
           NEW err \in BOOLEAN, EndsAs(u, state, err)
    PROVE  HistoryInv'
  <1> DEFINE t == aws[u].task
             a == [aws[u] EXCEPT !.state = state]
             after == [aws EXCEPT ![u].state = state]
  <1>1. /\ aws[u] # None /\ aws[u].state = "running" /\ Handler(u, state, err)
        /\ UNCHANGED <<working, loaded, early, orphaned>>
    BY DEF EndsAs
  <1>2. /\ aws[u] \in AWSTask /\ t \in Tasks /\ Of(u, t) /\ t \in Names
        /\ TaskInv(t) /\ status[t] \in TaskStatus
        /\ loaded => taskDic[t] = u /\ aws[u].handler # "none" /\ status[t] = "Progress"
        /\ Patient /\ aws[u].handler # "none" => loaded
    BY <1>1, RunningFacts DEF Names
  <1>3. /\ a \in AWSTask /\ a.task = t /\ a.handler = aws[u].handler
        /\ a.state \notin {"running", "paused"}
    BY <1>2 DEF AWSTask, AWSState
  <1>4. after = [aws EXCEPT ![u] = a]
    BY <1>2 DEF HistoryInv, TypeOK
  <1>5. /\ working' \in SUBSET Tasks /\ early' \in SUBSET Tasks /\ orphaned' \in SUBSET Tasks
        /\ status' = status => status' = [status EXCEPT ![t] = status[t]]
        /\ working' = working /\ early' = early /\ orphaned' = orphaned /\ loaded' = loaded
    BY <1>1, <1>2 DEF HistoryInv, TypeOK
  <1>6. status[t] = "Progress" => t \in working
    BY <1>2 DEF TaskInv, ProgressWorks
  <1>7. CASE aws[u].handler = "none" /\ aws' = after /\ UNCHANGED <<status, taskDic>>
    <2>1. Patient => status[t] # "Progress"
      BY <1>2, <1>7 DEF TaskInv, BeforeLoad
    <2> HIDE DEF a, t, TaskStatus, after
    <2> QED BY <1>2, <1>3, <1>4, <1>5, <1>6, <1>7, <2>1, Changes
  <1>8. ASSUME NEW s \in {"Finish", "Failed"}, aws[u].handler # "none", aws' = after,
               status' = [status EXCEPT ![t] = s],
               taskDic' = taskDic \/ taskDic' = [taskDic EXCEPT ![t] = None]
        PROVE  HistoryInv'
    <2>1. s \in TaskStatus /\ s # "Progress" /\ s # "new"
      BY DEF TaskStatus
    <2> HIDE DEF a, t, TaskStatus, after
    <2> QED BY <1>2, <1>3, <1>4, <1>5, <1>8, <2>1, Changes
  <1>9. CASE aws[u].handler = "resume" /\ p_start(t, after) /\ UNCHANGED status
    <2>1. /\ after \in [Transfers -> AWSTask \cup {None}]
          /\ \A v \in Transfers : v # u => after[v] = aws[v]
          /\ after[u] = a /\ a # None
      BY <1>3, <1>4, NilAssumption DEF HistoryInv, TypeOK
    <2> HIDE DEF a, after
    <2>2. \A v \in Transfers :
                /\ after[v] = None <=> aws[v] = None
                /\ aws[v] # None => after[v].task = aws[v].task
                /\ aws[v] # None /\ aws[v].task # t => after[v] = aws[v]
      BY <1>1, <1>3, <2>1
    <2>3. loaded => \A v \in Transfers : Of(v, t) => after[v].state # "running"
      BY <1>2, <1>3, <2>1 DEF TaskInv, RunningIsFiled
    <2>4. Patient /\ KeyIsId /\ t \notin orphaned =>
                \A v \in Transfers : Of(v, t) => ~IsUnfinished(after[v])
      BY <1>2, <1>3, <1>9, <2>1 DEF TaskInv, UnfinishedIsFiled, IsUnfinished
    <2>5. Patient => loaded
      BY <1>2, <1>9
    <2> HIDE DEF t, TaskStatus
    <2> QED BY <1>2, <1>5, <1>6, <1>9, <2>1, <2>2, <2>3, <2>4, <2>5, Starts
  <1>10. CASE /\ aws[u].handler = "resume" /\ p_refuse(after)
              /\ status' = [status EXCEPT ![t] = "Failed"]
    BY <1>8, <1>10 DEF p_refuse
  <1> QED BY <1>1, <1>7, <1>8, <1>9, <1>10 DEF Handler

-----------------------------------------------------------------------------
LEMMA RelaunchKeeps ==
    ASSUME HistoryInv, Relaunch
    PROVE  HistoryInv'
  <1>1. PICK fate \in [{u \in Transfers : IsUnfinished(aws[u])} -> Fate] :
            aws' = [u \in Transfers |-> IF IsUnfinished(aws[u])
                                        THEN Recovered(aws[u], fate[u]) ELSE None]
    BY DEF Relaunch
  <1>2. \A u \in Transfers :
            /\ aws'[u] \in AWSTask \cup {None}
            /\ aws'[u] # None => /\ IsUnfinished(aws[u]) /\ aws[u] # None
                                 /\ aws'[u].task = aws[u].task /\ aws'[u].handler = "none"
    <2> SUFFICES ASSUME NEW u \in Transfers
                 PROVE  /\ aws'[u] \in AWSTask \cup {None}
                        /\ aws'[u] # None =>
                                /\ IsUnfinished(aws[u]) /\ aws[u] # None
                                /\ aws'[u].task = aws[u].task /\ aws'[u].handler = "none"
      OBVIOUS
    <2>1. CASE IsUnfinished(aws[u])
      <3>1. aws[u] # None /\ aws[u] \in AWSTask /\ fate[u] \in Fate
        BY <2>1 DEF IsUnfinished, HistoryInv, TypeOK
      <3> QED BY <1>1, <2>1, <3>1, RecoveredFacts
    <2>2. CASE ~IsUnfinished(aws[u])
      BY <1>1, <2>2
    <2> QED BY <2>1, <2>2
  <1>3. /\ loaded' = FALSE /\ working' = {} /\ early' = early /\ orphaned' = orphaned
        /\ \A n \in Names : taskDic'[n] = None
        /\ \A t \in Tasks : status'[t] # "Progress" /\ (status'[t] = "new" => status[t] = "new")
    BY DEF Relaunch
  <1>4. TypeOK'
    BY <1>1, <1>2 DEF Relaunch, HistoryInv, TypeOK
  <1>5. ASSUME NEW t \in Tasks PROVE TaskInv(t)'
    <2>1. TaskInv(t) /\ t \in Names
      BY DEF HistoryInv, Names
    <2>2. \A u \in Transfers : Of(u, t)' => Of(u, t) /\ IsUnfinished(aws[u])
                                            /\ aws'[u].handler = "none"
      BY <1>2 DEF Of
    <2>3. /\ EntryIsOfTask(t)' /\ ProgressWorks(t)' /\ RunningIsFiled(t)'
          /\ BeforeLoad(t)' /\ ProgressAt(t)'
      BY <1>3, <2>1, <2>2
      DEF EntryIsOfTask, ProgressWorks, RunningIsFiled, BeforeLoad, ProgressAt
    <2>4. ASSUME Patient, KeyIsId PROVE UnfinishedIsFiled(t)' /\ NewIsOver(t)'
      <3>1. UnfinishedIsFiled(t) /\ NewIsOver(t)
        BY <2>1, <2>4 DEF TaskInv
      <3>2. UnfinishedIsFiled(t)'
        BY <1>3, <2>2, <3>1 DEF UnfinishedIsFiled
      <3>3. NewIsOver(t)'
        BY <1>3, <2>2, <3>1 DEF NewIsOver
      <3> QED BY <3>2, <3>3
    <2> QED BY <2>3, <2>4 DEF TaskInv, KeyIsId
  <1> QED BY <1>3, <1>4, <1>5 DEF HistoryInv, EntriesExist

LEMMA LoadKeeps ==
    ASSUME HistoryInv, KeysApart, loadHistoryAWSTask
    PROVE  HistoryInv'
  <1>1. \A u \in Transfers :
            /\ aws'[u] \in AWSTask \cup {None}
            /\ aws'[u] = None <=> aws[u] = None
            /\ aws[u] # None => /\ aws'[u].task = aws[u].task /\ aws[u].task \in Tasks
                                /\ aws'[u].handler = aws[u].handler
                                /\ aws'[u].state # "running"
                                /\ IsUnfinished(aws'[u]) <=> IsUnfinished(aws[u])
    <2>1. \A u \in Transfers : aws'[u] = Suspended(aws[u]) /\ aws[u] \in AWSTask \cup {None}
      BY DEF loadHistoryAWSTask, AfterLoad, HistoryInv, TypeOK
    <2> QED BY <2>1, SuspendedFacts DEF AWSTask
  <1>2. /\ ~loaded /\ loaded' = TRUE /\ UNCHANGED <<status, working, early, orphaned>>
        /\ taskDic' \in [Names -> Transfers \cup {None}]
        /\ \A n \in Names : \/ taskDic'[n] \in Transfers /\ Filed(n, taskDic'[n])
                            \/ /\ taskDic'[n] = taskDic[n]
                               /\ \A u \in Transfers : ~Filed(n, u)
    <2>1. \A n \in Names : IF \E u \in Transfers : Filed(n, u)
                           THEN taskDic'[n] # None /\ Filed(n, taskDic'[n])
                           ELSE taskDic'[n] = taskDic[n]
      BY DEF loadHistoryAWSTask
    <2>2. taskDic' \in [Names -> Transfers \cup {None}]
      BY DEF loadHistoryAWSTask
    <2> QED BY <2>1, <2>2 DEF loadHistoryAWSTask
  <1>3. TypeOK'
    <2>1. aws' \in [Transfers -> AWSTask \cup {None}]
      BY <1>1 DEF loadHistoryAWSTask
    <2> QED BY <1>2, <2>1 DEF HistoryInv, TypeOK
  <1>4. EntriesExist'
    BY <1>1, <1>2 DEF HistoryInv, TypeOK, EntriesExist, Filed
  <1>5. ASSUME NEW t \in Tasks PROVE TaskInv(t)'
    <2>1. TaskInv(t) /\ t \in Names
      BY DEF HistoryInv, Names
    <2>2. \A u \in Transfers : /\ Of(u, t)' <=> Of(u, t)
                               /\ Of(u, t) => /\ aws'[u].state # "running"
                                              /\ IsUnfinished(aws'[u]) <=> IsUnfinished(aws[u])
      BY <1>1 DEF Of
    <2>3. \A u \in Transfers : Filed(t, u) => Of(u, t)
      BY <1>1 DEF KeysApart, Filed, Of
    <2>4. EntryIsOfTask(t)'
      <3>1. CASE taskDic'[t] \in Transfers /\ Filed(t, taskDic'[t])
        BY <2>2, <2>3, <3>1 DEF EntryIsOfTask, Of
      <3>2. CASE taskDic'[t] = taskDic[t]
        <4>1. EntryIsOfTask(t) /\ taskDic[t] \in Transfers \cup {None}
          BY <2>1 DEF TaskInv, HistoryInv, TypeOK
        <4> QED BY <2>2, <3>2, <4>1 DEF EntryIsOfTask, Of
      <3> QED BY <1>2, <2>1, <3>1, <3>2
    <2>5. ProgressWorks(t)' /\ RunningIsFiled(t)'
      BY <1>2, <2>1, <2>2 DEF TaskInv, ProgressWorks, RunningIsFiled
    <2>6. ASSUME Patient PROVE BeforeLoad(t)' /\ ProgressAt(t)'
      BY <1>2, <2>1, <2>6 DEF TaskInv, BeforeLoad, ProgressAt
    <2>7. ASSUME Patient, KeyIsId PROVE UnfinishedIsFiled(t)' /\ NewIsOver(t)'
      <3>1. UnfinishedIsFiled(t) /\ NewIsOver(t)
        BY <2>1, <2>7 DEF TaskInv
      <3>2. \A u \in Transfers : Filed(t, u) <=> Of(u, t)
        BY <1>1, <2>7 DEF KeyIsId, Filed, Of
      <3>3. UnfinishedIsFiled(t)'
        <4> SUFFICES ASSUME t \notin orphaned, NEW u \in Transfers, Of(u, t)'
                     PROVE  taskDic'[t] = u
          BY <1>2 DEF UnfinishedIsFiled
        <4>1. Filed(t, u) /\ Of(u, t)
          BY <2>2, <3>2
        <4>2. taskDic'[t] \in Transfers /\ Of(taskDic'[t], t)
          BY <1>2, <2>1, <3>2, <4>1
        <4> QED BY <1>2, <3>1, <4>1, <4>2 DEF UnfinishedIsFiled
      <3>4. NewIsOver(t)'
        BY <1>2, <2>2, <3>1 DEF NewIsOver
      <3> QED BY <3>3, <3>4
    <2> QED BY <2>4, <2>5, <2>6, <2>7 DEF TaskInv, KeyIsId
  <1> QED BY <1>3, <1>4, <1>5 DEF HistoryInv

LEMMA NextKeeps ==
    ASSUME HistoryInv, KeysApart, [Next]_historyVars
    PROVE  HistoryInv'
  <1>1. ASSUME NEW t \in Tasks,
               lc_startTask(t) \/ lc_resumTask(t) \/ lc_pauseTask(t) \/ lc_cancelTask(t)
        PROVE  HistoryInv'
    BY <1>1, StartKeeps, ResumeKeeps, PauseKeeps, CancelKeeps
  <1>2. ASSUME NEW u \in Transfers, Send(u) \/ Complete(u) \/ Break(u)
        PROVE  HistoryInv'
    <2>1. TRUE \in BOOLEAN /\ "completed" \in {"completed", "failed"}
                           /\ "failed" \in {"completed", "failed"}
      OBVIOUS
    <2> QED BY <1>2, <2>1, SendKeeps, EndsKeeps DEF Complete, Break
  <1>3. CASE Relaunch
    BY <1>3, RelaunchKeeps
  <1>4. CASE loadHistoryAWSTask
    BY <1>4, LoadKeeps
  <1>5. CASE UNCHANGED historyVars
    BY <1>5
    DEF historyVars, HistoryInv, TypeOK, EntriesExist, TaskInv, EntryIsOfTask, ProgressWorks,
        RunningIsFiled, BeforeLoad, ProgressAt, UnfinishedIsFiled, NewIsOver, Of, Runs, Mute,
        Names, IsUnfinished, KeyIsId
  <1> QED BY <1>1, <1>2, <1>3, <1>4, <1>5 DEF Next

-----------------------------------------------------------------------------
(* Whether or not the app waits for loadHistoryAWSTask, and whatever becomes *)
(* of the AWS tasks while there is no process: once it has run, no AWS task  *)
(* runs that a task in progress does not wait for.                           *)
THEOREM NothingRunsBehindTheApp ==
    ASSUME KeysApart
    PROVE  Spec => []NothingRunsUnasked
  <1>1. HistoryInv => NothingRunsUnasked
    <2> SUFFICES ASSUME HistoryInv, loaded, NEW u \in Transfers, aws[u] # None,
                        aws[u].state = "running"
                 PROVE  aws[u].handler # "none" /\ status[aws[u].task] = "Progress"
      BY DEF NothingRunsUnasked
    <2> QED BY RunningFacts
  <1> QED BY <1>1, InitHistory, NextKeeps, PTL DEF Spec

(* Of an app that waits for loadHistoryAWSTask, a task in progress has a    *)
(* transfer that runs and answers it, but in the three cases the property   *)
(* names.                                                                   *)
THEOREM ProgressIsBacked ==
    ASSUME Patient, KeysApart
    PROVE  Spec => []ProgressIsTransfer
  <1>1. HistoryInv => ProgressIsTransfer
    <2> SUFFICES ASSUME HistoryInv, NEW t \in Tasks, ProgressAt(t), status[t] = "Progress"
                 PROVE  \/ \E u \in Unfinished(t) : aws[u].state = "running"
                                                    /\ aws[u].handler # "none"
                        \/ t \in early
                        \/ Mute(taskDic[t])
      BY DEF HistoryInv, TaskInv, ProgressIsTransfer
    <2> QED BY DEF ProgressAt, Runs, Of, Unfinished, IsUnfinished
  <1> QED BY <1>1, InitHistory, NextKeeps, PTL DEF Spec

(* Where the fileKey is the taskId, and for every number of tasks and AWS   *)
(* tasks, a resume of a task that has an unfinished AWS task, also one of   *)
(* an earlier launch, makes no other, unless a cancel missed it once:       *)
(* loadHistoryAWSTask has filed it where lc_fileNetHanderResumUploadTask    *)
(* looks.                                                                   *)
THEOREM ResumeFindsTheTransfer ==
    ASSUME Patient, KeyIsId
    PROVE  Spec => ResumeContinues
  <1>1. KeysApart
    BY DEF KeyIsId, KeysApart
  <1>2. ASSUME HistoryInv, NEW t \in Tasks, lc_resumTask(t), Unfinished(t) # {},
               t \notin orphaned, NEW u \in Transfers, aws[u] = None
        PROVE  aws'[u] = None
    <2>1. loaded /\ TaskInv(t)
      BY <1>2 DEF lc_resumTask, MayCall, HistoryInv
    <2>2. PICK v \in Transfers : Of(v, t) /\ IsUnfinished(aws[v])
      BY <1>2 DEF Unfinished, Of, IsUnfinished
    <2>3. v = taskDic[t]
      BY <1>2, <2>1, <2>2 DEF TaskInv, UnfinishedIsFiled
    <2>4. ~Gone(v) /\ aws[v].state # "completed" /\ v # u
      BY <1>2, <2>2, HistoryAssumption DEF Gone, IsUnfinished, Of
    <2>5. TakeUp(t, v)
      BY <1>2, <2>3, <2>4 DEF lc_resumTask
    <2> QED BY <1>2, <2>4, <2>5 DEF TakeUp, HistoryInv, TypeOK
  <1>3. HistoryInv /\ [Next]_historyVars
            => [\A t \in Tasks : lc_resumTask(t) /\ Unfinished(t) # {} /\ t \notin orphaned
                    => \A u \in Transfers : aws[u] = None => aws'[u] = None]_historyVars
    BY <1>2
  <1>4. HistoryInv /\ [Next]_historyVars => HistoryInv'
    BY <1>1, NextKeeps
  <1> QED BY <1>3, <1>4, InitHistory, PTL DEF Spec, ResumeContinues
=============================================================================
