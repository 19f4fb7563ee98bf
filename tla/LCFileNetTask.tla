--------------------------- MODULE LCFileNetTask ---------------------------
(***************************************************************************)
(* A transfer task (LCFileNetTask.h/.m) and the table the tasks are kept    *)
(* in (LCFileTaskDB.mm, a WCDB/SQLite table whose primary key is taskId).   *)
(*                                                                          *)
(* File names, urls, sizes and digests are left out: what the service and   *)
(* its operations branch on is the task's identity, its type and its        *)
(* status, and whether it carries completion blocks.                        *)
(***************************************************************************)

CONSTANTS
    TaskIds,     \* the taskId strings
    None         \* "nil"

(* LCFileNetTaskType and LCFileNetTaskStatus.  StatusUnkown is never        *)
(* assigned anywhere, so it is not a value of the model.                    *)
TaskType == {"Unknown", "Upload", "Download"}
TaskStatus == {"Create", "Progress", "Finish", "Failed", "Canceled", "Pause",
               "Interrupt"}

(* A task in memory.  `blocks' says whether the caller attached the three   *)
(* callback blocks to it: an object read back from the database has none.   *)
TaskObject == [id : TaskIds \cup {None}, type : TaskType,
               status : TaskStatus, blocks : BOOLEAN]
NoObject == [id |-> None, type |-> "Unknown", status |-> "Create",
             blocks |-> FALSE]

(* The statuses that make lc_startTask enqueue a known task again, and that *)
(* make the operation try to resume a transfer before starting a new one.   *)
Restartable == {"Pause", "Failed", "Interrupt"}

(* Mutants: the wrong marker; no marker at all.                             *)
AfterReload_Unkown(status) ==
    IF status \in {"Create", "Progress"} THEN "Unkown" ELSE status
AfterReload_Verbatim(status) == status

(* What a status read back from the database means after a launch: a task   *)
(* recorded as waiting or running was interrupted.                          *)
AfterReload(status) ==
    IF status \in {"Create", "Progress"} THEN "Interrupt" ELSE status

-----------------------------------------------------------------------------
(* The table: one optional row per taskId.                                  *)
Row == [type : TaskType, status : TaskStatus]
Table == [TaskIds -> Row \cup {None}]

ASSUME NoneAssumption == None \notin TaskIds \cup Row

(* lc_updateTask:status: an UPDATE ... WHERE taskId = id, nothing without a row. *)
lc_updateTask(table, id, status) ==
    IF table[id] = None THEN table
    ELSE [table EXCEPT ![id] = [type |-> table[id].type, status |-> status]]

(* Mutant: a save that only updates. *)
lc_saveTask_UpdateOnly(table, t) == lc_updateTask(table, t.id, t.status)

(* lc_saveTask: INSERT OR REPLACE of the whole row. *)
lc_saveTask(table, t) ==
    [table EXCEPT ![t.id] = [type |-> t.type, status |-> t.status]]

(* lc_deleteTaskByTaskId *)
lc_deleteTaskByTaskId(table, id) == [table EXCEPT ![id] = None]

(* lc_getTaskByTaskId: a new object carrying the row's columns, no blocks. *)
lc_getTaskByTaskId(table, id) ==
    [id |-> id, type |-> table[id].type, status |-> table[id].status,
     blocks |-> FALSE]
=============================================================================
