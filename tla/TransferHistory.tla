--------------------------- MODULE TransferHistory ---------------------------
(***************************************************************************)
(* Transfers that outlive the process.  The AWS transfer utility keeps its  *)
(* tasks in a database and hands them out again after a launch;             *)
(* loadHistoryAWSTask (LCS3Hander.m) suspends them and files them in        *)
(* taskDic under their fileKey, when the utility reports that it has        *)
(* recovered them: some time after the handler was made.  start, pause,     *)
(* resume and cancel look in taskDic for the taskId.                        *)
(*                                                                          *)
(* A public call is one step here, the main of its operation included; what *)
(* may come between its parts is the business of LCFileNetService.  Copies  *)
(* that stand for a transfer are that of InstantTransfer.                   *)
(***************************************************************************)
EXTENDS Naturals

CONSTANTS
    Tasks,      \* taskIds
    FileKey,    \* task -> its fileKey; may be the taskId
    Transfers,  \* AWS tasks that may be made (bound)
    Size,       \* pieces of a file
    Patient,    \* whether the app waits for loadHistoryAWSTask
    None        \* "nil"

ASSUME HistoryAssumption ==
    /\ None \notin Transfers \cup Tasks
    /\ DOMAIN FileKey = Tasks
    /\ Size \in Nat
    /\ Patient \in BOOLEAN

VARIABLES
    aws,        \* the AWS tasks, in this launch or in the utility's database
    taskDic,    \* LCS3Hander's taskDic: taskId or fileKey -> AWS task
    status,     \* what the service knows of a task
    working,    \* tasks with an operation of this launch that was not paused
    loaded,     \* loadHistoryAWSTask has run in this launch
    early,      \* ghost: tasks whose last start or resume was answered inside
                \* the call, so that p_notifyStart stored Progress over it
    orphaned    \* ghost: tasks whose cancel left them an unfinished AWS task

historyVars == <<aws, taskDic, status, working, loaded, early, orphaned>>

Names == Tasks \cup {FileKey[t] : t \in Tasks}

(* The status of an AWS task.  One that was in progress, and that the       *)
(* session no longer knows when the utility recovers, becomes unknown.      *)
AWSState == {"running", "paused", "completed", "failed", "cancelled", "unknown"}

(* `handler': whose completion handler the AWS task has in this launch, one *)
(* that a start or one that a resume gave it.                               *)
AWSTask == [task : Tasks, state : AWSState, sent : 0..Size,
            handler : {"none", "start", "resume"}]
ASSUME NilAssumption == None \notin AWSTask

TypeOK ==
    /\ aws \in [Transfers -> AWSTask \cup {None}]
    /\ taskDic \in [Names -> Transfers \cup {None}]
    /\ status \in [Tasks -> {"new", "Progress", "Pause", "Interrupt", "Failed", "Finish"}]
    /\ working \subseteq Tasks
    /\ loaded \in BOOLEAN
    /\ early \subseteq Tasks /\ orphaned \subseteq Tasks

Init ==
    /\ aws = [u \in Transfers |-> None]
    /\ taskDic = [n \in Names |-> None]
    /\ status = [t \in Tasks |-> "new"]
    /\ working = {}
    /\ loaded = FALSE
    /\ early = {} /\ orphaned = {}

IsUnfinished(a) == a # None /\ a.state \in {"running", "paused"}

Unfinished(t) == {u \in Transfers : IsUnfinished(aws[u]) /\ aws[u].task = t}

MayCall == Patient => loaded

(* There is no AWS task, or it has failed. *)
Gone(u) == IF u = None THEN TRUE ELSE aws[u].state = "failed"

(* AWSS3TransferUtilityTask suspend. *)
Suspended(a) == IF a # None /\ a.state = "running" THEN [a EXCEPT !.state = "paused"] ELSE a

-----------------------------------------------------------------------------
(* p_startUpload, p_startDownload, when `transfers' are the AWS tasks: a    *)
(* new one, filed under the taskId ...                                      *)
p_start(t, transfers) ==
    \E u \in Transfers :
        /\ transfers[u] = None
        /\ aws' = [transfers EXCEPT ![u] = [task |-> t, state |-> "running",
                                            sent |-> 0, handler |-> "start"]]
        /\ taskDic' = [taskDic EXCEPT ![t] = u]

(* ... or an error: no fileKey or file, or the utility refuses.             *)
p_refuse(transfers) == aws' = transfers /\ UNCHANGED taskDic

(* The operation's main: it starts a transfer, or its finish block runs     *)
(* inside the call; p_notifyStart then stores Progress.                     *)
StartAnew(t) ==
    /\ \/ p_start(t, aws) /\ early' = early \ {t}
       \/ p_refuse(aws) /\ early' = early \cup {t}
    /\ status' = [status EXCEPT ![t] = "Progress"]

lc_startTask(t) ==
    /\ MayCall /\ status[t] = "new"
    /\ StartAnew(t)
    /\ working' = working \cup {t}
    /\ UNCHANGED <<loaded, orphaned>>

(* The AWS task u gets the blocks of the new operation and goes on, if it   *)
(* was paused; of one in any other state nothing happens.                   *)
TakeUp(t, u) ==
    /\ aws' = [aws EXCEPT ![u].handler = "resume",
                          ![u].state = IF @ = "paused" THEN "running" ELSE @]
    /\ status' = [status EXCEPT ![t] = "Progress"]
    /\ early' = early \ {t}
    /\ UNCHANGED taskDic

(* setCompletionHandler of a completed AWS task calls the handler: at once, *)
(* or, for an upload, when the url is there.  Without the url a new         *)
(* transfer is started.                                                     *)
TakeUpCompleted(t) ==
    \/ /\ p_start(t, aws)
       /\ status' = [status EXCEPT ![t] = "Progress"]
       /\ early' = early \ {t}
    \/ /\ UNCHANGED <<aws, taskDic>>
       /\ \/ status' = [status EXCEPT ![t] = "Progress"] /\ early' = early \cup {t}
          \/ /\ status' \in {[status EXCEPT ![t] = s] : s \in {"Finish", "Failed"}}
             /\ early' = early \ {t}

(* lc_fileNetHanderResumUploadTask, lc_fileNetHanderResumDownloadTask: the  *)
(* AWS task in taskDic goes on for the new operation.  Without one, or when *)
(* it had failed, the operation starts a new transfer.                      *)
lc_resumTask(t) ==
    LET u == taskDic[t]
    IN  /\ MayCall /\ status[t] \in {"Pause", "Interrupt", "Failed"}
        /\ \/ Gone(u) /\ StartAnew(t)
           \/ ~Gone(u) /\ aws[u].state # "completed" /\ TakeUp(t, u)
           \/ ~Gone(u) /\ aws[u].state = "completed" /\ TakeUpCompleted(t)
        /\ working' = working \cup {t}
        /\ UNCHANGED <<loaded, orphaned>>

(* lc_pauseTask, lc_fileNetHanderPauseTask.  (Of a task that is not in      *)
(* progress a pause would change no more than the name of its status.)      *)
lc_pauseTask(t) ==
    LET u == taskDic[t]
    IN  /\ MayCall /\ status[t] = "Progress"
        /\ aws' = IF u = None THEN aws ELSE [aws EXCEPT ![u] = Suspended(@)]
        /\ status' = [status EXCEPT ![t] = "Pause"]
        /\ working' = working \ {t}
        /\ UNCHANGED <<taskDic, loaded, early, orphaned>>

(* What cancel makes of the AWS tasks: an operation that was paused, or     *)
(* that belongs to an earlier launch, does not ask the handler.             *)
AfterCancel(t) ==
    IF t \in working /\ ~Gone(taskDic[t])
    THEN [aws EXCEPT ![taskDic[t]].state = "cancelled"]
    ELSE aws

(* lc_cancelTask, lc_fileNetHanderCancelTask: the task is forgotten, the    *)
(* entry of taskDic is not.                                                 *)
lc_cancelTask(t) ==
    /\ MayCall /\ status[t] \in {"Progress", "Pause", "Interrupt", "Failed"}
    /\ aws' = AfterCancel(t)
    /\ status' = [status EXCEPT ![t] = "new"]
    /\ working' = working \ {t}
    /\ orphaned' = IF \E u \in Transfers : IsUnfinished(aws'[u]) /\ aws'[u].task = t
                   THEN orphaned \cup {t} ELSE orphaned
    /\ UNCHANGED <<taskDic, loaded, early>>

-----------------------------------------------------------------------------
(* The transfer utility: a running AWS task sends, then ends.               *)
Send(u) ==
    /\ aws[u] # None /\ aws[u].state = "running" /\ aws[u].sent < Size
    /\ aws' = [aws EXCEPT ![u].sent = @ + 1]
    /\ UNCHANGED <<taskDic, status, working, loaded, early, orphaned>>

(* The completion handler of u, which ended in `state'.  The one a start    *)
(* gave it reports the result and forgets the entry; the one a resume gave  *)
(* it leaves the entry, and starts a new transfer on an error; the error    *)
(* may also be that there is no url.                                        *)
Handler(u, state, err) ==
    LET t == aws[u].task
        after == [aws EXCEPT ![u].state = state]
    IN  \/ /\ aws[u].handler = "none"
           /\ aws' = after
           /\ UNCHANGED <<status, taskDic>>
        \/ /\ aws[u].handler = "start"
           /\ aws' = after
           /\ status' = [status EXCEPT ![t] = IF err THEN "Failed" ELSE "Finish"]
           /\ taskDic' = [taskDic EXCEPT ![t] = None]
        \/ /\ aws[u].handler = "resume" /\ ~err
           /\ aws' = after
           /\ status' = [status EXCEPT ![t] = "Finish"]
           /\ UNCHANGED taskDic
        \/ /\ aws[u].handler = "resume" /\ err
           /\ \/ p_start(t, after) /\ UNCHANGED status
              \/ p_refuse(after) /\ status' = [status EXCEPT ![t] = "Failed"]

EndsAs(u, state, err) ==
    /\ aws[u] # None /\ aws[u].state = "running"
    /\ Handler(u, state, err)
    /\ UNCHANGED <<working, loaded, early, orphaned>>

Complete(u) == aws[u] # None /\ aws[u].sent = Size /\ \E err \in BOOLEAN : EndsAs(u, "completed", err)

(* Mutant: a failure is not reported. *)
Break_Silent(u) ==
    /\ aws[u] # None /\ aws[u].state = "running"
    /\ aws' = [aws EXCEPT ![u].state = "failed"]
    /\ UNCHANGED <<taskDic, status, working, loaded, early, orphaned>>

Break(u) == EndsAs(u, "failed", TRUE)

-----------------------------------------------------------------------------
(* What the utility recovers of an AWS task: nothing once it ended.  One    *)
(* the session still has goes on, stays paused or has failed meanwhile; one *)
(* it has not is made again from the beginning if it can be, else it        *)
(* becomes unknown, and stays among the tasks the utility returns.          *)
Fate == {"kept", "anew", "failed", "unknown"}

Recovered(a, fate) ==
    [a EXCEPT !.handler = "none",
              !.sent = IF fate = "anew" THEN 0 ELSE @,
              !.state = IF fate \in {"failed", "unknown"} THEN fate ELSE @]

(* The app is killed and launched again: nobody has given blocks to what    *)
(* the utility goes on with, and what was in progress is interrupted.  (A   *)
(* transfer that ended while there was no process ends right afterwards.)   *)
Relaunch ==
    /\ \E fate \in [{u \in Transfers : IsUnfinished(aws[u])} -> Fate] :
            aws' = [u \in Transfers |-> IF IsUnfinished(aws[u])
                                        THEN Recovered(aws[u], fate[u]) ELSE None]
    /\ taskDic' = [n \in Names |-> None]
    /\ status' = [t \in Tasks |-> IF status[t] = "Progress" THEN "Interrupt" ELSE status[t]]
    /\ working' = {}
    /\ loaded' = FALSE
    /\ UNCHANGED <<early, orphaned>>

(* Mutant: the transfers are not suspended. *)
AfterLoad_Runs(u) == aws[u]

(* What loadHistoryAWSTask does to an AWS task. *)
AfterLoad(u) == Suspended(aws[u])

(* Mutant: the transfers are not filed. *)
Filed_NotAtAll(n, u) == FALSE

(* u is filed under n. *)
Filed(n, u) == aws[u] # None /\ FileKey[aws[u].task] = n

(* loadHistoryAWSTask: every task of the utility, the ones that were        *)
(* started in this launch included.  Of several with a fileKey one stays.   *)
loadHistoryAWSTask ==
    /\ ~loaded
    /\ aws' = [u \in Transfers |-> AfterLoad(u)]
    /\ taskDic' \in {d \in [Names -> Transfers \cup {None}] :
                        \A n \in Names :
                            IF \E u \in Transfers : Filed(n, u)
                            THEN d[n] # None /\ Filed(n, d[n])
                            ELSE d[n] = taskDic[n]}
    /\ loaded' = TRUE
    /\ UNCHANGED <<status, working, early, orphaned>>

Next ==
    \/ \E t \in Tasks : \/ lc_startTask(t) \/ lc_resumTask(t)
                        \/ lc_pauseTask(t) \/ lc_cancelTask(t)
    \/ \E u \in Transfers : Send(u) \/ Complete(u) \/ Break(u)
    \/ Relaunch
    \/ loadHistoryAWSTask

Spec == Init /\ [][Next]_historyVars

-----------------------------------------------------------------------------
(* Once the history is loaded, nothing runs behind the app's back: a        *)
(* transfer that runs is one that a task in progress waits for.             *)
NothingRunsUnasked ==
    loaded => \A u \in Transfers :
        aws[u] # None /\ aws[u].state = "running" =>
            aws[u].handler # "none" /\ status[aws[u].task] = "Progress"

(* A task that is resumed goes on with the transfer it had, instead of      *)
(* making another one (README.md:2 and 3, "supports resuming uploads from   *)
(* the breakpoint", "supports resuming downloads from the breakpoint").     *)
(* Excepted is a task that was cancelled while it was paused: the cancel    *)
(* does not reach its transfer, which gets in the way of the next one.  How *)
(* much had been sent is not said: the utility may begin again.             *)
ResumeContinues ==
    [][\A t \in Tasks : lc_resumTask(t) /\ Unfinished(t) # {} /\ t \notin orphaned
            => \A u \in Transfers : aws[u] = None => aws'[u] = None]_historyVars

(* The states in which an AWS task neither runs nor calls a handler that it *)
(* is given.                                                                *)
Mute(u) == IF u = None THEN FALSE ELSE aws[u].state \in {"unknown", "cancelled"}

(* A task that is in progress (LCFileNetTask.h:13) has a transfer that runs *)
(* and that answers it, over relaunches, resumes of what was suspended, and *)
(* resumed transfers that fail and are started again.  There are three ways *)
(* to be in progress without one: the handler answered inside the call, a   *)
(* resume took up a transfer that became unknown, or one that was cancelled.*)
ProgressIsTransfer ==
    \A t \in Tasks : status[t] = "Progress" =>
        \/ \E u \in Unfinished(t) : aws[u].state = "running" /\ aws[u].handler # "none"
        \/ t \in early
        \/ Mute(taskDic[t])
=============================================================================
