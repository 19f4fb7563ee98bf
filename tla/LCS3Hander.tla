----------------------------- MODULE LCS3Hander -----------------------------
(***************************************************************************)
(* The S3 handler (LCS3Hander.m) over AWSS3TransferUtility.  taskDic keeps, *)
(* per taskId, the AWS transfer registered last; a transfer is named by the *)
(* operation whose finish block it calls, and its state is that operation's *)
(* field `transfer':                                                        *)
(*   starting   the transfer utility was asked, the AWS task is not in      *)
(*              taskDic yet;                                                *)
(*   copying    an object or a file that is already there is being copied,  *)
(*              in no dictionary;                                           *)
(*   running, paused, cancelled, completed, failed                          *)
(*              the status of the AWS task;                                 *)
(*   lost       no transfer will call this operation's finish block.        *)
(* An entry whose operation has gone on to a new transfer stands for the    *)
(* AWS task it had before, which failed or whose object has no url.         *)
(*                                                                          *)
(* The operators give what a call makes of the operation's record, or the   *)
(* set of what it may make of it.                                           *)
(***************************************************************************)
TransferState ==
    {"none", "starting", "copying", "running", "paused", "cancelled",
     "completed", "failed", "lost"}

(* AWSS3TransferUtilityTask cancel: whatever had not failed is cancelled,   *)
(* and a cancelled task never calls its completion handler.                 *)
AfterCancel(state) ==
    IF state \in {"running", "paused", "completed"} THEN "cancelled" ELSE state

(* AWSS3TransferUtilityTask suspend. *)
AfterSuspend(state) == IF state = "running" THEN "paused" ELSE state

(* The finish block is called with an error although nothing was started.   *)
AnswerError(o, sync) ==
    [o EXCEPT !.cb = "setStatus", !.err = TRUE, !.sync = sync,
              !.resumed = FALSE, !.transfer = "lost"]

(* Mutant: the early return after the error is missing.                     *)
p_startTransfer_GoesOn(o, sync) ==
    {[AnswerError(o, sync) EXCEPT !.transfer = "starting"],
     [o EXCEPT !.resumed = FALSE, !.transfer = "starting"]}

(* p_startUpload / p_startDownload: a missing key or file is answered with  *)
(* an error inside the call, else the transfer utility is asked.            *)
p_startTransfer(o, sync) ==
    {AnswerError(o, sync), [o EXCEPT !.resumed = FALSE, !.transfer = "starting"]}

(* lc_fileNetHanderUpload / lc_fileNetHanderDownload: when the database     *)
(* knows a finished task with the same content it is copied.                *)
HanderStart(o, sync) ==
    p_startTransfer(o, sync)
        \cup {[o EXCEPT !.resumed = FALSE, !.transfer = "copying"]}

(* lc_fileNetHanderResumUploadTask / lc_fileNetHanderResumDownloadTask with *)
(* an entry in that state in taskDic: the AWS task gets the new operation's *)
(* blocks, and a completed one calls its completion handler at once.  That  *)
(* of a download calls the finish block, that of an upload asks for the url *)
(* of the object first, whose answer comes later.                           *)
TakenOver == {"running", "paused", "cancelled", "completed"}

HanderResum(o, state, upload) ==
    IF state = "completed"
    THEN [o EXCEPT !.cb = IF upload THEN "askUrl" ELSE "setStatus",
                   !.err = FALSE, !.sync = ~upload,
                   !.resumed = TRUE, !.transfer = "completed"]
    ELSE [o EXCEPT !.resumed = TRUE,
                   !.transfer = IF state = "cancelled" THEN "cancelled"
                                ELSE "running"]
=============================================================================
