------------------------------ MODULE MCCaller ------------------------------
(* LCFileNetService under a caller that makes only some of the public       *)
(* calls, which keeps the liveness questions within reach: CallerCalls says *)
(* what the caller does besides starting new tasks.                         *)
EXTENDS MCLCFileNetService

CONSTANT CallerCalls

Call ==
    \/ \E o \in Objects, id \in TaskIds, type \in Types, q \in Queues :
            StartFresh(o, id, type, q, TRUE)
    \/ /\ "resume" \in CallerCalls
       /\ \E id \in TaskIds, q \in Queues : lc_resumTask(id, q, TRUE)
    \/ "pause" \in CallerCalls /\ \E id \in TaskIds : lc_pauseTask(id)
    \/ "cancel" \in CallerCalls /\ \E id \in TaskIds : lc_cancelTask(id)

NextCaller ==
    \/ Call
    \/ MainStep
    \/ \E p \in Operations : OpThread(p) \/ TransferThread(p)

(* Operations are interchangeable: it is enough that p1 is made first.      *)
FirstIsP1 == \A p \in Operations : op[p].thread # "none" => op[p1].thread # "none"

FairCaller == Init /\ [][NextCaller]_vars /\ Fairness
=============================================================================
