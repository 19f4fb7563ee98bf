------------------------ MODULE MCLCFileNetService ------------------------
(* Model-checking instance of LCFileNetService.                            *)
EXTENDS LCFileNetService, TLC

CONSTANTS t1, t2, o1, o2, o3, o4, p1, p2, p3

OneTask == {t1}
TwoTasks == {t1, t2}
OneObject == {o1}
TwoObjects == {o1, o2}
ThreeObjects == {o1, o2, o3}
TwoOperations == {p1, p2}
ThreeOperations == {p1, p2, p3}

(* Instances are interchangeable: none is named in the specification.      *)
Symmetry2 == Permutations(TwoObjects) \cup Permutations(TwoOperations)

(* The bound of the run with two operations at once: a task that is paused  *)
(* has one instance, and lc_pauseAllTask, which for one task is a pause     *)
(* that comes a little later, is left to the other runs.                    *)
PauseBound ==
    /\ main.todo = {}
    /\ (\A o \in Objects : task[o].id # None) => main.pausing = None

(* The bound of the run with relaunches: a second operation starts after    *)
(* the first has ended, so that it may take over a finished AWS task.       *)
Ended(p) == op[p].cb = "over" /\ op[p].thread = "done"
OneAfterTheOther ==
    \A p, q \in Operations :
        p # q /\ op[p].thread # "none" /\ op[q].thread # "none" =>
            Ended(p) \/ Ended(q)
=============================================================================
