---------------------------- MODULE MCReverseTasks ----------------------------
(* Instances of ReverseTasks for TLC: the tasks are interchangeable.            *)
EXTENDS ReverseTasks, TLC

TaskSymmetry == Permutations(Tasks)

Setting(tasks, n, checks, faults) == [tasks |-> tasks, runs |-> n, attempts |-> checks, faults |-> faults]

(* One task whose checks fail, are repeated on request, or are cancelled *)
Requests == {Setting({t}, 1, 2, {"launch", "refresh", "error", "cancel", "crash"}) : t \in Tasks}
(* One task and everything that may go wrong *)
Trouble == {Setting({t}, 1, 1, FaultKinds) : t \in Tasks}
(* Two tasks that meet over one run of the sync, or over two *)
Two == {Setting(Tasks, 1, 1, {"error"}), Setting(Tasks, 2, 0, {"error"})}
AllSettings == Requests \cup Trouble \cup Two

(* One task, for liveness *)
Polling == {Setting(Tasks, 1, 2, {"error", "launch", "crash"})}
(* A user's requests and final verdicts, for two tasks *)
Verdicts == {Setting(Tasks, 1, 2, {"refresh", "verdict"})}
(* ... and what makes a check end as a failure of its task *)
Failures == {Setting(Tasks, 1, 2, {"refresh", kind}) : kind \in {"verdict", "report"}}
(* One task, one kind of interruption *)
Interruptions == {Setting(Tasks, 1, 1, {kind}) : kind \in {"crash", "signal", "cancel"}}
=============================================================================
