----------------------------- MODULE ReverseTasks -----------------------------
(***************************************************************************)
(* The task records of one reverse-ETL sync and the Pods that work on them. *)
(* A manual or scheduled Pod creates a task; when the provider still has to *)
(* finish, the task waits and the sync controller launches one recovery Pod *)
(* per status check, under a name derived from the task and the number of   *)
(* the check.  The runner writes the task row under its worker name; the    *)
(* controller cancels, requests checks, closes tasks whose heartbeat is old *)
(* and records the failures of Pods it hears of, possibly late.             *)
(*                                                                          *)
(* What a Pod delivers is reduced to its effect on the logical run: still   *)
(* open, detached, or ended.  ReverseDelivery has the details.              *)
(***************************************************************************)
EXTENDS Integers, Sequences, FiniteSets

CONSTANTS
    Tasks,       \* task identifiers
    MaxRuns,     \* bound on logical runs
    MaxPolls,    \* checks until the 24-hour deadline of a schedule
    MaxAttempt,  \* bound on the number of a check
    Settings,    \* the circumstances to consider
    None         \* absence: no row, worker, schedule or holder

FaultKinds ==
    {"crash",    \* a Pod dies
     "stall",    \* a Pod hangs: no heartbeat, no lease renewal, later it may go on
     "signal",   \* a Pod is told to stop although its task goes on
     "launch",   \* Kubernetes refuses or loses the creation of a recovery Pod
     "cancel",   \* a user cancels
     "refresh",  \* a user asks for a status check
     "error",    \* a check or a delivery fails
     "verdict",  \* ... for good: the provider's last word, a rejected row, a lost state
     "report",   \* a renewal of the lease or a heartbeat fails although neither is lost
     "database"} \* the row of a waiting task cannot be written the first time

ASSUME ConstantsAssumption ==
    /\ IsFiniteSet(Tasks) /\ MaxRuns \in Nat /\ MaxPolls \in Nat /\ MaxAttempt \in Nat
    /\ Settings \subseteq [tasks : SUBSET Tasks, runs : 0 .. MaxRuns, attempts : 0 .. MaxAttempt, faults : SUBSET FaultKinds]

VARIABLES
    setting,  \* the tasks, runs and checks of this behaviour and what may go wrong in it
    task,     \* source_task: per task the row, or None
    runs,     \* reverse_sync_control: the logical runs, reduced to ended and detached
    pod,      \* the Pods: <<t, -1>> is the one that creates task t, <<t, n>> its n-th check
    lease,    \* holder of the Kubernetes lease of the sync, or None
    scanned,  \* checks the controller has read as due and not launched yet
    asked,    \* history: stopped tasks a user asked to check, until a check tells something new
    starts,   \* history: how often each Pod has started its check
    overtaken \* history: tasks with a schedule of their own that waited on with another task's

state == <<task, runs, pod, lease, scanned, asked, starts, overtaken>>
vars == <<setting, state>>

Faults == setting.faults
Pods == Tasks \X (-1 .. MaxAttempt)
Terminal == {"COMPLETE", "FAILED", "CANCELLED"}
Statuses == {"RUNNING", "PENDING"} \cup Terminal
Checkable == {"PENDING", "FAILED", "CANCELLED"}   \* a user may ask for a check

(* task.recovery: the run, the number of the next check, the checks left, whether *)
(* its time has come, and the status to restore when an explicit check fails      *)
Schedules ==
    [run : Nat, attempt : Nat, left : 0 .. MaxPolls, due : BOOLEAN, suspended : BOOLEAN,
     previous : Checkable \cup {None}]

(* A row of source_task: order of creation, status, worker and whether it has    *)
(* signed off, the status before its check, and the schedule                     *)
TaskRows ==
    [seq : Nat, status : Statuses, worker : Pods \cup {None}, active : BOOLEAN,
     previous : Checkable \cup {None}, sched : Schedules \cup {None}]

ASSUME NoneAssumption == None \notin Pods \cup Statuses \cup Schedules \cup TaskRows

NoPod == [pc |-> "absent", run |-> 0, changed |-> FALSE, lost |-> FALSE, stalled |-> FALSE, stop |-> FALSE]

Init ==
    /\ setting \in Settings
    /\ task = [t \in Tasks |-> None]
    /\ runs = <<>>
    /\ pod = [p \in Pods |-> NoPod]
    /\ lease = None
    /\ scanned = {}
    /\ asked = {}
    /\ starts = [p \in Pods |-> 0]
    /\ overtaken = {}

Exists(t) == task[t] # None
Scheduled(t) == Exists(t) /\ task[t].sched # None
Active(t) == Exists(t) /\ task[t].active
Open(r) == r \in DOMAIN runs /\ ~runs[r].ended

(* The row's worker is this Pod and it has not signed off *)
Owns(p) == Active(p[1]) /\ task[p[1]].worker = p

(* A faulty variant: checks never run out *)
NextCheck_NoDeadline(s, r) ==
    IF s = None THEN [run |-> r, attempt |-> 0, left |-> MaxPolls, due |-> FALSE,
                      suspended |-> FALSE, previous |-> None]
    ELSE [s EXCEPT !.attempt = @ + 1, !.due = FALSE, !.suspended = FALSE, !.previous = None]

(* nextRecoveryCheck(): the following check, or None behind the deadline *)
NextCheck(s, r) ==
    IF s = None THEN [run |-> r, attempt |-> 0, left |-> MaxPolls, due |-> FALSE,
                      suspended |-> FALSE, previous |-> None]
    ELSE IF s.left = 0 THEN None
    ELSE [s EXCEPT !.attempt = @ + 1, !.left = @ - 1, !.due = FALSE, !.suspended = FALSE,
                   !.previous = None]

Live(p) == pod[p].pc \in {"queued", "leased", "working", "delivered", "waiting"} /\ ~pod[p].stalled

(* The order of creation of the tasks *)
NextSeq == Cardinality({t \in Tasks : Exists(t)})

(* A row written by the controller for a task no Pod has created *)
ControllerRow(status) ==
    [seq |-> NextSeq, status |-> status, worker |-> None, active |-> FALSE, previous |-> None, sched |-> None]

Goto(p, pc) == pod' = [pod EXCEPT ![p].pc = pc]
Die(p) == pod' = [pod EXCEPT ![p] = [NoPod EXCEPT !.pc = "dead"]]

-----------------------------------------------------------------------------
(* Launching Pods.                                                           *)

(* POST run of the console, or the CronJob: a Pod for a new task *)
LaunchRun(t) ==
    /\ t \in setting.tasks /\ ~Exists(t) /\ pod[<<t, -1>>].pc = "absent"
    /\ \A u \in Tasks : Exists(u) => task[u].status # "RUNNING"
    /\ pod' = [pod EXCEPT ![<<t, -1>>] = [NoPod EXCEPT !.pc = "queued"]]
    /\ UNCHANGED <<task, runs, lease, scanned, asked, starts, overtaken>>

(* The schedule of a task may be checked now *)
Due(t) ==
    /\ Scheduled(t) /\ task[t].status = "PENDING" /\ ~task[t].sched.suspended /\ ~Active(t)
    /\ Open(task[t].sched.run) /\ task[t].sched.due

(* The controller's scan reads the due checks ... *)
Scan(t) ==
    /\ Due(t) /\ <<t, task[t].sched.attempt>> \in (Tasks \X (0 .. setting.attempts)) \ scanned
    /\ scanned' = scanned \cup {<<t, task[t].sched.attempt>>}
    /\ UNCHANGED <<task, runs, pod, lease, asked, starts, overtaken>>

(* recordReverseRefreshFailure(): the failure of a recovery Pod is recorded  *)
(* on the task, unless the Pod is neither its worker nor its queued check    *)
Blamable(p, allowActive) ==
    LET t == p[1] IN
    /\ Scheduled(t) /\ task[t].status = "PENDING"
    /\ IF task[t].active THEN allowActive /\ task[t].worker = p
                         ELSE task[t].worker # p /\ p[2] = task[t].sched.attempt

Blamed(p) ==
    LET row == task[p[1]]
        s == row.sched
        before == IF row.active /\ row.previous # None THEN row.previous
                  ELSE IF s.previous # None THEN s.previous ELSE row.status IN
    [row EXCEPT !.status = before, !.worker = p, !.active = FALSE, !.previous = None,
                !.sched = [s EXCEPT !.attempt = @ + 1, !.left = IF @ = 0 THEN 0 ELSE @ - 1,
                                    !.due = FALSE, !.previous = None,
                                    !.suspended = @ \/ s.left = 0]]

(* What becomes of `asked` when a check ends *)
AskedAfter(t, status) == IF status \in Terminal THEN asked \ {t} ELSE asked

(* ... and launches them, later; the name makes a second creation harmless *)
LaunchCheck(p) ==
    /\ p \in scanned
    /\ scanned' = scanned \ {p}
    /\ \/ /\ pod' = IF pod[p].pc = "absent" THEN [pod EXCEPT ![p] = [NoPod EXCEPT !.pc = "queued"]] ELSE pod
          /\ UNCHANGED <<task, asked>>
       \/ /\ "launch" \in Faults
          /\ \/ UNCHANGED pod
             \/ pod[p].pc = "absent" /\ pod' = [pod EXCEPT ![p] = [NoPod EXCEPT !.pc = "queued"]]
          /\ task' = IF Blamable(p, FALSE) THEN [task EXCEPT ![p[1]] = Blamed(p)] ELSE task
          /\ asked' = IF Blamable(p, FALSE) THEN AskedAfter(p[1], Blamed(p).status) ELSE asked
    /\ UNCHANGED <<runs, lease, starts, overtaken>>

(* refreshReverseTask(): a user asks for a check, also of a stopped task; the *)
(* check is launched at once                                                  *)
Refreshable(t) ==
    /\ Scheduled(t) /\ task[t].status \in Checkable
    /\ ~task[t].active
    /\ Open(task[t].sched.run)

(* A faulty variant: a second request stores the PENDING of the first one *)
Refresh_Forgets(t) ==
    /\ "refresh" \in Faults
    /\ Refreshable(t) /\ task[t].sched.attempt < setting.attempts
    /\ LET s == task[t].sched IN
       /\ task' = [task EXCEPT ![t].status = "PENDING",
                               ![t].sched = [s EXCEPT !.attempt = @ + 1, !.left = MaxPolls, !.due = TRUE,
                                                      !.suspended = FALSE, !.previous = task[t].status]]
       /\ scanned' = scanned \cup {<<t, s.attempt + 1>>}
    /\ asked' = IF task[t].status \in Terminal THEN asked \cup {t} ELSE asked
    /\ UNCHANGED <<runs, pod, lease, starts, overtaken>>

Refresh(t) ==
    /\ "refresh" \in Faults
    /\ Refreshable(t) /\ task[t].sched.attempt < setting.attempts
    /\ LET s == task[t].sched
           previous == IF task[t].status = "CANCELLED" \/ s.previous = None THEN task[t].status ELSE s.previous IN
       /\ task' = [task EXCEPT ![t].status = "PENDING",
                               ![t].sched = [s EXCEPT !.attempt = @ + 1, !.left = MaxPolls, !.due = TRUE,
                                                      !.suspended = FALSE, !.previous = previous]]
       /\ scanned' = scanned \cup {<<t, s.attempt + 1>>}
    /\ asked' = IF task[t].status \in Terminal THEN asked \cup {t} ELSE asked
    /\ UNCHANGED <<runs, pod, lease, starts, overtaken>>

-----------------------------------------------------------------------------
(* execute(): the runner.                                                    *)

Acquire(p) ==
    /\ Live(p) /\ pod[p].pc = "queued" /\ ~pod[p].stop /\ lease = None
    /\ lease' = p
    /\ Goto(p, "leased")
    /\ UNCHANGED <<task, runs, scanned, asked, starts, overtaken>>

(* The lease is held by another Pod: this one ends *)
Refused(p) ==
    /\ Live(p) /\ pod[p].pc = "queued" /\ lease # None
    /\ Die(p)
    /\ UNCHANGED <<task, runs, lease, scanned, asked, starts, overtaken>>

Release(p) == lease' = IF lease = p THEN None ELSE lease

Attached == {r \in DOMAIN runs : ~runs[r].ended /\ ~runs[r].detached}

(* Tasks.start() of a manual or scheduled Pod, and the choice of its run *)
Startable(t) ==
    /\ ~Exists(t)
    /\ \A u \in Tasks : Scheduled(u) /\ task[u].status = "PENDING"
         => \A r \in Attached : task[u].sched.run # r

StartRun(p) ==
    /\ Live(p) /\ pod[p].pc = "leased" /\ p[2] = -1
    /\ \/ /\ Startable(p[1])
          /\ task' = [task EXCEPT ![p[1]] = [seq |-> NextSeq, status |-> "RUNNING", worker |-> p,
                                             active |-> TRUE, previous |-> None, sched |-> None]]
          /\ \/ /\ \E r \in Attached :
                      /\ \A q \in Attached : q <= r
                      /\ pod' = [pod EXCEPT ![p].pc = "working", ![p].run = r]
                /\ UNCHANGED runs
             \/ /\ Attached = {} /\ Len(runs) < setting.runs
                /\ runs' = Append(runs, [ended |-> FALSE, detached |-> FALSE])
                /\ pod' = [pod EXCEPT ![p].pc = "working", ![p].run = Len(runs) + 1]
          /\ UNCHANGED lease
       \/ /\ ~Startable(p[1])
          /\ Die(p) /\ Release(p)
          /\ UNCHANGED <<task, runs>>
    /\ UNCHANGED <<scanned, asked, starts, overtaken>>

(* A faulty variant: the number of the check is not compared *)
StartCheck_AnyAttempt(p) ==
    LET t == p[1] IN
    /\ Live(p) /\ pod[p].pc = "leased" /\ p[2] >= 0 /\ Due(t)
    /\ task' = [task EXCEPT ![t].worker = p, ![t].active = TRUE, ![t].previous = task[t].status]
    /\ pod' = [pod EXCEPT ![p].pc = "working", ![p].run = task[t].sched.run]
    /\ starts' = [starts EXCEPT ![p] = @ + 1]
    /\ UNCHANGED <<runs, lease, scanned, asked, overtaken>>

(* Tasks.start() of a recovery Pod: the task must still want this check *)
StartCheck(p) ==
    LET t == p[1] IN
    /\ Live(p) /\ pod[p].pc = "leased" /\ p[2] >= 0
    /\ LET wanted == Due(t) /\ task[t].sched.attempt = p[2] IN
       \/ /\ wanted
          /\ task' = [task EXCEPT ![t].worker = p, ![t].active = TRUE,
                                  ![t].previous = IF task[t].sched.previous # None
                                                  THEN task[t].sched.previous ELSE task[t].status]
          /\ pod' = [pod EXCEPT ![p].pc = "working", ![p].run = task[t].sched.run]
          /\ starts' = [starts EXCEPT ![p] = @ + 1]
          /\ UNCHANGED lease
       \/ /\ ~wanted
          /\ Die(p) /\ Release(p)
          /\ UNCHANGED <<task, starts>>
    /\ UNCHANGED <<runs, scanned, asked, overtaken>>

(* Delivery outcomes reach the journal while the Pod works *)
Progress(p) ==
    /\ Live(p) /\ pod[p].pc = "working" /\ ~pod[p].changed
    /\ pod' = [pod EXCEPT ![p].changed = TRUE]
    /\ UNCHANGED <<task, runs, lease, scanned, asked, starts, overtaken>>

(* The end of a Pod: the row written by Tasks.finish() / refreshFailed(), if *)
(* it still is this Pod's, and the lease released                            *)
SignOff(p, may, row, news) ==
    /\ task' = IF may THEN [task EXCEPT ![p[1]] = row] ELSE task
    /\ asked' = IF may /\ news THEN asked \ {p[1]} ELSE IF may THEN AskedAfter(p[1], row.status) ELSE asked
    /\ Die(p)
    /\ Release(p)
    /\ UNCHANGED <<scanned, starts>>

(* A faulty variant: the status is not compared *)
MayFinish_AnyStatus(p) ==
    Owns(p)

(* Tasks.finish() may write *)
MayFinish(p) == Owns(p) /\ task[p[1]].status \in {"RUNNING", "PENDING"}

(* The schedule is kept for an explicit continuation only when the task fails *)
Finished(p, status) ==
    [task[p[1]] EXCEPT !.status = status, !.active = FALSE, !.previous = None,
                       !.sched = IF status = "FAILED" THEN @ ELSE None]

(* Tasks.wait(): the schedule of the latest task with this run is continued, as *)
(* RecoverySchedule.parse() reads it                                          *)
WithRun(r) == {t \in Tasks : Scheduled(t) /\ task[t].sched.run = r}
Latest(r) == CHOOSE t \in WithRun(r) : \A u \in WithRun(r) : task[u].seq <= task[t].seq

LastSchedule(p) ==
    LET r == pod[p].run IN
    IF WithRun(r) = {} THEN None
    ELSE [task[Latest(r)].sched EXCEPT !.suspended = FALSE, !.previous = None]

Waiting(p) ==
    LET last == LastSchedule(p)
        next == NextCheck(last, pod[p].run) IN
    IF next = None THEN [Finished(p, "FAILED") EXCEPT !.sched = last]
                   ELSE [Finished(p, "PENDING") EXCEPT !.sched = next]

Wait(p) ==
    /\ SignOff(p, MayFinish(p), Waiting(p), TRUE)
    /\ overtaken' = overtaken \cup {t \in {p[1]} : MayFinish(p) /\ Scheduled(t) /\ Latest(pod[p].run) # t}

(* Status of a Pod that does not end regularly *)
StopStatus(p) == IF pod[p].stop /\ ~pod[p].lost THEN "CANCELLED" ELSE "FAILED"

(* The run is committed, or cleaned up and to be started over ... *)
Commit(p) ==
    /\ Live(p) /\ pod[p].pc = "working"
    /\ runs' = [runs EXCEPT ![pod[p].run].ended = TRUE]
    /\ Goto(p, "delivered")
    /\ UNCHANGED <<task, lease, scanned, asked, starts, overtaken>>

(* ... and the task ended *)
EndDelivered(p) ==
    /\ Live(p) /\ pod[p].pc = "delivered"
    /\ \E status \in IF pod[p].stop THEN {StopStatus(p)} ELSE {"COMPLETE", "FAILED"} :
         SignOff(p, MayFinish(p), Finished(p, status), TRUE)
    /\ UNCHANGED <<runs, overtaken>>

(* Provider work is pending: detach() when the upload is complete ... *)
Detach(p) ==
    /\ Live(p) /\ pod[p].pc = "working" /\ ~pod[p].stop /\ Open(pod[p].run)
    /\ \E d \in BOOLEAN : runs' = [runs EXCEPT ![pod[p].run].detached = @ \/ d]
    /\ Goto(p, "waiting")
    /\ UNCHANGED <<task, lease, scanned, asked, starts, overtaken>>

(* ... then wait() *)
EndPending(p) ==
    /\ Live(p) /\ pod[p].pc = "waiting"
    /\ Wait(p)
    /\ UNCHANGED runs

(* Tasks.refreshFailed(): a check that changed nothing leaves the task as it was *)
MayRefreshFail(p) == Owns(p) /\ task[p[1]].status = "PENDING"

(* A faulty variant: behind the deadline the task fails without its schedule *)
RefreshFailed_DropsSchedule(p, stopChecks) ==
    LET row == task[p[1]]
        next == NextCheck(row.sched, pod[p].run) IN
    [row EXCEPT !.status = IF next = None THEN "FAILED" ELSE IF row.previous = None THEN @ ELSE row.previous,
                !.active = FALSE, !.previous = None,
                !.sched = IF next = None THEN None ELSE [next EXCEPT !.suspended = stopChecks]]

RefreshFailed(p, stopChecks) ==
    LET row == task[p[1]]
        next == NextCheck(row.sched, pod[p].run)
        suspended == stopChecks \/ next = None
        s == IF next = None THEN [row.sched EXCEPT !.previous = None] ELSE next IN
    [row EXCEPT !.status = IF row.previous = None THEN @ ELSE row.previous,
                !.active = FALSE, !.previous = None, !.sched = [s EXCEPT !.suspended = suspended]]

(* The catch block of execute(): the Pod was stopped, or failed *)
EndFailed(p) ==
    /\ Live(p)
    /\ \/ pod[p].pc = "working" /\ (pod[p].stop \/ "error" \in Faults)
       \/ pod[p].pc = "working" /\ "verdict" \in Faults
       \/ pod[p].pc = "waiting" /\ "database" \in Faults
    /\ LET check == p[2] >= 0 IN
       \/ /\ check /\ ~pod[p].changed
          /\ \E stopChecks \in BOOLEAN : SignOff(p, MayRefreshFail(p), RefreshFailed(p, stopChecks), FALSE)
          /\ UNCHANGED overtaken
       \/ /\ check /\ pod[p].changed /\ ~pod[p].stop
          /\ Wait(p)
       \/ /\ check => "verdict" \in Faults \/ (pod[p].changed /\ pod[p].stop)
          /\ SignOff(p, MayFinish(p), Finished(p, StopStatus(p)), TRUE)
          /\ UNCHANGED overtaken
    /\ UNCHANGED runs

(* tick(): the Pod finds that it lost the lease or the task, or cannot reach  *)
(* Kubernetes or the database; it takes either for a loss, and stops           *)
HeartbeatFails(p) ==
    /\ Live(p) /\ pod[p].pc = "working" /\ ~pod[p].lost
    /\ lease # p \/ ~MayFinish(p) \/ "report" \in Faults
    /\ pod' = [pod EXCEPT ![p].stop = TRUE, ![p].lost = TRUE]
    /\ UNCHANGED <<task, runs, lease, scanned, asked, starts, overtaken>>

-----------------------------------------------------------------------------
(* The controller and the environment.                                       *)

(* ReverseCancelHandler: the row, also of a task that is not created yet, and *)
(* the Pods of the task                                                       *)
Cancel(t) ==
    /\ "cancel" \in Faults
    /\ Exists(t) \/ pod[<<t, -1>>].pc \in {"queued", "leased"}
    /\ task' = [task EXCEPT ![t] =
          IF ~Exists(t)
          THEN ControllerRow("CANCELLED")
          ELSE IF @.status \in {"RUNNING", "PENDING"} THEN [@ EXCEPT !.status = "CANCELLED"] ELSE @]
    /\ Exists(t) => task[t].status \in {"RUNNING", "PENDING"}
    /\ pod' = [p \in Pods |-> IF p[1] = t /\ pod[p].pc \notin {"absent", "dead"} THEN [pod[p] EXCEPT !.stop = TRUE] ELSE pod[p]]
    /\ asked' = asked \ {t}
    /\ UNCHANGED <<runs, lease, scanned, starts, overtaken>>

(* closeStaleReverseTasks(): no heartbeat for two minutes *)
CloseStale(t) ==
    /\ Active(t) /\ task[t].status \in {"RUNNING", "PENDING"}
    /\ LET p == task[t].worker
           row == IF task[t].status = "RUNNING" THEN [task[t] EXCEPT !.status = "FAILED", !.active = FALSE]
                  ELSE Blamed(p) IN
       /\ pod[p].stalled \/ pod[p].pc \in {"absent", "dead"}
       /\ task[t].status = "PENDING" => Blamable(p, TRUE)
       /\ task' = [task EXCEPT ![t] = row]
       /\ asked' = AskedAfter(t, row.status)
    /\ UNCHANGED <<runs, pod, lease, scanned, starts, overtaken>>

(* failReverseWorker(): the watcher hears, perhaps late, that a Pod failed;   *)
(* the object may be gone already                                             *)
FailWorker(p) ==
    LET t == p[1] IN
    /\ pod[p].pc = "dead"
    /\ \/ /\ p[2] >= 0
          /\ task' = IF Blamable(p, TRUE) THEN [task EXCEPT ![t] = Blamed(p)] ELSE task
          /\ asked' = IF Blamable(p, TRUE) THEN AskedAfter(t, Blamed(p).status) ELSE asked
       \/ /\ p[2] = -1
          /\ task' = [task EXCEPT ![t] =
                IF ~Exists(t) THEN ControllerRow("FAILED")
                ELSE IF @.status = "RUNNING" /\ @.worker \in {p, None} THEN [@ EXCEPT !.status = "FAILED"] ELSE @]
          /\ UNCHANGED asked
    /\ UNCHANGED <<runs, pod, lease, scanned, starts, overtaken>>

(* The Pod watcher deletes the object of a Pod that ended; a late launch may  *)
(* create it again                                                            *)
DeletePod(p) ==
    /\ pod[p].pc = "dead" /\ p[2] >= 0
    /\ pod' = [pod EXCEPT ![p] = NoPod]
    /\ UNCHANGED <<task, runs, lease, scanned, asked, starts, overtaken>>

(* endedReverseTasks(): a Pod whose task ended or moved on is terminated *)
Superseded(p) ==
    LET t == p[1] IN
    /\ Exists(t)
    /\ \/ task[t].status \in Terminal
       \/ /\ task[t].status = "PENDING"
          /\ \/ task[t].worker = p /\ ~task[t].active
             \/ task[t].worker # p /\ (task[t].active \/ p[2] # task[t].sched.attempt)
       \/ task[t].status = "RUNNING" /\ task[t].worker # p

Terminate(p) ==
    /\ pod[p].pc \notin {"absent", "dead"} /\ ~pod[p].stop
    /\ Superseded(p) \/ "signal" \in Faults
    /\ pod' = [pod EXCEPT ![p].stop = TRUE]
    /\ UNCHANGED <<task, runs, lease, scanned, asked, starts, overtaken>>

(* A Pod that is told to stop before it asks for the lease ends *)
Stopped(p) ==
    /\ Live(p) /\ pod[p].pc = "queued" /\ pod[p].stop
    /\ Die(p)
    /\ UNCHANGED <<task, runs, lease, scanned, asked, starts, overtaken>>

(* The Pod dies: of itself, or by the 45-second watchdog; the lease stays *)
Crash(p) ==
    /\ "crash" \in Faults /\ pod[p].pc \notin {"absent", "dead"}
    /\ Die(p)
    /\ UNCHANGED <<task, runs, lease, scanned, asked, starts, overtaken>>

Stall(p) ==
    /\ "stall" \in Faults /\ Live(p)
    /\ pod' = [pod EXCEPT ![p].stalled = TRUE]
    /\ UNCHANGED <<task, runs, lease, scanned, asked, starts, overtaken>>

Wake(p) ==
    /\ pod[p].stalled /\ pod[p].pc # "dead"
    /\ pod' = [pod EXCEPT ![p].stalled = FALSE]
    /\ UNCHANGED <<task, runs, lease, scanned, asked, starts, overtaken>>

(* The lease of a Pod that does not renew it runs out *)
ExpireLease ==
    /\ lease # None /\ (pod[lease].stalled \/ pod[lease].pc \in {"absent", "dead"})
    /\ lease' = None
    /\ UNCHANGED <<task, runs, pod, scanned, asked, starts, overtaken>>

(* The time of the next check comes *)
Tick(t) ==
    /\ Scheduled(t) /\ ~task[t].sched.due
    /\ task' = [task EXCEPT ![t].sched.due = TRUE]
    /\ UNCHANGED <<runs, pod, lease, scanned, asked, starts, overtaken>>

Work(p) ==
    \/ Acquire(p) \/ Refused(p) \/ StartRun(p) \/ StartCheck(p)
    \/ Commit(p) \/ EndDelivered(p) \/ Detach(p) \/ EndPending(p) \/ EndFailed(p) \/ HeartbeatFails(p) \/ Stopped(p)

Controller(t) == Scan(t) \/ CloseStale(t) \/ Tick(t)

Step ==
    \/ \E t \in Tasks : LaunchRun(t) \/ Refresh(t) \/ Cancel(t) \/ Controller(t)
    \/ \E p \in Pods :
         \/ LaunchCheck(p) \/ Work(p) \/ Progress(p)
         \/ FailWorker(p) \/ DeletePod(p) \/ Terminate(p) \/ Crash(p) \/ Stall(p) \/ Wake(p)
    \/ ExpireLease

Next == Step /\ UNCHANGED setting

Spec == Init /\ [][Next]_vars

(* Pods make progress, clocks advance, the controller keeps scanning, and a   *)
(* Pod that failed is heard of: the watcher reports it before it deletes it.  *)
FairSpec ==
    /\ Spec
    /\ \A t \in Tasks : WF_state(Scan(t)) /\ WF_state(CloseStale(t)) /\ WF_state(Tick(t))
    /\ \A p \in Pods : /\ WF_state(LaunchCheck(p)) /\ WF_state(DeletePod(p)) /\ SF_state(FailWorker(p))
                       /\ WF_state(Work(p))
    /\ WF_state(ExpireLease)

-----------------------------------------------------------------------------
(* Properties.                                                               *)

(* Types of the state. *)
TypeOK ==
    /\ task \in [Tasks -> TaskRows \cup {None}]
    /\ runs \in Seq([ended : BOOLEAN, detached : BOOLEAN]) /\ Len(runs) <= MaxRuns
    /\ pod \in [Pods -> [pc : {"absent", "queued", "leased", "working", "delivered", "waiting", "dead"},
                         run : 0 .. MaxRuns, changed : BOOLEAN, lost : BOOLEAN, stalled : BOOLEAN, stop : BOOLEAN]]
    /\ lease \in Pods \cup {None}
    /\ scanned \subseteq Pods /\ asked \subseteq Tasks /\ overtaken \subseteq Tasks
    /\ starts \in [Pods -> Nat]

(* "Repeated scans and controller replicas cannot create different tasks for   *)
(* the same check" (runtime.md): a check is worked on at most once, also when  *)
(* its Pod is created again after it ended (Tasks.start, tasks.ts).            *)
CheckedOnce == \A p \in Pods : starts[p] <= 1

(* ... which is so unless a task that waits takes over the schedule of a later *)
(* task of the same run (Tasks.wait): its number may then be one of the past.  *)
EachCheckOnce == \A p \in Pods : p[1] \notin overtaken => starts[p] <= 1

(* "Failed explicit checks preserve the prior task status": a stopped task a   *)
(* user had checked goes back to being stopped when the check tells nothing    *)
(* new, whoever records the failure.                                           *)
StopsAreRestored ==
    \A t \in asked : Exists(t) /\ task[t].status = "PENDING" =>
        (IF task[t].active THEN task[t].previous ELSE task[t].sched.previous) \in Terminal

(* ... which is so as long as no check ends as a failure of the task, after    *)
(* which the schedule keeps the status stored for it (tasks.ts, finish): by a  *)
(* final verdict, because a Pod that stalled lost the lease, or because one    *)
(* heartbeat failed after the check had changed something (execute.ts, tick).  *)
RestoredWithoutVerdict == Faults \cap {"verdict", "stall", "report"} = {} => StopsAreRestored

(* A task that ended is only reopened by a user's request.                     *)
OnlyUsersReopen ==
    [][\A t \in Tasks : Exists(t) /\ task[t].status \in Terminal /\ task'[t].status \notin Terminal
         => asked' # asked]_vars

(* A logical run that is not over can be continued: by the next attempt, by    *)
(* its task's checks, or by a user's request for one.                          *)
RunsStayReachable ==
    \A r \in DOMAIN runs : Open(r) =>
        \/ r \in Attached
        \/ \E t \in Tasks : Scheduled(t) /\ task[t].sched.run = r /\ (task[t].status = "PENDING" \/ Refreshable(t))
        \/ \E p \in Pods : Live(p) /\ pod[p].run = r /\ Owns(p)

(* "A committed delivery cannot be polled again; subsequent bookkeeping errors  *)
(* must not restore PENDING against a terminal persistence control"           *)
(* (execute.ts): no task waits for a run that is over.                         *)
NoWaitForEnded ==
    \A t \in Tasks : Exists(t) /\ task[t].status = "PENDING" /\ ~task[t].active => Open(task[t].sched.run)

(* "Manual/cron admission cannot create another task for an existing pending   *)
(* non-detached run": no two tasks wait for the same run.                      *)
OneTaskPerRun ==
    \A t, u \in Tasks :
        t # u /\ Scheduled(t) /\ Scheduled(u) /\ task[t].sched.run = task[u].sched.run
            => ~(task[t].status = "PENDING" /\ task[u].status = "PENDING")

(* No Pod is interrupted between its transaction on the run and that on the    *)
(* task, be it by a heartbeat that fails for the moment, and no user restarts  *)
(* a failed task.                                                              *)
Uninterrupted == Faults \subseteq {"error", "launch"}

(* Then runs and tasks stay together: every open run can be continued, no task *)
(* waits for a run that is over, and no two tasks wait for the same one.       *)
TogetherUninterrupted == Uninterrupted => RunsStayReachable /\ NoWaitForEnded /\ OneTaskPerRun

(* Checks are bounded: a task that waits is settled, or its checks stop at the *)
(* deadline, unless its run has been ended by then.                            *)
PollingEnds ==
    \A t \in Tasks :
        (Exists(t) /\ task[t].status = "PENDING") ~>
            \/ Exists(t) /\ task[t].status \in Terminal
            \/ Scheduled(t) /\ (task[t].sched.suspended \/ ~Open(task[t].sched.run))
=============================================================================
